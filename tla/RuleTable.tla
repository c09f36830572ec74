----------------------------- MODULE RuleTable ------------------------------
(***************************************************************************)
(* src/deserialization_misc.c: making a deserialization context of a list  *)
(* of rules (yajp_deserialization_context_init), and finding the rule of a *)
(* name (yajp_find_action).  Making it is one rule at a time, and within   *)
(* the growth of the table one bucket at a time.  A name is the sequence   *)
(* of its bytes; the table knows it by its hash alone.                     *)
(***************************************************************************)
EXTENDS HashTable, SequencesExt

CONSTANTS
    RuleLists,   \* the lists of rules to try, a rule given by its name
    Names,       \* the names that may be asked for
    HashSize     \* number of hashes, 2^32 in the code

ASSUME RuleTableAssumption ==
    /\ HashSize \in Nat \ {0}
    /\ \A list \in RuleLists : list \in Seq(Seq(1..255)) /\ UpperBound(389) > Len(list)
    /\ Names \subseteq Seq(1..255)

VARIABLES
    rules,    \* names of the rules given to context_init, in their order
    h,        \* the hash map
    growth,   \* the growth under way
    i,        \* the rule to put next
    status,   \* "making", "growing", "ready" or "failed"
    asked,    \* the name last asked for
    answer    \* its rule, 0 for NULL

vars == <<rules, h, growth, i, status, asked, answer>>

NoName == <<0>>

\* __ac_X31_hash_string.  A name that the lexer has found empty has a zero for
\* its first byte: the buffer of the token was cleared (yajp_lexer_release_token).
Hash(name) ==
    LET hash[k \in 0..Len(name)] == IF k = 0 THEN 0 ELSE (31 * hash[k - 1] + name[k]) % HashSize
    IN  hash[Len(name)]

Key(r) == Hash(rules[r])

Init ==
    /\ rules \in RuleLists
    /\ h = NoTable
    /\ growth = NoGrowth
    /\ i = 0
    /\ status = "making"
    /\ asked = NoName /\ answer = 0

\* kh_init, kh_resize to the number of rules.
Create ==
    /\ status = "making" /\ i = 0
    /\ h' = EmptyTable(Len(rules))
    /\ i' = 1
    /\ UNCHANGED <<rules, growth, status, asked, answer>>

\* Variant: a rule whose key is there is tried again.
PutRetried ==
    /\ status = "making" /\ i \in 1..Len(rules) /\ h.size < UpperBound(h.n)
    /\ ~Has(h, Key(i))
    /\ h' = With(h, Key(i), i) /\ i' = i + 1 /\ status' = status
    /\ UNCHANGED <<rules, growth, asked, answer>>

\* A rule whose key is in the table already: kh_del, kh_destroy, and no context.
Put ==
    /\ status = "making" /\ i \in 1..Len(rules) /\ h.size < UpperBound(h.n)
    /\ IF Has(h, Key(i))
       THEN h' = NoTable /\ status' = "failed" /\ i' = i
       ELSE h' = With(h, Key(i), i) /\ i' = i + 1 /\ status' = status
    /\ UNCHANGED <<rules, growth, asked, answer>>

\* Before kh_put, more buckets: with as many keys there are fewer than twice as
\* many buckets, so it never asks for less.
Grow ==
    /\ status = "making" /\ i \in 1..Len(rules) /\ h.size >= UpperBound(h.n)
    /\ LET n == BucketsFor(h.n + 1)
       IN  h' = Extended(h, n) /\ growth' = Growth(n)
    /\ status' = "growing"
    /\ UNCHANGED <<rules, i, asked, answer>>

\* The next live bucket of the old table is moved.
PickUp ==
    /\ status = "growing" /\ growth.hand = NoHand /\ Live(h) # {}
    /\ LET b == Min(Live(h))
       IN  /\ h' = Moved(h, b)
           /\ growth' = [growth EXCEPT !.hand = [key |-> h.keys[b], val |-> h.vals[b]]]
    /\ UNCHANGED <<rules, i, status, asked, answer>>

\* Variants: the key that is in the place is overwritten; it stays live.
PutDownOver ==
    /\ status = "growing" /\ growth.hand # NoHand
    /\ h' = Stored(h, Place(growth), growth.hand)
    /\ growth' = Placed(growth, NoHand)
    /\ UNCHANGED <<rules, i, status, asked, answer>>

PutDownUnmoved ==
    /\ status = "growing" /\ growth.hand # NoHand
    /\ LET b == Place(growth)
           kicked == [key |-> h.keys[b], val |-> h.vals[b]]
       IN  /\ h' = Stored(h, b, growth.hand)
           /\ growth' = Placed(growth, IF b \in Live(h) THEN kicked ELSE NoHand)
    /\ UNCHANGED <<rules, i, status, asked, answer>>

\* The key in hand is placed, and the live one that was there is in hand now.
PutDown ==
    /\ status = "growing" /\ growth.hand # NoHand
    /\ LET b == Place(growth)
           kicked == [key |-> h.keys[b], val |-> h.vals[b]]
       IN  IF b \in Live(h)
           THEN h' = Moved(Stored(h, b, growth.hand), b) /\ growth' = Placed(growth, kicked)
           ELSE h' = Stored(h, b, growth.hand) /\ growth' = Placed(growth, NoHand)
    /\ UNCHANGED <<rules, i, status, asked, answer>>

FinishGrowth ==
    /\ status = "growing" /\ growth.hand = NoHand /\ Live(h) = {}
    /\ h' = Grown(h, growth)
    /\ growth' = NoGrowth
    /\ status' = "making"
    /\ UNCHANGED <<rules, i, asked, answer>>

\* ctx->rules is set.  The result is that of the last kh_put; without a rule it
\* is read from a variable nobody has written.
Made ==
    /\ status = "making" /\ i = Len(rules) + 1
    /\ status' \in IF rules = <<>> THEN {"ready", "failed"} ELSE {"ready"}
    /\ UNCHANGED <<rules, h, growth, i, asked, answer>>

Making == Create \/ Put \/ Grow \/ PickUp \/ PutDown \/ FinishGrowth \/ Made

\* yajp_find_action.
Find(name) ==
    /\ status = "ready"
    /\ asked' = name
    /\ answer' = IF Has(h, Hash(name)) THEN h.vals[SiteOf(h, Hash(name))] ELSE 0
    /\ UNCHANGED <<rules, h, growth, i, status>>

Next == Making \/ \E name \in Names : Find(name)

\* context_init is called once and runs to its end.
Spec == Init /\ [][Next]_vars /\ WF_vars(Making)
-----------------------------------------------------------------------------
(* Properties *)

\* The counter of keys counts them, and at least one bucket is empty: the loop
\* that places a key in a growing table has no other end (src/khash.h:213).
TypeOK ==
    /\ h.n \in Primes \cup {0}
    /\ status # "growing" => h.size = Cardinality(Live(h))
    /\ h.n > 0 => h.size < h.n
    /\ \A b \in DOMAIN h.flags : h.flags[b] \in {"empty", "live"} \cup (IF status = "growing" THEN {"moved"} ELSE {})
    /\ i \in 0..(Len(rules) + 1) /\ answer \in 0..Len(rules)
    /\ status \in {"making", "growing", "ready", "failed"}

\* In every state, also in the middle of its growth, the table holds each rule
\* that was put exactly once and under its own key: in a live bucket of the old
\* table, in a taken one of the new, or in hand (src/khash.h:203-230).
OldHeld == {[key |-> h.keys[b], val |-> h.vals[b], at |-> b] : b \in Live(h)}
NewHeld == {[key |-> h.keys[b], val |-> h.vals[b], at |-> b] :
              b \in {c \in DOMAIN growth.flags : growth.flags[c] = "live" /\ c \notin Live(h)}}
InHand == IF growth.hand = NoHand THEN {} ELSE {[key |-> growth.hand.key, val |-> growth.hand.val, at |-> -1]}

NothingLost ==
    status # "failed" =>
        LET held == OldHeld \cup NewHeld \cup InHand
        IN  /\ Cardinality(held) = i - (IF i = 0 THEN 0 ELSE 1)
            /\ \A r \in 1..(i - 1) : \E x \in held : x.val = r /\ x.key = Key(r)

\* No name, of a rule or asked for, has the hash of a rule of another name.
NoCollisions ==
    \A list \in RuleLists : \A r \in 1..Len(list) : \A name \in Names \cup {list[q] : q \in 1..Len(list)} :
        Hash(list[r]) = Hash(name) => list[r] = name

\* To its users a context is the map from names to rules, as long as no two of
\* the names have one hash (README.md:68-70; src/deserialization_misc.c:34-73).
\* A context that cannot be made is refused, one that can is made in the end.
Map == INSTANCE RuleMap WITH status <- IF status = "growing" THEN "making" ELSE status

ImplementsRuleMap == Map!Spec
=============================================================================
