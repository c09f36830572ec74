---------------------------- MODULE ScannerProofs ----------------------------
(***************************************************************************)
(* Proofs about Scanner, for lexemes of every length: where the cursor and *)
(* the mark may be, that no byte is looked at before it was asked for, and *)
(* that the token returned is the longest one the rules find.              *)
(***************************************************************************)
EXTENDS Scanner, TokenRulesProofs

\* At a label the bytes that its worst way has asked for are still there.
IInv ==
    /\ TypeOK
    /\ state \in Looking => length <= MaxLength /\ ensured >= Ensured(state)
-----------------------------------------------------------------------------
(* The rules.                                                              *)

RulesOnly(set) == \A i \in set : i.rule \in DOMAIN Rules

\* The items of the beginning are of rules.
LEMMA OpenRules == RulesOnly(Open)
  BY DEF RulesOnly, Open

\* A byte takes no item to another rule.
LEMMA AfterRules ==
    ASSUME NEW set, RulesOnly(set), NEW byte
    PROVE  RulesOnly(After(set, byte))
  BY DEF RulesOnly, After

\* The longest token is of a rule that was still possible, or the one before.
LEMMA LongestRule ==
    ASSUME NEW set, RulesOnly(set), NEW n,
           NEW old, old.rule \in Kinds, old.length \in 1..(MaxLength + 1), n \in 1..(MaxLength + 1)
    PROVE  Longest(old, set, n).rule \in Kinds /\ Longest(old, set, n).length \in 1..(MaxLength + 1)
<1>1. CASE \E i \in set : Complete(i)
  <2> DEFINE found == CHOOSE i \in set : Complete(i)
  <2>1. found \in set
    BY <1>1
  <2> HIDE DEF found
  <2>2. Longest(old, set, n) = [rule |-> found.rule, length |-> n]
    BY <1>1, Zenon DEF Longest, found
  <2>3. QED
    BY <2>1, <2>2 DEF RulesOnly, Kinds
<1>2. CASE ~\E i \in set : Complete(i)
  BY <1>2 DEF Longest
<1>3. QED
  BY <1>1, <1>2
-----------------------------------------------------------------------------
(* The steps.                                                              *)

\* What every step that looks at a byte does to the rules.
LEMMA MatchType ==
    ASSUME ScannerAssumption, TypeOK, NEW byte, Match(byte), length <= MaxLength
    PROVE  /\ \A i \in items' : i.rule \in DOMAIN Rules
           /\ best'.rule \in Kinds /\ best'.length \in 1..(MaxLength + 1)
<1>1. RulesOnly(items) /\ length \in Nat /\ MaxLength \in Nat
  BY DEF TypeOK, RulesOnly, ScannerAssumption
<1>2. length + 1 \in 1..(MaxLength + 1)
  BY <1>1
<1>3. items' = After(items, byte) /\ best' = Longest(best, items', length + 1)
  BY DEF Match
<1>4. RulesOnly(items')
  BY <1>1, <1>3, AfterRules
<1>5. best.rule \in Kinds /\ best.length \in 1..(MaxLength + 1)
  BY DEF TypeOK
<1>6. QED
  BY <1>2, <1>3, <1>4, <1>5, LongestRule DEF RulesOnly

\* What an end of the graph returns is a rule or an error.
LEMMA EndKinds == \A label \in DOMAIN Ends : Ends[label] \in Kinds
  BY DEF Ends, Kinds, Rules, Fallback

\* How many bytes the labels ask for and rely on.
LEMMA EnsuredRange ==
    ASSUME NEW label
    PROVE  Ensured(label) \in 1..5 /\ Needs(label) \in 0..5 /\ Ensured("start") <= Needs("start")
  BY DEF Ensured, Needs

\* The invariant holds before the first token.
LEMMA InitIInv == ScannerAssumption /\ Init => IInv
<1> SUFFICES ASSUME ScannerAssumption, Init PROVE IInv
  OBVIOUS
<1>1. "loop" \notin Looking
  BY LabelsAre DEF Labels
<1>2. \A i \in items : i.rule \in DOMAIN Rules
  BY OpenRules DEF Init, RulesOnly
<1>3. QED
  BY <1>1, <1>2 DEF Init, IInv, TypeOK, Nothing, NothingYet, Kinds, ScannerAssumption

\* A token begins.
LEMMA BeginIInv ==
    ASSUME ScannerAssumption, IInv, Begin
    PROVE  IInv'
<1>1. "start" \in Looking
  BY LabelsAre DEF Labels
<1>2. /\ \A i \in items' : i.rule \in DOMAIN Rules
      /\ best'.rule \in Kinds /\ best'.length \in 1..(MaxLength + 1)
      /\ result'.rule \in Kinds \cup {"none"} /\ result'.length \in 0..(MaxLength + 1)
  BY OpenRules DEF Begin, RulesOnly, Nothing, NothingYet, Kinds, ScannerAssumption
<1>3. /\ state' = "start" /\ length' = 0 /\ marker' = 0 /\ yyaccept' = 0 /\ ensured' = Needs("start")
  BY DEF Begin
<1>4. Needs("start") \in 0..5 /\ Needs("start") >= Ensured("start")
  BY DEF Needs, Ensured
<1>5. QED
  BY <1>1, <1>2, <1>3, <1>4 DEF IInv, TypeOK, ScannerAssumption

\* A byte is passed, and the label it leads to may ask for more.
LEMMA ScanIInv ==
    ASSUME ScannerAssumption, IInv, Scan
    PROVE  IInv'
<1>1. PICK byte \in Input : Pass(byte)
  BY DEF Scan
<1>2. /\ state \in Looking /\ length \in Nat /\ length <= MaxLength /\ MaxLength \in Nat /\ marker \in 0..length
      /\ ensured \in 0..5 /\ ensured >= Ensured(state) /\ yyaccept \in {0, 1}
      /\ result.rule \in Kinds \cup {"none"} /\ result.length \in 0..(MaxLength + 1)
  BY DEF Scan, IInv, TypeOK, ScannerAssumption
<1>3. /\ \A i \in items' : i.rule \in DOMAIN Rules
      /\ best'.rule \in Kinds /\ best'.length \in 1..(MaxLength + 1)
  BY <1>1, <1>2, MatchType DEF Pass, IInv
<1>4. PICK label \in Leads(byte) :
          /\ length' = length + 1
          /\ marker' = IF label \in Marks THEN length + 1 ELSE marker
          /\ yyaccept' = IF label \notin Marks THEN yyaccept
                         ELSE IF label \in {"yy16", "yy18", "yy47"} THEN 1 ELSE 0
          /\ ensured' = IF ensured - 1 < Needs(label) THEN Needs(label) ELSE ensured - 1
          /\ IF label \in DOMAIN Ends
             THEN state' = "loop" /\ result' = [rule |-> Ends[label], length |-> length + 1]
             ELSE state' = label /\ UNCHANGED result
  BY <1>1 DEF Pass
<1>5. PICK e \in Edges[state] : byte \in e[1] /\ label = e[2]
  BY DEF Leads
<1>6. Leading(state, label) /\ (byte = "NUL" => label = "yy2")
  BY <1>2, <1>5, EdgesAre
<1>7. label \in Looking \/ label \in DOMAIN Ends
  BY <1>6, LabelsAre DEF Leading, Labels, Ends
<1>8. Needs(label) \in 0..5 /\ Ensured(label) \in 1..5 /\ Ensured(state) \in 1..5
  BY EnsuredRange
<1>9. ensured' \in 0..5 /\ yyaccept' \in {0, 1}
  BY <1>2, <1>4, <1>8
<1>10. length' \in 0..(MaxLength + 1) /\ marker' \in 0..length'
  BY <1>2, <1>4
<1>11. CASE label \in DOMAIN Ends
  <2>1. state' = "loop" /\ result' = [rule |-> Ends[label], length |-> length + 1]
    BY <1>4, <1>11
  <2>2. Ends[label] \in Kinds /\ length + 1 \in 0..(MaxLength + 1)
    BY <1>2, <1>11, EndKinds
  <2>3. "loop" \notin Looking
    BY LabelsAre DEF Labels
  <2>4. QED
    BY <1>3, <1>9, <1>10, <2>1, <2>2, <2>3 DEF IInv, TypeOK
<1>12. CASE label \notin DOMAIN Ends
  <2>1. label \in Looking /\ state' = label /\ result' = result
    BY <1>4, <1>7, <1>12
\* The zero that ends the longest lexemes leads to no label that looks on.
  <2>2. byte # "NUL"
    BY <1>6, <1>12 DEF Ends
  <2>3. length < MaxLength
    BY <1>1, <2>2 DEF Input
  <2>4. length' <= MaxLength
    BY <1>2, <1>4, <2>3
  <2>5. Ensured(state) - 1 >= Ensured(label) \/ Needs(label) >= Ensured(label)
    BY <1>2, <1>5, <2>1, EnsuredOnTheWay
  <2>6. ensured' >= Ensured(label)
    BY <1>2, <1>4, <1>8, <2>5
  <2>7. QED
    BY <1>2, <1>3, <1>9, <1>10, <2>1, <2>4, <2>6 DEF IInv, TypeOK
<1>13. QED
  BY <1>11, <1>12

\* A lexeme that ends before the byte looked at, or at the mark.
LEMMA LeavesIInv ==
    ASSUME ScannerAssumption, IInv, state \in Looking, NEW byte, Match(byte),
           NEW rule \in Kinds, NEW at \in 0..length, at >= marker, Leaves(rule, at)
    PROVE  IInv'
<1>1. /\ length \in Nat /\ length <= MaxLength /\ MaxLength \in Nat /\ marker \in 0..length
      /\ ensured \in 0..5 /\ yyaccept \in {0, 1}
  BY DEF IInv, TypeOK, ScannerAssumption
<1>2. /\ \A i \in items' : i.rule \in DOMAIN Rules
      /\ best'.rule \in Kinds /\ best'.length \in 1..(MaxLength + 1)
  BY <1>1, MatchType DEF IInv
<1>3. /\ state' = "loop" /\ length' = at /\ result' = [rule |-> rule, length |-> at]
      /\ marker' = marker /\ yyaccept' = yyaccept /\ ensured' = ensured
  BY DEF Leaves
<1>4. "loop" \notin Looking
  BY LabelsAre DEF Labels
<1>5. at \in 0..(MaxLength + 1) /\ marker \in 0..at
  BY <1>1
<1>6. QED
  BY <1>1, <1>2, <1>3, <1>4, <1>5 DEF IInv, TypeOK

\* What a lexeme that was cut off is returned as.
LEMMA LeftKinds == {"ws", "nl", "NUMBER", "error"} \subseteq Kinds
  BY DEF Kinds, Rules, Fallback

\* A token ends where the scanner stands.
LEMMA StopIInv ==
    ASSUME ScannerAssumption, IInv, Stop
    PROVE  IInv'
<1>1. PICK byte \in Input :
        /\ Match(byte)
        /\ Leaves(CASE state \in DOMAIN Spaces -> Spaces[state]
                    [] state \in Numbers -> "NUMBER"
                    [] OTHER -> "error", length)
  BY DEF Stop
<1>2. state \in Looking /\ length \in 0..length /\ length >= marker
  BY LabelsAre DEF Stop, Labels, Spaces, Numbers, FirstBytes, IInv, TypeOK
<1>3. (CASE state \in DOMAIN Spaces -> Spaces[state]
         [] state \in Numbers -> "NUMBER"
         [] OTHER -> "error") \in Kinds
  BY LeftKinds DEF Spaces
<1>4. QED
  BY <1>1, <1>2, <1>3, LeavesIInv

\* A number that went wrong ends at the last mark.
LEMMA BacktrackIInv ==
    ASSUME ScannerAssumption, IInv, Backtrack
    PROVE  IInv'
<1>1. PICK byte \in Input :
        Match(byte) /\ Leaves(IF yyaccept = 0 THEN "error" ELSE "NUMBER", marker)
  BY DEF Backtrack
<1>2. state \in Looking /\ marker \in 0..length /\ marker >= marker
  BY DEF Backtrack, IInv, TypeOK
<1>3. (IF yyaccept = 0 THEN "error" ELSE "NUMBER") \in Kinds
  BY LeftKinds
<1>4. QED
  BY <1>1, <1>2, <1>3, LeavesIInv

\* Every step keeps the invariant.
LEMMA StepIInv == ScannerAssumption /\ IInv /\ [Next]_vars => IInv'
<1> SUFFICES ASSUME ScannerAssumption, IInv, [Next]_vars PROVE IInv'
  OBVIOUS
<1>1. CASE Begin
  BY <1>1, BeginIInv
<1>2. CASE Scan
  BY <1>2, ScanIInv
<1>3. CASE Stop
  BY <1>3, StopIInv
<1>4. CASE Backtrack
  BY <1>4, BacktrackIInv
<1>5. CASE UNCHANGED vars
  BY <1>5 DEF vars, codeVars, ruleVars, IInv, TypeOK
<1>6. QED
  BY <1>1, <1>2, <1>3, <1>4, <1>5 DEF Next

\* The invariant holds in every state, for lexemes of every length.
THEOREM Invariance == Spec => []IInv
  BY InitIInv, StepIInv, ScannerAssumption, PTL DEF Spec
-----------------------------------------------------------------------------
(* What the run checks, for lexemes of every length.                       *)

\* Cursor and mark stay within the lexeme, and what is returned is a rule's token.
THEOREM TypeCorrect == Spec => []TypeOK
<1>1. IInv => TypeOK
  BY DEF IInv
<1>2. QED
  BY <1>1, Invariance, PTL

\* No byte is looked at that yajp_lexer_fill_input was not asked for: the calls
\* that re2c left out of the graph are made on every way to where they count.
THEOREM AskedFor == Spec => []LooksAtWhatItAskedFor
<1>1. IInv => LooksAtWhatItAskedFor
  BY EnsuredRange DEF IInv, TypeOK, LooksAtWhatItAskedFor
<1>2. QED
  BY <1>1, Invariance, PTL
-----------------------------------------------------------------------------
(* The longest token.                                                      *)

\* At these labels the mark says nothing: nothing is marked yet, or the token may
\* end where the scanner stands.
Unmarked == {"start", "yy15", "yy50"} \cup DOMAIN Spaces

\* The label the scanner is at stands for all that may still come of the rules,
\* and the longest token so far is at the cursor or at the mark.
InTheRules ==
    /\ state = "start" => items = Open /\ best = NothingYet /\ length = 0
    /\ state \in Looking \ {"start"} =>
         \E rule, rests :
            /\ Stands(state, rule, rests) /\ items = ItemsOf(rule, rests)
            /\ state \in DOMAIN Spaces \cup Numbers => best = [rule |-> rule, length |-> length]
    /\ state \in FirstBytes => length = 1 /\ best = NothingYet
    /\ state \in Looking \ Unmarked =>
         best = [rule |-> IF yyaccept = 0 THEN "error" ELSE "NUMBER", length |-> marker]
    /\ LongestMatch

\* The longest token where one rule may go on.
LEMMA LongestOf ==
    ASSUME NEW old, NEW rule, NEW set, NEW n
    PROVE  Longest(old, ItemsOf(rule, set), n) = IF CanEnd(set) THEN [rule |-> rule, length |-> n] ELSE old
<1>1. (\E i \in ItemsOf(rule, set) : Complete(i)) <=> CanEnd(set)
  <2>1. ASSUME NEW i \in ItemsOf(rule, set), Complete(i)
        PROVE  CanEnd(set)
    <3>1. PICK c \in set : i = [rule |-> rule, rest |-> c]
      BY <2>1 DEF ItemsOf
    <3>2. i.rest = c
      BY <3>1
    <3>3. \A k \in 1..Len(c) : c[k].many
      BY <2>1, <3>2 DEF Complete
    <3>4. QED
      BY <3>3 DEF CanEnd
  <2>2. ASSUME CanEnd(set)
        PROVE  \E i \in ItemsOf(rule, set) : Complete(i)
    <3>1. PICK c \in set : \A k \in 1..Len(c) : c[k].many
      BY <2>2 DEF CanEnd
    <3> DEFINE i == [rule |-> rule, rest |-> c]
    <3>2. i \in ItemsOf(rule, set) /\ i.rest = c
      BY DEF ItemsOf
    <3> HIDE DEF i
    <3>3. Complete(i)
      BY <3>1, <3>2 DEF Complete
    <3>4. QED
      BY <3>2, <3>3
  <2>3. QED
    BY <2>1, <2>2
<1>2. CASE CanEnd(set)
  <2> DEFINE found == CHOOSE i \in ItemsOf(rule, set) : Complete(i)
  <2>1. found \in ItemsOf(rule, set)
    BY <1>1, <1>2
  <2> HIDE DEF found
  <2>2. found.rule = rule
    <3>1. PICK c \in set : found = [rule |-> rule, rest |-> c]
      BY <2>1 DEF ItemsOf
    <3>2. QED
      BY <3>1
  <2>3. Longest(old, ItemsOf(rule, set), n) = [rule |-> found.rule, length |-> n]
    BY <1>1, <1>2, Zenon DEF Longest, found
  <2>4. QED
    BY <1>2, <2>2, <2>3
<1>3. CASE ~CanEnd(set)
  BY <1>1, <1>3 DEF Longest
<1>4. QED
  BY <1>2, <1>3

\* Where a label stands, its rule may end or not, and goes on as the graph does.
LEMMA StandsAt ==
    ASSUME NEW label \in Looking, NEW rule, NEW rests, Stands(label, rule, rests), NEW byte
    PROVE  /\ Follows(label, rule, rests, byte)
           /\ CanEnd(rests) <=> label \in DOMAIN Spaces \cup Numbers
           /\ label \in DOMAIN Spaces => rule = Spaces[label]
           /\ label \in Numbers => rule = "NUMBER"
<1>1. CASE SpaceStands(label, rule, rests)
  <2>1. label \in DOMAIN Spaces /\ label \notin Numbers /\ rule = Spaces[label]
    BY <1>1 DEF SpaceStands, Spaces, Numbers
  <2>2. QED
    BY <1>1, <2>1, SpaceFollows
<1>2. CASE StringStands(label, rule, rests)
  <2>1. label \notin DOMAIN Spaces /\ label \notin Numbers
    BY <1>2 DEF StringStands, Spaces, Numbers
  <2>2. QED
    BY <1>2, <2>1, StringFollows
<1>3. CASE NumberStands(label, rule, rests)
  <2>1. label \notin DOMAIN Spaces /\ rule = "NUMBER"
    BY <1>3 DEF NumberStands, Spaces
  <2>2. QED
    BY <1>3, <2>1, NumberFollows
<1>4. CASE LiteralStands(label, rule, rests)
  <2>1. label \notin DOMAIN Spaces /\ label \notin Numbers
    BY <1>4 DEF LiteralStands, Spaces, Numbers
  <2>2. QED
    BY <1>4, <2>1, LiteralFollows
<1>5. CASE BomStands(label, rule, rests)
  <2>1. label \notin DOMAIN Spaces /\ label \notin Numbers
    BY <1>5 DEF BomStands, Spaces, Numbers
  <2>2. QED
    BY <1>5, <2>1, BomFollows
<1>6. ~EndStands(label, rule, rests)
  BY LabelsAre DEF EndStands, Ends, Labels
<1>7. QED
  BY <1>1, <1>2, <1>3, <1>4, <1>5, <1>6 DEF Stands

\* At an end of the graph its rule is complete.
LEMMA StandsAtEnd ==
    ASSUME NEW label \in DOMAIN Ends, NEW rule, NEW rests, Stands(label, rule, rests)
    PROVE  /\ label = "yy4" => rests = {}
           /\ label # "yy4" => rule = Ends[label] /\ rests = End /\ CanEnd(rests)
<1>1. /\ ~SpaceStands(label, rule, rests) /\ ~StringStands(label, rule, rests) /\ ~NumberStands(label, rule, rests)
      /\ ~LiteralStands(label, rule, rests) /\ ~BomStands(label, rule, rests)
  BY DEF Ends, SpaceStands, StringStands, NumberStands, LiteralStands, BomStands
<1>2. EndStands(label, rule, rests)
  BY <1>1 DEF Stands
<1>3. QED
  BY <1>2, OnwardEnd DEF EndStands

\* A byte that the graph follows: the next label stands for what the rules make of it.
LEMMA FollowedByte ==
    ASSUME InTheRules, state \in Looking, NEW byte, NEW e \in Edges[state], byte \in e[1], Match(byte)
    PROVE  \E rule, rests :
              /\ Stands(e[2], rule, rests) /\ items' = ItemsOf(rule, rests)
              /\ best' = IF CanEnd(rests) THEN [rule |-> rule, length |-> length + 1] ELSE best
<1>1. items' = After(items, byte) /\ best' = Longest(best, items', length + 1)
  BY DEF Match
<1>2. PICK rule, rests : Stands(e[2], rule, rests) /\ items' = ItemsOf(rule, rests)
  <2>1. CASE state = "start"
    <3>1. Edges[state] = StartEdges
      BY <2>1, LabelsOfParts DEF Edges, Looking
    <3>2. items = Open
      BY <2>1 DEF InTheRules
    <3>3. QED
      BY <1>1, <3>1, <3>2, StartFollows
  <2>2. CASE state # "start"
    <3>1. PICK rule, rests : Stands(state, rule, rests) /\ items = ItemsOf(rule, rests)
      BY <2>2 DEF InTheRules
    <3>2. items' = ItemsOf(rule, Onward(rests, byte))
      BY <1>1, <3>1, AfterItems
    <3>3. Stands(e[2], rule, Onward(rests, byte))
      BY <3>1, StandsAt DEF Follows
    <3>4. QED
      BY <3>2, <3>3
  <2>3. QED
    BY <2>1, <2>2
<1>3. best' = IF CanEnd(rests) THEN [rule |-> rule, length |-> length + 1] ELSE best
  BY <1>1, <1>2, LongestOf
<1>4. QED
  BY <1>2, <1>3

\* A byte that the graph does not follow: no rule does.
LEMMA LastByte ==
    ASSUME InTheRules, state \in Looking \ {"start"}, NEW byte, \A e \in Edges[state] : byte \notin e[1], Match(byte)
    PROVE  items' = {} /\ best' = best
<1>1. items' = After(items, byte) /\ best' = Longest(best, items', length + 1)
  BY DEF Match
<1>2. PICK rule, rests : Stands(state, rule, rests) /\ items = ItemsOf(rule, rests)
  BY DEF InTheRules
<1>3. Onward(rests, byte) = {}
  BY <1>2, StandsAt DEF Follows
<1>4. items' = ItemsOf(rule, {})
  BY <1>1, <1>2, <1>3, AfterItems
<1>5. ~CanEnd({})
  BY DEF CanEnd
<1>6. best' = best
  BY <1>1, <1>4, <1>5, LongestOf
<1>7. QED
  BY <1>4, <1>6 DEF ItemsOf

\* The parts of the graph are apart from one another.
LEMMA LabelsApart ==
    /\ "loop" \notin Looking /\ "start" \in Looking
    /\ \A label \in DOMAIN Ends : label \notin Looking
    /\ \A label \in FirstBytes : label \notin DOMAIN Spaces \cup Numbers /\ label \in Looking /\ label # "start"
    /\ \A label \in DOMAIN Spaces \cup Numbers : label \in Looking /\ label # "start"
    /\ \A label \in DOMAIN Spaces : label \notin Numbers
  BY LabelsAre DEF Labels, Ends, FirstBytes, Spaces, Numbers

\* Between two tokens only the last one counts.
LEMMA BetweenTokens ==
    ASSUME state = "loop", result = best, \A i \in items : i.rest = <<>>
    PROVE  InTheRules
  BY LabelsApart DEF InTheRules, LongestMatch

\* Nothing is scanned yet.
LEMMA InitInTheRules == Init => InTheRules
  BY LabelsApart DEF Init, InTheRules, LongestMatch

\* A token begins: every rule may come.
LEMMA BeginInTheRules ==
    ASSUME Begin
    PROVE  InTheRules'
<1>1. state' = "start" /\ items' = Open /\ best' = NothingYet /\ length' = 0
  BY DEF Begin
<1>2. "start" \notin FirstBytes /\ "start" \in Unmarked /\ "start" # "loop"
  BY LabelsApart DEF Unmarked
<1>3. QED
  BY <1>1, <1>2 DEF InTheRules, LongestMatch

\* The mark on the way: set where a number may end and at the first bytes, and
\* still that of the longest token where neither is the case.
LEMMA MarkOnTheWay ==
    ASSUME NEW from \in Looking, NEW to \in Looking, Leading(from, to)
    PROVE  /\ to \in FirstBytes \cup DOMAIN Spaces => from = "start" \/ to \in DOMAIN Spaces
           /\ to \in {"yy16", "yy18", "yy47"} <=> to \in Numbers \ {"yy50"}
           /\ to \in Marks <=> to \in (FirstBytes \ {"yy15"}) \cup (Numbers \ {"yy50"})
           /\ to \notin FirstBytes \cup DOMAIN Spaces \cup Numbers => from \notin Unmarked
           /\ to # "start"
<1>1. DOMAIN Spaces = {"yy6", "yy9"}
  BY DEF Spaces
<1>2. to \in FirstBytes \cup DOMAIN Spaces => from = "start" \/ to \in DOMAIN Spaces
  BY <1>1 DEF Leading, FirstBytes
<1>3. to \in {"yy16", "yy18", "yy47"} <=> to \in Numbers \ {"yy50"}
  BY DEF Numbers
<1>4. to \in Marks <=> to \in (FirstBytes \ {"yy15"}) \cup (Numbers \ {"yy50"})
  BY DEF Marks, FirstBytes, Numbers
<1>5. to \in Labels
  BY LabelsAre
<1>6. to \notin FirstBytes \cup DOMAIN Spaces \cup Numbers => from \notin Unmarked
  BY <1>1, <1>5 DEF Leading, FirstBytes, Numbers, Unmarked, Labels
<1>7. to # "start"
  BY <1>5 DEF Leading, Labels
<1>8. QED
  BY <1>2, <1>3, <1>4, <1>6, <1>7

\* A byte that leads to a label that looks on.
LEMMA PassedByte ==
    ASSUME IInv, InTheRules, state \in Looking, NEW byte, NEW e \in Edges[state], byte \in e[1], Match(byte),
           e[2] \in Looking, state' = e[2], length' = length + 1,
           marker' = IF e[2] \in Marks THEN length + 1 ELSE marker,
           yyaccept' = IF e[2] \notin Marks THEN yyaccept ELSE IF e[2] \in {"yy16", "yy18", "yy47"} THEN 1 ELSE 0
    PROVE  InTheRules'
<1> DEFINE label == e[2]
<1>1. Leading(state, label)
  BY EdgesAre
<1>2. PICK rule, rests :
              /\ Stands(label, rule, rests) /\ items' = ItemsOf(rule, rests)
              /\ best' = IF CanEnd(rests) THEN [rule |-> rule, length |-> length + 1] ELSE best
  BY FollowedByte
<1> HIDE DEF label
<1>3. label \in Looking /\ state' = label /\ length' = length + 1
  BY DEF label
<1>4. /\ CanEnd(rests) <=> label \in DOMAIN Spaces \cup Numbers
      /\ label \in Numbers => rule = "NUMBER"
  BY <1>2, <1>3, StandsAt
<1>5. /\ label \in FirstBytes => state = "start"
      /\ label \in {"yy16", "yy18", "yy47"} <=> label \in Numbers \ {"yy50"}
      /\ label \in Marks <=> label \in (FirstBytes \ {"yy15"}) \cup (Numbers \ {"yy50"})
      /\ label \notin FirstBytes \cup DOMAIN Spaces \cup Numbers => state \notin Unmarked
      /\ label # "start" /\ label # "loop"
  BY <1>1, <1>3, MarkOnTheWay, LabelsApart
<1>6. \E r, s :
            /\ Stands(state', r, s) /\ items' = ItemsOf(r, s)
            /\ state' \in DOMAIN Spaces \cup Numbers => best' = [rule |-> r, length |-> length']
  BY <1>2, <1>3, <1>4
<1>7. state' \in FirstBytes => length' = 1 /\ best' = NothingYet
  <2>1. SUFFICES ASSUME label \in FirstBytes PROVE length' = 1 /\ best' = NothingYet
    BY <1>3
  <2>2. length = 0 /\ best = NothingYet
    BY <1>5, <2>1 DEF InTheRules
  <2>3. ~CanEnd(rests)
    BY <1>4, <2>1, LabelsApart
  <2>4. QED
    BY <1>2, <1>3, <2>2, <2>3
<1>8. state' \in Looking \ Unmarked =>
         best' = [rule |-> IF yyaccept' = 0 THEN "error" ELSE "NUMBER", length |-> marker']
  <2>1. SUFFICES ASSUME label \in Looking \ Unmarked
                 PROVE  best' = [rule |-> IF yyaccept' = 0 THEN "error" ELSE "NUMBER", length |-> marker']
    BY <1>3
  <2>2. /\ marker' = IF label \in Marks THEN length + 1 ELSE marker
        /\ yyaccept' = IF label \notin Marks THEN yyaccept ELSE IF label \in {"yy16", "yy18", "yy47"} THEN 1 ELSE 0
    BY DEF label
  <2>3. label \notin DOMAIN Spaces /\ label # "yy50" /\ label # "yy15"
    BY <2>1 DEF Unmarked
  <2>4. CASE label \in Numbers
    <3>1. best' = [rule |-> "NUMBER", length |-> length + 1]
      BY <1>2, <1>4, <2>4
    <3>2. marker' = length + 1 /\ yyaccept' = 1
      BY <1>5, <2>2, <2>3, <2>4
    <3>3. QED
      BY <3>1, <3>2
  <2>5. CASE label \in FirstBytes
    <3>1. length' = 1 /\ best' = NothingYet
      BY <1>3, <1>7, <2>5
    <3>2. label \notin Numbers
      BY <2>5, LabelsApart
    <3>3. marker' = length + 1 /\ yyaccept' = 0
      BY <1>5, <2>2, <2>3, <2>5, <3>2
    <3>4. QED
      BY <1>3, <3>1, <3>3 DEF NothingYet, Fallback
  <2>6. CASE label \notin Numbers \cup FirstBytes
    <3>1. marker' = marker /\ yyaccept' = yyaccept /\ best' = best
      BY <1>2, <1>4, <1>5, <2>2, <2>3, <2>6
    <3>2. state \in Looking \ Unmarked
      BY <1>5, <2>3, <2>6
    <3>3. QED
      BY <3>1, <3>2 DEF InTheRules
  <2>7. QED
    BY <2>4, <2>5, <2>6
<1>9. QED
  BY <1>3, <1>5, <1>6, <1>7, <1>8 DEF InTheRules, LongestMatch

\* A byte that leads to an end: its rule is the longest token, and none goes on.
LEMMA EndedByte ==
    ASSUME IInv, InTheRules, state \in Looking, NEW byte, NEW e \in Edges[state], byte \in e[1], Match(byte),
           e[2] \in DOMAIN Ends, state' = "loop", result' = [rule |-> Ends[e[2]], length |-> length + 1]
    PROVE  InTheRules'
<1> DEFINE label == e[2]
<1>1. Leading(state, label)
  BY EdgesAre
<1>2. PICK rule, rests :
              /\ Stands(label, rule, rests) /\ items' = ItemsOf(rule, rests)
              /\ best' = IF CanEnd(rests) THEN [rule |-> rule, length |-> length + 1] ELSE best
  BY FollowedByte
<1> HIDE DEF label
<1>3. label \in DOMAIN Ends /\ result' = [rule |-> Ends[label], length |-> length + 1]
  BY DEF label
<1>4. /\ label = "yy4" => rests = {}
      /\ label # "yy4" => rule = Ends[label] /\ rests = End /\ CanEnd(rests)
  BY <1>2, <1>3, StandsAtEnd
<1>5. result' = best' /\ \A i \in items' : i.rest = <<>>
  <2>1. CASE label = "yy4"
    <3>1. state = "start"
      BY <1>1, <2>1 DEF Leading
    <3>2. length = 0 /\ best = NothingYet
      BY <3>1 DEF InTheRules
    <3>3. ~CanEnd(rests) /\ items' = {}
      BY <1>2, <1>4, <2>1 DEF CanEnd, ItemsOf
    <3>4. Ends[label] = "error"
      BY <2>1 DEF Ends
    <3>5. QED
      BY <1>2, <1>3, <3>2, <3>3, <3>4 DEF NothingYet, Fallback
  <2>2. CASE label # "yy4"
    <3>1. best' = [rule |-> Ends[label], length |-> length + 1]
      BY <1>2, <1>4, <2>2
    <3>2. \A i \in items' : i.rest = <<>>
      BY <1>2, <1>4, <2>2 DEF ItemsOf, End
    <3>3. QED
      BY <1>3, <3>1, <3>2
  <2>3. QED
    BY <2>1, <2>2
<1>6. state' = "loop" /\ "loop" \notin Looking /\ "loop" # "start"
  BY LabelsApart
<1>7. "loop" \notin FirstBytes
  BY <1>6, LabelsApart
<1>8. QED
  BY <1>5, <1>6, <1>7 DEF InTheRules, LongestMatch

\* A byte is passed.
LEMMA ScanInTheRules ==
    ASSUME IInv, InTheRules, Scan
    PROVE  InTheRules'
<1>1. PICK byte \in Input : Pass(byte)
  BY DEF Scan
<1>2. PICK label \in Leads(byte) :
          /\ length' = length + 1
          /\ marker' = IF label \in Marks THEN length + 1 ELSE marker
          /\ yyaccept' = IF label \notin Marks THEN yyaccept
                         ELSE IF label \in {"yy16", "yy18", "yy47"} THEN 1 ELSE 0
          /\ IF label \in DOMAIN Ends
             THEN state' = "loop" /\ result' = [rule |-> Ends[label], length |-> length + 1]
             ELSE state' = label /\ UNCHANGED result
  BY <1>1 DEF Pass
<1>3. PICK e \in Edges[state] : byte \in e[1] /\ label = e[2]
  BY DEF Leads
<1>4. state \in Looking /\ Match(byte)
  BY <1>1 DEF Scan, Pass
<1>5. CASE label \in DOMAIN Ends
  BY <1>2, <1>3, <1>4, <1>5, EndedByte
<1>6. CASE label \notin DOMAIN Ends
  <2>1. Leading(state, label)
    BY <1>3, <1>4, EdgesAre
  <2>2. label \in Looking
    BY <1>6, <2>1, LabelsAre DEF Leading, Labels, Ends
  <2>3. QED
    BY <1>2, <1>3, <1>4, <1>6, <2>2, PassedByte
<1>7. QED
  BY <1>5, <1>6

\* A token that ends before the byte looked at, where that is the longest one.
LEMMA LeavesInTheRules ==
    ASSUME InTheRules, state \in Looking \ {"start"}, NEW byte, Leads(byte) = {}, Match(byte), NEW rule, NEW at,
           Leaves(rule, at), best = [rule |-> rule, length |-> at]
    PROVE  InTheRules'
<1>1. \A e \in Edges[state] : byte \notin e[1]
  <2>1. ASSUME NEW e \in Edges[state], byte \in e[1] PROVE FALSE
    <3>1. e[2] \in Leads(byte)
      BY <2>1 DEF Leads
    <3>2. QED
      BY <3>1
  <2>2. QED
    BY <2>1
<1>2. items' = {} /\ best' = best
  BY <1>1, LastByte
<1>3. state' = "loop" /\ result' = [rule |-> rule, length |-> at]
  BY DEF Leaves
<1>4. result' = best' /\ \A i \in items' : i.rest = <<>>
  BY <1>2, <1>3
<1>5. "loop" \notin Looking /\ "loop" # "start" /\ "loop" \notin FirstBytes
  BY LabelsApart
<1>6. QED
  BY <1>3, <1>4, <1>5 DEF InTheRules, LongestMatch

\* White space and numbers end where the scanner stands, and so does a first byte.
LEMMA StopInTheRules ==
    ASSUME InTheRules, Stop
    PROVE  InTheRules'
<1> DEFINE kind == CASE state \in DOMAIN Spaces -> Spaces[state]
                     [] state \in Numbers -> "NUMBER"
                     [] OTHER -> "error"
<1>1. PICK byte \in Input : Leads(byte) = {} /\ Match(byte) /\ Leaves(kind, length)
  BY DEF Stop
<1>2. state \in DOMAIN Spaces \cup Numbers \cup FirstBytes
  BY DEF Stop
<1>3. state \in Looking \ {"start"}
  BY <1>2, LabelsApart
<1>4. PICK rule, rests :
            /\ Stands(state, rule, rests)
            /\ state \in DOMAIN Spaces \cup Numbers => best = [rule |-> rule, length |-> length]
  BY <1>3 DEF InTheRules
<1>5. /\ state \in DOMAIN Spaces => rule = Spaces[state]
      /\ state \in Numbers => rule = "NUMBER"
  BY <1>3, <1>4, StandsAt
<1>6. best = [rule |-> kind, length |-> length]
  <2>1. CASE state \in DOMAIN Spaces
    BY <1>4, <1>5, <2>1, LabelsApart
  <2>2. CASE state \in Numbers
    BY <1>4, <1>5, <2>2, LabelsApart
  <2>3. CASE state \in FirstBytes
    <3>1. length = 1 /\ best = NothingYet
      BY <2>3 DEF InTheRules
    <3>2. state \notin DOMAIN Spaces /\ state \notin Numbers
      BY <2>3, LabelsApart
    <3>3. QED
      BY <3>1, <3>2 DEF NothingYet, Fallback
  <2>4. QED
    BY <1>2, <2>1, <2>2, <2>3
<1> HIDE DEF kind
<1>7. QED
  BY <1>1, <1>3, <1>6, LeavesInTheRules

\* What was begun and cannot be ended is given back to the mark.
LEMMA BacktrackInTheRules ==
    ASSUME InTheRules, Backtrack
    PROVE  InTheRules'
<1> DEFINE kind == IF yyaccept = 0 THEN "error" ELSE "NUMBER"
<1>1. PICK byte \in Input : Leads(byte) = {} /\ Match(byte) /\ Leaves(kind, marker)
  BY DEF Backtrack
<1>2. state \in Looking \ Unmarked /\ state # "start"
  BY DEF Backtrack, Unmarked, FirstBytes, Numbers
<1>3. best = [rule |-> kind, length |-> marker]
  BY <1>2 DEF InTheRules
<1> HIDE DEF kind
<1>4. QED
  BY <1>1, <1>2, <1>3, LeavesInTheRules

\* Every step keeps the scanner in the rules.
LEMMA StepInTheRules == IInv /\ InTheRules /\ [Next]_vars => InTheRules'
<1> SUFFICES ASSUME IInv, InTheRules, [Next]_vars PROVE InTheRules'
  OBVIOUS
<1>1. CASE Begin
  BY <1>1, BeginInTheRules
<1>2. CASE Scan
  BY <1>2, ScanInTheRules
<1>3. CASE Stop
  BY <1>3, StopInTheRules
<1>4. CASE Backtrack
  BY <1>4, BacktrackInTheRules
<1>5. CASE UNCHANGED vars
  BY <1>5 DEF vars, codeVars, ruleVars, InTheRules, LongestMatch
<1>6. QED
  BY <1>1, <1>2, <1>3, <1>4, <1>5 DEF Next

\* Every label stands for what may still come of the rules, in every state.
THEOREM ScansTheRules == Spec => []InTheRules
<1>1. Spec => []IInv
  BY Invariance
<1>2. QED
  BY <1>1, InitInTheRules, StepInTheRules, PTL DEF Spec

\* The scanner that re2c generated returns the longest token that the rules of
\* extern/lexer.c.re2c:66-110 find, or one byte as an error, on every input and
\* for lexemes of every length.
THEOREM LongestToken == Spec => []LongestMatch
<1>1. InTheRules => LongestMatch
  BY DEF InTheRules
<1>2. QED
  BY <1>1, ScansTheRules, PTL
=============================================================================
