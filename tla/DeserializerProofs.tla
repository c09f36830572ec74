------------------------- MODULE DeserializerProofs -------------------------
(***************************************************************************)
(* Proofs about module Deserializer, for every set of documents, contexts  *)
(* and stack depths, and with allocations that may fail: the functions     *)
(* release the slots they read into, leave no pointer to a block that was  *)
(* given back and no two pointers to one, only return after a failure,     *)
(* give setters only tokens whose slots are still there, and use the       *)
(* parser as module Parser says, so that what ParserProofs proves holds    *)
(* here as well.                                                           *)
(***************************************************************************)
EXTENDS Deserializer, TLAPS

PP == INSTANCE ParserProofs WITH Minors <- References, NoMinor <- NoReference
-----------------------------------------------------------------------------
(* The inductive invariant: the parser's own; what every frame of the C    *)
(* stack is like; that blocks are numbered upwards along the C stack and   *)
(* along pointers, so that a pointer leads to a block younger than the one *)
(* it is in; and that only a function that waits for another can find a    *)
(* failure.                                                                *)

IsSeq(s) == s \in Seq(Range(s))

IsAddress(a) == IsSeq(a) /\ Len(a) >= 1

\* What a function waits for when another runs above it, and where else it stands.
Waits == {"called", "row", "object"}
Stands == {"read", "react", "enter", "element"}

FrameFields == {"id", "fn", "pc", "ctx", "rule", "name", "address", "tmp", "i", "tokens",
                "picked", "recognized", "brackets", "shift"}

Loops == {"parse", "array", "objects"}

\* The slots behind the one last read into are clean, and where a function is
\* about to read, so is the one it will read into.
Tidy(g) ==
    /\ g.fn \in Loops => \A s \in 0..2 : g.tokens[s] # ZeroToken =>
                            s <= g.i /\ (g.pc = "read" => s < g.i /\ s # g.i % TOKENS_CNT)
    /\ g.fn \in {"skip", "array_value"} /\ g.pc = "read" => g.tokens[0] = ZeroToken

IsFrame(g) ==
    /\ DOMAIN g = FrameFields
    /\ g.id \in Nat \ {0} /\ g.fn \in Functions /\ g.pc \in Waits \cup Stands
    /\ g.ctx \in DOMAIN Contexts
    /\ g.i \in Nat /\ g.brackets \in Nat /\ g.shift \in Nat
    /\ IsAddress(g.address)
    /\ DOMAIN g.tokens = 0..2 /\ \A s \in 0..2 : g.tokens[s].token \in P!Terminals
    /\ g.recognized.token \in References \cup {NoReference}
    /\ Tidy(g)

\* The function has made a block and waits for it to be filled.
Fills(g) == g.fn \in {"object_value", "array_value"} /\ g.pc = "called" /\ g.rule.allocate

\* The block a frame writes to, or 0 for the caller's structure.
Base(g) == BlockOf(g.address)

\* Of n blocks, those of d given back, functions write to the youngest ones on
\* top, and a block that is being filled is written to by frames above alone.
Climbs(s, n, d) ==
    \A k \in 1..Len(s) :
        /\ Base(s[k]) \in (0..n) \ d
        /\ \A j \in 1..k : Base(s[j]) <= Base(s[k])
        /\ Fills(s[k]) => /\ s[k].tmp \in (1..n) \ d /\ Base(s[k]) < s[k].tmp
                         /\ \A j \in (k + 1)..Len(s) : s[k].tmp <= Base(s[j])

Stack(s, b, n, d) ==
    /\ IsSeq(s)
    /\ \A k \in 1..Len(s) : IsFrame(s[k]) /\ s[k].id <= b
    /\ \A k \in 1..(Len(s) - 1) : s[k].pc \in Waits
    /\ Climbs(s, n, d)

\* The places in memory that hold a pointer, and the blocks these lead to.
Links(mem) == {a \in DOMAIN mem : mem[a].is = "pointer" /\ mem[a].to # 0}
Led(mem) == {mem[a].to : a \in Links(mem)}

\* Each leads to a younger block that was not given back, and to one of its own.
Sound(mem, n, d) ==
    /\ \A a \in Links(mem) : BlockOf(a) \in Nat /\ mem[a].to \in (1..n) \ d /\ BlockOf(a) < mem[a].to
    /\ \A a, b \in Links(mem) : mem[a].to = mem[b].to => a = b

\* No pointer leads to a block that is being filled.
Unled(p, s) == \A k \in 1..Len(s) : Fills(s[k]) => s[k].tmp \notin p

\* A failure is found by a function that waits for its result.
FailureAwaited == ret = -1 /\ frames # <<>> => f.pc \in Waits

NotBegun == phase = "start" => ret = 0 /\ frames = <<>> /\ born = 0

Ranges ==
    /\ doc \in Documents
    /\ pos \in 1..(Len(doc.tokens) + 1)
    /\ ret \in {0, -1} /\ born \in Nat /\ mallocs \in Nat /\ freed \subseteq 1..mallocs
    /\ phase \in {"start", "running", "done"}
    /\ ub \in {"none", "overrun", "dangling", "uninitialised"}

IInv ==
    /\ PP!IInv
    /\ Ranges
    /\ Stack(frames, born, mallocs, freed)
    /\ Sound(memory, mallocs, freed)
    /\ Unled(Led(memory), frames)
    /\ FailureAwaited
    /\ NotBegun
-----------------------------------------------------------------------------
(* Sequences: the C stack is one whose last element changes, or that grows *)
(* or shrinks by one.                                                      *)

\* A sequence over any set is one over its own elements.
LEMMA SeqOver ==
    ASSUME NEW S, NEW s \in Seq(S)
    PROVE  IsSeq(s)
<1>1. s \in [1..Len(s) -> S] /\ Len(s) \in Nat
  OBVIOUS
<1>2. \A k \in 1..Len(s) : s[k] \in Range(s)
  BY <1>1 DEF Range
<1>3. s \in [1..Len(s) -> Range(s)]
  BY <1>1, <1>2
<1>4. QED
  BY <1>1, <1>3 DEF IsSeq

\* The length of a sequence is a number, zero for the empty one alone.
LEMMA SeqLength ==
    ASSUME NEW s, IsSeq(s)
    PROVE  /\ Len(s) \in Nat
           /\ DOMAIN s = 1..Len(s)
           /\ s = <<>> <=> Len(s) = 0
  BY DEF IsSeq

\* The last element replaced.
LEMMA LastReplaced ==
    ASSUME NEW s, IsSeq(s), s # <<>>, NEW g
    PROVE  LET t == [s EXCEPT ![Len(s)] = g]
           IN  /\ IsSeq(t)
               /\ Len(t) = Len(s)
               /\ t # <<>>
               /\ t[Len(s)] = g
               /\ \A k \in 1..(Len(s) - 1) : t[k] = s[k]
<1> DEFINE S == Range(s) \cup {g}
           t == [s EXCEPT ![Len(s)] = g]
<1>1. s \in Seq(S) /\ g \in S
  <2>1. Range(s) \subseteq S
    OBVIOUS
  <2>2. QED
    BY <2>1 DEF IsSeq
<1> HIDE DEF S
<1>2. t \in Seq(S) /\ Len(t) = Len(s) /\ Len(s) \in Nat \ {0}
  BY <1>1
<1>3. t[Len(s)] = g /\ \A k \in 1..(Len(s) - 1) : t[k] = s[k]
  BY <1>1, <1>2
<1>4. t # <<>>
  BY <1>2
<1> HIDE DEF t
<1>5. IsSeq(t)
  BY <1>2, SeqOver, Zenon
<1>6. QED
  BY <1>2, <1>3, <1>4, <1>5, Zenon DEF t

\* One element more.
LEMMA Appended ==
    ASSUME NEW s, IsSeq(s), NEW g
    PROVE  /\ IsSeq(Append(s, g))
           /\ Len(Append(s, g)) = Len(s) + 1
           /\ Append(s, g) # <<>>
           /\ Append(s, g)[Len(s) + 1] = g
           /\ \A k \in 1..Len(s) : Append(s, g)[k] = s[k]
<1> DEFINE S == Range(s) \cup {g}
<1>1. s \in Seq(S) /\ g \in S
  <2>1. Range(s) \subseteq S
    OBVIOUS
  <2>2. QED
    BY <2>1 DEF IsSeq
<1> HIDE DEF S
<1>2. /\ Append(s, g) \in Seq(S) /\ Len(Append(s, g)) = Len(s) + 1 /\ Len(s) \in Nat
      /\ Append(s, g)[Len(s) + 1] = g /\ \A k \in 1..Len(s) : Append(s, g)[k] = s[k]
  BY <1>1
<1>3. IsSeq(Append(s, g))
  BY <1>2, SeqOver, Zenon
<1>4. Append(s, g) # <<>>
  BY <1>2
<1>5. QED
  BY <1>2, <1>3, <1>4, Zenon

\* One element less.
LEMMA FrontTaken ==
    ASSUME NEW s, IsSeq(s), s # <<>>
    PROVE  /\ IsSeq(Front(s))
           /\ Len(Front(s)) = Len(s) - 1
           /\ \A k \in 1..(Len(s) - 1) : Front(s)[k] = s[k]
<1> DEFINE S == Range(s)
           n == Len(s) - 1
<1>1. s \in Seq(S)
  BY DEF IsSeq
<1> HIDE DEF S
<1>2. Len(s) \in Nat \ {0}
  BY <1>1
<1>3. n \in Nat /\ n <= Len(s) /\ Front(s) = SubSeq(s, 1, n)
  BY <1>2 DEF Front
<1> HIDE DEF n
<1>4. /\ SubSeq(s, 1, n) \in Seq(S)
      /\ Len(SubSeq(s, 1, n)) = n
      /\ \A k \in 1..n : SubSeq(s, 1, n)[k] = s[k]
  BY <1>1, <1>3
<1>5. IsSeq(SubSeq(s, 1, n))
  BY <1>4, SeqOver, Zenon
<1>6. QED
  BY <1>3, <1>4, <1>5, Zenon DEF n

\* An address extended stays in its block.
LEMMA AddressExtended ==
    ASSUME NEW a, IsAddress(a), NEW step
    PROVE  IsAddress(Append(a, step)) /\ BlockOf(Append(a, step)) = BlockOf(a)
<1>1. IsSeq(a) /\ Len(a) >= 1 /\ Len(a) \in Nat
  BY SeqLength DEF IsAddress
<1>2. /\ IsSeq(Append(a, step)) /\ Len(Append(a, step)) = Len(a) + 1
      /\ \A k \in 1..Len(a) : Append(a, step)[k] = a[k]
  BY <1>1, Appended, ZenonT(40)
<1>3. 1 \in 1..Len(a) /\ Len(a) + 1 >= 1
  BY <1>1
<1>4. QED
  BY <1>2, <1>3, Zenon DEF IsAddress, BlockOf

\* So does that of a structure's member.
LEMMA MemberWithin ==
    ASSUME NEW a, IsAddress(a), NEW name
    PROVE  IsAddress(Member(a, name)) /\ BlockOf(Member(a, name)) = BlockOf(a)
  BY AddressExtended DEF Member

\* Where the memory of the caller and of each block begins.
LEMMA Addresses ==
    /\ IsAddress(Caller)
    /\ BlockOf(Caller) = 0
    /\ \A n : IsAddress(Block(n)) /\ BlockOf(Block(n)) = n
<1>1. \A x : IsAddress(<<x>>)
  <2>1. TAKE x
  <2>2. <<x>> \in Seq({x}) /\ Len(<<x>>) >= 1
    OBVIOUS
  <2>3. IsSeq(<<x>>)
    BY <2>2, SeqOver, Zenon
  <2>4. QED
    BY <2>2, <2>3, Zenon DEF IsAddress
<1>2. BlockOf(Caller) = 0
  BY DEF BlockOf, Caller, At
<1>3. \A n : BlockOf(Block(n)) = n
  BY DEF BlockOf, Block, At
<1>4. QED
  BY <1>1, <1>2, <1>3 DEF Caller, Block
-----------------------------------------------------------------------------
(* What the three things that happen to the C stack keep.                  *)

\* Blocks that were made and given back meanwhile, among them none of those in use.
After(n, d, m, e, own) == m \in Nat /\ n <= m /\ e \subseteq (d \cup own) \cup ((n + 1)..m)

\* The innermost function changes its frame; it may have made the last block, to
\* have it filled.
LEMMA StackReplaced ==
    ASSUME NEW s, NEW b \in Nat, NEW n \in Nat, NEW d, Stack(s, b, n, d), s # <<>>,
           NEW m, NEW e, After(n, d, m, e, {}),
           NEW g, IsFrame(g), g.id = Last(s).id, g.address = Last(s).address,
           Fills(g) => g.tmp = n + 1 /\ m = n + 1 /\ g.tmp \notin e
    PROVE  LET t == [s EXCEPT ![Len(s)] = g]
           IN  /\ Stack(t, b, m, e)
               /\ t # <<>> /\ Last(t) = g /\ Len(t) = Len(s)
               /\ \A k \in 1..(Len(t) - 1) : t[k] = s[k]
<1> DEFINE t == [s EXCEPT ![Len(s)] = g]
           l == Len(s)
<1>1. /\ IsSeq(t) /\ Len(t) = l /\ t # <<>> /\ t[l] = g
      /\ \A k \in 1..(l - 1) : t[k] = s[k]
  BY LastReplaced, Zenon DEF Stack
<1>2. l \in Nat \ {0}
  BY SeqLength DEF Stack
<1> HIDE DEF t, l
<1>3. g.id = s[l].id /\ Base(g) = Base(s[l])
  BY DEF Last, l, Base
<1>4. \A k \in 1..l : k # l => k \in 1..(l - 1)
  BY <1>2
<1>5. \A k \in 1..l : Base(t[k]) = Base(s[k])
  BY <1>1, <1>3, <1>4, Zenon
<1>6. l \in 1..l /\ \A k \in 1..l : IsFrame(s[k]) /\ s[k].id <= b
  BY <1>2 DEF Stack, l
<1>7. \A k \in 1..l : IsFrame(t[k]) /\ t[k].id <= b
  BY <1>1, <1>3, <1>4, <1>6, Zenon
<1>8. \A k \in 1..(l - 1) : t[k].pc \in Waits
  BY <1>1 DEF Stack, l
<1>9. Climbs(t, m, e)
  <2>1. ASSUME NEW k \in 1..l
        PROVE  /\ Base(t[k]) \in (0..m) \ e
               /\ \A j \in 1..k : Base(t[j]) <= Base(t[k])
    <3>1. Base(s[k]) \in (0..n) \ d /\ \A j \in 1..k : Base(s[j]) <= Base(s[k])
      BY DEF Stack, Climbs, l
    <3>2. Base(s[k]) \in (0..m) \ e
      BY <3>1 DEF After
    <3>3. 1..k \subseteq 1..l
      BY <1>2
    <3>4. QED
      BY <1>5, <3>1, <3>2, <3>3, Zenon
  <2>2. ASSUME NEW k \in 1..l, Fills(t[k])
        PROVE  /\ t[k].tmp \in (1..m) \ e /\ Base(t[k]) < t[k].tmp
               /\ \A j \in (k + 1)..l : t[k].tmp <= Base(t[j])
    <3>1. CASE k # l
      <4>1. t[k] = s[k]
        BY <1>1, <1>4, <3>1
      <4>2. /\ s[k].tmp \in (1..n) \ d /\ Base(s[k]) < s[k].tmp
            /\ \A j \in (k + 1)..l : s[k].tmp <= Base(s[j])
        BY <2>2, <4>1, Zenon DEF Stack, Climbs, l
      <4>3. s[k].tmp \in (1..m) \ e
        BY <4>2 DEF After
      <4>4. (k + 1)..l \subseteq 1..l
        BY <1>2
      <4>5. QED
        BY <1>5, <4>1, <4>2, <4>3, <4>4, Zenon
    <3>2. CASE k = l
      <4>1. m = n + 1 /\ t[k].tmp = n + 1 /\ t[k].tmp \notin e
        BY <1>1, <2>2, <3>2
      <4>2. Base(t[k]) \in 0..n
        BY <1>5 DEF Stack, Climbs, l
      <4>3. \A j \in (k + 1)..l : FALSE
        BY <1>2, <3>2
      <4>4. QED
        BY <4>1, <4>2, <4>3
    <3>3. QED
      BY <3>1, <3>2
  <2>3. QED
    BY <1>1, <2>1, <2>2 DEF Climbs
<1>10. Stack(t, b, m, e)
  BY <1>1, <1>7, <1>8, <1>9 DEF Stack
<1>11. t # <<>> /\ Last(t) = g /\ Len(t) = Len(s) /\ \A k \in 1..(Len(t) - 1) : t[k] = s[k]
  BY <1>1 DEF Last, l
<1>12. QED
  BY <1>10, <1>11, Zenon DEF t, l

\* A function is called by one that waits for it, to write to no older block, and
\* to the one that is to be filled if there is one.
LEMMA StackPushed ==
    ASSUME NEW s, NEW b \in Nat, NEW n \in Nat, NEW d, Stack(s, b, n, d), s # <<>>, Last(s).pc \in Waits,
           NEW c, IsFrame(c), c.id = b + 1, ~Fills(c),
           Base(c) \in (0..n) \ d, Base(Last(s)) <= Base(c),
           Fills(Last(s)) => Last(s).tmp <= Base(c)
    PROVE  LET t == Append(s, c)
           IN  /\ Stack(t, b + 1, n, d)
               /\ t # <<>> /\ Last(t) = c /\ Len(t) = Len(s) + 1
               /\ \A k \in 1..Len(s) : t[k] = s[k]
<1> DEFINE t == Append(s, c)
           l == Len(s)
<1>1. IsSeq(t) /\ Len(t) = l + 1 /\ t # <<>> /\ t[l + 1] = c /\ \A k \in 1..l : t[k] = s[k]
  BY Appended, ZenonT(30) DEF Stack
<1>2. l \in Nat \ {0} /\ l \in 1..l /\ Last(s) = s[l]
  BY SeqLength DEF Stack, Last
<1> HIDE DEF t
<1>3. \A k \in 1..(l + 1) : k # l + 1 => k \in 1..l
  BY <1>2
<1>4. \A k \in 1..l : IsFrame(s[k]) /\ s[k].id <= b + 1
  <2>1. TAKE k \in 1..l
  <2>2. IsFrame(s[k]) /\ s[k].id <= b
    BY DEF Stack
  <2>3. s[k].id \in Nat
    BY <2>2 DEF IsFrame
  <2>4. QED
    BY <2>2, <2>3
<1>5. c.id <= b + 1
  OBVIOUS
<1>6. \A k \in 1..l : /\ Base(s[k]) \in (0..n) \ d
                      /\ \A j \in 1..k : Base(s[j]) <= Base(s[k])
                      /\ Fills(s[k]) => /\ s[k].tmp \in (1..n) \ d /\ Base(s[k]) < s[k].tmp
                                        /\ \A j \in (k + 1)..l : s[k].tmp <= Base(s[j])
  BY DEF Stack, Climbs
<1>7. \A k \in 1..l : Base(s[k]) <= Base(c)
  <2>1. TAKE k \in 1..l
  <2>2. Base(s[k]) <= Base(s[l]) /\ Base(s[k]) \in 0..n /\ Base(s[l]) \in 0..n
    BY <1>2, <1>6
  <2>3. QED
    BY <1>2, <2>2
<1>8. \A k \in 1..l : Fills(s[k]) => s[k].tmp <= Base(c)
  <2>1. TAKE k \in 1..l
  <2>2. HAVE Fills(s[k])
  <2>3. CASE k = l
    BY <1>2, <2>2, <2>3
  <2>4. CASE k # l
    <3>1. l \in (k + 1)..l
      BY <1>2, <2>4
    <3>2. s[k].tmp <= Base(s[l]) /\ s[k].tmp \in 1..n /\ Base(s[l]) \in 0..n
      BY <1>2, <1>6, <2>2, <3>1
    <3>3. QED
      BY <1>2, <3>2
  <2>5. QED
    BY <2>3, <2>4
<1>9. \A k \in 1..(l + 1) : IsFrame(t[k]) /\ t[k].id <= b + 1
  BY <1>1, <1>3, <1>4, <1>5, Zenon
<1>10. \A k \in 1..l : t[k].pc \in Waits
  <2>1. TAKE k \in 1..l
  <2>2. CASE k = l
    BY <1>1, <1>2, <2>2
  <2>3. CASE k # l
    <3>1. k \in 1..(l - 1)
      BY <1>2, <2>3
    <3>2. QED
      BY <1>1, <3>1 DEF Stack
  <2>4. QED
    BY <2>2, <2>3
<1> HIDE DEF l
<1>11. Climbs(t, n, d)
  <2>1. ASSUME NEW k \in 1..(l + 1), k # l + 1
        PROVE  /\ Base(t[k]) \in (0..n) \ d
               /\ \A j \in 1..k : Base(t[j]) <= Base(t[k])
               /\ Fills(t[k]) => /\ t[k].tmp \in (1..n) \ d /\ Base(t[k]) < t[k].tmp
                                 /\ \A j \in (k + 1)..(l + 1) : t[k].tmp <= Base(t[j])
    <3>1. k \in 1..l /\ t[k] = s[k]
      BY <1>1, <1>3, <2>1
    <3>2. 1..k \subseteq 1..l
      BY <1>2, <3>1
    <3>3. \A j \in (k + 1)..(l + 1) : j = l + 1 \/ (j \in (k + 1)..l /\ j \in 1..l)
      BY <1>2, <3>1
    <3>4. \A j \in 1..k : Base(t[j]) <= Base(t[k])
      BY <1>1, <1>6, <3>1, <3>2, Zenon
    <3>5. Fills(t[k]) => \A j \in (k + 1)..(l + 1) : t[k].tmp <= Base(t[j])
      BY <1>1, <1>6, <1>8, <3>1, <3>3, Zenon
    <3>6. QED
      BY <1>6, <3>1, <3>4, <3>5, Zenon
  <2>2. ASSUME NEW k \in 1..(l + 1), k = l + 1
        PROVE  /\ Base(t[k]) \in (0..n) \ d
               /\ \A j \in 1..k : Base(t[j]) <= Base(t[k])
               /\ ~Fills(t[k])
    <3>1. Base(c) <= Base(c)
      OBVIOUS
    <3>2. \A j \in 1..(l + 1) : Base(t[j]) <= Base(c)
      BY <1>1, <1>3, <1>7, <3>1, Zenon
    <3>3. QED
      BY <1>1, <2>2, <3>2, Zenon
  <2>3. QED
    BY <1>1, <2>1, <2>2, Zenon DEF Climbs
<1>12. Len(t) - 1 = l
  BY <1>1, <1>2
<1>13. Stack(t, b + 1, n, d)
  BY <1>1, <1>9, <1>10, <1>11, <1>12, Zenon DEF Stack
<1>14. Last(t) = c
  BY <1>1 DEF Last
<1>15. QED
  BY <1>1, <1>13, <1>14, Zenon DEF t, l

\* The innermost function returns, and may have given back the block it had filled.
LEMMA StackPopped ==
    ASSUME NEW s, NEW b \in Nat, NEW n \in Nat, NEW d, Stack(s, b, n, d), s # <<>>,
           NEW m, NEW e, After(n, d, m, e, {x \in {Last(s).tmp} : Fills(Last(s))})
    PROVE  LET t == Front(s)
           IN  /\ Stack(t, b, m, e)
               /\ Len(t) = Len(s) - 1
               /\ t # <<>> => Last(t).pc \in Waits
               /\ \A k \in 1..Len(t) : t[k] = s[k]
<1> DEFINE t == Front(s)
           l == Len(s) - 1
           own == {x \in {Last(s).tmp} : Fills(Last(s))}
<1>1. IsSeq(t) /\ Len(t) = l /\ \A k \in 1..l : t[k] = s[k]
  BY FrontTaken, Zenon DEF Stack
<1>2. /\ l \in Nat /\ 1..l \subseteq 1..Len(s) /\ (t # <<>> => l \in 1..l)
      /\ Last(s) = s[l + 1] /\ l + 1 \in 1..Len(s) /\ Len(s) = l + 1
  BY <1>1, SeqLength DEF Stack, Last
<1>3. \A k \in 1..l : IsFrame(s[k]) /\ s[k].id <= b /\ s[k].pc \in Waits
  BY <1>2 DEF Stack
<1> HIDE DEF t
<1>4. \A k \in 1..(l - 1) : k \in 1..l
  BY <1>2
<1>5. \A k \in 1..(l + 1) :
         /\ Base(s[k]) \in (0..n) \ d
         /\ \A j \in 1..k : Base(s[j]) <= Base(s[k])
         /\ Fills(s[k]) => /\ s[k].tmp \in (1..n) \ d /\ Base(s[k]) < s[k].tmp
                           /\ \A j \in (k + 1)..(l + 1) : s[k].tmp <= Base(s[j])
  BY <1>2 DEF Stack, Climbs
<1> HIDE DEF l
<1>6. ASSUME NEW k \in 1..l
      PROVE  Base(s[k]) \notin own /\ (Fills(s[k]) => s[k].tmp \notin own)
  <2>1. SUFFICES ASSUME Fills(Last(s))
                 PROVE  Base(s[k]) # Last(s).tmp /\ (Fills(s[k]) => s[k].tmp # Last(s).tmp)
    OBVIOUS
  <2>2. k \in 1..(l + 1) /\ l + 1 \in 1..(l + 1) /\ l + 1 \in (k + 1)..(l + 1)
    BY <1>2
  <2>3. /\ Base(s[k]) \in 0..n /\ Base(s[l + 1]) \in 0..n /\ Base(s[k]) <= Base(s[l + 1])
        /\ Base(s[l + 1]) < s[l + 1].tmp /\ s[l + 1].tmp \in 1..n
    BY <1>2, <1>5, <2>1, <2>2
  <2>4. Fills(s[k]) => s[k].tmp \in 1..n /\ s[k].tmp <= Base(s[l + 1])
    BY <1>5, <2>2
  <2>5. QED
    BY <1>2, <2>3, <2>4
<1>7. Climbs(t, m, e)
  <2>1. ASSUME NEW k \in 1..l
        PROVE  /\ Base(s[k]) \in (0..m) \ e
               /\ \A j \in 1..k : Base(s[j]) <= Base(s[k])
               /\ Fills(s[k]) => /\ s[k].tmp \in (1..m) \ e /\ Base(s[k]) < s[k].tmp
                                 /\ \A j \in (k + 1)..l : s[k].tmp <= Base(s[j])
    <3>1. k \in 1..(l + 1)
      BY <1>2
    <3>2. Base(s[k]) \in (0..n) \ d /\ Base(s[k]) \notin own
      BY <1>5, <1>6, <3>1
    <3>3. Base(s[k]) \in (0..m) \ e
      BY <3>2 DEF After
    <3>4. Fills(s[k]) => s[k].tmp \in (1..n) \ d /\ s[k].tmp \notin own
      BY <1>5, <1>6, <3>1
    <3>5. Fills(s[k]) => s[k].tmp \in (1..m) \ e
      BY <3>4 DEF After
    <3>6. \A j \in (k + 1)..l : j \in (k + 1)..(l + 1)
      BY <1>2
    <3>7. QED
      BY <1>5, <3>1, <3>3, <3>5, <3>6, Zenon
  <2>2. \A k \in 1..l : (\A j \in 1..k : j \in 1..l) /\ \A j \in (k + 1)..l : j \in 1..l
    BY <1>2
  <2>3. QED
    BY <1>1, <2>1, <2>2, Zenon DEF Climbs
<1>8. Stack(t, b, m, e)
  BY <1>1, <1>3, <1>4, <1>7, Zenon DEF Stack
<1>9. t # <<>> => Last(t).pc \in Waits
  BY <1>1, <1>2, <1>3, Zenon DEF Last
<1>10. QED
  BY <1>1, <1>8, <1>9, Zenon DEF t, l
-----------------------------------------------------------------------------
(* What the things that happen to memory do to its pointers.               *)

\* Every pointer was there before.
Fewer(new, old) == \A a \in Links(new) : a \in Links(old) /\ new[a].to = old[a].to

\* If anything leads to block x, it is what is at address a.
OnlyFrom(mem, x, a) == \A b \in Links(mem) : mem[b].to = x => b = a

\* A value that is no pointer adds none.
LEMMA WritesNoPointer ==
    ASSUME NEW mem, NEW a, NEW v, v.is # "pointer" \/ v.to = 0
    PROVE  Fewer(Write(mem, a, v), mem)
  BY DEF Fewer, Links, Write

\* Memory set to zero holds null pointers.
LEMMA ZeroedPointers ==
    ASSUME NEW mem, NEW a
    PROVE  Fewer(Zeroed(mem, a), mem)
  BY DEF Fewer, Links, Zeroed

\* An array's count is no pointer.
LEMMA CountedPointers ==
    ASSUME NEW mem, NEW a
    PROVE  Fewer(CountUp(mem, a), mem)
  BY WritesNoPointer, Zenon DEF CountUp, Counted

\* The flag of a level is no pointer.
LEMMA FlagPointers ==
    ASSUME NEW mem, NEW a, NEW b
    PROVE  Fewer(Write(mem, a, Flag(b)), mem)
<1>1. Flag(b).to = 0
  BY DEF Flag
<1>2. QED
  BY <1>1, WritesNoPointer

\* One such step after another.
LEMMA FewerFewer ==
    ASSUME NEW x, NEW y, NEW z, Fewer(x, y), Fewer(y, z)
    PROVE  Fewer(x, z)
  BY DEF Fewer

\* With fewer pointers memory stays sound.
LEMMA FewerSound ==
    ASSUME NEW new, NEW old, Fewer(new, old)
    PROVE  /\ Led(new) \subseteq Led(old)
           /\ \A n, d : Sound(old, n, d) => Sound(new, n, d)
           /\ \A x, a : OnlyFrom(old, x, a) => OnlyFrom(new, x, a)
<1>1. Led(new) \subseteq Led(old)
  BY DEF Fewer, Led
<1>2. ASSUME NEW n, NEW d, Sound(old, n, d) PROVE Sound(new, n, d)
  BY <1>2 DEF Fewer, Sound
<1>3. ASSUME NEW x, NEW a, OnlyFrom(old, x, a) PROVE OnlyFrom(new, x, a)
  BY <1>3 DEF Fewer, OnlyFrom
<1>4. QED
  BY <1>1, <1>2, <1>3

\* A pointer to a block that nothing else leads to.
LEMMA WritesPointer ==
    ASSUME NEW mem, NEW n \in Nat, NEW d, Sound(mem, n, d),
           NEW a, NEW x \in (1..n) \ d, OnlyFrom(mem, x, a), BlockOf(a) \in Nat, BlockOf(a) < x
    PROVE  LET new == Write(mem, a, PointerTo(x))
           IN  Sound(new, n, d) /\ Led(new) \subseteq Led(mem) \cup {x}
<1> DEFINE new == Write(mem, a, PointerTo(x))
<1>1. /\ a \in Links(new) /\ new[a].to = x
      /\ \A b \in Links(new) : b # a => b \in Links(mem) /\ new[b].to = mem[b].to
  BY DEF Links, Write, PointerTo
<1> HIDE DEF new
<1>2. ASSUME NEW b \in Links(new)
      PROVE  BlockOf(b) \in Nat /\ new[b].to \in (1..n) \ d /\ BlockOf(b) < new[b].to
  BY <1>1 DEF Sound
<1>3. ASSUME NEW b \in Links(new), NEW c \in Links(new), new[b].to = new[c].to
      PROVE  b = c
  BY <1>1, <1>3 DEF Sound, OnlyFrom
<1>4. Led(new) \subseteq Led(mem) \cup {x}
  BY <1>1 DEF Led
<1>5. QED
  BY <1>2, <1>3, <1>4 DEF Sound, new

\* More blocks were made.
LEMMA SoundMore ==
    ASSUME NEW mem, NEW n \in Nat, NEW d, Sound(mem, n, d), NEW m \in Nat, n <= m
    PROVE  /\ Sound(mem, m, d)
           /\ Led(mem) \subseteq 1..n
           /\ \A x, a : x > n /\ x \in Nat => OnlyFrom(mem, x, a)
<1>1. \A a \in Links(mem) : mem[a].to \in 1..n
  BY DEF Sound
<1>2. Sound(mem, m, d)
  BY <1>1 DEF Sound
<1>3. QED
  BY <1>1, <1>2 DEF Led, OnlyFrom

\* A block to which nothing leads is given back.
LEMMA SoundFreed ==
    ASSUME NEW mem, NEW n, NEW d, Sound(mem, n, d), NEW x, x \notin Led(mem)
    PROVE  Sound(mem, n, d \cup {x})
  BY DEF Sound, Led
-----------------------------------------------------------------------------
(* Frames.                                                                 *)

USE DEF TOKENS_CNT

JustCalled(c, fn, address) ==
    IsFrame(c) /\ c.id = born + 1 /\ c.fn = fn /\ c.pc = "read" /\ c.address = address

\* A function that has just been called.
LEMMA NewFrame ==
    ASSUME born \in Nat,
           NEW fn \in Functions, NEW ctx \in DOMAIN Contexts, NEW rule, NEW name,
           NEW address, IsAddress(address)
    PROVE  JustCalled(Frame(fn, ctx, rule, name, address), fn, address)
<1> DEFINE c == Frame(fn, ctx, rule, name, address)
<1>1. /\ DOMAIN c = FrameFields
      /\ c.id = born + 1 /\ c.fn = fn /\ c.pc = "read" /\ c.ctx = ctx /\ c.address = address
      /\ c.i = 0 /\ c.brackets = 0 /\ c.shift = 0
      /\ c.tokens = [k \in 0..2 |-> ZeroToken]
      /\ c.recognized.token = NoReference
  BY DEF Frame, FrameFields
<1> HIDE DEF c
<1>2. ZeroToken.token \in P!Terminals
  BY DEF ZeroToken, Tok, P!Terminals, P!TOK_EOF
<1>3. DOMAIN c.tokens = 0..2 /\ \A s \in 0..2 : c.tokens[s] = ZeroToken
  BY <1>1
<1>4. Tidy(c)
  BY <1>3 DEF Tidy
<1>5. IsFrame(c)
  BY <1>1, <1>2, <1>3, <1>4 DEF IsFrame, Stands
<1>6. QED
  BY <1>1, <1>5 DEF c, JustCalled

\* The end of a turn leaves the slot of the next one clean.
LEMMA Turned ==
    ASSUME NEW g, IsFrame(g), g.fn \in Loops, g.pc # "read"
    PROVE  /\ IsFrame(Turn(g))
           /\ Turn(g).id = g.id /\ Turn(g).address = g.address /\ Turn(g).pc = "read"
<1> DEFINE t == Turn(g)
<1>1. /\ DOMAIN t = FrameFields
      /\ t.id = g.id /\ t.fn = g.fn /\ t.ctx = g.ctx /\ t.address = g.address /\ t.pc = "read"
      /\ t.brackets = g.brackets /\ t.shift = g.shift /\ t.recognized = g.recognized
      /\ t.i = Next3(g.i)
      /\ t.tokens = IF Next3(g.i) >= 3 THEN [g.tokens EXCEPT ![Next3(g.i) % 3] = ZeroToken] ELSE g.tokens
  <2>1. DOMAIN g = FrameFields
    BY DEF IsFrame
  <2>2. QED
    BY <2>1 DEF Turn, FrameFields
<1> HIDE DEF t
<1>2. ZeroToken.token \in P!Terminals
  BY DEF ZeroToken, Tok, P!Terminals, P!TOK_EOF
<1>3. g.i \in Nat /\ DOMAIN g.tokens = 0..2 /\ \A s \in 0..2 : g.tokens[s].token \in P!Terminals
  BY DEF IsFrame
<1>4. /\ Next3(g.i) \in Nat
      /\ \A s \in 0..2 : t.tokens[s] = IF Next3(g.i) >= 3 /\ s = Next3(g.i) % 3 THEN ZeroToken ELSE g.tokens[s]
  BY <1>1, <1>3 DEF Next3
<1>5. DOMAIN t.tokens = 0..2 /\ \A s \in 0..2 : t.tokens[s].token \in P!Terminals
  BY <1>1, <1>2, <1>3, <1>4
<1>6. Tidy(t)
  <2>1. \A s \in 0..2 : g.tokens[s] # ZeroToken => s <= g.i
    BY DEF IsFrame, Tidy
  <2>2. ASSUME NEW s \in 0..2, t.tokens[s] # ZeroToken PROVE s <= t.i /\ s < t.i /\ s # t.i % 3
    <3>1. g.tokens[s] # ZeroToken /\ ~(Next3(g.i) >= 3 /\ s = Next3(g.i) % 3)
      BY <1>4, <2>2
    <3>2. s < Next3(g.i)
      BY <1>3, <2>1, <3>1 DEF Next3
    <3>3. s # Next3(g.i) % 3
      <4>1. CASE Next3(g.i) >= 3
        BY <3>1, <4>1
      <4>2. CASE Next3(g.i) \in {0, 1, 2}
        BY <3>2, <4>2
      <4>3. QED
        BY <1>4, <4>1, <4>2
    <3>4. QED
      BY <1>1, <1>4, <3>2, <3>3
  <2>3. t.fn \notin {"skip", "array_value"}
    BY <1>1 DEF Loops
  <2>4. QED
    BY <2>2, <2>3 DEF Tidy
<1>7. IsFrame(t)
  <2>1. t.i \in Nat
    BY <1>1, <1>4
  <2>2. t.pc \in Waits \cup Stands
    BY <1>1 DEF Stands
  <2>3. QED
    BY <1>1, <1>5, <1>6, <2>1, <2>2 DEF IsFrame
<1>8. QED
  BY <1>1, <1>7 DEF t

\* A token read into the slot that was clean.
LEMMA TokenTaken ==
    ASSUME NEW g, IsFrame(g), g.pc = "read", NEW slot \in 0..2,
           g.fn \in Loops => slot = g.i % 3,
           NEW t, t.token \in P!Terminals
    PROVE  LET h == [g EXCEPT !.tokens[slot] = t, !.picked = t.token, !.pc = "react"]
           IN  IsFrame(h) /\ h.id = g.id /\ h.address = g.address /\ h.pc = "react"
<1> DEFINE h == [g EXCEPT !.tokens[slot] = t, !.picked = t.token, !.pc = "react"]
<1>1. /\ DOMAIN h = FrameFields
      /\ h.id = g.id /\ h.fn = g.fn /\ h.ctx = g.ctx /\ h.address = g.address /\ h.pc = "react"
      /\ h.brackets = g.brackets /\ h.shift = g.shift /\ h.recognized = g.recognized
      /\ h.i = g.i
      /\ h.tokens = [g.tokens EXCEPT ![slot] = t]
  <2>1. DOMAIN g = FrameFields
    BY DEF IsFrame
  <2>2. QED
    BY <2>1 DEF FrameFields
<1> HIDE DEF h
<1>2. g.i \in Nat /\ DOMAIN g.tokens = 0..2 /\ \A s \in 0..2 : g.tokens[s].token \in P!Terminals
  BY DEF IsFrame
<1>3. \A s \in 0..2 : h.tokens[s] = IF s = slot THEN t ELSE g.tokens[s]
  BY <1>1, <1>2
<1>4. DOMAIN h.tokens = 0..2 /\ \A s \in 0..2 : h.tokens[s].token \in P!Terminals
  BY <1>1, <1>2, <1>3
<1>5. Tidy(h)
  <2>1. ASSUME NEW s \in 0..2, g.fn \in Loops, h.tokens[s] # ZeroToken PROVE s <= h.i
    <3>1. CASE s = slot
      <4>1. g.i % 3 <= g.i
        BY <1>2
      <4>2. QED
        BY <1>1, <2>1, <3>1, <4>1
    <3>2. CASE s # slot
      <4>1. s < g.i
        BY <1>3, <2>1, <3>2 DEF IsFrame, Tidy
      <4>2. QED
        BY <1>1, <1>2, <4>1
    <3>3. QED
      BY <3>1, <3>2
  <2>2. QED
    BY <1>1, <2>1 DEF Tidy
<1>6. IsFrame(h)
  BY <1>1, <1>4, <1>5 DEF IsFrame, Stands
<1>7. QED
  BY <1>1, <1>6 DEF h

\* The place where a function stands, and what it was told, may change freely as
\* long as it does not come to read.
LEMMA FrameMoves ==
    ASSUME NEW g, IsFrame(g), NEW pc \in Waits \cup (Stands \ {"read"})
    PROVE  LET h == [g EXCEPT !.pc = pc]
           IN  /\ IsFrame(h) /\ h.id = g.id /\ h.address = g.address /\ h.pc = pc
               /\ h.fn = g.fn /\ h.rule = g.rule /\ h.tmp = g.tmp
<1> DEFINE h == [g EXCEPT !.pc = pc]
<1>1. /\ DOMAIN h = FrameFields
      /\ h.id = g.id /\ h.fn = g.fn /\ h.ctx = g.ctx /\ h.address = g.address /\ h.pc = pc
      /\ h.brackets = g.brackets /\ h.shift = g.shift /\ h.recognized = g.recognized
      /\ h.i = g.i /\ h.tokens = g.tokens /\ h.rule = g.rule /\ h.tmp = g.tmp
  <2>1. DOMAIN g = FrameFields
    BY DEF IsFrame
  <2>2. QED
    BY <2>1 DEF FrameFields
<1> HIDE DEF h
<1>2. pc # "read"
  BY DEF Waits, Stands
<1>3. Tidy(h)
  BY <1>1, <1>2 DEF IsFrame, Tidy
<1>4. IsFrame(h)
  BY <1>1, <1>3 DEF IsFrame
<1>5. QED
  BY <1>1, <1>4 DEF h

\* A function keeps what the parser has reported.
LEMMA FrameTold ==
    ASSUME NEW g, IsFrame(g), NEW e, e.token \in References \cup {NoReference}
    PROVE  LET h == [g EXCEPT !.recognized = e]
           IN  /\ IsFrame(h) /\ h.id = g.id /\ h.address = g.address /\ h.pc = g.pc
               /\ h.fn = g.fn /\ h.rule = g.rule /\ h.tmp = g.tmp
<1> DEFINE h == [g EXCEPT !.recognized = e]
<1>1. /\ DOMAIN h = FrameFields
      /\ h.id = g.id /\ h.fn = g.fn /\ h.ctx = g.ctx /\ h.address = g.address /\ h.pc = g.pc
      /\ h.brackets = g.brackets /\ h.shift = g.shift /\ h.recognized = e
      /\ h.i = g.i /\ h.tokens = g.tokens /\ h.rule = g.rule /\ h.tmp = g.tmp
  <2>1. DOMAIN g = FrameFields
    BY DEF IsFrame
  <2>2. QED
    BY <2>1 DEF FrameFields
<1> HIDE DEF h
<1>2. Tidy(h)
  BY <1>1 DEF IsFrame, Tidy
<1>3. IsFrame(h)
  BY <1>1, <1>2 DEF IsFrame
<1>4. QED
  BY <1>1, <1>3 DEF h

\* The next element of an array is placed behind this one.
LEMMA FrameShifted ==
    ASSUME NEW g, IsFrame(g), NEW n \in Nat
    PROVE  LET h == [g EXCEPT !.shift = @ + n]
           IN  /\ IsFrame(h) /\ h.id = g.id /\ h.address = g.address /\ h.pc = g.pc
               /\ h.fn = g.fn /\ h.rule = g.rule /\ h.tmp = g.tmp
<1> DEFINE h == [g EXCEPT !.shift = @ + n]
<1>1. /\ DOMAIN h = FrameFields
      /\ h.id = g.id /\ h.fn = g.fn /\ h.ctx = g.ctx /\ h.address = g.address /\ h.pc = g.pc
      /\ h.brackets = g.brackets /\ h.shift = g.shift + n /\ h.recognized = g.recognized
      /\ h.i = g.i /\ h.tokens = g.tokens /\ h.rule = g.rule /\ h.tmp = g.tmp
  <2>1. DOMAIN g = FrameFields
    BY DEF IsFrame
  <2>2. QED
    BY <2>1 DEF FrameFields
<1> HIDE DEF h
<1>2. Tidy(h)
  BY <1>1 DEF IsFrame, Tidy
<1>3. IsFrame(h)
  BY <1>1, <1>2 DEF IsFrame
<1>4. QED
  BY <1>1, <1>3 DEF h

\* A block to fill.
LEMMA FrameFills ==
    ASSUME NEW g, IsFrame(g), NEW n
    PROVE  LET h == [g EXCEPT !.tmp = n]
           IN  /\ IsFrame(h) /\ h.id = g.id /\ h.address = g.address /\ h.pc = g.pc
               /\ h.fn = g.fn /\ h.rule = g.rule /\ h.tmp = n
<1> DEFINE h == [g EXCEPT !.tmp = n]
<1>1. /\ DOMAIN h = FrameFields
      /\ h.id = g.id /\ h.fn = g.fn /\ h.ctx = g.ctx /\ h.address = g.address /\ h.pc = g.pc
      /\ h.brackets = g.brackets /\ h.shift = g.shift /\ h.recognized = g.recognized
      /\ h.i = g.i /\ h.tokens = g.tokens /\ h.rule = g.rule /\ h.tmp = n
  <2>1. DOMAIN g = FrameFields
    BY DEF IsFrame
  <2>2. QED
    BY <2>1 DEF FrameFields
<1> HIDE DEF h
<1>2. Tidy(h)
  BY <1>1 DEF IsFrame, Tidy
<1>3. IsFrame(h)
  BY <1>1, <1>2 DEF IsFrame
<1>4. QED
  BY <1>1, <1>3 DEF h
-----------------------------------------------------------------------------
(* What a step does to the C stack, the heap and the result together.      *)

Keeps(g) == IsFrame(g) /\ g.id = f.id /\ g.address = f.address

\* Another function is called, to write to a block that is no older than its
\* caller's, or to the one just made for it.
Begins(g, c) ==
    /\ Keeps(g) /\ g.pc \in Waits
    /\ IsFrame(c) /\ c.id = born + 1 /\ ~Fills(c) /\ c.pc \notin Waits
    /\ Base(c) \in (0..mallocs') \ freed' /\ Base(f) <= Base(c)
    /\ Fills(g) => /\ g.tmp = mallocs + 1 /\ mallocs' = mallocs + 1 /\ Base(c) = mallocs + 1
                   /\ g.tmp \notin freed' \cup Led(memory')

\* The block that the function at work has had filled.
Own == {x \in {f.tmp} : Fills(f)}

\* What a step does to the heap: pointers may lead to new blocks and to those of own.
HeapKept(own) ==
    /\ After(mallocs, freed, mallocs', freed', own)
    /\ Led(memory') \subseteq Led(memory) \cup own \cup (mallocs + 1)..mallocs'
    /\ Sound(memory', mallocs', freed')

\* All functions but the innermost are where they were.
Unwinds == frames' = IF frames = <<>> THEN <<>> ELSE Front(frames)

\* The invariant's parts about stack, heap and result, and that nothing is done
\* after a failure but to return.
Kept ==
    /\ ret' \in {0, -1} /\ born' \in Nat /\ mallocs' \in Nat /\ freed' \subseteq 1..mallocs'
    /\ Stack(frames', born', mallocs', freed')
    /\ Sound(memory', mallocs', freed')
    /\ Unled(Led(memory'), frames')
    /\ ret' = -1 /\ frames' # <<>> => Last(frames').pc \in Waits
    /\ ret = -1 => setterCalls' = setterCalls /\ (Unwinds \/ call.busy \/ UNCHANGED vars)

\* What the invariant says of the frame at work.
LEMMA AtWork ==
    ASSUME IInv, frames # <<>>
    PROVE  /\ IsFrame(f) /\ f.id \in 1..born
           /\ Len(frames) \in Nat \ {0} /\ Len(frames) \in 1..Len(frames) /\ f = frames[Len(frames)]
           /\ Base(f) \in (0..mallocs) \ freed
           /\ \A j \in 1..Len(frames) : Base(frames[j]) \in 0..mallocs /\ Base(frames[j]) <= Base(f)
           /\ Fills(f) => f.tmp \in (1..mallocs) \ freed /\ Base(f) < f.tmp /\ f.tmp \notin Led(memory)
           /\ f.pc \notin Waits => ret = 0
           /\ ret \in {0, -1} /\ born \in Nat /\ mallocs \in Nat /\ freed \subseteq 1..mallocs
           /\ Sound(memory, mallocs, freed)
<1> DEFINE l == Len(frames)
<1>1. l \in Nat \ {0}
  BY SeqLength DEF IInv, Stack
<1>2. l \in 1..l
  BY <1>1
<1>3. f = frames[l]
  BY DEF f, Last
<1>4. ret \in {0, -1} /\ born \in Nat /\ mallocs \in Nat /\ freed \subseteq 1..mallocs
      /\ Sound(memory, mallocs, freed)
  BY DEF IInv, Ranges
<1> HIDE DEF l
<1>5. IsFrame(f) /\ f.id <= born
  BY <1>2, <1>3, Zenon DEF IInv, Stack, l
<1>6. f.id \in 1..born
  BY <1>4, <1>5 DEF IsFrame
<1>7. /\ \A k \in 1..l : Base(frames[k]) \in (0..mallocs) \ freed
      /\ \A j \in 1..l : Base(frames[j]) <= Base(f)
      /\ Fills(f) => f.tmp \in (1..mallocs) \ freed /\ Base(f) < f.tmp
  BY <1>2, <1>3, Zenon DEF IInv, Stack, Climbs, l
<1>8. Base(f) \in (0..mallocs) \ freed /\ \A k \in 1..l : Base(frames[k]) \in 0..mallocs
  BY <1>2, <1>3, <1>7
<1>9. Fills(f) => f.tmp \notin Led(memory)
  BY <1>2, <1>3, Zenon DEF IInv, Unled, l
<1>10. f.pc \notin Waits => ret = 0
  BY <1>4 DEF IInv, FailureAwaited
<1>11. QED
  BY <1>1, <1>2, <1>3, <1>4, <1>5, <1>6, <1>7, <1>8, <1>9, <1>10 DEF l

\* The heap left as it is, or with fewer pointers.
LEMMA HeapFewer ==
    ASSUME IInv, Fewer(memory', memory), mallocs' = mallocs, freed' = freed
    PROVE  HeapKept({})
<1>1. mallocs \in Nat /\ Sound(memory, mallocs, freed)
  BY DEF IInv, Ranges
<1>2. Led(memory') \subseteq Led(memory) /\ Sound(memory', mallocs, freed)
  BY <1>1, FewerSound
<1>3. After(mallocs, freed, mallocs', freed', {})
  BY <1>1 DEF After
<1>4. QED
  BY <1>2, <1>3 DEF HeapKept

\* The heap left as it is.
LEMMA HeapSame ==
    ASSUME IInv, UNCHANGED <<memory, mallocs, freed>>
    PROVE  HeapKept({})
<1>1. Fewer(memory', memory)
  BY DEF Fewer
<1>2. QED
  BY <1>1, HeapFewer

\* What functions of a stack fill was filled before the step, or has no pointer
\* to it behind it.
Apart(s, own) ==
    \A k \in 1..Len(s) : Fills(s[k]) =>
        /\ s[k].tmp \notin own
        /\ \/ \E j \in 1..Len(frames) : s[k] = frames[j]
           \/ s[k].tmp \notin Led(memory')

\* Then nothing leads to it behind the step.
LEMMA UnledKept ==
    ASSUME IInv, NEW own, HeapKept(own), NEW s, Apart(s, own)
    PROVE  Unled(Led(memory'), s)
<1>1. mallocs \in Nat
  BY DEF IInv, Ranges
<1>2. ASSUME NEW k \in 1..Len(s), Fills(s[k]) PROVE s[k].tmp \notin Led(memory')
  <2>1. CASE \E j \in 1..Len(frames) : s[k] = frames[j]
    <3>1. PICK j \in 1..Len(frames) : s[k] = frames[j]
      BY <2>1
    <3>2. Fills(frames[j])
      BY <1>2, <3>1
    <3>3. frames[j].tmp \notin Led(memory) /\ frames[j].tmp \in 1..mallocs
      BY <3>2 DEF IInv, Unled, Stack, Climbs
    <3>4. frames[j].tmp \notin (mallocs + 1)..mallocs' /\ frames[j].tmp \notin own
      BY <1>1, <1>2, <3>1, <3>3 DEF Apart
    <3>5. QED
      BY <3>1, <3>3, <3>4 DEF HeapKept
  <2>2. QED
    BY <1>2, <2>1 DEF Apart
<1>3. QED
  BY <1>2 DEF Unled

\* Blocks given back are blocks that were made.
LEMMA FreedMade ==
    ASSUME NEW n \in Nat, NEW d, d \subseteq 1..n, NEW own, own \subseteq 1..n,
           NEW m, NEW e, After(n, d, m, e, own)
    PROVE  m \in Nat /\ e \subseteq 1..m
<1>1. 1..n \subseteq 1..m /\ (n + 1)..m \subseteq 1..m
  BY DEF After
<1>2. QED
  BY <1>1 DEF After

\* The function at work goes on.
LEMMA SetKept ==
    ASSUME IInv, frames # <<>>, ret = 0, NEW g, Keeps(g), ~Fills(g), Set(g), HeapKept({})
    PROVE  Kept
<1>1. /\ born \in Nat /\ mallocs \in Nat /\ freed \subseteq 1..mallocs
      /\ Stack(frames, born, mallocs, freed)
      /\ After(mallocs, freed, mallocs', freed', {}) /\ Sound(memory', mallocs', freed')
  BY DEF IInv, Ranges, HeapKept
<1> DEFINE t == [frames EXCEPT ![Len(frames)] = g]
<1>2. frames' = t
  BY DEF Set
<1>3. born' = born /\ ret' = 0
  BY DEF Set
<1> HIDE DEF t
<1>4. /\ Stack(t, born, mallocs', freed')
      /\ t # <<>> /\ Last(t) = g /\ Len(t) = Len(frames)
      /\ \A k \in 1..(Len(t) - 1) : t[k] = frames[k]
  <2>1. IsFrame(g) /\ g.id = Last(frames).id /\ g.address = Last(frames).address
    BY DEF Keeps, f
  <2>2. QED
    BY <1>1, <2>1, StackReplaced DEF t
<1>5. Unled(Led(memory'), t)
  <2>1. Len(frames) \in Nat \ {0}
    BY AtWork
  <2>2. ASSUME NEW k \in 1..Len(t), Fills(t[k]) PROVE \E j \in 1..Len(frames) : t[k] = frames[j]
    <3>1. t[Len(t)] = g
      BY <1>4 DEF Last
    <3>2. k \in 1..(Len(t) - 1) /\ k \in 1..Len(frames)
      BY <1>4, <2>1, <2>2, <3>1
    <3>3. QED
      BY <1>4, <3>2
  <2>3. Apart(t, {})
    BY <2>2 DEF Apart
  <2>4. QED
    BY <2>3, UnledKept
<1>6. mallocs' \in Nat /\ freed' \subseteq 1..mallocs'
  BY <1>1, FreedMade
<1>7. QED
  BY <1>1, <1>2, <1>3, <1>4, <1>5, <1>6 DEF Kept

\* It calls another.
LEMMA CallKept ==
    ASSUME IInv, frames # <<>>, ret = 0, NEW g, NEW pc, NEW c,
           Begins([g EXCEPT !.pc = pc], c), Call(g, pc, c), HeapKept({})
    PROVE  Kept
<1> DEFINE h == [g EXCEPT !.pc = pc]
           t == [frames EXCEPT ![Len(frames)] = h]
<1>1. /\ born \in Nat /\ mallocs \in Nat /\ freed \subseteq 1..mallocs
      /\ Stack(frames, born, mallocs, freed)
      /\ After(mallocs, freed, mallocs', freed', {}) /\ Sound(memory', mallocs', freed')
  BY DEF IInv, Ranges, HeapKept
<1>2. frames' = Append(t, c) /\ born' = born + 1 /\ ret' = ret
  BY DEF Call
<1>3. Begins(h, c)
  OBVIOUS
<1> HIDE DEF h, t
<1>4. mallocs' \in Nat /\ freed' \subseteq 1..mallocs'
  BY <1>1, FreedMade
<1>5. /\ Stack(t, born, mallocs', freed')
      /\ t # <<>> /\ Last(t) = h /\ Len(t) = Len(frames)
      /\ \A k \in 1..(Len(t) - 1) : t[k] = frames[k]
  <2>1. /\ IsFrame(h) /\ h.id = Last(frames).id /\ h.address = Last(frames).address
        /\ Fills(h) => h.tmp = mallocs + 1 /\ mallocs' = mallocs + 1 /\ h.tmp \notin freed'
    BY <1>3 DEF Begins, Keeps, f
  <2>2. QED
    BY <1>1, <2>1, StackReplaced DEF t
<1>6. Base(h) = Base(f)
  BY <1>3 DEF Begins, Keeps, Base
<1>7. /\ Stack(frames', born + 1, mallocs', freed')
      /\ frames' # <<>> /\ Last(frames') = c /\ Len(frames') = Len(t) + 1
      /\ \A k \in 1..Len(t) : frames'[k] = t[k]
  <2>1. /\ h.pc \in Waits /\ IsFrame(c) /\ c.id = born + 1 /\ ~Fills(c)
        /\ Base(c) \in (0..mallocs') \ freed' /\ Base(h) <= Base(c)
        /\ Fills(h) => h.tmp <= Base(c)
    BY <1>1, <1>3, <1>6 DEF Begins
  <2>2. QED
    BY <1>1, <1>2, <1>4, <1>5, <2>1, StackPushed
<1>8. Unled(Led(memory'), frames')
  <2>1. Len(frames) \in Nat \ {0}
    BY AtWork
  <2>2. ASSUME NEW k \in 1..Len(frames'), Fills(frames'[k])
        PROVE  \/ \E j \in 1..Len(frames) : frames'[k] = frames[j]
               \/ frames'[k].tmp \notin Led(memory')
    <3>1. frames'[Len(frames) + 1] = c /\ ~Fills(c)
      BY <1>3, <1>5, <1>7 DEF Last, Begins
    <3>2. k \in 1..Len(t) /\ frames'[k] = t[k]
      BY <1>5, <1>7, <2>1, <2>2, <3>1
    <3>3. CASE k = Len(t)
      <4>1. frames'[k] = h
        BY <1>5, <3>2, <3>3 DEF Last
      <4>2. QED
        BY <1>3, <2>2, <4>1 DEF Begins
    <3>4. CASE k # Len(t)
      <4>1. k \in 1..(Len(t) - 1) /\ k \in 1..Len(frames)
        BY <1>5, <2>1, <3>2, <3>4
      <4>2. QED
        BY <1>5, <3>2, <4>1
    <3>5. QED
      BY <3>3, <3>4
  <2>3. Apart(frames', {})
    BY <2>2 DEF Apart
  <2>4. QED
    BY <2>3, UnledKept
<1>9. born' \in Nat
  BY <1>1, <1>2
<1>10. Stack(frames', born', mallocs', freed')
  BY <1>2, <1>7
<1>11. c.pc \notin Waits /\ ret' = 0
  BY <1>2, <1>3 DEF Begins
<1>12. QED
  BY <1>1, <1>4, <1>8, <1>9, <1>10, <1>11 DEF Kept

\* It returns; the block it has had filled was attached or given back.
LEMMA ReturnKept ==
    ASSUME IInv, frames # <<>>, NEW r \in {0, -1}, Return(r), NEW own, own \subseteq Own, HeapKept(own),
           ret = 0 \/ setterCalls' = setterCalls
    PROVE  Kept
<1>1. /\ born \in Nat /\ mallocs \in Nat /\ freed \subseteq 1..mallocs
      /\ Stack(frames, born, mallocs, freed)
      /\ After(mallocs, freed, mallocs', freed', own) /\ Sound(memory', mallocs', freed')
  BY DEF IInv, Ranges, HeapKept
<1>2. frames' = Front(frames) /\ born' = born /\ ret' = r
  BY DEF Return
<1>3. /\ Stack(frames', born, mallocs', freed')
      /\ Len(frames') = Len(frames) - 1
      /\ frames' # <<>> => Last(frames').pc \in Waits
      /\ \A k \in 1..Len(frames') : frames'[k] = frames[k]
  <2>1. After(mallocs, freed, mallocs', freed', {x \in {Last(frames).tmp} : Fills(Last(frames))})
    BY <1>1 DEF After, Own, f
  <2>2. QED
    BY <1>1, <1>2, <2>1, StackPopped, Zenon
<1>4. Len(frames) \in Nat \ {0} /\ f = frames[Len(frames)]
      /\ (Fills(f) => f.tmp \in 1..mallocs)
  BY AtWork
<1>5. own \subseteq 1..mallocs
  BY <1>4 DEF Own
<1>6. mallocs' \in Nat /\ freed' \subseteq 1..mallocs'
  BY <1>1, <1>5, FreedMade
<1>7. ASSUME NEW k \in 1..Len(frames'), Fills(frames'[k])
      PROVE  frames'[k].tmp \notin own /\ \E j \in 1..Len(frames) : frames'[k] = frames[j]
  <2>1. k \in 1..Len(frames) /\ Len(frames) \in 1..Len(frames) /\ Len(frames) \in (k + 1)..Len(frames)
    BY <1>3, <1>4
  <2>2. frames'[k] = frames[k]
    BY <1>3
  <2>3. frames[k].tmp \in 1..mallocs /\ frames[k].tmp <= Base(f)
    BY <1>4, <1>7, <2>1, <2>2 DEF IInv, Stack, Climbs
  <2>4. Fills(f) => Base(f) < f.tmp /\ f.tmp \in 1..mallocs /\ Base(f) \in 0..mallocs
    BY AtWork
  <2>5. frames[k].tmp \notin own
    BY <2>3, <2>4 DEF Own
  <2>6. QED
    BY <2>1, <2>2, <2>5
<1>8. Unled(Led(memory'), frames')
  <2>1. Apart(frames', own)
    BY <1>7 DEF Apart
  <2>2. QED
    BY <2>1, UnledKept
<1>9. Unwinds
  BY <1>2 DEF Unwinds
<1>10. ret = -1 => setterCalls' = setterCalls
  OBVIOUS
<1>11. QED
  BY <1>1, <1>2, <1>3, <1>6, <1>8, <1>9, <1>10 DEF Kept

\* It stops where it is.
LEMMA StopKept ==
    ASSUME IInv, UNCHANGED <<frames, born, ret, memory, mallocs, freed, setterCalls>>,
           ret = 0 \/ frames = <<>> \/ call.busy \/ UNCHANGED vars
    PROVE  Kept
<1>1. /\ ret \in {0, -1} /\ born \in Nat /\ mallocs \in Nat /\ freed \subseteq 1..mallocs
      /\ Stack(frames, born, mallocs, freed)
      /\ Sound(memory, mallocs, freed) /\ Unled(Led(memory), frames)
      /\ ret = -1 /\ frames # <<>> => Last(frames).pc \in Waits
  BY DEF IInv, Ranges, FailureAwaited, f
<1>2. frames = <<>> => Unwinds
  BY DEF Unwinds
<1>3. QED
  BY <1>1, <1>2 DEF Kept

\* It returns, and has filled no block.
LEMMA GivesUp ==
    ASSUME IInv, frames # <<>>, NEW r \in {0, -1}, Return(r), HeapKept({}),
           ret = 0 \/ setterCalls' = setterCalls
    PROVE  Kept
<1>1. {} \subseteq Own
  OBVIOUS
<1>2. QED
  BY <1>1, ReturnKept

\* A function is called to write to a block no older than its caller's.
LEMMA CallInto ==
    ASSUME IInv, frames # <<>>, ret = 0,
           NEW g, Keeps(g), NEW pc \in Waits,
           pc = "called" /\ g.fn \in {"object_value", "array_value"} => ~g.rule.allocate,
           NEW c, IsFrame(c), c.id = born + 1, c.pc \in {"read", "enter"},
           Base(c) \in (0..mallocs') \ freed', Base(f) <= Base(c),
           Call(g, pc, c), HeapKept({})
    PROVE  Kept
<1> DEFINE h == [g EXCEPT !.pc = pc]
<1>1. /\ IsFrame(h) /\ h.id = g.id /\ h.address = g.address /\ h.pc = pc
      /\ h.fn = g.fn /\ h.rule = g.rule
  <2>1. pc \in Waits \cup (Stands \ {"read"}) /\ IsFrame(g)
    BY DEF Keeps
  <2>2. QED
    BY <2>1, FrameMoves
<1> HIDE DEF h
<1>2. Keeps(h) /\ ~Fills(h)
  BY <1>1 DEF Keeps, Fills
<1>3. ~Fills(c) /\ c.pc \notin Waits
  BY DEF Fills, Waits
<1>4. Begins(h, c)
  BY <1>1, <1>2, <1>3 DEF Begins
<1>5. QED
  BY <1>4, CallKept DEF h

\* A function is called to write where its caller does.
LEMMA CallWithin ==
    ASSUME IInv, frames # <<>>, ret = 0,
           NEW g, Keeps(g), NEW pc \in Waits,
           pc = "called" /\ g.fn \in {"object_value", "array_value"} => ~g.rule.allocate,
           NEW c, IsFrame(c), c.id = born + 1, c.pc \in {"read", "enter"}, Base(c) = Base(f),
           Call(g, pc, c), mallocs' = mallocs, freed' = freed, HeapKept({})
    PROVE  Kept
<1>1. Base(f) \in (0..mallocs) \ freed
  BY AtWork
<1>2. Base(c) \in (0..mallocs') \ freed' /\ Base(f) <= Base(c)
  BY <1>1
<1>3. QED
  BY <1>2, CallInto
-----------------------------------------------------------------------------
(* The steps.                                                              *)

\* A token has been handed to the parser.
Fed == /\ call'.major \in P!Terminals /\ call'.minor \in References
       /\ entity' \in P!Entities
       /\ P!Parse(call'.major, call'.minor, entity')

\* What every step of a running program does.
Fine ==
    /\ Kept
    /\ phase' = "running"
    /\ ub' \in {"none", "overrun", "dangling", "uninitialised"}
    /\ doc' = doc
    /\ pos' \in 1..(Len(doc.tokens) + 1)
    /\ ret = -1 => pos' = pos
    /\ UNCHANGED parserVars \/ P!Step \/ Fed

\* A step that reads no token leaves parser and lexer alone.
LEMMA ReactFine ==
    ASSUME IInv, NEW fns, NEW pcs, Reacts(fns, pcs), Kept,
           ub' \in {"none", "overrun", "dangling", "uninitialised"}
    PROVE  Fine
<1>1. phase = "running" /\ UNCHANGED <<parserVars, lexerVars, phase>>
  BY DEF Reacts, In
<1>2. doc' = doc /\ pos' = pos /\ phase' = "running"
  BY <1>1 DEF lexerVars
<1>3. pos \in 1..(Len(doc.tokens) + 1)
  BY DEF IInv, Ranges
<1>4. QED
  BY <1>1, <1>2, <1>3 DEF Fine

\* What the parser has reported can be kept in a frame.
LEMMA EntityKnown ==
    ASSUME IInv
    PROVE  entity.token \in References \cup {NoReference}
  BY DEF IInv, PP!IInv, PP!TypeOK

\* What is known where a function goes on without reading.
LEMMA Working ==
    ASSUME IInv, NEW fns, NEW pcs, Reacts(fns, pcs)
    PROVE  /\ frames # <<>> /\ f.fn \in fns /\ f.pc \in pcs
           /\ ub = "none" /\ IsFrame(f) /\ Keeps(f)
           /\ f.pc \notin Waits => ret = 0
           /\ ret \in {0, -1} /\ born \in Nat /\ mallocs \in Nat
           /\ f.ctx \in DOMAIN Contexts /\ IsAddress(f.address)
           /\ Base(f) \in (0..mallocs) \ freed
<1>1. frames # <<>> /\ f.fn \in fns /\ f.pc \in pcs /\ ub = "none"
  BY DEF Reacts, In
<1>2. IsFrame(f)
  BY <1>1, AtWork
<1>3. f.ctx \in DOMAIN Contexts /\ IsAddress(f.address)
  BY <1>2 DEF IsFrame
<1>4. Keeps(f)
  BY <1>2 DEF Keeps
<1>5. QED
  BY <1>1, <1>2, <1>3, <1>4, AtWork

\* yajp_deserialize_value.
LEMMA DeserializeKept ==
    ASSUME IInv, frames # <<>>, f.fn = "parse", f.pc = "react",
           NEW key, Deserialize(key), UNCHANGED heapVars
    PROVE  Kept
<1> DEFINE rule == Contexts[f.ctx][key]
           address == Member(f.address, rule.field)
           Callee(fn) == Frame(fn, rule.ctx, rule, entity.token, address)
           skip == Frame("skip", f.ctx, NoRule, entity.token, f.address)
<1>1. ret = 0 /\ born \in Nat /\ IsFrame(f) /\ Keeps(f) /\ f.ctx \in DOMAIN Contexts /\ IsAddress(f.address)
  BY AtWork DEF Keeps, IsFrame, Waits
<1>2. UNCHANGED <<memory, mallocs, freed, setterCalls>> /\ HeapKept({})
  BY HeapSame DEF heapVars
<1>3. IsAddress(address) /\ BlockOf(address) = BlockOf(f.address)
  BY <1>1, MemberWithin
<1>4. "called" \in Waits /\ f.fn \notin {"object_value", "array_value"}
  BY DEF Waits
<1>5. CASE key \notin DOMAIN Contexts[f.ctx]
  <2>1. Call(f, "called", skip)
    BY <1>5 DEF Deserialize
  <2>2. JustCalled(skip, "skip", f.address)
    <3>1. "skip" \in Functions
      BY DEF Functions
    <3>2. QED
      BY <1>1, <3>1, NewFrame, Zenon
  <2> HIDE DEF skip
  <2>3. IsFrame(skip) /\ skip.id = born + 1 /\ skip.pc \in {"read", "enter"} /\ Base(skip) = Base(f)
    BY <2>2 DEF JustCalled, Base
  <2>4. QED
    BY <1>1, <1>2, <1>4, <2>1, <2>3, CallWithin
<1>6. CASE key \in DOMAIN Contexts[f.ctx]
  <2>1. rule.ctx \in DOMAIN Contexts
    BY <1>1, <1>6, DeserializerAssumption
  <2>2. \/ Call(f, "called", Callee("primitive"))
        \/ Call(f, "called", Callee("array_value"))
        \/ Call(f, "called", [Callee("object_value") EXCEPT !.pc = "enter"])
        \/ Return(-1)
    BY <1>6 DEF Deserialize
  <2> HIDE DEF address, rule
  <2>3. ASSUME NEW fn \in Functions
        PROVE  JustCalled(Callee(fn), fn, address)
    BY <1>1, <1>3, <2>1, NewFrame, Zenon
  <2>4. ASSUME NEW fn \in Functions
        PROVE  LET e == [Callee(fn) EXCEPT !.pc = "enter"]
               IN  IsFrame(e) /\ e.id = born + 1 /\ e.pc = "enter" /\ e.address = address
    <3> HIDE DEF Callee
    <3>1. Callee(fn).id = born + 1 /\ Callee(fn).address = address /\ IsFrame(Callee(fn))
      BY <2>3 DEF JustCalled
    <3>2. "enter" \in Waits \cup (Stands \ {"read"})
      BY DEF Stands
    <3>3. QED
      BY <3>1, <3>2, FrameMoves, ZenonT(30)
  <2>5. {"primitive", "array_value", "object_value"} \subseteq Functions
    BY DEF Functions
  <2> HIDE DEF Callee
  <2>6. ASSUME NEW c, IsFrame(c), c.id = born + 1, c.pc \in {"read", "enter"}, c.address = address,
               Call(f, "called", c)
        PROVE  Kept
    <3>1. Base(c) = Base(f)
      BY <1>3, <2>6 DEF Base
    <3>2. QED
      BY <1>1, <1>2, <1>4, <2>6, <3>1, CallWithin
  <2>7. CASE Call(f, "called", Callee("primitive"))
    BY <2>3, <2>5, <2>6, <2>7 DEF JustCalled
  <2>8. CASE Call(f, "called", Callee("array_value"))
    BY <2>3, <2>5, <2>6, <2>8 DEF JustCalled
  <2>9. CASE Call(f, "called", [Callee("object_value") EXCEPT !.pc = "enter"])
    <3> DEFINE e == [Callee("object_value") EXCEPT !.pc = "enter"]
    <3>1. IsFrame(e) /\ e.id = born + 1 /\ e.pc = "enter" /\ e.address = address
      BY <2>4, <2>5
    <3>2. Call(f, "called", e)
      BY <2>9
    <3> HIDE DEF e
    <3>3. QED
      BY <2>6, <3>1, <3>2
  <2>10. CASE Return(-1)
    BY <1>1, <1>2, <2>10, GivesUp
  <2>11. QED
    BY <2>2, <2>7, <2>8, <2>9, <2>10
<1>7. QED
  BY <1>5, <1>6

\* yajp_parse takes another turn, or returns at the end of its object.
LEMMA ParseTurnKept ==
    ASSUME IInv, frames # <<>>, f.fn = "parse", f.pc # "read", ret = 0,
           ParseTurn, UNCHANGED heapVars
    PROVE  Kept
<1>1. HeapKept({})
  BY HeapSame DEF heapVars
<1>2. Return(0) \/ Set(Turn(f))
  BY DEF ParseTurn
<1>3. CASE Return(0)
  BY <1>1, <1>3, GivesUp
<1>4. CASE Set(Turn(f))
  <2>1. IsFrame(f) /\ f.fn \in Loops
    BY AtWork DEF Loops
  <2>2. Keeps(Turn(f)) /\ ~Fills(Turn(f))
    BY <2>1, Turned DEF Keeps, Fills
  <2>3. QED
    BY <1>1, <1>4, <2>2, SetKept
<1>5. QED
  BY <1>2, <1>3, <1>4

\* yajp_parse after the parser was called: a pair to deserialize, or not.
LEMMA ParseReactFine ==
    ASSUME IInv, ParseReact
    PROVE  Fine
<1>1. Reacts({"parse"}, {"react"}) /\ UNCHANGED heapVars
  BY DEF ParseReact
<1>2. /\ frames # <<>> /\ f.fn = "parse" /\ f.pc = "react"
      /\ ub = "none" /\ ret = 0
  BY <1>1, Working DEF Waits
<1>3. \/ ParseTurn /\ UNCHANGED ub
      \/ Undefined("dangling")
      \/ Deserialize(Deref(entity.token).value) /\ UNCHANGED ub
  BY DEF ParseReact
<1>4. Kept
  <2>1. CASE ParseTurn
    BY <1>1, <1>2, <2>1, ParseTurnKept
  <2>2. CASE Undefined("dangling")
    BY <1>1, <1>2, <2>2, StopKept DEF Undefined, heapVars
  <2>3. CASE Deserialize(Deref(entity.token).value)
    BY <1>1, <1>2, <2>3, DeserializeKept
  <2>4. QED
    BY <1>3, <2>1, <2>2, <2>3
<1>5. ub' \in {"none", "dangling"}
  BY <1>2, <1>3 DEF Undefined
<1>6. QED
  BY <1>1, <1>4, <1>5, ReactFine

\* yajp_parse after a value was deserialized.
LEMMA ParseCalledFine ==
    ASSUME IInv, ParseCalled
    PROVE  Fine
<1>1. Reacts({"parse"}, {"called"}) /\ UNCHANGED <<heapVars, ub>>
  BY DEF ParseCalled
<1>2. /\ frames # <<>> /\ f.fn = "parse" /\ f.pc = "called"
      /\ ub = "none" /\ ret \in {0, -1}
  BY <1>1, Working
<1>3. IF ret # 0 THEN Return(-1) ELSE ParseTurn
  BY DEF ParseCalled
<1>4. Kept
  <2>1. CASE ret # 0
    <3>1. Return(-1) /\ UNCHANGED <<memory, mallocs, freed, setterCalls>>
      BY <1>1, <1>3, <2>1 DEF heapVars
    <3>2. QED
      BY <1>2, <3>1, HeapSame, GivesUp
  <2>2. CASE ret = 0
    BY <1>1, <1>2, <1>3, <2>2, ParseTurnKept
  <2>3. QED
    BY <2>1, <2>2
<1>5. QED
  BY <1>1, <1>2, <1>4, ReactFine

\* yajp_parse_primitive_value stores a null pointer, or one to the block it has made,
\* or it gives this block back.
LEMMA PrimitiveSetKept ==
    ASSUME IInv, frames # <<>>, ret = 0, NEW v, PrimitiveSet(v)
    PROVE  Kept
<1> DEFINE x == mallocs + 1
           into == Write(memory, Block(x), Converted(v))
<1>1. /\ mallocs \in Nat /\ freed \subseteq 1..mallocs /\ Sound(memory, mallocs, freed)
      /\ Base(f) \in (0..mallocs) \ freed
  BY AtWork
<1>2. /\ Return(0) \/ Return(-1)
      /\ \/ UNCHANGED <<memory, mallocs, freed>>
         \/ memory' = Write(memory, f.address, Converted(v)) /\ UNCHANGED <<mallocs, freed>>
         \/ memory' = Write(into, f.address, PointerTo(x)) /\ mallocs' = x /\ freed' = freed
         \/ memory' = Write(memory, f.address, NullPointer) /\ mallocs' = x /\ freed' = freed \cup {x}
  BY Zenon DEF PrimitiveSet, heapVars
<1>3. Converted(v).to = 0 /\ NullPointer.to = 0
  BY DEF Converted, NullPointer
<1>4. x \in Nat /\ x \in 1..x /\ x \notin freed /\ mallocs <= x /\ x > mallocs
  BY <1>1
<1> HIDE DEF x, into
<1>5. ASSUME UNCHANGED <<memory, mallocs, freed>>
      PROVE  HeapKept({})
  BY <1>5, HeapSame
<1>6. ASSUME memory' = Write(memory, f.address, Converted(v)) /\ UNCHANGED <<mallocs, freed>>
      PROVE  HeapKept({})
  BY <1>3, <1>6, WritesNoPointer, HeapFewer
<1>7. ASSUME memory' = Write(into, f.address, PointerTo(x)) /\ mallocs' = x /\ freed' = freed
      PROVE  HeapKept({})
  <2>1. Fewer(into, memory)
    BY <1>3, WritesNoPointer DEF into
  <2>2. Sound(memory, x, freed) /\ OnlyFrom(memory, x, f.address)
    BY <1>1, <1>4, SoundMore
  <2>3. Sound(into, x, freed) /\ OnlyFrom(into, x, f.address) /\ Led(into) \subseteq Led(memory)
    BY <2>1, <2>2, FewerSound
  <2>4. BlockOf(f.address) \in Nat /\ BlockOf(f.address) < x
    BY <1>1, <1>4 DEF Base
  <2>5. Sound(memory', x, freed) /\ Led(memory') \subseteq Led(into) \cup {x}
    BY <1>4, <1>7, <2>3, <2>4, WritesPointer
  <2>6. x \in (mallocs + 1)..x
    BY <1>1, <1>4 DEF x
  <2>7. QED
    BY <1>4, <1>7, <2>3, <2>5, <2>6 DEF HeapKept, After
<1>8. ASSUME memory' = Write(memory, f.address, NullPointer) /\ mallocs' = x /\ freed' = freed \cup {x}
      PROVE  HeapKept({})
  <2>1. Fewer(memory', memory)
    BY <1>3, <1>8, WritesNoPointer
  <2>2. Sound(memory, x, freed) /\ Led(memory) \subseteq 1..mallocs
    BY <1>1, <1>4, SoundMore
  <2>3. Sound(memory', x, freed) /\ Led(memory') \subseteq Led(memory)
    BY <2>1, <2>2, FewerSound
  <2>4. x \notin Led(memory')
    BY <1>1, <1>4, <2>2, <2>3
  <2>5. Sound(memory', x, freed')
    BY <1>8, <2>3, <2>4, SoundFreed
  <2>6. x \in (mallocs + 1)..x
    BY <1>1, <1>4 DEF x
  <2>7. QED
    BY <1>4, <1>8, <2>3, <2>5, <2>6 DEF HeapKept, After
<1>9. HeapKept({})
  BY <1>2, <1>5, <1>6, <1>7, <1>8
<1>10. QED
  BY <1>2, <1>9, GivesUp

\* yajp_parse_primitive_value converts the value of a pair.
LEMMA PrimitiveReactFine ==
    ASSUME IInv, PrimitiveReact
    PROVE  Fine
<1> DEFINE g == [f EXCEPT !.i = @ + 1, !.pc = "read", !.recognized = entity]
<1>1. Reacts({"primitive"}, {"react"})
  BY DEF PrimitiveReact
<1>2. /\ frames # <<>> /\ f.fn = "primitive" /\ f.pc = "react"
      /\ ub = "none" /\ ret = 0 /\ IsFrame(f) /\ mallocs \in Nat
  BY <1>1, Working DEF Waits
<1>3. \/ Set(g) /\ UNCHANGED <<heapVars, ub>>
      \/ PrimitiveSet(Deref(entity.token).value) /\ UNCHANGED ub
      \/ Undefined("dangling") /\ UNCHANGED heapVars
  BY DEF PrimitiveReact
<1>4. Keeps(g) /\ ~Fills(g)
  <2>1. /\ DOMAIN g = FrameFields
        /\ g.id = f.id /\ g.fn = f.fn /\ g.ctx = f.ctx /\ g.address = f.address /\ g.pc = "read"
        /\ g.brackets = f.brackets /\ g.shift = f.shift /\ g.recognized = entity
        /\ g.i = f.i + 1 /\ g.tokens = f.tokens
    <3>1. DOMAIN f = FrameFields
      BY <1>2 DEF IsFrame
    <3>2. QED
      BY <3>1 DEF FrameFields
  <2> HIDE DEF g
  <2>2. Tidy(g)
    BY <1>2, <2>1 DEF Tidy, Loops
  <2>3. g.i \in Nat
    BY <1>2, <2>1 DEF IsFrame
  <2>4. IsFrame(g)
    BY <1>2, <2>1, <2>2, <2>3, EntityKnown DEF IsFrame, Stands
  <2>5. QED
    BY <2>1, <2>4 DEF Keeps, Fills
<1> HIDE DEF g
<1>5. Kept
  <2>1. CASE Set(g) /\ UNCHANGED heapVars
    BY <1>2, <1>4, <2>1, HeapSame, SetKept DEF heapVars
  <2>2. CASE PrimitiveSet(Deref(entity.token).value)
    BY <1>2, <2>2, PrimitiveSetKept
  <2>3. CASE Undefined("dangling") /\ UNCHANGED heapVars
    BY <1>2, <2>3, StopKept DEF Undefined, heapVars
  <2>4. QED
    BY <1>3, <2>1, <2>2, <2>3
<1>6. ub' \in {"none", "dangling"}
  BY <1>2, <1>3 DEF Undefined
<1>7. QED
  BY <1>1, <1>5, <1>6, ReactFine

\* yajp_skip_json_object releases its token as soon as it has looked at it.
LEMMA SkippedKept ==
    ASSUME IInv, frames # <<>>, f.fn = "skip", f.pc = "react", ret = 0, UNCHANGED heapVars,
           NEW b \in Nat, NEW g, g \in {f, [f EXCEPT !.brackets = b]}, Skipped(g)
    PROVE  Kept
<1> DEFINE h == [g EXCEPT !.i = 1, !.pc = "read", !.tokens[0] = ZeroToken]
<1>1. IsFrame(f)
  BY AtWork
<1>2. /\ DOMAIN g = FrameFields
      /\ g.id = f.id /\ g.fn = f.fn /\ g.ctx = f.ctx /\ g.address = f.address
      /\ g.brackets \in Nat /\ g.shift = f.shift /\ g.recognized = f.recognized
      /\ g.tokens = f.tokens
  BY <1>1 DEF IsFrame, FrameFields
<1>3. /\ DOMAIN h = FrameFields
      /\ h.id = f.id /\ h.fn = "skip" /\ h.ctx = f.ctx /\ h.address = f.address /\ h.pc = "read"
      /\ h.brackets \in Nat /\ h.shift = f.shift /\ h.recognized = f.recognized
      /\ h.i = 1 /\ h.tokens = [f.tokens EXCEPT ![0] = ZeroToken]
  BY <1>2 DEF FrameFields
<1>4. Set(h)
  BY DEF Skipped
<1> HIDE DEF h
<1>5. ZeroToken.token \in P!Terminals
  BY DEF ZeroToken, Tok, P!Terminals, P!TOK_EOF
<1>6. /\ DOMAIN f.tokens = 0..2
      /\ \A s \in 0..2 : f.tokens[s].token \in P!Terminals
  BY <1>1 DEF IsFrame
<1>7. \A s \in 0..2 : h.tokens[s] = IF s = 0 THEN ZeroToken ELSE f.tokens[s]
  BY <1>3, <1>6
<1>8. DOMAIN h.tokens = 0..2 /\ \A s \in 0..2 : h.tokens[s].token \in P!Terminals
  BY <1>3, <1>5, <1>6, <1>7
<1>9. Tidy(h)
  BY <1>3, <1>7 DEF Tidy, Loops
<1>10. IsFrame(h)
  BY <1>1, <1>3, <1>8, <1>9 DEF IsFrame, Stands
<1>11. Keeps(h) /\ ~Fills(h)
  BY <1>3, <1>10 DEF Keeps, Fills
<1>12. QED
  BY <1>4, <1>11, HeapSame, SetKept DEF heapVars

\* yajp_skip_json_object, for primitives and for containers.
LEMMA SkipReactFine ==
    ASSUME IInv, SkipReact
    PROVE  Fine
<1>1. Reacts({"skip"}, {"react"}) /\ UNCHANGED <<heapVars, ub>>
  BY DEF SkipReact
<1>2. /\ frames # <<>> /\ f.fn = "skip" /\ f.pc = "react"
      /\ ub = "none" /\ ret = 0 /\ IsFrame(f)
  BY <1>1, Working DEF Waits
<1>3. f.brackets \in Nat
  BY <1>2 DEF IsFrame
<1>4. \/ Return(0)
      \/ Return(-1)
      \/ Skipped(f)
      \/ \E b \in Nat : Skipped([f EXCEPT !.brackets = b])
  <2>1. \/ Return(0) \/ Return(-1) \/ Skipped(f) \/ Skipped([f EXCEPT !.brackets = 1])
        \/ f.brackets > 0 /\ Skipped([f EXCEPT !.brackets = Brackets])
    BY DEF SkipReact
  <2>2. f.brackets > 0 => Brackets \in Nat
    BY <1>3 DEF Brackets
  <2>3. QED
    BY <2>1, <2>2
<1>5. Kept
  BY <1>1, <1>2, <1>3, <1>4, SkippedKept, HeapSame, GivesUp DEF heapVars
<1>6. QED
  BY <1>1, <1>2, <1>5, ReactFine

\* The memory of a value is prepared: a new block, or the field itself.
LEMMA PrepareKept ==
    ASSUME IInv, frames # <<>>, ret = 0, f.fn \in {"object_value", "array_value"},
           NEW fn \in {"parse", "array", "objects"}, Prepare(fn)
    PROVE  Kept
<1>1. IsFrame(f) /\ Keeps(f) /\ born \in Nat /\ mallocs \in Nat /\ freed \subseteq 1..mallocs
      /\ f.ctx \in DOMAIN Contexts /\ IsAddress(f.address) /\ fn \in Functions
      /\ Sound(memory, mallocs, freed) /\ Base(f) \in 0..mallocs
  BY AtWork DEF Keeps, IsFrame, Functions
<1> DEFINE x == mallocs + 1
           Filler(address) == Frame(fn, f.ctx, f.rule, f.name, address)
           g == [f EXCEPT !.tmp = x]
           c == Filler(Block(x))
           d == Filler(f.address)
<1>2. \/ Return(-1) /\ UNCHANGED heapVars
      \/ /\ mallocs' = x /\ freed' = freed /\ memory' = Zeroed(memory, Block(x))
         /\ Call(g, "called", c)
      \/ /\ ~f.rule.allocate /\ UNCHANGED <<mallocs, freed>> /\ memory' = Zeroed(memory, f.address)
         /\ Call(f, "called", d)
  BY Zenon DEF Prepare
<1>3. ASSUME NEW address, IsAddress(address)
      PROVE  JustCalled(Filler(address), fn, address)
  BY <1>1, <1>3, NewFrame, Zenon
<1>4. x \in Nat /\ x \in 0..x /\ x \notin freed /\ mallocs <= x /\ x > mallocs /\ Base(f) <= x
  BY <1>1
<1> HIDE DEF Filler, x
<1>5. "called" \in Waits
  BY DEF Waits
<1>6. CASE Return(-1) /\ UNCHANGED heapVars
  BY <1>6, HeapSame, GivesUp DEF heapVars
<1>7. CASE /\ mallocs' = x /\ freed' = freed /\ memory' = Zeroed(memory, Block(x))
           /\ Call(g, "called", c)
  <2>1. /\ IsFrame(c) /\ c.id = born + 1 /\ c.pc = "read" /\ Base(c) = x
    BY <1>3, Addresses DEF Base, JustCalled
  <2>2. IsFrame(g) /\ g.id = f.id /\ g.address = f.address /\ g.tmp = x
    BY <1>1, FrameFills, ZenonT(30)
  <2> HIDE DEF c, g
  <2> DEFINE h == [g EXCEPT !.pc = "called"]
  <2>3. IsFrame(h) /\ h.id = f.id /\ h.address = f.address /\ h.pc = "called" /\ h.tmp = x
    BY <1>5, <2>2, FrameMoves
  <2> HIDE DEF h
  <2>4. Fewer(memory', memory)
    BY <1>7, ZeroedPointers
  <2>5. Sound(memory, x, freed) /\ Led(memory) \subseteq 1..mallocs
    BY <1>1, <1>4, SoundMore
  <2>6. Sound(memory', x, freed) /\ Led(memory') \subseteq Led(memory)
    BY <2>4, <2>5, FewerSound
  <2>7. HeapKept({})
    BY <1>4, <1>7, <2>6 DEF HeapKept, After
  <2>8. x \notin freed' \cup Led(memory')
    BY <1>1, <1>4, <1>7, <2>5, <2>6
  <2>9. Begins(h, c)
    BY <1>4, <1>5, <1>7, <2>1, <2>3, <2>8 DEF Begins, Keeps, Fills, Waits, x
  <2>10. QED
    BY <1>7, <2>7, <2>9, CallKept DEF h
<1>8. CASE /\ ~f.rule.allocate /\ UNCHANGED <<mallocs, freed>> /\ memory' = Zeroed(memory, f.address)
           /\ Call(f, "called", d)
  <2>1. /\ IsFrame(d) /\ d.id = born + 1 /\ d.pc \in {"read", "enter"} /\ Base(d) = Base(f)
    BY <1>1, <1>3 DEF JustCalled, Base
  <2> HIDE DEF d
  <2>2. HeapKept({})
    BY <1>8, ZeroedPointers, HeapFewer
  <2>3. QED
    BY <1>1, <1>5, <1>8, <2>1, <2>2, CallWithin
<1>9. QED
  BY <1>2, <1>6, <1>7, <1>8

\* yajp_parse_object_value calls yajp_parse for the members.
LEMMA ObjectEnterFine ==
    ASSUME IInv, ObjectEnter
    PROVE  Fine
<1>1. Reacts({"object_value"}, {"enter"}) /\ Prepare("parse") /\ UNCHANGED ub
  BY DEF ObjectEnter
<1>2. frames # <<>> /\ f.fn = "object_value" /\ f.pc = "enter" /\ ub = "none" /\ ret = 0
  BY <1>1, Working DEF Waits
<1>3. Kept
  BY <1>1, <1>2, PrepareKept
<1>4. QED
  BY <1>1, <1>2, <1>3, ReactFine

\* yajp_parse_array_value calls the function for the elements.
LEMMA ArrayEnterFine ==
    ASSUME IInv, ArrayEnter
    PROVE  Fine
<1>1. /\ Reacts({"array_value"}, {"react"}) /\ UNCHANGED ub
      /\ Prepare("objects") \/ Prepare("array")
  BY DEF ArrayEnter
<1>2. frames # <<>> /\ f.fn = "array_value" /\ f.pc = "react" /\ ub = "none" /\ ret = 0
  BY <1>1, Working DEF Waits
<1>3. Kept
  BY <1>1, <1>2, PrepareKept
<1>4. QED
  BY <1>1, <1>2, <1>3, ReactFine

\* A block is hung into the structure by the function that has had it filled, or
\* given back by it.
LEMMA AttachFine ==
    ASSUME IInv, ObjectCalled \/ ArrayCalled
    PROVE  Fine
<1>1. PICK fn \in {"object_value", "array_value"} : Reacts({fn}, {"called"}) /\ Attach
  BY DEF ObjectCalled, ArrayCalled
<1>2. frames # <<>> /\ f.fn = fn /\ f.pc = "called" /\ ub = "none" /\ ret \in {0, -1}
  BY <1>1, Working
<1>3. /\ Return(ret) /\ UNCHANGED <<mallocs, setterCalls, ub>>
      /\ \/ UNCHANGED <<memory, freed>>
         \/ f.rule.allocate /\ memory' = Write(memory, f.address, PointerTo(f.tmp)) /\ freed' = freed
         \/ f.rule.allocate /\ memory' = Zeroed(memory, Block(f.tmp)) /\ freed' = freed \cup {f.tmp}
  BY <1>1, Zenon DEF Attach
<1>4. /\ mallocs \in Nat /\ Sound(memory, mallocs, freed) /\ Base(f) \in 0..mallocs
      /\ Fills(f) => f.tmp \in (1..mallocs) \ freed /\ Base(f) < f.tmp /\ f.tmp \notin Led(memory)
  BY <1>2, AtWork
<1>5. After(mallocs, freed, mallocs', freed', Own)
  BY <1>2, <1>3, <1>4 DEF After, Own, Fills
<1>6. Sound(memory', mallocs, freed') /\ Led(memory') \subseteq Led(memory) \cup Own
  <2>1. CASE UNCHANGED <<memory, freed>>
    BY <1>4, <2>1
  <2>2. CASE f.rule.allocate /\ memory' = Write(memory, f.address, PointerTo(f.tmp)) /\ freed' = freed
    <3>1. Fills(f) /\ Own = {f.tmp}
      BY <1>2, <2>2 DEF Fills, Own
    <3>2. OnlyFrom(memory, f.tmp, f.address) /\ BlockOf(f.address) \in Nat /\ BlockOf(f.address) < f.tmp
      BY <1>4, <3>1 DEF OnlyFrom, Led, Base
    <3>3. QED
      BY <1>4, <2>2, <3>1, <3>2, WritesPointer
  <2>3. CASE f.rule.allocate /\ memory' = Zeroed(memory, Block(f.tmp)) /\ freed' = freed \cup {f.tmp}
    <3>1. Fills(f)
      BY <1>2, <2>3 DEF Fills
    <3>2. Fewer(memory', memory)
      BY <2>3, ZeroedPointers
    <3>3. Sound(memory', mallocs, freed) /\ Led(memory') \subseteq Led(memory)
      BY <1>4, <3>2, FewerSound
    <3>4. QED
      BY <1>4, <2>3, <3>1, <3>3, SoundFreed
  <2>4. QED
    BY <1>3, <2>1, <2>2, <2>3
<1>7. HeapKept(Own)
  BY <1>3, <1>5, <1>6 DEF HeapKept
<1>8. Own \subseteq Own
  OBVIOUS
<1>9. Kept
  BY <1>2, <1>3, <1>7, <1>8, ReturnKept
<1>10. QED
  BY <1>1, <1>2, <1>3, <1>9, ReactFine

\* A level of an array goes round, or is done.
LEMMA LevelTurnKept ==
    ASSUME IInv, frames # <<>>, ret = 0, NEW g, Keeps(g), g.fn \in Loops, g.pc # "read", LevelTurn(g),
           HeapKept({})
    PROVE  Kept
<1>1. Return(0) \/ Set(Turn(g))
  BY DEF LevelTurn
<1>2. CASE Return(0)
  BY <1>2, GivesUp
<1>3. CASE Set(Turn(g))
  <2>1. Keeps(Turn(g)) /\ ~Fills(Turn(g))
    BY Turned DEF Keeps, Fills
  <2>2. QED
    BY <1>3, <2>1, SetKept
<1>4. QED
  BY <1>1, <1>2, <1>3

\* The flags of all levels are no pointers.
LEMMA LevelPointers == Fewer(Level, memory)
<1>1. \A a : Fewer(Write(memory, a, Flag(TRUE)), memory)
  BY FlagPointers
<1>2. Fewer(memory, memory)
  BY DEF Fewer
<1>3. QED
  BY <1>1, <1>2, Zenon DEF Level

\* More blocks, and pointers to these.
LEMMA HeapMore ==
    ASSUME IInv, NEW mem, NEW m \in Nat, mallocs <= m, Sound(mem, m, freed),
           Led(mem) \subseteq Led(memory) \cup ((mallocs + 1)..m),
           Fewer(memory', mem), mallocs' = m, freed' = freed
    PROVE  HeapKept({})
<1>1. Sound(memory', m, freed) /\ Led(memory') \subseteq Led(mem)
  BY FewerSound
<1>2. QED
  BY <1>1 DEF HeapKept, After

\* Where the innermost function enlarges what a pointer in its own block leads to,
\* the block is younger than its own and nothing else leads to it.
LEMMA GrownRight ==
    ASSUME IInv, frames # <<>>, NEW a, BlockOf(a) = Base(f)
    PROVE  LET x == Grown(a)
               m == Made(x)
           IN  /\ m \in Nat /\ mallocs <= m /\ x \in (1..m) \ freed /\ Base(f) < x
               /\ x \in Led(memory) \cup ((mallocs + 1)..m)
               /\ OnlyFrom(memory, x, a)
<1>1. /\ mallocs \in Nat /\ freed \subseteq 1..mallocs /\ Sound(memory, mallocs, freed)
      /\ Base(f) \in 0..mallocs
  BY AtWork
<1>2. CASE Held(memory, a) # 0
  <2>1. a \in Links(memory) /\ Grown(a) = memory[a].to
    BY <1>2 DEF Held, Links, Grown
  <2>2. Grown(a) \in (1..mallocs) \ freed /\ Base(f) < Grown(a) /\ Grown(a) \in Led(memory)
    BY <1>1, <2>1 DEF Sound, Led
  <2>3. Made(Grown(a)) = mallocs
    BY <1>1, <2>2 DEF Made
  <2>4. OnlyFrom(memory, Grown(a), a)
    BY <1>1, <2>1 DEF Sound, OnlyFrom
  <2>5. QED
    BY <1>1, <2>2, <2>3, <2>4
<1>3. CASE Held(memory, a) = 0
  <2>1. Grown(a) = mallocs + 1
    BY <1>3 DEF Grown
  <2>2. Made(Grown(a)) = mallocs + 1
    BY <1>1, <2>1 DEF Made
  <2>3. OnlyFrom(memory, mallocs + 1, a)
    <3>1. \A b \in Links(memory) : memory[b].to \in 1..mallocs
      BY <1>1 DEF Sound
    <3>2. QED
      BY <1>1, <3>1 DEF OnlyFrom
  <2>4. QED
    BY <1>1, <2>1, <2>2, <2>3
<1>4. QED
  BY <1>2, <1>3

\* The pointer to it is stored in memory with no more pointers than there were.
LEMMA GrownSound ==
    ASSUME IInv, frames # <<>>, NEW a, BlockOf(a) = Base(f), NEW mem, Fewer(mem, memory)
    PROVE  LET x == Grown(a)
               m == Made(x)
               new == Write(mem, a, PointerTo(x))
           IN  Sound(new, m, freed) /\ Led(new) \subseteq Led(memory) \cup ((mallocs + 1)..m)
<1> DEFINE x == Grown(a)
           m == Made(x)
           new == Write(mem, a, PointerTo(x))
<1>1. /\ m \in Nat /\ mallocs <= m /\ x \in (1..m) \ freed /\ Base(f) < x
      /\ x \in Led(memory) \cup ((mallocs + 1)..m)
      /\ OnlyFrom(memory, x, a)
  BY GrownRight
<1> HIDE DEF x, m
<1>2. mallocs \in Nat /\ Sound(memory, mallocs, freed) /\ Base(f) \in 0..mallocs
  BY AtWork
<1>3. Sound(memory, m, freed)
  BY <1>1, <1>2, SoundMore
<1>4. Sound(mem, m, freed) /\ Led(mem) \subseteq Led(memory) /\ OnlyFrom(mem, x, a)
  BY <1>1, <1>3, FewerSound
<1>5. BlockOf(a) \in Nat /\ BlockOf(a) < x
  BY <1>1, <1>2
<1>6. Sound(new, m, freed) /\ Led(new) \subseteq Led(mem) \cup {x}
  BY <1>1, <1>4, <1>5, WritesPointer
<1>7. QED
  BY <1>1, <1>4, <1>6 DEF x, m

\* A row of an array calls the same function for the next dimension.
LEMMA RowEnterFine ==
    ASSUME IInv, RowEnter
    PROVE  Fine
<1> DEFINE flagged == Write(memory, Member(f.address, "final_dim"), Flag(FALSE))
           x == Grown(RowsPointer)
           row == Append(Block(x), At("row", f.shift))
           g == [f EXCEPT !.recognized = entity]
           c == Frame(f.fn, f.ctx, f.rule, f.name, row)
           mem == Zeroed(flagged, row)
<1>1. Reacts({"array", "objects"}, {"react"}) /\ UNCHANGED <<freed, setterCalls, ub>>
  BY DEF RowEnter
<1>2. /\ frames # <<>> /\ f.fn \in {"array", "objects"} /\ f.pc = "react"
      /\ ub = "none" /\ ret = 0 /\ IsFrame(f) /\ mallocs \in Nat /\ born \in Nat
      /\ f.ctx \in DOMAIN Contexts /\ IsAddress(f.address) /\ Base(f) \in 0..mallocs
  BY <1>1, Working DEF Waits
<1>3. \/ Return(-1) /\ memory' = flagged /\ mallocs' = mallocs
      \/ /\ Call(g, "row", c) /\ memory' = Write(mem, RowsPointer, PointerTo(x))
         /\ mallocs' = Made(x)
  BY Zenon DEF RowEnter
<1>4. Fewer(flagged, memory) /\ Fewer(mem, flagged)
  BY FlagPointers, ZeroedPointers
<1>5. BlockOf(RowsPointer) = Base(f)
  BY <1>2, MemberWithin DEF RowsPointer, Base
<1>6. IsAddress(row) /\ BlockOf(row) = x
  BY Addresses, AddressExtended
<1>7. /\ Made(x) \in Nat /\ mallocs <= Made(x) /\ x \in (1..Made(x)) \ freed /\ Base(f) < x
  BY <1>2, <1>5, GrownRight
<1> HIDE DEF flagged, row, mem
<1>8. Fewer(mem, memory)
  BY <1>4, FewerFewer
<1> DEFINE new == Write(mem, RowsPointer, PointerTo(x))
<1>9. Sound(new, Made(x), freed) /\ Led(new) \subseteq Led(memory) \cup ((mallocs + 1)..Made(x))
  BY <1>2, <1>5, <1>8, GrownSound
<1> HIDE DEF x, new
<1>10. f.fn \in Functions /\ "row" \in Waits
  BY <1>2 DEF Functions, Waits
<1>11. JustCalled(c, f.fn, row)
  BY <1>2, <1>6, <1>10, NewFrame, Zenon
<1>12. Keeps(g) /\ g.fn = f.fn
  BY <1>2, EntityKnown, FrameTold DEF Keeps
<1> HIDE DEF c, g
<1>13. Kept
  <2>1. CASE Return(-1) /\ memory' = flagged /\ mallocs' = mallocs
    <3>1. HeapKept({})
      BY <1>1, <1>4, <2>1, HeapFewer
    <3>2. QED
      BY <1>2, <2>1, <3>1, GivesUp
  <2>2. CASE Call(g, "row", c) /\ memory' = new /\ mallocs' = Made(x)
    <3>1. /\ IsFrame(c) /\ c.id = born + 1 /\ c.pc \in {"read", "enter"}
          /\ Base(c) \in (0..mallocs') \ freed' /\ Base(f) <= Base(c)
      BY <1>1, <1>2, <1>6, <1>7, <1>11, <2>2 DEF JustCalled, Base
    <3>2. Fewer(memory', new)
      BY <2>2 DEF Fewer
    <3>3. HeapKept({})
      BY <1>1, <1>7, <1>9, <2>2, <3>2, HeapMore
    <3>4. QED
      BY <1>2, <1>10, <1>12, <2>2, <3>1, <3>3, CallInto
  <2>3. QED
    BY <1>3, <2>1, <2>2 DEF new
<1>14. QED
  BY <1>1, <1>2, <1>13, ReactFine

\* A row has been read: it is counted, or has failed.
LEMMA RowCalledFine ==
    ASSUME IInv, RowCalled
    PROVE  Fine
<1> DEFINE h == [f EXCEPT !.shift = @ + FieldSize]
           g == [f EXCEPT !.shift = @ + FieldSize, !.pc = "element"]
<1>1. Reacts({"array", "objects"}, {"row"}) /\ UNCHANGED <<mallocs, freed, setterCalls, ub>>
  BY DEF RowCalled
<1>2. /\ frames # <<>> /\ ub = "none" /\ ret \in {0, -1} /\ IsFrame(f) /\ mallocs \in Nat
  BY <1>1, Working
<1>3. IF ret # 0 THEN Return(ret) /\ UNCHANGED memory
      ELSE Set(g) /\ memory' = CountUp(memory, f.address)
  BY DEF RowCalled
<1>4. Keeps(g) /\ ~Fills(g)
  <2>1. FieldSize \in Nat
    BY DeserializerAssumption
  <2>2. IsFrame(h) /\ h.id = f.id /\ h.address = f.address
    BY <1>2, <2>1, FrameShifted
  <2>3. g = [h EXCEPT !.pc = "element"]
    BY <1>2 DEF IsFrame, FrameFields
  <2> HIDE DEF h, g
  <2>4. "element" \in Waits \cup (Stands \ {"read"})
    BY DEF Stands
  <2>5. IsFrame(g) /\ g.id = h.id /\ g.address = h.address /\ g.pc = "element"
    BY <2>2, <2>3, <2>4, FrameMoves
  <2>6. QED
    BY <2>2, <2>5 DEF Keeps, Fills
<1> HIDE DEF g
<1>5. Kept
  <2>1. CASE ret # 0
    <3>1. HeapKept({})
      BY <1>1, <1>3, <2>1, HeapSame
    <3>2. QED
      BY <1>1, <1>2, <1>3, <2>1, <3>1, GivesUp
  <2>2. CASE ret = 0
    <3>1. Set(g) /\ HeapKept({})
      BY <1>1, <1>3, <2>2, CountedPointers, HeapFewer
    <3>2. QED
      BY <1>2, <1>4, <2>2, <3>1, SetKept
  <2>3. QED
    BY <2>1, <2>2
<1>6. QED
  BY <1>1, <1>2, <1>5, ReactFine

\* The frame whose turn it is to take an element.
LEMMA ElementKnown ==
    ASSUME IInv, NEW fns, ElementPhase(fns)
    PROVE  /\ frames # <<>> /\ f.fn \in fns /\ f.pc \in {"react", "element"}
           /\ ub = "none" /\ ret = 0 /\ mallocs \in Nat /\ born \in Nat
           /\ f.ctx \in DOMAIN Contexts /\ IsAddress(f.address)
           /\ Keeps(Element) /\ Element.fn = f.fn /\ Element.pc = f.pc
<1>1. Reacts(fns, {"react", "element"})
  BY DEF ElementPhase
<1>2. /\ frames # <<>> /\ f.fn \in fns /\ f.pc \in {"react", "element"}
      /\ ub = "none" /\ ret = 0 /\ mallocs \in Nat /\ born \in Nat /\ IsFrame(f) /\ Keeps(f)
      /\ f.ctx \in DOMAIN Contexts /\ IsAddress(f.address)
  BY <1>1, Working DEF Waits
<1> DEFINE g == [f EXCEPT !.recognized = entity]
<1>3. Keeps(g) /\ g.fn = f.fn /\ g.pc = f.pc
  BY <1>2, EntityKnown, FrameTold DEF Keeps
<1>4. Element = g \/ Element = f
  BY DEF Element
<1> HIDE DEF g
<1>5. Keeps(Element) /\ Element.fn = f.fn /\ Element.pc = f.pc
  BY <1>2, <1>3, <1>4
<1>6. QED
  BY <1>2, <1>5

\* A token that completes no element.
LEMMA NoElementFine ==
    ASSUME IInv, NoElement
    PROVE  Fine
<1>1. /\ ElementPhase({"array", "objects"}) /\ LevelTurn(Element)
      /\ memory' = Level /\ UNCHANGED <<mallocs, freed, setterCalls, ub>>
  BY DEF NoElement
<1>2. /\ frames # <<>> /\ ub = "none" /\ ret = 0 /\ mallocs \in Nat
      /\ Keeps(Element) /\ Element.fn \in Loops /\ Element.pc # "read"
  BY <1>1, ElementKnown DEF Loops
<1>3. HeapKept({})
  BY <1>1, LevelPointers, HeapFewer
<1>4. Kept
  BY <1>1, <1>2, <1>3, LevelTurnKept
<1>5. QED
  BY <1>1, <1>2, <1>4, ReactFine DEF ElementPhase

\* Room for an element.
LEMMA ElemSound ==
    ASSUME IInv, frames # <<>>
    PROVE  /\ Made(ElemBlock) \in Nat /\ mallocs <= Made(ElemBlock)
           /\ Sound(WithElem, Made(ElemBlock), freed)
           /\ Led(WithElem) \subseteq Led(memory) \cup ((mallocs + 1)..Made(ElemBlock))
           /\ IsAddress(ElemPlace) /\ BlockOf(ElemPlace) \in (0..Made(ElemBlock)) \ freed
           /\ Base(f) <= BlockOf(ElemPlace)
<1>1. /\ mallocs \in Nat /\ Sound(memory, mallocs, freed) /\ Base(f) \in (0..mallocs) \ freed
      /\ IsAddress(f.address)
  BY AtWork DEF IsFrame
<1>2. Fewer(Level, memory)
  BY LevelPointers
<1>3. CASE f.rule.elems
  <2> DEFINE a == ElemsPointer
             x == Grown(a)
  <2>1. ElemBlock = x /\ ElemPlace = Append(Block(x), At("elem", f.shift))
        /\ WithElem = Write(Level, a, PointerTo(x))
    BY <1>3 DEF ElemBlock, ElemPlace, WithElem
  <2>2. BlockOf(a) = Base(f)
    BY <1>1, MemberWithin DEF ElemsPointer, Base
  <2>3. Made(x) \in Nat /\ mallocs <= Made(x) /\ x \in (1..Made(x)) \ freed /\ Base(f) < x
    BY <2>2, GrownRight
  <2>4. Sound(WithElem, Made(x), freed) /\ Led(WithElem) \subseteq Led(memory) \cup ((mallocs + 1)..Made(x))
    BY <1>2, <2>1, <2>2, GrownSound
  <2>5. IsAddress(ElemPlace) /\ BlockOf(ElemPlace) = x
    BY <2>1, Addresses, AddressExtended
  <2> HIDE DEF x
  <2>6. x \in (0..Made(x)) \ freed /\ Base(f) <= x
    BY <1>1, <2>3
  <2>7. QED
    BY <2>1, <2>3, <2>4, <2>5, <2>6
<1>4. CASE ~f.rule.elems
  <2>1. ElemBlock = 0 /\ ElemPlace = Append(f.address, At("elem", f.shift)) /\ WithElem = Level
    BY <1>4 DEF ElemBlock, ElemPlace, WithElem
  <2>2. Made(ElemBlock) = mallocs
    BY <1>1, <2>1 DEF Made
  <2>3. Sound(WithElem, mallocs, freed) /\ Led(WithElem) \subseteq Led(memory)
    BY <1>1, <1>2, <2>1, FewerSound
  <2>4. IsAddress(ElemPlace) /\ BlockOf(ElemPlace) = Base(f)
    BY <1>1, <2>1, AddressExtended DEF Base
  <2>5. QED
    BY <1>1, <2>2, <2>3, <2>4
<1>5. QED
  BY <1>3, <1>4

\* An element is converted and counted, or refused.
LEMMA ElementSetKept ==
    ASSUME IInv, ElementPhase({"array"}), NEW v, ElementSet(v), freed' = freed
    PROVE  Kept
<1> DEFINE n == Made(ElemBlock)
           str == n + 1
           stored == IF f.rule.string THEN Write(WithElem, ElemPlace, PointerTo(str)) ELSE WithElem
           target == IF f.rule.string THEN Block(str) ELSE ElemPlace
           m == IF f.rule.string THEN str ELSE n
           written == CountUp(Write(stored, target, Converted(v)), f.address)
           g == [Element EXCEPT !.shift = @ + ElemSize]
<1>1. /\ frames # <<>> /\ ret = 0 /\ mallocs \in Nat
      /\ Keeps(Element) /\ Element.fn \in Loops /\ Element.pc # "read"
  BY ElementKnown DEF Loops
<1>2. \/ Return(-1) /\ memory' = Level /\ mallocs' = mallocs
      \/ Return(-1) /\ memory' = WithElem /\ mallocs' = n
      \/ Return(-1) /\ memory' = stored /\ mallocs' = m
      \/ LevelTurn(g) /\ memory' = written /\ mallocs' = m
  BY DEF ElementSet
<1>3. /\ n \in Nat /\ mallocs <= n
      /\ Sound(WithElem, n, freed)
      /\ Led(WithElem) \subseteq Led(memory) \cup ((mallocs + 1)..n)
      /\ BlockOf(ElemPlace) \in 0..n
  BY <1>1, ElemSound
<1>4. freed \subseteq 1..mallocs
  BY DEF IInv, Ranges
<1> HIDE DEF n, g
<1>5. m \in Nat /\ n <= m /\ mallocs <= m
  BY <1>1, <1>3
<1>6. Sound(stored, m, freed) /\ Led(stored) \subseteq Led(memory) \cup ((mallocs + 1)..m)
  <2>1. CASE ~f.rule.string
    BY <1>3, <2>1
  <2>2. CASE f.rule.string
    <3>1. str \in Nat /\ n <= str /\ str > n /\ str \in (1..str) \ freed /\ m = str
          /\ BlockOf(ElemPlace) \in Nat /\ BlockOf(ElemPlace) < str
      BY <1>1, <1>3, <1>4, <2>2
    <3> HIDE DEF str, m
    <3>2. Sound(WithElem, str, freed) /\ OnlyFrom(WithElem, str, ElemPlace)
      BY <1>3, <3>1, SoundMore
    <3>3. stored = Write(WithElem, ElemPlace, PointerTo(str))
      BY <2>2
    <3> HIDE DEF stored
    <3>4. Sound(stored, str, freed) /\ Led(stored) \subseteq Led(WithElem) \cup {str}
      BY <3>1, <3>2, <3>3, WritesPointer
    <3>5. str \in (mallocs + 1)..str /\ (mallocs + 1)..n \subseteq (mallocs + 1)..str
      BY <1>1, <1>3, <3>1 DEF str
    <3>6. QED
      BY <1>3, <3>1, <3>4, <3>5
  <2>3. QED
    BY <2>1, <2>2
<1> HIDE DEF stored, target, m
<1>7. Fewer(written, stored)
  <2>1. Converted(v).to = 0
    BY DEF Converted
  <2>2. Fewer(Write(stored, target, Converted(v)), stored)
    BY <2>1, WritesNoPointer
  <2>3. Fewer(written, Write(stored, target, Converted(v)))
    BY CountedPointers
  <2>4. QED
    BY <2>2, <2>3, FewerFewer
<1>8. Keeps(g) /\ g.fn \in Loops /\ g.pc # "read"
  <2>1. ElemSize \in Nat
    BY DeserializerAssumption
  <2>2. QED
    BY <1>1, <2>1, FrameShifted DEF Keeps, g
<1> HIDE DEF written
<1>9. \A mem : Fewer(mem, mem)
  BY DEF Fewer
<1>10. CASE Return(-1) /\ memory' = Level /\ mallocs' = mallocs
  <2>1. HeapKept({})
    BY <1>10, LevelPointers, HeapFewer
  <2>2. QED
    BY <1>1, <1>10, <2>1, GivesUp
<1>11. CASE Return(-1) /\ memory' = WithElem /\ mallocs' = n
  <2>1. HeapKept({})
    BY <1>3, <1>9, <1>11, HeapMore
  <2>2. QED
    BY <1>1, <1>11, <2>1, GivesUp
<1>12. CASE Return(-1) /\ memory' = stored /\ mallocs' = m
  <2>1. HeapKept({})
    BY <1>5, <1>6, <1>9, <1>12, HeapMore
  <2>2. QED
    BY <1>1, <1>12, <2>1, GivesUp
<1>13. CASE LevelTurn(g) /\ memory' = written /\ mallocs' = m
  <2>1. HeapKept({})
    BY <1>5, <1>6, <1>7, <1>13, HeapMore
  <2>2. QED
    BY <1>1, <1>8, <1>13, <2>1, LevelTurnKept
<1>14. QED
  BY <1>2, <1>10, <1>11, <1>12, <1>13

\* An element that is a primitive.
LEMMA ElementReactFine ==
    ASSUME IInv, ElementReact
    PROVE  Fine
<1>1. ElementPhase({"array"})
  BY DEF ElementReact
<1>2. ub = "none" /\ ret = 0
  BY <1>1, ElementKnown
<1>3. \/ ElementSet(Deref(Element.recognized.token).value) /\ UNCHANGED <<freed, ub>>
      \/ Undefined("dangling") /\ UNCHANGED heapVars
  BY DEF ElementReact
<1>4. Kept
  <2>1. CASE ElementSet(Deref(Element.recognized.token).value) /\ freed' = freed
    BY <1>1, <2>1, ElementSetKept
  <2>2. CASE Undefined("dangling") /\ UNCHANGED heapVars
    BY <1>2, <2>2, StopKept DEF Undefined, heapVars
  <2>3. QED
    BY <1>3, <2>1, <2>2
<1>5. ub' \in {"none", "dangling"}
  BY <1>2, <1>3 DEF Undefined
<1>6. QED
  BY <1>1, <1>4, <1>5, ReactFine DEF ElementPhase

\* An element that is an object is read by yajp_parse.
LEMMA ObjectElementFine ==
    ASSUME IInv, ObjectElement
    PROVE  Fine
<1> DEFINE n == Made(ElemBlock)
           c == Frame("parse", f.ctx, f.rule, f.name, ElemPlace)
<1>1. ElementPhase({"objects"}) /\ UNCHANGED <<freed, setterCalls, ub>>
  BY DEF ObjectElement
<1>2. \/ Return(-1) /\ memory' = Level /\ mallocs' = mallocs
      \/ Call(Element, "object", c) /\ memory' = WithElem /\ mallocs' = n
  BY DEF ObjectElement
<1>3. /\ frames # <<>> /\ ub = "none" /\ ret = 0 /\ mallocs \in Nat /\ born \in Nat
      /\ f.ctx \in DOMAIN Contexts /\ IsAddress(f.address)
      /\ Keeps(Element)
      /\ Element.fn = "objects"
  BY <1>1, ElementKnown
<1>4. /\ n \in Nat /\ mallocs <= n
      /\ Sound(WithElem, n, freed)
      /\ Led(WithElem) \subseteq Led(memory) \cup ((mallocs + 1)..n)
      /\ IsAddress(ElemPlace) /\ BlockOf(ElemPlace) \in (0..n) \ freed /\ Base(f) <= BlockOf(ElemPlace)
  BY <1>3, ElemSound
<1>5. "parse" \in Functions /\ "object" \in Waits
  BY DEF Functions, Waits
<1>6. JustCalled(c, "parse", ElemPlace)
  BY <1>3, <1>4, <1>5, NewFrame, Zenon
<1> HIDE DEF c, n
<1>7. Kept
  <2>1. CASE Return(-1) /\ memory' = Level /\ mallocs' = mallocs
    <3>1. HeapKept({})
      BY <1>1, <2>1, LevelPointers, HeapFewer
    <3>2. QED
      BY <1>3, <2>1, <3>1, GivesUp
  <2>2. CASE Call(Element, "object", c) /\ memory' = WithElem /\ mallocs' = n
    <3>1. /\ IsFrame(c) /\ c.id = born + 1 /\ c.pc \in {"read", "enter"}
          /\ Base(c) \in (0..mallocs') \ freed' /\ Base(f) <= Base(c)
      BY <1>1, <1>4, <1>6, <2>2 DEF JustCalled, Base
    <3>2. Fewer(memory', WithElem)
      BY <2>2 DEF Fewer
    <3>3. HeapKept({})
      BY <1>1, <1>4, <2>2, <3>2, HeapMore
    <3>4. QED
      BY <1>3, <1>5, <2>2, <3>1, <3>3, CallInto
  <2>3. QED
    BY <1>2, <2>1, <2>2
<1>8. QED
  BY <1>1, <1>3, <1>7, ReactFine DEF ElementPhase

\* It has been read: it is counted, or has failed.
LEMMA ObjectElementCalledFine ==
    ASSUME IInv, ObjectElementCalled
    PROVE  Fine
<1> DEFINE g == [f EXCEPT !.shift = @ + ElemSize]
<1>1. Reacts({"objects"}, {"object"}) /\ UNCHANGED <<mallocs, freed, setterCalls, ub>>
  BY DEF ObjectElementCalled
<1>2. /\ frames # <<>> /\ f.fn = "objects" /\ f.pc = "object"
      /\ ub = "none" /\ ret \in {0, -1} /\ IsFrame(f) /\ mallocs \in Nat
  BY <1>1, Working
<1>3. IF ret # 0 THEN Return(ret) /\ UNCHANGED memory
      ELSE LevelTurn(g) /\ memory' = CountUp(memory, f.address)
  BY DEF ObjectElementCalled
<1>4. Keeps(g) /\ g.fn \in Loops /\ g.pc # "read"
  <2>1. ElemSize \in Nat
    BY DeserializerAssumption
  <2>2. QED
    BY <1>2, <2>1, FrameShifted DEF Keeps, Loops
<1> HIDE DEF g
<1>5. Kept
  <2>1. CASE ret # 0
    <3>1. HeapKept({})
      BY <1>1, <1>3, <2>1, HeapSame
    <3>2. QED
      BY <1>1, <1>2, <1>3, <2>1, <3>1, GivesUp
  <2>2. CASE ret = 0
    <3>1. LevelTurn(g) /\ HeapKept({})
      BY <1>1, <1>3, <2>2, CountedPointers, HeapFewer
    <3>2. QED
      BY <1>2, <1>4, <2>2, <3>1, LevelTurnKept
  <2>3. QED
    BY <2>1, <2>2
<1>6. QED
  BY <1>1, <1>2, <1>5, ReactFine

\* What is known where a function asks for a token.
LEMMA Reading ==
    ASSUME IInv, NEW fns, Reads(fns)
    PROVE  /\ frames # <<>> /\ f.fn \in fns /\ f.pc = "read"
           /\ ub = "none" /\ ret = 0 /\ IsFrame(f) /\ f.id \in Nat \ {0} /\ mallocs \in Nat
           /\ UNCHANGED <<memory, mallocs, freed, setterCalls>> /\ HeapKept({})
           /\ \A t \in NextTokens : IsLexeme(t)
<1>1. frames # <<>> /\ f.fn \in fns /\ f.pc = "read" /\ ub = "none"
  BY DEF Reads, In
<1>2. ret = 0 /\ IsFrame(f) /\ mallocs \in Nat
  BY <1>1, AtWork DEF Waits
<1>3. f.id \in Nat \ {0}
  BY <1>2 DEF IsFrame
<1>4. UNCHANGED <<memory, mallocs, freed, setterCalls>> /\ HeapKept({})
  BY HeapSame DEF Reads, heapVars
<1>5. ASSUME NEW t \in NextTokens PROVE IsLexeme(t)
  <2>1. /\ Len(doc.tokens) \in Nat /\ pos \in Nat \ {0}
        /\ \A k \in 1..Len(doc.tokens) : IsLexeme(doc.tokens[k])
        /\ \A x \in PastEnd : IsLexeme(x)
    BY LexerAssumption, DeserializerAssumption DEF IInv, Ranges
  <2>2. CASE pos <= Len(doc.tokens)
    BY <1>5, <2>1, <2>2 DEF NextTokens
  <2>3. CASE ~(pos <= Len(doc.tokens))
    BY <1>5, <2>1, <2>3 DEF NextTokens
  <2>4. QED
    BY <2>2, <2>3
<1>6. QED
  BY <1>1, <1>2, <1>3, <1>4, <1>5

\* A step that reads a token goes on by one in the document, or stays behind its end.
LEMMA ReadFine ==
    ASSUME IInv, NEW fns, Reads(fns), Kept,
           ub' \in {"none", "overrun", "dangling", "uninitialised"},
           UNCHANGED parserVars \/ Fed
    PROVE  Fine
<1>1. /\ phase' = "running" /\ doc' = doc
      /\ pos' = IF pos <= Len(doc.tokens) THEN pos + 1 ELSE pos
  BY DEF Reads, In
<1>2. ret = 0
  BY Reading
<1>3. Len(doc.tokens) \in Nat /\ pos \in 1..(Len(doc.tokens) + 1)
  BY LexerAssumption DEF IInv, Ranges
<1>4. pos' \in 1..(Len(doc.tokens) + 1)
  BY <1>1, <1>3
<1>5. QED
  BY <1>1, <1>2, <1>4 DEF Fine

\* The token is stored in the slot that was clean, and handed to the parser.
LEMMA FeedKept ==
    ASSUME IInv, NEW fns \in SUBSET Functions, Reads(fns),
           f.fn \in Loops \cup {"primitive", "skip", "array_value"},
           f.fn = "primitive" => f.i < 2,
           NEW t, t.token \in P!Terminals, Feed(t)
    PROVE  Kept /\ Fed
<1> DEFINE m == [frame |-> f.id, slot |-> Slot]
           ent == [type |-> "NONE", token |-> f.recognized.token]
           g == [f EXCEPT !.tokens[Slot] = t, !.picked = t.token, !.pc = "react"]
<1>1. /\ frames # <<>> /\ f.pc = "read" /\ ret = 0 /\ IsFrame(f) /\ f.id \in Nat \ {0} /\ mallocs \in Nat
      /\ HeapKept({})
  BY Reading
<1>2. f.i \in Nat /\ f.recognized.token \in References \cup {NoReference}
  BY <1>1 DEF IsFrame
<1>3. Slot \in 0..2 /\ (f.fn \in Loops => Slot = f.i % 3)
  <2>1. CASE f.fn \in Loops
    <3>1. Slot = f.i % 3
      BY <2>1 DEF Slot, Loops
    <3>2. QED
      BY <1>2, <3>1
  <2>2. CASE f.fn = "primitive"
    BY <1>2, <2>2 DEF Slot, Loops
  <2>3. CASE f.fn \in {"skip", "array_value"}
    BY <2>3 DEF Slot, Loops
  <2>4. QED
    BY <2>1, <2>2, <2>3
<1>4. P!Parse(t.token, m, ent) /\ Set(g)
  BY DEF Feed
<1>5. m \in References /\ ent \in P!Entities
  BY <1>1, <1>2, <1>3 DEF References, P!Entities
<1>6. IsFrame(g) /\ g.id = f.id /\ g.address = f.address /\ g.pc = "react"
  BY <1>1, <1>3, TokenTaken
<1> HIDE DEF m, ent, g
<1>7. Kept
  <2>1. Keeps(g) /\ ~Fills(g)
    BY <1>6 DEF Keeps, Fills
  <2>2. QED
    BY <1>1, <1>4, <2>1, SetKept
<1>8. Fed
  <2>1. call'.major = t.token /\ call'.minor = m /\ entity' = ent
    BY <1>4 DEF P!Parse
  <2>2. P!Parse(call'.major, call'.minor, entity')
    BY <1>4, <2>1
  <2>3. QED
    BY <1>5, <2>1, <2>2 DEF Fed
<1>9. QED
  BY <1>7, <1>8

\* What a call of the lexer leaves in the slot is a token that the parser knows.
LEMMA LexedKnown ==
    ASSUME NEW t, IsLexeme(t), NEW old, old.token \in P!Terminals, NEW lexed \in Lexed(t, old)
    PROVE  lexed.token.token \in P!Terminals
<1>1. CASE t = LexicalError
  BY <1>1 DEF Lexed
<1>2. CASE t # LexicalError
  <2>1. t.token \in P!Terminals
    BY <1>2 DEF IsLexeme
  <2>2. lexed.token = t \/ lexed.token = Tok(t.token, old.value)
    BY <1>2 DEF Lexed
  <2>3. QED
    BY <2>1, <2>2 DEF Tok
<1>3. QED
  BY <1>1, <1>2

\* yajp_parse and yajp_skip_json_object look at the lexer's result.
LEMMA ReadCheckedFine ==
    ASSUME IInv, ReadChecked
    PROVE  Fine
<1> DEFINE fns == {"parse", "skip"}
<1>1. Reads(fns) /\ UNCHANGED ub
  BY DEF ReadChecked
<1>2. /\ frames # <<>> /\ f.fn \in fns /\ f.pc = "read" /\ ub = "none" /\ ret = 0 /\ IsFrame(f)
      /\ UNCHANGED <<memory, mallocs, freed, setterCalls>> /\ HeapKept({})
      /\ \A t \in NextTokens : IsLexeme(t)
  BY <1>1, Reading
<1>3. fns \in SUBSET Functions /\ fns \subseteq Loops \cup {"primitive", "skip", "array_value"}
  BY DEF Functions, Loops
<1>4. f.tokens[Slot].token \in P!Terminals
  <2>1. Slot \in 0..2
    BY <1>2 DEF Slot, IsFrame
  <2>2. QED
    BY <1>2, <2>1 DEF IsFrame
<1>5. PICK t \in NextTokens : \E lexed \in Lexed(t, f.tokens[Slot]) :
         IF lexed.result # 0 THEN Return(-1) /\ UNCHANGED parserVars ELSE Feed(lexed.token)
  BY DEF ReadChecked
<1>6. PICK lexed \in Lexed(t, f.tokens[Slot]) :
         IF lexed.result # 0 THEN Return(-1) /\ UNCHANGED parserVars ELSE Feed(lexed.token)
  BY <1>5
<1>7. lexed.token.token \in P!Terminals
  BY <1>2, <1>4, LexedKnown
<1>8. CASE Return(-1) /\ UNCHANGED parserVars
  <2>1. Kept
    BY <1>2, <1>8, GivesUp
  <2>2. QED
    BY <1>1, <1>2, <1>8, <2>1, ReadFine
<1>9. CASE Feed(lexed.token)
  <2>1. f.fn # "primitive"
    BY <1>2
  <2>2. Kept /\ Fed
    BY <1>1, <1>2, <1>3, <1>7, <1>9, <2>1, FeedKept
  <2>3. QED
    BY <1>1, <1>2, <2>2, ReadFine
<1>10. QED
  BY <1>6, <1>8, <1>9

\* The functions for primitives and arrays do not.
LEMMA ReadUncheckedFine ==
    ASSUME IInv, ReadUnchecked
    PROVE  Fine
<1> DEFINE fns == {"primitive", "array", "objects"}
<1>1. Reads(fns) /\ UNCHANGED ub /\ (f.fn = "primitive" => f.i < 2)
  BY DEF ReadUnchecked
<1>2. /\ frames # <<>> /\ f.fn \in fns /\ f.pc = "read" /\ ub = "none" /\ IsFrame(f)
      /\ \A t \in NextTokens : IsLexeme(t)
  BY <1>1, Reading
<1>3. fns \in SUBSET Functions /\ fns \subseteq Loops \cup {"primitive", "skip", "array_value"}
  BY DEF Functions, Loops
<1>4. f.tokens[Slot].token \in P!Terminals
  <2>1. Slot \in 0..2
    BY <1>1, <1>2 DEF Slot, IsFrame
  <2>2. QED
    BY <1>2, <2>1 DEF IsFrame
<1>5. PICK t \in NextTokens : \E lexed \in Lexed(t, f.tokens[Slot]) : Feed(lexed.token)
  BY DEF ReadUnchecked
<1>6. PICK lexed \in Lexed(t, f.tokens[Slot]) : Feed(lexed.token)
  BY <1>5
<1>7. lexed.token.token \in P!Terminals
  BY <1>2, <1>4, LexedKnown
<1>8. Kept /\ Fed
  BY <1>1, <1>2, <1>3, <1>6, <1>7, FeedKept
<1>9. QED
  BY <1>1, <1>2, <1>8, ReadFine

\* A third token for the array of two: undefined, and the end of the model.
LEMMA ReadOverrunFine ==
    ASSUME IInv, ReadOverrun
    PROVE  Fine
<1>1. Reads({"primitive"}) /\ Undefined("overrun") /\ UNCHANGED parserVars
  BY DEF ReadOverrun
<1>2. UNCHANGED <<memory, mallocs, freed, setterCalls>> /\ ret = 0
  BY <1>1, Reading
<1>3. Kept /\ ub' = "overrun"
  BY <1>1, <1>2, StopKept DEF Undefined
<1>4. QED
  BY <1>1, <1>3, ReadFine

\* The token behind the key of an array, in a slot never initialised.
LEMMA ReadArrayBeginFine ==
    ASSUME IInv, ReadArrayBegin
    PROVE  Fine
<1> DEFINE fns == {"array_value"}
<1>1. Reads(fns)
  BY DEF ReadArrayBegin
<1>2. /\ frames # <<>> /\ f.fn = "array_value" /\ ub = "none" /\ ret = 0
      /\ UNCHANGED <<memory, mallocs, freed, setterCalls>> /\ HeapKept({})
  BY <1>1, Reading
<1>3. PICK t \in NextTokens :
         \/ Undefined("uninitialised") /\ UNCHANGED parserVars
         \/ t.token = P!TOK_ABEGIN /\ Feed(t) /\ UNCHANGED ub
         \/ Return(-1) /\ UNCHANGED <<parserVars, ub>>
  BY DEF ReadArrayBegin
<1>4. CASE Undefined("uninitialised") /\ UNCHANGED parserVars
  <2>1. Kept /\ ub' = "uninitialised"
    BY <1>2, <1>4, StopKept DEF Undefined
  <2>2. QED
    BY <1>1, <1>4, <2>1, ReadFine
<1>5. CASE t.token = P!TOK_ABEGIN /\ Feed(t) /\ UNCHANGED ub
  <2>1. t.token \in P!Terminals /\ fns \in SUBSET Functions
    BY <1>5 DEF P!TOK_ABEGIN, P!Terminals, Functions
  <2>2. Kept /\ Fed
    BY <1>1, <1>2, <1>5, <2>1, FeedKept
  <2>3. QED
    BY <1>1, <1>2, <1>5, <2>2, ReadFine
<1>6. CASE Return(-1) /\ UNCHANGED <<parserVars, ub>>
  <2>1. Kept
    BY <1>2, <1>6, GivesUp
  <2>2. QED
    BY <1>1, <1>2, <1>6, <2>1, ReadFine
<1>7. QED
  BY <1>3, <1>4, <1>5, <1>6

\* A turn of the loop in yajp_parser_parse.
LEMMA ParserStepFine ==
    ASSUME IInv, ParserStep
    PROVE  Fine
<1>1. /\ phase = "running" /\ ub = "none" /\ P!Step
      /\ UNCHANGED <<doc, pos, frames, born, ret, memory, mallocs, freed, setterCalls, phase, ub>>
  BY DEF ParserStep, lexerVars, heapVars
<1>2. call.busy
  BY <1>1 DEF P!Step, P!Reduce, P!Shift, P!Overflow, P!Accept, P!SyntaxError
<1>3. Kept
  BY <1>1, <1>2, StopKept
<1>4. pos \in 1..(Len(doc.tokens) + 1)
  BY DEF IInv, Ranges
<1>5. QED
  BY <1>1, <1>3, <1>4 DEF Fine

\* The entry point returns to its caller.
LEMMA FinishFine ==
    ASSUME IInv, Finish
    PROVE  /\ Kept /\ phase' = "done"
           /\ UNCHANGED <<parserVars, doc, pos, ub>>
<1>1. /\ phase' = "done" /\ frames = <<>>
      /\ UNCHANGED <<parserVars, doc, pos, frames, born, ret, memory, mallocs, freed, setterCalls, ub>>
  BY DEF Finish, lexerVars, heapVars
<1>2. Kept
  BY <1>1, StopKept
<1>3. QED
  BY <1>1, <1>2

\* The entry point calls yajp_parse, or refuses.
LEMMA StartFine ==
    ASSUME IInv, Start
    PROVE  /\ Kept /\ phase' \in {"running", "done"} /\ ret = 0
           /\ UNCHANGED <<parserVars, doc, pos, ub>>
<1> DEFINE c == Frame("parse", Root, NoRule, NoReference, Caller)
<1>1. /\ ret = 0 /\ frames = <<>> /\ born = 0 /\ mallocs \in Nat /\ freed \subseteq 1..mallocs
      /\ Sound(memory, mallocs, freed) /\ Unled(Led(memory), frames)
      /\ Stack(frames, born, mallocs, freed)
  BY DEF IInv, NotBegun, Ranges, Start
<1>2. /\ UNCHANGED <<parserVars, doc, pos, ub, memory, mallocs, freed, setterCalls>>
      /\ \/ phase' = "done" /\ ret' = -1 /\ UNCHANGED <<frames, born>>
         \/ phase' = "running" /\ ret' = 0 /\ frames' = <<c>> /\ born' = 1
  BY <1>1 DEF Start, lexerVars, heapVars
<1>3. CASE phase' = "done" /\ ret' = -1 /\ UNCHANGED <<frames, born>>
  BY <1>1, <1>2, <1>3 DEF Kept
<1>4. CASE phase' = "running" /\ ret' = 0 /\ frames' = <<c>> /\ born' = 1
  <2>1. IsAddress(Caller) /\ BlockOf(Caller) = 0
    BY Addresses
  <2>2. "parse" \in Functions /\ Root \in DOMAIN Contexts
    BY DeserializerAssumption DEF Functions
  <2>3. JustCalled(c, "parse", Caller)
    <3>1. born \in Nat
      BY <1>1
    <3>2. QED
      BY <2>1, <2>2, <3>1, NewFrame, Zenon
  <2> HIDE DEF c
  <2>4. IsFrame(c) /\ c.id = 1 /\ c.pc = "read" /\ Base(c) = 0 /\ ~Fills(c)
    BY <1>1, <2>1, <2>3 DEF JustCalled, Base, Fills
  <2> DEFINE s == <<c>>
  <2>5. Len(s) = 1 /\ s[1] = c /\ s # <<>> /\ Last(s).pc \notin Waits
    BY <2>4 DEF Last, Waits
  <2>6. IsSeq(s)
    <3>1. s \in Seq({c})
      OBVIOUS
    <3>2. QED
      BY <3>1, SeqOver, Zenon
  <2> HIDE DEF s
  <2>7. \A k \in 1..Len(s) : k = 1
    BY <2>5
  <2>8. Climbs(s, mallocs, freed)
    <3>1. 0 \in (0..mallocs) \ freed /\ 0 <= 0
      BY <1>1
    <3>2. \A k \in 1..Len(s) : s[k] = c
      BY <2>5, <2>7
    <3>3. \A k \in 1..Len(s) : \A j \in 1..k : j \in 1..Len(s)
      BY <2>5
    <3>4. QED
      BY <2>4, <3>1, <3>2, <3>3 DEF Climbs
  <2>9. Stack(s, 1, mallocs, freed)
    BY <2>4, <2>5, <2>6, <2>8 DEF Stack
  <2>10. Unled(Led(memory), s)
    BY <2>4, <2>5, <2>7 DEF Unled
  <2>11. frames' = s
    BY <1>4 DEF s
  <2>12. Kept
    BY <1>1, <1>2, <1>4, <2>9, <2>10, <2>11 DEF Kept
  <2>13. QED
    BY <1>1, <1>2, <1>4, <2>12
<1>5. QED
  BY <1>1, <1>2, <1>3, <1>4
-----------------------------------------------------------------------------
(* The parser inside the deserializer is the one that ParserProofs is      *)
(* about: the same tables, and steps that are steps of its specification.  *)

\* The tables are the same.
LEMMA SameTables ==
    /\ P!yy_action = PP!yy_action /\ P!yy_lookahead = PP!yy_lookahead
    /\ P!yy_shift_ofst = PP!yy_shift_ofst /\ P!yy_reduce_ofst = PP!yy_reduce_ofst
    /\ P!yyRuleInfoLhs = PP!yyRuleInfoLhs /\ P!yyRuleInfoNRhs = PP!yyRuleInfoNRhs
  BY Zenon DEF P!yy_action, PP!yy_action, P!yy_lookahead, PP!yy_lookahead,
               P!yy_shift_ofst, PP!yy_shift_ofst, P!yy_reduce_ofst, PP!yy_reduce_ofst,
               P!yyRuleInfoLhs, PP!yyRuleInfoLhs, P!yyRuleInfoNRhs, PP!yyRuleInfoNRhs

\* So is what is looked up in them.
LEMMA SameLookups ==
    /\ \A t, s : P!yy_find_shift_action(t, s) = PP!yy_find_shift_action(t, s)
    /\ \A s, n : P!yy_find_reduce_action(s, n) = PP!yy_find_reduce_action(s, n)
    /\ P!Action = PP!Action /\ P!Top = PP!Top
<1>1. \A t, s : P!yy_find_shift_action(t, s) = PP!yy_find_shift_action(t, s)
  BY SameTables, Zenon DEF P!yy_find_shift_action, PP!yy_find_shift_action, P!At, PP!At,
     P!YY_MAX_SHIFT, PP!YY_MAX_SHIFT, P!YY_ERROR_ACTION, PP!YY_ERROR_ACTION
<1>2. \A s, n : P!yy_find_reduce_action(s, n) = PP!yy_find_reduce_action(s, n)
  BY SameTables, Zenon DEF P!yy_find_reduce_action, PP!yy_find_reduce_action, P!At, PP!At
<1>3. P!Action = PP!Action /\ P!Top = PP!Top
  BY <1>1, Zenon DEF P!Action, PP!Action, P!Top, PP!Top
<1>4. QED
  BY <1>1, <1>2, <1>3

\* So is a turn of the loop.
LEMMA SameSteps ==
    ASSUME P!Step
    PROVE  PP!Step
<1>1. P!Reduce => PP!Reduce
  <2>1. ASSUME NEW rule, P!yy_reduce(rule) PROVE PP!yy_reduce(rule)
    BY <2>1, SameTables, SameLookups, Zenon
       DEF P!yy_reduce, PP!yy_reduce, P!At, PP!At, P!Recognized, PP!Recognized
  <2>2. QED
    BY <2>1, SameLookups, Zenon DEF P!Reduce, PP!Reduce, P!YY_MIN_REDUCE, PP!YY_MIN_REDUCE
<1>2. \A a : P!ShiftState(a) = PP!ShiftState(a)
  BY Zenon DEF P!ShiftState, PP!ShiftState, P!YY_MAX_SHIFT, PP!YY_MAX_SHIFT,
     P!YY_MIN_REDUCE, PP!YY_MIN_REDUCE, P!YY_MIN_SHIFTREDUCE, PP!YY_MIN_SHIFTREDUCE
<1>3. P!Shift => PP!Shift
  BY <1>2, SameLookups, Zenon DEF P!Shift, PP!Shift, P!YY_MAX_SHIFTREDUCE, PP!YY_MAX_SHIFTREDUCE,
     P!OneErrorLess, PP!OneErrorLess, P!Return, PP!Return
<1>4. P!Overflow => PP!Overflow
  BY SameLookups, Zenon DEF P!Overflow, PP!Overflow, P!YY_MAX_SHIFTREDUCE, PP!YY_MAX_SHIFTREDUCE,
     P!OneErrorLess, PP!OneErrorLess, P!Return, PP!Return, P!Sentinel, PP!Sentinel
<1>5. P!Accept => PP!Accept
  BY SameLookups, Zenon DEF P!Accept, PP!Accept, P!YY_ACCEPT_ACTION, PP!YY_ACCEPT_ACTION,
     P!Return, PP!Return
<1>6. P!SyntaxError => PP!SyntaxError
  BY SameLookups, Zenon DEF P!SyntaxError, PP!SyntaxError, P!YY_ERROR_ACTION, PP!YY_ERROR_ACTION,
     P!Return, PP!Return, P!Sentinel, PP!Sentinel, P!TOK_EOF, PP!TOK_EOF
<1>7. QED
  BY <1>1, <1>3, <1>4, <1>5, <1>6, Zenon DEF P!Step, PP!Step

\* So is a token fed to it.
LEMMA SameFeeding ==
    ASSUME Fed
    PROVE  PP!Next
<1>1. call'.major \in PP!Terminals /\ call'.minor \in References /\ entity' \in PP!Entities
  BY Zenon DEF Fed, P!Terminals, PP!Terminals, P!Entities, PP!Entities
<1>2. PP!Parse(call'.major, call'.minor, entity')
  BY Zenon DEF Fed, P!Parse, PP!Parse
<1>3. QED
  BY <1>1, <1>2, Zenon DEF PP!Next

\* So is the state of a parser that was initialised.
LEMMA SameBeginning ==
    ASSUME P!Init
    PROVE  PP!Init
  BY Zenon DEF P!Init, PP!Init, P!Sentinel, PP!Sentinel, P!NoEntity, PP!NoEntity, P!TOK_EOF, PP!TOK_EOF

\* What ParserProofs assumes of the constants.
LEMMA SameAssumption == PP!ParserAssumption
  BY DeserializerAssumption DEF PP!ParserAssumption, References, NoReference

\* The parser's invariant is kept by whatever the deserializer does.
LEMMA ParserKept ==
    ASSUME PP!IInv, UNCHANGED parserVars \/ P!Step \/ Fed
    PROVE  PP!IInv'
<1>1. UNCHANGED parserVars => UNCHANGED PP!parserVars
  BY Zenon DEF parserVars, PP!parserVars
<1>2. [PP!Next]_PP!parserVars
  BY <1>1, SameSteps, SameFeeding, Zenon DEF PP!Next
<1>3. QED
  BY <1>2, SameAssumption, PP!NextIInv
-----------------------------------------------------------------------------
(* The invariant holds.                                                    *)

\* The invariant holds before the entry point is called.
LEMMA InitIInv == Init => IInv
<1> SUFFICES ASSUME Init PROVE IInv
  OBVIOUS
<1>1. PP!IInv
  BY SameBeginning, SameAssumption, PP!InitIInv, Zenon DEF Init
<1>2. Ranges /\ NotBegun /\ FailureAwaited
  BY LexerAssumption, DeserializerAssumption DEF Init, Ranges, NotBegun, FailureAwaited
<1>3. Stack(frames, born, mallocs, freed)
  <2>1. <<>> \in Seq({}) /\ Len(<<>>) = 0
    OBVIOUS
  <2>2. IsSeq(<<>>)
    BY <2>1, SeqOver, Zenon
  <2>3. frames = <<>>
    BY DEF Init
  <2>4. QED
    BY <2>1, <2>2, <2>3 DEF Stack, Climbs
<1>4. Links(memory) = {} /\ frames = <<>> /\ Len(<<>>) = 0
  BY DEF Init, Links
<1>5. Sound(memory, mallocs, freed) /\ Unled(Led(memory), frames)
  BY <1>4 DEF Sound, Unled
<1>6. QED
  BY <1>1, <1>2, <1>3, <1>5 DEF IInv

\* A step that changes nothing.
LEMMA UnchangedFine ==
    ASSUME IInv, UNCHANGED vars
    PROVE  Kept /\ UNCHANGED <<phase, ub, doc, pos, frames, born, ret, parserVars>>
  BY StopKept DEF vars, lexerVars, heapVars

\* Every step of a running program is one of those above.
LEMMA ProgramFine ==
    ASSUME IInv, Program
    PROVE  Fine \/ Start \/ Finish
  BY ReadCheckedFine, ReadUncheckedFine, ReadOverrunFine, ReadArrayBeginFine,
     ParserStepFine, ParseReactFine, ParseCalledFine, PrimitiveReactFine, SkipReactFine,
     ObjectEnterFine, AttachFine, ArrayEnterFine, RowEnterFine, RowCalledFine, NoElementFine,
     ElementReactFine, ObjectElementFine, ObjectElementCalledFine, Zenon DEF Program

\* What all steps have in common, the first and the last one included.
Common ==
    /\ Kept
    /\ doc' = doc /\ pos' \in 1..(Len(doc.tokens) + 1)
    /\ ub' \in {"none", "overrun", "dangling", "uninitialised"}
    /\ phase' \in {"start", "running", "done"}
    /\ phase' = "start" => ret' = 0 /\ frames' = <<>> /\ born' = 0
    /\ ret = -1 => pos' = pos
    /\ UNCHANGED parserVars \/ P!Step \/ Fed

\* What every step has in common.
LEMMA NextCommon ==
    ASSUME IInv, [Next]_vars
    PROVE  Common
<1>1. /\ pos \in 1..(Len(doc.tokens) + 1)
      /\ ub \in {"none", "overrun", "dangling", "uninitialised"}
      /\ phase \in {"start", "running", "done"}
      /\ phase = "start" => ret = 0 /\ frames = <<>> /\ born = 0
  BY DEF IInv, Ranges, NotBegun
<1>2. CASE Fine
  BY <1>2 DEF Fine, Common
<1>3. CASE Start
  BY <1>1, <1>3, StartFine DEF Common
<1>4. CASE Finish
  BY <1>1, <1>4, FinishFine DEF Common
<1>5. CASE UNCHANGED vars
  BY <1>1, <1>5, UnchangedFine DEF Common
<1>6. QED
  BY <1>2, <1>3, <1>4, <1>5, ProgramFine DEF Next, Stopped

\* Every step keeps the invariant.
LEMMA NextIInv ==
    ASSUME IInv, [Next]_vars
    PROVE  IInv'
<1>1. Common
  BY NextCommon
<1>2. PP!IInv'
  BY <1>1, ParserKept DEF Common, IInv
<1>3. Ranges'
  BY <1>1 DEF Common, Kept, Ranges, IInv
<1>4. Stack(frames, born, mallocs, freed)'
  BY <1>1 DEF Common, Kept
<1>5. Sound(memory, mallocs, freed)' /\ Unled(Led(memory), frames)'
  BY <1>1 DEF Common, Kept
<1>6. FailureAwaited'
  BY <1>1 DEF Common, Kept, FailureAwaited, f
<1>7. NotBegun'
  BY <1>1 DEF Common, NotBegun
<1>8. QED
  BY <1>2, <1>3, <1>4, <1>5, <1>6, <1>7 DEF IInv

\* The invariant holds in every state, whatever documents there are, however
\* deep they are nested, and whichever allocations fail.
THEOREM Invariance == Spec => []IInv
<1>1. Init => IInv
  BY InitIInv
<1>2. IInv /\ [Next]_vars => IInv'
  BY NextIInv
<1>3. QED
  BY <1>1, <1>2, PTL DEF Spec
-----------------------------------------------------------------------------
(* What the runs check on sample documents, for all.                       *)

\* Counters, results and the C stack stay within what the code can hold.
THEOREM TypeCorrect == Spec => []TypeOK
<1>1. IInv => TypeOK
  <2>1. SUFFICES ASSUME IInv PROVE TypeOK
    OBVIOUS
  <2>2. Ranges /\ born \in Nat
    BY <2>1 DEF IInv, Ranges
  <2>3. ASSUME NEW k \in 1..Len(frames)
        PROVE  /\ frames[k].fn \in Functions /\ frames[k].id \in 1..born
               /\ frames[k].ctx \in DOMAIN Contexts
               /\ frames[k].i \in Nat /\ frames[k].brackets \in Nat /\ frames[k].shift \in Nat
    <3>1. IsFrame(frames[k]) /\ frames[k].id <= born
      BY <2>1 DEF IInv, Stack
    <3>2. QED
      BY <2>2, <3>1 DEF IsFrame
  <2>4. QED
    BY <2>2, <2>3 DEF TypeOK, Ranges
<1>2. QED
  BY <1>1, Invariance, PTL

\* A function that reads has a clean slot to read into, whatever it has read
\* before: no token with a text of its own is overwritten.
THEOREM SlotsTheorem == Spec => []SlotsReleased
<1>1. IInv => SlotsReleased
  <2>1. SUFFICES ASSUME IInv, In({"parse", "skip", "array_value", "array", "objects"}, {"read"})
                 PROVE  f.tokens[Slot] = ZeroToken
    BY DEF SlotsReleased
  <2>2. f.fn \in Loops \cup {"skip", "array_value"} /\ f.pc = "read" /\ IsFrame(f)
    BY <2>1, AtWork DEF In, Loops
  <2>3. f.i \in Nat /\ Tidy(f)
    BY <2>2 DEF IsFrame
  <2>4. CASE f.fn \in Loops
    <3>1. Slot = f.i % 3 /\ Slot \in 0..2
      BY <2>3, <2>4 DEF Slot, Loops
    <3>2. QED
      BY <2>2, <2>3, <2>4, <3>1 DEF Tidy
  <2>5. CASE f.fn \in {"skip", "array_value"}
    <3>1. Slot = 0
      BY <2>5 DEF Slot
    <3>2. QED
      BY <2>2, <2>3, <2>5, <3>1 DEF Tidy
  <2>6. QED
    BY <2>2, <2>4, <2>5
<1>2. QED
  BY <1>1, Invariance, PTL

\* No pointer leads to a block that was given back, no two lead to one, no function
\* works in such a block, nor in one that realloc may move: with any documents and
\* rules, and whichever allocations and setters fail.
THEOREM PointersTheorem == Spec => []PointersHold
<1>1. IInv => PointersHold
  <2>1. SUFFICES ASSUME IInv PROVE PointersHold
    OBVIOUS
  <2>2. Pointers = Links(memory)
    BY DEF Pointers, Links
  <2>3. Sound(memory, mallocs, freed)
    BY <2>1 DEF IInv
  <2>4. \A k \in 1..Len(frames) : BlockOf(frames[k].address) \notin freed
    BY <2>1 DEF IInv, Stack, Climbs, Base
  <2>5. ASSUME In({"array", "objects"}, {"react", "element"}),
               NEW p \in {RowsPointer, ElemsPointer} \cap Pointers, NEW k \in 1..Len(frames)
        PROVE  BlockOf(frames[k].address) # memory[p].to
    <3>1. frames # <<>>
      BY <2>5 DEF In
    <3>2. /\ IsAddress(f.address) /\ mallocs \in Nat /\ Base(f) \in 0..mallocs
          /\ Base(frames[k]) \in 0..mallocs /\ Base(frames[k]) <= Base(f)
      BY <2>1, <3>1, AtWork DEF IsFrame
    <3>3. BlockOf(p) = Base(f)
      BY <3>2, MemberWithin DEF RowsPointer, ElemsPointer, Base
    <3>4. memory[p].to \in 1..mallocs /\ BlockOf(p) < memory[p].to
      BY <2>2, <2>3, <2>5 DEF Sound
    <3>5. QED
      BY <3>2, <3>3, <3>4 DEF Base
  <2>6. QED
    BY <2>2, <2>3, <2>4, <2>5 DEF PointersHold, Sound
<1>2. QED
  BY <1>1, Invariance, PTL

\* The parser is used as module Parser says ...
THEOREM UseTheorem == Spec => UsesParser
<1>1. Init => P!Init
  BY DEF Init
<1>2. IInv /\ [Next]_vars => [P!Step \/ Fed]_parserVars
  BY NextCommon DEF Common
<1>3. QED
  BY <1>1, <1>2, Invariance, PTL DEF Spec, UsesParser, Fed

\* ... so that its assertions hold in the deserializer, a reduction finds its
\* handle, and the token reported is the one before the last, whatever the
\* document was.
THEOREM ParserTheorem == Spec => [](PP!AssertionsHold /\ PP!HandleOnTop /\ PP!EntityIsPreviousToken)
<1>1. IInv => PP!AssertionsHold /\ PP!HandleOnTop /\ PP!EntityIsPreviousToken
  BY SameAssumption, PP!AssertionsThere, PP!HandleThere, Zenon DEF IInv, PP!IInv
<1>2. QED
  BY <1>1, Invariance, PTL
-----------------------------------------------------------------------------
(* References.  A setter is given what tokens hold, and tokens are in the  *)
(* frames of functions.  The invariant follows a value from the slot it is *)
(* read into, over the parser's stack and the parser's report, to the      *)
(* function that converts it, and says at each place that the function it  *)
(* was read by has not returned.                                           *)

\* One of the lowest n functions holds the token.
Within(s, n, ref) == \E j \in 1..n : s[j].id = ref.frame

\* Where the parser stands.
State == PP!Top.stateno

\* The token of a value that is on the parser's stack and waits to be reduced.
Waiting == IF call.busy THEN prev ELSE call.minor

\* Where the parser stands when it has reported a key, and one token later.
KeyRead == {0, 3, 6}
Then == {0, 3, 4, 6, 67} \cup PP!ValueStates

\* Where a call of the parser has ended.
AfterCall ==
    ~call.busy => /\ State \in PP!ValueStates => call.major \in {4, 8, 9, 10}
                  /\ entity.type = "KEY" => State \in KeyRead
                  /\ entity.type = "PAIR" => State \notin PP!ValueStates

\* A function is told its name in a token of a function below it.
Named(s) == \A k \in 1..Len(s) : (s[k].fn = "parse" /\ k = 1) \/ Within(s, k - 1, s[k].name)

\* What was reported with a row is converted behind it.
RowsKept(s) ==
    \A k \in 1..Len(s) : s[k].pc \in {"row", "element"} /\ s[k].recognized.type = "VALUE" =>
        Within(s, k, s[k].recognized.token)

\* yajp_parse_primitive_value reads two tokens, and the parser reports the value of
\* the pair with no token older than the first.
PrimitivePhase(g, s) ==
    /\ g.pc = "read" /\ g.i = 0 => State \in KeyRead
    /\ g.pc = "read" /\ g.i = 1 => State \in Then
    /\ g.pc = "react" => g.i < 2
    /\ g.pc = "react" /\ g.i = 0 =>
          entity.type = "NONE" /\ State \in (IF call.busy THEN KeyRead ELSE Then)
    /\ g.pc = "react" /\ g.i = 1 =>
          /\ entity.type = "NONE" /\ call.busy => State \in Then \cup {1}
          /\ entity.type = "PAIR" => Within(s, Len(s), entity.token)

\* The function at work.
AtTop(s, r) ==
    s # <<>> /\ r = 0 =>
        LET g == s[Len(s)]
        IN  /\ g.pc = "react" => g.picked = call.major
            /\ g.pc \in Waits \cup {"element"} => State \notin PP!ValueStates
            /\ g.fn = "primitive" => PrimitivePhase(g, s)
            /\ State \in PP!ValueStates => Within(s, Len(s), Waiting)
            /\ g.pc = "react" /\ entity.type = "VALUE" => Within(s, Len(s), entity.token)

\* The parser is called with a token of the function at work.
Calling == call.busy => frames # <<>> /\ ret = 0 /\ f.pc = "react" /\ call.minor.frame = f.id

\* Before yajp_deserialize runs nothing was parsed.
Untouched == phase = "start" => ~call.busy /\ State = 0 /\ entity.type = "NONE" /\ ub = "none"

\* The one reference that is followed too late is the key of yajp_parse.
OnlyKeysLost == ub = "dangling" => f.fn = "parse"

\* What is added to the invariant.
ReachInv ==
    /\ AfterCall
    /\ Named(frames)
    /\ RowsKept(frames)
    /\ AtTop(frames, ret)
    /\ Calling
    /\ Untouched
    /\ OnlyKeysLost

\* The same function, wherever it stands.
Alike(g, h) == g.id = h.id /\ g.fn = h.fn /\ g.name = h.name

\* What is within some functions is within more, however they go on.
LEMMA WithinMore ==
    ASSUME NEW s, NEW t, NEW m \in Nat, NEW n \in Nat, m <= n,
           \A k \in 1..m : t[k].id = s[k].id,
           NEW ref, Within(s, m, ref)
    PROVE  Within(t, n, ref)
<1>1. PICK j \in 1..m : s[j].id = ref.frame
  BY DEF Within
<1>2. j \in 1..n /\ t[j].id = ref.frame
  BY <1>1
<1>3. QED
  BY <1>2 DEF Within

\* Names are kept by the lowest functions, however they go on.
LEMMA NamedBelow ==
    ASSUME NEW s, NEW t, Len(t) \in Nat, Len(s) \in Nat, Len(t) <= Len(s), Named(s),
           \A k \in 1..Len(t) : Alike(t[k], s[k])
    PROVE  Named(t)
<1>1. ASSUME NEW k \in 1..Len(t), ~(t[k].fn = "parse" /\ k = 1)
      PROVE  Within(t, k - 1, t[k].name)
  <2>1. k \in 1..Len(s) /\ t[k].fn = s[k].fn /\ t[k].name = s[k].name
    BY DEF Alike
  <2>2. Within(s, k - 1, s[k].name)
    BY <1>1, <2>1 DEF Named
  <2>3. k - 1 \in Nat /\ \A j \in 1..(k - 1) : t[j].id = s[j].id
    BY DEF Alike
  <2>4. QED
    BY <2>1, <2>2, <2>3, WithinMore
<1>2. QED
  BY <1>1 DEF Named

\* A function called is told its name by one of those that wait.
LEMMA NamedPushed ==
    ASSUME NEW s, Len(s) \in Nat, Named(s), NEW t, Len(t) = Len(s) + 1,
           \A k \in 1..Len(s) : t[k] = s[k],
           Within(s, Len(s), t[Len(t)].name)
    PROVE  Named(t)
<1>1. ASSUME NEW k \in 1..Len(t), ~(t[k].fn = "parse" /\ k = 1)
      PROVE  Within(t, k - 1, t[k].name)
  <2>1. CASE k = Len(t)
    <3>1. k - 1 = Len(s)
      BY <2>1
    <3>2. k - 1 \in Nat /\ \A j \in 1..(k - 1) : t[j].id = s[j].id
      BY <3>1
    <3>3. Within(s, k - 1, t[k].name)
      BY <2>1, <3>1
    <3>4. QED
      BY <3>2, <3>3 DEF Within
  <2>2. CASE k # Len(t)
    <3>1. k \in 1..Len(s) /\ t[k] = s[k]
      BY <2>2
    <3>2. Within(s, k - 1, s[k].name)
      BY <1>1, <3>1 DEF Named
    <3>3. k - 1 \in Nat /\ \A j \in 1..(k - 1) : t[j].id = s[j].id
      BY <3>1
    <3>4. QED
      BY <3>1, <3>2, <3>3, WithinMore
  <2>3. QED
    BY <2>1, <2>2
<1>2. QED
  BY <1>1 DEF Named

\* Rows are kept by functions that stay as they are, and by others that wait for none.
LEMMA RowsBelow ==
    ASSUME NEW s, Len(s) \in Nat, RowsKept(s), NEW t, Len(t) \in Nat, NEW n \in Nat, n <= Len(s),
           \A k \in 1..n : t[k].id = s[k].id,
           \A k \in 1..Len(t) :
              \/ k \in 1..n /\ t[k] = s[k]
              \/ t[k].pc \notin {"row", "element"}
              \/ t[k].recognized.type = "VALUE" => Within(t, k, t[k].recognized.token)
    PROVE  RowsKept(t)
<1>1. ASSUME NEW k \in 1..Len(t), t[k].pc \in {"row", "element"}, t[k].recognized.type = "VALUE"
      PROVE  Within(t, k, t[k].recognized.token)
  <2>1. CASE k \in 1..n /\ t[k] = s[k]
    <3>1. Within(s, k, s[k].recognized.token)
      BY <1>1, <2>1 DEF RowsKept
    <3>2. \A j \in 1..k : t[j].id = s[j].id
      BY <2>1
    <3>3. QED
      BY <2>1, <3>1, <3>2, WithinMore
  <2>2. QED
    BY <1>1, <2>1
<1>2. QED
  BY <1>1 DEF RowsKept
-----------------------------------------------------------------------------
(* What the three things that happen to the C stack keep of it, while the  *)
(* parser rests.                                                           *)

\* A function at work between two calls, and a step of it that leaves the parser alone.
Ready == IInv /\ ReachInv /\ frames # <<>> /\ ~call.busy

Resting == Ready /\ phase' = "running" /\ UNCHANGED parserVars

\* What is known of it.
LEMMA Readied ==
    ASSUME Ready
    PROVE  /\ IsFrame(f) /\ frames # <<>> /\ Len(frames) \in Nat \ {0} /\ IsSeq(frames)
           /\ f.fn # "parse" => Live(f.name)
           /\ f.pc \in {"row", "element"} /\ f.recognized.type = "VALUE" => Live(f.recognized.token)
           /\ State \in PP!ValueStates => call.major \in {4, 8, 9, 10}
           /\ entity.type = "KEY" => State \in KeyRead
           /\ entity.type = "PAIR" => State \notin PP!ValueStates
<1>1. /\ IsFrame(f) /\ frames # <<>> /\ IsSeq(frames)
      /\ Len(frames) \in Nat \ {0} /\ Len(frames) \in 1..Len(frames)
  BY AtWork DEF Ready, IInv, Stack
<1>2. f = frames[Len(frames)]
  BY DEF f, Last
<1>3. f.fn # "parse" => Live(f.name)
  <2>1. SUFFICES ASSUME f.fn # "parse" PROVE Live(f.name)
    OBVIOUS
  <2>2. Within(frames, Len(frames) - 1, f.name)
    BY <1>1, <1>2, <2>1 DEF Ready, ReachInv, Named
  <2>3. Within(frames, Len(frames), f.name)
    <3>1. Len(frames) - 1 \in Nat /\ Len(frames) - 1 <= Len(frames)
      BY <1>1
    <3>2. QED
      BY <1>1, <2>2, <3>1, WithinMore
  <2>4. QED
    BY <2>3 DEF Within, Live
<1>4. f.pc \in {"row", "element"} /\ f.recognized.type = "VALUE" => Live(f.recognized.token)
  BY <1>1, <1>2 DEF Ready, ReachInv, RowsKept, Within, Live
<1>5. /\ State \in PP!ValueStates => call.major \in {4, 8, 9, 10}
      /\ entity.type = "KEY" => State \in KeyRead
      /\ entity.type = "PAIR" => State \notin PP!ValueStates
  BY DEF Ready, ReachInv, AfterCall
<1>6. QED
  BY <1>1, <1>3, <1>4, <1>5

\* And of one that has not failed.
LEMMA ReadiedWell ==
    ASSUME Ready, ret = 0
    PROVE  /\ f.pc = "react" => f.picked = call.major
           /\ f.pc \in Waits \cup {"element"} => State \notin PP!ValueStates
           /\ f.fn = "primitive" => PrimitivePhase(f, frames)
           /\ State \in PP!ValueStates => Live(call.minor)
           /\ f.pc = "react" /\ entity.type = "VALUE" => Live(entity.token)
<1>1. f = frames[Len(frames)] /\ Waiting = call.minor
  BY DEF f, Last, Ready, Waiting
<1>2. QED
  BY <1>1 DEF Ready, ReachInv, AtTop, Within, Live

\* What stays as it is.
LEMMA Rests ==
    ASSUME Resting
    PROVE  /\ State' = State /\ call' = call /\ prev' = prev /\ entity' = entity
           /\ AfterCall' /\ Calling' /\ Untouched'
<1>1. call' = call /\ prev' = prev /\ entity' = entity /\ yystack' = yystack
  BY DEF Resting, parserVars
<1>2. State' = State
  BY <1>1 DEF State, PP!Top
<1>3. AfterCall' /\ Calling' /\ Untouched'
  BY <1>1, <1>2 DEF Resting, Ready, ReachInv, AfterCall, Calling, Untouched
<1>4. QED
  BY <1>1, <1>2, <1>3

\* It goes on.
LEMMA ReachSet ==
    ASSUME Resting, ret = 0, NEW g, Alike(g, f), Set(g), g.pc \in {"read", "element"},
           g.pc = "element" =>
              /\ State \notin PP!ValueStates
              /\ g.recognized.type = "VALUE" => Live(g.recognized.token),
           g.fn = "primitive" => g.pc = "read" /\ g.i \in Nat \ {0} /\ (g.i = 1 => State \in Then),
           ub' # "dangling"
    PROVE  ReachInv'
<1> DEFINE t == [frames EXCEPT ![Len(frames)] = g]
           l == Len(frames)
<1>1. frames' = t /\ ret' = ret
  BY DEF Set
<1>2. l \in Nat \ {0} /\ IsSeq(frames) /\ frames # <<>>
  BY Readied DEF Resting
<1>3. Len(t) = l /\ t # <<>> /\ t[l] = g /\ \A k \in 1..(l - 1) : t[k] = frames[k]
  BY <1>2, LastReplaced
<1> HIDE DEF t
<1>4. f = frames[l]
  BY DEF f, Last
<1> HIDE DEF l
<1>5. \A k \in 1..l : k = l \/ k \in 1..(l - 1)
  BY <1>2
<1>6. \A k \in 1..l : Alike(t[k], frames[k])
  BY <1>3, <1>4, <1>5, Zenon DEF Alike
<1>7. \A ref : Live(ref) => Within(t, l, ref)
  BY <1>6 DEF Alike, Live, Within, l
<1>8. Named(t)
  <2>1. Len(t) \in Nat /\ Len(frames) \in Nat /\ Len(t) <= Len(frames) /\ Named(frames)
    BY <1>2, <1>3 DEF l, Resting, Ready, ReachInv
  <2>2. QED
    BY <1>3, <1>6, <2>1, NamedBelow
<1>9. RowsKept(t)
  <2>1. g.pc \in {"row", "element"} /\ g.recognized.type = "VALUE" => Within(t, l, g.recognized.token)
    BY <1>7
  <2>2. \A k \in 1..Len(t) : \/ k \in 1..(l - 1) /\ t[k] = frames[k]
                             \/ t[k].pc \notin {"row", "element"}
                             \/ t[k].recognized.type = "VALUE" => Within(t, k, t[k].recognized.token)
    BY <1>3, <1>5, <2>1, Zenon
  <2>3. Len(t) \in Nat /\ Len(frames) \in Nat /\ RowsKept(frames) /\ l - 1 \in Nat /\ l - 1 <= Len(frames)
    BY <1>2, <1>3 DEF l, Resting, Ready, ReachInv
  <2>4. QED
    BY <1>3, <2>2, <2>3, RowsBelow
<1>10. /\ State' = State /\ call' = call /\ prev' = prev /\ entity' = entity
       /\ AfterCall' /\ Calling' /\ Untouched'
  BY Rests
<1>11. AtTop(frames, ret)'
  <2>1. frames'[Len(frames')] = g /\ Len(frames') = l
    BY <1>1, <1>3
  <2>2. g.pc # "react" /\ g.pc \notin Waits
    BY DEF Waits
  <2>3. State \in PP!ValueStates => Within(t, l, call.minor)
    BY <1>7, ReadiedWell DEF Resting
  <2>4. Waiting' = call.minor
    BY <1>10 DEF Waiting, Resting, Ready
  <2>5. g.fn = "primitive" => PrimitivePhase(g, frames)'
    BY <1>10, <2>2 DEF PrimitivePhase
  <2>6. QED
    BY <1>1, <1>10, <2>1, <2>2, <2>3, <2>4, <2>5 DEF AtTop
<1>12. QED
  BY <1>1, <1>8, <1>9, <1>10, <1>11 DEF ReachInv, OnlyKeysLost

\* It calls another.
LEMMA ReachCall ==
    ASSUME Resting, ret = 0,
           NEW g, NEW pc \in Waits, NEW c, Alike(g, f), DOMAIN g = FrameFields, g.fn # "primitive",
           c.pc \in {"read", "enter"}, Live(c.name),
           c.fn = "primitive" => c.i = 0 /\ State \in KeyRead,
           pc = "row" /\ g.recognized.type = "VALUE" => Live(g.recognized.token),
           Call(g, pc, c), ub' # "dangling"
    PROVE  ReachInv'
<1> DEFINE h == [g EXCEPT !.pc = pc]
           t == [frames EXCEPT ![Len(frames)] = h]
           u == Append(t, c)
           l == Len(frames)
<1>1. frames' = u /\ ret' = ret
  BY DEF Call
<1>2. h.pc = pc /\ h.recognized = g.recognized /\ Alike(h, f)
  BY DEF FrameFields, Alike
<1> HIDE DEF h
<1>3. l \in Nat \ {0} /\ IsSeq(frames) /\ frames # <<>>
  BY Readied DEF Resting
<1>4. IsSeq(t) /\ Len(t) = l /\ t[l] = h /\ \A k \in 1..(l - 1) : t[k] = frames[k]
  BY <1>3, LastReplaced
<1> HIDE DEF t
<1>5. Len(u) = l + 1 /\ u # <<>> /\ u[l + 1] = c /\ \A k \in 1..l : u[k] = t[k]
  <2>1. IsSeq(t)
    BY <1>4
  <2> HIDE DEF u
  <2>2. Len(u) = Len(t) + 1 /\ u # <<>> /\ u[Len(t) + 1] = c /\ \A k \in 1..Len(t) : u[k] = t[k]
    BY <2>1, Appended DEF u
  <2>3. QED
    BY <1>4, <2>2
<1> HIDE DEF u
<1>6. f = frames[l]
  BY DEF f, Last
<1> HIDE DEF l
<1>7. \A k \in 1..l : k = l \/ k \in 1..(l - 1)
  BY <1>3
<1>8. \A k \in 1..l : Alike(t[k], frames[k])
  BY <1>2, <1>4, <1>6, <1>7, Zenon DEF Alike
<1>9. \A ref : Live(ref) => Within(t, l, ref) /\ Within(u, l, ref) /\ Within(u, l + 1, ref)
  <2>1. TAKE ref
  <2>2. HAVE Live(ref)
  <2>3. PICK k \in 1..l : frames[k].id = ref.frame
    BY <2>2 DEF Live, l
  <2>4. k \in 1..(l + 1)
    BY <1>3
  <2>5. t[k].id = ref.frame /\ u[k].id = ref.frame
    BY <1>5, <1>8, <2>3 DEF Alike
  <2>6. QED
    BY <2>4, <2>5 DEF Within
<1>10. Named(u)
  <2>1. Len(t) \in Nat /\ Len(frames) \in Nat /\ Len(t) <= Len(frames) /\ Named(frames)
    BY <1>3, <1>4 DEF l, Resting, Ready, ReachInv
  <2>2. Named(t)
    BY <1>4, <1>8, <2>1, NamedBelow
  <2>3. Len(u) = Len(t) + 1 /\ (\A k \in 1..Len(t) : u[k] = t[k]) /\ Within(t, Len(t), u[Len(u)].name)
    BY <1>4, <1>5, <1>9
  <2>4. QED
    BY <2>1, <2>2, <2>3, NamedPushed
<1>11. RowsKept(u)
  <2>1. ASSUME NEW k \in 1..Len(u)
        PROVE  \/ k \in 1..(l - 1) /\ u[k] = frames[k]
               \/ u[k].pc \notin {"row", "element"}
               \/ u[k].recognized.type = "VALUE" => Within(u, k, u[k].recognized.token)
    <3>1. k \in 1..(l - 1) \/ k = l \/ k = l + 1
      BY <1>3, <1>5
    <3>2. CASE k \in 1..(l - 1)
      <4>1. k \in 1..l
        BY <1>3, <3>2
      <4>2. QED
        BY <1>4, <1>5, <3>2, <4>1
    <3>3. CASE k = l
      <4>1. u[k] = h
        BY <1>3, <1>4, <1>5, <3>3
      <4>2. pc = "row" /\ h.recognized.type = "VALUE" => Within(u, k, h.recognized.token)
        BY <1>2, <1>9, <3>3
      <4>3. pc # "row" => pc \notin {"row", "element"}
        BY DEF Waits
      <4>4. QED
        BY <1>2, <4>1, <4>2, <4>3
    <3>4. CASE k = l + 1
      BY <1>5, <3>4
    <3>5. QED
      BY <3>1, <3>2, <3>3, <3>4
  <2>2. \A k \in 1..(l - 1) : u[k].id = frames[k].id
    <3>1. \A k \in 1..(l - 1) : k \in 1..l
      BY <1>3
    <3>2. QED
      BY <1>4, <1>5, <3>1
  <2>3. Len(u) \in Nat /\ Len(frames) \in Nat /\ RowsKept(frames) /\ l - 1 \in Nat /\ l - 1 <= Len(frames)
    BY <1>3, <1>5 DEF l, Resting, Ready, ReachInv
  <2>4. QED
    BY <2>1, <2>2, <2>3, RowsBelow
<1>12. /\ State' = State /\ call' = call /\ prev' = prev /\ entity' = entity
       /\ AfterCall' /\ Calling' /\ Untouched'
  BY Rests
<1>13. AtTop(frames, ret)'
  <2>1. frames'[Len(frames')] = c /\ Len(frames') = l + 1
    BY <1>1, <1>5
  <2>2. c.pc # "react" /\ c.pc \notin Waits \cup {"element"}
    BY DEF Waits
  <2>3. State \in PP!ValueStates => Within(u, l + 1, call.minor)
    BY <1>9, ReadiedWell DEF Resting
  <2>4. Waiting' = call.minor
    BY <1>12 DEF Waiting, Resting, Ready
  <2>5. c.fn = "primitive" => PrimitivePhase(c, frames)'
    BY <1>12, <2>2 DEF PrimitivePhase
  <2>6. QED
    BY <1>1, <1>12, <2>1, <2>2, <2>3, <2>4, <2>5 DEF AtTop
<1>14. QED
  BY <1>1, <1>10, <1>11, <1>12, <1>13 DEF ReachInv, OnlyKeysLost

\* It returns, and well only if no value waits to be reduced.
LEMMA ReachReturn ==
    ASSUME Resting, NEW r, r = 0 => State \notin PP!ValueStates, Return(r), ub' # "dangling"
    PROVE  ReachInv'
<1> DEFINE t == Front(frames)
           l == Len(frames) - 1
<1>1. frames' = t /\ ret' = r
  BY DEF Return
<1>2. Len(frames) \in Nat \ {0} /\ IsSeq(frames) /\ frames # <<>>
  BY Readied DEF Resting
<1>3. Len(t) = l /\ \A k \in 1..l : t[k] = frames[k]
  BY <1>2, FrontTaken
<1>4. t # <<>> => Last(t).pc \in Waits
  <2>1. born \in Nat /\ mallocs \in Nat /\ Stack(frames, born, mallocs, freed)
    BY DEF Resting, Ready, IInv, Ranges
  <2>2. After(mallocs, freed, mallocs, freed, {x \in {Last(frames).tmp} : Fills(Last(frames))})
    BY <2>1 DEF After
  <2>3. QED
    BY <1>2, <2>1, <2>2, StackPopped
<1> HIDE DEF t
<1>5. l \in Nat /\ l <= Len(frames) /\ Len(frames) \in Nat
  BY <1>2
<1> HIDE DEF l
<1>6. Named(t)
  <2>1. \A k \in 1..Len(t) : Alike(t[k], frames[k])
    BY <1>3 DEF Alike
  <2>2. Len(t) \in Nat /\ Len(t) <= Len(frames) /\ Named(frames)
    BY <1>3, <1>5 DEF Resting, Ready, ReachInv
  <2>3. QED
    BY <1>5, <2>1, <2>2, NamedBelow
<1>7. RowsKept(t)
  <2>1. \A k \in 1..l : t[k].id = frames[k].id
    BY <1>3
  <2>2. \A k \in 1..Len(t) : k \in 1..l /\ t[k] = frames[k]
    BY <1>3
  <2>3. Len(t) \in Nat /\ RowsKept(frames)
    BY <1>3, <1>5 DEF Resting, Ready, ReachInv
  <2>4. QED
    BY <1>5, <2>1, <2>2, <2>3, RowsBelow
<1>8. /\ State' = State /\ call' = call /\ prev' = prev /\ entity' = entity
      /\ AfterCall' /\ Calling' /\ Untouched'
  BY Rests
<1>9. AtTop(frames, ret)'
  <2>1. SUFFICES ASSUME t # <<>>, r = 0 PROVE AtTop(frames, ret)'
    BY <1>1 DEF AtTop
  <2>2. frames'[Len(frames')].pc \in Waits
    BY <1>1, <1>4, <2>1 DEF Last
  <2>3. frames'[Len(frames')].pc \notin {"read", "react"}
    BY <2>2 DEF Waits
  <2>4. PrimitivePhase(frames[Len(frames)], frames)'
    BY <2>3 DEF PrimitivePhase
  <2>5. QED
    BY <1>8, <2>1, <2>3, <2>4 DEF AtTop
<1>10. QED
  BY <1>1, <1>6, <1>7, <1>8, <1>9 DEF ReachInv, OnlyKeysLost

\* It stops where the code has no meaning.
LEMMA ReachStop ==
    ASSUME Resting, NEW what, Undefined(what), what = "dangling" => f.fn = "parse"
    PROVE  ReachInv'
<1>1. UNCHANGED <<frames, ret>> /\ ub' = what
  BY DEF Undefined
<1>2. /\ State' = State /\ call' = call /\ prev' = prev /\ entity' = entity
      /\ AfterCall' /\ Calling' /\ Untouched'
  BY Rests
<1>3. Named(frames)' /\ RowsKept(frames)'
  BY <1>1 DEF Resting, Ready, ReachInv, Named, RowsKept, Within
<1>4. AtTop(frames, ret)'
  <2>1. AtTop(frames, ret) /\ Waiting' = Waiting
    BY <1>2 DEF Resting, Ready, ReachInv, Waiting
  <2>2. QED
    BY <1>1, <1>2, <2>1 DEF AtTop, PrimitivePhase, Within
<1>5. OnlyKeysLost'
  BY <1>1 DEF OnlyKeysLost, f
<1>6. QED
  BY <1>2, <1>3, <1>4, <1>5 DEF ReachInv

\* It passes a token of its own to the parser.
LEMMA ReachFeed ==
    ASSUME Ready, phase' = "running", ret = 0, f.pc = "read", f.fn = "primitive" => f.i < 2,
           NEW t, Feed(t), ub' # "dangling"
    PROVE  ReachInv'
<1>0. PICK g : g = [f EXCEPT !.tokens[Slot] = t, !.picked = t.token, !.pc = "react"]
  OBVIOUS
<1> DEFINE s == [frames EXCEPT ![Len(frames)] = g]
           l == Len(frames)
<1>1. frames' = s /\ ret' = 0
  BY <1>0 DEF Feed, Set
<1>2. l \in Nat \ {0} /\ IsSeq(frames) /\ frames # <<>> /\ IsFrame(f)
  BY Readied
<1>3. Alike(g, f) /\ g.pc = "react" /\ g.picked = t.token /\ g.i = f.i
  <2>1. DOMAIN f = FrameFields
    BY <1>2 DEF IsFrame
  <2>2. QED
    BY <1>0, <2>1 DEF FrameFields, Alike
<1>4. Len(s) = l /\ s # <<>> /\ s[l] = g /\ \A k \in 1..(l - 1) : s[k] = frames[k]
  BY <1>2, LastReplaced
<1>5. /\ call'.busy /\ call'.major = t.token /\ call'.minor.frame = f.id
      /\ prev' = call.minor /\ entity'.type = "NONE" /\ yystack' = yystack
  BY DEF Feed, P!Parse
<1>6. State' = State
  BY <1>5 DEF State, PP!Top
<1> HIDE DEF s
<1>7. f = frames[l]
  BY DEF f, Last
<1> HIDE DEF l
<1>8. \A k \in 1..l : k = l \/ k \in 1..(l - 1)
  BY <1>2
<1>9. \A k \in 1..l : Alike(s[k], frames[k])
  BY <1>3, <1>4, <1>7, <1>8, Zenon DEF Alike
<1>10. \A ref : Live(ref) => Within(s, l, ref)
  BY <1>9 DEF Alike, Live, Within, l
<1>11. Named(s)
  <2>1. Len(s) \in Nat /\ Len(frames) \in Nat /\ Len(s) <= Len(frames) /\ Named(frames)
    BY <1>2, <1>4 DEF l, Ready, ReachInv
  <2>2. QED
    BY <1>4, <1>9, <2>1, NamedBelow
<1>12. RowsKept(s)
  <2>1. \A k \in 1..Len(s) : \/ k \in 1..(l - 1) /\ s[k] = frames[k]
                             \/ s[k].pc \notin {"row", "element"}
    BY <1>3, <1>4, <1>8
  <2>2. Len(s) \in Nat /\ Len(frames) \in Nat /\ RowsKept(frames) /\ l - 1 \in Nat /\ l - 1 <= Len(frames)
    BY <1>2, <1>4 DEF l, Ready, ReachInv
  <2>3. QED
    BY <1>4, <2>1, <2>2, RowsBelow
<1>13. AtTop(frames, ret)'
  <2>1. frames'[Len(frames')] = g /\ Len(frames') = l
    BY <1>1, <1>4
  <2>2. g.pc \notin Waits \cup {"element", "read"}
    BY <1>3 DEF Waits
  <2>3. State \in PP!ValueStates => Within(s, l, call.minor)
    BY <1>10, ReadiedWell
  <2>4. Waiting' = call.minor
    BY <1>5 DEF Waiting
  <2>5. g.fn = "primitive" => PrimitivePhase(g, frames)'
    <3>1. SUFFICES ASSUME g.fn = "primitive" PROVE PrimitivePhase(g, frames)'
      OBVIOUS
    <3>2. f.fn = "primitive" /\ f.i < 2 /\ PrimitivePhase(f, frames)
      BY <1>3, <3>1, ReadiedWell DEF Alike
    <3>3. g.i < 2 /\ (g.i = 0 => State \in KeyRead) /\ (g.i = 1 => State \in Then)
      BY <1>3, <3>2 DEF PrimitivePhase
    <3>4. QED
      BY <1>3, <1>5, <1>6, <2>2, <3>3 DEF PrimitivePhase
  <2>6. QED
    BY <1>1, <1>3, <1>5, <1>6, <2>1, <2>2, <2>3, <2>4, <2>5 DEF AtTop
<1>14. AfterCall' /\ Untouched'
  BY <1>5 DEF AfterCall, Untouched
<1>15. Calling'
  <2>1. f' = g
    BY <1>1, <1>4 DEF f, Last
  <2>2. QED
    BY <1>1, <1>3, <1>4, <1>5, <2>1 DEF Calling, Alike
<1>16. QED
  BY <1>1, <1>11, <1>12, <1>13, <1>14, <1>15 DEF ReachInv, OnlyKeysLost

\* A turn of the loop in yajp_parser_parse moves values on, and loses none.
LEMMA ReachStep ==
    ASSUME IInv, ReachInv, ParserStep
    PROVE  ReachInv'
<1>1. /\ PP!Step /\ PP!IInv /\ phase = "running"
      /\ UNCHANGED <<frames, ret, phase, ub>>
  BY SameSteps DEF ParserStep, IInv
<1>2. call.busy /\ Calling
  BY <1>1 DEF PP!Step, PP!Reduce, PP!Shift, PP!Overflow, PP!Accept, PP!SyntaxError, ReachInv
<1>3. /\ frames # <<>> /\ ret = 0 /\ f.pc = "react" /\ call.minor.frame = f.id
      /\ f = frames[Len(frames)]
  BY <1>2 DEF Calling, f, Last
<1>same. f' = f
  BY <1>1 DEF f
<1>4. \A n, ref : Within(frames, n, ref)' <=> Within(frames, n, ref)
  BY <1>1 DEF Within
<1>5. Named(frames)' /\ RowsKept(frames)'
  BY <1>1 DEF ReachInv, Named, RowsKept, Within
<1>6. Untouched' /\ OnlyKeysLost'
  BY <1>1 DEF ReachInv, Untouched, OnlyKeysLost, f
<1>7. /\ f.picked = call.major
      /\ f.fn = "primitive" => PrimitivePhase(f, frames)
      /\ State \in PP!ValueStates => Within(frames, Len(frames), prev)
      /\ entity.type = "VALUE" => Within(frames, Len(frames), entity.token)
  BY <1>2, <1>3 DEF ReachInv, AtTop, Waiting
<1>8. /\ entity.type = "KEY" => State = 6
      /\ entity.type = "VALUE" => State \in {2, 55, 66, 73}
      /\ entity.type = "PAIR" => State \in {5, 65}
  BY <1>1, <1>2, Zenon DEF PP!IInv, PP!ReportOrder, State
<1>9. entity.type \in {"NONE", "KEY", "VALUE", "PAIR"} /\ call.major \in 0..10
  BY <1>1 DEF PP!IInv, PP!TypeOK, PP!EntityTypes, PP!Terminals
<1> USE DEF PP!ValueStates
<1>10. CASE PP!Reduce
  <2>1. /\ State' \notin PP!ValueStates
        /\ State \notin {0, 1, 3, 4, 6}
        /\ State = 67 => State' = 1 /\ entity' = entity
        /\ entity'.type = "NONE" => entity' = entity
        /\ State \in PP!ValueStates => entity'.type = "VALUE"
        /\ entity'.type = "VALUE" => \/ entity' = entity
                                     \/ State \in PP!ValueStates /\ entity'.token = prev
        /\ entity'.type = "PAIR" => \/ entity' = entity
                                    \/ State = 55 /\ entity'.token = entity.token
    BY <1>1, <1>10, SameAssumption, PP!OneReduction, Zenon DEF State
  <2>2. UNCHANGED <<call, prev>>
    BY <1>10 DEF PP!Reduce
  <2>3. AfterCall' /\ Calling'
    BY <1>1, <1>2, <2>2 DEF AfterCall, Calling, f
  <2>4. entity'.type = "VALUE" => Within(frames, Len(frames), entity'.token)
    BY <1>7, <2>1
  <2>5. ASSUME f.fn = "primitive"
        PROVE  /\ f.i < 2 /\ f.i # 0
               /\ f.i = 1 => /\ entity'.type = "NONE" => State' \in Then \cup {1}
                             /\ entity'.type = "PAIR" => Within(frames, Len(frames), entity'.token)
    <3>1. PrimitivePhase(f, frames)
      BY <1>7, <2>5
    <3>2. f.i < 2 /\ f.i # 0
      BY <1>2, <1>3, <2>1, <3>1 DEF PrimitivePhase, KeyRead
    <3>3. SUFFICES ASSUME f.i = 1
                   PROVE  /\ entity'.type = "NONE" => State' \in Then \cup {1}
                          /\ entity'.type = "PAIR" => Within(frames, Len(frames), entity'.token)
      BY <3>2
    <3>4. /\ entity.type = "NONE" => State \in Then \cup {1}
          /\ entity.type = "PAIR" => Within(frames, Len(frames), entity.token)
      BY <1>2, <1>3, <3>1, <3>3 DEF PrimitivePhase
    <3>5. entity'.type = "NONE" => State' \in Then \cup {1}
      <4>1. SUFFICES ASSUME entity'.type = "NONE" PROVE State' = 1
        OBVIOUS
      <4>2. State = 67
        BY <2>1, <3>4, <4>1 DEF Then
      <4>3. QED
        BY <2>1, <4>2
    <3>6. entity'.type = "PAIR" => Within(frames, Len(frames), entity'.token)
      <4>1. CASE entity' = entity
        BY <3>4, <4>1
      <4>2. CASE State = 55 /\ entity'.token = entity.token
        <5>1. entity.type = "VALUE"
          BY <1>8, <1>9, <3>4, <4>2 DEF Then
        <5>2. QED
          BY <1>7, <4>2, <5>1
      <4>3. QED
        BY <2>1, <4>1, <4>2
    <3>7. QED
      BY <3>5, <3>6
  <2>6. AtTop(frames, ret)'
    <3>1. frames' = frames /\ Len(frames') = Len(frames)
      BY <1>1
    <3>2. f.fn = "primitive" => PrimitivePhase(f, frames)'
      BY <1>2, <1>3, <1>same, <2>2, <2>5, <3>1 DEF PrimitivePhase, Within
    <3>3. frames'[Len(frames')] = f
      BY <1>3, <3>1
    <3>4. QED
      BY <1>1, <1>3, <1>same, <1>7, <2>1, <2>2, <2>4, <3>1, <3>2, <3>3 DEF AtTop, Within, Waits
  <2>7. QED
    BY <1>5, <1>6, <2>3, <2>6 DEF ReachInv
<1>11. CASE ~PP!Reduce
  <2>1. /\ ~call'.busy /\ call'.major = call.major /\ call'.minor = call.minor
        /\ UNCHANGED <<prev, entity>>
        /\ \/ State' = 0
           \/ State' = State /\ State \in 0..7
           \/ PP!Edge(State, call.major, State')
    BY <1>1, <1>11, SameAssumption, PP!CallEnds, Zenon DEF State
  <2>2. State' \in PP!ValueStates => call.major \in {4, 8, 9, 10}
    BY <1>9, <2>1 DEF PP!Edge
  <2>3. entity.type = "KEY" => State' \in KeyRead
    BY <1>8, <1>9, <2>1 DEF PP!Edge, KeyRead
  <2>4. entity.type = "PAIR" => State' \notin PP!ValueStates
    BY <1>8, <1>9, <2>1 DEF PP!Edge
  <2>5. AfterCall' /\ Calling'
    BY <2>1, <2>2, <2>3, <2>4 DEF AfterCall, Calling
  <2>6. Within(frames, Len(frames), call.minor)
    <3>1. Len(frames) \in 1..Len(frames)
      BY <1>3, AtWork
    <3>2. QED
      BY <1>3, <3>1 DEF Within
  <2>7. ASSUME f.fn = "primitive"
        PROVE  /\ f.i < 2
               /\ f.i = 0 => entity.type = "NONE" /\ State' \in Then
               /\ f.i = 1 /\ entity.type = "PAIR" => Within(frames, Len(frames), entity.token)
    <3>1. PrimitivePhase(f, frames)
      BY <1>7, <2>7
    <3>2. f.i = 0 => entity.type = "NONE" /\ State \in KeyRead
      BY <1>2, <1>3, <3>1 DEF PrimitivePhase
    <3>3. State \in KeyRead => State' \in Then
      BY <1>9, <2>1 DEF PP!Edge, KeyRead, Then
    <3>4. QED
      BY <1>3, <3>1, <3>2, <3>3 DEF PrimitivePhase
  <2>8. AtTop(frames, ret)'
    <3>1. frames' = frames /\ Len(frames') = Len(frames)
      BY <1>1
    <3>2. f.fn = "primitive" => PrimitivePhase(f, frames)'
      BY <1>3, <1>same, <2>1, <2>7, <3>1 DEF PrimitivePhase, Within
    <3>3. Waiting' = call.minor
      BY <2>1 DEF Waiting
    <3>4. frames'[Len(frames')] = f
      BY <1>3, <3>1
    <3>5. QED
      BY <1>1, <1>3, <1>same, <1>7, <2>1, <2>6, <3>1, <3>2, <3>3, <3>4 DEF AtTop, Within, Waits
  <2>9. QED
    BY <1>5, <1>6, <2>5, <2>8 DEF ReachInv
<1>12. QED
  BY <1>10, <1>11
-----------------------------------------------------------------------------
(* The steps, once more.                                                   *)

\* A step between two calls.
LEMMA ReactsRests ==
    ASSUME IInv, ReachInv, NEW fns, NEW pcs, Reacts(fns, pcs)
    PROVE  /\ Resting /\ Ready /\ ub = "none"
           /\ f.fn \in fns /\ f.pc \in pcs /\ IsFrame(f) /\ DOMAIN f = FrameFields /\ Alike(f, f)
           /\ f.pc \notin Waits => ret = 0
           /\ ret \in {0, -1}
<1>1. Resting /\ Ready
  BY DEF Reacts, In, Resting, Ready
<1>2. /\ ub = "none" /\ f.fn \in fns /\ f.pc \in pcs /\ IsFrame(f)
      /\ f.pc \notin Waits => ret = 0
      /\ ret \in {0, -1}
  BY Working
<1>3. QED
  BY <1>1, <1>2 DEF IsFrame, Alike

\* A step that reads.
LEMMA ReadsReady ==
    ASSUME IInv, ReachInv, NEW fns, Reads(fns)
    PROVE  /\ Ready /\ ub = "none" /\ phase' = "running" /\ ret = 0
           /\ f.fn \in fns /\ f.pc = "read"
           /\ UNCHANGED parserVars => Resting
<1>1. Ready /\ phase' = "running"
  BY DEF Reads, In, Ready
<1>2. ub = "none" /\ ret = 0 /\ f.fn \in fns /\ f.pc = "read"
  BY Reading
<1>3. QED
  BY <1>1, <1>2 DEF Resting

\* A function that has just been called.
LEMMA NewFunction ==
    ASSUME NEW fn, NEW ctx, NEW rule, NEW name, NEW address
    PROVE  LET c == Frame(fn, ctx, rule, name, address)
           IN  /\ c.fn = fn /\ c.pc = "read" /\ c.name = name /\ c.i = 0
               /\ LET e == [c EXCEPT !.pc = "enter"]
                  IN  e.fn = fn /\ e.pc = "enter" /\ e.name = name
  BY DEF Frame

\* A failure needs nothing.
LEMMA ReachFailure ==
    ASSUME Resting, Return(-1), ub' # "dangling"
    PROVE  ReachInv'
  BY ReachReturn

\* A turn changes the slot and the count.
LEMMA TurnAlike ==
    ASSUME NEW g, DOMAIN g = FrameFields
    PROVE  Alike(Turn(g), g) /\ Turn(g).pc = "read"
  BY DEF Turn, Alike, FrameFields

\* yajp_deserialize_value.
LEMMA ReachDeserialize ==
    ASSUME Resting, ret = 0, f.fn = "parse", f.pc = "react", entity.type = "KEY", Live(entity.token),
           NEW key, Deserialize(key), ub' # "dangling"
    PROVE  ReachInv'
<1> DEFINE rule == Contexts[f.ctx][key]
           address == Member(f.address, rule.field)
           Callee(fn) == Frame(fn, rule.ctx, rule, entity.token, address)
           skip == Frame("skip", f.ctx, NoRule, entity.token, f.address)
           enter == [Callee("object_value") EXCEPT !.pc = "enter"]
<1>1. State \in KeyRead /\ DOMAIN f = FrameFields /\ Alike(f, f) /\ "called" \in Waits
  BY Readied DEF Resting, IsFrame, Alike, Waits
<1>2. ASSUME NEW c, c.pc \in {"read", "enter"}, c.name = entity.token, c.fn = "primitive" => c.i = 0,
             Call(f, "called", c)
      PROVE  ReachInv'
  BY <1>1, <1>2, ReachCall
<1>3. \/ Call(f, "called", skip)
      \/ Call(f, "called", Callee("primitive"))
      \/ Call(f, "called", Callee("array_value"))
      \/ Call(f, "called", enter)
      \/ Return(-1)
  BY DEF Deserialize
<1>4. CASE Call(f, "called", skip)
  <2>1. skip.fn = "skip" /\ skip.pc = "read" /\ skip.name = entity.token
    BY NewFunction
  <2> HIDE DEF skip
  <2>2. QED
    BY <1>2, <1>4, <2>1
<1>5. \A fn : /\ Callee(fn).fn = fn /\ Callee(fn).pc = "read" /\ Callee(fn).i = 0
              /\ Callee(fn).name = entity.token
  BY NewFunction
<1>6. enter.fn = "object_value" /\ enter.pc = "enter" /\ enter.name = entity.token
  BY NewFunction
<1> HIDE DEF enter, Callee
<1>7. CASE Call(f, "called", Callee("primitive"))
  BY <1>2, <1>5, <1>7
<1>8. CASE Call(f, "called", Callee("array_value"))
  BY <1>2, <1>5, <1>8
<1>9. CASE Call(f, "called", enter)
  BY <1>2, <1>6, <1>9
<1>10. CASE Return(-1)
  BY <1>10, ReachFailure
<1>11. QED
  BY <1>3, <1>4, <1>7, <1>8, <1>9, <1>10

\* yajp_parse takes another turn, or returns at the end of its object.
LEMMA ReachParseTurn ==
    ASSUME Resting, ret = 0, f.fn = "parse", f.pc \in {"react", "called"}, ParseTurn, ub' # "dangling"
    PROVE  ReachInv'
<1>1. DOMAIN f = FrameFields
  BY Readied DEF Resting, IsFrame
<1>2. CASE f.picked \in {P!TOK_EOF, P!TOK_OEND}
  <2>1. State \notin PP!ValueStates
    <3>1. CASE f.pc = "react"
      <4>1. call.major \in {0, 2}
        BY <1>2, <3>1, ReadiedWell DEF Resting, P!TOK_EOF, P!TOK_OEND
      <4>2. QED
        BY <4>1, Readied DEF Resting
    <3>2. CASE f.pc = "called"
      BY <3>2, ReadiedWell DEF Resting, Waits
    <3>3. QED
      BY <3>1, <3>2
  <2>2. Return(0)
    BY <1>2 DEF ParseTurn
  <2>3. QED
    BY <2>1, <2>2, ReachReturn
<1>3. CASE f.picked \notin {P!TOK_EOF, P!TOK_OEND}
  <2>1. Set(Turn(f))
    BY <1>3 DEF ParseTurn
  <2>2. Alike(Turn(f), f) /\ Turn(f).pc = "read" /\ Turn(f).fn # "primitive"
    BY <1>1, TurnAlike DEF Alike
  <2>3. QED
    BY <2>1, <2>2, ReachSet
<1>4. QED
  BY <1>2, <1>3

\* yajp_parse after the parser was called: the key alone may be out of reach.
LEMMA ParseReactReach ==
    ASSUME IInv, ReachInv, ParseReact
    PROVE  ReachInv'
<1>1. Reacts({"parse"}, {"react"})
  BY DEF ParseReact
<1>2. Resting /\ ub = "none" /\ f.fn = "parse" /\ f.pc = "react" /\ ret = 0
  BY <1>1, ReactsRests DEF Waits
<1>3. \/ ParseTurn /\ UNCHANGED ub
      \/ Undefined("dangling")
      \/ /\ entity.type = "KEY" /\ Live(entity.token)
         /\ Deserialize(Deref(entity.token).value) /\ UNCHANGED ub
  BY DEF ParseReact
<1>4. CASE ParseTurn /\ UNCHANGED ub
  BY <1>2, <1>4, ReachParseTurn
<1>5. CASE Undefined("dangling")
  BY <1>2, <1>5, ReachStop
<1>6. CASE /\ entity.type = "KEY" /\ Live(entity.token)
           /\ Deserialize(Deref(entity.token).value) /\ UNCHANGED ub
  BY <1>2, <1>6, ReachDeserialize
<1>7. QED
  BY <1>3, <1>4, <1>5, <1>6

\* yajp_parse after a value was deserialized.
LEMMA ParseCalledReach ==
    ASSUME IInv, ReachInv, ParseCalled
    PROVE  ReachInv'
<1>1. Reacts({"parse"}, {"called"}) /\ UNCHANGED ub
  BY DEF ParseCalled
<1>2. Resting /\ ub = "none" /\ f.fn = "parse" /\ f.pc = "called"
  BY <1>1, ReactsRests
<1>3. IF ret # 0 THEN Return(-1) ELSE ParseTurn
  BY DEF ParseCalled
<1>4. QED
  BY <1>1, <1>2, <1>3, ReachFailure, ReachParseTurn

\* yajp_parse_primitive_value finds its value in reach.
LEMMA PrimitiveReactReach ==
    ASSUME IInv, ReachInv, PrimitiveReact
    PROVE  ReachInv'
<1>0. PICK g : g = [f EXCEPT !.i = @ + 1, !.pc = "read", !.recognized = entity]
  OBVIOUS
<1>1. Reacts({"primitive"}, {"react"})
  BY DEF PrimitiveReact
<1>2. /\ Resting /\ Ready /\ ub = "none" /\ f.fn = "primitive" /\ f.pc = "react" /\ ret = 0
      /\ IsFrame(f) /\ DOMAIN f = FrameFields
  BY <1>1, ReactsRests DEF Waits
<1>3. f.i \in Nat /\ PrimitivePhase(f, frames) /\ ~call.busy
  BY <1>2, ReadiedWell DEF IsFrame, Ready
<1>4. \/ Set(g) /\ UNCHANGED ub
      \/ entity.type = "PAIR" /\ PrimitiveSet(Deref(entity.token).value) /\ UNCHANGED ub
      \/ entity.type = "PAIR" /\ ~Live(entity.token)
  BY <1>0 DEF PrimitiveReact
<1>5. CASE Set(g) /\ UNCHANGED ub
  <2>1. Alike(g, f) /\ g.pc = "read" /\ g.i = f.i + 1
    BY <1>0, <1>2 DEF Alike, FrameFields
  <2>2. f.i = 0 => State \in Then
    BY <1>2, <1>3 DEF PrimitivePhase
  <2>3. g.i \in Nat \ {0} /\ (g.i = 1 => State \in Then)
    BY <1>3, <2>1, <2>2
  <2>4. QED
    BY <1>2, <1>5, <2>1, <2>3, ReachSet
<1>6. CASE entity.type = "PAIR" /\ PrimitiveSet(Deref(entity.token).value) /\ UNCHANGED ub
  <2>1. Return(0) \/ Return(-1)
    BY <1>6 DEF PrimitiveSet
  <2>2. State \notin PP!ValueStates
    BY <1>2, <1>6, Readied
  <2>3. QED
    BY <1>2, <1>6, <2>1, <2>2, ReachReturn
<1>7. ~(entity.type = "PAIR" /\ ~Live(entity.token))
  <2>1. SUFFICES ASSUME entity.type = "PAIR" PROVE Live(entity.token)
    OBVIOUS
  <2>2. f.i < 2 /\ f.i # 0
    BY <1>2, <1>3, <2>1 DEF PrimitivePhase
  <2>3. f.i = 1
    BY <1>3, <2>2
  <2>4. Within(frames, Len(frames), entity.token)
    BY <1>2, <1>3, <2>1, <2>3 DEF PrimitivePhase
  <2>5. QED
    BY <2>4 DEF Within, Live
<1>8. QED
  BY <1>4, <1>5, <1>6, <1>7

\* yajp_skip_json_object ends with a token that is no value.
LEMMA SkipReactReach ==
    ASSUME IInv, ReachInv, SkipReact
    PROVE  ReachInv'
<1>1. Reacts({"skip"}, {"react"}) /\ UNCHANGED ub
  BY DEF SkipReact
<1>2. /\ Resting /\ Ready /\ ub = "none" /\ f.fn = "skip" /\ f.pc = "react" /\ ret = 0
      /\ IsFrame(f) /\ DOMAIN f = FrameFields
  BY <1>1, ReactsRests DEF Waits
<1>3. f.picked = call.major /\ f.brackets \in Nat
  BY <1>2, ReadiedWell DEF IsFrame
<1>4. \/ Return(-1)
      \/ Return(0) /\ f.picked \in {2, 3, 7}
      \/ \E b : Skipped([f EXCEPT !.brackets = b])
      \/ Skipped(f)
  <2>1. f.brackets > 0 /\ Brackets = 0 => f.picked \in Closes
    BY <1>3 DEF Brackets
  <2>2. Closes \cup {P!TOK_COMMA, P!TOK_OEND} \subseteq {2, 3, 7}
    BY DEF Closes, P!TOK_OEND, P!TOK_AEND, P!TOK_COMMA
  <2>3. QED
    BY <2>1, <2>2 DEF SkipReact
<1>5. ASSUME NEW h, Skipped(h), DOMAIN h = FrameFields, Alike(h, f)
      PROVE  ReachInv'
  <2>0. PICK g : g = [h EXCEPT !.i = 1, !.pc = "read", !.tokens[0] = ZeroToken]
    OBVIOUS
  <2>1. Set(g)
    BY <1>5, <2>0 DEF Skipped
  <2>2. Alike(g, f) /\ g.pc = "read" /\ g.fn # "primitive"
    BY <1>2, <1>5, <2>0 DEF Alike, FrameFields
  <2>3. QED
    BY <1>1, <1>2, <2>1, <2>2, ReachSet
<1>6. CASE Return(-1)
  BY <1>1, <1>2, <1>6, ReachFailure
<1>7. CASE Return(0) /\ f.picked \in {2, 3, 7}
  <2>1. State \notin PP!ValueStates
    BY <1>2, <1>3, <1>7, Readied
  <2>2. QED
    BY <1>1, <1>2, <1>7, <2>1, ReachReturn
<1>8. CASE Skipped(f)
  BY <1>2, <1>5, <1>8 DEF Alike
<1>9. ASSUME NEW b, Skipped([f EXCEPT !.brackets = b]) PROVE ReachInv'
  <2>1. PICK h : h = [f EXCEPT !.brackets = b]
    OBVIOUS
  <2>2. DOMAIN h = FrameFields /\ Alike(h, f)
    BY <1>2, <2>1 DEF FrameFields, Alike
  <2>3. QED
    BY <1>5, <1>9, <2>1, <2>2
<1>10. QED
  BY <1>4, <1>6, <1>7, <1>8, <1>9

\* The function that fills an object or an array is told the same name.
LEMMA ReachPrepare ==
    ASSUME Resting, ret = 0, f.fn \in {"object_value", "array_value"},
           NEW fn \in {"parse", "array", "objects"}, Prepare(fn), ub' # "dangling"
    PROVE  ReachInv'
<1>1. DOMAIN f = FrameFields /\ Live(f.name) /\ "called" \in Waits
  BY Readied DEF Resting, IsFrame, Waits
<1>2. ASSUME NEW g, DOMAIN g = FrameFields, Alike(g, f), NEW c, c.fn = fn, c.pc = "read", c.name = f.name,
             Call(g, "called", c)
      PROVE  ReachInv'
  <2>1. g.fn # "primitive"
    BY <1>2 DEF Alike
  <2>2. QED
    BY <1>1, <1>2, <2>1, ReachCall
<1>3. PICK h : h = [f EXCEPT !.tmp = mallocs + 1]
  OBVIOUS
<1>4. DOMAIN h = FrameFields /\ Alike(h, f) /\ Alike(f, f)
  BY <1>1, <1>3 DEF FrameFields, Alike
<1>5. \/ Return(-1)
      \/ \E address : \E g \in {f, h} : Call(g, "called", Frame(fn, f.ctx, f.rule, f.name, address))
  BY <1>3, Zenon DEF Prepare
<1>6. ASSUME NEW address, NEW g \in {f, h}, Call(g, "called", Frame(fn, f.ctx, f.rule, f.name, address))
      PROVE  ReachInv'
  <2>1. PICK c : c = Frame(fn, f.ctx, f.rule, f.name, address)
    OBVIOUS
  <2>2. c.fn = fn /\ c.pc = "read" /\ c.name = f.name
    BY <2>1, NewFunction
  <2>3. QED
    BY <1>1, <1>2, <1>4, <1>6, <2>1, <2>2
<1>7. QED
  BY <1>5, <1>6, ReachFailure

\* yajp_parse_object_value.
LEMMA ObjectEnterReach ==
    ASSUME IInv, ReachInv, ObjectEnter
    PROVE  ReachInv'
<1>1. Reacts({"object_value"}, {"enter"}) /\ Prepare("parse") /\ UNCHANGED ub
  BY DEF ObjectEnter
<1>2. Resting /\ ub = "none" /\ f.fn = "object_value" /\ f.pc = "enter" /\ ret = 0
  BY <1>1, ReactsRests DEF Waits
<1>3. QED
  BY <1>1, <1>2, ReachPrepare

\* yajp_parse_array_value.
LEMMA ArrayEnterReach ==
    ASSUME IInv, ReachInv, ArrayEnter
    PROVE  ReachInv'
<1>1. /\ Reacts({"array_value"}, {"react"}) /\ UNCHANGED ub
      /\ Prepare("objects") \/ Prepare("array")
  BY DEF ArrayEnter
<1>2. Resting /\ ub = "none" /\ f.fn = "array_value" /\ f.pc = "react" /\ ret = 0
  BY <1>1, ReactsRests DEF Waits
<1>3. QED
  BY <1>1, <1>2, ReachPrepare

\* Both hand on the result of the function that they waited for.
LEMMA AttachReach ==
    ASSUME IInv, ReachInv, ObjectCalled \/ ArrayCalled
    PROVE  ReachInv'
<1>1. PICK fn : Reacts({fn}, {"called"}) /\ Attach
  BY DEF ObjectCalled, ArrayCalled
<1>2. Resting /\ Ready /\ ub = "none" /\ f.pc = "called"
  BY <1>1, ReactsRests
<1>3. Return(ret) /\ UNCHANGED ub
  BY <1>1 DEF Attach
<1>4. ret = 0 => State \notin PP!ValueStates
  BY <1>2, ReadiedWell DEF Waits
<1>5. QED
  BY <1>2, <1>3, <1>4, ReachReturn

\* A level of an array goes round, or is done, with no value left behind.
LEMMA ReachLevelTurn ==
    ASSUME Resting, ret = 0, f.fn \in {"array", "objects"}, f.pc \in {"react", "element", "object"},
           NEW g, DOMAIN g = FrameFields, Alike(g, f), g.picked = f.picked,
           f.pc = "react" => g.recognized = entity,
           LevelTurn(g), ub' # "dangling"
    PROVE  ReachInv'
<1>1. CASE g.recognized.type = "PAIR" \/ g.picked = P!TOK_AEND
  <2>1. State \notin PP!ValueStates
    <3>1. CASE f.pc = "react"
      <4>1. entity.type = "PAIR" \/ call.major = 7
        BY <1>1, <3>1, ReadiedWell DEF Resting, P!TOK_AEND
      <4>2. QED
        BY <4>1, Readied DEF Resting
    <3>2. CASE f.pc \in {"element", "object"}
      BY <3>2, ReadiedWell DEF Resting, Waits
    <3>3. QED
      BY <3>1, <3>2
  <2>2. Return(0)
    BY <1>1 DEF LevelTurn
  <2>3. QED
    BY <2>1, <2>2, ReachReturn
<1>2. CASE ~(g.recognized.type = "PAIR" \/ g.picked = P!TOK_AEND)
  <2>1. Set(Turn(g))
    BY <1>2 DEF LevelTurn
  <2>2. Alike(Turn(g), f) /\ Turn(g).pc = "read" /\ Turn(g).fn # "primitive"
    BY TurnAlike DEF Alike
  <2>3. QED
    BY <2>1, <2>2, ReachSet
<1>3. QED
  BY <1>1, <1>2

\* The frame as it is after it was told what the parser reported.
LEMMA ElementAlike ==
    ASSUME DOMAIN f = FrameFields
    PROVE  /\ DOMAIN Element = FrameFields /\ Alike(Element, f) /\ Element.picked = f.picked
           /\ f.pc = "react" => Element.recognized = entity
           /\ f.pc # "react" => Element = f
<1>1. CASE f.pc = "react"
  <2>1. Element = [f EXCEPT !.recognized = entity]
    BY <1>1 DEF Element
  <2>2. QED
    BY <1>1, <2>1 DEF FrameFields, Alike
<1>2. CASE f.pc # "react"
  BY <1>2 DEF Element, Alike
<1>3. QED
  BY <1>1, <1>2

\* A row is told the name of the array, and what was reported before it is kept.
LEMMA RowEnterReach ==
    ASSUME IInv, ReachInv, RowEnter
    PROVE  ReachInv'
<1>1. Reacts({"array", "objects"}, {"react"}) /\ UNCHANGED ub
  BY DEF RowEnter
<1>2. /\ Resting /\ Ready /\ ub = "none" /\ f.fn \in {"array", "objects"} /\ f.pc = "react" /\ ret = 0
      /\ DOMAIN f = FrameFields
  BY <1>1, ReactsRests DEF Waits
<1>3. PICK g : g = [f EXCEPT !.recognized = entity]
  OBVIOUS
<1>4. PICK c : c = Frame(f.fn, f.ctx, f.rule, f.name,
                            Append(Block(Grown(RowsPointer)), At("row", f.shift)))
  OBVIOUS
<1>5. Return(-1) \/ Call(g, "row", c)
  BY <1>3, <1>4, Zenon DEF RowEnter
<1>6. CASE Call(g, "row", c)
  <2>1. DOMAIN g = FrameFields /\ Alike(g, f) /\ g.recognized = entity
    BY <1>2, <1>3 DEF FrameFields, Alike
  <2>2. c.fn = f.fn /\ c.pc = "read" /\ c.name = f.name
    BY <1>4, NewFunction
  <2>3. Live(f.name) /\ (entity.type = "VALUE" => Live(entity.token))
    BY <1>2, Readied, ReadiedWell
  <2>4. "row" \in Waits /\ g.fn # "primitive" /\ c.fn # "primitive"
    BY <1>2, <2>1, <2>2 DEF Waits, Alike
  <2>5. QED
    BY <1>1, <1>2, <1>6, <2>1, <2>2, <2>3, <2>4, ReachCall
<1>7. QED
  BY <1>1, <1>2, <1>5, <1>6, ReachFailure

\* It is still there when the row has been read.
LEMMA RowCalledReach ==
    ASSUME IInv, ReachInv, RowCalled
    PROVE  ReachInv'
<1>1. Reacts({"array", "objects"}, {"row"}) /\ UNCHANGED ub
  BY DEF RowCalled
<1>2. /\ Resting /\ Ready /\ ub = "none" /\ f.fn \in {"array", "objects"} /\ f.pc = "row" /\ ret \in {0, -1}
      /\ DOMAIN f = FrameFields
  BY <1>1, ReactsRests
<1>3. PICK g : g = [f EXCEPT !.shift = @ + FieldSize, !.pc = "element"]
  OBVIOUS
<1>4. IF ret # 0 THEN Return(ret) ELSE Set(g)
  BY <1>3 DEF RowCalled
<1>5. CASE ret = 0
  <2>1. Alike(g, f) /\ g.pc = "element" /\ g.recognized = f.recognized /\ g.fn # "primitive"
    BY <1>2, <1>3 DEF FrameFields, Alike
  <2>2. State \notin PP!ValueStates /\ (f.recognized.type = "VALUE" => Live(f.recognized.token))
    BY <1>2, <1>5, Readied, ReadiedWell DEF Waits
  <2>3. QED
    BY <1>1, <1>2, <1>4, <1>5, <2>1, <2>2, ReachSet
<1>6. QED
  BY <1>1, <1>2, <1>4, <1>5, ReachFailure

\* What is known where a level takes an element.
LEMMA ElementRests ==
    ASSUME IInv, ReachInv, NEW fns, ElementPhase(fns)
    PROVE  /\ Resting /\ Ready /\ ub = "none" /\ ret = 0
           /\ f.fn \in fns /\ f.pc \in {"react", "element"} /\ DOMAIN f = FrameFields
<1>1. Reacts(fns, {"react", "element"})
  BY DEF ElementPhase
<1>2. QED
  BY <1>1, ReactsRests DEF Waits

\* A token that completes no element.
LEMMA NoElementReach ==
    ASSUME IInv, ReachInv, NoElement
    PROVE  ReachInv'
<1>1. ElementPhase({"array", "objects"}) /\ LevelTurn(Element) /\ UNCHANGED ub
  BY DEF NoElement
<1>2. /\ Resting /\ ub = "none" /\ ret = 0 /\ f.fn \in {"array", "objects"} /\ f.pc \in {"react", "element"}
      /\ DOMAIN f = FrameFields
  BY <1>1, ElementRests
<1>3. PICK g : g = Element
  OBVIOUS
<1>4. DOMAIN g = FrameFields /\ Alike(g, f) /\ g.picked = f.picked /\ (f.pc = "react" => g.recognized = entity)
  BY <1>2, <1>3, ElementAlike
<1>5. QED
  BY <1>1, <1>2, <1>3, <1>4, ReachLevelTurn

\* An element that is a primitive is in reach, though a row was read before it.
LEMMA ElementReactReach ==
    ASSUME IInv, ReachInv, ElementReact
    PROVE  ReachInv'
<1>1. ElementPhase({"array"}) /\ Element.recognized.type = "VALUE"
  BY DEF ElementReact
<1>2. /\ Resting /\ Ready /\ ub = "none" /\ ret = 0 /\ f.fn = "array" /\ f.pc \in {"react", "element"}
      /\ DOMAIN f = FrameFields
  BY <1>1, ElementRests
<1>3. /\ DOMAIN Element = FrameFields /\ Alike(Element, f) /\ Element.picked = f.picked
      /\ f.pc = "react" => Element.recognized = entity
      /\ f.pc # "react" => Element = f
  BY <1>2, ElementAlike
<1>4. Live(Element.recognized.token)
  BY <1>1, <1>2, <1>3, Readied, ReadiedWell
<1>5. ElementSet(Deref(Element.recognized.token).value) /\ UNCHANGED ub
  BY <1>4 DEF ElementReact
<1>6. PICK g : g = [Element EXCEPT !.shift = @ + ElemSize]
  OBVIOUS
<1>7. Return(-1) \/ LevelTurn(g)
  BY <1>5, <1>6 DEF ElementSet
<1>8. DOMAIN g = FrameFields /\ Alike(g, f) /\ g.picked = f.picked /\ (f.pc = "react" => g.recognized = entity)
  BY <1>3, <1>6 DEF FrameFields, Alike
<1>9. QED
  BY <1>2, <1>5, <1>7, <1>8, ReachFailure, ReachLevelTurn

\* An element that is an object is told the name of the array.
LEMMA ObjectElementReach ==
    ASSUME IInv, ReachInv, ObjectElement
    PROVE  ReachInv'
<1>1. ElementPhase({"objects"}) /\ UNCHANGED ub
  BY DEF ObjectElement
<1>2. /\ Resting /\ Ready /\ ub = "none" /\ ret = 0 /\ f.fn = "objects" /\ f.pc \in {"react", "element"}
      /\ DOMAIN f = FrameFields
  BY <1>1, ElementRests
<1>3. PICK c : c = Frame("parse", f.ctx, f.rule, f.name, ElemPlace)
  OBVIOUS
<1>4. PICK g : g = Element
  OBVIOUS
<1>5. Return(-1) \/ Call(g, "object", c)
  BY <1>3, <1>4 DEF ObjectElement
<1>6. DOMAIN g = FrameFields /\ Alike(g, f)
  BY <1>2, <1>4, ElementAlike
<1>7. c.fn = "parse" /\ c.pc = "read" /\ c.name = f.name
  BY <1>3, NewFunction
<1>8. Live(f.name) /\ "object" \in Waits /\ g.fn # "primitive"
  BY <1>2, <1>6, Readied DEF Waits, Alike
<1>9. CASE Call(g, "object", c)
  BY <1>1, <1>2, <1>6, <1>7, <1>8, <1>9, ReachCall
<1>10. QED
  BY <1>1, <1>2, <1>5, <1>9, ReachFailure

\* It has been read.
LEMMA ObjectElementCalledReach ==
    ASSUME IInv, ReachInv, ObjectElementCalled
    PROVE  ReachInv'
<1>1. Reacts({"objects"}, {"object"}) /\ UNCHANGED ub
  BY DEF ObjectElementCalled
<1>2. /\ Resting /\ ub = "none" /\ f.fn = "objects" /\ f.pc = "object" /\ ret \in {0, -1}
      /\ DOMAIN f = FrameFields
  BY <1>1, ReactsRests
<1>3. PICK g : g = [f EXCEPT !.shift = @ + ElemSize]
  OBVIOUS
<1>4. IF ret # 0 THEN Return(ret) ELSE LevelTurn(g)
  BY <1>3 DEF ObjectElementCalled
<1>5. DOMAIN g = FrameFields /\ Alike(g, f) /\ g.picked = f.picked
  BY <1>2, <1>3 DEF FrameFields, Alike
<1>6. QED
  BY <1>1, <1>2, <1>4, <1>5, ReachFailure, ReachLevelTurn

\* A token read: it is in a slot of the function at work.
LEMMA ReadReach ==
    ASSUME IInv, ReachInv, ReadChecked \/ ReadUnchecked \/ ReadArrayBegin
    PROVE  ReachInv'
<1>1. PICK fns : Reads(fns)
  BY DEF ReadChecked, ReadUnchecked, ReadArrayBegin
<1>2. /\ Ready /\ ub = "none" /\ phase' = "running" /\ ret = 0 /\ f.pc = "read"
      /\ UNCHANGED parserVars => Resting
  BY <1>1, ReadsReady
<1>3. \/ \E t : Feed(t) /\ UNCHANGED ub /\ (f.fn = "primitive" => f.i < 2)
      \/ Return(-1) /\ UNCHANGED <<parserVars, ub>>
      \/ Undefined("uninitialised") /\ UNCHANGED parserVars
  <2>1. CASE ReadChecked
    <3>1. f.fn # "primitive"
      BY <2>1, ReadsReady DEF ReadChecked
    <3>2. QED
      BY <2>1, <3>1 DEF ReadChecked
  <2>2. CASE ReadUnchecked
    BY <2>2 DEF ReadUnchecked
  <2>3. CASE ReadArrayBegin
    <3>1. f.fn # "primitive"
      BY <2>3, ReadsReady DEF ReadArrayBegin
    <3>2. QED
      BY <2>3, <3>1 DEF ReadArrayBegin
  <2>4. QED
    BY <2>1, <2>2, <2>3
<1>4. ASSUME NEW t, Feed(t), UNCHANGED ub, f.fn = "primitive" => f.i < 2
      PROVE  ReachInv'
  BY <1>2, <1>4, ReachFeed
<1>5. CASE Return(-1) /\ UNCHANGED <<parserVars, ub>>
  BY <1>2, <1>5, ReachFailure
<1>6. CASE Undefined("uninitialised") /\ UNCHANGED parserVars
  BY <1>2, <1>6, ReachStop
<1>7. QED
  BY <1>3, <1>4, <1>5, <1>6

\* A token too many.
LEMMA ReadNoMoreReach ==
    ASSUME IInv, ReachInv, ReadOverrun
    PROVE  ReachInv'
<1>1. Reads({"primitive"}) /\ Undefined("overrun") /\ UNCHANGED parserVars
  BY DEF ReadOverrun
<1>2. Resting
  BY <1>1, ReadsReady
<1>3. QED
  BY <1>1, <1>2, ReachStop

\* The entry point calls yajp_parse, or refuses.
LEMMA StartReach ==
    ASSUME IInv, ReachInv, Start
    PROVE  ReachInv'
<1> DEFINE c == Frame("parse", Root, NoRule, NoReference, Caller)
<1>1. /\ ret = 0 /\ frames = <<>> /\ ub' = ub /\ UNCHANGED parserVars
      /\ ~call.busy /\ State = 0 /\ entity.type = "NONE" /\ ub = "none"
      /\ phase' \in {"running", "done"}
  BY DEF Start, IInv, NotBegun, ReachInv, Untouched
<1>2. call' = call /\ entity' = entity /\ State' = State
  BY <1>1 DEF parserVars, State, PP!Top
<1>3. AfterCall' /\ Calling' /\ Untouched' /\ OnlyKeysLost'
  BY <1>1, <1>2 DEF AfterCall, Calling, Untouched, OnlyKeysLost, KeyRead, PP!ValueStates
<1>4. (frames' = <<>> /\ ret' = -1) \/ frames' = <<c>>
  BY <1>1 DEF Start
<1>5. CASE frames' = <<>> /\ ret' = -1
  <2>1. Len(frames') = 0
    BY <1>5
  <2>2. Named(frames)' /\ RowsKept(frames)' /\ AtTop(frames, ret)'
    BY <1>5, <2>1 DEF Named, RowsKept, AtTop
  <2>3. QED
    BY <1>3, <2>2 DEF ReachInv
<1>6. CASE frames' = <<c>>
  <2>1. c.fn = "parse" /\ c.pc = "read"
    BY NewFunction
  <2> HIDE DEF c
  <2>2. Len(frames') = 1 /\ frames'[1] = c
    BY <1>6
  <2>3. Named(frames)' /\ RowsKept(frames)'
    BY <2>1, <2>2 DEF Named, RowsKept
  <2>4. AtTop(frames, ret)'
    BY <1>1, <1>2, <2>1, <2>2 DEF AtTop, Waits, PP!ValueStates
  <2>5. QED
    BY <1>3, <2>3, <2>4 DEF ReachInv
<1>7. QED
  BY <1>4, <1>5, <1>6

\* What says nothing of the phase stays when all else does.
LEMMA ReachStays ==
    ASSUME ReachInv, UNCHANGED <<yystack, call, prev, entity, frames, ret, ub>>,
           phase' # "start" \/ phase' = phase
    PROVE  ReachInv'
<1>1. State' = State /\ Waiting' = Waiting /\ f' = f
  BY DEF State, PP!Top, Waiting, f
<1>2. AfterCall' /\ Calling' /\ Untouched' /\ OnlyKeysLost'
  BY <1>1 DEF ReachInv, AfterCall, Calling, Untouched, OnlyKeysLost
<1>3. Named(frames)' /\ RowsKept(frames)'
  BY DEF ReachInv, Named, RowsKept, Within
<1>4. AtTop(frames, ret)'
  <2>1. AtTop(frames, ret)
    BY DEF ReachInv
  <2>2. QED
    BY <1>1, <2>1 DEF AtTop, PrimitivePhase, Within
<1>5. QED
  BY <1>2, <1>3, <1>4 DEF ReachInv

\* Nothing has been read before the entry point is called.
LEMMA InitReach == Init => ReachInv
<1> SUFFICES ASSUME Init PROVE ReachInv
  OBVIOUS
<1>1. /\ ~call.busy /\ entity.type = "NONE" /\ frames = <<>> /\ ub = "none" /\ Len(frames) = 0
      /\ yystack = <<P!Sentinel>>
  BY DEF Init, P!Init, P!NoEntity
<1>2. State = 0
  BY <1>1 DEF State, PP!Top, P!Sentinel
<1>3. QED
  BY <1>1, <1>2 DEF ReachInv, AfterCall, Named, RowsKept, AtTop, Calling, Untouched, OnlyKeysLost,
                    PP!ValueStates

\* Every step keeps what is said of references.
LEMMA NextReach ==
    ASSUME IInv, ReachInv, [Next]_vars
    PROVE  ReachInv'
<1>1. CASE Finish
  BY <1>1, ReachStays DEF Finish, parserVars
<1>2. CASE UNCHANGED vars
  BY <1>2, ReachStays DEF vars, parserVars
<1>3. CASE Program /\ ~Finish
  BY <1>3, StartReach, ReadReach, ReadNoMoreReach, ReachStep, ParseReactReach, ParseCalledReach,
     PrimitiveReactReach, SkipReactReach, ObjectEnterReach, AttachReach, ArrayEnterReach, RowEnterReach,
     RowCalledReach, NoElementReach, ElementReactReach, ObjectElementReach, ObjectElementCalledReach,
     Zenon DEF Program
<1>4. QED
  BY <1>1, <1>2, <1>3 DEF Next, Stopped

\* Whatever the document, and whichever calls fail: the value that a setter is given
\* and the name it is told are in tokens of functions that have not returned.  A
\* key alone may be followed too late, and by yajp_parse alone.
THEOREM ReachTheorem == Spec => []ValuesInReach
<1>1. Init => IInv /\ ReachInv
  BY InitIInv, InitReach
<1>2. IInv /\ ReachInv /\ [Next]_vars => (IInv /\ ReachInv)'
  BY NextIInv, NextReach
<1>3. IInv /\ ReachInv => ValuesInReach
  <2>1. SUFFICES ASSUME IInv, ReachInv, NEW k \in 2..Len(frames)
                 PROVE  Live(frames[k].name)
    BY DEF ValuesInReach, ReachInv, OnlyKeysLost
  <2>2. Len(frames) \in Nat
    BY <2>1, SeqLength DEF IInv, Stack
  <2>3. k \in 1..Len(frames) /\ k # 1 /\ k - 1 \in Nat /\ k - 1 <= Len(frames)
    BY <2>2
  <2>4. Within(frames, k - 1, frames[k].name)
    <3>1. Named(frames)
      BY <2>1 DEF ReachInv
    <3>2. QED
      BY <2>3, <3>1, Zenon DEF Named
  <2>5. Within(frames, Len(frames), frames[k].name)
    BY <2>2, <2>3, <2>4, WithinMore
  <2>6. QED
    BY <2>5 DEF Within, Live
<1>4. QED
  BY <1>1, <1>2, <1>3, PTL DEF Spec

FailureIsFinalStep == ret = -1 => Unwinds /\ pos' = pos /\ setterCalls' = setterCalls

\* Once a function has failed, the others return one after the other, and nothing
\* else is done.  The parser is not at work then, for it is called by functions
\* that go on.
THEOREM FailureTheorem == Spec => FailureIsFinal
<1>1. IInv /\ ReachInv /\ [Next]_vars => [FailureIsFinalStep]_vars
  <2>1. SUFFICES ASSUME IInv, ReachInv, [Next]_vars, ret = -1
                 PROVE  (Unwinds /\ pos' = pos /\ setterCalls' = setterCalls) \/ UNCHANGED vars
    BY DEF FailureIsFinalStep
  <2>2. Kept /\ pos' = pos
    BY <2>1, NextCommon DEF Common
  <2>3. ~call.busy
    BY <2>1 DEF ReachInv, Calling
  <2>4. QED
    BY <2>1, <2>2, <2>3 DEF Kept
<1>2. Init => ReachInv
  BY InitReach
<1>3. IInv /\ ReachInv /\ [Next]_vars => ReachInv'
  BY NextReach
<1>4. QED
  BY <1>1, <1>2, <1>3, Invariance, PTL DEF Spec, FailureIsFinal, FailureIsFinalStep, Unwinds

=============================================================================
