------------------------ MODULE ParserGrammarProofs -------------------------
(***************************************************************************)
(* Proof that the engine of Parser implements the grammar of JsonGrammar,  *)
(* for every stack depth, every set of references and every sequence of    *)
(* tokens: it takes the tokens that the grammar allows, refuses the others *)
(* and gives a document up for its depth alone.                            *)
(***************************************************************************)
EXTENDS ParserGrammar, ParserProofs, FiniteSetTheorems, SequenceTheorems

\* What the definitions of the tables are made of.
USE DEF At, Terminals, Symbols, YY_MAX_SHIFT, YY_MIN_SHIFTREDUCE, YY_MAX_SHIFTREDUCE,
        YY_ERROR_ACTION, YY_ACCEPT_ACTION, YY_MIN_REDUCE, YY_REDUCE_COUNT,
        YY_ACTTAB_COUNT, TOK_EOF

-----------------------------------------------------------------------------
(* The least element of a set of numbers, and induction.                   *)

\* A set of natural numbers has a least one.
LEMMA Least ==
    ASSUME NEW T, T \subseteq Nat, T # {}
    PROVE  \E m \in T : \A n \in T : m <= n
<1> DEFINE UpTo == {0..t : t \in T}
           R == StrictSubsetOrdering(Nat)
<1>1. UpTo \subseteq FiniteSubsetsOf(Nat)
  <2>1. \A t \in T : 0..t \subseteq Nat /\ IsFiniteSet(0..t)
    BY FS_Interval
  <2>2. QED
    BY <2>1 DEF FiniteSubsetsOf
<1>2. UpTo # {}
  OBVIOUS
<1>3. IsWellFoundedOn(R, FiniteSubsetsOf(Nat))
  BY FS_StrictSubsetOrderingWellFounded
<1>4. \E b \in UpTo : \A a \in UpTo : <<a, b>> \notin R
  <2> HIDE DEF UpTo, R
  <2>1. QED
    BY <1>1, <1>2, <1>3, WFMin, Zenon
<1>5. PICK m \in T : \A n \in T : <<0..n, 0..m>> \notin R
  BY <1>4
<1>6. ASSUME NEW n \in T, n < m PROVE FALSE
  <2>1. 0..n \subseteq 0..m /\ 0..n # 0..m /\ 0..n \subseteq Nat /\ 0..m \subseteq Nat
    BY <1>6
  <2>2. <<0..n, 0..m>> \in R
    BY <2>1 DEF StrictSubsetOrdering
  <2>3. QED
    BY <1>5, <2>2
<1>7. QED
  BY <1>6

\* Induction, over a set.
LEMMA FromZero ==
    ASSUME NEW S, 0 \in S, \A n \in Nat : n \in S => n + 1 \in S
    PROVE  Nat \subseteq S
<1>1. SUFFICES ASSUME Nat \ S # {} PROVE FALSE
  OBVIOUS
<1>2. PICK m \in Nat \ S : \A n \in Nat \ S : m <= n
  BY <1>1, Least
<1>3. m # 0 /\ m - 1 \in Nat /\ m - 1 \in S
  BY <1>2
<1>4. QED
  BY <1>2, <1>3
-----------------------------------------------------------------------------
(* The nest along the stack.                                               *)

\* One place of the recursion in NestOf.
Turn(stack, g, i) == IF i = 0 THEN <<>> ELSE EntryEffect(g[i - 1], stack[i].stateno)

Spells(stack, g) == g = [i \in 0..Len(stack) |-> Turn(stack, g, i)]

\* The function that NestOf defines exists.
LEMMA NestsExist ==
    ASSUME NEW stack, Len(stack) \in Nat
    PROVE  \E g : Spells(stack, g)
<1> DEFINE Good == {m \in Nat : \E g : g = [i \in 0..m |-> Turn(stack, g, i)]}
<1>1. 0 \in Good
  <2> DEFINE g == [i \in 0..0 |-> <<>>]
  <2>1. g = [i \in 0..0 |-> Turn(stack, g, i)]
    BY DEF Turn
  <2>2. QED
    BY <2>1, Zenon
<1>2. ASSUME NEW m \in Nat, m \in Good PROVE m + 1 \in Good
  <2>1. PICK g : g = [i \in 0..m |-> Turn(stack, g, i)]
    BY <1>2, Zenon
  <2> DEFINE e == [i \in 0..(m + 1) |-> IF i <= m THEN g[i] ELSE Turn(stack, g, m + 1)]
  <2>2. ASSUME NEW i \in 0..(m + 1) PROVE e[i] = Turn(stack, e, i)
    <3>1. i <= m => e[i] = Turn(stack, g, i)
      <4>1. i \in 0..m => g[i] = Turn(stack, g, i)
        BY <2>1
      <4>2. QED
        BY <4>1
    <3>2. i = m + 1 => e[i] = Turn(stack, g, i)
      OBVIOUS
    <3>3. i # 0 => e[i - 1] = g[i - 1]
      OBVIOUS
    <3>4. Turn(stack, e, i) = Turn(stack, g, i)
      <4> HIDE DEF e
      <4>1. QED
        BY <3>3 DEF Turn
    <3>5. QED
      BY <3>1, <3>2, <3>4
  <2>3. e = [i \in 0..(m + 1) |-> Turn(stack, e, i)]
    <3>1. e = [i \in 0..(m + 1) |-> e[i]]
      OBVIOUS
    <3> HIDE DEF e
    <3>2. QED
      BY <2>2, <3>1
  <2> HIDE DEF e
  <2>4. QED
    BY <2>3
<1>3. Nat \subseteq Good
  <2> HIDE DEF Good
  <2>1. QED
    BY <1>1, <1>2, FromZero
<1>4. QED
  BY <1>3 DEF Spells

\* It is what NestOf takes the last value of.
LEMMA NestIs ==
    ASSUME NEW stack, Len(stack) \in Nat
    PROVE  \E g : Spells(stack, g) /\ NestOf(stack) = g[Len(stack)]
<1> DEFINE g == CHOOSE f : f = [i \in 0..Len(stack) |->
                     IF i = 0 THEN <<>> ELSE EntryEffect(f[i - 1], stack[i].stateno)]
<1>1. NestOf(stack) = g[Len(stack)]
  BY DEF NestOf
<1>2. \E f : f = [i \in 0..Len(stack) |->
                     IF i = 0 THEN <<>> ELSE EntryEffect(f[i - 1], stack[i].stateno)]
  BY NestsExist DEF Spells, Turn
<1>3. Spells(stack, g)
  BY <1>2, Zenon DEF Spells, Turn
<1>4. QED
  BY <1>1, <1>3

\* Two stacks with a common beginning spell the same as far as it goes.
LEMMA NestsAgree ==
    ASSUME NEW s, NEW t, NEW k \in Nat, Len(s) \in Nat, Len(t) \in Nat, k <= Len(s), k <= Len(t),
           \A i \in 1..k : s[i] = t[i],
           NEW f, NEW g, Spells(s, f), Spells(t, g)
    PROVE  f[k] = g[k]
<1> DEFINE Same == {m \in Nat : m <= k => f[m] = g[m]}
<1>1. \A i \in 0..k : f[i] = Turn(s, f, i) /\ g[i] = Turn(t, g, i)
  <2>1. \A i \in 0..Len(s) : f[i] = Turn(s, f, i)
    BY DEF Spells
  <2>2. \A i \in 0..Len(t) : g[i] = Turn(t, g, i)
    BY DEF Spells
  <2>3. QED
    BY <2>1, <2>2
<1>2. 0 \in Same
  BY <1>1 DEF Turn
<1>3. ASSUME NEW m \in Nat, m \in Same PROVE m + 1 \in Same
  <2>1. SUFFICES ASSUME m + 1 <= k PROVE f[m + 1] = g[m + 1]
    OBVIOUS
  <2>2. f[m] = g[m] /\ s[m + 1] = t[m + 1] /\ m + 1 \in 0..k /\ m + 1 # 0 /\ (m + 1) - 1 = m
    BY <1>3, <2>1
  <2>3. f[m + 1] = Turn(s, f, m + 1) /\ g[m + 1] = Turn(t, g, m + 1)
    BY <1>1, <2>2
  <2>4. QED
    BY <2>2, <2>3 DEF Turn
<1>4. Nat \subseteq Same
  <2> HIDE DEF Same
  <2>1. QED
    BY <1>2, <1>3, FromZero
<1>5. QED
  BY <1>4

\* An entry on top of a stack does to its nest what EntryEffect says.
LEMMA NestGrows ==
    ASSUME NEW S, NEW s \in Seq(S), NEW e \in S
    PROVE  /\ NestOf(<<>>) = <<>>
           /\ NestOf(Append(s, e)) = EntryEffect(NestOf(s), e.stateno)
<1> DEFINE t == Append(s, e)
           k == Len(s)
<1>1. k \in Nat /\ Len(t) = k + 1 /\ t[k + 1] = e /\ \A i \in 1..k : s[i] = t[i]
  OBVIOUS
<1>2. PICK f : Spells(s, f) /\ NestOf(s) = f[k]
  BY <1>1, NestIs
<1> HIDE DEF t
<1>3. PICK g : Spells(t, g) /\ NestOf(t) = g[k + 1]
  BY <1>1, NestIs
<1>4. f[k] = g[k]
  <2> HIDE DEF k
  <2>1. QED
    BY <1>1, <1>2, <1>3, NestsAgree DEF k
<1>5. g[k + 1] = Turn(t, g, k + 1)
  <2>1. k + 1 \in 0..Len(t)
    BY <1>1
  <2>2. QED
    BY <1>3, <2>1 DEF Spells
<1>6. g[k + 1] = EntryEffect(g[k], e.stateno)
  <2>1. k + 1 # 0 /\ (k + 1) - 1 = k
    BY <1>1
  <2>2. QED
    BY <1>1, <1>5, <2>1 DEF Turn
<1>7. NestOf(<<>>) = <<>>
  <2>1. Len(<<>>) = 0
    OBVIOUS
  <2>2. PICK h : Spells(<<>>, h) /\ NestOf(<<>>) = h[0]
    BY <2>1, NestIs
  <2>3. h[0] = Turn(<<>>, h, 0)
    BY <2>1, <2>2 DEF Spells
  <2>4. QED
    BY <2>2, <2>3 DEF Turn
<1>8. QED
  BY <1>2, <1>3, <1>4, <1>6, <1>7 DEF t
-----------------------------------------------------------------------------
(* Nests, of which an entry changes the innermost container alone.         *)

\* The phase a container is in when a value has ended there.
EndedPhase(phase) ==
    CASE phase = "start"     -> "finish"
      [] phase = "obj_value" -> "obj_next"
      [] OTHER               -> "arr_next"

\* The phases, listed.
LEMMA PhasesAre ==
    Grammar!Phases = {"start", "finish", "obj_first", "obj_colon", "obj_value", "obj_next", "arr_first", "arr_next"}
  BY DEF Grammar!Phases, Grammar!Allowed

\* The last element of a sequence is replaced.
LEMMA LastReplaced ==
    ASSUME NEW S, NEW u \in Seq(S), NEW x \in S, NEW y \in S
    PROVE  [Append(u, x) EXCEPT ![Len(u) + 1] = y] = Append(u, y)
<1> DEFINE n == Append(u, x)
           o == Append(u, y)
           k == Len(u) + 1
           m == [n EXCEPT ![k] = y]
<1>1. n \in Seq(S) /\ Len(n) = k /\ k \in 1..Len(n) /\ k \in Nat /\ \A i \in 1..Len(u) : n[i] = u[i]
  OBVIOUS
<1>2. o \in Seq(S) /\ Len(o) = k /\ o[k] = y /\ \A i \in 1..Len(u) : o[i] = u[i]
  OBVIOUS
<1> HIDE DEF n
<1>3. m \in Seq(S) /\ Len(m) = Len(n) /\ \A i \in 1..Len(n) : m[i] = IF i = k THEN y ELSE n[i]
  BY <1>1, ExceptSeq
<1>4. \A i \in 1..k : m[i] = o[i]
  BY <1>1, <1>2, <1>3
<1> HIDE DEF k, m, o
<1>5. m = o
  BY <1>1, <1>2, <1>3, <1>4, SeqEqual
<1>6. QED
  BY <1>5 DEF k, m, n, o

\* What is known of a sequence from its last element.
LEMMA LastOf ==
    ASSUME NEW S, NEW u \in Seq(S), NEW x \in S
    PROVE  LET n == Append(u, x)
           IN  /\ n \in Seq(S) /\ n # <<>> /\ n[Len(n)] = x
               /\ SubSeq(n, 1, Len(n) - 1) = u
               /\ \A y \in S : [n EXCEPT ![Len(n)] = y] = Append(u, y)
<1> DEFINE n == Append(u, x)
<1>1. n \in Seq(S) /\ n # <<>> /\ Len(n) = Len(u) + 1 /\ n[Len(n)] = x /\ Len(n) - 1 = Len(u)
  OBVIOUS
<1>2. SubSeq(n, 1, Len(u)) = u
  OBVIOUS
<1>3. \A y \in S : [n EXCEPT ![Len(u) + 1] = y] = Append(u, y)
  BY LastReplaced
<1> HIDE DEF n
<1>4. QED
  BY <1>1, <1>2, <1>3 DEF n

\* A value ends in the innermost container alone.
LEMMA EndedIs ==
    ASSUME NEW u \in Seq(Grammar!Phases), NEW x \in Grammar!Phases
    PROVE  /\ EndedPhase(x) \in Grammar!Phases
           /\ Ended(Append(u, x)) = Append(u, EndedPhase(x))
           /\ Grammar!ValueEnds(Append(u, x)) = Append(u, EndedPhase(x))
<1> DEFINE n == Append(u, x)
<1>1. EndedPhase(x) \in Grammar!Phases
  BY PhasesAre DEF EndedPhase
<1>2. n[Len(n)] = x /\ [n EXCEPT ![Len(n)] = EndedPhase(x)] = Append(u, EndedPhase(x))
  BY <1>1, LastOf
<1> HIDE DEF n
<1>3. Ended(n) = [n EXCEPT ![Len(n)] = EndedPhase(x)]
  BY <1>2 DEF Ended, EndedPhase
<1>4. Grammar!ValueEnds(n) = [n EXCEPT ![Len(n)] = EndedPhase(x)]
  BY <1>2 DEF Grammar!ValueEnds, Grammar!Move, EndedPhase
<1>5. QED
  BY <1>1, <1>2, <1>3, <1>4 DEF n

\* What each entry stands for.
LEMMA EffectRow ==
    ASSUME NEW n, NEW q
    PROVE  LET rest == SubSeq(n, 1, Len(n) - 1)
           IN  /\ q = 0 => EntryEffect(n, q) = <<"start">>
               /\ q = 4 => EntryEffect(n, q) = Append(n, "obj_first")
               /\ q \in {1, 67} => EntryEffect(n, q) = Append(n, "arr_first")
               /\ q = 3 => EntryEffect(n, q) = Append(rest, "obj_value")
               /\ q \in {6, 54} => EntryEffect(n, q) = Append(rest, "obj_colon")
               /\ q \in {5, 55, 64, 65, 66} => EntryEffect(n, q) = Append(rest, "obj_next")
               /\ q \in {2, 72, 73} => EntryEffect(n, q) = Append(rest, "arr_next")
               /\ q \in {7, 52} => EntryEffect(n, q) = Append(rest, "finish")
               /\ q \in {61, 62, 68, 69, 70} => EntryEffect(n, q) = Ended(rest)
               /\ q \in {56, 57, 58, 59} => EntryEffect(n, q) = Ended(n)
<1> DEFINE rest == SubSeq(n, 1, Len(n) - 1)
<1>1. /\ EntryEffect(n, 0) = <<"start">>
      /\ EntryEffect(n, 4) = Append(n, "obj_first")
      /\ EntryEffect(n, 1) = Append(n, "arr_first") /\ EntryEffect(n, 67) = Append(n, "arr_first")
      /\ EntryEffect(n, 3) = Append(rest, "obj_value")
      /\ EntryEffect(n, 6) = Append(rest, "obj_colon") /\ EntryEffect(n, 54) = Append(rest, "obj_colon")
  BY DEF EntryEffect, YY_ACCEPT_ACTION
<1>2. /\ EntryEffect(n, 5) = Append(rest, "obj_next") /\ EntryEffect(n, 55) = Append(rest, "obj_next")
      /\ EntryEffect(n, 64) = Append(rest, "obj_next") /\ EntryEffect(n, 65) = Append(rest, "obj_next")
      /\ EntryEffect(n, 66) = Append(rest, "obj_next")
      /\ EntryEffect(n, 2) = Append(rest, "arr_next") /\ EntryEffect(n, 72) = Append(rest, "arr_next")
      /\ EntryEffect(n, 73) = Append(rest, "arr_next")
      /\ EntryEffect(n, 7) = Append(rest, "finish") /\ EntryEffect(n, 52) = Append(rest, "finish")
  BY DEF EntryEffect, YY_ACCEPT_ACTION
<1>3. /\ EntryEffect(n, 61) = Ended(rest) /\ EntryEffect(n, 62) = Ended(rest)
      /\ EntryEffect(n, 68) = Ended(rest) /\ EntryEffect(n, 69) = Ended(rest) /\ EntryEffect(n, 70) = Ended(rest)
      /\ EntryEffect(n, 56) = Ended(n) /\ EntryEffect(n, 57) = Ended(n)
      /\ EntryEffect(n, 58) = Ended(n) /\ EntryEffect(n, 59) = Ended(n)
  BY DEF EntryEffect, YY_ACCEPT_ACTION
<1> HIDE DEF rest
<1>4. QED
  BY <1>1, <1>2, <1>3 DEF rest

\* The innermost container of n is in phase x, and u is around it.
Inmost(n, u, x) == n = Append(u, x)

\* Which says all of n.
LEMMA SameInmost == \A m, n, u, x : Inmost(m, u, x) /\ Inmost(n, u, x) => m = n
  BY DEF Inmost

\* What each entry stands for over a nest whose innermost container is in phase x.
LEMMA EffectIs ==
    ASSUME NEW u \in Seq(Grammar!Phases), NEW x \in Grammar!Phases, NEW n, Inmost(n, u, x), NEW q
    PROVE  /\ n \in Seq(Grammar!Phases)
           /\ q = 0 => EntryEffect(n, q) = <<"start">>
           /\ q = 4 => Inmost(EntryEffect(n, q), n, "obj_first")
           /\ q \in {1, 67} => Inmost(EntryEffect(n, q), n, "arr_first")
           /\ q = 3 => Inmost(EntryEffect(n, q), u, "obj_value")
           /\ q \in {6, 54} => Inmost(EntryEffect(n, q), u, "obj_colon")
           /\ q \in {5, 55, 64, 65, 66} => Inmost(EntryEffect(n, q), u, "obj_next")
           /\ q \in {2, 72, 73} => Inmost(EntryEffect(n, q), u, "arr_next")
           /\ q \in {7, 52} => Inmost(EntryEffect(n, q), u, "finish")
           /\ q \in {56, 57, 58, 59} => Inmost(EntryEffect(n, q), u, EndedPhase(x))
           /\ q \in {61, 62, 68, 69, 70} => EntryEffect(n, q) = Ended(u)
<1>1. n \in Seq(Grammar!Phases) /\ SubSeq(n, 1, Len(n) - 1) = u /\ Ended(n) = Append(u, EndedPhase(x))
  BY LastOf, EndedIs DEF Inmost
<1>2. /\ q = 0 => EntryEffect(n, q) = <<"start">>
      /\ q = 4 => EntryEffect(n, q) = Append(n, "obj_first")
      /\ q \in {1, 67} => EntryEffect(n, q) = Append(n, "arr_first")
      /\ q = 3 => EntryEffect(n, q) = Append(u, "obj_value")
      /\ q \in {6, 54} => EntryEffect(n, q) = Append(u, "obj_colon")
      /\ q \in {5, 55, 64, 65, 66} => EntryEffect(n, q) = Append(u, "obj_next")
      /\ q \in {2, 72, 73} => EntryEffect(n, q) = Append(u, "arr_next")
      /\ q \in {7, 52} => EntryEffect(n, q) = Append(u, "finish")
      /\ q \in {61, 62, 68, 69, 70} => EntryEffect(n, q) = Ended(u)
      /\ q \in {56, 57, 58, 59} => EntryEffect(n, q) = Ended(n)
  BY <1>1, EffectRow
<1>3. QED
  BY <1>1, <1>2, Zenon DEF Inmost

\* JsonGrammar counts as FiniteSetTheorems does.
LEMMA SameCardinality == \A S : Grammar!Cardinality(S) = Cardinality(S)
  BY DEF Grammar!Cardinality, Cardinality

\* A container takes four entries or two.
LEMMA DepthIs ==
    ASSUME NEW u \in Seq(Grammar!Phases), NEW x \in Grammar!Phases
    PROVE  /\ Grammar!DepthOf(<<"start">>) = 1
           /\ Grammar!DepthOf(u) \in Nat
           /\ Grammar!DepthOf(Append(u, x)) = Grammar!DepthOf(u)
                 + (IF x \in Grammar!ObjectPhases THEN 4 ELSE IF x \in Grammar!ArrayPhases THEN 2 ELSE 0)
<1> DEFINE In(n, P) == {i \in DOMAIN n : n[i] \in P}
           k == Len(u) + 1
<1>1. \A P : IsFiniteSet(In(u, P)) /\ Cardinality(In(u, P)) \in Nat
  <2>1. ASSUME NEW P PROVE IsFiniteSet(In(u, P))
    <3>1. IsFiniteSet(1..Len(u)) /\ In(u, P) \subseteq 1..Len(u)
      BY FS_Interval
    <3>2. QED
      BY <3>1, FS_Subset
  <2>2. QED
    BY <2>1, FS_CardinalityType
<1>2. ASSUME NEW P
      PROVE  Cardinality(In(Append(u, x), P)) = Cardinality(In(u, P)) + (IF x \in P THEN 1 ELSE 0)
  <2>1. In(Append(u, x), P) = IF x \in P THEN In(u, P) \cup {k} ELSE In(u, P)
    OBVIOUS
  <2>2. k \notin In(u, P)
    OBVIOUS
  <2> HIDE DEF In, k
  <2>3. Cardinality(In(u, P) \cup {k}) = Cardinality(In(u, P)) + 1
    BY <1>1, <2>2, FS_AddElement
  <2>4. Cardinality(In(u, P)) \in Nat
    BY <1>1
  <2>5. QED
    BY <2>1, <2>3, <2>4
<1>3. ASSUME NEW n
      PROVE  Grammar!DepthOf(n) = 1 + 4 * Cardinality(In(n, Grammar!ObjectPhases))
                                    + 2 * Cardinality(In(n, Grammar!ArrayPhases))
  BY SameCardinality DEF Grammar!DepthOf
<1>4. Grammar!DepthOf(<<"start">>) = 1
  <2>1. In(<<"start">>, Grammar!ObjectPhases) = {} /\ In(<<"start">>, Grammar!ArrayPhases) = {}
    BY DEF Grammar!ObjectPhases, Grammar!ArrayPhases
  <2> HIDE DEF In
  <2>2. Cardinality({}) = 0
    BY FS_EmptySet
  <2>3. Grammar!DepthOf(<<"start">>) = 1 + 4 * Cardinality({}) + 2 * Cardinality({})
    BY <1>3, <2>1
  <2>4. QED
    BY <2>2, <2>3
<1>5. x \in Grammar!ObjectPhases => x \notin Grammar!ArrayPhases
  BY DEF Grammar!ObjectPhases, Grammar!ArrayPhases
<1> HIDE DEF In, k
<1>6. QED
  BY <1>1, <1>2, <1>3, <1>4, <1>5, SMTT(30)
-----------------------------------------------------------------------------
(* What the states of the automaton say of the nest.                       *)

\* The innermost container's phase on top of which each state stands, and the
\* entries that its contents may still take of those DepthOf counts for it.
StateRow(q, x, room) ==
    \/ q = 0 /\ x = "start"     /\ room = 0
    \/ q = 1 /\ x = "arr_first" /\ room = 1
    \/ q = 2 /\ x = "arr_next"  /\ room = 0
    \/ q = 3 /\ x = "obj_value" /\ room = 0
    \/ q = 4 /\ x = "obj_first" /\ room = 3
    \/ q = 5 /\ x = "obj_next"  /\ room = 2
    \/ q = 6 /\ x = "obj_colon" /\ room = 1
    \/ q = 7 /\ x = "finish"    /\ room = 0

\* The nest n is one that state q, i entries high, can stand for.
Fits(n, q, i) ==
    \E u \in Seq(Grammar!Phases), x \in Grammar!Phases, room \in 0..3 :
        /\ n = Append(u, x)
        /\ StateRow(q, x, room)
        /\ q # 7 => i + room <= Grammar!DepthOf(n)

\* A state entered over another stands for a nest as well.
LEMMA FitsGrows ==
    ASSUME NEW n, NEW p, NEW i \in Nat, Fits(n, p, i), NEW sym, NEW q \in 0..7, Edge(p, sym, q)
    PROVE  Fits(EntryEffect(n, q), q, i + 1)
<1>1. PICK u \in Seq(Grammar!Phases), x \in Grammar!Phases, room \in 0..3 :
             /\ n = Append(u, x)
             /\ StateRow(p, x, room)
             /\ p # 7 => i + room <= Grammar!DepthOf(n)
  BY Zenon DEF Fits
<1>2. n \in Seq(Grammar!Phases) /\ p # 7
  BY <1>1 DEF Edge
<1>3. /\ Grammar!DepthOf(u) \in Nat
      /\ Grammar!DepthOf(n) = Grammar!DepthOf(u)
            + (IF x \in Grammar!ObjectPhases THEN 4 ELSE IF x \in Grammar!ArrayPhases THEN 2 ELSE 0)
      /\ i + room <= Grammar!DepthOf(n)
  BY <1>1, <1>2, DepthIs
<1>4. /\ q = 4 => EntryEffect(n, q) = Append(n, "obj_first")
      /\ q = 1 => EntryEffect(n, q) = Append(n, "arr_first")
      /\ q = 3 => EntryEffect(n, q) = Append(u, "obj_value")
      /\ q = 6 => EntryEffect(n, q) = Append(u, "obj_colon")
      /\ q = 5 => EntryEffect(n, q) = Append(u, "obj_next")
      /\ q = 2 => EntryEffect(n, q) = Append(u, "arr_next")
      /\ q = 7 => EntryEffect(n, q) = Append(u, "finish")
  <2>1. Inmost(n, u, x)
    BY <1>1 DEF Inmost
  <2>2. /\ q = 4 => Inmost(EntryEffect(n, q), n, "obj_first")
        /\ q = 1 => Inmost(EntryEffect(n, q), n, "arr_first")
        /\ q = 3 => Inmost(EntryEffect(n, q), u, "obj_value")
        /\ q = 6 => Inmost(EntryEffect(n, q), u, "obj_colon")
        /\ q = 5 => Inmost(EntryEffect(n, q), u, "obj_next")
        /\ q = 2 => Inmost(EntryEffect(n, q), u, "arr_next")
        /\ q = 7 => Inmost(EntryEffect(n, q), u, "finish")
    BY <2>1, EffectIs
  <2>3. QED
    BY <2>2 DEF Inmost
<1> USE PhasesAre
<1>5. CASE q = 4
  <2>1. EntryEffect(n, q) = Append(n, "obj_first")
    BY <1>5, <1>4
  <2>2. Grammar!DepthOf(Append(n, "obj_first")) = Grammar!DepthOf(n) + 4 /\ Grammar!DepthOf(n) \in Nat
    BY <1>2, DepthIs DEF Grammar!ObjectPhases
  <2>3. StateRow(q, "obj_first", 3) /\ (i + 1) + 3 <= Grammar!DepthOf(n) + 4
    BY <1>3, <1>5, <2>2 DEF StateRow
  <2>4. QED
    <3>1. "obj_first" \in Grammar!Phases /\ 3 \in 0..3 /\ (i + 1) + 3 <= Grammar!DepthOf(Append(n, "obj_first"))
      BY <2>2, <2>3
    <3>2. QED
      BY <1>2, <2>1, <2>3, <3>1, Zenon DEF Fits
<1>6. CASE q = 1
  <2>1. EntryEffect(n, q) = Append(n, "arr_first")
    BY <1>6, <1>4
  <2>2. Grammar!DepthOf(Append(n, "arr_first")) = Grammar!DepthOf(n) + 2 /\ Grammar!DepthOf(n) \in Nat
    BY <1>2, DepthIs DEF Grammar!ObjectPhases, Grammar!ArrayPhases
  <2>3. StateRow(q, "arr_first", 1) /\ (i + 1) + 1 <= Grammar!DepthOf(n) + 2
    BY <1>3, <1>6, <2>2 DEF StateRow
  <2>4. QED
    <3>1. "arr_first" \in Grammar!Phases /\ 1 \in 0..3 /\ (i + 1) + 1 <= Grammar!DepthOf(Append(n, "arr_first"))
      BY <2>2, <2>3
    <3>2. QED
      BY <1>2, <2>1, <2>3, <3>1, Zenon DEF Fits
<1>7. CASE q \in {2, 3, 5, 6}
  <2>1. PICK y \in Grammar!Phases, left \in 0..3 :
             /\ StateRow(q, y, left)
             /\ EntryEffect(n, q) = Append(u, y)
             /\ left + 1 <= room
             /\ \/ x \in Grammar!ObjectPhases /\ y \in Grammar!ObjectPhases
                \/ x \in Grammar!ArrayPhases /\ y \in Grammar!ArrayPhases
    <3>1. CASE q = 2
      <4>1. p = 1 /\ x = "arr_first" /\ room = 1 /\ EntryEffect(n, q) = Append(u, "arr_next")
        BY <1>1, <1>4, <3>1 DEF Edge, StateRow
      <4>2. QED
        BY <3>1, <4>1 DEF StateRow, Grammar!ArrayPhases
    <3>2. CASE q = 3
      <4>1. p = 6 /\ x = "obj_colon" /\ room = 1 /\ EntryEffect(n, q) = Append(u, "obj_value")
        BY <1>1, <1>4, <3>2 DEF Edge, StateRow
      <4>2. QED
        BY <3>2, <4>1 DEF StateRow, Grammar!ObjectPhases
    <3>3. CASE q = 5
      <4>1. p = 4 /\ x = "obj_first" /\ room = 3 /\ EntryEffect(n, q) = Append(u, "obj_next")
        BY <1>1, <1>4, <3>3 DEF Edge, StateRow
      <4>2. QED
        BY <3>3, <4>1 DEF StateRow, Grammar!ObjectPhases
    <3>4. CASE q = 6
      <4>1. x \in {"obj_first", "obj_next"} /\ room \in {2, 3} /\ EntryEffect(n, q) = Append(u, "obj_colon")
        BY <1>1, <1>4, <3>4 DEF Edge, StateRow
      <4>2. QED
        BY <3>4, <4>1 DEF StateRow, Grammar!ObjectPhases
    <3>5. QED
      BY <1>7, <3>1, <3>2, <3>3, <3>4
  <2>2. Grammar!DepthOf(Append(u, y)) = Grammar!DepthOf(n)
    <3>1. Grammar!DepthOf(Append(u, y)) = Grammar!DepthOf(u)
            + (IF y \in Grammar!ObjectPhases THEN 4 ELSE IF y \in Grammar!ArrayPhases THEN 2 ELSE 0)
      BY DepthIs
    <3>2. y \in Grammar!ObjectPhases => y \notin Grammar!ArrayPhases
      BY DEF Grammar!ObjectPhases, Grammar!ArrayPhases
    <3>3. x \in Grammar!ObjectPhases => x \notin Grammar!ArrayPhases
      BY DEF Grammar!ObjectPhases, Grammar!ArrayPhases
    <3>4. QED
      BY <1>3, <2>1, <3>1, <3>2, <3>3
  <2>3. (i + 1) + left <= Grammar!DepthOf(n)
    BY <1>3, <2>1
  <2>4. QED
    BY <2>1, <2>2, <2>3 DEF Fits
<1>8. CASE q = 7
  <2>1. EntryEffect(n, q) = Append(u, "finish") /\ StateRow(q, "finish", 0)
    BY <1>8, <1>4 DEF StateRow
  <2>2. QED
    BY <1>8, <2>1 DEF Fits
<1>9. QED
  BY <1>5, <1>6, <1>7, <1>8 DEF Edge

\* The nest that the lowest i entries stand for.
Nest(i) == NestOf(SubSeq(yystack, 1, i))

\* Each entry adds to it.
LEMMA NestAt ==
    ASSUME TypeOK
    PROVE  /\ \A i \in 1..Len(yystack) : Nest(i) = EntryEffect(Nest(i - 1), yystack[i].stateno)
           /\ Nest(Len(yystack)) = OpenNest
<1>1. yystack \in Seq(Entries)
  BY DEF TypeOK
<1>2. ASSUME NEW i \in 1..Len(yystack)
      PROVE  Nest(i) = EntryEffect(Nest(i - 1), yystack[i].stateno)
  <2> DEFINE cut == SubSeq(yystack, 1, i - 1)
             e == yystack[i]
  <2>1. cut \in Seq(Entries) /\ e \in Entries
    BY <1>1
  <2>2. SubSeq(yystack, 1, i) = Append(cut, e)
    BY <1>1
  <2> HIDE DEF cut, e
  <2>3. NestOf(Append(cut, e)) = EntryEffect(NestOf(cut), e.stateno)
    BY <2>1, NestGrows
  <2>4. QED
    BY <2>2, <2>3 DEF Nest, cut, e
<1>3. SubSeq(yystack, 1, Len(yystack)) = yystack
  BY <1>1
<1>4. QED
  BY <1>2, <1>3 DEF Nest, OpenNest

\* The sentinel alone stands for a document that has not begun.
LEMMA NestOfSentinel == NestOf(<<Sentinel>>) = <<"start">>
<1>1. <<Sentinel>> = Append(<<>>, Sentinel) /\ <<>> \in Seq({Sentinel}) /\ Sentinel.stateno = 0
  BY DEF Sentinel
<1>2. NestOf(Append(<<>>, Sentinel)) = EntryEffect(NestOf(<<>>), 0)
  <2> HIDE DEF Sentinel
  <2>1. QED
    BY <1>1, NestGrows
<1>3. EntryEffect(NestOf(<<>>), 0) = <<"start">>
  BY EffectRow
<1>4. QED
  BY <1>1, <1>2, <1>3

\* Every entry that another may stand on stands for a nest.
LEMMA EveryFits ==
    ASSUME TypeOK, StackIsPath
    PROVE  \A i \in 1..Len(yystack) : yystack[i].stateno \in 0..7 => Fits(Nest(i), yystack[i].stateno, i)
<1> DEFINE Q(i) == yystack[i].stateno
           Holds(k) == k \in 1..Len(yystack) /\ Q(k) \in 0..7 => Fits(Nest(k), Q(k), k)
           Good == {m \in Nat : Holds(m + 1)}
<1>1. 0 \in Good
  <2>1. 1 \in 1..Len(yystack) /\ Q(1) = 0
    BY DEF TypeOK, StackIsPath
  <2>2. Nest(1) = <<"start">>
    <3>1. Nest(1) = EntryEffect(Nest(1 - 1), 0)
      BY <2>1, NestAt
    <3>2. QED
      BY <3>1, EffectRow
  <2>3. <<"start">> = Append(<<>>, "start") /\ <<>> \in Seq(Grammar!Phases) /\ "start" \in Grammar!Phases
    BY PhasesAre
  <2>4. Grammar!DepthOf(<<"start">>) = 1
    BY <2>3, DepthIs
  <2>5. StateRow(0, "start", 0) /\ 1 + 0 <= 1
    BY DEF StateRow
  <2>6. Fits(<<"start">>, 0, 1)
    <3>1. 1 + 0 <= Grammar!DepthOf(<<"start">>) /\ 0 \in 0..3
      BY <2>4
    <3>2. QED
      BY <2>3, <2>5, <3>1, Zenon DEF Fits
  <2>7. QED
    BY <2>1, <2>2, <2>6
<1>2. ASSUME NEW m \in Nat, m \in Good PROVE m + 1 \in Good
  <2>1. SUFFICES ASSUME (m + 1) + 1 \in 1..Len(yystack), Q((m + 1) + 1) \in 0..7
                 PROVE  Fits(Nest((m + 1) + 1), Q((m + 1) + 1), (m + 1) + 1)
    <3>1. SUFFICES Holds((m + 1) + 1)
      OBVIOUS
    <3>2. QED
      BY Zenon
  <2> DEFINE k == m + 1
  <2>2. k \in Nat /\ k \in 1..Len(yystack) /\ k + 1 \in 2..Len(yystack) /\ (k + 1) - 1 = k
    BY <2>1 DEF TypeOK
  <2>3. Edge(Q(k), yystack[k + 1].major, Q(k + 1))
    BY <2>2, StackEdges
  <2>4. Q(k) \in 0..7
    BY <2>1, <2>3 DEF Edge
  <2>5. Fits(Nest(k), Q(k), k)
    BY <1>2, <2>2, <2>4
  <2>6. Nest(k + 1) = EntryEffect(Nest(k), Q(k + 1))
    BY <2>1, <2>2, NestAt
  <2> HIDE DEF k
  <2>7. Fits(EntryEffect(Nest(k), Q(k + 1)), Q(k + 1), k + 1)
    <3> HIDE DEF Q
    <3>1. Q(k + 1) \in 0..7
      BY <2>1 DEF k
    <3>2. QED
      BY <2>2, <2>3, <2>5, <3>1, FitsGrows
  <2>8. QED
    BY <2>6, <2>7 DEF k
<1>3. Nat \subseteq Good
  <2> HIDE DEF Good
  <2>1. QED
    BY <1>1, <1>2, FromZero
<1>4. ASSUME NEW i \in 1..Len(yystack), Q(i) \in 0..7 PROVE Fits(Nest(i), Q(i), i)
  <2>1. i - 1 \in Nat /\ (i - 1) + 1 = i
    BY DEF TypeOK
  <2> HIDE DEF Holds
  <2>2. Holds((i - 1) + 1)
    BY <1>3, <2>1
  <2>3. Holds(i)
    BY <2>1, <2>2
  <2>4. QED
    BY <1>4, <2>3 DEF Holds
<1>5. QED
  BY <1>4
-----------------------------------------------------------------------------
(* A reduction leaves the nest alone.                                      *)

\* A value that has been reduced ends in the container it stands in.
LEMMA ValueResult ==
    ASSUME NEW u \in Seq(Grammar!Phases), NEW x \in Grammar!Phases, NEW n, Inmost(n, u, x),
           NEW p, NEW room, StateRow(p, x, room),
           NEW sym \in {12, 17, 20}, NEW q, Edge(p, sym, q)
    PROVE  Inmost(EntryEffect(n, q), u, EndedPhase(x))
<1>1. \/ q = 7 /\ x = "start" /\ EndedPhase(x) = "finish"
      \/ q \in {2, 73} /\ x \in {"arr_first", "arr_next"} /\ EndedPhase(x) = "arr_next"
      \/ q = 66 /\ x = "obj_value" /\ EndedPhase(x) = "obj_next"
  <2>1. /\ EndedPhase("start") = "finish"
        /\ EndedPhase("arr_first") = "arr_next"
        /\ EndedPhase("arr_next") = "arr_next"
        /\ EndedPhase("obj_value") = "obj_next"
    BY DEF EndedPhase
  <2>2. \/ q = 7 /\ x = "start"
        \/ q \in {2, 73} /\ x \in {"arr_first", "arr_next"}
        \/ q = 66 /\ x = "obj_value"
    BY DEF Edge, StateRow
  <2>3. QED
    BY <2>1, <2>2
<1>2. QED
  BY <1>1, EffectIs

\* Rules with one symbol on the right.
LEMMA ReducedOne ==
    ASSUME NEW u \in Seq(Grammar!Phases), NEW x \in Grammar!Phases, NEW n, Inmost(n, u, x),
           NEW p, NEW room, StateRow(p, x, room),
           NEW rule, NEW sym, RuleRow(rule, 1, sym), NEW g, Edge(p, sym, g),
           NEW top, NEW q, Edge(p, top, q),
           q = rule + 54 \/ (q = 7 /\ rule = 6)
    PROVE  EntryEffect(n, q) = EntryEffect(n, g)
<1>1. CASE rule = 0
  <2>1. q = 54 /\ g = 6
    BY <1>1 DEF RuleRow, Edge
  <2>2. QED
    BY <2>1, EffectIs, SameInmost
<1>2. CASE rule \in 2..5
  <2>1. sym = 17 /\ q \in {56, 57, 58, 59}
    BY <1>2 DEF RuleRow, Edge
  <2>2. Inmost(EntryEffect(n, g), u, EndedPhase(x))
    BY <2>1, ValueResult
  <2>3. QED
    BY <2>1, <2>2, EffectIs, SameInmost
<1>3. CASE rule = 6
  <2>1. q = 7 /\ g = 52
    BY <1>3 DEF RuleRow, Edge
  <2>2. QED
    BY <2>1, EffectIs, SameInmost
<1>4. CASE rule = 13
  <2>1. q = 67 /\ g = 1
    BY <1>4 DEF RuleRow, Edge
  <2>2. QED
    BY <2>1, EffectIs, SameInmost
<1>5. CASE rule = 14
  <2>1. q = 68 /\ g \in {69, 70}
    BY <1>5 DEF RuleRow, Edge
  <2>2. QED
    BY <2>1, EffectIs, SameInmost
<1>6. QED
  BY <1>1, <1>2, <1>3, <1>4, <1>5 DEF RuleRow

\* Rules with two.
LEMMA ReducedTwo ==
    ASSUME NEW u \in Seq(Grammar!Phases), NEW x \in Grammar!Phases, NEW n, Inmost(n, u, x),
           NEW p, NEW room, StateRow(p, x, room),
           NEW rule, NEW sym, RuleRow(rule, 2, sym), NEW g, Edge(p, sym, g),
           NEW low, NEW s, Edge(p, low, s), NEW top, NEW q, Edge(s, top, q),
           q = rule + 54
    PROVE  EntryEffect(EntryEffect(n, s), q) = EntryEffect(n, g)
<1> DEFINE m == EntryEffect(n, s)
<1>1. n \in Seq(Grammar!Phases) /\ Inmost(Ended(n), u, EndedPhase(x))
  BY EffectIs, EndedIs DEF Inmost
<1> HIDE DEF m
<1> USE PhasesAre
<1>2. CASE rule = 1
  <2>1. q = 55 /\ s = 6 /\ g \in {5, 65}
    BY <1>2 DEF RuleRow, Edge
  <2>2. Inmost(m, u, "obj_colon") /\ Inmost(EntryEffect(n, g), u, "obj_next")
    BY <2>1, EffectIs DEF m
  <2>3. Inmost(EntryEffect(m, q), u, "obj_next")
    BY <2>1, <2>2, EffectIs
  <2>4. QED
    BY <2>2, <2>3, SameInmost DEF m
<1>3. CASE rule = 8
  <2>1. q = 62 /\ s = 4 /\ sym = 12
    BY <1>3 DEF RuleRow, Edge
  <2>2. Inmost(m, n, "obj_first")
    BY <2>1, EffectIs DEF m
  <2>3. EntryEffect(m, q) = Ended(n)
    BY <1>1, <2>1, <2>2, EffectIs
  <2>4. Inmost(EntryEffect(n, g), u, EndedPhase(x))
    BY <2>1, ValueResult
  <2>5. QED
    BY <1>1, <2>3, <2>4, SameInmost DEF m
<1>4. CASE rule \in {10, 11}
  <2>1. q \in {64, 65} /\ s = 5 /\ sym = 13
    BY <1>4 DEF RuleRow, Edge
  <2>2. g = 5
    BY <2>1 DEF Edge
  <2>3. Inmost(m, u, "obj_next") /\ Inmost(EntryEffect(n, g), u, "obj_next")
    BY <2>1, <2>2, EffectIs DEF m
  <2>4. Inmost(EntryEffect(m, q), u, "obj_next")
    BY <2>1, <2>3, EffectIs
  <2>5. QED
    BY <2>3, <2>4, SameInmost DEF m
<1>5. CASE rule = 12
  <2>1. q = 66 /\ s = 3 /\ g = 55
    BY <1>5 DEF RuleRow, Edge
  <2>2. Inmost(m, u, "obj_value") /\ Inmost(EntryEffect(n, g), u, "obj_next")
    BY <2>1, EffectIs DEF m
  <2>3. Inmost(EntryEffect(m, q), u, "obj_next")
    BY <2>1, <2>2, EffectIs
  <2>4. QED
    BY <2>2, <2>3, SameInmost DEF m
<1>6. CASE rule = 16
  <2>1. q = 70 /\ s = 1 /\ sym = 20
    BY <1>6 DEF RuleRow, Edge
  <2>2. Inmost(m, n, "arr_first")
    BY <2>1, EffectIs DEF m
  <2>3. EntryEffect(m, q) = Ended(n)
    BY <1>1, <2>1, <2>2, EffectIs
  <2>4. Inmost(EntryEffect(n, g), u, EndedPhase(x))
    BY <2>1, ValueResult
  <2>5. QED
    BY <1>1, <2>3, <2>4, SameInmost DEF m
<1>7. CASE rule \in {18, 19}
  <2>1. q \in {72, 73} /\ s = 2 /\ g = 2
    BY <1>7, SMTT(30) DEF RuleRow, Edge
  <2>2. Inmost(m, u, "arr_next") /\ Inmost(EntryEffect(n, g), u, "arr_next")
    BY <2>1, EffectIs DEF m
  <2>3. Inmost(EntryEffect(m, q), u, "arr_next")
    BY <2>1, <2>2, EffectIs
  <2>4. QED
    BY <2>2, <2>3, SameInmost DEF m
<1>8. QED
  BY <1>2, <1>3, <1>4, <1>5, <1>6, <1>7 DEF RuleRow

\* Rules with three.
LEMMA ReducedThree ==
    ASSUME NEW u \in Seq(Grammar!Phases), NEW x \in Grammar!Phases, NEW n, Inmost(n, u, x),
           NEW p, NEW room, StateRow(p, x, room),
           NEW rule, NEW sym, RuleRow(rule, 3, sym), NEW g, Edge(p, sym, g),
           NEW low, NEW r, Edge(p, low, r), NEW mid, NEW s, Edge(r, mid, s),
           NEW top, NEW q, Edge(s, top, q),
           q = rule + 54
    PROVE  EntryEffect(EntryEffect(EntryEffect(n, r), s), q) = EntryEffect(n, g)
<1> DEFINE m == EntryEffect(n, r)
           o == EntryEffect(m, s)
<1>1. n \in Seq(Grammar!Phases) /\ Inmost(Ended(n), u, EndedPhase(x))
  BY EffectIs, EndedIs DEF Inmost
<1>2. sym \in {12, 20}
  BY DEF RuleRow
<1>3. Inmost(EntryEffect(n, g), u, EndedPhase(x))
  BY <1>2, ValueResult
<1> HIDE DEF m, o
<1> USE PhasesAre
<1>4. CASE rule = 7
  <2>1. q = 61 /\ s = 5 /\ r = 4
    BY <1>4 DEF Edge
  <2>2. Inmost(m, n, "obj_first")
    BY <2>1, EffectIs DEF m
  <2>3. Inmost(o, n, "obj_next")
    BY <1>1, <2>1, <2>2, EffectIs DEF o
  <2>4. EntryEffect(o, q) = Ended(n)
    BY <1>1, <2>1, <2>3, EffectIs
  <2>5. QED
    BY <1>1, <1>3, <2>4, SameInmost DEF m, o
<1>5. CASE rule = 15
  <2>1. q = 69 /\ s = 2 /\ r = 1
    BY <1>5 DEF Edge
  <2>2. Inmost(m, n, "arr_first")
    BY <2>1, EffectIs DEF m
  <2>3. Inmost(o, n, "arr_next")
    BY <1>1, <2>1, <2>2, EffectIs DEF o
  <2>4. EntryEffect(o, q) = Ended(n)
    BY <1>1, <2>1, <2>3, EffectIs
  <2>5. QED
    BY <1>1, <1>3, <2>4, SameInmost DEF m, o
<1>6. QED
  BY <1>4, <1>5 DEF RuleRow
\* What a state on top says of the nest.
LEMMA FitsIs ==
    ASSUME NEW n, NEW q, NEW i, Fits(n, q, i)
    PROVE  \E u \in Seq(Grammar!Phases), x \in Grammar!Phases, room \in 0..3 :
              /\ Inmost(n, u, x)
              /\ StateRow(q, x, room)
              /\ q # 7 => i + room <= Grammar!DepthOf(n)
  BY Zenon DEF Fits, Inmost

\* The state on top tells the rule.
LEMMA StateIsRule ==
    ASSUME TypeOK, StackIsPath, Action >= YY_MIN_REDUCE
    PROVE  Top.stateno = Rule + 54 \/ (Top.stateno = 7 /\ Rule = 6)
<1>1. Top.stateno = Action \/ (Top.stateno = 7 /\ Action = 60)
  BY ReducedState
<1>2. Top.stateno \in 0..7 \cup {52} \cup 54..75
  BY TopState
<1>3. Action \in 0..75
  BY <1>1, <1>2
<1>4. QED
  BY <1>1, <1>3 DEF Rule

\* A reduction replaces entries by one that stands for the same.
LEMMA ReduceKeepsNest ==
    ASSUME IInv, Reduce
    PROVE  OpenNest' = OpenNest
<1> DEFINE e == [stateno |-> Goto, major |-> Lhs, minor |-> yystack[Base + 1].minor]
           cut == SubSeq(yystack, 1, Base)
           State(i) == yystack[i].stateno
           last == Len(yystack)
           len == At(yyRuleInfoNRhs, Rule)
<1>1. TypeOK /\ StackIsPath /\ Action >= YY_MIN_REDUCE
  BY DEF IInv, Reduce
<1>2. /\ Rule \in ReducedRules
      /\ Base \in 1..(last - 1)
      /\ BaseRow(Rule, State(Base))
      /\ Edge(State(Base), Lhs, Goto)
  BY <1>1, ReductionBase, ReductionGoto
<1>3. OpenNest' = EntryEffect(Nest(Base), Goto)
  <2>1. yystack' = Append(cut, e)
    BY DEF Reduce, yy_reduce, Base, Rule, Lhs, Goto
  <2>2. cut \in Seq({yystack[i] : i \in 1..last} \cup {e}) /\ last \in Nat
    <3>1. cut = [i \in 1..Base |-> yystack[i]] /\ Base \in Nat
      BY <1>1, <1>2 DEF TypeOK
    <3>2. QED
      BY <1>1, <1>2, <3>1 DEF TypeOK
  <2>3. e.stateno = Goto
    OBVIOUS
  <2> HIDE DEF e, cut
  <2>4. NestOf(Append(cut, e)) = EntryEffect(NestOf(cut), e.stateno)
    BY <2>2, NestGrows
  <2>5. QED
    BY <2>1, <2>3, <2>4 DEF OpenNest, Nest, cut
<1>4. State(Base) \in 0..6 /\ Base \in 1..last /\ last \in Nat
  BY <1>1, <1>2 DEF BaseRow, TypeOK
<1>5. Fits(Nest(Base), State(Base), Base)
  BY <1>1, <1>4, EveryFits
<1>6. PICK u \in Seq(Grammar!Phases), x \in Grammar!Phases, room \in 0..3 :
             Inmost(Nest(Base), u, x) /\ StateRow(State(Base), x, room)
  BY <1>5, FitsIs
<1>7. State(last) = Rule + 54 \/ (State(last) = 7 /\ Rule = 6)
  <2>1. Top.stateno = Rule + 54 \/ (Top.stateno = 7 /\ Rule = 6)
    BY <1>1, StateIsRule
  <2>2. QED
    BY <2>1 DEF Top
<1>8. \A i \in 2..last : /\ Edge(State(i - 1), yystack[i].major, State(i))
                         /\ Nest(i) = EntryEffect(Nest(i - 1), State(i))
  BY <1>1, StackEdges, NestAt
<1>9. Nest(last) = OpenNest
  BY <1>1, NestAt
<1>10. RuleRow(Rule, len, Lhs) /\ Base = last - len
  BY <1>2, RuleTable DEF Base, Lhs
<1> HIDE DEF State, last, len
<1>11. len \in 1..3
  BY <1>10 DEF RuleRow
<1>12. CASE len = 1
  <2>1. last \in 2..last /\ last - 1 = Base
    BY <1>2, <1>4, <1>10, <1>12
  <2>2. Edge(State(Base), yystack[last].major, State(last)) /\ OpenNest = EntryEffect(Nest(Base), State(last))
    BY <1>8, <1>9, <2>1
  <2>3. EntryEffect(Nest(Base), State(last)) = EntryEffect(Nest(Base), Goto)
    BY <1>2, <1>6, <1>7, <1>10, <1>12, <2>2, ReducedOne
  <2>4. QED
    BY <1>3, <2>2, <2>3
<1>13. CASE len = 2
  <2>1. /\ last \in 2..last /\ last - 1 = Base + 1
        /\ Base + 1 \in 2..last /\ (Base + 1) - 1 = Base
    BY <1>2, <1>4, <1>10, <1>13
  <2>2. /\ Edge(State(Base + 1), yystack[last].major, State(last))
        /\ OpenNest = EntryEffect(Nest(Base + 1), State(last))
    BY <1>8, <1>9, <2>1
  <2>3. /\ Edge(State(Base), yystack[Base + 1].major, State(Base + 1))
        /\ Nest(Base + 1) = EntryEffect(Nest(Base), State(Base + 1))
    BY <1>8, <2>1
  <2>4. State(last) = Rule + 54
    BY <1>7, <1>10, <1>13 DEF RuleRow
  <2>5. EntryEffect(EntryEffect(Nest(Base), State(Base + 1)), State(last)) = EntryEffect(Nest(Base), Goto)
    BY <1>2, <1>6, <1>10, <1>13, <2>2, <2>3, <2>4, ReducedTwo
  <2>6. QED
    BY <1>3, <2>2, <2>3, <2>5
<1>14. CASE len = 3
  <2>1. /\ last \in 2..last /\ last - 1 = Base + 2
        /\ Base + 2 \in 2..last /\ (Base + 2) - 1 = Base + 1
        /\ Base + 1 \in 2..last /\ (Base + 1) - 1 = Base
    BY <1>2, <1>4, <1>10, <1>14
  <2>2. /\ Edge(State(Base + 2), yystack[last].major, State(last))
        /\ OpenNest = EntryEffect(Nest(Base + 2), State(last))
    BY <1>8, <1>9, <2>1
  <2>3. /\ Edge(State(Base + 1), yystack[Base + 2].major, State(Base + 2))
        /\ Nest(Base + 2) = EntryEffect(Nest(Base + 1), State(Base + 2))
    BY <1>8, <2>1
  <2>4. /\ Edge(State(Base), yystack[Base + 1].major, State(Base + 1))
        /\ Nest(Base + 1) = EntryEffect(Nest(Base), State(Base + 1))
    BY <1>8, <2>1
  <2>5. State(last) = Rule + 54
    BY <1>7, <1>10, <1>14 DEF RuleRow
  <2>6. EntryEffect(EntryEffect(EntryEffect(Nest(Base), State(Base + 1)), State(Base + 2)), State(last))
          = EntryEffect(Nest(Base), Goto)
    BY <1>2, <1>6, <1>10, <1>14, <2>2, <2>3, <2>4, <2>5, ReducedThree
  <2>7. QED
    BY <1>3, <2>2, <2>3, <2>4, <2>6
<1>15. QED
  BY <1>11, <1>12, <1>13, <1>14
-----------------------------------------------------------------------------
(* What the tables and the grammar make of a token.                        *)

\* The tokens each state takes.
Takes(q, t) ==
    \/ q = 0 /\ t = 1
    \/ q = 1 /\ t \in {1, 4, 6, 7, 8, 9, 10}
    \/ q = 2 /\ t \in {1, 3, 4, 6, 7, 8, 9, 10}
    \/ q = 3 /\ t \in {1, 4, 6, 8, 9, 10}
    \/ q = 4 /\ t \in {2, 4}
    \/ q = 5 /\ t \in {2, 3, 4}
    \/ q = 6 /\ t = 5
    \/ q = 7 /\ t = 0

\* In the tables.
LEMMA TableTakes ==
    ASSUME NEW q \in 0..7, NEW t \in Terminals
    PROVE  yy_find_shift_action(t, q) # YY_ERROR_ACTION <=> Takes(q, t)
  BY DEF Takes, yy_find_shift_action, yy_shift_ofst, yy_lookahead, yy_action

\* In the grammar.
LEMMA GrammarTakes ==
    ASSUME NEW q, NEW x, NEW room, StateRow(q, x, room), NEW t
    PROVE  t \in Grammar!Allowed[x] <=> Takes(q, t)
<1>1. /\ Grammar!Allowed["start"] = {0 + 1}
      /\ Grammar!Allowed["finish"] = {0}
      /\ Grammar!Allowed["obj_first"] = {4, 2}
      /\ Grammar!Allowed["obj_colon"] = {5}
      /\ Grammar!Allowed["obj_value"] = {4, 8, 9, 10, 1, 6}
      /\ Grammar!Allowed["obj_next"] = {4, 3, 2}
      /\ Grammar!Allowed["arr_first"] = {4, 8, 9, 10, 1, 6, 7}
      /\ Grammar!Allowed["arr_next"] = {4, 8, 9, 10, 1, 6, 3, 7}
  BY DEF Grammar!Allowed, Grammar!Values, Grammar!Scalars, Grammar!EndOfInput, Grammar!OpenObject,
         Grammar!CloseObject, Grammar!Comma, Grammar!String, Grammar!Colon, Grammar!OpenArray,
         Grammar!CloseArray
<1>2. QED
  BY <1>1 DEF StateRow, Takes

\* Where a token that is shifted leads, in the tables and in the grammar.
LEMMA AfterIs ==
    ASSUME NEW u \in Seq(Grammar!Phases), NEW x \in Grammar!Phases, Inmost(OpenNest, u, x),
           NEW q, NEW room, StateRow(q, x, room),
           NEW t, NEW act, ShiftRow(q, t, act), act <= YY_MAX_SHIFTREDUCE
    PROVE  EntryEffect(OpenNest, ShiftState(act)) = Grammar!After(t)
<1>1. /\ OpenNest[Len(OpenNest)] = x
      /\ SubSeq(OpenNest, 1, Len(OpenNest) - 1) = u
      /\ \A y \in Grammar!Phases : [OpenNest EXCEPT ![Len(OpenNest)] = y] = Append(u, y)
  BY LastOf DEF Inmost
<1>2. Grammar!Phase = x /\ Grammar!Enclosing = u
  BY <1>1 DEF Grammar!Phase, Grammar!Enclosing
<1>3. \A y \in Grammar!Phases : Inmost(Grammar!Move(OpenNest, y), u, y)
  BY <1>1 DEF Grammar!Move, Inmost
<1>4. Ended(u) = Grammar!ValueEnds(u)
  BY DEF Ended, Grammar!ValueEnds, Grammar!Move
<1>5. Inmost(Grammar!ValueEnds(OpenNest), u, EndedPhase(x))
  BY EndedIs DEF Inmost
<1>6. /\ Inmost(Grammar!After(1), OpenNest, "obj_first")
      /\ Inmost(Grammar!After(6), OpenNest, "arr_first")
      /\ Grammar!After(2) = Grammar!ValueEnds(Grammar!Enclosing)
      /\ Grammar!After(7) = Grammar!ValueEnds(Grammar!Enclosing)
      /\ Grammar!After(3) = OpenNest
      /\ Grammar!After(5) = Grammar!Move(OpenNest, "obj_value")
      /\ Grammar!Phase \in {"obj_first", "obj_next"} => Grammar!After(4) = Grammar!Move(OpenNest, "obj_colon")
      /\ Grammar!Phase \notin {"obj_first", "obj_next"} => Grammar!After(4) = Grammar!ValueEnds(OpenNest)
      /\ Grammar!After(8) = Grammar!ValueEnds(OpenNest)
      /\ Grammar!After(9) = Grammar!ValueEnds(OpenNest)
      /\ Grammar!After(10) = Grammar!ValueEnds(OpenNest)
  BY DEF Grammar!After, Grammar!EndOfInput, Grammar!OpenObject, Grammar!CloseObject, Grammar!Comma,
         Grammar!String, Grammar!Colon, Grammar!OpenArray, Grammar!CloseArray, Inmost
<1> DEFINE q2 == ShiftState(act)
           n2 == EntryEffect(OpenNest, q2)
<1>7. CASE t = 1
  <2>1. q2 = 4
    BY <1>7 DEF ShiftRow, ShiftState
  <2>2. Inmost(n2, OpenNest, "obj_first")
    BY <2>1, EffectIs
  <2>3. QED
    BY <1>6, <1>7, <2>2, SameInmost
<1>8. CASE t = 6
  <2>1. q2 = 67
    BY <1>8 DEF ShiftRow, ShiftState
  <2>2. Inmost(n2, OpenNest, "arr_first")
    BY <2>1, EffectIs
  <2>3. QED
    BY <1>6, <1>8, <2>2, SameInmost
<1>9. CASE t \in {2, 7}
  <2>1. q2 \in {61, 62, 68}
    BY <1>9 DEF ShiftRow, ShiftState
  <2>2. EntryEffect(OpenNest, q2) = Ended(u)
    <3> HIDE DEF q2
    <3>1. QED
      BY <2>1, EffectIs
  <2>3. Grammar!After(t) = Grammar!ValueEnds(u)
    BY <1>2, <1>6, <1>9
  <2>4. QED
    BY <1>4, <2>2, <2>3
<1>10. CASE t = 3
  <2>1. \/ q2 = 64 /\ x = "obj_next"
        \/ q2 = 72 /\ x = "arr_next"
    BY <1>10 DEF ShiftRow, ShiftState, StateRow
  <2>2. Inmost(n2, u, x)
    BY <2>1, EffectIs
  <2>3. QED
    BY <1>6, <1>10, <2>2, SameInmost
<1>11. CASE t = 5
  <2>1. q2 = 3
    BY <1>11 DEF ShiftRow, ShiftState
  <2>2. Inmost(n2, u, "obj_value")
    BY <2>1, EffectIs
  <2>3. Inmost(Grammar!After(t), u, "obj_value")
    BY <1>3, <1>6, <1>11, PhasesAre
  <2>4. QED
    BY <2>2, <2>3, SameInmost
<1>12. CASE t = 4 /\ q \in {4, 5}
  <2>1. q2 = 54 /\ x \in {"obj_first", "obj_next"}
    BY <1>12 DEF ShiftRow, ShiftState, StateRow
  <2>2. Inmost(n2, u, "obj_colon")
    BY <2>1, EffectIs
  <2>3. Inmost(Grammar!After(t), u, "obj_colon")
    BY <1>2, <1>3, <1>6, <1>12, <2>1, PhasesAre
  <2>4. QED
    BY <2>2, <2>3, SameInmost
<1>13. CASE t \in {4, 8, 9, 10} /\ q \in {1, 2, 3}
  <2>1. q2 \in {56, 57, 58, 59} /\ x \notin {"obj_first", "obj_next"}
    BY <1>13 DEF ShiftRow, ShiftState, StateRow
  <2>2. Inmost(n2, u, EndedPhase(x))
    BY <2>1, EffectIs
  <2>3. Inmost(Grammar!After(t), u, EndedPhase(x))
    BY <1>2, <1>5, <1>6, <1>13, <2>1
  <2>4. QED
    BY <2>2, <2>3, SameInmost
<1>14. QED
  BY <1>7, <1>8, <1>9, <1>10, <1>11, <1>12, <1>13 DEF ShiftRow
-----------------------------------------------------------------------------
(* The steps.                                                              *)

\* A state on top that is not a pending reduction stands for the nest.
LEMMA TopFits ==
    ASSUME TypeOK, StackIsPath, Top.stateno \in 0..7
    PROVE  \E u \in Seq(Grammar!Phases), x \in Grammar!Phases, room \in 0..3 :
              /\ Inmost(OpenNest, u, x)
              /\ StateRow(Top.stateno, x, room)
              /\ Grammar!Phase = x
              /\ Top.stateno # 7 => Len(yystack) + room <= Grammar!DepthOf(OpenNest)
<1>1. Len(yystack) \in 1..Len(yystack) /\ Nest(Len(yystack)) = OpenNest
  BY NestAt DEF TypeOK
<1>2. Fits(OpenNest, Top.stateno, Len(yystack))
  BY <1>1, EveryFits DEF Top
<1>3. \A u \in Seq(Grammar!Phases), x \in Grammar!Phases : Inmost(OpenNest, u, x) => Grammar!Phase = x
  BY LastOf DEF Inmost, Grammar!Phase
<1>4. QED
  BY <1>2, <1>3, FitsIs

\* A call that returns decides its token.
LEMMA Decides ==
    ASSUME TypeOK, call.busy, Return
    PROVE  Grammar!Decided
<1>1. call.major \in 0..10 /\ ~call'.busy
  BY Returned DEF TypeOK
<1>2. QED
  BY <1>1 DEF Grammar!Decided, Grammar!NoToken

\* The document has been given up.
LEMMA GivenUp ==
    ASSUME yystack' = <<Sentinel>>
    PROVE  OpenNest' = <<"start">>
  BY NestOfSentinel DEF OpenNest

\* Only the end of the input leads to acceptance.
AcceptAtEnd == Top.stateno = 52 => call.busy /\ call.major = TOK_EOF

\* A token that is shifted is one the grammar takes.
LEMMA ShiftTakes ==
    ASSUME IInv, Shift
    PROVE  Grammar!Take /\ AcceptAtEnd'
<1> DEFINE e == [stateno |-> ShiftState(Action), major |-> call.major, minor |-> call.minor]
<1>1. TypeOK /\ StackIsPath /\ Action <= 50 /\ call.busy /\ Return /\ call.major \in Terminals
  BY DEF IInv, Shift, TypeOK
<1>2. Top.stateno \in 0..7 /\ ShiftRow(Top.stateno, call.major, Action)
  BY <1>1, ActionValue, TopState
<1>3. PICK u \in Seq(Grammar!Phases), x \in Grammar!Phases, room \in 0..3 :
             Inmost(OpenNest, u, x) /\ StateRow(Top.stateno, x, room) /\ Grammar!Phase = x
  BY <1>1, <1>2, TopFits
<1>4. EntryEffect(OpenNest, ShiftState(Action)) = Grammar!After(call.major)
  BY <1>1, <1>2, <1>3, AfterIs
<1>5. /\ OpenNest' = EntryEffect(OpenNest, ShiftState(Action))
      /\ Top'.stateno = ShiftState(Action)
  <2>1. yystack' = Append(yystack, e)
    BY DEF Shift
  <2>2. yystack \in Seq(Entries \cup {e}) /\ e.stateno = ShiftState(Action)
    BY <1>1 DEF TypeOK
  <2> HIDE DEF e
  <2>3. NestOf(Append(yystack, e)) = EntryEffect(NestOf(yystack), e.stateno)
    BY <2>2, NestGrows
  <2>4. Top' = e
    BY <2>1, <2>2 DEF Top
  <2>5. QED
    BY <2>1, <2>2, <2>3, <2>4 DEF OpenNest
<1>6. call.major \in Grammar!Allowed[Grammar!Phase]
  <2>1. Takes(Top.stateno, call.major)
    BY <1>1, <1>2, TableTakes DEF Action
  <2>2. QED
    BY <1>3, <2>1, GrammarTakes
<1>7. Grammar!Take
  BY <1>1, <1>4, <1>5, <1>6, Decides DEF Grammar!Take
<1>8. ShiftState(Action) # 52
  BY <1>1, <1>2 DEF ShiftRow, ShiftState
<1>9. QED
  BY <1>5, <1>7, <1>8 DEF AcceptAtEnd

\* A document is dropped for its depth alone.
LEMMA OverflowDrops ==
    ASSUME IInv, Overflow
    PROVE  Grammar!Drop /\ AcceptAtEnd'
<1>1. TypeOK /\ StackIsPath /\ Action <= 50 /\ call.busy /\ Return /\ yystack' = <<Sentinel>>
  BY DEF IInv, Overflow
<1>2. Top.stateno \in 0..6
  BY <1>1, ActionValue, TopState DEF ShiftRow
<1>3. \E room \in 0..3 : Len(yystack) + room <= Grammar!DepthOf(OpenNest)
  BY <1>1, <1>2, TopFits
<1>4. Grammar!DepthOf(OpenNest) >= YYSTACKDEPTH
  <2>1. PICK u \in Seq(Grammar!Phases), x \in Grammar!Phases : Inmost(OpenNest, u, x)
    BY <1>1, <1>2, TopFits
  <2>2. Grammar!DepthOf(OpenNest) \in Nat
    BY <2>1, DepthIs DEF Inmost
  <2>3. Len(yystack) \in Nat /\ Len(yystack) >= YYSTACKDEPTH /\ YYSTACKDEPTH \in Nat
    BY ParserAssumption DEF Overflow, IInv, TypeOK
  <2>4. QED
    BY <1>3, <2>2, <2>3
<1>5. OpenNest' = <<"start">>
  BY <1>1, GivenUp
<1>6. AcceptAtEnd'
  BY <1>1 DEF AcceptAtEnd, Top, Sentinel
<1>7. QED
  BY <1>1, <1>4, <1>5, <1>6, Decides DEF Grammar!Drop

\* A token thrown away is one the grammar does not take.
LEMMA ErrorRefuses ==
    ASSUME IInv, SyntaxError
    PROVE  Grammar!Refuse /\ AcceptAtEnd'
<1>1. TypeOK /\ StackIsPath /\ Action = 51 /\ call.busy /\ Return /\ call.major \in Terminals
  BY DEF IInv, SyntaxError, TypeOK
<1>2. Top.stateno \in 0..7
  BY <1>1, ActionValue, TopState
<1>3. call.major \notin Grammar!Allowed[Grammar!Phase]
  <2>1. ~Takes(Top.stateno, call.major)
    BY <1>1, <1>2, TableTakes DEF Action
  <2>2. QED
    BY <1>1, <1>2, <2>1, TopFits, GrammarTakes
<1>4. CASE call.major = 0
  <2>1. yystack' = <<Sentinel>>
    BY <1>4 DEF SyntaxError
  <2>2. OpenNest' = <<"start">>
    BY <2>1, GivenUp
  <2>3. AcceptAtEnd'
    BY <2>1 DEF AcceptAtEnd, Top, Sentinel
  <2>4. QED
    BY <1>1, <1>3, <1>4, <2>2, <2>3, Decides DEF Grammar!Refuse, Grammar!EndOfInput
<1>5. CASE call.major # 0
  <2>1. yystack' = yystack
    BY <1>5 DEF SyntaxError
  <2>2. OpenNest' = OpenNest /\ AcceptAtEnd'
    BY <1>2, <2>1 DEF OpenNest, AcceptAtEnd, Top
  <2>3. QED
    BY <1>1, <1>3, <1>5, <2>2, Decides DEF Grammar!Refuse, Grammar!EndOfInput
<1>6. QED
  BY <1>4, <1>5

\* The lowest entry of two.
LEMMA FirstOf ==
    ASSUME NEW S, NEW s \in Seq(S), Len(s) = 2
    PROVE  SubSeq(s, 1, 1) = <<s[1]>>
<1> DEFINE a == SubSeq(s, 1, 1)
           b == <<s[1]>>
<1>1. a \in Seq(S) /\ Len(a) = 1 /\ a[1] = s[1]
  OBVIOUS
<1>2. b \in Seq(S) /\ Len(b) = 1 /\ b[1] = s[1]
  OBVIOUS
<1> HIDE DEF a, b
<1>3. \A i \in 1..Len(a) : a[i] = b[i]
  BY <1>1, <1>2
<1>4. a = b
  BY <1>1, <1>2, <1>3, SeqEqual
<1>5. QED
  BY <1>4 DEF a, b

\* The document accepted is one the grammar has finished.
LEMMA AcceptTakes ==
    ASSUME IInv, AcceptAtEnd, Accept
    PROVE  Grammar!Take /\ AcceptAtEnd'
<1>1. TypeOK /\ StackIsPath /\ Action = 52 /\ call.busy /\ Return
  BY DEF IInv, Accept
<1>2. Len(yystack) = 2 /\ Top.stateno = 52 /\ call.major = 0
  <2>1. Top.stateno = 52
    BY <1>1, ActionValue DEF ShiftRow
  <2>2. QED
    BY <1>1, <2>1, AcceptedIsAlone DEF AcceptAtEnd
<1>3. Nest(1) = <<"start">>
  <2>1. Nest(1) = EntryEffect(Nest(1 - 1), 0)
    BY <1>1, <1>2, NestAt DEF StackIsPath
  <2>2. QED
    BY <2>1, EffectRow
<1>4. OpenNest = <<"finish">>
  <2>1. OpenNest = EntryEffect(Nest(1), 52)
    <3>1. 2 \in 1..Len(yystack) /\ 2 - 1 = 1 /\ yystack[2].stateno = 52
      BY <1>2 DEF Top
    <3>2. QED
      BY <1>1, <1>2, <3>1, NestAt
  <2>2. SubSeq(<<"start">>, 1, Len(<<"start">>) - 1) = <<>> /\ Append(<<>>, "finish") = <<"finish">>
    OBVIOUS
  <2>3. EntryEffect(<<"start">>, 52) = <<"finish">>
    BY <2>2, EffectRow
  <2>4. QED
    BY <1>3, <2>1, <2>3
<1>5. Grammar!Phase = "finish"
  BY <1>4 DEF Grammar!Phase
<1>6. call.major \in Grammar!Allowed[Grammar!Phase]
  BY <1>2, <1>5 DEF Grammar!Allowed, Grammar!EndOfInput
<1>7. OpenNest' = Grammar!After(call.major) /\ AcceptAtEnd'
  <2>1. Grammar!After(0) = <<"start">>
    BY DEF Grammar!After, Grammar!EndOfInput, Grammar!OpenObject, Grammar!CloseObject, Grammar!Comma,
           Grammar!String, Grammar!Colon, Grammar!OpenArray, Grammar!CloseArray
  <2>2. yystack \in Seq(Entries) /\ yystack[1] \in Entries /\ yystack[1].stateno = 0
    <3>1. yystack \in Seq(Entries) /\ yystack[1].stateno = 0
      BY <1>1 DEF TypeOK, StackIsPath
    <3>2. yystack[1] \in Entries
      <4>1. Len(yystack) = 2
        BY <1>2
      <4>2. QED
        BY <3>1, <4>1
    <3>3. QED
      BY <3>1, <3>2
  <2>3. yystack' = Append(<<>>, yystack[1]) /\ Top' = yystack[1]
    <3>1. yystack' = SubSeq(yystack, 1, 1)
      BY <1>2 DEF Accept
    <3>2. SubSeq(yystack, 1, 1) = <<yystack[1]>>
      <4>1. Len(yystack) = 2
        BY <1>2
      <4>2. QED
        BY <2>2, <4>1, FirstOf
    <3>3. QED
      BY <3>1, <3>2 DEF Top
  <2>4. OpenNest' = EntryEffect(NestOf(<<>>), yystack[1].stateno)
    <3>1. <<>> \in Seq(Entries)
      OBVIOUS
    <3>2. NestOf(Append(<<>>, yystack[1])) = EntryEffect(NestOf(<<>>), yystack[1].stateno)
      BY <2>2, <3>1, NestGrows
    <3>3. QED
      BY <2>3, <3>2 DEF OpenNest
  <2>5. OpenNest' = <<"start">>
    BY <2>2, <2>4, EffectRow
  <2>6. QED
    BY <1>2, <2>1, <2>2, <2>3, <2>5 DEF AcceptAtEnd
<1>8. QED
  BY <1>1, <1>2, <1>6, <1>7, Decides DEF Grammar!Take

\* A reduction is no step of the grammar's.
LEMMA ReduceStutters ==
    ASSUME IInv, Reduce
    PROVE  UNCHANGED Grammar!grammarVars /\ AcceptAtEnd'
<1>1. TypeOK /\ StackIsPath /\ Action >= YY_MIN_REDUCE /\ call.busy /\ call' = call
  BY DEF IInv, Reduce
<1>2. OpenNest' = OpenNest
  BY ReduceKeepsNest
<1>3. UNCHANGED Grammar!grammarVars
  BY <1>1, <1>2 DEF Grammar!grammarVars
<1>4. AcceptAtEnd'
  <2>1. SUFFICES ASSUME Goto = 52 PROVE call.major = 0
    BY <1>1, ReducePushes DEF AcceptAtEnd
  <2>2. Rule = 6
    BY <1>1, <2>1, ReductionGoto DEF ResultRow
  <2>3. Top.stateno # 60
    <3>1. Top.stateno = 0 \/ \E p, x : Edge(p, x, Top.stateno)
      <4>1. Len(yystack) = 1 => Top.stateno = 0
        BY <1>1 DEF Top, StackIsPath
      <4>2. Len(yystack) # 1 => Len(yystack) \in 2..Len(yystack)
        <5> DEFINE n == Len(yystack)
        <5>1. n \in Nat /\ n >= 1
          BY <1>1 DEF TypeOK
        <5> HIDE DEF n
        <5>2. n # 1 => n \in 2..n
          BY <5>1
        <5>3. QED
          BY <5>2 DEF n
      <4>3. QED
        BY <1>1, <4>1, <4>2, StackEdges DEF Top
    <3>2. QED
      BY <3>1 DEF Edge
  <2>4. Top.stateno = 7
    BY <1>1, <2>2, <2>3, StateIsRule
  <2>5. ShiftRow(7, call.major, Action)
    BY <1>1, <2>4, ActionValue
  <2>6. QED
    BY <1>1, <2>5 DEF ShiftRow
<1>5. QED
  BY <1>3, <1>4

\* Every step of the engine is one of the grammar's, or none.
LEMMA StepImplements ==
    ASSUME IInv, AcceptAtEnd, [Next]_parserVars
    PROVE  [Grammar!Next]_Grammar!grammarVars /\ AcceptAtEnd'
<1>1. ASSUME NEW t \in Terminals, NEW m \in Minors, NEW ent \in Entities, Parse(t, m, ent)
      PROVE  Grammar!Offer(t) /\ AcceptAtEnd'
  <2>1. ~call.busy /\ call'.busy /\ call'.major = t /\ yystack' = yystack
    BY <1>1 DEF Parse
  <2>2. OpenNest' = OpenNest
    BY <2>1 DEF OpenNest
  <2>3. QED
    BY <2>1, <2>2 DEF Grammar!Offer, Grammar!NoToken, AcceptAtEnd, Top
<1>2. CASE UNCHANGED parserVars
  <2>1. yystack' = yystack /\ call' = call
    BY <1>2 DEF parserVars
  <2>2. OpenNest' = OpenNest
    BY <2>1 DEF OpenNest
  <2>3. QED
    BY <2>1, <2>2 DEF Grammar!grammarVars, AcceptAtEnd, Top
<1>3. CASE Reduce
  BY <1>3, ReduceStutters
<1>4. CASE Shift
  BY <1>4, ShiftTakes DEF Grammar!Next
<1>5. CASE Overflow
  BY <1>5, OverflowDrops DEF Grammar!Next
<1>6. CASE Accept
  BY <1>6, AcceptTakes DEF Grammar!Next
<1>7. CASE SyntaxError
  BY <1>7, ErrorRefuses DEF Grammar!Next
<1>8. QED
  BY <1>1, <1>2, <1>3, <1>4, <1>5, <1>6, <1>7 DEF Next, Step, Grammar!Next

\* The table-driven engine takes exactly the documents of extern/parser.y, token
\* by token: every token the grammar allows where it comes is shifted or accepted,
\* every other one is thrown away, and a document is given up only at the end of
\* the input or where it is nested as deeply as YYSTACKDEPTH lets the grammar's
\* bound go.
THEOREM GrammarTheorem == Spec => ImplementsGrammar
<1>1. Init => Grammar!Init /\ AcceptAtEnd
  <2>1. SUFFICES ASSUME Init PROVE Grammar!Init /\ AcceptAtEnd
    OBVIOUS
  <2>2. OpenNest = <<"start">>
    BY <2>1, NestOfSentinel DEF Init, OpenNest
  <2>3. QED
    BY <2>1, <2>2 DEF Init, Sentinel, Top, AcceptAtEnd, Grammar!Init, Grammar!NoToken
<1>2. IInv /\ AcceptAtEnd /\ [Next]_parserVars => [Grammar!Next]_Grammar!grammarVars /\ AcceptAtEnd'
  BY StepImplements
<1>3. QED
  BY <1>1, <1>2, Invariance, PTL DEF Spec, ImplementsGrammar, Grammar!Spec
=============================================================================
