---------------------------- MODULE ParserProofs ----------------------------
(***************************************************************************)
(* Proofs about Parser, for every stack depth, every set of references and *)
(* every sequence of tokens.                                               *)
(***************************************************************************)
EXTENDS Parser, TLAPS

\* What the definitions of the tables are made of.
USE DEF At, Terminals, Symbols, YY_MAX_SHIFT, YY_MIN_SHIFTREDUCE, YY_MAX_SHIFTREDUCE,
        YY_ERROR_ACTION, YY_ACCEPT_ACTION, YY_MIN_REDUCE, YY_REDUCE_COUNT,
        YY_ACTTAB_COUNT, TOK_EOF

-----------------------------------------------------------------------------
(* The tables, read entry by entry.                                        *)

\* What the engine does on a terminal in each of its eight states.
ShiftRow(s, t, act) ==
    \/ act = 51
    \/ s = 0 /\ t = 1 /\ act = 4
    \/ s \in {1, 2, 3} /\ t = 1 /\ act = 4
    \/ s \in {1, 2, 3} /\ t = 4 /\ act = 31
    \/ s \in {1, 2, 3} /\ t = 6 /\ act = 42
    \/ s \in {1, 2, 3} /\ t = 8 /\ act = 32
    \/ s \in {1, 2, 3} /\ t = 9 /\ act = 33
    \/ s \in {1, 2, 3} /\ t = 10 /\ act = 34
    \/ s \in {1, 2} /\ t = 7 /\ act = 43
    \/ s = 2 /\ t = 3 /\ act = 47
    \/ s \in {4, 5} /\ t = 4 /\ act = 29
    \/ s = 4 /\ t = 2 /\ act = 37
    \/ s = 5 /\ t = 2 /\ act = 36
    \/ s = 5 /\ t = 3 /\ act = 39
    \/ s = 6 /\ t = 5 /\ act = 3
    \/ s = 7 /\ t = 0 /\ act = 60

\* The shift table of src/parser.c holds nothing else.
LEMMA ShiftTable ==
    ASSUME NEW s \in 0..7, NEW t \in Terminals
    PROVE  ShiftRow(s, t, yy_find_shift_action(t, s))
  BY DEF ShiftRow, yy_find_shift_action, yy_shift_ofst, yy_lookahead, yy_action

\* Where a reduction leads.
GotoRow(s, x, act) ==
    \/ s = 0 /\ x = 11 /\ act = 52
    \/ s = 0 /\ x = 12 /\ act = 7
    \/ s = 1 /\ x \in {12, 17, 20, 21} /\ act = 2
    \/ s = 2 /\ x \in {12, 17, 20} /\ act = 73
    \/ s = 3 /\ x \in {12, 17, 20} /\ act = 66
    \/ s \in {1, 2, 3} /\ x = 18 /\ act = 1
    \/ s = 1 /\ x = 19 /\ act = 70
    \/ s = 2 /\ x = 19 /\ act = 69
    \/ s = 4 /\ x \in {13, 14} /\ act = 5
    \/ s \in {4, 5} /\ x = 15 /\ act = 6
    \/ s = 5 /\ x = 14 /\ act = 65
    \/ s = 6 /\ x = 16 /\ act = 55

\* Nor does the goto table.
LEMMA GotoTable ==
    ASSUME NEW s \in 0..6, NEW x \in 11..21, GotoDefined(s, x)
    PROVE  GotoRow(s, x, yy_find_reduce_action(s, x))
  BY DEF GotoRow, GotoDefined, yy_find_reduce_action, yy_reduce_ofst, yy_lookahead, yy_action

\* The entries a reduction may need are all there.
LEMMA GotoThere ==
    ASSUME NEW s \in 0..6, NEW x \in 11..21,
           \/ s = 0 /\ x \in {11, 12}
           \/ s \in {1, 2, 3} /\ x \in {12, 17, 18, 20}
           \/ s = 1 /\ x \in {19, 21}
           \/ s = 2 /\ x = 19
           \/ s \in {4, 5} /\ x \in {14, 15}
           \/ s = 4 /\ x = 13
           \/ s = 6 /\ x = 16
    PROVE  GotoDefined(s, x)
  BY DEF GotoDefined, yy_reduce_ofst, yy_lookahead, yy_action
-----------------------------------------------------------------------------
(* One entry of the stack over another.                                    *)

\* Entry state q over entry state p, for symbol x: all that can ever be seen.
Edge(p, x, q) ==
    \/ q = 4  /\ x = 1  /\ p \in {0, 1, 2, 3}
    \/ q = 7  /\ x = 12 /\ p = 0
    \/ q = 52 /\ x = 11 /\ p = 0
    \/ q = 1  /\ x = 18 /\ p \in {1, 2, 3}
    \/ q = 2  /\ x \in {12, 17, 20, 21} /\ p = 1
    \/ q = 3  /\ x = 5  /\ p = 6
    \/ q = 5  /\ x \in {13, 14} /\ p = 4
    \/ q = 6  /\ x = 15 /\ p \in {4, 5}
    \/ q = 54 /\ x = 4  /\ p \in {4, 5}
    \/ q = 55 /\ x = 16 /\ p = 6
    \/ q = 56 /\ x = 4  /\ p \in {1, 2, 3}
    \/ q = 57 /\ x = 8  /\ p \in {1, 2, 3}
    \/ q = 58 /\ x = 9  /\ p \in {1, 2, 3}
    \/ q = 59 /\ x = 10 /\ p \in {1, 2, 3}
    \/ q = 61 /\ x = 2  /\ p = 5
    \/ q = 62 /\ x = 2  /\ p = 4
    \/ q = 64 /\ x = 3  /\ p = 5
    \/ q = 65 /\ x = 14 /\ p = 5
    \/ q = 66 /\ x \in {12, 17, 20} /\ p = 3
    \/ q = 67 /\ x = 6  /\ p \in {1, 2, 3}
    \/ q = 68 /\ x = 7  /\ p \in {1, 2}
    \/ q = 69 /\ x = 19 /\ p = 2
    \/ q = 70 /\ x = 19 /\ p = 1
    \/ q = 72 /\ x = 3  /\ p = 2
    \/ q = 73 /\ x \in {12, 17, 20} /\ p = 2

\* Where the tables let a symbol follow a state, they lead along these edges.
LEMMA EdgeTable ==
    ASSUME NEW p \in 0..75, NEW x \in Symbols,
           MayFollow(p, x)
    PROVE  Edge(p, x, Transition(p, x))
<1>1. CASE x \in Terminals
  <2>1. p \in 0..7 /\ yy_find_shift_action(x, p) <= 50
    BY <1>1 DEF MayFollow
  <2>2. ShiftRow(p, x, yy_find_shift_action(x, p))
    BY <1>1, <2>1, ShiftTable
  <2>3. QED
    BY <1>1, <2>1, <2>2 DEF ShiftRow, Edge, Transition, ShiftState
<1>2. CASE x \notin Terminals
  <2>1. x \in 11..21 /\ GotoDefined(p, x) /\ p \in 0..6
    BY <1>2 DEF MayFollow, GotoDefined
  <2>2. GotoRow(p, x, yy_find_reduce_action(p, x))
    BY <2>1, GotoTable
  <2>3. QED
    BY <1>2, <2>2 DEF GotoRow, Edge, Transition
<1>3. QED
  BY <1>1, <1>2

\* Every entry above the sentinel stands on one of these edges.
LEMMA StackEdges ==
    ASSUME TypeOK, StackIsPath, NEW i \in 2..Len(yystack)
    PROVE  Edge(yystack[i - 1].stateno, yystack[i].major, yystack[i].stateno)
<1> DEFINE below == yystack[i - 1]
           entry == yystack[i]
<1>1. below \in Entries /\ entry \in Entries
  BY DEF TypeOK
<1>2. below.stateno \in 0..75 /\ entry.major \in Symbols
  BY <1>1 DEF Entries
<1>3. /\ MayFollow(below.stateno, entry.major)
      /\ entry.stateno = Transition(below.stateno, entry.major)
  BY DEF StackIsPath
<1> HIDE DEF below, entry
<1>4. Edge(below.stateno, entry.major, entry.stateno)
  BY <1>2, <1>3, EdgeTable
<1>5. QED
  BY <1>4 DEF below, entry

\* The state 0 is the sentinel's and no other's.
LEMMA OnlySentinelIsZero ==
    ASSUME TypeOK, StackIsPath, NEW i \in 1..Len(yystack), yystack[i].stateno = 0
    PROVE  i = 1
<1>1. SUFFICES ASSUME i # 1 PROVE FALSE
  OBVIOUS
<1>2. i \in 2..Len(yystack)
  BY <1>1 DEF TypeOK
<1>3. Edge(yystack[i - 1].stateno, yystack[i].major, 0)
  BY <1>2, StackEdges
<1>4. QED
  BY <1>3 DEF Edge
-----------------------------------------------------------------------------
(* The reductions.                                                         *)

\* Length and left-hand side of each rule that is ever reduced.
RuleRow(rule, len, lhs) ==
    \/ rule = 0  /\ len = 1 /\ lhs = 15
    \/ rule = 1  /\ len = 2 /\ lhs = 14
    \/ rule \in 2..5 /\ len = 1 /\ lhs = 17
    \/ rule = 6  /\ len = 1 /\ lhs = 11
    \/ rule = 7  /\ len = 3 /\ lhs = 12
    \/ rule = 8  /\ len = 2 /\ lhs = 12
    \/ rule = 10 /\ len = 2 /\ lhs = 13
    \/ rule = 11 /\ len = 2 /\ lhs = 13
    \/ rule = 12 /\ len = 2 /\ lhs = 16
    \/ rule = 13 /\ len = 1 /\ lhs = 18
    \/ rule = 14 /\ len = 1 /\ lhs = 19
    \/ rule = 15 /\ len = 3 /\ lhs = 20
    \/ rule = 16 /\ len = 2 /\ lhs = 20
    \/ rule = 18 /\ len = 2 /\ lhs = 21
    \/ rule = 19 /\ len = 2 /\ lhs = 21

ReducedRules == {0, 1, 2, 3, 4, 5, 6, 7, 8, 10, 11, 12, 13, 14, 15, 16, 18, 19}

\* The rules that the tables reduce, with their lengths and left-hand sides.
LEMMA RuleTable ==
    ASSUME NEW rule \in ReducedRules
    PROVE  RuleRow(rule, At(yyRuleInfoNRhs, rule), At(yyRuleInfoLhs, rule))
  BY DEF ReducedRules, RuleRow, yyRuleInfoNRhs, yyRuleInfoLhs

\* The state uncovered when the right-hand side of a rule is popped.
BaseRow(rule, s) ==
    \/ rule = 0 /\ s \in {4, 5}
    \/ rule = 1 /\ s \in {4, 5}
    \/ rule \in 2..5 /\ s \in {1, 2, 3}
    \/ rule = 6 /\ s = 0
    \/ rule \in {7, 8} /\ s \in {0, 1, 2, 3}
    \/ rule \in {10, 11} /\ s = 4
    \/ rule = 12 /\ s = 6
    \/ rule \in {13, 15, 16} /\ s \in {1, 2, 3}
    \/ rule = 14 /\ s \in {1, 2}
    \/ rule \in {18, 19} /\ s = 1

Rule == Action - YY_MIN_REDUCE
Base == Len(yystack) - At(yyRuleInfoNRhs, Rule)
Lhs == At(yyRuleInfoLhs, Rule)

\* The action found is the state on top, unless that is a state proper.
LEMMA ActionValue ==
    ASSUME TypeOK
    PROVE  \/ Top.stateno > YY_MAX_SHIFT /\ Action = Top.stateno
           \/ Top.stateno \in 0..7 /\ ShiftRow(Top.stateno, call.major, Action)
<1> DEFINE q == Top.stateno
<1>1. q \in 0..75
  <2>1. Top \in Entries
    BY DEF TypeOK, Top
  <2>2. QED
    BY <2>1 DEF Entries
<1>2. call.major \in Terminals
  BY DEF TypeOK
<1>3. Action = yy_find_shift_action(call.major, q)
  BY DEF Action
<1> HIDE DEF q
<1>4. CASE q > 7
  <2>1. Action = q
    BY <1>3, <1>4 DEF yy_find_shift_action
  <2>2. QED
    BY <1>4, <2>1 DEF q
<1>5. CASE q <= 7
  <2>1. q \in 0..7
    BY <1>1, <1>5
  <2>2. ShiftRow(q, call.major, Action)
    BY <1>2, <1>3, <2>1, ShiftTable
  <2>3. QED
    BY <2>1, <2>2 DEF q
<1>6. QED
  BY <1>1, <1>4, <1>5

\* The rule about to be reduced finds its right-hand side; popping it never
\* reaches the sentinel, and uncovers a state the rule can start from.
LEMMA ReductionBase ==
    ASSUME TypeOK, StackIsPath, Action >= YY_MIN_REDUCE
    PROVE  /\ Rule \in ReducedRules
           /\ Base \in 1..(Len(yystack) - 1)
           /\ BaseRow(Rule, yystack[Base].stateno)
           /\ Handle(Rule)
<1> DEFINE n == Len(yystack)
           q == yystack[n].stateno
           s1 == yystack[n - 1].stateno
           s2 == yystack[n - 2].stateno
           s3 == yystack[n - 3].stateno
           x1 == yystack[n].major
           x2 == yystack[n - 1].major
           x3 == yystack[n - 2].major
           len == At(yyRuleInfoNRhs, Rule)
<1>1. n \in Nat /\ n >= 1 /\ yystack[1].stateno = 0
  BY DEF TypeOK, StackIsPath
<1>2. q \in 0..75
  <2>1. yystack[n] \in Entries
    BY <1>1 DEF TypeOK
  <2>2. QED
    BY <2>1 DEF Entries
<1>3. q = Action \/ (q = 7 /\ Action = 60)
  BY ActionValue DEF Top, ShiftRow
<1>4. Action \in 54..75
  <2> HIDE DEF q
  <2>1. QED
    BY <1>2, <1>3
<1> HIDE DEF n
<1>5. n >= 2 /\ Edge(s1, x1, q)
  <2>1. n \in 2..Len(yystack)
    <3>1. n # 1
      BY <1>1, <1>3
    <3>2. QED
      BY <1>1, <3>1 DEF n
  <2>2. Edge(yystack[n - 1].stateno, yystack[n].major, yystack[n].stateno)
    BY <2>1, StackEdges
  <2>3. QED
    BY <2>1, <2>2
<1>6. s1 # 0 => n >= 3 /\ Edge(s2, x2, s1)
  <2>1. SUFFICES ASSUME s1 # 0 PROVE n >= 3 /\ Edge(s2, x2, s1)
    OBVIOUS
  <2>2. n - 1 \in 2..Len(yystack)
    <3>1. n # 2
      BY <1>1, <2>1
    <3>2. n - 1 \in 2..n
      BY <1>1, <1>5, <3>1
    <3>3. QED
      BY <3>2 DEF n
  <2>3. Edge(yystack[n - 1 - 1].stateno, yystack[n - 1].major, yystack[n - 1].stateno)
    BY <2>2, StackEdges
  <2>4. n - 1 - 1 = n - 2
    BY <1>1
  <2>5. QED
    BY <1>1, <2>2, <2>3, <2>4
<1>7. s1 # 0 /\ s2 # 0 => n >= 4 /\ Edge(s3, x3, s2)
  <2>1. SUFFICES ASSUME s1 # 0, s2 # 0 PROVE n >= 4 /\ Edge(s3, x3, s2)
    OBVIOUS
  <2>2. n - 2 \in 2..Len(yystack)
    <3>1. n # 3
      BY <1>1, <2>1
    <3>2. n - 2 \in 2..n
      BY <1>1, <1>6, <2>1, <3>1
    <3>3. QED
      BY <3>2 DEF n
  <2>3. Edge(yystack[n - 2 - 1].stateno, yystack[n - 2].major, yystack[n - 2].stateno)
    BY <2>2, StackEdges
  <2>4. n - 2 - 1 = n - 3
    BY <1>1
  <2>5. QED
    BY <1>1, <2>2, <2>3, <2>4
<1>8. /\ Base = n - len
      /\ x1 = Below(0) /\ x2 = Below(1) /\ x3 = Below(2)
  BY <1>1 DEF Base, Below, n
<1> HIDE DEF q, s1, s2, s3, x1, x2, x3, len
<1>9. /\ Rule \in ReducedRules
      /\ Rule \in {0, 2, 3, 4, 5, 6, 13, 14} => BaseRow(Rule, s1)
      /\ Rule \in {1, 8, 10, 11, 12, 16, 18, 19} => s1 # 0 /\ BaseRow(Rule, s2)
      /\ Rule \in {7, 15} => s1 # 0 /\ s2 # 0 /\ BaseRow(Rule, s3)
  BY <1>3, <1>4, <1>5, <1>6, <1>7 DEF Edge, ReducedRules, BaseRow, Rule
<1>10. Handle(Rule)
  BY <1>3, <1>4, <1>5, <1>6, <1>7, <1>8 DEF Edge, Handle, Rule, AsObjContent, AsArrContent, AsValue,
     TOK_STRING, TOK_BOOLEAN, TOK_NUMBER, TOK_NULL, TOK_OBEGIN, TOK_OEND, TOK_ABEGIN, TOK_AEND,
     TOK_COMMA, TOK_COLON
<1>11. RuleRow(Rule, len, Lhs)
  BY <1>9, RuleTable DEF Lhs, len
<1>12. \/ len = 1 /\ Rule \in {0, 2, 3, 4, 5, 6, 13, 14}
       \/ len = 2 /\ Rule \in {1, 8, 10, 11, 12, 16, 18, 19}
       \/ len = 3 /\ Rule \in {7, 15}
  BY <1>11 DEF RuleRow
<1>13. len = 1 => Base \in 1..(n - 1) /\ BaseRow(Rule, yystack[Base].stateno)
  BY <1>1, <1>5, <1>8, <1>9, <1>12 DEF s1
<1>14. len = 2 => Base \in 1..(n - 1) /\ BaseRow(Rule, yystack[Base].stateno)
  BY <1>1, <1>6, <1>8, <1>9, <1>12 DEF s2
<1>15. len = 3 => Base \in 1..(n - 1) /\ BaseRow(Rule, yystack[Base].stateno)
  BY <1>1, <1>7, <1>8, <1>9, <1>12 DEF s3
<1>16. QED
  BY <1>9, <1>10, <1>12, <1>13, <1>14, <1>15 DEF n

\* The state entered after reducing each rule.
ResultRow(rule, act) ==
    \/ rule = 0 /\ act = 6
    \/ rule = 1 /\ act \in {5, 65}
    \/ rule \in 2..5 /\ act \in {2, 66, 73}
    \/ rule = 6 /\ act = 52
    \/ rule \in {7, 8} /\ act \in {2, 7, 66, 73}
    \/ rule \in {10, 11} /\ act = 5
    \/ rule = 12 /\ act = 55
    \/ rule = 13 /\ act = 1
    \/ rule = 14 /\ act \in {69, 70}
    \/ rule \in {15, 16} /\ act \in {2, 66, 73}
    \/ rule \in {18, 19} /\ act = 2

Goto == yy_find_reduce_action(yystack[Base].stateno, Lhs)

\* Every reduction finds its goto, so the assertions of yy_reduce hold.
LEMMA ReductionGoto ==
    ASSUME TypeOK, StackIsPath, Action >= YY_MIN_REDUCE
    PROVE  /\ GotoDefined(yystack[Base].stateno, Lhs)
           /\ Lhs \in 11..21
           /\ Edge(yystack[Base].stateno, Lhs, Goto)
           /\ ResultRow(Rule, Goto)
<1> DEFINE s == yystack[Base].stateno
<1>1. Rule \in ReducedRules /\ BaseRow(Rule, s)
  BY ReductionBase
<1>2. RuleRow(Rule, At(yyRuleInfoNRhs, Rule), Lhs)
  BY <1>1, RuleTable DEF Lhs
<1> HIDE DEF s
<1>3. s \in 0..6 /\ Lhs \in 11..21
  BY <1>1, <1>2 DEF BaseRow, RuleRow
<1>4. GotoDefined(s, Lhs)
  <2>1. \/ s = 0 /\ Lhs \in {11, 12}
        \/ s \in {1, 2, 3} /\ Lhs \in {12, 17, 18, 20}
        \/ s = 1 /\ Lhs \in {19, 21}
        \/ s = 2 /\ Lhs = 19
        \/ s \in {4, 5} /\ Lhs \in {14, 15}
        \/ s = 4 /\ Lhs = 13
        \/ s = 6 /\ Lhs = 16
    BY <1>1, <1>2 DEF BaseRow, RuleRow
  <2>2. QED
    BY <1>3, <2>1, GotoThere
<1>5. GotoRow(s, Lhs, yy_find_reduce_action(s, Lhs))
  BY <1>3, <1>4, GotoTable
<1>6. GotoRow(s, Lhs, Goto)
  BY <1>5 DEF Goto, s
<1>7. Edge(s, Lhs, Goto) /\ ResultRow(Rule, Goto)
  BY <1>1, <1>2, <1>6 DEF BaseRow, RuleRow, GotoRow, Edge, ResultRow
<1>8. QED
  BY <1>3, <1>4, <1>7 DEF s

\* Cutting a path and adding an entry where the tables lead gives a path.
LEMMA PathGrows ==
    ASSUME TypeOK, StackIsPath,
           NEW b \in 1..Len(yystack), NEW e \in Entries,
           yystack' = Append(SubSeq(yystack, 1, b), e),
           MayFollow(yystack[b].stateno, e.major),
           e.stateno = Transition(yystack[b].stateno, e.major)
    PROVE  /\ StackIsPath'
           /\ yystack' \in Seq(Entries)
           /\ Len(yystack') = b + 1
           /\ Top' = e
<1>1. yystack \in Seq(Entries) /\ b \in Nat
  BY DEF TypeOK
<1> DEFINE cut == SubSeq(yystack, 1, b)
<1>2. cut \in Seq(Entries) /\ Len(cut) = b /\ \A i \in 1..b : cut[i] = yystack[i]
  BY <1>1
<1>3. /\ yystack' \in Seq(Entries)
      /\ Len(yystack') = b + 1
      /\ yystack'[b + 1] = e
      /\ \A i \in 1..b : yystack'[i] = yystack[i]
  <2> HIDE DEF cut
  <2>1. yystack' = Append(cut, e)
    BY DEF cut
  <2>2. QED
    BY <1>1, <1>2, <2>1
<1>4. yystack'[1].stateno = 0
  BY <1>3 DEF StackIsPath
<1>5. ASSUME NEW i \in 2..Len(yystack')
      PROVE  /\ MayFollow(yystack'[i - 1].stateno, yystack'[i].major)
             /\ yystack'[i].stateno = Transition(yystack'[i - 1].stateno, yystack'[i].major)
  <2>1. CASE i = b + 1
    <3>1. i - 1 = b
      BY <1>1, <2>1
    <3>2. yystack'[i] = e /\ yystack'[i - 1] = yystack[b]
      BY <1>1, <1>3, <2>1, <3>1
    <3>3. QED
      BY <3>2
  <2>2. CASE i # b + 1
    <3>1. i \in 2..Len(yystack) /\ i \in 1..b /\ i - 1 \in 1..b
      BY <1>1, <1>3, <2>2
    <3>2. yystack'[i] = yystack[i] /\ yystack'[i - 1] = yystack[i - 1]
      BY <1>3, <3>1
    <3>3. QED
      BY <3>1, <3>2 DEF StackIsPath
  <2>3. QED
    BY <2>1, <2>2
<1>6. QED
  BY <1>3, <1>4, <1>5 DEF StackIsPath, Top
-----------------------------------------------------------------------------
(* The inductive invariant.                                                *)

\* yajp_parser_init establishes the invariant.
LEMMA InitIInv == Init => IInv
<1> SUFFICES ASSUME Init PROVE IInv
  OBVIOUS
<1> USE DEF Init, Sentinel, NoEntity, EntityTypes
<1>1. Sentinel \in Entries
  BY DEF Entries
<1>2. TypeOK
  BY <1>1, ParserAssumption DEF TypeOK
<1>3. StackIsPath
  BY DEF StackIsPath
<1>4. PendingIsPrevious /\ ReportOrder /\ EntityIsPreviousToken
  BY DEF PendingIsPrevious, ReportOrder, EntityIsPreviousToken, Top
<1>5. QED
  BY <1>2, <1>3, <1>4 DEF IInv

\* A call that begins keeps it: the entity has been reset.
LEMMA ParseIInv ==
    ASSUME IInv, NEW t \in Terminals, NEW m \in Minors, NEW ent \in Entities, Parse(t, m, ent)
    PROVE  IInv'
<1> USE DEF IInv, Parse, Entities, EntityTypes
<1>1. TypeOK'
  BY DEF TypeOK
<1>2. StackIsPath'
  BY DEF StackIsPath
<1>3. PendingIsPrevious'
  BY DEF PendingIsPrevious, Top
<1>4. ReportOrder' /\ EntityIsPreviousToken'
  BY DEF ReportOrder, EntityIsPreviousToken
<1>5. QED
  BY <1>1, <1>2, <1>3, <1>4

\* What a reduction puts on the stack.
LEMMA ReducePushes ==
    ASSUME IInv, Reduce
    PROVE  /\ StackIsPath'
           /\ yystack' \in Seq(Entries)
           /\ Len(yystack') \in 1..Len(yystack)
           /\ Top'.stateno = Goto
<1> DEFINE e == [stateno |-> Goto, major |-> Lhs, minor |-> yystack[Base + 1].minor]
<1>1. TypeOK /\ StackIsPath /\ Action >= YY_MIN_REDUCE
  BY DEF IInv, Reduce
<1>2. Base \in 1..(Len(yystack) - 1)
  BY <1>1, ReductionBase
<1>3. /\ GotoDefined(yystack[Base].stateno, Lhs)
      /\ Lhs \in 11..21
      /\ Edge(yystack[Base].stateno, Lhs, Goto)
  BY <1>1, ReductionGoto
<1>4. Goto \in 0..75
  BY <1>3 DEF Edge
<1>5. Len(yystack) \in Nat
  BY <1>1 DEF TypeOK
<1>6. yystack[Base + 1].minor \in Minors \cup {NoMinor}
  <2>1. yystack[Base + 1] \in Entries
    BY <1>1, <1>2, <1>5 DEF TypeOK
  <2>2. QED
    BY <2>1 DEF Entries
<1>7. e \in Entries
  BY <1>3, <1>4, <1>6 DEF Entries
<1>8. yystack' = Append(SubSeq(yystack, 1, Base), e)
  BY DEF Reduce, yy_reduce, Base, Rule, Lhs, Goto
<1>9. MayFollow(yystack[Base].stateno, e.major)
  BY <1>3 DEF MayFollow
<1>10. e.stateno = Transition(yystack[Base].stateno, e.major)
  BY <1>3 DEF Transition, Goto
<1>11. Base \in 1..Len(yystack)
  BY <1>2, <1>5
<1> HIDE DEF e
<1>12. /\ StackIsPath'
       /\ yystack' \in Seq(Entries)
       /\ Len(yystack') = Base + 1
       /\ Top' = e
  BY <1>1, <1>7, <1>8, <1>9, <1>10, <1>11, PathGrows
<1>13. QED
  BY <1>2, <1>5, <1>12 DEF e

\* What is on top: a state proper, acceptance, or a reduction that is due.
LEMMA TopState ==
    ASSUME TypeOK, StackIsPath
    PROVE  Top.stateno \in 0..7 \cup {52} \cup 54..75
<1> DEFINE n == Len(yystack)
<1>1. n \in Nat /\ n >= 1 /\ yystack[1].stateno = 0
  BY DEF TypeOK, StackIsPath
<1>2. CASE n = 1
  BY <1>1, <1>2 DEF Top
<1>3. CASE n # 1
  <2>1. n \in 2..Len(yystack)
    BY <1>1, <1>3, SMTT(30)
  <2>2. Edge(yystack[n - 1].stateno, yystack[n].major, Top.stateno)
    BY <2>1, StackEdges DEF Top
  <2>3. QED
    BY <2>2 DEF Edge
<1>4. QED
  BY <1>2, <1>3

\* A reduction is that of the state on top, or of rule 6 in state 7.
LEMMA ReducedState ==
    ASSUME TypeOK, Action >= YY_MIN_REDUCE
    PROVE  Top.stateno = Action \/ (Top.stateno = 7 /\ Action = 60)
  BY ActionValue DEF ShiftRow

\* What a reduction reports.
LEMMA ReduceReports ==
    ASSUME IInv, Reduce
    PROVE  /\ entity' \in [type : EntityTypes, token : Minors \cup {NoMinor}]
           /\ Rule = 0 => entity'.type = "KEY" /\ entity'.token = Top.minor
           /\ Rule \in 2..5 => entity'.type = "VALUE" /\ entity'.token = Top.minor
           /\ Rule = 1 => entity'.type = "PAIR"
           /\ Rule \notin 0..5 => entity' = entity
           /\ Rule = 1 => entity' = [entity EXCEPT !.type = "PAIR"]
<1>1. entity' = Recognized(Rule, Top.minor)
  BY DEF Reduce, yy_reduce, Rule
<1>2. entity \in [type : EntityTypes, token : Minors \cup {NoMinor}]
  BY DEF IInv, TypeOK
<1>3. Top.minor \in Minors \cup {NoMinor}
  <2>1. Top \in Entries
    BY DEF IInv, TypeOK, Top
  <2>2. QED
    BY <2>1 DEF Entries
<1>4. Rule \in ReducedRules
  BY ReductionBase DEF IInv, Reduce
<1>5. CASE Rule = 0
  BY <1>1, <1>3, <1>5 DEF Recognized, EntityTypes
<1>6. CASE Rule = 1
  BY <1>1, <1>2, <1>6 DEF Recognized, EntityTypes
<1>7. CASE Rule \in 2..5
  BY <1>1, <1>3, <1>7 DEF Recognized, EntityTypes
<1>8. CASE Rule \notin 0..5
  BY <1>1, <1>2, <1>8 DEF Recognized
<1>9. QED
  BY <1>4, <1>5, <1>6, <1>7, <1>8 DEF ReducedRules

\* A reduction keeps it.
LEMMA ReduceIInv ==
    ASSUME IInv, Reduce
    PROVE  IInv'
<1>1. /\ StackIsPath'
      /\ yystack' \in Seq(Entries)
      /\ Len(yystack') \in 1..Len(yystack)
      /\ Top'.stateno = Goto
  BY ReducePushes
<1>2. ResultRow(Rule, Goto)
  BY ReductionGoto DEF IInv, Reduce
<1>3. Top.stateno = Action \/ (Top.stateno = 7 /\ Action = 60)
  BY ReducedState DEF IInv, Reduce
<1>4. Action = Rule + 54 /\ Rule \in ReducedRules
  <2>1. Rule \in ReducedRules
    BY ReductionBase DEF IInv, Reduce
  <2>2. Action \in 0..75
    <3>1. Top \in Entries
      BY DEF IInv, TypeOK, Top
    <3>2. QED
      BY <1>3, <3>1 DEF Entries
  <2>3. QED
    BY <2>1, <2>2 DEF Rule
<1>5. /\ Rule = 0 => entity'.type = "KEY" /\ entity'.token = Top.minor
      /\ Rule \in 2..5 => entity'.type = "VALUE" /\ entity'.token = Top.minor
      /\ Rule = 1 => entity'.type = "PAIR"
      /\ Rule \notin 0..5 => entity' = entity
  BY ReduceReports
<1>6. /\ call.busy
      /\ UNCHANGED <<yyerrcnt, call, prev>>
  BY DEF Reduce
<1>7. TypeOK'
  <2>1. Len(yystack') \in 1..YYSTACKDEPTH
    BY <1>1, ParserAssumption DEF IInv, TypeOK
  <2>2. entity' \in [type : EntityTypes, token : Minors \cup {NoMinor}]
    BY ReduceReports
  <2>3. QED
    BY <1>1, <1>6, <2>1, <2>2 DEF IInv, TypeOK
<1>8. PendingIsPrevious'
  BY <1>1, <1>2, SMTT(30) DEF PendingIsPrevious, ResultRow
<1>9. ReportOrder'
  <2>1. CASE Rule \in 0..5
    BY <1>1, <1>2, <1>5, <2>1 DEF ReportOrder, ResultRow
  <2>2. CASE Rule \notin 0..5
    <3>1. entity' = entity /\ Action > 59
      BY <1>4, <1>5, <2>2 DEF ReducedRules
    <3>2. /\ entity.type = "KEY" => Top.stateno = 6
          /\ entity.type = "VALUE" => Top.stateno \in {2, 55, 66, 73}
          /\ entity.type = "PAIR" => Top.stateno \in {5, 65}
      BY <1>6 DEF IInv, ReportOrder
    <3>3. entity.type = "KEY" => FALSE
      BY <1>3, <3>1, <3>2
    <3>4. entity.type = "VALUE" => Rule \in {12, 19}
      BY <1>3, <1>4, <3>1, <3>2 DEF ReducedRules
    <3>5. entity.type = "PAIR" => Rule = 11
      BY <1>3, <1>4, <3>1, <3>2 DEF ReducedRules
    <3>6. QED
      BY <1>1, <1>2, <3>1, <3>3, <3>4, <3>5, SMTT(30) DEF ReportOrder, ResultRow
  <2>3. QED
    BY <2>1, <2>2
<1>10. EntityIsPreviousToken'
  <2>1. CASE Rule \in {0} \cup 2..5
    <3>1. Top.stateno \in {54} \cup 56..59
      BY <1>3, <1>4, <2>1
    <3>2. Top.minor = prev
      BY <1>6, <3>1 DEF IInv, PendingIsPrevious
    <3>3. QED
      BY <1>5, <1>6, <2>1, <3>2 DEF EntityIsPreviousToken
  <2>2. CASE Rule = 1
    BY <1>5, <2>2 DEF EntityIsPreviousToken
  <2>3. CASE Rule \notin 0..5
    BY <1>5, <1>6, <2>3 DEF IInv, EntityIsPreviousToken
  <2>4. QED
    BY <1>4, <2>1, <2>2, <2>3 DEF ReducedRules
<1>11. QED
  BY <1>1, <1>7, <1>8, <1>9, <1>10 DEF IInv

\* What the caller sees of a call that ends.
LEMMA Returned ==
    ASSUME TypeOK, Return
    PROVE  /\ call' \in [busy : BOOLEAN, major : Terminals, minor : Minors \cup {NoMinor}]
           /\ ~call'.busy
           /\ call'.minor = call.minor
<1>1. call.major \in Terminals /\ call.minor \in Minors \cup {NoMinor}
  BY DEF TypeOK
<1>2. call' = [busy |-> FALSE, major |-> call.major, minor |-> call.minor]
  BY DEF Return
<1>3. QED
  BY <1>1, <1>2

\* The count of errors stays where its sign is all that matters.
LEMMA ErrorCount ==
    ASSUME TypeOK
    PROVE  OneErrorLess \in -1..3
  BY DEF TypeOK, OneErrorLess

\* A call that reports nothing keeps what was reported.
LEMMA ReportKept ==
    ASSUME IInv, Return, UNCHANGED <<prev, entity>>
    PROVE  ReportOrder' /\ EntityIsPreviousToken'
  BY Returned DEF IInv, ReportOrder, EntityIsPreviousToken

\* A shift keeps it: the entry pushed is where the tables lead.
LEMMA ShiftIInv ==
    ASSUME IInv, Shift
    PROVE  IInv'
<1> DEFINE n == Len(yystack)
           e == [stateno |-> ShiftState(Action), major |-> call.major, minor |-> call.minor]
<1>1. TypeOK /\ StackIsPath
  BY DEF IInv
<1>2. n \in Nat /\ n >= 1 /\ n < YYSTACKDEPTH /\ yystack \in Seq(Entries)
  BY <1>1 DEF TypeOK, Shift
<1>3. Top.stateno \in 0..7 /\ ShiftRow(Top.stateno, call.major, Action) /\ Action <= 50
  <2>1. Action <= 50
    BY DEF Shift
  <2>2. \/ Top.stateno > 7 /\ Action = Top.stateno
        \/ Top.stateno \in 0..7 /\ ShiftRow(Top.stateno, call.major, Action)
    BY <1>1, ActionValue
  <2>3. Top.stateno \in 0..7 \/ Top.stateno \in 52..75
    BY <1>1, TopState
  <2>4. QED
    BY <2>1, <2>2, <2>3
<1>4. call.major \in Terminals /\ call.minor \in Minors \cup {NoMinor}
  BY <1>1 DEF TypeOK
<1>5. ShiftState(Action) \in {3, 4, 54, 56, 57, 58, 59, 61, 62, 64, 67, 68, 72}
  BY <1>3 DEF ShiftRow, ShiftState
<1>6. e \in Entries
  BY <1>4, <1>5 DEF Entries
<1>7. yystack' = Append(SubSeq(yystack, 1, n), e)
  <2>1. SubSeq(yystack, 1, n) = yystack
    BY <1>2
  <2>2. QED
    BY <2>1 DEF Shift
<1>8. /\ MayFollow(yystack[n].stateno, e.major)
      /\ e.stateno = Transition(yystack[n].stateno, e.major)
  BY <1>3, <1>4 DEF MayFollow, Transition, Action, Top
<1>9. n \in 1..Len(yystack)
  BY <1>2
<1> HIDE DEF e
<1>10. /\ StackIsPath'
       /\ yystack' \in Seq(Entries)
       /\ Len(yystack') = n + 1
       /\ Top' = e
  BY <1>1, <1>6, <1>7, <1>8, <1>9, PathGrows
<1>11. TypeOK'
  <2>1. Len(yystack') \in 1..YYSTACKDEPTH
    BY <1>2, <1>10, ParserAssumption
  <2>2. yyerrcnt' \in -1..3
    BY <1>1, ErrorCount DEF Shift
  <2>3. QED
    BY <1>1, <1>10, <2>1, <2>2, Returned DEF TypeOK, Shift
<1>12. PendingIsPrevious'
  BY <1>1, <1>10, Returned DEF PendingIsPrevious, Shift, e
<1>13. ReportOrder' /\ EntityIsPreviousToken'
  BY ReportKept DEF Shift
<1>14. QED
  BY <1>10, <1>11, <1>12, <1>13 DEF IInv

\* The calls that end with the stack popped back to its sentinel.
LEMMA SentinelIInv ==
    ASSUME IInv, yystack' = <<Sentinel>>, Return, yyerrcnt' \in -1..3,
           UNCHANGED <<prev, entity>>
    PROVE  IInv'
<1>1. Sentinel \in Entries
  BY DEF Entries, Sentinel
<1>2. TypeOK'
  BY <1>1, Returned, ParserAssumption DEF IInv, TypeOK
<1>3. StackIsPath' /\ PendingIsPrevious'
  BY DEF StackIsPath, PendingIsPrevious, Top, Sentinel
<1>4. ReportOrder' /\ EntityIsPreviousToken'
  BY ReportKept
<1>5. QED
  BY <1>2, <1>3, <1>4 DEF IInv

\* A full stack keeps it, being popped to the sentinel.
LEMMA OverflowIInv ==
    ASSUME IInv, Overflow
    PROVE  IInv'
<1>1. yyerrcnt' \in -1..3
  BY ErrorCount DEF IInv, Overflow
<1>2. QED
  BY <1>1, SentinelIInv DEF Overflow

\* The document has been reduced to the start symbol, which stands alone.
LEMMA AcceptedIsAlone ==
    ASSUME TypeOK, StackIsPath, Action = YY_ACCEPT_ACTION
    PROVE  Len(yystack) = 2
<1> DEFINE n == Len(yystack)
<1>1. n \in Nat /\ n >= 1
  BY DEF TypeOK
<1>2. Top.stateno = 52
  BY ActionValue DEF ShiftRow
<1>3. n # 1
  BY <1>2 DEF Top, StackIsPath
<1>4. n \in 2..Len(yystack)
  BY <1>1, <1>3
<1>5. Edge(yystack[n - 1].stateno, yystack[n].major, yystack[n].stateno)
  BY <1>4, StackEdges
<1>6. yystack[n - 1].stateno = 0
  BY <1>2, <1>5 DEF Edge, Top
<1>7. n - 1 \in 1..Len(yystack)
  BY <1>4
<1>8. n - 1 = 1
  BY <1>6, <1>7, OnlySentinelIsZero
<1>9. QED
  BY <1>1, <1>8

\* Acceptance keeps it: only the sentinel is left.
LEMMA AcceptIInv ==
    ASSUME IInv, Accept
    PROVE  IInv'
<1>1. Len(yystack) = 2
  BY AcceptedIsAlone DEF IInv, Accept
<1>2. yystack' = SubSeq(yystack, 1, 1) /\ yystack \in Seq(Entries)
  BY <1>1 DEF Accept, IInv, TypeOK
<1>3. /\ yystack' \in Seq(Entries)
      /\ Len(yystack') = 1
      /\ yystack'[1] = yystack[1]
  BY <1>1, <1>2
<1>4. TypeOK'
  BY <1>3, Returned, ParserAssumption DEF IInv, TypeOK, Accept
<1>5. StackIsPath' /\ PendingIsPrevious'
  BY <1>3 DEF IInv, StackIsPath, PendingIsPrevious, Top
<1>6. ReportOrder' /\ EntityIsPreviousToken'
  BY ReportKept DEF Accept
<1>7. QED
  BY <1>4, <1>5, <1>6 DEF IInv

\* A token thrown away keeps it.
LEMMA SyntaxErrorIInv ==
    ASSUME IInv, SyntaxError
    PROVE  IInv'
<1>1. CASE call.major = TOK_EOF
  BY <1>1, SentinelIInv DEF SyntaxError
<1>2. CASE call.major # TOK_EOF
  <2>1. /\ UNCHANGED <<yystack, prev, entity>>
        /\ yyerrcnt' = 3
        /\ Return
    BY <1>2 DEF SyntaxError
  <2>2. Top.stateno \in 0..7
    BY ActionValue, TopState DEF SyntaxError, IInv
  <2>3. TypeOK' /\ StackIsPath'
    BY <2>1, Returned DEF IInv, TypeOK, StackIsPath
  <2>4. PendingIsPrevious'
    BY <2>1, <2>2 DEF PendingIsPrevious, Top
  <2>5. ReportOrder' /\ EntityIsPreviousToken'
    BY <2>1, ReportKept
  <2>6. QED
    BY <2>3, <2>4, <2>5 DEF IInv
<1>3. QED
  BY <1>1, <1>2

\* Before a reduction its right-hand side is on top of the stack.
LEMMA HandleThere ==
    ASSUME TypeOK, StackIsPath
    PROVE  HandleOnTop
<1>1. SUFFICES ASSUME Action >= YY_MIN_REDUCE
               PROVE  Len(yystack) > At(yyRuleInfoNRhs, Rule) /\ Handle(Rule)
  BY DEF HandleOnTop, Rule
<1>2. /\ Rule \in ReducedRules
      /\ Base \in 1..(Len(yystack) - 1)
      /\ Handle(Rule)
  BY <1>1, ReductionBase
<1>3. At(yyRuleInfoNRhs, Rule) \in 1..3
  BY <1>2, RuleTable DEF RuleRow
<1>4. QED
  BY <1>2, <1>3 DEF Base, TypeOK

\* The assertions of the engine follow from the path.
LEMMA AssertionsThere ==
    ASSUME TypeOK, StackIsPath
    PROVE  AssertionsHold
<1>1. CASE Action >= YY_MIN_REDUCE
  <2>1. /\ Rule \in ReducedRules
        /\ Base \in 1..(Len(yystack) - 1)
    BY <1>1, ReductionBase
  <2>2. /\ GotoDefined(yystack[Base].stateno, Lhs)
        /\ ResultRow(Rule, Goto)
    BY <1>1, ReductionGoto
  <2>3. Rule \notin {9, 17, 20, 21} /\ Base >= 1
    BY <2>1 DEF ReducedRules, TypeOK
  <2>4. ~(Goto > YY_MAX_SHIFT /\ Goto <= YY_MAX_SHIFTREDUCE) /\ Goto # YY_ERROR_ACTION
    BY <2>2 DEF ResultRow
  <2>5. QED
    BY <1>1, <2>2, <2>3, <2>4 DEF AssertionsHold, Rule, Base, Lhs, Goto
<1>2. CASE Action = YY_ACCEPT_ACTION
  BY <1>2, AcceptedIsAlone DEF AssertionsHold
<1>3. Action >= YY_MIN_REDUCE \/ Action <= YY_MAX_SHIFTREDUCE \/ Action \in {51, 52}
  BY ActionValue, TopState DEF ShiftRow
<1>4. QED
  BY <1>1, <1>2, <1>3 DEF AssertionsHold

NoReportLostStep ==
    call.busy /\ entity' # entity =>
        \/ entity.type = "NONE"
        \/ entity.type = "VALUE" /\ entity' = [entity EXCEPT !.type = "PAIR"]

\* A reduction that reports finds nothing reported, or the value of its pair.
LEMMA OneReport ==
    ASSUME IInv, [Next]_parserVars
    PROVE  NoReportLostStep
<1>1. CASE Reduce
  <2>1. Top.stateno = Action \/ (Top.stateno = 7 /\ Action = 60)
    BY <1>1, ReducedState DEF IInv, Reduce
  <2>2. Rule \in ReducedRules /\ Action = Rule + 54
    <3>1. Rule \in ReducedRules
      BY <1>1, ReductionBase DEF IInv, Reduce
    <3>2. Action \in 0..75
      BY <2>1, TopState DEF IInv
    <3>3. QED
      BY <3>1, <3>2 DEF Rule
  <2>3. entity.type \in EntityTypes
    BY DEF IInv, TypeOK
  <2>4. CASE Rule \notin 0..5
    BY <1>1, <2>4, ReduceReports DEF NoReportLostStep
  <2>5. CASE Rule \in 0..5
    <3>1. Action \in 54..59 /\ Top.stateno = Action
      BY <2>1, <2>2, <2>5
    <3>2. entity.type \in {"NONE", "VALUE"} /\ (entity.type = "VALUE" => Rule = 1)
      BY <1>1, <2>2, <2>3, <3>1 DEF IInv, ReportOrder, Reduce, EntityTypes, ReducedRules
    <3>3. QED
      BY <1>1, <3>2, ReduceReports DEF NoReportLostStep
  <2>6. QED
    BY <2>4, <2>5
<1>2. CASE UNCHANGED entity
  BY <1>2 DEF NoReportLostStep
<1>3. CASE ~call.busy
  BY <1>3 DEF NoReportLostStep
<1>4. QED
  BY <1>1, <1>2, <1>3 DEF Next, Step, Parse, Shift, Overflow, Accept, SyntaxError, parserVars

\* The states in which a value that was shifted waits to be reduced.
ValueStates == 56..59

\* One reduction, seen from the states before and after it: a value that waits
\* is reported, a pair takes its value's place, and else nothing is reported but keys.
LEMMA OneReduction ==
    ASSUME IInv, Reduce
    PROVE  /\ Top'.stateno \notin ValueStates
           /\ Top.stateno \notin {0, 1, 3, 4, 6}
           /\ Top.stateno = 67 => Top'.stateno = 1 /\ entity' = entity
           /\ entity'.type = "NONE" => entity' = entity
           /\ Top.stateno \in ValueStates => entity'.type = "VALUE"
           /\ entity'.type = "VALUE" => \/ entity' = entity
                                        \/ Top.stateno \in ValueStates /\ entity'.token = prev
           /\ entity'.type = "PAIR" => \/ entity' = entity
                                       \/ Top.stateno = 55 /\ entity'.token = entity.token
<1>1. Top'.stateno = Goto /\ ResultRow(Rule, Goto)
  BY ReducePushes, ReductionGoto DEF IInv, Reduce
<1>2. Top.stateno = Action \/ (Top.stateno = 7 /\ Action = 60)
  BY ReducedState DEF IInv, Reduce
<1>3. Action = Rule + 54 /\ Rule \in ReducedRules
  <2>1. Rule \in ReducedRules
    BY ReductionBase DEF IInv, Reduce
  <2>2. Action \in 0..75
    BY <1>2, TopState DEF IInv
  <2>3. QED
    BY <2>1, <2>2 DEF Rule
<1>4. /\ Rule = 0 => entity'.type = "KEY"
      /\ Rule \in 2..5 => entity'.type = "VALUE"
      /\ Rule = 1 => entity'.type = "PAIR" /\ entity'.token = entity.token
      /\ Rule \notin 0..5 => entity' = entity
  <2>1. entity \in [type : EntityTypes, token : Minors \cup {NoMinor}]
    BY DEF IInv, TypeOK
  <2>2. Rule = 1 => entity'.token = entity.token
    BY <2>1, ReduceReports
  <2>3. QED
    BY <2>2, ReduceReports
<1>5. entity'.type = "VALUE" => entity'.token = prev
  BY ReduceIInv DEF IInv, EntityIsPreviousToken, Reduce
<1>6. Top'.stateno \notin ValueStates /\ Top.stateno \notin {0, 1, 3, 4, 6}
  BY <1>1, <1>2, <1>3 DEF ResultRow, ReducedRules, ValueStates
<1>7. Top.stateno = 67 => Top'.stateno = 1 /\ entity' = entity
  BY <1>1, <1>2, <1>3, <1>4 DEF ResultRow, ReducedRules
<1>8. Top.stateno \in ValueStates <=> Rule \in 2..5
  BY <1>2, <1>3 DEF ReducedRules, ValueStates
<1>9. Top.stateno = 55 <=> Rule = 1
  BY <1>2, <1>3 DEF ReducedRules
<1>10. QED
  BY <1>3, <1>4, <1>5, <1>6, <1>7, <1>8, <1>9 DEF ReducedRules

\* The end of a call: the token is on the stack over a state proper, or the stack is
\* as it was, or empty; what was reported stays.
LEMMA CallEnds ==
    ASSUME IInv, Step, ~Reduce
    PROVE  /\ call.busy /\ ~call'.busy /\ call'.major = call.major /\ call'.minor = call.minor
           /\ UNCHANGED <<prev, entity>>
           /\ \/ Top'.stateno = 0
              \/ Top'.stateno = Top.stateno /\ Top.stateno \in 0..7
              \/ Edge(Top.stateno, call.major, Top'.stateno)
<1>0. Return => ~call'.busy /\ call'.major = call.major /\ call'.minor = call.minor
  BY DEF Return
<1>1. CASE Shift
  <2>1. UNCHANGED <<prev, entity>> /\ Return /\ call.busy
    BY <1>1 DEF Shift
  <2>2. Top.stateno \in 0..7 /\ ShiftRow(Top.stateno, call.major, Action) /\ Action <= 50
    <3>1. Action <= 50
      BY <1>1 DEF Shift
    <3>2. \/ Top.stateno > 7 /\ Action = Top.stateno
          \/ Top.stateno \in 0..7 /\ ShiftRow(Top.stateno, call.major, Action)
      BY ActionValue DEF IInv
    <3>3. Top.stateno \in 0..7 \/ Top.stateno \in 52..75
      BY TopState DEF IInv
    <3>4. QED
      BY <3>1, <3>2, <3>3
  <2>3. Edge(Top.stateno, call.major, ShiftState(Action))
    BY <2>2 DEF ShiftRow, ShiftState, Edge
  <2>4. Top'.stateno = ShiftState(Action)
    <3> DEFINE e == [stateno |-> ShiftState(Action), major |-> call.major, minor |-> call.minor]
    <3>1. yystack' = Append(yystack, e) /\ yystack \in Seq(Entries)
      BY <1>1 DEF Shift, IInv, TypeOK
    <3>2. e.stateno = ShiftState(Action)
      OBVIOUS
    <3> HIDE DEF e
    <3>3. Top' = e
      BY <3>1 DEF Top
    <3>4. QED
      BY <3>2, <3>3
  <2>5. QED
    BY <1>0, <2>1, <2>3, <2>4
<1>2. CASE yystack' = <<Sentinel>> /\ Return /\ UNCHANGED <<prev, entity>> /\ call.busy
  <2>1. Top'.stateno = 0
    BY <1>2 DEF Top, Sentinel
  <2>2. QED
    BY <1>0, <1>2, <2>1
<1>3. CASE Accept
  <2>1. Len(yystack) = 2 /\ yystack \in Seq(Entries) /\ yystack[1].stateno = 0
    BY <1>3, AcceptedIsAlone DEF IInv, Accept, TypeOK, StackIsPath
  <2>2. yystack' = SubSeq(yystack, 1, 1)
    BY <1>3, <2>1 DEF Accept
  <2>3. Len(yystack') = 1 /\ yystack'[1] = yystack[1]
    BY <2>1, <2>2
  <2>4. Top'.stateno = 0
    BY <2>1, <2>3 DEF Top
  <2>5. QED
    BY <1>0, <1>3, <2>4 DEF Accept
<1>4. CASE SyntaxError /\ call.major # TOK_EOF
  <2>1. UNCHANGED <<yystack, prev, entity>> /\ Return /\ call.busy
    BY <1>4 DEF SyntaxError
  <2>2. Top.stateno \in 0..7
    BY <1>4, ActionValue, TopState DEF SyntaxError, IInv
  <2>3. QED
    BY <1>0, <2>1, <2>2 DEF Top
<1>5. QED
  BY <1>1, <1>2, <1>3, <1>4 DEF Step, Overflow, SyntaxError

\* Every step keeps the invariant.
LEMMA NextIInv ==
    ASSUME IInv, [Next]_parserVars
    PROVE  IInv'
<1>1. ASSUME NEW t \in Terminals, NEW m \in Minors, NEW ent \in Entities, Parse(t, m, ent) PROVE IInv'
  BY <1>1, ParseIInv
<1>2. CASE Reduce
  BY <1>2, ReduceIInv
<1>3. CASE Shift
  BY <1>3, ShiftIInv
<1>4. CASE Overflow
  BY <1>4, OverflowIInv
<1>5. CASE Accept
  BY <1>5, AcceptIInv
<1>6. CASE SyntaxError
  BY <1>6, SyntaxErrorIInv
<1>7. CASE UNCHANGED parserVars
  BY <1>7 DEF parserVars, IInv, TypeOK, StackIsPath, PendingIsPrevious,
              ReportOrder, EntityIsPreviousToken, Top
<1>8. QED
  BY <1>1, <1>2, <1>3, <1>4, <1>5, <1>6, <1>7 DEF Next, Step

\* The invariant behind every theorem below: it holds in every state that any
\* sequence of tokens can reach.
THEOREM Invariance == Spec => []IInv
<1>1. Init => IInv
  BY InitIInv
<1>2. IInv /\ [Next]_parserVars => IInv'
  BY NextIInv
<1>3. QED
  BY <1>1, <1>2, PTL DEF Spec

-----------------------------------------------------------------------------
(* What the runs check on a stack of nine and two references, for a stack  *)
(* of any depth and any references.                                        *)

\* The engine's state stays well formed, the stack within its array included.
THEOREM TypeCorrect == Spec => []TypeOK
<1>1. IInv => TypeOK
  BY DEF IInv
<1>2. QED
  BY <1>1, Invariance, PTL

\* Whatever tokens are passed, and however many are thrown away, the stack
\* spells a path of the automaton.
THEOREM PathTheorem == Spec => []StackIsPath
<1>1. IInv => StackIsPath
  BY DEF IInv
<1>2. QED
  BY <1>1, Invariance, PTL

\* The right-hand side of the rule about to be reduced is on the stack.
THEOREM HandleTheorem == Spec => []HandleOnTop
<1>1. IInv => HandleOnTop
  BY HandleThere DEF IInv
<1>2. QED
  BY <1>1, Invariance, PTL

\* No assertion of the engine fails, and no reduction pops the sentinel.
THEOREM AssertionTheorem == Spec => []AssertionsHold
<1>1. IInv => AssertionsHold
  BY AssertionsThere DEF IInv
<1>2. QED
  BY <1>1, Invariance, PTL

\* The token a key or a value is reported with is that of the call before.
THEOREM PreviousTokenTheorem == Spec => []EntityIsPreviousToken
<1>1. IInv => EntityIsPreviousToken
  BY DEF IInv
<1>2. QED
  BY <1>1, Invariance, PTL

\* No report is replaced by another within a call, but a value's by its pair's.
THEOREM NoReportLostTheorem == Spec => NoReportLost
<1>1. IInv /\ [Next]_parserVars => [NoReportLostStep]_parserVars
  BY OneReport, Zenon DEF NoReportLostStep
<1>2. QED
  BY <1>1, Invariance, PTL DEF Spec, NoReportLost, NoReportLostStep
=============================================================================
