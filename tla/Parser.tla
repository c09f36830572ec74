------------------------------- MODULE Parser -------------------------------
(***************************************************************************)
(* The LALR(1) engine of src/parser.c: the tables lemon generated from     *)
(* extern/parser.y, the stack, and yajp_parser_parse(), which is handed    *)
(* one token per call.  A call is a loop of reductions that ends with a    *)
(* shift, with acceptance, or with the token thrown away; each turn of the *)
(* loop is one step here, so that the engine's own assertions can be       *)
(* stated between two turns.                                               *)
(*                                                                         *)
(* A token is its code (yymajor) and a reference (yyminor: the address of  *)
(* the caller's yajp_lexer_token_t).  The engine never looks behind the    *)
(* reference; it only gives it back in `entity'.                           *)
(***************************************************************************)
EXTENDS Integers, Sequences

CONSTANTS YYSTACKDEPTH,   \* entries of yystack, the sentinel at its bottom included
          Minors,         \* the token references a caller may pass
          NoMinor         \* an uninitialised reference

ASSUME ParserAssumption == /\ YYSTACKDEPTH \in Nat \ {0}
                           /\ NoMinor \notin Minors

-----------------------------------------------------------------------------
(* Symbol codes: 0 is the end of the input, 1..10 the other terminals,     *)
(* 11..21 the non-terminals (yyTokenName[]).                               *)
TOK_EOF == 0
TOK_OBEGIN == 1
TOK_OEND == 2
TOK_COMMA == 3
TOK_STRING == 4
TOK_COLON == 5
TOK_ABEGIN == 6
TOK_AEND == 7
TOK_BOOLEAN == 8
TOK_NUMBER == 9
TOK_NULL == 10

Terminals == 0..10
Symbols == 0..21

YY_MAX_SHIFT == 7
YY_MIN_SHIFTREDUCE == 29
YY_MAX_SHIFTREDUCE == 50
YY_ERROR_ACTION == 51
YY_ACCEPT_ACTION == 52
YY_MIN_REDUCE == 54
YY_REDUCE_COUNT == 6
YY_ACTTAB_COUNT == 60

yy_action ==
    <<55,  4, 60, 47, 31,  4, 42, 43, 32, 33,
      34,  4,  3, 37, 31, 29, 42, 43, 32, 33,
      34,  2, 36, 39, 29, 53,  2,  1, 70,  2,
       2,  4, 52,  7, 31, 53, 42, 53, 32, 33,
      34, 73, 65,  6, 53, 53, 73,  1, 69, 73,
      53, 66, 53,  5,  5,  6, 66,  1, 53, 66>>

yy_lookahead ==
    <<16,  1,  0,  3,  4,  1,  6,  7,  8,  9,
      10,  1,  5,  2,  4,  4,  6,  7,  8,  9,
      10, 12,  2,  3,  4, 22, 17, 18, 19, 20,
      21,  1, 11, 12,  4, 22,  6, 22,  8,  9,
      10, 12, 14, 15, 22, 22, 17, 18, 19, 20,
      22, 12, 22, 13, 14, 15, 17, 18, 22, 20,
      11, 11, 11, 11, 11, 11, 11, 11, 11, 11,
      11>>

yy_shift_ofst == <<4, 10, 0, 30, 11, 20, 7, 2>>

yy_reduce_ofst == <<21, 9, 29, 39, 40, 28, -16>>

yyRuleInfoLhs ==
    <<15, 14, 17, 17, 17, 17, 11, 12, 12, 13, 13,
      13, 16, 18, 19, 20, 20, 21, 21, 21, 17, 17>>

\* Variant: rule 7 leaves the opening brace on the stack.
yyRuleInfoNRhsShort ==
    <<1, 2, 1, 1, 1, 1, 1, 2, 2, 1, 2,
      2, 2, 1, 1, 3, 2, 1, 2, 2, 1, 1>>

\* The table holds the lengths negated; only the length is used here.
yyRuleInfoNRhs ==
    <<1, 2, 1, 1, 1, 1, 1, 3, 2, 1, 2,
      2, 2, 1, 1, 3, 2, 1, 2, 2, 1, 1>>

\* C arrays start at 0 and TLA+ sequences at 1.
At(table, i) == table[i + 1]

\* What to do in state s on terminal t.  A number above YY_MAX_SHIFT is not a
\* state but a pending reduction (or acceptance), due whatever the token is.
yy_find_shift_action(t, s) ==
    IF s > YY_MAX_SHIFT THEN s
    ELSE LET i == At(yy_shift_ofst, s) + t
         IN  IF At(yy_lookahead, i) = t THEN At(yy_action, i) ELSE YY_ERROR_ACTION

\* The assertions at the head of yy_find_reduce_action.
GotoDefined(s, n) ==
    /\ s \in 0..YY_REDUCE_COUNT
    /\ At(yy_reduce_ofst, s) + n \in 0..(YY_ACTTAB_COUNT - 1)
    /\ At(yy_lookahead, At(yy_reduce_ofst, s) + n) = n

\* The state entered from s after reducing to non-terminal n.
yy_find_reduce_action(s, n) == At(yy_action, At(yy_reduce_ofst, s) + n)
-----------------------------------------------------------------------------
VARIABLES
    yystack,    \* sequence of [stateno, major, minor], the sentinel first
    yyerrcnt,   \* shifts left before the next error is reported
    call,       \* the call in progress, or the last one
    prev,       \* the reference passed to the call before that one
    entity      \* yajp_parser_recognized_entity_t of the caller

parserVars == <<yystack, yyerrcnt, call, prev, entity>>

Sentinel == [stateno |-> 0, major |-> 0, minor |-> NoMinor]

EntityTypes == {"NONE", "KEY", "VALUE", "PAIR"}

NoEntity == [type |-> "NONE", token |-> NoMinor]

\* What a caller passes in: the type is reset, the token is what was there.
Entities == [type : {"NONE"}, token : Minors \cup {NoMinor}]

Top == yystack[Len(yystack)]

\* yyact at the head of the loop of yajp_parser_parse.
Action == yy_find_shift_action(call.major, Top.stateno)

Init ==
    /\ yystack = <<Sentinel>>
    /\ yyerrcnt = -1
    /\ call = [busy |-> FALSE, major |-> TOK_EOF, minor |-> NoMinor]
    /\ prev = NoMinor
    /\ entity = NoEntity

\* Variant: what an earlier call reported is still there.
ParseUnreset(t, m, ent) ==
    /\ ~call.busy
    /\ call' = [busy |-> TRUE, major |-> t, minor |-> m]
    /\ prev' = call.minor
    /\ UNCHANGED <<entity, yystack, yyerrcnt>>

\* A caller passes token (t, m), and an entity to be filled in.
Parse(t, m, ent) ==
    /\ ~call.busy
    /\ call' = [busy |-> TRUE, major |-> t, minor |-> m]
    /\ prev' = call.minor
    /\ entity' = ent
    /\ UNCHANGED <<yystack, yyerrcnt>>

Return == call' = [busy |-> FALSE, major |-> call.major, minor |-> call.minor]

\* Only the sign of yyerrcnt is ever tested, so the count stops at -1.
OneErrorLess == IF yyerrcnt > -1 THEN yyerrcnt - 1 ELSE -1

\* Variants: an object is reported as a value; a pair brings its last token.
RecognizedObject(rule, token) ==
    CASE rule = 0       -> [type |-> "KEY", token |-> token]
      [] rule = 1       -> [entity EXCEPT !.type = "PAIR"]
      [] rule \in 2..6  -> [type |-> "VALUE", token |-> token]
      [] OTHER          -> entity

RecognizedPair(rule, token) ==
    CASE rule = 0       -> [type |-> "KEY", token |-> token]
      [] rule = 1       -> [type |-> "PAIR", token |-> call.minor]
      [] rule \in 2..5  -> [type |-> "VALUE", token |-> token]
      [] OTHER          -> entity

\* What the reduction of a rule tells the caller; `token' keeps its value when
\* a pair is recognised.
Recognized(rule, token) ==
    CASE rule = 0       -> [type |-> "KEY", token |-> token]
      [] rule = 1       -> [entity EXCEPT !.type = "PAIR"]
      [] rule \in 2..5  -> [type |-> "VALUE", token |-> token]
      [] OTHER          -> entity

\* yy_reduce: pop the right-hand side, push the left-hand side.  The new entry
\* takes the place of the leftmost symbol and keeps the reference found there.
yy_reduce(rule) ==
    LET base == Len(yystack) - At(yyRuleInfoNRhs, rule)
        lhs  == At(yyRuleInfoLhs, rule)
    IN  /\ entity' = Recognized(rule, Top.minor)
        /\ yystack' = Append(SubSeq(yystack, 1, base),
                             [stateno |-> yy_find_reduce_action(yystack[base].stateno, lhs),
                              major |-> lhs,
                              minor |-> yystack[base + 1].minor])

\* Variant: the caller is told, the stack is forgotten.
ReduceReportOnly ==
    /\ call.busy
    /\ Action >= YY_MIN_REDUCE
    /\ entity' = Recognized(Action - YY_MIN_REDUCE, Top.minor)
    /\ UNCHANGED <<yystack, yyerrcnt, call, prev>>

Reduce ==
    /\ call.busy
    /\ Action >= YY_MIN_REDUCE
    /\ yy_reduce(Action - YY_MIN_REDUCE)
    /\ UNCHANGED <<yyerrcnt, call, prev>>

\* Variant: a shift-reduce is entered as if it were a state.
ShiftStateRaw(act) == act

\* The state a shift enters: a shift-reduce becomes a pending reduction.
ShiftState(act) ==
    IF act > YY_MAX_SHIFT THEN act + (YY_MIN_REDUCE - YY_MIN_SHIFTREDUCE) ELSE act

\* Variant: the test for a full stack comes one entry late.
ShiftIntoFullStack ==
    /\ call.busy
    /\ Action <= YY_MAX_SHIFTREDUCE
    /\ Len(yystack) <= YYSTACKDEPTH
    /\ yystack' = Append(yystack, [stateno |-> ShiftState(Action),
                                   major |-> call.major,
                                   minor |-> call.minor])
    /\ yyerrcnt' = OneErrorLess
    /\ Return
    /\ UNCHANGED <<prev, entity>>

Shift ==
    /\ call.busy
    /\ Action <= YY_MAX_SHIFTREDUCE
    /\ Len(yystack) < YYSTACKDEPTH
    /\ yystack' = Append(yystack, [stateno |-> ShiftState(Action),
                                   major |-> call.major,
                                   minor |-> call.minor])
    /\ yyerrcnt' = OneErrorLess
    /\ Return
    /\ UNCHANGED <<prev, entity>>

\* Variant: the stack is popped and the token pushed all the same.
OverflowThenPush ==
    /\ call.busy
    /\ Action <= YY_MAX_SHIFTREDUCE
    /\ Len(yystack) >= YYSTACKDEPTH
    /\ yystack' = <<Sentinel, [stateno |-> ShiftState(Action), major |-> call.major, minor |-> call.minor]>>
    /\ yyerrcnt' = OneErrorLess
    /\ Return
    /\ UNCHANGED <<prev, entity>>

\* yyStackOverflow: the whole stack is popped and nobody is told.
Overflow ==
    /\ call.busy
    /\ Action <= YY_MAX_SHIFTREDUCE
    /\ Len(yystack) >= YYSTACKDEPTH
    /\ yystack' = <<Sentinel>>
    /\ yyerrcnt' = OneErrorLess
    /\ Return
    /\ UNCHANGED <<prev, entity>>

Accept ==
    /\ call.busy
    /\ Action = YY_ACCEPT_ACTION
    /\ yystack' = SubSeq(yystack, 1, Len(yystack) - 1)
    /\ yyerrcnt' = -1
    /\ Return
    /\ UNCHANGED <<prev, entity>>

\* Variants: the token is tried again; the symbol under it is thrown away too.
SyntaxErrorRetried ==
    /\ call.busy
    /\ Action = YY_ERROR_ACTION
    /\ yyerrcnt' = 3
    /\ UNCHANGED <<yystack, call, prev, entity>>

SyntaxErrorPops ==
    /\ call.busy
    /\ Action = YY_ERROR_ACTION
    /\ yystack' = IF Len(yystack) > 1 THEN SubSeq(yystack, 1, Len(yystack) - 1) ELSE yystack
    /\ yyerrcnt' = 3
    /\ Return
    /\ UNCHANGED <<prev, entity>>

\* The grammar has no error symbol: the token is thrown away, and the end of
\* the input also pops the whole stack (yy_parse_failed).
SyntaxError ==
    /\ call.busy
    /\ Action = YY_ERROR_ACTION
    /\ IF call.major = TOK_EOF
       THEN yystack' = <<Sentinel>> /\ yyerrcnt' = -1
       ELSE UNCHANGED yystack /\ yyerrcnt' = 3
    /\ Return
    /\ UNCHANGED <<prev, entity>>

Step == Reduce \/ Shift \/ Overflow \/ Accept \/ SyntaxError

Next == \/ \E t \in Terminals, m \in Minors, ent \in Entities : Parse(t, m, ent)
        \/ Step

Spec == Init /\ [][Next]_parserVars

\* A call is a plain loop in the caller's own thread: it runs to its end.
FairSpec == Spec /\ WF_parserVars(Step)
-----------------------------------------------------------------------------
(* Properties *)

Entries == [stateno : 0..75, major : Symbols, minor : Minors \cup {NoMinor}]

\* The stack stays within its array and holds states, symbols and references that
\* the tables and the callers know.
TypeOK ==
    /\ yystack \in Seq(Entries)
    /\ Len(yystack) \in 1..YYSTACKDEPTH
    /\ yyerrcnt \in -1..3
    /\ call \in [busy : BOOLEAN, major : Terminals, minor : Minors \cup {NoMinor}]
    /\ prev \in Minors \cup {NoMinor}
    /\ entity \in [type : EntityTypes, token : Minors \cup {NoMinor}]

\* The state the tables enter from state s over symbol x, shifted or reduced to.
Transition(s, x) ==
    IF x \in Terminals THEN ShiftState(yy_find_shift_action(x, s))
                       ELSE yy_find_reduce_action(s, x)

\* The tables let symbol x follow state s.
MayFollow(s, x) ==
    IF x \in Terminals THEN s <= YY_MAX_SHIFT /\ yy_find_shift_action(x, s) <= YY_MAX_SHIFTREDUCE
                       ELSE GotoDefined(s, x)

\* The stack always spells a path of the automaton: each entry is where the
\* tables lead from the one below it.  Everything else about the engine rests
\* on it (src/parser.c:766-803 and 977-994 are the only writers).
StackIsPath ==
    /\ yystack[1].stateno = 0
    /\ \A i \in 2..Len(yystack) :
          /\ MayFollow(yystack[i - 1].stateno, yystack[i].major)
          /\ yystack[i].stateno = Transition(yystack[i - 1].stateno, yystack[i].major)

\* The right-hand sides of extern/parser.y.  lemon optimises the unit rules 9,
\* 17, 20 and 21 away, so an entry may hold a symbol that would become the one
\* the rule names.
AsValue == {17, 12, 20}
AsObjContent == {13, 14}
AsArrContent == {21} \cup AsValue

\* The symbol k entries below the top.
Below(k) == yystack[Len(yystack) - k].major

Handle(rule) ==
    \/ rule \in {0, 2} /\ Below(0) = TOK_STRING
    \/ rule = 1 /\ Below(1) = 15 /\ Below(0) = 16
    \/ rule = 3 /\ Below(0) = TOK_BOOLEAN
    \/ rule = 4 /\ Below(0) = TOK_NUMBER
    \/ rule = 5 /\ Below(0) = TOK_NULL
    \/ rule = 6 /\ Below(0) = 12
    \/ rule = 7 /\ Below(2) = TOK_OBEGIN /\ Below(1) \in AsObjContent /\ Below(0) = TOK_OEND
    \/ rule = 8 /\ Below(1) = TOK_OBEGIN /\ Below(0) = TOK_OEND
    \/ rule = 10 /\ Below(1) \in AsObjContent /\ Below(0) = TOK_COMMA
    \/ rule = 11 /\ Below(1) \in AsObjContent /\ Below(0) = 14
    \/ rule = 12 /\ Below(1) = TOK_COLON /\ Below(0) \in AsValue
    \/ rule = 13 /\ Below(0) = TOK_ABEGIN
    \/ rule = 14 /\ Below(0) = TOK_AEND
    \/ rule = 15 /\ Below(2) = 18 /\ Below(1) \in AsArrContent /\ Below(0) = 19
    \/ rule = 16 /\ Below(1) = 18 /\ Below(0) = 19
    \/ rule = 18 /\ Below(1) \in AsArrContent /\ Below(0) = TOK_COMMA
    \/ rule = 19 /\ Below(1) \in AsArrContent /\ Below(0) \in AsValue

\* Before every reduction the top of the stack is the right-hand side of the
\* rule about to be reduced, whatever tokens came before, thrown away or not.
HandleOnTop ==
    call.busy /\ Action >= YY_MIN_REDUCE =>
        LET rule == Action - YY_MIN_REDUCE
        IN  Len(yystack) > At(yyRuleInfoNRhs, rule) /\ Handle(rule)

\* The assertions of the engine (src/parser.c:716, 717, 984, 987, 1054, 1135)
\* hold whenever they are reached, and no reduction pops the sentinel.
AssertionsHold ==
    call.busy =>
        \/ /\ Action >= YY_MIN_REDUCE
           /\ LET rule == Action - YY_MIN_REDUCE
                  base == Len(yystack) - At(yyRuleInfoNRhs, rule)
                  lhs  == At(yyRuleInfoLhs, rule)
              IN  /\ rule \notin {9, 17, 20, 21}
                  /\ base >= 1
                  /\ GotoDefined(yystack[base].stateno, lhs)
                  /\ LET act == yy_find_reduce_action(yystack[base].stateno, lhs)
                     IN  /\ ~(act > YY_MAX_SHIFT /\ act <= YY_MAX_SHIFTREDUCE)
                         /\ act # YY_ERROR_ACTION
        \/ Action <= YY_MAX_SHIFTREDUCE
        \/ Action = YY_ACCEPT_ACTION /\ Len(yystack) = 2
        \/ Action = YY_ERROR_ACTION

\* A key or a value is recognised one call late, and the token reported is
\* always the one of the call before: a caller that keeps its last two tokens
\* never follows a stale reference (src/deserialization.c:178, 208-211).
EntityIsPreviousToken ==
    entity.type \in {"KEY", "VALUE"} => entity.token = prev

\* A string, boolean, number or null that waits to be reduced is the token of
\* the last finished call.
PendingIsPrevious ==
    Top.stateno \in {54} \cup 56..59 =>
        Top.minor = IF call.busy THEN prev ELSE call.minor

\* Where the engine stands within a call that has reported something.
ReportOrder ==
    call.busy =>
        /\ entity.type = "KEY" => Top.stateno = 6
        /\ entity.type = "VALUE" => Top.stateno \in {2, 55, 66, 73}
        /\ entity.type = "PAIR" => Top.stateno \in {5, 65}

\* The inductive invariant: the path, and what the two reports rest on.
IInv == TypeOK /\ StackIsPath /\ PendingIsPrevious /\ ReportOrder /\ EntityIsPreviousToken

\* One call recognises one thing.  The only report that replaces another is
\* the pair that completes with the value just reported, and it keeps the
\* value's token, which src/deserialization.c:285-309 reads.
NoReportLost ==
    [][call.busy /\ entity' # entity =>
          \/ entity.type = "NONE"
          \/ entity.type = "VALUE" /\ entity' = [entity EXCEPT !.type = "PAIR"]]_parserVars

\* Every call returns: no chain of reductions goes on for ever.
CallReturns == call.busy ~> ~call.busy
=============================================================================
