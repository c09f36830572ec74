---------------------------- MODULE ParserGrammar ---------------------------
(***************************************************************************)
(* The engine of Parser implements the grammar of JsonGrammar: every token *)
(* the grammar allows is taken, every other one is refused, and a document *)
(* is dropped only for its depth.                                          *)
(***************************************************************************)
EXTENDS Parser

\* The innermost container of n, when a value has ended there.
Ended(n) ==
    [n EXCEPT ![Len(n)] = CASE n[Len(n)] = "start"     -> "finish"
                            [] n[Len(n)] = "obj_value" -> "obj_next"
                            [] OTHER                   -> "arr_next"]

\* What an entry of state q stands for, over the nest n of the entries below
\* it.  The state in which rule r is about to be reduced is YY_MIN_REDUCE + r.
EntryEffect(n, q) ==
    LET under == SubSeq(n, 1, Len(n) - 1)
    IN  CASE q = 0                        -> <<"start">>
          [] q = 4                        -> Append(n, "obj_first")
          [] q \in {1, 67}                -> Append(n, "arr_first")
          [] q = 3                        -> Append(under, "obj_value")
          [] q \in {6, 54}                -> Append(under, "obj_colon")
          [] q \in {5, 55, 64, 65, 66}    -> Append(under, "obj_next")
          [] q \in {2, 72, 73}            -> Append(under, "arr_next")
          [] q \in {7, YY_ACCEPT_ACTION}  -> Append(under, "finish")
          [] q \in {61, 62, 68, 69, 70}   -> Ended(under)
          [] OTHER                        -> Ended(n)

\* The nest a stack stands for, from the sentinel upwards.
NestOf(stack) ==
    LET upTo[i \in 0..Len(stack)] ==
            IF i = 0 THEN <<>> ELSE EntryEffect(upTo[i - 1], stack[i].stateno)
    IN  upTo[Len(stack)]

OpenNest == NestOf(yystack)

Grammar == INSTANCE JsonGrammar
             WITH nest    <- OpenNest,
                  pending <- IF call.busy THEN call.major ELSE -1

\* The table-driven engine takes exactly the documents of extern/parser.y,
\* token by token, and gives a document up only where the abstract
\* specification says it may.
ImplementsGrammar == Grammar!Spec
=============================================================================
