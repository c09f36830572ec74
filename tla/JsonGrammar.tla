----------------------------- MODULE JsonGrammar ----------------------------
(***************************************************************************)
(* What the grammar of extern/parser.y promises of a parser that is fed    *)
(* one token at a time, said without tables: the containers that are open, *)
(* what may come next in each of them, and what becomes of a token that    *)
(* may not.  The grammar is laxer than JSON (RFC 8259): inside a container *)
(* commas may be left out, repeated or trailing, but never lead.           *)
(***************************************************************************)
EXTENDS Integers, Sequences, FiniteSets

CONSTANT YYSTACKDEPTH   \* entries of the parser's stack

\* Token codes, as in Parser.
EndOfInput == 0
OpenObject == 1
CloseObject == 2
Comma == 3
String == 4
Colon == 5
OpenArray == 6
CloseArray == 7
Scalars == {String, 8, 9, 10}
Values == Scalars \cup {OpenObject, OpenArray}

NoToken == -1

\* What may come next, by the phase of the innermost container.
Allowed == [start     |-> {OpenObject},
            finish    |-> {EndOfInput},
            obj_first |-> {String, CloseObject},
            obj_colon |-> {Colon},
            obj_value |-> Values,
            obj_next  |-> {String, Comma, CloseObject},
            arr_first |-> Values \cup {CloseArray},
            arr_next  |-> Values \cup {Comma, CloseArray}]

Phases == DOMAIN Allowed
ObjectPhases == {"obj_first", "obj_colon", "obj_value", "obj_next"}
ArrayPhases == {"arr_first", "arr_next"}

VARIABLES nest,      \* the phase of the document, then of each open container
          pending    \* the token offered and not decided, or NoToken

grammarVars == <<nest, pending>>

\* A document always has a phase, however much of it was given up.
TypeOK == /\ nest \in Seq(Phases) \ {<<>>}
          /\ pending \in {NoToken} \cup 0..10

Phase == nest[Len(nest)]
Enclosing == SubSeq(nest, 1, Len(nest) - 1)

\* The innermost container of n moves on to a phase.
Move(n, phase) == [n EXCEPT ![Len(n)] = phase]

\* A value has ended in the innermost container of n.
ValueEnds(n) ==
    Move(n, CASE n[Len(n)] = "start"     -> "finish"
              [] n[Len(n)] = "obj_value" -> "obj_next"
              [] OTHER                   -> "arr_next")

\* Where an allowed token leads.
After(t) ==
    CASE t = EndOfInput                    -> <<"start">>
      [] t = OpenObject                    -> Append(nest, "obj_first")
      [] t = OpenArray                     -> Append(nest, "arr_first")
      [] t \in {CloseObject, CloseArray}   -> ValueEnds(Enclosing)
      [] t = Comma                         -> nest
      [] t = Colon                         -> Move(nest, "obj_value")
      [] t = String /\ Phase \in {"obj_first", "obj_next"} -> Move(nest, "obj_colon")
      [] OTHER                             -> ValueEnds(nest)

\* An object takes at most 4 entries of the parser's stack and an array 2.
DepthOf(n) == 1 + 4 * Cardinality({i \in DOMAIN n : n[i] \in ObjectPhases})
                + 2 * Cardinality({i \in DOMAIN n : n[i] \in ArrayPhases})

Init == nest = <<"start">> /\ pending = NoToken

Offer(t) == pending = NoToken /\ pending' = t /\ UNCHANGED nest

Decided == pending # NoToken /\ pending' = NoToken

Take == Decided /\ pending \in Allowed[Phase] /\ nest' = After(pending)

\* A token that is not allowed changes nothing; the end of the input in the
\* middle of a document gives the document up.
Refuse == /\ Decided
          /\ pending \notin Allowed[Phase]
          /\ nest' = IF pending = EndOfInput THEN <<"start">> ELSE nest

\* Only a document nested as deeply as the stack allows is ever dropped.
Drop == Decided /\ DepthOf(nest) >= YYSTACKDEPTH /\ nest' = <<"start">>

Next == (\E t \in 0..10 : Offer(t)) \/ Take \/ Refuse \/ Drop

Spec == Init /\ [][Next]_grammarVars
=============================================================================
