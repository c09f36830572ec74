------------------------------- MODULE Scanner -------------------------------
(***************************************************************************)
(* yajp_lexer_get_next_token (src/lexer.c), byte by byte, over any input:  *)
(* which token it returns and where it leaves the cursor, beside what the  *)
(* rules of extern/lexer.c.re2c say of the same bytes.  Where the bytes    *)
(* come from is module LexerInput's.                                       *)
(***************************************************************************)
EXTENDS TokenRules

CONSTANT MaxLength   \* bound on the bytes of a lexeme before the input ends

ASSUME ScannerAssumption == MaxLength \in Nat \ {0}

VARIABLES
    state,      \* a label, or "loop" between two lexemes
    length,     \* cursor - token
    marker,     \* marker - token, 0 if the mark is older than the token
    yyaccept,
    ensured,    \* bytes behind the cursor that were asked for
    result,     \* what the last lexeme was, and its length
    items,      \* what may still come of the rules' chains
    best        \* the longest token so far

codeVars == <<state, length, marker, yyaccept, ensured, result>>
ruleVars == <<items, best>>
vars == <<codeVars, ruleVars>>

Nothing == [rule |-> "none", length |-> 0]

Init ==
    /\ state = "loop"
    /\ length = 0 /\ marker = 0 /\ yyaccept = 0 /\ ensured = 0
    /\ result = Nothing
    /\ items = Open
    /\ best = NothingYet

\* Variant: the start of the token is not saved.
BeginUnsaved ==
    /\ state = "loop"
    /\ state' = "start"
    /\ marker' = 0 /\ yyaccept' = 0
    /\ ensured' = Needs("start")
    /\ result' = Nothing
    /\ items' = Open
    /\ best' = NothingYet
    /\ UNCHANGED length

\* What is in the buffer beyond what was asked for is not counted on.
Begin ==
    /\ state = "loop"
    /\ state' = "start"
    /\ length' = 0 /\ marker' = 0 /\ yyaccept' = 0
    /\ ensured' = Needs("start")
    /\ result' = Nothing
    /\ items' = Open
    /\ best' = NothingYet

\* Any byte may come next, until the input ends with a zero.
Input == IF length < MaxLength THEN Bytes ELSE {"NUL"}

Leads(byte) == {e[2] : e \in {d \in Edges[state] : byte \in d[1]}}

Match(byte) ==
    /\ items' = After(items, byte)
    /\ best' = Longest(best, items', length + 1)

\* The byte looked at leads to a label, which passes it.
Pass(byte) ==
    /\ Match(byte)
    /\ \E label \in Leads(byte) :
          /\ length' = length + 1
          /\ marker' = IF label \in Marks THEN length + 1 ELSE marker
          /\ yyaccept' = IF label \notin Marks THEN yyaccept
                         ELSE IF label \in {"yy16", "yy18", "yy47"} THEN 1 ELSE 0
          /\ ensured' = IF ensured - 1 < Needs(label) THEN Needs(label) ELSE ensured - 1
          /\ IF label \in DOMAIN Ends
             THEN state' = "loop" /\ result' = [rule |-> Ends[label], length |-> length + 1]
             ELSE state' = label /\ UNCHANGED result

Scan == state \in Looking /\ \E byte \in Input : Leads(byte) # {} /\ Pass(byte)

Leaves(rule, at) ==
    /\ state' = "loop"
    /\ length' = at
    /\ result' = [rule |-> rule, length |-> at]
    /\ UNCHANGED <<marker, yyaccept, ensured>>

\* yy8, yy11, yy17, yy5: the lexeme ends before the byte looked at.
Stop ==
    /\ state \in DOMAIN Spaces \cup Numbers \cup FirstBytes
    /\ \E byte \in Input :
          /\ Leads(byte) = {}
          /\ Match(byte)
          /\ Leaves(CASE state \in DOMAIN Spaces -> Spaces[state]
                      [] state \in Numbers -> "NUMBER"
                      [] OTHER -> "error", length)

\* yy36: back to the mark, to what was complete there.
Backtrack ==
    /\ state \in Looking \ (DOMAIN Spaces \cup Numbers \cup FirstBytes \cup {"start"})
    /\ \E byte \in Input :
          /\ Leads(byte) = {}
          /\ Match(byte)
          /\ Leaves(IF yyaccept = 0 THEN "error" ELSE "NUMBER", marker)

Next == Begin \/ Scan \/ Stop \/ Backtrack

Spec == Init /\ [][Next]_vars
-----------------------------------------------------------------------------
(* Properties *)

Kinds == DOMAIN Rules \cup {Fallback}

\* Positions stay within the lexeme.
TypeOK ==
    /\ state \in Looking \cup {"loop"}
    /\ length \in 0..(MaxLength + 1) /\ marker \in 0..length
    /\ yyaccept \in {0, 1} /\ ensured \in 0..5
    /\ result.rule \in Kinds \cup {"none"} /\ result.length \in 0..(MaxLength + 1)
    /\ \A i \in items : i.rule \in DOMAIN Rules
    /\ best.rule \in Kinds /\ best.length \in 1..(MaxLength + 1)

\* The scanner returns the longest token the rules find at the start of the
\* input, or the first byte as an error where they find none, whatever it had to
\* look at to know: the cursor is left behind that token and no rule could have
\* gone on (extern/lexer.c.re2c:66-110; `1.x' is the number 1, and `.' is next).
LongestMatch ==
    state = "loop" /\ result # Nothing =>
        /\ result = best
        /\ \A i \in items : i.rest = <<>>

\* The scanner looks only at bytes it has asked for (YYFILL): one request may
\* answer for several bytes to come, on the longest way through the graph to the
\* next (src/lexer.c:60, 162, 385 and the labels that ask for nothing).
LooksAtWhatItAskedFor == state \in Looking => ensured >= 1
=============================================================================
