------------------------------ MODULE MCParser ------------------------------
(***************************************************************************)
(* Small instances of Parser.  The grammar is checked with one token       *)
(* reference and a stack deep enough for two nested objects; what is       *)
(* reported to the caller with two references, enough to tell the token of *)
(* the previous call from an older one, and a lower stack.                 *)
(***************************************************************************)
EXTENDS ParserGrammar

CONSTANTS ref1, ref2
=============================================================================
