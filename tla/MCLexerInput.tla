---------------------------- MODULE MCLexerInput ----------------------------
(* A small buffer, and a stream that fills it several times, for TLC. *)
EXTENDS LexerInput
=============================================================================
