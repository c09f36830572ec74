----------------------------- MODULE MCScanner -----------------------------
(* Lexemes of up to sixteen bytes and the byte behind them, for TLC. *)
EXTENDS Scanner
=============================================================================
