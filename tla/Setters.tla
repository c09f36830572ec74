------------------------------ MODULE Setters -------------------------------
(***************************************************************************)
(* The setters of src/deserialization_routine.c, which convert the text of *)
(* a value and store it in a field.  What the C library converts (strtol   *)
(* and its kin) is modelled by its result, by where it stops, and by       *)
(* errno, which it sets and never clears: a setter is an operator from a   *)
(* text and errno to what it returns, what it has stored, and errno.       *)
(***************************************************************************)
EXTENDS Integers

CONSTANTS
    SHRT_MAX, INT_MAX, LONG_MAX, LLONG_MAX,     \* largest values of the integers
    FLT_EXP, DBL_EXP, LDBL_EXP                  \* largest exponents of the reals

ASSUME SettersAssumption ==
    /\ {SHRT_MAX, INT_MAX, LONG_MAX, LLONG_MAX, FLT_EXP, DBL_EXP, LDBL_EXP} \subseteq Nat
    /\ 0 < SHRT_MAX /\ SHRT_MAX <= INT_MAX /\ INT_MAX <= LONG_MAX /\ LONG_MAX <= LLONG_MAX
    /\ 0 < FLT_EXP /\ FLT_EXP <= DBL_EXP /\ DBL_EXP <= LDBL_EXP

Span(max) == -(max + 1)..max
Limits(max) == {-(max + 1), max}

\* A text is [kind, n, exp, size, followed]: an "integer" n; a "real" with the
\* integer part n and the magnitude 10^exp, zero where both are 0; "true" or
\* "false"; another "word"; or "null", of no bytes.  A string may be any of them.  A text that fills the
\* buffer of its token has no terminator and may be followed by another digit.
IsText(t) ==
    /\ t \in [kind : {"integer", "real", "true", "false", "word", "null"}, n : Int, exp : Int, size : Nat, followed : BOOLEAN]
    /\ IF t.kind \in {"integer", "real"} THEN t.size > 0 ELSE t.n = 0 /\ t.exp = 0

NoValue == [is |-> "none", n |-> 0]
Whole(n) == [is |-> "integer", n |-> n]
Floating(class, exp) == [is |-> class, n |-> exp]
Truth(b) == [is |-> IF b THEN "true" ELSE "false", n |-> 0]
Text(text) == [is |-> "text", n |-> text.size]

Refused(errno) == [ret |-> -1, stored |-> NoValue, errno |-> errno]
Taken(value, errno) == [ret |-> 0, stored |-> value, errno |-> errno]

StopsAtEnd(text, kinds) == text.kind \in kinds /\ ~text.followed
-----------------------------------------------------------------------------
(* Integers.                                                               *)

\* strtol, strtoll: the nearest value of its type.
Converted(text, max, errno) ==
    LET n == IF text.kind \in {"integer", "real"} THEN text.n ELSE 0
    IN  CASE n > max -> [result |-> max, errno |-> "ERANGE"]
          [] n < -(max + 1) -> [result |-> -(max + 1), errno |-> "ERANGE"]
          [] OTHER -> [result |-> n, errno |-> errno]

\* Converted as the widest type, then tested to be of the field's.
Integer(text, widest, tested, max, errno) ==
    LET c == Converted(text, widest, errno)
        unusable == \/ c.errno = "ERANGE" /\ c.result \in Limits(tested)
                    \/ c.errno # "0" /\ c.result = 0
                    \/ c.result \notin Span(max)
                    \/ ~StopsAtEnd(text, {"integer"})
    IN  IF text.size = 0 THEN Refused(errno)
        ELSE IF unusable THEN Refused(c.errno) ELSE Taken(Whole(c.result), c.errno)

yajp_set_short(text, errno) == Integer(text, LONG_MAX, LONG_MAX, SHRT_MAX, errno)
yajp_set_int(text, errno) == Integer(text, LLONG_MAX, INT_MAX, INT_MAX, errno)
yajp_set_long_int(text, errno) == Integer(text, LONG_MAX, LONG_MAX, LONG_MAX, errno)
yajp_set_long_long_int(text, errno) == Integer(text, LLONG_MAX, LLONG_MAX, LLONG_MAX, errno)
-----------------------------------------------------------------------------
(* Reals.                                                                  *)

\* strtof, strtod, strtold: beyond the largest exponent infinity; below the
\* smallest a denormal number, then zero, each with ERANGE.
Rounded(text, limit, errno) ==
    CASE text.kind \notin {"integer", "real"} \/ (text.n = 0 /\ text.exp = 0) ->
           [result |-> Floating("zero", 0), errno |-> errno]
      [] text.exp > limit -> [result |-> Floating("infinity", 0), errno |-> "ERANGE"]
      [] text.exp = -(limit + 1) -> [result |-> Floating("real", text.exp), errno |-> "ERANGE"]
      [] text.exp < -(limit + 1) -> [result |-> Floating("zero", 0), errno |-> "ERANGE"]
      [] OTHER -> [result |-> Floating("real", text.exp), errno |-> errno]

Real(text, limit, errno) ==
    LET c == Rounded(text, limit, errno)
        unusable == \/ c.errno = "ERANGE" /\ c.result.is = "zero"
                    \/ ~StopsAtEnd(text, {"integer", "real"})
    IN  IF text.size = 0 THEN Refused(errno)
        ELSE IF unusable THEN Refused(c.errno) ELSE Taken(c.result, c.errno)

yajp_set_float(text, errno) == Real(text, FLT_EXP, errno)
yajp_set_double(text, errno) == Real(text, DBL_EXP, errno)
yajp_set_long_double(text, errno) == Real(text, LDBL_EXP, errno)
-----------------------------------------------------------------------------
(* Others.                                                                 *)

\* The two words as JSON writes them; the lexer takes them in capitals too.
yajp_set_bool(text, errno) ==
    IF text.kind \in {"true", "false"} THEN Taken(Truth(text.kind = "true"), errno) ELSE Refused(errno)

\* Any text, with a zero byte behind it.
yajp_set_string(text, errno) == Taken(Text(text), errno)

SetterNames == {"short", "int", "long", "long_long", "float", "double", "long_double", "bool", "string"}

yajp_set(setter, text, errno) ==
    CASE setter = "short" -> yajp_set_short(text, errno)
      [] setter = "int" -> yajp_set_int(text, errno)
      [] setter = "long" -> yajp_set_long_int(text, errno)
      [] setter = "long_long" -> yajp_set_long_long_int(text, errno)
      [] setter = "float" -> yajp_set_float(text, errno)
      [] setter = "double" -> yajp_set_double(text, errno)
      [] setter = "long_double" -> yajp_set_long_double(text, errno)
      [] setter = "bool" -> yajp_set_bool(text, errno)
      [] setter = "string" -> yajp_set_string(text, errno)

\* Sizes of the types the setters store, on a machine of 64 bits.
SizeOf == [short |-> 2, int |-> 4, long |-> 8, long_long |-> 8,
           float |-> 4, double |-> 8, long_double |-> 16, bool |-> 1]

\* The bytes a setter that has taken the text has written.
Written(setter, text) == IF setter = "string" THEN text.size + 1 ELSE SizeOf[setter]
=============================================================================
