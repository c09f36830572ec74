----------------------------- MODULE TokenRules -----------------------------
(***************************************************************************)
(* The rules of extern/lexer.c.re2c that the scanner was generated from,   *)
(* as a language: a token matches a rule if its bytes match one of the     *)
(* rule's chains, part by part.  Nothing here follows the generated code;  *)
(* a chain is matched byte by byte through what of it is still to come.    *)
(***************************************************************************)
EXTENDS Integers, Sequences, ScannerGraph

\* A part is one byte, or any number of words, each a sequence of bytes.
One(bytes) == [many |-> FALSE, words |-> {<<bytes>>}]
Many(words) == [many |-> TRUE, words |-> words]

Some(bytes) == <<One(bytes), Many({<<bytes>>})>>      \* bytes+

Maybe(chains) == {<<>>} \cup chains

number ==
    {minus \o int \o frac \o exp :
        minus \in Maybe({<<One({"minus"})>>}),
        int \in {<<One({"0"})>>, <<One({"9"}), Many({<<Digits>>})>>},
        frac \in Maybe({<<One({"dot"})>> \o Some(Digits)}),
        exp \in Maybe({<<One({"E"})>> \o sign \o Some(Digits) : sign \in Maybe({<<One({"plus", "minus"})>>})})}

\* The quotation mark is written twice in the rule of an unescaped character.
unescaped == Bytes \ (Controls \cup {"quote", "backslash"})
single_escaped == {"quote", "backslash", "slash", "b", "f", "n", "r", "t"}
unicode_escaped == <<{"u"}, HexDigits, HexDigits, HexDigits, HexDigits>>

string ==
    {<<One({"quote"}),
       Many({<<unescaped>>, <<{"backslash"}, single_escaped>>, <<{"backslash"}>> \o unicode_escaped}),
       One({"quote"})>>}

Literal(letters) == {[i \in 1..Len(letters) |-> One(letters[i])]}

\* Literals are in single quotes: letters of either case.
Rules == [
    nl |-> {Some({"nl"})}, ws |-> {Some({"space", "tab"})}, bom |-> {<<One({"EF"}), One({"BB"}), One({"BF"})>>},
    ABEGIN |-> {<<One({"lbracket"})>>}, AEND |-> {<<One({"rbracket"})>>}, OBEGIN |-> {<<One({"lbrace"})>>},
    OEND |-> {<<One({"rbrace"})>>}, COMMA |-> {<<One({"comma"})>>}, COLON |-> {<<One({"colon"})>>},
    NULL |-> Literal(<<{"N", "n"}, {"U", "u"}, {"L"}, {"L"}>>),
    BOOLEAN |-> Literal(<<{"T", "t"}, {"R", "r"}, {"U", "u"}, {"E"}>>)
                \cup Literal(<<{"F", "f"}, {"A"}, {"L"}, {"S"}, {"E"}>>),
    NUMBER |-> number, STRING |-> string, EOF |-> {<<One({"NUL"})>>}]

\* `.', the last rule, is any byte that no rule before it takes.
Fallback == "error"
-----------------------------------------------------------------------------
(* Matching.                                                               *)

\* A rule with what is still to come of one of its chains.
Open == UNION {{[rule |-> r, rest |-> c] : c \in Rules[r]} : r \in DOMAIN Rules}

Complete(item) == \A i \in 1..Len(item.rest) : item.rest[i].many

\* The first part takes the byte; a part that may come any number of times may
\* come again, or not at all (no two such parts follow each other).
Taken(rest, byte) ==
    IF rest = <<>> THEN {}
    ELSE LET part == Head(rest)
         IN  {[i \in 1..(Len(w) - 1) |-> One(w[i + 1])] \o (IF part.many THEN rest ELSE Tail(rest)) :
                 w \in {v \in part.words : byte \in v[1]}}

After(items, byte) ==
    UNION {{[rule |-> i.rule, rest |-> r] :
              r \in Taken(i.rest, byte)
                    \cup (IF i.rest # <<>> /\ Head(i.rest).many THEN Taken(Tail(i.rest), byte) ELSE {})} :
           i \in items}

\* The longest prefix of the input that is a token, and the rule it matches; as
\* long as there is none, the first byte alone.
NothingYet == [rule |-> Fallback, length |-> 1]

Longest(best, items, length) ==
    IF \E i \in items : Complete(i)
    THEN [rule |-> (CHOOSE i \in items : Complete(i)).rule, length |-> length]
    ELSE best
=============================================================================
