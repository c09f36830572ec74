---------------------------- MODULE ScannerGraph ----------------------------
(***************************************************************************)
(* The graph of labels that re2c generated for src/lexer.c.  On entering a *)
(* label the scanner passes a byte, may mark the place, and may ask for    *)
(* more bytes before it looks at the next one.  Bytes that no label tells  *)
(* apart are one: "9" is any of 1..9, "A", "E", "L" and "S" are letters of *)
(* either case, "hex" is any of B C D c d, "ctl" a control character.      *)
(***************************************************************************)

Bytes == {"NUL", "ctl", "tab", "nl", "space", "quote", "backslash", "slash", "comma", "colon",
          "lbracket", "rbracket", "lbrace", "rbrace", "minus", "plus", "dot", "0", "9",
          "A", "b", "hex", "E", "F", "f", "L", "N", "n", "R", "r", "S", "T", "t", "U", "u",
          "EF", "BB", "BF", "other"}

Digits == {"0", "9"}
HexDigits == Digits \cup {"A", "b", "hex", "E", "F", "f"}
Controls == {"NUL", "ctl", "tab", "nl"}      \* 0x00 to 0x1F
Escapes == {"quote", "slash", "backslash", "b", "f", "n", "r", "t"}
-----------------------------------------------------------------------------
(* Edges: from a label, the bytes looked at and the label they lead to.     *)

Rest(edges) == Bytes \ UNION {e[1] : e \in edges}

FirstEdges ==
    {<<{"NUL"}, "yy2">>, <<{"tab", "space"}, "yy6">>, <<{"nl"}, "yy9">>, <<{"quote"}, "yy12">>,
     <<{"comma"}, "yy13">>, <<{"minus"}, "yy15">>, <<{"0"}, "yy16">>, <<{"9"}, "yy18">>, <<{"colon"}, "yy20">>,
     <<{"F", "f"}, "yy22">>, <<{"N", "n"}, "yy23">>, <<{"T", "t"}, "yy24">>, <<{"lbracket"}, "yy25">>,
     <<{"rbracket"}, "yy27">>, <<{"lbrace"}, "yy29">>, <<{"rbrace"}, "yy31">>, <<{"EF"}, "yy33">>}

StartEdges == FirstEdges \cup {<<Rest(FirstEdges), "yy4">>}

SpaceEdges == [yy6 |-> {<<{"tab", "space"}, "yy6">>}, yy9 |-> {<<{"nl"}, "yy9">>}]

\* Inside a string: its end, an escape, or any byte but a control character.
InString == {<<{"quote"}, "yy37">>, <<{"backslash"}, "yy39">>,
             <<Bytes \ (Controls \cup {"quote", "backslash"}), "yy34">>}

StringEdges == [yy12 |-> InString, yy34 |-> InString]

EscapeEdges == [yy39 |-> {<<Escapes, "yy34">>, <<{"u"}, "yy46">>}]

UnicodeEdges == [yy46 |-> {<<HexDigits, "yy57">>}, yy57 |-> {<<HexDigits, "yy62">>},
                 yy62 |-> {<<HexDigits, "yy63">>}, yy63 |-> {<<HexDigits, "yy34">>}]

IntegerEdges == [yy15 |-> {<<{"0"}, "yy16">>, <<{"9"}, "yy18">>},
                 yy16 |-> {<<{"dot"}, "yy40">>, <<{"E"}, "yy41">>},
                 yy18 |-> {<<{"dot"}, "yy40">>, <<Digits, "yy18">>, <<{"E"}, "yy41">>}]

FractionEdges == [yy40 |-> {<<Digits, "yy47">>}, yy47 |-> {<<Digits, "yy47">>, <<{"E"}, "yy41">>}]

ExponentEdges == [yy41 |-> {<<{"plus", "minus"}, "yy49">>, <<Digits, "yy50">>},
                  yy49 |-> {<<Digits, "yy50">>}, yy50 |-> {<<Digits, "yy50">>}]

LiteralEdges == [yy22 |-> {<<{"A"}, "yy42">>}, yy42 |-> {<<{"L"}, "yy52">>}, yy52 |-> {<<{"S"}, "yy54">>},
                 yy23 |-> {<<{"U", "u"}, "yy43">>}, yy43 |-> {<<{"L"}, "yy53">>}, yy53 |-> {<<{"L"}, "yy58">>},
                 yy24 |-> {<<{"R", "r"}, "yy44">>}, yy44 |-> {<<{"U", "u"}, "yy54">>},
                 yy54 |-> {<<{"E"}, "yy60">>}]

BomEdges == [yy33 |-> {<<{"BB"}, "yy45">>}, yy45 |-> {<<{"BF"}, "yy55">>}]

Looking == {"start"} \cup UNION {DOMAIN SpaceEdges, DOMAIN StringEdges, DOMAIN EscapeEdges, DOMAIN UnicodeEdges,
    DOMAIN IntegerEdges, DOMAIN FractionEdges, DOMAIN ExponentEdges, DOMAIN LiteralEdges, DOMAIN BomEdges}

Edges == [label \in Looking |->
    CASE label \in DOMAIN SpaceEdges -> SpaceEdges[label]
      [] label \in DOMAIN StringEdges -> StringEdges[label]
      [] label \in DOMAIN EscapeEdges -> EscapeEdges[label]
      [] label \in DOMAIN UnicodeEdges -> UnicodeEdges[label]
      [] label \in DOMAIN IntegerEdges -> IntegerEdges[label]
      [] label \in DOMAIN FractionEdges -> FractionEdges[label]
      [] label \in DOMAIN ExponentEdges -> ExponentEdges[label]
      [] label \in DOMAIN LiteralEdges -> LiteralEdges[label]
      [] label \in DOMAIN BomEdges -> BomEdges[label]
      [] OTHER -> StartEdges]
-----------------------------------------------------------------------------
(* What a label does besides.                                              *)

\* What a label is when the byte looked at leads to no other.
Spaces == [yy6 |-> "ws", yy9 |-> "nl"]
Numbers == {"yy16", "yy18", "yy47", "yy50"}
FirstBytes == {"yy12", "yy15", "yy22", "yy23", "yy24", "yy33"}

\* Labels that return or start over as soon as they have passed their byte.
Ends == [yy2 |-> "EOF", yy4 |-> "error", yy13 |-> "COMMA", yy20 |-> "COLON", yy25 |-> "ABEGIN",
         yy27 |-> "AEND", yy29 |-> "OBEGIN", yy31 |-> "OEND", yy37 |-> "STRING", yy55 |-> "bom",
         yy58 |-> "NULL", yy60 |-> "BOOLEAN"]

\* Variant: the digits of a fraction are not marked.
MarksOfIntegers == {"yy12", "yy16", "yy18", "yy22", "yy23", "yy24", "yy33"}

Marks == {"yy12", "yy16", "yy18", "yy22", "yy23", "yy24", "yy33", "yy47"}

\* Variant: what the longest literal needs is not asked for at its head.
NeedsOfFour(label) ==
    CASE label = "start" -> 4
      [] label \in {"yy18", "yy47"} -> 3
      [] label \in {"yy6", "yy9", "yy34", "yy39", "yy46", "yy50", "yy57", "yy62", "yy63"} -> 1
      [] OTHER -> 0

\* The bytes a label asks for (YYFILL).
Needs(label) ==
    CASE label = "start" -> 5
      [] label \in {"yy18", "yy47"} -> 3
      [] label \in {"yy6", "yy9", "yy34", "yy39", "yy46", "yy50", "yy57", "yy62", "yy63"} -> 1
      [] OTHER -> 0
=============================================================================
