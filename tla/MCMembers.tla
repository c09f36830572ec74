----------------------------- MODULE MCMembers ------------------------------
(***************************************************************************)
(* Lists of rules, and values, for TLC.  A table for 3 to 10 rules has 11  *)
(* buckets and grows with the ninth; names are chosen that share their     *)
(* first bucket among 11 and among 23, some of them with every bucket      *)
(* after it, none their hash.                                              *)
(***************************************************************************)
EXTENDS Members

\* a, A>, Cn: 97 modulo 110; a, Aj: 97 modulo 506; a, l, w, V: one first bucket
\* of 11; a, x, J, 3: one of 23.
Pool == <<<<97>>, <<65, 62>>, <<67, 110>>, <<108>>, <<120>>, <<65, 106>>, <<119>>, <<74>>, <<86>>, <<51>>, <<98>>>>

Without(k, j) == SelectSeq(Pool, LAMBDA n : n # Pool[k] /\ n # Pool[j])
Rotated(s, k) == SubSeq(s, k + 1, Len(s)) \o SubSeq(s, 1, k)

MCRuleLists ==
    {Rotated(Without(k, j), r) : k \in 1..11, j \in {1, 6}, r \in {0, 3, 5}}
    \cup {SubSeq(Pool, 1, k) : k \in 0..2}
    \cup {Append(SubSeq(Pool, k, k + 7), Pool[k]) : k \in 1..3}

MCNames == {Pool[k] : k \in 1..11} \cup {<<>>, <<113>>}

ASSUME NoHashesCollide == NoCollisions

Declare(options, ctype, elem, setter) == [options |-> options, ctype |-> ctype, elem |-> elem, setter |-> setter]

\* The field of an array is a structure of three members.  One text fits the
\* field of four bytes for a string, or the block for the int, and one just does
\* not.
MCDeclared ==
    Pool[1] :> Declare({"NUMBER"}, 2, 0, "short")
    @@ Pool[2] :> Declare({"NUMBER", "NULLABLE"}, 4, 0, "int")
    @@ Pool[3] :> Declare({"NUMBER"}, 8, 0, "long")
    @@ Pool[4] :> Declare({"ARRAY_OF", "NUMBER", "ALLOCATE_ELEMENTS"}, 24, 8, "long_long")
    @@ Pool[5] :> Declare({"NUMBER"}, 4, 0, "float")
    @@ Pool[6] :> Declare({"NUMBER"}, 8, 0, "double")
    @@ Pool[7] :> Declare({"NUMBER"}, 16, 0, "long_double")
    @@ Pool[8] :> Declare({"BOOLEAN"}, 1, 0, "bool")
    @@ Pool[9] :> Declare({"STRING", "ALLOCATE"}, 1, 0, "string")
    @@ Pool[10] :> Declare({"STRING"}, 4, 0, "string")
    @@ Pool[11] :> Declare({"ARRAY_OF", "STRING", "ALLOCATE_ELEMENTS"}, 24, 8, "string")

MCText(kind, n, exp, size) == [kind |-> kind, n |-> n, exp |-> exp, size |-> size, followed |-> FALSE]

\* Integers at every limit and next to it, and zero; magnitudes likewise; one
\* text that fills its token.
MCTexts ==
    {MCText("integer", n, 0, 3) : n \in UNION {{m, m + 1, -(m + 1), -(m + 2)} : m \in {SHRT_MAX, INT_MAX, LONG_MAX, LLONG_MAX}} \cup {0}}
    \cup {MCText("real", 0, exp, 4) : exp \in -(LDBL_EXP + 2)..0}
    \cup {MCText("real", n, exp, 4) : n \in {1, LLONG_MAX + 1}, exp \in 1..(LDBL_EXP + 1)}
    \cup {MCText("real", 1, 1, YAJP_BUFFER_SIZE)}
    \cup {MCText(kind, 0, 0, 4) : kind \in {"true", "false", "word"}} \cup {NoText, MCText("word", 0, 0, 0)}
-----------------------------------------------------------------------------
\* A number that may be null, as README.md:234 has it: its field is a pointer.
NullableLists == {<<Pool[2]>>}
NullableDeclared == Pool[2] :> Declare({"NUMBER", "NULLABLE"}, 4, 0, "int")
=============================================================================
