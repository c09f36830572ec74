--------------------------- MODULE MCDeserializer ---------------------------
(* Rules and documents for TLC. *)
EXTENDS DeserializerTree

Scalar(field, accepts, allocate) ==
    [NoRule EXCEPT !.kind = "primitive", !.field = field, !.accepts = accepts, !.allocate = allocate]
Nested(field, allocate) ==
    [NoRule EXCEPT !.kind = "object", !.field = field, !.ctx = "inner", !.allocate = allocate]
ArrayOf(field, accepts, allocate, elems, string) ==
    [NoRule EXCEPT !.kind = "array", !.field = field, !.accepts = accepts, !.allocate = allocate,
                   !.elems = elems, !.string = string]

\* Two contexts: an outer structure and the one nested in it.
MCContexts ==
    [outer |-> [b |-> Scalar("b", {"1", "2"}, FALSE),
                s |-> Scalar("s", {"1", "2", "text", ""}, TRUE),
                o |-> Nested("o", FALSE),
                p |-> Nested("p", TRUE),
                n |-> ArrayOf("n", {"1", "2"}, FALSE, TRUE, FALSE),
                m |-> ArrayOf("m", {"1", "2", "text", ""}, TRUE, TRUE, TRUE),
                l |-> [ArrayOf("l", {}, FALSE, TRUE, FALSE) EXCEPT !.kind = "objects", !.ctx = "inner"],
                w |-> [NoRule EXCEPT !.kind = "other"]],
     inner |-> [a |-> Scalar("a", {"1", "2"}, FALSE),
                c |-> ArrayOf("c", {"1", "2"}, TRUE, FALSE, FALSE)]]

One == Number("1")
Two == Number("2")
Huge == Number("huge")       \* a number no setter takes
EmptyObject == Object(<<>>)
EmptyArray == Array(<<>>)
A(v) == Pair("a", v)
C(v) == Pair("c", v)

\* Members whose value fits its rule.  The objects that have rules of their own
\* end with an array, or are empty.
Members ==
    {Pair("b", One), Pair("b", Huge), Pair("s", String("text")), Pair("s", Null), Pair("w", One),
     Pair("o", EmptyObject),
     Pair("o", Object(<<A(One), C(Array(<<One, Two>>))>>)),
     Pair("o", Object(<<Pair("x", One), A(Two), C(EmptyArray)>>)),
     Pair("p", Object(<<A(One), C(EmptyArray)>>)),
     Pair("n", EmptyArray), Pair("n", Array(<<One, Two>>)), Pair("n", Array(<<One, Huge, One>>)),
     Pair("n", Array(<<Array(<<One>>), Array(<<Two, One>>)>>)), Pair("n", One),
     Pair("m", Array(<<String("text"), String("text")>>)),
     Pair("l", EmptyArray), Pair("l", Array(<<EmptyObject, EmptyObject>>)),
     Pair("l", Array(<<Object(<<A(One), C(Array(<<One>>))>>), Object(<<C(EmptyArray)>>)>>)),
     Pair("l", Array(<<Array(<<Object(<<C(EmptyArray)>>)>>)>>)),
     Pair("x", One), Pair("x", Object(<<A(One)>>)), Pair("x", Array(<<One, Object(<<A(EmptyArray)>>)>>))}

\* Documents of at most three members, no name twice; the first of three is
\* one of each way to leave the parser to the next member.
First == {Pair("b", One), Pair("o", EmptyObject), Pair("n", EmptyArray), Pair("x", One),
          Pair("x", Array(<<One, Object(<<A(EmptyArray)>>)>>))}

MCDocuments ==
    {Document(EmptyObject, Nul)}
    \cup {Document(Object(<<m>>), Nul) : m \in Members}
    \cup {Document(Object(q), Nul) :
             q \in {r \in Members \X Members : r[1].name # r[2].name}}
    \cup {Document(Object(q), Nul) :
             q \in {r \in First \X Members \X Members :
                       r[1].name # r[2].name /\ r[1].name # r[3].name /\ r[2].name # r[3].name}}
=============================================================================
