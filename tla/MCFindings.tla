----------------------------- MODULE MCFindings -----------------------------
(* Documents for which the code does not do what the repository says of it. *)
EXTENDS MCDeserializer

\* An object that has rules of its own and ends with a number.
NestedDocuments ==
    {Document(Object(<<Pair("o", Object(<<A(One)>>)), Pair("b", Two)>>), Nul)}

\* An array nested as deep as the parser's stack is high, in a member without
\* rule, of which the tree need not know more than that.
Deep(n) == [k \in 1..n |-> Mark(P!TOK_ABEGIN)] \o [k \in 1..n |-> Mark(P!TOK_AEND)]
DeepDocuments ==
    {[Document(Object(<<Pair("x", EmptyArray), Pair("b", One)>>), Nul) EXCEPT
        !.tokens = SubSeq(@, 1, 3) \o Deep(YYSTACKDEPTH) \o SubSeq(@, 6, Len(@))]}

\* A document that ends where its last token ends, as in a file.
UnterminatedDocuments == {Document(Object(<<Pair("x", EmptyArray), Pair("b", One)>>), <<>>)}

\* What may be found in the part of the buffer that was not filled.
Terminator == {Mark(P!TOK_EOF)}
Leftovers == {Mark(P!TOK_EOF), Mark(P!TOK_COLON), LexicalError}
-----------------------------------------------------------------------------
\* A complete document read from a stream is deserialized (README.md:12).
StreamNeedsNoTerminator == phase = "done" => ret = 0
=============================================================================
