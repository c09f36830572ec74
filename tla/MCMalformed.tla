----------------------------- MODULE MCMalformed -----------------------------
(* Documents with one fault, for TLC. *)
EXTENDS MCDeserializer

Sound ==
    {Object(<<Pair("b", One), Pair("s", String("text"))>>),
     Object(<<Pair("b", One), Pair("o", Object(<<A(One), C(Array(<<One>>))>>))>>),
     Object(<<Pair("p", Object(<<C(EmptyArray)>>)), Pair("b", Two)>>),
     Object(<<Pair("n", Array(<<Array(<<One>>), Array(<<Two>>)>>))>>),
     Object(<<Pair("m", Array(<<String("text"), String("text")>>)), Pair("b", One)>>),
     Object(<<Pair("l", Array(<<Object(<<C(Array(<<One>>))>>), EmptyObject>>)), Pair("b", One)>>),
     Object(<<Pair("x", Array(<<One, EmptyObject>>)), Pair("x", One), Pair("b", One)>>)}

\* One token lost, doubled, unreadable, or replaced by another.
Faulty(s) ==
    UNION {{RemoveAt(s, k), InsertAt(s, k, s[k]), ReplaceAt(s, k, LexicalError),
            ReplaceAt(s, k, Mark(P!TOK_OEND)), ReplaceAt(s, k, Mark(P!TOK_ABEGIN)),
            ReplaceAt(s, k, Mark(P!TOK_EOF)), ReplaceAt(s, k, Tok(P!TOK_STRING, "c"))} : k \in 1..Len(s)}

MCFaultyDocuments ==
    UNION {{[tokens |-> s, tree |-> tree, plan |-> <<>>] : s \in Faulty(Tokens(tree) \o Nul)} : tree \in Sound}

\* The buffer behind the document was never written: anything may be there.
MCPastEnd == {Mark(P!TOK_EOF), Mark(P!TOK_OEND), Tok(P!TOK_NUMBER, "1"), LexicalError}
=============================================================================
