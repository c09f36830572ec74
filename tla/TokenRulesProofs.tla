-------------------------- MODULE TokenRulesProofs --------------------------
(***************************************************************************)
(* What the proofs about the scanner need to know of its graph and of the  *)
(* rules: where each label leads, and that what a label stands for in the  *)
(* rules is taken on by every byte as the graph takes the label on.        *)
(***************************************************************************)
EXTENDS TokenRules, SequenceTheorems, TLAPS

\* The labels at which a byte is looked at.
Labels == {"start", "yy6", "yy9", "yy12", "yy15", "yy16", "yy18", "yy22", "yy23", "yy24", "yy33", "yy34", "yy39",
           "yy40", "yy41", "yy42", "yy43", "yy44", "yy45", "yy46", "yy47", "yy49", "yy50", "yy52", "yy53", "yy54",
           "yy57", "yy62", "yy63"}

\* Where each of them leads.
Leading(from, to) ==
    \/ from = "start" /\ to \in {"yy2", "yy4", "yy6", "yy9", "yy12", "yy13", "yy15", "yy16", "yy18", "yy20", "yy22",
                                 "yy23", "yy24", "yy25", "yy27", "yy29", "yy31", "yy33"}
    \/ from \in {"yy6", "yy9"} /\ to = from
    \/ from \in {"yy12", "yy34"} /\ to \in {"yy34", "yy37", "yy39"}
    \/ from = "yy39" /\ to \in {"yy34", "yy46"}
    \/ from = "yy46" /\ to = "yy57"
    \/ from = "yy57" /\ to = "yy62"
    \/ from = "yy62" /\ to = "yy63"
    \/ from = "yy63" /\ to = "yy34"
    \/ from = "yy15" /\ to \in {"yy16", "yy18"}
    \/ from = "yy16" /\ to \in {"yy40", "yy41"}
    \/ from = "yy18" /\ to \in {"yy18", "yy40", "yy41"}
    \/ from = "yy40" /\ to = "yy47"
    \/ from = "yy47" /\ to \in {"yy41", "yy47"}
    \/ from = "yy41" /\ to \in {"yy49", "yy50"}
    \/ from \in {"yy49", "yy50"} /\ to = "yy50"
    \/ from = "yy22" /\ to = "yy42"
    \/ from = "yy42" /\ to = "yy52"
    \/ from \in {"yy52", "yy44"} /\ to = "yy54"
    \/ from = "yy23" /\ to = "yy43"
    \/ from = "yy43" /\ to = "yy53"
    \/ from = "yy53" /\ to = "yy58"
    \/ from = "yy24" /\ to = "yy44"
    \/ from = "yy54" /\ to = "yy60"
    \/ from = "yy33" /\ to = "yy45"
    \/ from = "yy45" /\ to = "yy55"

\* The labels of each part of the graph.
LEMMA LabelsOfParts ==
    /\ DOMAIN SpaceEdges = {"yy6", "yy9"}
    /\ DOMAIN StringEdges = {"yy12", "yy34"}
    /\ DOMAIN EscapeEdges = {"yy39"}
    /\ DOMAIN UnicodeEdges = {"yy46", "yy57", "yy62", "yy63"}
    /\ DOMAIN IntegerEdges = {"yy15", "yy16", "yy18"}
    /\ DOMAIN FractionEdges = {"yy40", "yy47"}
    /\ DOMAIN ExponentEdges = {"yy41", "yy49", "yy50"}
    /\ DOMAIN LiteralEdges = {"yy22", "yy42", "yy52", "yy23", "yy43", "yy53", "yy24", "yy44", "yy54"}
    /\ DOMAIN BomEdges = {"yy33", "yy45"}
  BY DEF SpaceEdges, StringEdges, EscapeEdges, UnicodeEdges,
     IntegerEdges, FractionEdges, ExponentEdges, LiteralEdges, BomEdges

\* Every label is one of those.
LEMMA LabelsAre == Looking = Labels
  BY LabelsOfParts DEF Looking, Labels

\* The graph has no other edges, and the zero byte leads to the end of the input alone.
LEMMA EdgesAre ==
    ASSUME NEW from \in Looking, NEW e \in Edges[from]
    PROVE  Leading(from, e[2]) /\ ("NUL" \in e[1] => e[2] = "yy2")
<1>1. CASE from \in DOMAIN SpaceEdges
  <2>1. Edges[from] = SpaceEdges[from]
    BY <1>1, LabelsOfParts DEF Edges
  <2>2. QED
    BY <1>1, <2>1 DEF Leading, SpaceEdges
<1>2. CASE from \in DOMAIN StringEdges
  <2>1. Edges[from] = StringEdges[from]
    BY <1>2, LabelsOfParts DEF Edges
  <2>2. QED
    BY <1>2, <2>1 DEF Leading, StringEdges, InString, Controls
<1>3. CASE from \in DOMAIN EscapeEdges
  <2>1. Edges[from] = EscapeEdges[from]
    BY <1>3, LabelsOfParts DEF Edges
  <2>2. QED
    BY <1>3, <2>1 DEF Leading, EscapeEdges, Escapes
<1>4. CASE from \in DOMAIN UnicodeEdges
  <2>1. Edges[from] = UnicodeEdges[from]
    BY <1>4, LabelsOfParts DEF Edges
  <2>2. QED
    BY <1>4, <2>1 DEF Leading, UnicodeEdges, HexDigits, Digits
<1>5. CASE from \in DOMAIN IntegerEdges
  <2>1. Edges[from] = IntegerEdges[from]
    BY <1>5, LabelsOfParts DEF Edges
  <2>2. QED
    BY <1>5, <2>1 DEF Leading, IntegerEdges, Digits
<1>6. CASE from \in DOMAIN FractionEdges
  <2>1. Edges[from] = FractionEdges[from]
    BY <1>6, LabelsOfParts DEF Edges
  <2>2. QED
    BY <1>6, <2>1 DEF Leading, FractionEdges, Digits
<1>7. CASE from \in DOMAIN ExponentEdges
  <2>1. Edges[from] = ExponentEdges[from]
    BY <1>7, LabelsOfParts DEF Edges
  <2>2. QED
    BY <1>7, <2>1 DEF Leading, ExponentEdges, Digits
<1>8. CASE from \in DOMAIN LiteralEdges
  <2>1. Edges[from] = LiteralEdges[from]
    BY <1>8, LabelsOfParts DEF Edges
  <2>2. QED
    BY <1>8, <2>1 DEF Leading, LiteralEdges
<1>9. CASE from \in DOMAIN BomEdges
  <2>1. Edges[from] = BomEdges[from]
    BY <1>9, LabelsOfParts DEF Edges
  <2>2. QED
    BY <1>9, <2>1 DEF Leading, BomEdges
<1>10. CASE from = "start"
  <2>1. Edges[from] = StartEdges
    BY <1>10, LabelsOfParts DEF Edges
  <2>2. e \in FirstEdges \/ (e[1] = Rest(FirstEdges) /\ e[2] = "yy4")
    BY <2>1 DEF StartEdges
  <2>3. e \in FirstEdges => Leading("start", e[2]) /\ ("NUL" \in e[1] => e[2] = "yy2")
    BY DEF Leading, FirstEdges
  <2>4. "NUL" \notin Rest(FirstEdges)
    <3>1. <<{"NUL"}, "yy2">> \in FirstEdges
      BY DEF FirstEdges
    <3>2. QED
      BY <3>1 DEF Rest
  <2>5. Leading("start", "yy4")
    BY DEF Leading
  <2>6. QED
    BY <1>10, <2>2, <2>3, <2>4, <2>5
<1>11. QED
  BY <1>1, <1>2, <1>3, <1>4, <1>5, <1>6, <1>7, <1>8, <1>9, <1>10 DEF Looking

\* Bytes that a label has for certain: those asked for on the worst way to it.
Ensured(label) ==
    CASE label = "start" -> 5
      [] label \in {"yy12", "yy15", "yy22", "yy23", "yy24", "yy33"} -> 4
      [] label \in {"yy16", "yy18", "yy42", "yy43", "yy44", "yy45", "yy47"} -> 3
      [] label \in {"yy40", "yy41", "yy52", "yy53"} -> 2
      [] OTHER -> 1

\* After each byte a label has what it needs, or asks for it.
LEMMA EnsuredOnTheWay ==
    ASSUME NEW from \in Looking, NEW e \in Edges[from], e[2] \in Looking
    PROVE  Ensured(from) - 1 >= Ensured(e[2]) \/ Needs(e[2]) >= Ensured(e[2])
  BY EdgesAre, LabelsAre DEF Leading, Labels, Ensured, Needs
-----------------------------------------------------------------------------
(* Chains by their first part.                                             *)

\* What a part may be, and a chain.
Parts == [many : BOOLEAN, words : SUBSET Seq(SUBSET Bytes)]
Chains == Seq(Parts)

\* The chains that go on after a part, and the one that has come to its end.
Prefixed(part, chains) == {<<part>> \o c : c \in chains}
End == {<<>>}

\* What may still come of a chain, or of some, when a byte has come (as in After).
Remains(rest, byte) ==
    Taken(rest, byte) \cup (IF rest # <<>> /\ Head(rest).many THEN Taken(Tail(rest), byte) ELSE {})
Onward(chains, byte) == UNION {Remains(c, byte) : c \in chains}

\* No chain begins with a part that need not come.
Direct(chains) == \A c \in chains : c = <<>> \/ ~Head(c).many

\* One of the chains has nothing left that must come.
CanEnd(chains) == \E c \in chains : \A i \in 1..Len(c) : c[i].many

\* What the rule may still see, as items.
ItemsOf(rule, chains) == {[rule |-> rule, rest |-> c] : c \in chains}

\* A part of one byte, or of one word of one byte.
LEMMA OnePart ==
    ASSUME NEW bytes \in SUBSET Bytes
    PROVE  One(bytes) \in Parts /\ Many({<<bytes>>}) \in Parts
  BY DEF One, Many, Parts

\* A chain behind a part.
LEMMA PrefixedChain ==
    ASSUME NEW P, NEW p \in P, NEW c \in Seq(P)
    PROVE  /\ <<p>> \o c \in Seq(P) /\ <<p>> \o c # <<>>
           /\ Head(<<p>> \o c) = p /\ Tail(<<p>> \o c) = c
           /\ Len(<<p>> \o c) = Len(c) + 1
           /\ (<<p>> \o c)[1] = p
           /\ \A i \in 1..Len(c) : (<<p>> \o c)[i + 1] = c[i]
  OBVIOUS

\* Chains behind a part are chains.
LEMMA PrefixedType ==
    ASSUME NEW p \in Parts, NEW chains \in SUBSET Chains
    PROVE  Prefixed(p, chains) \in SUBSET Chains
<1>1. ASSUME NEW c \in chains PROVE <<p>> \o c \in Chains
  BY PrefixedChain DEF Chains
<1>2. QED
  BY <1>1 DEF Prefixed

\* What a part of one byte takes.
LEMMA TakenOne ==
    ASSUME NEW bytes \in SUBSET Bytes, NEW c \in Chains, NEW byte
    PROVE  Taken(<<One(bytes)>> \o c, byte) = IF byte \in bytes THEN {c} ELSE {}
<1> DEFINE rest == <<One(bytes)>> \o c
<1>1. rest # <<>> /\ Head(rest) = One(bytes) /\ Tail(rest) = c
  BY OnePart, PrefixedChain DEF Chains
<1> HIDE DEF rest
<1>2. One(bytes).many = FALSE /\ One(bytes).words = {<<bytes>>}
  BY DEF One
<1>3. Taken(rest, byte) =
        {[i \in 1..(Len(w) - 1) |-> One(w[i + 1])] \o c : w \in {v \in {<<bytes>>} : byte \in v[1]}}
  BY <1>1, <1>2 DEF Taken
<1>4. [i \in 1..(Len(<<bytes>>) - 1) |-> One(<<bytes>>[i + 1])] \o c = c
  <2>1. Len(<<bytes>>) - 1 = 0
    OBVIOUS
  <2>2. [i \in 1..(Len(<<bytes>>) - 1) |-> One(<<bytes>>[i + 1])] = <<>>
    BY <2>1
  <2>3. QED
    BY <2>2 DEF Chains
<1>5. {v \in {<<bytes>>} : byte \in v[1]} = IF byte \in bytes THEN {<<bytes>>} ELSE {}
  OBVIOUS
<1>6. QED
  BY <1>3, <1>4, <1>5 DEF rest

\* A part of one byte takes that byte only, and the rest of the chain is to come.
LEMMA RemainsOne ==
    ASSUME NEW bytes \in SUBSET Bytes, NEW c \in Chains, NEW byte
    PROVE  Remains(<<One(bytes)>> \o c, byte) = IF byte \in bytes THEN {c} ELSE {}
<1>1. ~Head(<<One(bytes)>> \o c).many
  BY OnePart, PrefixedChain DEF Chains, One
<1>2. QED
  BY <1>1, TakenOne DEF Remains

\* Chains that begin with a part of one byte take that byte, and cannot end before it.
LEMMA OnwardOne ==
    ASSUME NEW bytes \in SUBSET Bytes, NEW chains \in SUBSET Chains, NEW byte
    PROVE  /\ Onward(Prefixed(One(bytes), chains), byte) = IF byte \in bytes THEN chains ELSE {}
           /\ Direct(Prefixed(One(bytes), chains))
           /\ ~CanEnd(Prefixed(One(bytes), chains))
           /\ Prefixed(One(bytes), chains) \in SUBSET Chains
<1>1. \A c \in chains : Remains(<<One(bytes)>> \o c, byte) = IF byte \in bytes THEN {c} ELSE {}
  BY RemainsOne
<1>2. Onward(Prefixed(One(bytes), chains), byte) = UNION {Remains(<<One(bytes)>> \o c, byte) : c \in chains}
  BY DEF Onward, Prefixed
<1>3. Onward(Prefixed(One(bytes), chains), byte) = IF byte \in bytes THEN chains ELSE {}
  <2>1. CASE byte \in bytes
    <3>1. UNION {Remains(<<One(bytes)>> \o c, byte) : c \in chains} = UNION {{c} : c \in chains}
      BY <1>1, <2>1
    <3>2. QED
      BY <1>2, <2>1, <3>1
  <2>2. CASE byte \notin bytes
    BY <1>1, <1>2, <2>2
  <2>3. QED
    BY <2>1, <2>2
<1>4. ASSUME NEW c \in chains
      PROVE  LET d == <<One(bytes)>> \o c IN ~Head(d).many /\ d[1] = One(bytes) /\ 1 \in 1..Len(d)
  <2>1. c \in Seq(Parts) /\ One(bytes) \in Parts
    BY OnePart DEF Chains
  <2>2. Len(c) \in Nat
    BY <2>1
  <2>3. Head(<<One(bytes)>> \o c) = One(bytes) /\ (<<One(bytes)>> \o c)[1] = One(bytes) /\ Len(<<One(bytes)>> \o c) = Len(c) + 1
    BY <2>1, PrefixedChain
  <2>4. ~One(bytes).many
    BY DEF One
  <2>5. QED
    BY <2>2, <2>3, <2>4
<1>5. ~One(bytes).many
  BY DEF One
<1>6. Direct(Prefixed(One(bytes), chains))
  BY <1>4 DEF Direct, Prefixed
<1>7. ~CanEnd(Prefixed(One(bytes), chains))
  BY <1>4, <1>5 DEF CanEnd, Prefixed
<1>8. QED
  BY <1>3, <1>6, <1>7, OnePart, PrefixedType

\* A part that may come again: it comes once more, or the chain goes on behind it.
LEMMA TakenAgain ==
    ASSUME NEW bytes \in SUBSET Bytes, NEW c \in Chains, NEW byte
    PROVE  Taken(<<Many({<<bytes>>})>> \o c, byte) =
             IF byte \in bytes THEN {<<Many({<<bytes>>})>> \o c} ELSE {}
<1> DEFINE rest == <<Many({<<bytes>>})>> \o c
<1>1. rest \in Chains /\ rest # <<>> /\ Head(rest) = Many({<<bytes>>})
  BY OnePart, PrefixedChain DEF Chains
<1> HIDE DEF rest
<1>2. Many({<<bytes>>}).many = TRUE /\ Many({<<bytes>>}).words = {<<bytes>>}
  BY DEF Many
<1>3. Taken(rest, byte) =
        {[i \in 1..(Len(w) - 1) |-> One(w[i + 1])] \o rest : w \in {v \in {<<bytes>>} : byte \in v[1]}}
  BY <1>1, <1>2 DEF Taken
<1>4. [i \in 1..(Len(<<bytes>>) - 1) |-> One(<<bytes>>[i + 1])] \o rest = rest
  <2>1. Len(<<bytes>>) - 1 = 0
    OBVIOUS
  <2>2. [i \in 1..(Len(<<bytes>>) - 1) |-> One(<<bytes>>[i + 1])] = <<>>
    BY <2>1
  <2>3. QED
    BY <1>1, <2>2 DEF Chains
<1>5. {v \in {<<bytes>>} : byte \in v[1]} = IF byte \in bytes THEN {<<bytes>>} ELSE {}
  OBVIOUS
<1>6. QED
  BY <1>3, <1>4, <1>5 DEF rest

\* What follows a part that need not come, where it begins with one that must.
LEMMA RemainsDirect ==
    ASSUME NEW c \in Chains, c = <<>> \/ ~Head(c).many, NEW byte
    PROVE  Remains(c, byte) = Taken(c, byte)
  BY DEF Remains, Taken

\* The same for every part that may come again, whatever its words are.
LEMMA OnwardMany ==
    ASSUME NEW words, Many(words) \in Parts, NEW chains \in SUBSET Chains, Direct(chains), NEW byte
    PROVE  /\ Onward(Prefixed(Many(words), chains), byte) =
                (UNION {Taken(<<Many(words)>> \o c, byte) : c \in chains}) \cup Onward(chains, byte)
           /\ CanEnd(Prefixed(Many(words), chains)) <=> CanEnd(chains)
           /\ Prefixed(Many(words), chains) \in SUBSET Chains
<1>1. ASSUME NEW c \in chains
      PROVE  Remains(<<Many(words)>> \o c, byte) = Taken(<<Many(words)>> \o c, byte) \cup Remains(c, byte)
  <2>1. LET d == <<Many(words)>> \o c IN d # <<>> /\ Head(d) = Many(words) /\ Tail(d) = c
    BY PrefixedChain DEF Chains
  <2>2. Many(words).many
    BY DEF Many
  <2>3. Remains(c, byte) = Taken(c, byte)
    BY RemainsDirect DEF Direct
  <2>4. QED
    BY <2>1, <2>2, <2>3 DEF Remains
<1>2. Onward(Prefixed(Many(words), chains), byte) = UNION {Remains(<<Many(words)>> \o c, byte) : c \in chains}
  BY DEF Onward, Prefixed
<1>3. Onward(Prefixed(Many(words), chains), byte) =
                (UNION {Taken(<<Many(words)>> \o c, byte) : c \in chains}) \cup Onward(chains, byte)
  <2>1. Onward(chains, byte) = UNION {Remains(c, byte) : c \in chains}
    BY DEF Onward
  <2>2. ASSUME NEW x
        PROVE  (\E c \in chains : x \in Remains(<<Many(words)>> \o c, byte)) <=>
                 (\E c \in chains : x \in Taken(<<Many(words)>> \o c, byte)) \/ (\E c \in chains : x \in Remains(c, byte))
    BY <1>1
  <2>3. QED
    BY <1>2, <2>1, <2>2
<1>4. ASSUME NEW c \in chains
      PROVE  (\A i \in 1..Len(<<Many(words)>> \o c) : (<<Many(words)>> \o c)[i].many) <=> (\A i \in 1..Len(c) : c[i].many)
  <2> DEFINE d == <<Many(words)>> \o c
             n == Len(c)
  <2>1. /\ n \in Nat /\ Len(d) = n + 1 /\ d[1] = Many(words)
        /\ \A i \in 1..n : d[i + 1] = c[i]
    BY PrefixedChain DEF Chains
  <2>2. Many(words).many
    BY DEF Many
  <2> HIDE DEF d, n
  <2>3. ASSUME \A i \in 1..n : c[i].many, NEW i \in 1..(n + 1)
        PROVE  d[i].many
    <3>1. CASE i = 1
      BY <2>1, <2>2, <3>1
    <3>2. CASE i # 1
      <4>1. i - 1 \in 1..n /\ (i - 1) + 1 = i
        BY <2>1, <3>2
      <4>2. d[i] = c[i - 1]
        BY <2>1, <4>1
      <4>3. QED
        BY <2>3, <4>1, <4>2
    <3>3. QED
      BY <3>1, <3>2
  <2>4. ASSUME \A i \in 1..(n + 1) : d[i].many, NEW i \in 1..n
        PROVE  c[i].many
    <3>1. i + 1 \in 1..(n + 1)
      BY <2>1
    <3>2. QED
      BY <2>1, <2>4, <3>1
  <2>5. (\A i \in 1..(n + 1) : d[i].many) <=> (\A i \in 1..n : c[i].many)
    BY <2>3, <2>4
  <2>6. (\A i \in 1..Len(d) : d[i].many) <=> (\A i \in 1..n : c[i].many)
    BY <2>1, <2>5
  <2>7. QED
    BY <2>6 DEF d, n
<1>5. CanEnd(Prefixed(Many(words), chains)) <=> CanEnd(chains)
  <2>1. CanEnd(Prefixed(Many(words), chains)) <=>
          \E c \in chains : \A i \in 1..Len(<<Many(words)>> \o c) : (<<Many(words)>> \o c)[i].many
    BY DEF CanEnd, Prefixed
  <2>2. QED
    BY <1>4, <2>1 DEF CanEnd
<1>6. QED
  BY <1>3, <1>5, PrefixedType

\* Where its words are of one byte.
LEMMA OnwardAgain ==
    ASSUME NEW bytes \in SUBSET Bytes, NEW chains \in SUBSET Chains, Direct(chains), NEW byte
    PROVE  /\ Onward(Prefixed(Many({<<bytes>>}), chains), byte) =
                (IF byte \in bytes THEN Prefixed(Many({<<bytes>>}), chains) ELSE {}) \cup Onward(chains, byte)
           /\ CanEnd(Prefixed(Many({<<bytes>>}), chains)) <=> CanEnd(chains)
           /\ Prefixed(Many({<<bytes>>}), chains) \in SUBSET Chains
<1>1. UNION {Taken(<<Many({<<bytes>>})>> \o c, byte) : c \in chains} =
        IF byte \in bytes THEN Prefixed(Many({<<bytes>>}), chains) ELSE {}
  <2>1. \A c \in chains : Taken(<<Many({<<bytes>>})>> \o c, byte) =
             IF byte \in bytes THEN {<<Many({<<bytes>>})>> \o c} ELSE {}
    BY TakenAgain
  <2>2. CASE byte \in bytes
    <3>1. UNION {Taken(<<Many({<<bytes>>})>> \o c, byte) : c \in chains} = UNION {{<<Many({<<bytes>>})>> \o c} : c \in chains}
      BY <2>1, <2>2
    <3>2. QED
      BY <2>2, <3>1 DEF Prefixed
  <2>3. CASE byte \notin bytes
    BY <2>1, <2>3
  <2>4. QED
    BY <2>2, <2>3
<1>2. Many({<<bytes>>}) \in Parts
  BY OnePart
<1> HIDE DEF One
<1>3. QED
  BY <1>1, <1>2, OnwardMany

\* Two sets of chains, and the chain at its end.
LEMMA OnwardUnion ==
    ASSUME NEW a \in SUBSET Chains, NEW b \in SUBSET Chains, NEW byte
    PROVE  /\ Onward(a \cup b, byte) = Onward(a, byte) \cup Onward(b, byte)
           /\ Direct(a \cup b) <=> Direct(a) /\ Direct(b)
           /\ CanEnd(a \cup b) <=> CanEnd(a) \/ CanEnd(b)
           /\ a \cup b \in SUBSET Chains
  BY DEF Onward, Direct, CanEnd

\* From its end a chain goes nowhere.
LEMMA OnwardEnd ==
    ASSUME NEW byte
    PROVE  Onward(End, byte) = {} /\ Direct(End) /\ CanEnd(End) /\ End \in SUBSET Chains
<1>1. Len(<<>>) = 0 /\ <<>> \in Chains
  BY DEF Chains
<1>2. Remains(<<>>, byte) = {}
  BY DEF Remains, Taken
<1>3. QED
  BY <1>1, <1>2 DEF Onward, Direct, CanEnd, End

\* The words of a string: a character, or an escape, short or of four digits.
Words == {<<unescaped>>, <<{"backslash"}, single_escaped>>, <<{"backslash"}>> \o unicode_escaped}
chars == Many(Words)

Hex(chains) == Prefixed(One(HexDigits), chains)

\* What may come in a string, and behind a backslash.
Inside == Prefixed(chars, Prefixed(One({"quote"}), End))
Escaped == Prefixed(One(single_escaped), Inside) \cup Prefixed(One({"u"}), Hex(Hex(Hex(Hex(Inside)))))

\* The bytes of a string: the quotation mark and the backslash are no characters.
LEMMA Escapeable ==
    /\ unescaped \in SUBSET Bytes /\ single_escaped \in SUBSET Bytes /\ HexDigits \in SUBSET Bytes
    /\ {"u"} \in SUBSET Bytes /\ {"quote"} \in SUBSET Bytes /\ {"backslash"} \in SUBSET Bytes
    /\ "backslash" \notin unescaped /\ "quote" \notin unescaped
  BY DEF unescaped, single_escaped, HexDigits, Digits, Bytes

\* Five parts before a chain.
LEMMA FiveBefore ==
    ASSUME NEW S, NEW a \in S, NEW b \in S, NEW c \in S, NEW d \in S, NEW e \in S, NEW t \in Seq(S)
    PROVE  <<a, b, c, d, e>> \o t = <<a>> \o (<<b>> \o (<<c>> \o (<<d>> \o (<<e>> \o t))))
<1> DEFINE n == Len(t)
           t1 == <<e>> \o t
           t2 == <<d>> \o t1
           t3 == <<c>> \o t2
           t4 == <<b>> \o t3
           t5 == <<a>> \o t4
           five == <<a, b, c, d, e>> \o t
<1>1. n \in Nat
  OBVIOUS
<1>2. t1 \in Seq(S) /\ Len(t1) = n + 1 /\ t1[1] = e /\ \A i \in 1..n : t1[i + 1] = t[i]
  BY PrefixedChain
<1> HIDE DEF t1
<1>3. t2 \in Seq(S) /\ Len(t2) = Len(t1) + 1 /\ t2[1] = d /\ \A i \in 1..Len(t1) : t2[i + 1] = t1[i]
  BY <1>2, PrefixedChain
<1> HIDE DEF t2
<1>4. t3 \in Seq(S) /\ Len(t3) = Len(t2) + 1 /\ t3[1] = c /\ \A i \in 1..Len(t2) : t3[i + 1] = t2[i]
  BY <1>3, PrefixedChain
<1> HIDE DEF t3
<1>5. t4 \in Seq(S) /\ Len(t4) = Len(t3) + 1 /\ t4[1] = b /\ \A i \in 1..Len(t3) : t4[i + 1] = t3[i]
  BY <1>4, PrefixedChain
<1> HIDE DEF t4
<1>6. t5 \in Seq(S) /\ Len(t5) = Len(t4) + 1 /\ t5[1] = a /\ \A i \in 1..Len(t4) : t5[i + 1] = t4[i]
  BY <1>5, PrefixedChain
<1> HIDE DEF t5
<1>7. /\ five \in Seq(S) /\ Len(five) = 5 + n
      /\ five[1] = a /\ five[2] = b /\ five[3] = c /\ five[4] = d /\ five[5] = e
      /\ \A i \in 1..n : five[i + 5] = t[i]
  <2> DEFINE s == <<a, b, c, d, e>>
  <2>1. s \in Seq(S) /\ Len(s) = 5 /\ s[1] = a /\ s[2] = b /\ s[3] = c /\ s[4] = d /\ s[5] = e
    OBVIOUS
  <2>2. five = s \o t
    OBVIOUS
  <2> HIDE DEF s, five, n
  <2>3. Len(t) = n
    BY DEF n
  <2>4. /\ s \o t \in Seq(S) /\ Len(s \o t) = 5 + n
        /\ \A i \in 1..(5 + n) : (s \o t)[i] = IF i <= 5 THEN s[i] ELSE t[i - 5]
    <3>1. /\ s \o t \in Seq(S) /\ Len(s \o t) = Len(s) + Len(t)
          /\ \A i \in 1..(Len(s) + Len(t)) : (s \o t)[i] = IF i <= Len(s) THEN s[i] ELSE t[i - Len(s)]
      BY <2>1, ConcatProperties
    <3>2. QED
      BY <2>1, <2>3, <3>1
  <2>5. ASSUME NEW i \in 1..n PROVE five[i + 5] = t[i]
    <3>1. i + 5 \in 1..(5 + n) /\ ~(i + 5 <= 5) /\ (i + 5) - 5 = i
      BY <1>1
    <3>2. QED
      BY <2>2, <2>4, <3>1
  <2>6. five[1] = a /\ five[2] = b /\ five[3] = c /\ five[4] = d /\ five[5] = e
    <3>1. 1 \in 1..(5 + n) /\ 2 \in 1..(5 + n) /\ 3 \in 1..(5 + n) /\ 4 \in 1..(5 + n) /\ 5 \in 1..(5 + n)
      BY <1>1
    <3>2. QED
      BY <2>1, <2>2, <2>4, <3>1, SMTT(30)
  <2>7. QED
    BY <2>2, <2>4, <2>5, <2>6
<1> HIDE DEF n, five
<1>8. Len(t1) = n + 1 /\ Len(t2) = n + 2 /\ Len(t3) = n + 3 /\ Len(t4) = n + 4 /\ Len(t5) = n + 5
  BY <1>1, <1>2, <1>3, <1>4, <1>5, <1>6 DEF n
<1>9. t5[1] = a /\ t5[2] = b /\ t5[3] = c /\ t5[4] = d /\ t5[5] = e
  BY <1>1, <1>2, <1>3, <1>4, <1>5, <1>6, <1>8
<1>10. ASSUME NEW i \in 1..n PROVE t5[i + 5] = t[i]
  <2>1. t5[(i + 4) + 1] = t4[i + 4]
    BY <1>1, <1>6, <1>8
  <2>2. t4[(i + 3) + 1] = t3[i + 3]
    BY <1>1, <1>5, <1>8
  <2>3. t3[(i + 2) + 1] = t2[i + 2]
    BY <1>1, <1>4, <1>8
  <2>4. t2[(i + 1) + 1] = t1[i + 1]
    BY <1>1, <1>3, <1>8
  <2>5. t1[i + 1] = t[i]
    BY <1>2 DEF n
  <2>6. (i + 4) + 1 = i + 5 /\ (i + 3) + 1 = i + 4 /\ (i + 2) + 1 = i + 3 /\ (i + 1) + 1 = i + 2
    BY <1>1
  <2>7. QED
    BY <2>1, <2>2, <2>3, <2>4, <2>5, <2>6
<1>11. ASSUME NEW i \in 1..(5 + n) PROVE five[i] = t5[i]
  <2>1. CASE i <= 5
    <3>1. i = 1 \/ i = 2 \/ i = 3 \/ i = 4 \/ i = 5
      BY <1>1, <2>1
    <3>2. QED
      BY <1>7, <1>9, <3>1
  <2>2. CASE i > 5
    <3>1. i - 5 \in 1..n /\ (i - 5) + 5 = i
      BY <1>1, <2>2
    <3>2. five[(i - 5) + 5] = t[i - 5] /\ t5[(i - 5) + 5] = t[i - 5]
      BY <1>7, <1>10, <3>1
    <3>3. QED
      BY <3>1, <3>2
  <2>3. QED
    BY <1>1, <2>1, <2>2
<1>12. Len(five) = Len(t5)
  BY <1>1, <1>7, <1>8
<1>13. five = t5
  BY <1>6, <1>7, <1>11, <1>12, SeqEqual
<1>14. QED
  BY <1>13 DEF five, t5, t4, t3, t2, t1

\* A part and five more.
LEMMA SixParts ==
    ASSUME NEW S, NEW a \in S, NEW b \in S, NEW c \in S
    PROVE  /\ <<a>> \o <<b, c, c, c, c>> = <<a, b, c, c, c, c>>
           /\ <<a, b, c, c, c, c>> \in Seq(S)
<1> DEFINE s == <<a>> \o <<b, c, c, c, c>>
           t == <<a, b, c, c, c, c>>
<1>1. <<a>> \in Seq(S) /\ <<b, c, c, c, c>> \in Seq(S) /\ t \in Seq(S)
  OBVIOUS
<1>2. Len(<<a>>) = 1 /\ Len(<<b, c, c, c, c>>) = 5 /\ Len(t) = 6
  OBVIOUS
<1>3. s \in Seq(S) /\ Len(s) = 6
  BY <1>1, <1>2, ConcatProperties
<1>4. s[1] = a /\ s[2] = b /\ s[3] = c /\ s[4] = c /\ s[5] = c /\ s[6] = c
  OBVIOUS
<1>5. ASSUME NEW i \in 1..6 PROVE s[i] = t[i]
  <2>1. i = 1 \/ i = 2 \/ i = 3 \/ i = 4 \/ i = 5 \/ i = 6
    OBVIOUS
  <2>2. QED
    BY <1>4, <2>1
<1> HIDE DEF s, t
<1>6. s = t
  BY <1>1, <1>2, <1>3, <1>5, SeqEqual
<1>7. QED
  BY <1>1, <1>6 DEF s, t

\* The long escape, byte by byte.
LEMMA LongEscape ==
    LET w == <<{"backslash"}>> \o unicode_escaped
    IN  /\ w = <<{"backslash"}, {"u"}, HexDigits, HexDigits, HexDigits, HexDigits>>
        /\ w \in Seq(SUBSET Bytes)
<1> DEFINE w == <<{"backslash"}>> \o unicode_escaped
           S == SUBSET Bytes
<1>0. {"backslash"} \in S /\ {"u"} \in S /\ HexDigits \in S
  BY Escapeable
<1> HIDE DEF S
<1>1. w = <<{"backslash"}, {"u"}, HexDigits, HexDigits, HexDigits, HexDigits>>
  <2>1. w = <<{"backslash"}>> \o <<{"u"}, HexDigits, HexDigits, HexDigits, HexDigits>>
    BY DEF unicode_escaped
  <2>2. QED
    BY <2>1, <1>0, SixParts
<1>2. w \in Seq(S)
  BY <1>0, <1>1, SixParts, ZenonT(30)
<1>3. QED
  BY <1>1, <1>2 DEF S

\* The words of a string make a part.
LEMMA CharsPart == chars \in Parts
<1>1. <<unescaped>> \in Seq(SUBSET Bytes) /\ <<{"backslash"}, single_escaped>> \in Seq(SUBSET Bytes)
  BY Escapeable
<1>2. QED
  BY <1>1, LongEscape DEF chars, Many, Words, Parts

\* What a word leaves to come, once its first byte has.
LEMMA WordsLeft ==
    ASSUME NEW rest \in Chains
    PROVE  LET left(w) == [i \in 1..(Len(w) - 1) |-> One(w[i + 1])] \o rest
           IN  /\ left(<<unescaped>>) = rest
               /\ left(<<{"backslash"}, single_escaped>>) = <<One(single_escaped)>> \o rest
               /\ left(<<{"backslash"}>> \o unicode_escaped) =
                    <<One({"u"})>> \o (<<One(HexDigits)>> \o (<<One(HexDigits)>> \o (<<One(HexDigits)>> \o (<<One(HexDigits)>> \o rest))))
<1>1. [i \in 1..(Len(<<unescaped>>) - 1) |-> One(<<unescaped>>[i + 1])] = <<>>
  OBVIOUS
<1>2. ASSUME NEW x, NEW y PROVE [i \in 1..(Len(<<x, y>>) - 1) |-> One(<<x, y>>[i + 1])] = <<One(y)>>
  <2>1. Len(<<x, y>>) - 1 = 1
    OBVIOUS
  <2>2. QED
    BY <2>1
<1>3. ASSUME NEW u, NEW h, NEW w, Len(w) = 6,
             w[1 + 1] = u, w[2 + 1] = h, w[3 + 1] = h, w[4 + 1] = h, w[5 + 1] = h
      PROVE  [i \in 1..(Len(w) - 1) |-> One(w[i + 1])] = <<One(u), One(h), One(h), One(h), One(h)>>
  <2>1. Len(w) - 1 = 5
    BY <1>3
  <2>2. w[1 + 1] = u /\ w[2 + 1] = h /\ w[3 + 1] = h /\ w[4 + 1] = h /\ w[5 + 1] = h
    BY <1>3
  <2> DEFINE f == [i \in 1..5 |-> One(w[i + 1])]
             g == <<One(u), One(h), One(h), One(h), One(h)>>
             T == {One(u), One(h)}
  <2> HIDE DEF One
  <2>3. f[1] = One(u) /\ f[2] = One(h) /\ f[3] = One(h) /\ f[4] = One(h) /\ f[5] = One(h)
    BY <2>2
  <2>4. \A i \in 1..5 : i = 1 \/ i = 2 \/ i = 3 \/ i = 4 \/ i = 5
    OBVIOUS
  <2>5. \A i \in 1..5 : f[i] \in T
    BY <2>3, <2>4
  <2>6. g \in Seq(T) /\ Len(g) = 5 /\ g[1] = One(u) /\ g[2] = One(h) /\ g[3] = One(h) /\ g[4] = One(h) /\ g[5] = One(h)
    OBVIOUS
  <2>7. f \in [1..5 -> T]
    BY <2>5
  <2>8. f \in Seq(T) /\ Len(f) = 5
    BY <2>7, SeqDef, LenProperties
  <2> HIDE DEF f, g, T
  <2>9. \A i \in 1..5 : f[i] = g[i]
    BY <2>3, <2>4, <2>6
  <2>10. f = g
    BY <2>6, <2>8, <2>9, SeqEqual
  <2>11. QED
    BY <2>1, <2>10 DEF f, g
<1>4. <<>> \o rest = rest
  BY DEF Chains
<1>5. One({"u"}) \in Parts /\ One(HexDigits) \in Parts
  BY Escapeable, OnePart
<1>6. <<One({"u"}), One(HexDigits), One(HexDigits), One(HexDigits), One(HexDigits)>> \o rest =
        <<One({"u"})>> \o (<<One(HexDigits)>> \o (<<One(HexDigits)>> \o (<<One(HexDigits)>> \o (<<One(HexDigits)>> \o rest))))
  <2>1. rest \in Seq(Parts)
    BY DEF Chains
  <2> DEFINE u == One({"u"})
             h == One(HexDigits)
  <2>2. u \in Parts /\ h \in Parts
    BY <1>5
  <2> HIDE DEF u, h
  <2>3. <<u, h, h, h, h>> \o rest = <<u>> \o (<<h>> \o (<<h>> \o (<<h>> \o (<<h>> \o rest))))
    BY <2>1, <2>2, FiveBefore, SMTT(30)
  <2>4. QED
    BY <2>3 DEF u, h
<1>7. <<{"backslash"}>> \o unicode_escaped = <<{"backslash"}, {"u"}, HexDigits, HexDigits, HexDigits, HexDigits>>
  BY LongEscape
<1> HIDE DEF One
<1>8. [i \in 1..(Len(<<{"backslash"}>> \o unicode_escaped) - 1) |-> One((<<{"backslash"}>> \o unicode_escaped)[i + 1])]
        = <<One({"u"}), One(HexDigits), One(HexDigits), One(HexDigits), One(HexDigits)>>
  <2> DEFINE w == <<{"backslash"}>> \o unicode_escaped
  <2>1. w = <<{"backslash"}, {"u"}, HexDigits, HexDigits, HexDigits, HexDigits>>
    BY <1>7
  <2> HIDE DEF w
  <2>0. /\ Len(w) = 6 /\ w[1 + 1] = {"u"}
        /\ w[2 + 1] = HexDigits /\ w[3 + 1] = HexDigits /\ w[4 + 1] = HexDigits /\ w[5 + 1] = HexDigits
    BY <2>1
  <2>2. [i \in 1..(Len(w) - 1) |-> One(w[i + 1])] = <<One({"u"}), One(HexDigits), One(HexDigits), One(HexDigits), One(HexDigits)>>
    BY <1>3, <2>0, ZenonT(60)
  <2>3. QED
    BY <2>2 DEF w
<1>9. [i \in 1..(Len(<<{"backslash"}, single_escaped>>) - 1) |-> One(<<{"backslash"}, single_escaped>>[i + 1])]
        = <<One(single_escaped)>>
  BY <1>2, Zenon
<1>10. QED
  BY <1>1, <1>4, <1>6, <1>8, <1>9, Zenon

\* In a string.
LEMMA TakenChars ==
    ASSUME NEW c \in Chains, NEW byte
    PROVE  LET rest == <<chars>> \o c
           IN  Taken(rest, byte) =
                 (IF byte \in unescaped THEN {rest} ELSE {}) \cup
                 (IF byte = "backslash"
                  THEN {<<One(single_escaped)>> \o rest,
                        <<One({"u"})>> \o (<<One(HexDigits)>> \o (<<One(HexDigits)>> \o (<<One(HexDigits)>> \o (<<One(HexDigits)>> \o rest))))}
                  ELSE {})
<1> DEFINE rest == <<chars>> \o c
           left(w) == [i \in 1..(Len(w) - 1) |-> One(w[i + 1])] \o rest
           long == <<One({"u"})>> \o (<<One(HexDigits)>> \o (<<One(HexDigits)>> \o (<<One(HexDigits)>> \o (<<One(HexDigits)>> \o rest))))
           w1 == <<unescaped>>
           w2 == <<{"backslash"}, single_escaped>>
           w3 == <<{"backslash"}>> \o unicode_escaped
<1>1. rest \in Chains /\ rest # <<>> /\ Head(rest) = chars
  BY CharsPart, PrefixedChain DEF Chains
<1> HIDE DEF rest
<1>2. left(w1) = rest /\ left(w2) = <<One(single_escaped)>> \o rest /\ left(w3) = long
  BY <1>1, WordsLeft
<1>3. chars.many = TRUE /\ chars.words = {w1, w2, w3}
  BY DEF chars, Many, Words
<1>4. Taken(rest, byte) = {left(w) : w \in {v \in chars.words : byte \in v[1]}}
  BY <1>1, <1>3 DEF Taken
<1>5. w1[1] = unescaped /\ w2[1] = {"backslash"} /\ w3[1] = {"backslash"}
  BY LongEscape
<1> HIDE DEF w1, w2, w3, left, long
<1>6. \A x : x \in Taken(rest, byte) <=> \E w \in {w1, w2, w3} : byte \in w[1] /\ x = left(w)
  BY <1>3, <1>4
<1>7. \A x : x \in Taken(rest, byte) <=> \/ byte \in unescaped /\ x = rest
                                         \/ byte = "backslash" /\ (x = <<One(single_escaped)>> \o rest \/ x = long)
  <2>1. \A x : x \in Taken(rest, byte) <=> \/ byte \in w1[1] /\ x = left(w1)
                                           \/ byte \in w2[1] /\ x = left(w2)
                                           \/ byte \in w3[1] /\ x = left(w3)
    BY <1>6, Zenon
  <2>2. QED
    BY <1>2, <1>5, <2>1
<1>8. Taken(rest, byte) =
                 (IF byte \in unescaped THEN {rest} ELSE {}) \cup
                 (IF byte = "backslash" THEN {<<One(single_escaped)>> \o rest, long} ELSE {})
  BY <1>7
<1>9. QED
  BY <1>8 DEF rest, long

\* A string goes on to its closing quotation mark, which must come.
LEMMA QuoteType ==
    /\ Prefixed(One({"quote"}), End) \in SUBSET Chains
    /\ Direct(Prefixed(One({"quote"}), End))
    /\ ~CanEnd(Prefixed(One({"quote"}), End))
  BY Escapeable, OnwardEnd, OnwardOne

\* Where each byte leads from inside a string.
LEMMA OnwardInside ==
    ASSUME NEW byte
    PROVE  /\ byte \in unescaped => Onward(Inside, byte) = Inside
           /\ byte = "backslash" => Onward(Inside, byte) = Escaped
           /\ byte = "quote" => Onward(Inside, byte) = End
           /\ byte \notin unescaped \cup {"backslash", "quote"} => Onward(Inside, byte) = {}
           /\ ~CanEnd(Inside) /\ Inside \in SUBSET Chains
<1> DEFINE Q == Prefixed(One({"quote"}), End)
<1>1. Q \in SUBSET Chains /\ Direct(Q) /\ ~CanEnd(Q)
  BY QuoteType
<1>2. Onward(Q, byte) = IF byte \in {"quote"} THEN End ELSE {}
  BY Escapeable, OnwardEnd, OnwardOne
<1>3. Inside = Prefixed(chars, Q)
  BY DEF Inside
<1> HIDE DEF Q
<1>4. /\ Onward(Inside, byte) = (UNION {Taken(<<chars>> \o c, byte) : c \in Q}) \cup Onward(Q, byte)
      /\ ~CanEnd(Inside) /\ Inside \in SUBSET Chains
  BY <1>1, <1>3, CharsPart, OnwardMany DEF chars
<1> DEFINE T == UNION {Taken(<<chars>> \o c, byte) : c \in Q}
           long(rest) == <<One({"u"})>> \o (<<One(HexDigits)>> \o (<<One(HexDigits)>> \o (<<One(HexDigits)>> \o (<<One(HexDigits)>> \o rest))))
<1>5. ASSUME NEW c \in Q
      PROVE  Taken(<<chars>> \o c, byte) =
                 (IF byte \in unescaped THEN {<<chars>> \o c} ELSE {}) \cup
                 (IF byte = "backslash" THEN {<<One(single_escaped)>> \o (<<chars>> \o c), long(<<chars>> \o c)} ELSE {})
  BY <1>1, TakenChars
<1>6. Escaped = {<<One(single_escaped)>> \o r : r \in Inside} \cup {long(r) : r \in Inside}
  <2> DEFINE hex(r) == <<One(HexDigits)>> \o r
  <2>1. \A S, x : x \in Hex(S) <=> \E r \in S : x = hex(r)
    BY DEF Hex, Prefixed
  <2>2. \A r : long(r) = <<One({"u"})>> \o hex(hex(hex(hex(r))))
    OBVIOUS
  <2>3. \A x : x \in Prefixed(One(single_escaped), Inside) <=> \E r \in Inside : x = <<One(single_escaped)>> \o r
    BY DEF Prefixed
  <2>4. \A S, x : x \in Prefixed(One({"u"}), S) <=> \E r \in S : x = <<One({"u"})>> \o r
    BY DEF Prefixed
  <2> HIDE DEF hex, long
  <2>5. \A x : x \in Hex(Hex(Inside)) <=> \E r \in Inside : x = hex(hex(r))
    BY <2>1
  <2>6. \A x : x \in Hex(Hex(Hex(Inside))) <=> \E r \in Inside : x = hex(hex(hex(r)))
    BY <2>1, <2>5
  <2>7. \A x : x \in Hex(Hex(Hex(Hex(Inside)))) <=> \E r \in Inside : x = hex(hex(hex(hex(r))))
    BY <2>1, <2>6
  <2>8. \A x : x \in Prefixed(One({"u"}), Hex(Hex(Hex(Hex(Inside))))) <=> \E r \in Inside : x = long(r)
    <3>1. ASSUME NEW x, x \in Prefixed(One({"u"}), Hex(Hex(Hex(Hex(Inside)))))
          PROVE  \E r \in Inside : x = long(r)
      <4>1. PICK s \in Hex(Hex(Hex(Hex(Inside)))) : x = <<One({"u"})>> \o s
        BY <2>4, <3>1, Zenon
      <4>2. PICK r \in Inside : s = hex(hex(hex(hex(r))))
        BY <2>7
      <4>3. QED
        BY <2>2, <4>1, <4>2
    <3>2. ASSUME NEW r \in Inside
          PROVE  long(r) \in Prefixed(One({"u"}), Hex(Hex(Hex(Hex(Inside)))))
      BY <2>2, <2>4, <2>7
    <3>3. QED
      BY <3>1, <3>2
  <2>9. QED
    BY <2>3, <2>8 DEF Escaped
<1> HIDE DEF long
<1>7. Inside = {<<chars>> \o c : c \in Q}
  BY <1>3 DEF Prefixed
<1>8. CASE byte \in unescaped
  <2>1. byte # "backslash" /\ byte # "quote"
    BY <1>8, Escapeable
  <2>2. \A c \in Q : Taken(<<chars>> \o c, byte) = {<<chars>> \o c}
    BY <1>5, <1>8, <2>1
  <2>3. T = Inside
    BY <1>7, <2>2
  <2>4. Onward(Inside, byte) = Inside
    BY <1>2, <1>4, <2>1, <2>3
  <2>5. QED
    BY <1>4, <1>8, <2>1, <2>4
<1>9. CASE byte = "backslash"
  <2>1. byte \notin unescaped /\ byte # "quote"
    BY <1>9, Escapeable
  <2>2. \A c \in Q : Taken(<<chars>> \o c, byte) = {<<One(single_escaped)>> \o (<<chars>> \o c), long(<<chars>> \o c)}
    BY <1>5, <1>9, <2>1
  <2>3. \A x : x \in T <=> \E c \in Q : x = <<One(single_escaped)>> \o (<<chars>> \o c) \/ x = long(<<chars>> \o c)
    BY <2>2
  <2>4. \A x : x \in Escaped <=> \E r \in Inside : x = <<One(single_escaped)>> \o r \/ x = long(r)
    BY <1>6
  <2>5. \A x : x \in Escaped <=> \E c \in Q : x = <<One(single_escaped)>> \o (<<chars>> \o c) \/ x = long(<<chars>> \o c)
    <3>1. \A r : r \in Inside <=> \E c \in Q : r = <<chars>> \o c
      BY <1>7
    <3>2. QED
      <4> DEFINE short(r) == <<One(single_escaped)>> \o r
      <4>1. \A x : x \in Escaped <=> \E r \in Inside : x = short(r) \/ x = long(r)
        BY <2>4
      <4> HIDE DEF short
      <4>2. \A x : x \in Escaped <=> \E c \in Q : x = short(<<chars>> \o c) \/ x = long(<<chars>> \o c)
        BY <4>1, <3>1, ZenonT(30)
      <4>3. QED
        BY <4>2 DEF short
  <2>6. T = Escaped
    BY <2>3, <2>5
  <2>7. Onward(Inside, byte) = Escaped
    BY <1>2, <1>4, <2>1, <2>6
  <2>8. QED
    BY <1>4, <1>9, <2>1, <2>7
<1>10. CASE byte \notin unescaped \cup {"backslash"}
  <2>1. \A c \in Q : Taken(<<chars>> \o c, byte) = {}
    BY <1>5, <1>10
  <2>2. T = {}
    BY <2>1
  <2>3. Onward(Inside, byte) = Onward(Q, byte)
    BY <1>4, <2>2
  <2>4. QED
    BY <1>2, <1>4, <1>10, <2>3
<1>11. QED
  BY <1>8, <1>9, <1>10

\* Numbers: digits and what follows them, an exponent and a fraction.
digits == Many({<<Digits>>})
AtLeastOne(chains) == Prefixed(One(Digits), Prefixed(digits, chains))
Signed == AtLeastOne(End) \cup Prefixed(One({"plus", "minus"}), AtLeastOne(End))
Exponent == End \cup Prefixed(One({"E"}), Signed)
Tails == Exponent \cup Prefixed(One({"dot"}), AtLeastOne(Exponent))
Unsigned == Prefixed(One({"0"}), Tails) \cup Prefixed(One({"9"}), Prefixed(digits, Tails))

\* The bytes of a number.
LEMMA NumberBytes ==
    /\ Digits \in SUBSET Bytes /\ {"plus", "minus"} \in SUBSET Bytes /\ {"E"} \in SUBSET Bytes
    /\ {"dot"} \in SUBSET Bytes /\ {"0"} \in SUBSET Bytes /\ {"9"} \in SUBSET Bytes
  BY DEF Digits, Bytes

\* Where each byte leads among digits.
LEMMA OnwardDigits ==
    ASSUME NEW set \in SUBSET Chains, Direct(set), NEW byte
    PROVE  /\ Onward(Prefixed(digits, set), byte) =
                (IF byte \in Digits THEN Prefixed(digits, set) ELSE {}) \cup Onward(set, byte)
           /\ CanEnd(Prefixed(digits, set)) <=> CanEnd(set)
           /\ Prefixed(digits, set) \in SUBSET Chains
           /\ Onward(AtLeastOne(set), byte) = (IF byte \in Digits THEN Prefixed(digits, set) ELSE {})
           /\ Direct(AtLeastOne(set)) /\ ~CanEnd(AtLeastOne(set)) /\ AtLeastOne(set) \in SUBSET Chains
<1>1. Digits \in SUBSET Bytes
  BY NumberBytes
<1>2. /\ Onward(Prefixed(digits, set), byte) =
            (IF byte \in Digits THEN Prefixed(digits, set) ELSE {}) \cup Onward(set, byte)
      /\ CanEnd(Prefixed(digits, set)) <=> CanEnd(set)
      /\ Prefixed(digits, set) \in SUBSET Chains
  BY <1>1, OnwardAgain DEF digits
<1>3. QED
  BY <1>1, <1>2, OnwardOne DEF AtLeastOne

\* Behind the E: a sign, or digits.
LEMMA OnwardSigned ==
    ASSUME NEW byte
    PROVE  /\ Onward(Signed, byte) = IF byte \in Digits THEN Prefixed(digits, End)
                                     ELSE IF byte \in {"plus", "minus"} THEN AtLeastOne(End) ELSE {}
           /\ Direct(Signed) /\ ~CanEnd(Signed) /\ Signed \in SUBSET Chains
<1> DEFINE A == AtLeastOne(End)
           B == Prefixed(One({"plus", "minus"}), A)
<1>1. /\ A \in SUBSET Chains /\ Direct(A) /\ ~CanEnd(A)
      /\ Onward(A, byte) = IF byte \in Digits THEN Prefixed(digits, End) ELSE {}
  BY OnwardEnd, OnwardDigits
<1> HIDE DEF A
<1>2. /\ B \in SUBSET Chains /\ Direct(B) /\ ~CanEnd(B)
      /\ Onward(B, byte) = IF byte \in {"plus", "minus"} THEN A ELSE {}
  BY <1>1, NumberBytes, OnwardOne
<1> HIDE DEF B
<1>3. Signed = A \cup B
  BY DEF Signed, A, B
<1>4. /\ Onward(Signed, byte) = Onward(A, byte) \cup Onward(B, byte)
      /\ Direct(Signed) /\ ~CanEnd(Signed) /\ Signed \in SUBSET Chains
  BY <1>1, <1>2, <1>3, OnwardUnion
<1>5. byte \in Digits => byte \notin {"plus", "minus"}
  BY DEF Digits
<1>6. Onward(Signed, byte) = IF byte \in Digits THEN Prefixed(digits, End)
                             ELSE IF byte \in {"plus", "minus"} THEN A ELSE {}
  BY <1>1, <1>2, <1>4, <1>5
<1>7. QED
  BY <1>4, <1>6 DEF A

\* Where an exponent may still come.
LEMMA OnwardExponent ==
    ASSUME NEW byte
    PROVE  /\ Onward(Exponent, byte) = IF byte = "E" THEN Signed ELSE {}
           /\ Direct(Exponent) /\ CanEnd(Exponent) /\ Exponent \in SUBSET Chains
<1> DEFINE B == Prefixed(One({"E"}), Signed)
<1>1. /\ B \in SUBSET Chains /\ Direct(B) /\ ~CanEnd(B)
      /\ Onward(B, byte) = IF byte \in {"E"} THEN Signed ELSE {}
  BY OnwardSigned, NumberBytes, OnwardOne
<1> HIDE DEF B
<1>2. Exponent = End \cup B
  BY DEF Exponent, B
<1>3. /\ Onward(Exponent, byte) = Onward(End, byte) \cup Onward(B, byte)
      /\ Direct(Exponent) /\ CanEnd(Exponent) /\ Exponent \in SUBSET Chains
  BY <1>1, <1>2, OnwardEnd, OnwardUnion
<1>4. QED
  BY <1>1, <1>3, OnwardEnd

\* Where a fraction may come as well.
LEMMA OnwardTails ==
    ASSUME NEW byte
    PROVE  /\ Onward(Tails, byte) = IF byte = "E" THEN Signed ELSE IF byte = "dot" THEN AtLeastOne(Exponent) ELSE {}
           /\ Direct(Tails) /\ CanEnd(Tails) /\ Tails \in SUBSET Chains
<1> DEFINE B == Prefixed(One({"dot"}), AtLeastOne(Exponent))
<1>1. AtLeastOne(Exponent) \in SUBSET Chains
  BY OnwardExponent, OnwardDigits
<1>2. /\ B \in SUBSET Chains /\ Direct(B) /\ ~CanEnd(B)
      /\ Onward(B, byte) = IF byte \in {"dot"} THEN AtLeastOne(Exponent) ELSE {}
  BY <1>1, NumberBytes, OnwardOne
<1> HIDE DEF B
<1>3. Tails = Exponent \cup B
  BY DEF Tails, B
<1>4. /\ Onward(Tails, byte) = Onward(Exponent, byte) \cup Onward(B, byte)
      /\ Direct(Tails) /\ CanEnd(Tails) /\ Tails \in SUBSET Chains
  BY <1>2, <1>3, OnwardExponent, OnwardUnion, ZenonT(60)
<1>5. QED
  BY <1>2, <1>4, OnwardExponent

\* Where a number must begin with a digit.
LEMMA OnwardUnsigned ==
    ASSUME NEW byte
    PROVE  /\ Onward(Unsigned, byte) = IF byte = "0" THEN Tails ELSE IF byte = "9" THEN Prefixed(digits, Tails) ELSE {}
           /\ Direct(Unsigned) /\ ~CanEnd(Unsigned) /\ Unsigned \in SUBSET Chains
<1> DEFINE A == Prefixed(One({"0"}), Tails)
           B == Prefixed(One({"9"}), Prefixed(digits, Tails))
<1>1. Tails \in SUBSET Chains /\ Prefixed(digits, Tails) \in SUBSET Chains
  BY OnwardTails, OnwardDigits
<1>2. /\ A \in SUBSET Chains /\ Direct(A) /\ ~CanEnd(A)
      /\ Onward(A, byte) = IF byte \in {"0"} THEN Tails ELSE {}
  BY <1>1, NumberBytes, OnwardOne
<1>3. /\ B \in SUBSET Chains /\ Direct(B) /\ ~CanEnd(B)
      /\ Onward(B, byte) = IF byte \in {"9"} THEN Prefixed(digits, Tails) ELSE {}
  BY <1>1, NumberBytes, OnwardOne
<1>4. Unsigned = A \cup B
  BY DEF Unsigned
<1> HIDE DEF A, B
<1>5. /\ Onward(Unsigned, byte) = Onward(A, byte) \cup Onward(B, byte)
      /\ Direct(Unsigned) /\ ~CanEnd(Unsigned) /\ Unsigned \in SUBSET Chains
  BY <1>2, <1>3, <1>4, OnwardUnion
<1>6. QED
  BY <1>2, <1>3, <1>5

-----------------------------------------------------------------------------
(* Where the labels stand in the rules.                                    *)

SpaceStands(label, rule, rests) ==
    \/ label = "yy6" /\ rule = "ws" /\ rests = Prefixed(Many({<<{"space", "tab"}>>}), End)
    \/ label = "yy9" /\ rule = "nl" /\ rests = Prefixed(Many({<<{"nl"}>>}), End)

StringStands(label, rule, rests) ==
    /\ rule = "STRING"
    /\ \/ label = "yy12" /\ rests = Inside
       \/ label = "yy34" /\ rests = Inside
       \/ label = "yy39" /\ rests = Escaped
       \/ label = "yy46" /\ rests = Hex(Hex(Hex(Hex(Inside))))
       \/ label = "yy57" /\ rests = Hex(Hex(Hex(Inside)))
       \/ label = "yy62" /\ rests = Hex(Hex(Inside))
       \/ label = "yy63" /\ rests = Hex(Inside)

NumberStands(label, rule, rests) ==
    /\ rule = "NUMBER"
    /\ \/ label = "yy15" /\ rests = Unsigned
       \/ label = "yy16" /\ rests = Tails
       \/ label = "yy18" /\ rests = Prefixed(digits, Tails)
       \/ label = "yy40" /\ rests = AtLeastOne(Exponent)
       \/ label = "yy47" /\ rests = Prefixed(digits, Exponent)
       \/ label = "yy41" /\ rests = Signed
       \/ label = "yy49" /\ rests = AtLeastOne(End)
       \/ label = "yy50" /\ rests = Prefixed(digits, End)

\* Letters still to come of a literal.
E1 == Prefixed(One({"E"}), End)
L1 == Prefixed(One({"L"}), End)
Se == Prefixed(One({"S"}), E1)
Ue == Prefixed(One({"U", "u"}), E1)
Ll == Prefixed(One({"L"}), L1)
Lse == Prefixed(One({"L"}), Se)
Rue == Prefixed(One({"R", "r"}), Ue)
Ull == Prefixed(One({"U", "u"}), Ll)
Alse == Prefixed(One({"A"}), Lse)

LiteralStands(label, rule, rests) ==
    \/ /\ rule = "BOOLEAN"
       /\ \/ label = "yy22" /\ rests = Alse
          \/ label = "yy42" /\ rests = Lse
          \/ label = "yy52" /\ rests = Se
          \/ label = "yy24" /\ rests = Rue
          \/ label = "yy44" /\ rests = Ue
          \/ label = "yy54" /\ rests = E1
    \/ /\ rule = "NULL"
       /\ \/ label = "yy23" /\ rests = Ull
          \/ label = "yy43" /\ rests = Ll
          \/ label = "yy53" /\ rests = L1

BF1 == Prefixed(One({"BF"}), End)

BomStands(label, rule, rests) ==
    /\ rule = "bom"
    /\ \/ label = "yy33" /\ rests = Prefixed(One({"BB"}), BF1)
       \/ label = "yy45" /\ rests = BF1

EndStands(label, rule, rests) ==
    \/ label = "yy4" /\ rule = "error" /\ rests = {}
    \/ label \in DOMAIN Ends \ {"yy4"} /\ rule = Ends[label] /\ rests = End

Stands(label, rule, rests) ==
    \/ SpaceStands(label, rule, rests)
    \/ StringStands(label, rule, rests)
    \/ NumberStands(label, rule, rests)
    \/ LiteralStands(label, rule, rests)
    \/ BomStands(label, rule, rests)
    \/ EndStands(label, rule, rests)

\* From a label on, a byte leads where the rule goes on with it, or nowhere.
Follows(from, rule, rests, byte) ==
    /\ \A e \in Edges[from] : byte \in e[1] => Stands(e[2], rule, Onward(rests, byte))
    /\ (\A e \in Edges[from] : byte \notin e[1]) => Onward(rests, byte) = {}

\* The edges of each part of the graph.
LEMMA EdgesOfParts ==
    /\ \A label \in DOMAIN SpaceEdges : Edges[label] = SpaceEdges[label]
    /\ \A label \in DOMAIN StringEdges : Edges[label] = StringEdges[label]
    /\ \A label \in DOMAIN EscapeEdges : Edges[label] = EscapeEdges[label]
    /\ \A label \in DOMAIN UnicodeEdges : Edges[label] = UnicodeEdges[label]
    /\ \A label \in DOMAIN IntegerEdges : Edges[label] = IntegerEdges[label]
    /\ \A label \in DOMAIN FractionEdges : Edges[label] = FractionEdges[label]
    /\ \A label \in DOMAIN ExponentEdges : Edges[label] = ExponentEdges[label]
    /\ \A label \in DOMAIN LiteralEdges : Edges[label] = LiteralEdges[label]
    /\ \A label \in DOMAIN BomEdges : Edges[label] = BomEdges[label]
<1>1. \A label \in DOMAIN SpaceEdges : Edges[label] = SpaceEdges[label]
  BY LabelsOfParts DEF Edges, Looking
<1>2. \A label \in DOMAIN StringEdges : Edges[label] = StringEdges[label]
  BY LabelsOfParts DEF Edges, Looking
<1>3. \A label \in DOMAIN EscapeEdges : Edges[label] = EscapeEdges[label]
  BY LabelsOfParts DEF Edges, Looking
<1>4. \A label \in DOMAIN UnicodeEdges : Edges[label] = UnicodeEdges[label]
  BY LabelsOfParts DEF Edges, Looking
<1>5. \A label \in DOMAIN IntegerEdges : Edges[label] = IntegerEdges[label]
  BY LabelsOfParts DEF Edges, Looking
<1>6. \A label \in DOMAIN FractionEdges : Edges[label] = FractionEdges[label]
  BY LabelsOfParts DEF Edges, Looking
<1>7. \A label \in DOMAIN ExponentEdges : Edges[label] = ExponentEdges[label]
  BY LabelsOfParts DEF Edges, Looking
<1>8. \A label \in DOMAIN LiteralEdges : Edges[label] = LiteralEdges[label]
  BY LabelsOfParts DEF Edges, Looking
<1>9. \A label \in DOMAIN BomEdges : Edges[label] = BomEdges[label]
  BY LabelsOfParts DEF Edges, Looking
<1>10. QED
  BY <1>1, <1>2, <1>3, <1>4, <1>5, <1>6, <1>7, <1>8, <1>9

\* The bytes of white space.
LEMMA SpaceBytes == {"space", "tab"} \in SUBSET Bytes /\ {"nl"} \in SUBSET Bytes
  BY DEF Bytes

\* Spaces and line ends.
LEMMA SpaceFollows ==
    ASSUME NEW label, NEW rule, NEW rests, SpaceStands(label, rule, rests), NEW byte
    PROVE  /\ Follows(label, rule, rests, byte)
           /\ CanEnd(rests) /\ rests \in SUBSET Chains
<1>2. CASE label = "yy6"
  <2> DEFINE R == Prefixed(Many({<<{"space", "tab"}>>}), End)
  <2>1. rule = "ws" /\ rests = R
    BY <1>2 DEF SpaceStands
  <2>2. Edges[label] = {<<{"tab", "space"}, "yy6">>}
    BY <1>2, EdgesOfParts, LabelsOfParts DEF SpaceEdges
  <2>3. Onward(R, byte) = (IF byte \in {"space", "tab"} THEN R ELSE {}) \cup {} /\ CanEnd(R) /\ R \in SUBSET Chains
    <3>1. Onward(End, byte) = {} /\ Direct(End) /\ CanEnd(End) /\ End \in SUBSET Chains
      BY OnwardEnd
    <3> DEFINE bytes == {"space", "tab"}
    <3>2. bytes \in SUBSET Bytes
      BY SpaceBytes
    <3>3. R = Prefixed(Many({<<bytes>>}), End)
      OBVIOUS
    <3> HIDE DEF bytes, R
    <3>4. /\ Onward(R, byte) = (IF byte \in bytes THEN R ELSE {}) \cup Onward(End, byte)
          /\ CanEnd(R) <=> CanEnd(End)
          /\ R \in SUBSET Chains
      BY <3>1, <3>2, <3>3, OnwardAgain
    <3>5. QED
      BY <3>1, <3>4 DEF bytes
  <2>4. SpaceStands("yy6", "ws", R)
    BY DEF SpaceStands
  <2> HIDE DEF R
  <2>5. QED
    BY <2>1, <2>2, <2>3, <2>4 DEF Follows, Stands
<1>3. CASE label = "yy9"
  <2> DEFINE R == Prefixed(Many({<<{"nl"}>>}), End)
  <2>1. rule = "nl" /\ rests = R
    BY <1>3 DEF SpaceStands
  <2>2. Edges[label] = {<<{"nl"}, "yy9">>}
    BY <1>3, EdgesOfParts, LabelsOfParts DEF SpaceEdges
  <2>3. Onward(R, byte) = (IF byte \in {"nl"} THEN R ELSE {}) \cup {} /\ CanEnd(R) /\ R \in SUBSET Chains
    <3>1. Onward(End, byte) = {} /\ Direct(End) /\ CanEnd(End) /\ End \in SUBSET Chains
      BY OnwardEnd
    <3> DEFINE bytes == {"nl"}
    <3>2. bytes \in SUBSET Bytes
      BY SpaceBytes
    <3>3. R = Prefixed(Many({<<bytes>>}), End)
      OBVIOUS
    <3> HIDE DEF bytes, R
    <3>4. /\ Onward(R, byte) = (IF byte \in bytes THEN R ELSE {}) \cup Onward(End, byte)
          /\ CanEnd(R) <=> CanEnd(End)
          /\ R \in SUBSET Chains
      BY <3>1, <3>2, <3>3, OnwardAgain
    <3>5. QED
      BY <3>1, <3>4 DEF bytes
  <2>4. SpaceStands("yy9", "nl", R)
    BY DEF SpaceStands
  <2> HIDE DEF R
  <2>5. QED
    BY <2>1, <2>2, <2>3, <2>4 DEF Follows, Stands
<1>4. QED
  BY <1>2, <1>3 DEF SpaceStands

\* A string: what was matched so far ends with its quotation mark only.
LEMMA StringFollows ==
    ASSUME NEW label, NEW rule, NEW rests, StringStands(label, rule, rests), NEW byte
    PROVE  /\ Follows(label, rule, rests, byte)
           /\ ~CanEnd(rests) /\ rests \in SUBSET Chains
<1> USE Escapeable DEF Stands
<1> DEFINE I == Inside
           H1 == Hex(I)
           H2 == Hex(H1)
           H3 == Hex(H2)
           H4 == Hex(H3)
<1>1. rule = "STRING"
  BY DEF StringStands
<1>2. I \in SUBSET Chains /\ ~CanEnd(I)
  BY OnwardInside
<1> HIDE DEF I
<1>3. H1 \in SUBSET Chains /\ ~CanEnd(H1) /\ Onward(H1, byte) = IF byte \in HexDigits THEN I ELSE {}
  BY <1>2, OnwardOne DEF Hex
<1> HIDE DEF H1
<1>4. H2 \in SUBSET Chains /\ ~CanEnd(H2) /\ Onward(H2, byte) = IF byte \in HexDigits THEN H1 ELSE {}
  BY <1>3, OnwardOne DEF Hex
<1> HIDE DEF H2
<1>5. H3 \in SUBSET Chains /\ ~CanEnd(H3) /\ Onward(H3, byte) = IF byte \in HexDigits THEN H2 ELSE {}
  BY <1>4, OnwardOne DEF Hex
<1> HIDE DEF H3
<1>6. H4 \in SUBSET Chains /\ ~CanEnd(H4) /\ Onward(H4, byte) = IF byte \in HexDigits THEN H3 ELSE {}
  BY <1>5, OnwardOne DEF Hex
<1> HIDE DEF H4
<1>7. /\ StringStands("yy34", "STRING", I) /\ StringStands("yy39", "STRING", Escaped)
      /\ StringStands("yy46", "STRING", H4) /\ StringStands("yy57", "STRING", H3)
      /\ StringStands("yy62", "STRING", H2) /\ StringStands("yy63", "STRING", H1)
  BY DEF StringStands, H1, H2, H3, H4, I
<1>8. EndStands("yy37", "STRING", End)
  BY DEF EndStands, Ends
<1>9. CASE label \in {"yy12", "yy34"}
  <2>1. rests = I /\ Edges[label] = InString
    BY <1>9, EdgesOfParts, LabelsOfParts DEF StringEdges, StringStands, I
  <2>2. /\ byte \in unescaped => Onward(I, byte) = I
        /\ byte = "backslash" => Onward(I, byte) = Escaped
        /\ byte = "quote" => Onward(I, byte) = End
        /\ byte \notin unescaped \cup {"backslash", "quote"} => Onward(I, byte) = {}
    BY OnwardInside DEF I
  <2>3. InString = {<<{"quote"}, "yy37">>, <<{"backslash"}, "yy39">>, <<unescaped, "yy34">>}
    BY DEF InString, unescaped
  <2>4. \A e \in Edges[label] : byte \in e[1] => Stands(e[2], rule, Onward(rests, byte))
    <3>1. Edges[label] = {<<{"quote"}, "yy37">>, <<{"backslash"}, "yy39">>, <<unescaped, "yy34">>}
      BY <2>1, <2>3
    <3>2. byte \in {"quote"} => Stands("yy37", rule, Onward(rests, byte))
      BY <1>1, <1>8, <2>1, <2>2
    <3>3. byte \in {"backslash"} => Stands("yy39", rule, Onward(rests, byte))
      BY <1>1, <1>7, <2>1, <2>2
    <3>4. byte \in unescaped => Stands("yy34", rule, Onward(rests, byte))
      BY <1>1, <1>7, <2>1, <2>2
    <3> HIDE DEF Stands
    <3>5. QED
      BY <3>1, <3>2, <3>3, <3>4
  <2>5. (\A e \in Edges[label] : byte \notin e[1]) => Onward(rests, byte) = {}
    BY <2>1, <2>2, <2>3
  <2>6. QED
    BY <1>2, <2>1, <2>4, <2>5 DEF Follows
<1>10. CASE label = "yy39"
  <2>1. rests = Escaped /\ Edges[label] = {<<Escapes, "yy34">>, <<{"u"}, "yy46">>}
    BY <1>10, EdgesOfParts, LabelsOfParts DEF EscapeEdges, StringStands
  <2> DEFINE A == Prefixed(One(single_escaped), I)
             B == Prefixed(One({"u"}), H4)
  <2>2. A \in SUBSET Chains /\ ~CanEnd(A) /\ Onward(A, byte) = IF byte \in single_escaped THEN I ELSE {}
    BY <1>2, OnwardOne
  <2>3. B \in SUBSET Chains /\ ~CanEnd(B) /\ Onward(B, byte) = IF byte \in {"u"} THEN H4 ELSE {}
    BY <1>6, OnwardOne
  <2>4. Escaped = A \cup B
    BY DEF Escaped, H4, H3, H2, H1, I
  <2> HIDE DEF A, B
  <2>5. Escaped \in SUBSET Chains /\ ~CanEnd(Escaped) /\ Onward(Escaped, byte) = Onward(A, byte) \cup Onward(B, byte)
    BY <2>2, <2>3, <2>4, OnwardUnion
  <2>6. Escapes = single_escaped /\ "u" \notin single_escaped
    BY DEF Escapes, single_escaped
  <2>7. /\ byte \in Escapes => Onward(Escaped, byte) = I
        /\ byte = "u" => Onward(Escaped, byte) = H4
        /\ byte \notin Escapes \cup {"u"} => Onward(Escaped, byte) = {}
    BY <2>2, <2>3, <2>5, <2>6
  <2>8. \A e \in Edges[label] : byte \in e[1] => Stands(e[2], rule, Onward(rests, byte))
    BY <1>1, <1>7, <2>1, <2>7
  <2>9. QED
    BY <2>1, <2>5, <2>7, <2>8 DEF Follows
<1>11. CASE label = "yy46"
  <2>1. rests = H4 /\ Edges[label] = {<<HexDigits, "yy57">>}
    BY <1>11, EdgesOfParts, LabelsOfParts DEF UnicodeEdges, StringStands, H4, H3, H2, H1, I
  <2>2. QED
    BY <1>1, <1>6, <1>7, <2>1 DEF Follows
<1>12. CASE label = "yy57"
  <2>1. rests = H3 /\ Edges[label] = {<<HexDigits, "yy62">>}
    BY <1>12, EdgesOfParts, LabelsOfParts DEF UnicodeEdges, StringStands, H3, H2, H1, I
  <2>2. QED
    BY <1>1, <1>5, <1>7, <2>1 DEF Follows
<1>13. CASE label = "yy62"
  <2>1. rests = H2 /\ Edges[label] = {<<HexDigits, "yy63">>}
    BY <1>13, EdgesOfParts, LabelsOfParts DEF UnicodeEdges, StringStands, H2, H1, I
  <2>2. QED
    BY <1>1, <1>4, <1>7, <2>1 DEF Follows
<1>14. CASE label = "yy63"
  <2>1. rests = H1 /\ Edges[label] = {<<HexDigits, "yy34">>}
    BY <1>14, EdgesOfParts, LabelsOfParts DEF UnicodeEdges, StringStands, H1, I
  <2>2. QED
    BY <1>1, <1>3, <1>7, <2>1 DEF Follows
<1>15. QED
  BY <1>9, <1>10, <1>11, <1>12, <1>13, <1>14 DEF StringStands

\* A number: it could end where the label is one of Numbers.
LEMMA NumberFollows ==
    ASSUME NEW label, NEW rule, NEW rests, NumberStands(label, rule, rests), NEW byte
    PROVE  /\ Follows(label, rule, rests, byte)
           /\ CanEnd(rests) <=> label \in Numbers
           /\ rests \in SUBSET Chains
<1> USE DEF Stands
<1>1. rule = "NUMBER"
  BY DEF NumberStands
<1>2. /\ NumberStands("yy16", "NUMBER", Tails) /\ NumberStands("yy18", "NUMBER", Prefixed(digits, Tails))
      /\ NumberStands("yy40", "NUMBER", AtLeastOne(Exponent)) /\ NumberStands("yy47", "NUMBER", Prefixed(digits, Exponent))
      /\ NumberStands("yy41", "NUMBER", Signed) /\ NumberStands("yy49", "NUMBER", AtLeastOne(End))
      /\ NumberStands("yy50", "NUMBER", Prefixed(digits, End))
  BY DEF NumberStands
<1>3. "E" \notin Digits /\ "dot" \notin Digits /\ "plus" \notin Digits /\ "minus" \notin Digits
  BY DEF Digits
<1>4. CASE label = "yy15"
  <2>1. rests = Unsigned /\ Edges[label] = {<<{"0"}, "yy16">>, <<{"9"}, "yy18">>} /\ label \notin Numbers
    BY <1>4, EdgesOfParts, LabelsOfParts DEF IntegerEdges, NumberStands, Numbers
  <2>2. QED
    BY <1>1, <1>2, <2>1, OnwardUnsigned DEF Follows
<1>5. CASE label = "yy16"
  <2>1. rests = Tails /\ Edges[label] = {<<{"dot"}, "yy40">>, <<{"E"}, "yy41">>} /\ label \in Numbers
    BY <1>5, EdgesOfParts, LabelsOfParts DEF IntegerEdges, NumberStands, Numbers
  <2>2. QED
    BY <1>1, <1>2, <2>1, OnwardTails DEF Follows
<1>6. CASE label = "yy18"
  <2> DEFINE R == Prefixed(digits, Tails)
  <2>1. rests = R /\ Edges[label] = {<<{"dot"}, "yy40">>, <<Digits, "yy18">>, <<{"E"}, "yy41">>} /\ label \in Numbers
    BY <1>6, EdgesOfParts, LabelsOfParts DEF IntegerEdges, NumberStands, Numbers
  <2>2. R \in SUBSET Chains /\ CanEnd(R) /\ Onward(R, byte) = (IF byte \in Digits THEN R ELSE {}) \cup Onward(Tails, byte)
    BY OnwardTails, OnwardDigits
  <2>3. NumberStands("yy18", "NUMBER", R)
    BY <1>2
  <2> HIDE DEF R
  <2>4. /\ byte \in Digits => Onward(R, byte) = R
        /\ byte = "E" => Onward(R, byte) = Signed
        /\ byte = "dot" => Onward(R, byte) = AtLeastOne(Exponent)
        /\ byte \notin Digits \cup {"E", "dot"} => Onward(R, byte) = {}
    BY <1>3, <2>2, OnwardTails
  <2>5. byte \in Digits => Stands("yy18", rule, Onward(rests, byte))
    BY <1>1, <2>1, <2>3, <2>4
  <2>6. /\ byte \in {"E"} => Stands("yy41", rule, Onward(rests, byte))
        /\ byte \in {"dot"} => Stands("yy40", rule, Onward(rests, byte))
    BY <1>1, <1>2, <2>1, <2>4
  <2>7. (\A e \in Edges[label] : byte \notin e[1]) => Onward(rests, byte) = {}
    BY <2>1, <2>4
  <2> HIDE DEF Stands
  <2>8. \A e \in Edges[label] : byte \in e[1] => Stands(e[2], rule, Onward(rests, byte))
    BY <2>1, <2>5, <2>6
  <2>9. QED
    BY <2>1, <2>2, <2>7, <2>8 DEF Follows
<1>7. CASE label = "yy40"
  <2>1. rests = AtLeastOne(Exponent) /\ Edges[label] = {<<Digits, "yy47">>} /\ label \notin Numbers
    BY <1>7, EdgesOfParts, LabelsOfParts DEF FractionEdges, NumberStands, Numbers
  <2>2. QED
    BY <1>1, <1>2, <2>1, OnwardExponent, OnwardDigits DEF Follows
<1>8. CASE label = "yy47"
  <2> DEFINE R == Prefixed(digits, Exponent)
  <2>1. rests = R /\ Edges[label] = {<<Digits, "yy47">>, <<{"E"}, "yy41">>} /\ label \in Numbers
    BY <1>8, EdgesOfParts, LabelsOfParts DEF FractionEdges, NumberStands, Numbers
  <2>2. R \in SUBSET Chains /\ CanEnd(R) /\ Onward(R, byte) = (IF byte \in Digits THEN R ELSE {}) \cup Onward(Exponent, byte)
    BY OnwardExponent, OnwardDigits
  <2>3. NumberStands("yy47", "NUMBER", R)
    BY <1>2
  <2> HIDE DEF R
  <2>4. /\ byte \in Digits => Onward(R, byte) = R
        /\ byte = "E" => Onward(R, byte) = Signed
        /\ byte \notin Digits \cup {"E"} => Onward(R, byte) = {}
    BY <1>3, <2>2, OnwardExponent
  <2>5. byte \in Digits => Stands("yy47", rule, Onward(rests, byte))
    BY <1>1, <2>1, <2>3, <2>4
  <2>6. /\ byte \in {"E"} => Stands("yy41", rule, Onward(rests, byte))
    BY <1>1, <1>2, <2>1, <2>4
  <2>7. (\A e \in Edges[label] : byte \notin e[1]) => Onward(rests, byte) = {}
    BY <2>1, <2>4
  <2> HIDE DEF Stands
  <2>8. \A e \in Edges[label] : byte \in e[1] => Stands(e[2], rule, Onward(rests, byte))
    BY <2>1, <2>5, <2>6
  <2>9. QED
    BY <2>1, <2>2, <2>7, <2>8 DEF Follows
<1>9. CASE label = "yy41"
  <2>1. rests = Signed /\ Edges[label] = {<<{"plus", "minus"}, "yy49">>, <<Digits, "yy50">>} /\ label \notin Numbers
    BY <1>9, EdgesOfParts, LabelsOfParts DEF ExponentEdges, NumberStands, Numbers
  <2>2. /\ byte \in Digits => Onward(Signed, byte) = Prefixed(digits, End)
        /\ byte \in {"plus", "minus"} => Onward(Signed, byte) = AtLeastOne(End)
        /\ byte \notin Digits \cup {"plus", "minus"} => Onward(Signed, byte) = {}
        /\ Signed \in SUBSET Chains /\ ~CanEnd(Signed)
    BY <1>3, OnwardSigned
  <2>3. QED
    BY <1>1, <1>2, <2>1, <2>2 DEF Follows
<1>10. CASE label = "yy49"
  <2>1. rests = AtLeastOne(End) /\ Edges[label] = {<<Digits, "yy50">>} /\ label \notin Numbers
    BY <1>10, EdgesOfParts, LabelsOfParts DEF ExponentEdges, NumberStands, Numbers
  <2>2. QED
    BY <1>1, <1>2, <2>1, OnwardEnd, OnwardDigits DEF Follows
<1>11. CASE label = "yy50"
  <2> DEFINE R == Prefixed(digits, End)
  <2>1. rests = R /\ Edges[label] = {<<Digits, "yy50">>} /\ label \in Numbers
    BY <1>11, EdgesOfParts, LabelsOfParts DEF ExponentEdges, NumberStands, Numbers
  <2>2. R \in SUBSET Chains /\ CanEnd(R) /\ Onward(R, byte) = (IF byte \in Digits THEN R ELSE {}) \cup Onward(End, byte)
    BY OnwardEnd, OnwardDigits
  <2>3. NumberStands("yy50", "NUMBER", R)
    BY <1>2
  <2> HIDE DEF R
  <2>4. Onward(R, byte) = IF byte \in Digits THEN R ELSE {}
    BY <2>2, OnwardEnd
  <2>5. QED
    BY <1>1, <2>1, <2>2, <2>3, <2>4 DEF Follows
<1>12. QED
  BY <1>4, <1>5, <1>6, <1>7, <1>8, <1>9, <1>10, <1>11 DEF NumberStands

\* The letters of the literals and the bytes of the mark.
LEMMA Letters ==
    /\ {"E"} \in SUBSET Bytes /\ {"L"} \in SUBSET Bytes /\ {"S"} \in SUBSET Bytes /\ {"A"} \in SUBSET Bytes
    /\ {"U", "u"} \in SUBSET Bytes /\ {"R", "r"} \in SUBSET Bytes
    /\ {"BB"} \in SUBSET Bytes /\ {"BF"} \in SUBSET Bytes
  BY DEF Bytes

\* true and false, and null: every byte is the next letter or does not belong.
LEMMA LiteralFollows ==
    ASSUME NEW label, NEW rule, NEW rests, LiteralStands(label, rule, rests), NEW byte
    PROVE  /\ Follows(label, rule, rests, byte)
           /\ ~CanEnd(rests) /\ rests \in SUBSET Chains
<1> USE DEF Stands
<1>1. End \in SUBSET Chains
  BY OnwardEnd
<1>2. E1 \in SUBSET Chains /\ ~CanEnd(E1) /\ Onward(E1, byte) = IF byte \in {"E"} THEN End ELSE {}
  BY <1>1, Letters, OnwardOne DEF E1
<1>3. L1 \in SUBSET Chains /\ ~CanEnd(L1) /\ Onward(L1, byte) = IF byte \in {"L"} THEN End ELSE {}
  BY <1>1, Letters, OnwardOne DEF L1
<1>4. Se \in SUBSET Chains /\ ~CanEnd(Se) /\ Onward(Se, byte) = IF byte \in {"S"} THEN E1 ELSE {}
  BY <1>2, Letters, OnwardOne DEF Se
<1>5. Ue \in SUBSET Chains /\ ~CanEnd(Ue) /\ Onward(Ue, byte) = IF byte \in {"U", "u"} THEN E1 ELSE {}
  BY <1>2, Letters, OnwardOne DEF Ue
<1>6. Ll \in SUBSET Chains /\ ~CanEnd(Ll) /\ Onward(Ll, byte) = IF byte \in {"L"} THEN L1 ELSE {}
  BY <1>3, Letters, OnwardOne DEF Ll
<1>7. Lse \in SUBSET Chains /\ ~CanEnd(Lse) /\ Onward(Lse, byte) = IF byte \in {"L"} THEN Se ELSE {}
  BY <1>4, Letters, OnwardOne DEF Lse
<1>8. Rue \in SUBSET Chains /\ ~CanEnd(Rue) /\ Onward(Rue, byte) = IF byte \in {"R", "r"} THEN Ue ELSE {}
  BY <1>5, Letters, OnwardOne DEF Rue
<1>9. Ull \in SUBSET Chains /\ ~CanEnd(Ull) /\ Onward(Ull, byte) = IF byte \in {"U", "u"} THEN Ll ELSE {}
  BY <1>6, Letters, OnwardOne DEF Ull
<1>10. Alse \in SUBSET Chains /\ ~CanEnd(Alse) /\ Onward(Alse, byte) = IF byte \in {"A"} THEN Lse ELSE {}
  BY <1>7, Letters, OnwardOne DEF Alse
<1>11. /\ LiteralStands("yy42", "BOOLEAN", Lse) /\ LiteralStands("yy52", "BOOLEAN", Se)
       /\ LiteralStands("yy44", "BOOLEAN", Ue) /\ LiteralStands("yy54", "BOOLEAN", E1)
       /\ LiteralStands("yy43", "NULL", Ll) /\ LiteralStands("yy53", "NULL", L1)
  BY DEF LiteralStands
<1>12. EndStands("yy60", "BOOLEAN", End) /\ EndStands("yy58", "NULL", End)
  BY DEF EndStands, Ends
<1>13. CASE rule = "BOOLEAN"
  <2>1. CASE label = "yy22"
    <3>1. rests = Alse /\ Edges[label] = {<<{"A"}, "yy42">>}
      BY <1>13, <2>1, EdgesOfParts, LabelsOfParts DEF LiteralEdges, LiteralStands
    <3>2. QED
      BY <1>10, <1>11, <1>13, <3>1 DEF Follows
  <2>2. CASE label = "yy42"
    <3>1. rests = Lse /\ Edges[label] = {<<{"L"}, "yy52">>}
      BY <1>13, <2>2, EdgesOfParts, LabelsOfParts DEF LiteralEdges, LiteralStands
    <3>2. QED
      BY <1>7, <1>11, <1>13, <3>1 DEF Follows
  <2>3. CASE label = "yy52"
    <3>1. rests = Se /\ Edges[label] = {<<{"S"}, "yy54">>}
      BY <1>13, <2>3, EdgesOfParts, LabelsOfParts DEF LiteralEdges, LiteralStands
    <3>2. QED
      BY <1>4, <1>11, <1>13, <3>1 DEF Follows
  <2>4. CASE label = "yy24"
    <3>1. rests = Rue /\ Edges[label] = {<<{"R", "r"}, "yy44">>}
      BY <1>13, <2>4, EdgesOfParts, LabelsOfParts DEF LiteralEdges, LiteralStands
    <3>2. QED
      BY <1>8, <1>11, <1>13, <3>1 DEF Follows
  <2>5. CASE label = "yy44"
    <3>1. rests = Ue /\ Edges[label] = {<<{"U", "u"}, "yy54">>}
      BY <1>13, <2>5, EdgesOfParts, LabelsOfParts DEF LiteralEdges, LiteralStands
    <3>2. QED
      BY <1>5, <1>11, <1>13, <3>1 DEF Follows
  <2>6. CASE label = "yy54"
    <3>1. rests = E1 /\ Edges[label] = {<<{"E"}, "yy60">>}
      BY <1>13, <2>6, EdgesOfParts, LabelsOfParts DEF LiteralEdges, LiteralStands
    <3>2. QED
      BY <1>2, <1>12, <1>13, <3>1 DEF Follows
  <2>7. QED
    BY <1>13, <2>1, <2>2, <2>3, <2>4, <2>5, <2>6 DEF LiteralStands
<1>14. CASE rule = "NULL"
  <2>1. CASE label = "yy23"
    <3>1. rests = Ull /\ Edges[label] = {<<{"U", "u"}, "yy43">>}
      BY <1>14, <2>1, EdgesOfParts, LabelsOfParts DEF LiteralEdges, LiteralStands
    <3>2. QED
      BY <1>9, <1>11, <1>14, <3>1 DEF Follows
  <2>2. CASE label = "yy43"
    <3>1. rests = Ll /\ Edges[label] = {<<{"L"}, "yy53">>}
      BY <1>14, <2>2, EdgesOfParts, LabelsOfParts DEF LiteralEdges, LiteralStands
    <3>2. QED
      BY <1>6, <1>11, <1>14, <3>1 DEF Follows
  <2>3. CASE label = "yy53"
    <3>1. rests = L1 /\ Edges[label] = {<<{"L"}, "yy58">>}
      BY <1>14, <2>3, EdgesOfParts, LabelsOfParts DEF LiteralEdges, LiteralStands
    <3>2. QED
      BY <1>3, <1>12, <1>14, <3>1 DEF Follows
  <2>4. QED
    BY <1>14, <2>1, <2>2, <2>3 DEF LiteralStands
<1>15. QED
  BY <1>13, <1>14 DEF LiteralStands

\* The mark of the byte order.
LEMMA BomFollows ==
    ASSUME NEW label, NEW rule, NEW rests, BomStands(label, rule, rests), NEW byte
    PROVE  /\ Follows(label, rule, rests, byte)
           /\ ~CanEnd(rests) /\ rests \in SUBSET Chains
<1>1. BF1 \in SUBSET Chains /\ ~CanEnd(BF1) /\ Onward(BF1, byte) = IF byte \in {"BF"} THEN End ELSE {}
  BY Letters, OnwardEnd, OnwardOne DEF BF1
<1> DEFINE R == Prefixed(One({"BB"}), BF1)
<1>2. R \in SUBSET Chains /\ ~CanEnd(R) /\ Onward(R, byte) = IF byte \in {"BB"} THEN BF1 ELSE {}
  BY <1>1, Letters, OnwardOne
<1> HIDE DEF R
<1>3. rule = "bom" /\ ((label = "yy33" /\ rests = R) \/ (label = "yy45" /\ rests = BF1))
  BY DEF BomStands, R
<1>4. BomStands("yy45", "bom", BF1) /\ EndStands("yy55", "bom", End)
  BY DEF BomStands, EndStands, Ends
<1>5. CASE label = "yy33"
  <2>1. Edges[label] = {<<{"BB"}, "yy45">>}
    BY <1>5, EdgesOfParts, LabelsOfParts DEF BomEdges
  <2>2. QED
    BY <1>2, <1>3, <1>4, <1>5, <2>1 DEF Follows, Stands
<1>6. CASE label = "yy45"
  <2>1. Edges[label] = {<<{"BF"}, "yy55">>}
    BY <1>6, EdgesOfParts, LabelsOfParts DEF BomEdges
  <2>2. QED
    BY <1>1, <1>3, <1>4, <1>6, <2>1 DEF Follows, Stands
<1>7. QED
  BY <1>3, <1>5, <1>6

-----------------------------------------------------------------------------
(* The beginning of the rules.                                             *)

\* A sequence by its first element.
LEMMA FirstAndRest ==
    ASSUME NEW S, NEW a \in S, NEW s \in Seq(S), NEW t \in Seq(S), Len(t) = Len(s) + 1,
           t[1] = a, \A i \in 1..Len(s) : t[i + 1] = s[i]
    PROVE  <<a>> \o s = t
<1> DEFINE u == <<a>> \o s
           n == Len(s)
<1>1. u \in Seq(S) /\ Len(u) = n + 1 /\ u[1] = a /\ n \in Nat /\ \A i \in 1..n : u[i + 1] = s[i]
  BY PrefixedChain
<1>2. Len(t) = n + 1 /\ \A i \in 1..n : t[i + 1] = s[i]
  OBVIOUS
<1> HIDE DEF u, n
<1>3. ASSUME NEW i \in 1..(n + 1) PROVE u[i] = t[i]
  <2>1. CASE i = 1
    BY <1>1, <2>1
  <2>2. CASE i # 1
    <3>1. i - 1 \in 1..n /\ (i - 1) + 1 = i
      BY <1>1, <2>2
    <3>2. QED
      BY <1>1, <1>2, <3>1
  <2>3. QED
    BY <2>1, <2>2
<1>4. u = t
  BY <1>1, <1>2, <1>3, SeqEqual
<1>5. QED
  BY <1>4 DEF u

\* Short chains by their parts.
LEMMA TwoParts ==
    ASSUME NEW a \in Parts, NEW b \in Parts
    PROVE  Prefixed(a, {<<b>>}) = {<<a, b>>}
<1> DEFINE s == <<b>>
           t == <<a, b>>
<1>1. s \in Seq(Parts) /\ t \in Seq(Parts) /\ Len(s) = 1 /\ Len(t) = 2 /\ t[1] = a
  OBVIOUS
<1>2. t[1 + 1] = s[1]
  OBVIOUS
<1> HIDE DEF s, t
<1>3. \A i \in 1..Len(s) : t[i + 1] = s[i]
  BY <1>1, <1>2
<1>4. Len(t) = Len(s) + 1
  BY <1>1
<1>5. <<a>> \o s = t
  BY <1>1, <1>3, <1>4, FirstAndRest
<1>6. Prefixed(a, {s}) = {t}
  BY <1>5 DEF Prefixed
<1>7. QED
  BY <1>6 DEF s, t

\* Three in a row.
LEMMA ThreeParts ==
    ASSUME NEW a \in Parts, NEW b \in Parts, NEW c \in Parts
    PROVE  Prefixed(a, {<<b, c>>}) = {<<a, b, c>>}
<1> DEFINE s == <<b, c>>
           t == <<a, b, c>>
<1>1. s \in Seq(Parts) /\ t \in Seq(Parts) /\ Len(s) = 2 /\ Len(t) = 3 /\ t[1] = a
  OBVIOUS
<1>2. t[1 + 1] = s[1] /\ t[2 + 1] = s[2]
  OBVIOUS
<1> HIDE DEF s, t
<1>3. \A i \in 1..Len(s) : t[i + 1] = s[i]
  BY <1>1, <1>2
<1>4. Len(t) = Len(s) + 1
  BY <1>1
<1>5. <<a>> \o s = t
  BY <1>1, <1>3, <1>4, FirstAndRest
<1>6. Prefixed(a, {s}) = {t}
  BY <1>5 DEF Prefixed
<1>7. QED
  BY <1>6 DEF s, t

\* Four in a row.
LEMMA FourParts ==
    ASSUME NEW a \in Parts, NEW b \in Parts, NEW c \in Parts, NEW d \in Parts
    PROVE  Prefixed(a, {<<b, c, d>>}) = {<<a, b, c, d>>}
<1> DEFINE s == <<b, c, d>>
           t == <<a, b, c, d>>
<1>1. s \in Seq(Parts) /\ t \in Seq(Parts) /\ Len(s) = 3 /\ Len(t) = 4 /\ t[1] = a
  OBVIOUS
<1>2. t[1 + 1] = s[1] /\ t[2 + 1] = s[2] /\ t[3 + 1] = s[3]
  OBVIOUS
<1> HIDE DEF s, t
<1>3. \A i \in 1..Len(s) : t[i + 1] = s[i]
  BY <1>1, <1>2
<1>4. Len(t) = Len(s) + 1
  BY <1>1
<1>5. <<a>> \o s = t
  BY <1>1, <1>3, <1>4, FirstAndRest
<1>6. Prefixed(a, {s}) = {t}
  BY <1>5 DEF Prefixed
<1>7. QED
  BY <1>6 DEF s, t

\* Five in a row.
LEMMA FiveParts ==
    ASSUME NEW a \in Parts, NEW b \in Parts, NEW c \in Parts, NEW d \in Parts, NEW e \in Parts
    PROVE  Prefixed(a, {<<b, c, d, e>>}) = {<<a, b, c, d, e>>}
<1> DEFINE s == <<b, c, d, e>>
           t == <<a, b, c, d, e>>
<1>1. s \in Seq(Parts) /\ t \in Seq(Parts) /\ Len(s) = 4 /\ Len(t) = 5 /\ t[1] = a
  OBVIOUS
<1>2. t[1 + 1] = s[1] /\ t[2 + 1] = s[2] /\ t[3 + 1] = s[3] /\ t[4 + 1] = s[4]
  OBVIOUS
<1> HIDE DEF s, t
<1>3. \A i \in 1..Len(s) : t[i + 1] = s[i]
  BY <1>1, <1>2
<1>4. Len(t) = Len(s) + 1
  BY <1>1
<1>5. <<a>> \o s = t
  BY <1>1, <1>3, <1>4, FirstAndRest
<1>6. Prefixed(a, {s}) = {t}
  BY <1>5 DEF Prefixed
<1>7. QED
  BY <1>6 DEF s, t

\* The same as sets of one chain.
LEMMA ShortChains ==
    ASSUME NEW a \in Parts, NEW b \in Parts, NEW c \in Parts, NEW d \in Parts, NEW e \in Parts
    PROVE  /\ Prefixed(a, End) = {<<a>>}
           /\ Prefixed(a, Prefixed(b, End)) = {<<a, b>>}
           /\ Prefixed(a, Prefixed(b, Prefixed(c, End))) = {<<a, b, c>>}
           /\ Prefixed(a, Prefixed(b, Prefixed(c, Prefixed(d, End)))) = {<<a, b, c, d>>}
           /\ Prefixed(a, Prefixed(b, Prefixed(c, Prefixed(d, Prefixed(e, End))))) = {<<a, b, c, d, e>>}
<1>1. \A p \in Parts : Prefixed(p, End) = {<<p>>}
  <2>1. \A p \in Parts : <<p>> \o <<>> = <<p>>
    OBVIOUS
  <2>2. \A p, s : Prefixed(p, {s}) = {<<p>> \o s}
    BY DEF Prefixed
  <2>3. QED
    BY <2>1, <2>2, Zenon DEF End
<1>2. Prefixed(a, Prefixed(b, End)) = {<<a, b>>}
  BY <1>1, TwoParts, Zenon
<1>3. Prefixed(a, Prefixed(b, Prefixed(c, End))) = {<<a, b, c>>}
  <2>1. Prefixed(b, Prefixed(c, End)) = {<<b, c>>}
    BY <1>1, TwoParts, Zenon
  <2>2. QED
    BY <2>1, ThreeParts
<1>4. Prefixed(a, Prefixed(b, Prefixed(c, Prefixed(d, End)))) = {<<a, b, c, d>>}
  <2>1. Prefixed(c, Prefixed(d, End)) = {<<c, d>>}
    BY <1>1, TwoParts, Zenon
  <2>2. Prefixed(b, Prefixed(c, Prefixed(d, End))) = {<<b, c, d>>}
    BY <2>1, ThreeParts
  <2>3. QED
    BY <2>2, FourParts
<1>5. Prefixed(a, Prefixed(b, Prefixed(c, Prefixed(d, Prefixed(e, End))))) = {<<a, b, c, d, e>>}
  <2>1. Prefixed(d, Prefixed(e, End)) = {<<d, e>>}
    BY <1>1, TwoParts, Zenon
  <2>2. Prefixed(c, Prefixed(d, Prefixed(e, End))) = {<<c, d, e>>}
    BY <2>1, ThreeParts
  <2>3. Prefixed(b, Prefixed(c, Prefixed(d, Prefixed(e, End)))) = {<<b, c, d, e>>}
    BY <2>2, FourParts
  <2>4. Prefixed(a, {<<b, c, d, e>>}) = {<<a, b, c, d, e>>}
    BY FiveParts, SMTT(30)
  <2>5. QED
    BY <2>3, <2>4
<1>6. QED
  BY <1>1, <1>2, <1>3, <1>4, <1>5, Zenon

\* Every chain of one set followed by every chain of another.
Cat(a, b) == {c \o d : c \in a, d \in b}

\* What is in it is a chain of each.
LEMMA CatMember ==
    ASSUME NEW a, NEW b, NEW w, w \in Cat(a, b)
    PROVE  \E x \in a, y \in b : w = x \o y
  BY SMT DEF Cat

\* And a chain of each is in it.
LEMMA CatElement ==
    ASSUME NEW a, NEW b, NEW x \in a, NEW y \in b
    PROVE  x \o y \in Cat(a, b)
  BY SMT DEF Cat

\* Chains of three sets in a row.
LEMMA CatLeft ==
    ASSUME NEW a, NEW b, NEW c, NEW w, w \in Cat(Cat(a, b), c)
    PROVE  \E x \in a, y \in b, z \in c : w = (x \o y) \o z
<1>1. PICK v \in Cat(a, b), z \in c : w = v \o z
  BY CatMember
<1>2. v \in Cat(a, b)
  BY <1>1
<1>3. PICK x \in a, y \in b : v = x \o y
  BY <1>2, CatMember
<1>4. QED
  BY <1>1, <1>3

\* The same, put together from the right.
LEMMA CatRight ==
    ASSUME NEW a, NEW b, NEW c, NEW w, w \in Cat(a, Cat(b, c))
    PROVE  \E x \in a, y \in b, z \in c : w = x \o (y \o z)
<1>1. PICK x \in a, v \in Cat(b, c) : w = x \o v
  BY CatMember
<1>2. v \in Cat(b, c)
  BY <1>1
<1>3. PICK y \in b, z \in c : v = y \o z
  BY <1>2, CatMember
<1>4. QED
  BY <1>1, <1>3

\* Which two come together first makes no difference.
LEMMA CatAssociative ==
    ASSUME NEW a \in SUBSET Chains, NEW b \in SUBSET Chains, NEW c \in SUBSET Chains
    PROVE  Cat(Cat(a, b), c) = Cat(a, Cat(b, c)) /\ Cat(a, b) \in SUBSET Chains
<1>1. \A x \in a, y \in b, z \in c : (x \o y) \o z = x \o (y \o z)
  BY ConcatAssociative DEF Chains
<1>2. ASSUME NEW w \in Cat(Cat(a, b), c)
      PROVE  w \in Cat(a, Cat(b, c))
  <2>1. PICK x \in a, y \in b, z \in c : w = (x \o y) \o z
    BY CatLeft
  <2>2. y \o z \in Cat(b, c)
    BY CatElement
  <2>3. x \o (y \o z) \in Cat(a, Cat(b, c))
    BY <2>2, CatElement
  <2>4. QED
    BY <1>1, <2>1, <2>3
<1>3. ASSUME NEW w \in Cat(a, Cat(b, c))
      PROVE  w \in Cat(Cat(a, b), c)
  <2>1. PICK x \in a, y \in b, z \in c : w = x \o (y \o z)
    BY CatRight
  <2>2. x \o y \in Cat(a, b)
    BY CatElement
  <2>3. (x \o y) \o z \in Cat(Cat(a, b), c)
    BY <2>2, CatElement
  <2>4. QED
    BY <1>1, <2>1, <2>3
<1>4. \A x \in a, y \in b : x \o y \in Chains
  BY ConcatProperties DEF Chains
<1>5. Cat(a, b) \in SUBSET Chains
  <2>1. ASSUME NEW w, w \in Cat(a, b) PROVE w \in Chains
    <3>1. PICK x \in a, y \in b : w = x \o y
      BY <2>1, CatMember
    <3>2. QED
      BY <1>4, <3>1
  <2>2. QED
    BY <2>1
<1>6. QED
  BY <1>2, <1>3, <1>5

\* Behind nothing, behind one part, and behind two.
LEMMA CatShort ==
    ASSUME NEW p \in Parts, NEW q \in Parts, NEW b \in SUBSET Chains
    PROVE  /\ Cat({<<>>}, b) = b
           /\ Cat({<<p>>}, b) = Prefixed(p, b)
           /\ Cat({<<p, q>>}, b) = Prefixed(p, Prefixed(q, b))
<1>1. \A c \in b : <<>> \o c = c
  BY ConcatEmptySeq DEF Chains
<1>2. Cat({<<>>}, b) = b
  BY <1>1 DEF Cat
<1>3. Cat({<<p>>}, b) = Prefixed(p, b)
  BY DEF Cat, Prefixed
<1>4. Cat({<<p, q>>}, b) = Prefixed(p, Prefixed(q, b))
  <2>1. {<<p, q>>} = Cat({<<p>>}, {<<q>>})
    <3>1. Prefixed(p, {<<q>>}) = {<<p, q>>}
      BY TwoParts
    <3>2. Cat({<<p>>}, {<<q>>}) = Prefixed(p, {<<q>>})
      BY DEF Cat, Prefixed
    <3>3. QED
      BY <3>1, <3>2
  <2> DEFINE P == {<<p>>}
             Q == {<<q>>}
  <2>2. P \in SUBSET Chains /\ Q \in SUBSET Chains
    BY DEF Chains
  <2>3. Cat(P, Cat(Q, b)) = Prefixed(p, Prefixed(q, b))
    BY DEF Cat, Prefixed
  <2> HIDE DEF P, Q
  <2>4. Cat(Cat(P, Q), b) = Prefixed(p, Prefixed(q, b))
    BY <2>2, <2>3, CatAssociative
  <2>5. QED
    BY <2>1, <2>4 DEF P, Q
<1>5. QED
  BY <1>2, <1>3, <1>4

\* Behind chains of two sets.
LEMMA CatUnion ==
    ASSUME NEW a, NEW b, NEW c
    PROVE  Cat(a \cup b, c) = Cat(a, c) \cup Cat(b, c)
  BY DEF Cat

\* What a number may begin with, and the whole rule by its first parts.
LEMMA NumberIs == number = Prefixed(One({"minus"}), Unsigned) \cup Unsigned
<1> DEFINE Minus == {<<>>} \cup {<<One({"minus"})>>}
           Int1 == {<<One({"0"})>>} \cup {<<One({"9"}), digits>>}
           D == {<<One(Digits), digits>>}
           Frac == {<<>>} \cup Cat({<<One({"dot"})>>}, D)
           Sign == {<<>>} \cup {<<One({"plus", "minus"})>>}
           Exp == {<<>>} \cup Cat(Cat({<<One({"E"})>>}, Sign), D)
           m == One({"minus"})
           z == One({"0"})
           n == One({"9"})
           p == One({"dot"})
           g == One({"plus", "minus"})
           x == One({"E"})
           d == One(Digits)
<1>1. m \in Parts /\ z \in Parts /\ n \in Parts /\ p \in Parts /\ g \in Parts /\ x \in Parts
      /\ digits \in Parts /\ d \in Parts
  BY NumberBytes, OnePart DEF digits
<1>2. Some(Digits) = <<One(Digits), digits>>
  BY DEF Some, digits
<1>3. number = Cat(Cat(Cat(Minus, Int1), Frac), Exp)
  <2>1. Maybe({<<One({"minus"})>>}) = Minus /\ Maybe({<<One({"plus", "minus"})>>}) = Sign
    BY DEF Maybe
  <2>2. Maybe({<<One({"dot"})>> \o Some(Digits)}) = Frac
    BY <1>2 DEF Maybe, Cat
  <2>3. {<<One({"E"})>> \o sign \o Some(Digits) : sign \in Sign} = Cat(Cat({<<One({"E"})>>}, Sign), D)
    <3>1. {<<One({"E"})>> \o sign \o Some(Digits) : sign \in Sign} = {<<One({"E"})>> \o sign \o <<One(Digits), digits>> : sign \in Sign}
      BY <1>2
    <3> HIDE DEF Sign
    <3> DEFINE E == <<One({"E"})>>
               tail == <<One(Digits), digits>>
    <3> HIDE DEF E, tail, Sign
    <3> DEFINE Es == {E}
               Ts == {tail}
    <3>2. E \in Es /\ tail \in Ts /\ (\A x1 \in Es : x1 = E) /\ (\A x1 \in Ts : x1 = tail)
      OBVIOUS
    <3> HIDE DEF Es, Ts
    <3>3. ASSUME NEW w, w \in Cat(Cat(Es, Sign), Ts)
          PROVE  \E sign \in Sign : w = (E \o sign) \o tail
      <4>1. PICK y \in Cat(Es, Sign), c \in Ts : w = y \o c
        BY <3>3, CatMember
      <4>2. y \in Cat(Es, Sign)
        BY <4>1
      <4>3. PICK e \in Es, sign \in Sign : y = e \o sign
        BY <4>2, CatMember
      <4>4. QED
        BY <3>2, <4>1, <4>3
    <3>4. ASSUME NEW sign \in Sign
          PROVE  (E \o sign) \o tail \in Cat(Cat(Es, Sign), Ts)
      <4>1. E \o sign \in Cat(Es, Sign)
        BY <3>2, CatElement
      <4>2. QED
        BY <3>2, <4>1, CatElement
    <3>5. {(E \o sign) \o tail : sign \in Sign} = Cat(Cat(Es, Sign), Ts)
      BY <3>3, <3>4
    <3>6. QED
      BY <3>1, <3>5 DEF E, tail, Es, Ts
  <2>4. Maybe({<<One({"E"})>> \o sign \o Some(Digits) : sign \in Sign}) = Exp
    BY <2>3 DEF Maybe
  <2>5. {<<One({"0"})>>, <<One({"9"}), Many({<<Digits>>})>>} = Int1
    BY DEF digits
  <2>6. number = {minus \o int \o frac \o exp : minus \in Minus, int \in Int1, frac \in Frac, exp \in Exp}
    <3> DEFINE M2 == Maybe({<<One({"minus"})>>})
               I2 == {<<One({"0"})>>, <<One({"9"}), Many({<<Digits>>})>>}
               F2 == Maybe({<<One({"dot"})>> \o Some(Digits)})
               S2 == Maybe({<<One({"plus", "minus"})>>})
               E2 == Maybe({<<One({"E"})>> \o sign \o Some(Digits) : sign \in S2})
    <3>1. number = {minus \o int \o frac \o exp : minus \in M2, int \in I2, frac \in F2, exp \in E2}
      BY DEF number
    <3>2. M2 = Minus /\ I2 = Int1 /\ F2 = Frac /\ S2 = Sign
      BY <2>1, <2>2, <2>5
    <3> HIDE DEF S2, Sign, M2, I2, F2
    <3>3. E2 = Exp
      BY <2>4, <3>2, Zenon
    <3> HIDE DEF M2, I2, F2, E2, Minus, Int1, Frac, Exp
    <3>4. QED
      BY <3>1, <3>2, <3>3
  <2> HIDE DEF Minus, Int1, Frac, Exp
  <2>7. \A w : w \in Cat(Cat(Cat(Minus, Int1), Frac), Exp) <=>
            \E minus \in Minus, int \in Int1, frac \in Frac, exp \in Exp : w = minus \o int \o frac \o exp
    <3>1. ASSUME NEW w, w \in Cat(Cat(Cat(Minus, Int1), Frac), Exp)
          PROVE  \E minus \in Minus, int \in Int1, frac \in Frac, exp \in Exp : w = minus \o int \o frac \o exp
      <4>1. PICK v3 \in Cat(Cat(Minus, Int1), Frac), exp \in Exp : w = v3 \o exp
        BY <3>1, CatMember
      <4>2. PICK v2 \in Cat(Minus, Int1), frac \in Frac : v3 = v2 \o frac
        BY CatMember
      <4>3. PICK minus \in Minus, int \in Int1 : v2 = minus \o int
        BY CatMember
      <4>4. QED
        BY <4>1, <4>2, <4>3
    <3>2. ASSUME NEW minus \in Minus, NEW int \in Int1, NEW frac \in Frac, NEW exp \in Exp
          PROVE  minus \o int \o frac \o exp \in Cat(Cat(Cat(Minus, Int1), Frac), Exp)
      <4>1. minus \o int \in Cat(Minus, Int1)
        BY CatElement
      <4>2. (minus \o int) \o frac \in Cat(Cat(Minus, Int1), Frac)
        BY <4>1, CatElement
      <4>3. QED
        BY <4>2, CatElement
    <3> DEFINE C == Cat(Cat(Cat(Minus, Int1), Frac), Exp)
    <3>3. (\A w : w \in C => \E minus \in Minus, int \in Int1, frac \in Frac, exp \in Exp : w = minus \o int \o frac \o exp)
      BY <3>1
    <3>4. \A minus \in Minus, int \in Int1, frac \in Frac, exp \in Exp : minus \o int \o frac \o exp \in C
      BY <3>2
    <3> HIDE DEF C
    <3>5. \A w : w \in C <=> \E minus \in Minus, int \in Int1, frac \in Frac, exp \in Exp : w = minus \o int \o frac \o exp
      <4>1. ASSUME NEW w, \E minus \in Minus, int \in Int1, frac \in Frac, exp \in Exp : w = minus \o int \o frac \o exp
            PROVE  w \in C
        <5>1. PICK minus \in Minus, int \in Int1, frac \in Frac, exp \in Exp : w = minus \o int \o frac \o exp
          BY <4>1
        <5>2. QED
          BY <3>4, <5>1
      <4>2. QED
        BY <3>3, <4>1, SMTT(30)
    <3>6. QED
      BY <3>5 DEF C
  <2>8. \A w : w \in number <=> w \in Cat(Cat(Cat(Minus, Int1), Frac), Exp)
    BY <2>6, <2>7
  <2>9. QED
    BY <2>8
<1> HIDE DEF m, z, n, p, g, x, d
<1>4. {<<>>} = End /\ Minus = {<<>>} \cup {<<m>>} /\ Int1 = {<<z>>} \cup {<<n, digits>>} /\ D = {<<d, digits>>}
      /\ Frac = {<<>>} \cup Cat({<<p>>}, D) /\ Sign = {<<>>} \cup {<<g>>}
      /\ Exp = {<<>>} \cup Cat(Cat({<<x>>}, Sign), D)
  BY DEF End, m, z, n, p, g, x, d
<1> HIDE DEF Minus, Int1, D, Frac, Sign, Exp
<1>5. /\ \A s \in SUBSET Chains : AtLeastOne(s) = Prefixed(d, Prefixed(digits, s))
      /\ Signed = AtLeastOne(End) \cup Prefixed(g, AtLeastOne(End))
      /\ Exponent = End \cup Prefixed(x, Signed)
      /\ Tails = Exponent \cup Prefixed(p, AtLeastOne(Exponent))
      /\ Unsigned = Prefixed(z, Tails) \cup Prefixed(n, Prefixed(digits, Tails))
  BY DEF AtLeastOne, Signed, Exponent, Tails, Unsigned, d, g, x, p, z, n
<1>6. /\ {<<>>} \in SUBSET Chains /\ {<<m>>} \in SUBSET Chains /\ {<<z>>} \in SUBSET Chains
      /\ {<<n, digits>>} \in SUBSET Chains /\ D \in SUBSET Chains /\ {<<p>>} \in SUBSET Chains
      /\ {<<g>>} \in SUBSET Chains /\ {<<x>>} \in SUBSET Chains
  BY <1>1, <1>4 DEF Chains
<1>7. ASSUME NEW s \in SUBSET Chains PROVE Cat(D, s) = AtLeastOne(s)
  <2>1. Cat({<<d, digits>>}, s) = Prefixed(d, Prefixed(digits, s))
    BY <1>1, CatShort, ZenonT(30)
  <2>2. QED
    BY <2>1 DEF D, d, AtLeastOne
<1>8. D = AtLeastOne(End)
  <2>1. Prefixed(d, Prefixed(digits, End)) = {<<d, digits>>}
    BY <1>1, ShortChains
  <2>2. QED
    BY <1>5, <2>1, OnwardEnd DEF D, d
<1>9. Exp = Exponent
  <2>1. Cat(Cat({<<x>>}, Sign), D) = Cat({<<x>>}, Cat(Sign, D))
    <3> DEFINE X == {<<x>>}
    <3>1. X \in SUBSET Chains /\ D \in SUBSET Chains
      BY <1>6
    <3>2. Sign \in SUBSET Chains
      <4>1. Sign = {<<>>} \cup {<<g>>}
        BY <1>4
      <4>2. QED
        BY <1>6, <4>1
    <3> HIDE DEF X
    <3>3. Cat(Cat(X, Sign), D) = Cat(X, Cat(Sign, D))
      BY <3>1, <3>2, CatAssociative
    <3>4. QED
      BY <3>3 DEF X
  <2>2. Cat(Sign, D) = Cat({<<>>}, D) \cup Cat({<<g>>}, D)
    <3>1. Cat({<<>>} \cup {<<g>>}, D) = Cat({<<>>}, D) \cup Cat({<<g>>}, D)
      BY CatUnion
    <3>2. QED
      BY <3>1 DEF Sign, g
  <2>3. Cat(Sign, D) = Signed
    <3>1. Cat({<<>>}, D) = D /\ Cat({<<g>>}, D) = Prefixed(g, D)
      BY <1>1, <1>6, CatShort
    <3>2. QED
      BY <1>5, <1>8, <2>2, <3>1
  <2>4. Cat({<<x>>}, Signed) = Prefixed(x, Signed)
    BY <1>1, OnwardSigned, CatShort
  <2>5. QED
    BY <1>4, <1>5, <2>1, <2>3, <2>4
<1>10. Cat(Frac, Exp) = Tails
  <2>1. Exponent \in SUBSET Chains
    BY OnwardExponent
  <2>2. Cat(Frac, Exponent) = Cat({<<>>}, Exponent) \cup Cat(Cat({<<p>>}, D), Exponent)
    <3> DEFINE F == Cat({<<p>>}, D)
    <3> HIDE DEF F
    <3>1. Cat({<<>>} \cup F, Exponent) = Cat({<<>>}, Exponent) \cup Cat(F, Exponent)
      BY CatUnion
    <3>2. QED
      BY <3>1 DEF F, Frac, p
  <2>3. Cat(Cat({<<p>>}, D), Exponent) = Cat({<<p>>}, AtLeastOne(Exponent))
    <3>1. Cat(D, Exponent) = AtLeastOne(Exponent)
      BY <1>7, <2>1
    <3>2. QED
      <4> DEFINE P == {<<p>>}
      <4>1. P \in SUBSET Chains /\ D \in SUBSET Chains
        BY <1>6
      <4> HIDE DEF P
      <4>2. Cat(Cat(P, D), Exponent) = Cat(P, Cat(D, Exponent))
        BY <2>1, <4>1, CatAssociative
      <4>3. QED
        BY <3>1, <4>2 DEF P
  <2>4. AtLeastOne(Exponent) \in SUBSET Chains
    BY <2>1, OnwardExponent, OnwardDigits
  <2>5. Cat({<<p>>}, AtLeastOne(Exponent)) = Prefixed(p, AtLeastOne(Exponent)) /\ Cat({<<>>}, Exponent) = Exponent
    BY <1>1, <2>1, <2>4, CatShort
  <2>6. QED
    BY <1>5, <1>9, <2>2, <2>3, <2>5
<1>11. Cat(Int1, Tails) = Unsigned
  <2>1. Tails \in SUBSET Chains
    BY OnwardTails
  <2>2. Cat(Int1, Tails) = Cat({<<z>>}, Tails) \cup Cat({<<n, digits>>}, Tails)
    BY <1>4, CatUnion
  <2>3. Cat({<<z>>}, Tails) = Prefixed(z, Tails) /\ Cat({<<n, digits>>}, Tails) = Prefixed(n, Prefixed(digits, Tails))
    BY <1>1, <2>1, CatShort, ZenonT(30)
  <2>4. QED
    BY <1>5, <2>2, <2>3
<1>12. Cat(Minus, Unsigned) = Prefixed(m, Unsigned) \cup Unsigned
  <2>1. Unsigned \in SUBSET Chains
    BY OnwardUnsigned
  <2>2. Cat(Minus, Unsigned) = Cat({<<>>}, Unsigned) \cup Cat({<<m>>}, Unsigned)
    BY <1>4, CatUnion
  <2>3. Cat({<<>>}, Unsigned) = Unsigned /\ Cat({<<m>>}, Unsigned) = Prefixed(m, Unsigned)
    BY <1>1, <2>1, CatShort
  <2>4. QED
    BY <2>2, <2>3
<1>13. Cat(Cat(Cat(Minus, Int1), Frac), Exp) = Cat(Minus, Cat(Int1, Cat(Frac, Exp)))
  <2>1. Minus \in SUBSET Chains /\ Int1 \in SUBSET Chains
    BY <1>4, <1>6
  <2>2. Frac \in SUBSET Chains
    <3>1. Cat({<<p>>}, D) \in SUBSET Chains
      BY <1>6, CatAssociative
    <3>2. Frac = {<<>>} \cup Cat({<<p>>}, D)
      BY <1>4
    <3>3. QED
      BY <1>6, <3>1, <3>2
  <2>3. Exp \in SUBSET Chains
    BY <1>9, OnwardExponent
  <2>4. Cat(Minus, Int1) \in SUBSET Chains
    BY <2>1, CatAssociative
  <2>5. Cat(Frac, Exp) \in SUBSET Chains
    BY <2>2, <2>3, CatAssociative
  <2>6. Cat(Cat(Cat(Minus, Int1), Frac), Exp) = Cat(Cat(Minus, Int1), Cat(Frac, Exp))
    BY <2>2, <2>3, <2>4, CatAssociative
  <2>7. Cat(Cat(Minus, Int1), Cat(Frac, Exp)) = Cat(Minus, Cat(Int1, Cat(Frac, Exp)))
    BY <2>1, <2>5, CatAssociative
  <2>8. QED
    BY <2>6, <2>7
<1>14. QED
  BY <1>3, <1>10, <1>11, <1>12, <1>13 DEF m

\* A literal of four letters, letter by letter.
LEMMA LiteralOfFour ==
    ASSUME NEW a \in SUBSET Bytes,
           NEW b \in SUBSET Bytes,
           NEW c \in SUBSET Bytes,
           NEW d \in SUBSET Bytes
    PROVE  Literal(<<a, b, c, d>>) =
             Prefixed(One(a), Prefixed(One(b), Prefixed(One(c), Prefixed(One(d), End))))
<1> DEFINE letters == <<a, b, c, d>>
           f == [i \in 1..4 |-> One(letters[i])]
           g == <<One(a), One(b), One(c), One(d)>>
<1>1. Len(letters) = 4 /\ letters[1] = a /\ letters[2] = b /\ letters[3] = c /\ letters[4] = d
  OBVIOUS
<1> HIDE DEF letters
<1>2. One(a) \in Parts /\ One(b) \in Parts /\ One(c) \in Parts /\ One(d) \in Parts
  BY OnePart
<1>3. f[1] = One(a) /\ f[2] = One(b) /\ f[3] = One(c) /\ f[4] = One(d)
  BY <1>1
<1>4. \A i \in 1..4 : i = 1 \/ i = 2 \/ i = 3 \/ i = 4
  OBVIOUS
<1>5. f \in [1..4 -> Parts]
  BY <1>2, <1>3, <1>4
<1>6. f \in Seq(Parts) /\ Len(f) = 4
  BY <1>5, SeqDef, LenProperties
<1>7. g \in Seq(Parts) /\ Len(g) = 4 /\ g[1] = One(a) /\ g[2] = One(b) /\ g[3] = One(c) /\ g[4] = One(d)
  BY <1>2
<1> HIDE DEF f, g
<1>8. \A i \in 1..4 : f[i] = g[i]
  BY <1>3, <1>4, <1>7
<1>9. f = g
  BY <1>6, <1>7, <1>8, SeqEqual
<1>10. Literal(letters) = {f}
  BY <1>1 DEF Literal, f
<1>11. {g} = Prefixed(One(a), Prefixed(One(b), Prefixed(One(c), Prefixed(One(d), End))))
  BY <1>2, ShortChains DEF g
<1>12. QED
  BY <1>9, <1>10, <1>11 DEF letters

\* A literal of five letters, letter by letter.
LEMMA LiteralOfFive ==
    ASSUME NEW a \in SUBSET Bytes,
           NEW b \in SUBSET Bytes,
           NEW c \in SUBSET Bytes,
           NEW d \in SUBSET Bytes,
           NEW e \in SUBSET Bytes
    PROVE  Literal(<<a, b, c, d, e>>) =
             Prefixed(One(a), Prefixed(One(b), Prefixed(One(c), Prefixed(One(d), Prefixed(One(e), End)))))
<1> DEFINE letters == <<a, b, c, d, e>>
           f == [i \in 1..5 |-> One(letters[i])]
           g == <<One(a), One(b), One(c), One(d), One(e)>>
<1>1. Len(letters) = 5 /\ letters[1] = a /\ letters[2] = b /\ letters[3] = c /\ letters[4] = d /\ letters[5] = e
  OBVIOUS
<1> HIDE DEF letters
<1>2. One(a) \in Parts /\ One(b) \in Parts /\ One(c) \in Parts /\ One(d) \in Parts /\ One(e) \in Parts
  BY OnePart
<1>3. f[1] = One(a) /\ f[2] = One(b) /\ f[3] = One(c) /\ f[4] = One(d) /\ f[5] = One(e)
  BY <1>1
<1>4. \A i \in 1..5 : i = 1 \/ i = 2 \/ i = 3 \/ i = 4 \/ i = 5
  OBVIOUS
<1>5. f \in [1..5 -> Parts]
  BY <1>2, <1>3, <1>4
<1>6. f \in Seq(Parts) /\ Len(f) = 5
  BY <1>5, SeqDef, LenProperties
<1>7. g \in Seq(Parts) /\ Len(g) = 5 /\ g[1] = One(a) /\ g[2] = One(b) /\ g[3] = One(c) /\ g[4] = One(d) /\ g[5] = One(e)
  BY <1>2
<1> HIDE DEF f, g
<1>8. \A i \in 1..5 : f[i] = g[i]
  BY <1>3, <1>4, <1>7
<1>9. f = g
  BY <1>6, <1>7, <1>8, SeqEqual
<1>10. Literal(letters) = {f}
  BY <1>1 DEF Literal, f
<1>11. {g} = Prefixed(One(a), Prefixed(One(b), Prefixed(One(c), Prefixed(One(d), Prefixed(One(e), End)))))
  BY <1>2, ShortChains DEF g
<1>12. QED
  BY <1>9, <1>10, <1>11 DEF letters

\* The rules by their first parts.
LEMMA RulesAre ==
    /\ DOMAIN Rules = {"nl", "ws", "bom", "ABEGIN", "AEND", "OBEGIN", "OEND", "COMMA", "COLON",
                       "NULL", "BOOLEAN", "NUMBER", "STRING", "EOF"}
    /\ Rules["nl"] = Prefixed(One({"nl"}), Prefixed(Many({<<{"nl"}>>}), End))
    /\ Rules["ws"] = Prefixed(One({"space", "tab"}), Prefixed(Many({<<{"space", "tab"}>>}), End))
    /\ Rules["bom"] = Prefixed(One({"EF"}), Prefixed(One({"BB"}), BF1))
    /\ Rules["ABEGIN"] = Prefixed(One({"lbracket"}), End)
    /\ Rules["AEND"] = Prefixed(One({"rbracket"}), End)
    /\ Rules["OBEGIN"] = Prefixed(One({"lbrace"}), End)
    /\ Rules["OEND"] = Prefixed(One({"rbrace"}), End)
    /\ Rules["COMMA"] = Prefixed(One({"comma"}), End)
    /\ Rules["COLON"] = Prefixed(One({"colon"}), End)
    /\ Rules["NULL"] = Prefixed(One({"N", "n"}), Ull)
    /\ Rules["BOOLEAN"] = Prefixed(One({"T", "t"}), Rue) \cup Prefixed(One({"F", "f"}), Alse)
    /\ Rules["NUMBER"] = Prefixed(One({"minus"}), Unsigned) \cup Unsigned
    /\ Rules["STRING"] = Prefixed(One({"quote"}), Inside)
    /\ Rules["EOF"] = Prefixed(One({"NUL"}), End)
<1>1. \A bytes \in SUBSET Bytes : One(bytes) \in Parts /\ Many({<<bytes>>}) \in Parts
  BY OnePart
<1>2. ASSUME NEW bytes \in SUBSET Bytes
      PROVE  Prefixed(One(bytes), End) = {<<One(bytes)>>}
  BY <1>1, ShortChains
<1>3. ASSUME NEW bytes \in SUBSET Bytes
      PROVE  {Some(bytes)} = Prefixed(One(bytes), Prefixed(Many({<<bytes>>}), End))
  BY <1>1, ShortChains DEF Some
<1>4. /\ {"nl"} \in SUBSET Bytes /\ {"space", "tab"} \in SUBSET Bytes /\ {"EF"} \in SUBSET Bytes
      /\ {"lbracket"} \in SUBSET Bytes /\ {"rbracket"} \in SUBSET Bytes /\ {"lbrace"} \in SUBSET Bytes
      /\ {"rbrace"} \in SUBSET Bytes /\ {"comma"} \in SUBSET Bytes /\ {"colon"} \in SUBSET Bytes
      /\ {"N", "n"} \in SUBSET Bytes /\ {"T", "t"} \in SUBSET Bytes /\ {"F", "f"} \in SUBSET Bytes
      /\ {"NUL"} \in SUBSET Bytes
  BY DEF Bytes
<1>5. DOMAIN Rules = {"nl", "ws", "bom", "ABEGIN", "AEND", "OBEGIN", "OEND", "COMMA", "COLON",
                       "NULL", "BOOLEAN", "NUMBER", "STRING", "EOF"}
  BY DEF Rules
<1>6. /\ Rules["nl"] = {Some({"nl"})} /\ Rules["ws"] = {Some({"space", "tab"})}
      /\ Rules["bom"] = {<<One({"EF"}), One({"BB"}), One({"BF"})>>}
      /\ Rules["ABEGIN"] = {<<One({"lbracket"})>>} /\ Rules["AEND"] = {<<One({"rbracket"})>>}
      /\ Rules["OBEGIN"] = {<<One({"lbrace"})>>} /\ Rules["OEND"] = {<<One({"rbrace"})>>}
      /\ Rules["COMMA"] = {<<One({"comma"})>>} /\ Rules["COLON"] = {<<One({"colon"})>>}
      /\ Rules["EOF"] = {<<One({"NUL"})>>}
      /\ Rules["NUMBER"] = number /\ Rules["STRING"] = string
      /\ Rules["NULL"] = Literal(<<{"N", "n"}, {"U", "u"}, {"L"}, {"L"}>>)
      /\ Rules["BOOLEAN"] = Literal(<<{"T", "t"}, {"R", "r"}, {"U", "u"}, {"E"}>>)
                            \cup Literal(<<{"F", "f"}, {"A"}, {"L"}, {"S"}, {"E"}>>)
  BY DEF Rules
<1>7. Rules["nl"] = Prefixed(One({"nl"}), Prefixed(Many({<<{"nl"}>>}), End))
  BY <1>3, <1>4, <1>6, Zenon
<1>8. Rules["ws"] = Prefixed(One({"space", "tab"}), Prefixed(Many({<<{"space", "tab"}>>}), End))
  BY <1>3, <1>4, <1>6, Zenon
<1>9. Rules["bom"] = Prefixed(One({"EF"}), Prefixed(One({"BB"}), BF1))
  <2>1. One({"EF"}) \in Parts /\ One({"BB"}) \in Parts /\ One({"BF"}) \in Parts
    BY <1>1, <1>4, Letters
  <2>2. QED
    BY <1>6, <2>1, ShortChains DEF BF1
<1>10. /\ Rules["ABEGIN"] = Prefixed(One({"lbracket"}), End)
       /\ Rules["AEND"] = Prefixed(One({"rbracket"}), End)
       /\ Rules["OBEGIN"] = Prefixed(One({"lbrace"}), End)
       /\ Rules["OEND"] = Prefixed(One({"rbrace"}), End)
       /\ Rules["COMMA"] = Prefixed(One({"comma"}), End)
       /\ Rules["COLON"] = Prefixed(One({"colon"}), End)
       /\ Rules["EOF"] = Prefixed(One({"NUL"}), End)
  BY <1>2, <1>4, <1>6, Zenon
<1>11. Rules["NULL"] = Prefixed(One({"N", "n"}), Ull)
  <2>1. Literal(<<{"N", "n"}, {"U", "u"}, {"L"}, {"L"}>>) = Prefixed(One({"N", "n"}), Ull)
    <3> DEFINE n == {"N", "n"}
               u == {"U", "u"}
               l == {"L"}
    <3>1. n \in SUBSET Bytes /\ u \in SUBSET Bytes /\ l \in SUBSET Bytes
      BY <1>4, Letters
    <3> HIDE DEF n, u, l
    <3>2. Literal(<<n, u, l, l>>) = Prefixed(One(n), Prefixed(One(u), Prefixed(One(l), Prefixed(One(l), End))))
      BY <3>1, LiteralOfFour
    <3>3. QED
      BY <3>2 DEF n, u, l, Ull, Ll, L1
  <2>2. QED
    BY <1>6, <2>1, Zenon
<1>12. Rules["BOOLEAN"] = Prefixed(One({"T", "t"}), Rue) \cup Prefixed(One({"F", "f"}), Alse)
  <2>1. Literal(<<{"T", "t"}, {"R", "r"}, {"U", "u"}, {"E"}>>) = Prefixed(One({"T", "t"}), Rue)
    <3> DEFINE t == {"T", "t"}
               r == {"R", "r"}
               u == {"U", "u"}
               e == {"E"}
    <3>1. t \in SUBSET Bytes /\ r \in SUBSET Bytes /\ u \in SUBSET Bytes /\ e \in SUBSET Bytes
      BY <1>4, Letters
    <3> HIDE DEF t, r, u, e
    <3>2. Literal(<<t, r, u, e>>) = Prefixed(One(t), Prefixed(One(r), Prefixed(One(u), Prefixed(One(e), End))))
      BY <3>1, LiteralOfFour
    <3>3. QED
      BY <3>2 DEF t, r, u, e, Rue, Ue, E1
  <2>2. Literal(<<{"F", "f"}, {"A"}, {"L"}, {"S"}, {"E"}>>) = Prefixed(One({"F", "f"}), Alse)
    <3> DEFINE f == {"F", "f"}
               a == {"A"}
               l == {"L"}
               s == {"S"}
               e == {"E"}
    <3>1. f \in SUBSET Bytes /\ a \in SUBSET Bytes /\ l \in SUBSET Bytes /\ s \in SUBSET Bytes /\ e \in SUBSET Bytes
      BY <1>4, Letters
    <3> HIDE DEF f, a, l, s, e
    <3>2. Literal(<<f, a, l, s, e>>) = Prefixed(One(f), Prefixed(One(a), Prefixed(One(l), Prefixed(One(s), Prefixed(One(e), End)))))
      BY <3>1, LiteralOfFive
    <3>3. QED
      BY <3>2 DEF f, a, l, s, e, Alse, Lse, Se, E1
  <2>3. QED
    BY <1>6, <2>1, <2>2, Zenon
<1>13. Rules["STRING"] = Prefixed(One({"quote"}), Inside)
  <2>1. string = {<<One({"quote"}), chars, One({"quote"})>>}
    BY DEF string, chars, Words
  <2>2. One({"quote"}) \in Parts /\ chars \in Parts
    BY Escapeable, OnePart, CharsPart
  <2>3. QED
    BY <1>6, <2>1, <2>2, ShortChains DEF Inside
<1>14. QED
  BY <1>5, <1>6, <1>7, <1>8, <1>9, <1>10, <1>11, <1>12, <1>13, NumberIs, Zenon

\* The bytes that the rules begin with.
LEMMA FirstBytesType ==
    /\ {"nl"} \in SUBSET Bytes /\ {"space", "tab"} \in SUBSET Bytes /\ {"EF"} \in SUBSET Bytes
    /\ {"lbracket"} \in SUBSET Bytes /\ {"rbracket"} \in SUBSET Bytes /\ {"lbrace"} \in SUBSET Bytes
    /\ {"rbrace"} \in SUBSET Bytes /\ {"comma"} \in SUBSET Bytes /\ {"colon"} \in SUBSET Bytes
    /\ {"N", "n"} \in SUBSET Bytes /\ {"T", "t"} \in SUBSET Bytes /\ {"F", "f"} \in SUBSET Bytes
    /\ {"NUL"} \in SUBSET Bytes /\ {"minus"} \in SUBSET Bytes
  BY DEF Bytes

\* What the first byte leaves to come of each rule.
LEMMA RulesOnward ==
    ASSUME NEW byte
    PROVE  /\ Onward(Rules["nl"], byte) = IF byte = "nl" THEN Prefixed(Many({<<{"nl"}>>}), End) ELSE {}
           /\ Onward(Rules["ws"], byte) =
                IF byte \in {"space", "tab"} THEN Prefixed(Many({<<{"space", "tab"}>>}), End) ELSE {}
           /\ Onward(Rules["bom"], byte) = IF byte = "EF" THEN Prefixed(One({"BB"}), BF1) ELSE {}
           /\ Onward(Rules["ABEGIN"], byte) = IF byte = "lbracket" THEN End ELSE {}
           /\ Onward(Rules["AEND"], byte) = IF byte = "rbracket" THEN End ELSE {}
           /\ Onward(Rules["OBEGIN"], byte) = IF byte = "lbrace" THEN End ELSE {}
           /\ Onward(Rules["OEND"], byte) = IF byte = "rbrace" THEN End ELSE {}
           /\ Onward(Rules["COMMA"], byte) = IF byte = "comma" THEN End ELSE {}
           /\ Onward(Rules["COLON"], byte) = IF byte = "colon" THEN End ELSE {}
           /\ Onward(Rules["EOF"], byte) = IF byte = "NUL" THEN End ELSE {}
           /\ Onward(Rules["NULL"], byte) = IF byte \in {"N", "n"} THEN Ull ELSE {}
           /\ Onward(Rules["BOOLEAN"], byte) = IF byte \in {"T", "t"} THEN Rue ELSE IF byte \in {"F", "f"} THEN Alse ELSE {}
           /\ Onward(Rules["NUMBER"], byte) = IF byte = "minus" THEN Unsigned ELSE IF byte = "0" THEN Tails
                                              ELSE IF byte = "9" THEN Prefixed(digits, Tails) ELSE {}
           /\ Onward(Rules["STRING"], byte) = IF byte = "quote" THEN Inside ELSE {}
<1>1. End \in SUBSET Chains
  BY OnwardEnd
<1>2. ASSUME NEW b \in SUBSET Bytes, NEW set \in SUBSET Chains
      PROVE  Onward(Prefixed(One(b), set), byte) = (IF byte \in b THEN set ELSE {}) /\ Prefixed(One(b), set) \in SUBSET Chains
  BY OnwardOne
<1>3. /\ Onward(Rules["ABEGIN"], byte) = IF byte = "lbracket" THEN End ELSE {}
      /\ Onward(Rules["AEND"], byte) = IF byte = "rbracket" THEN End ELSE {}
      /\ Onward(Rules["OBEGIN"], byte) = IF byte = "lbrace" THEN End ELSE {}
      /\ Onward(Rules["OEND"], byte) = IF byte = "rbrace" THEN End ELSE {}
      /\ Onward(Rules["COMMA"], byte) = IF byte = "comma" THEN End ELSE {}
      /\ Onward(Rules["COLON"], byte) = IF byte = "colon" THEN End ELSE {}
      /\ Onward(Rules["EOF"], byte) = IF byte = "NUL" THEN End ELSE {}
  <2>1. Onward(Rules["ABEGIN"], byte) = IF byte \in {"lbracket"} THEN End ELSE {}
    BY <1>1, <1>2, FirstBytesType, RulesAre
  <2>2. Onward(Rules["AEND"], byte) = IF byte \in {"rbracket"} THEN End ELSE {}
    BY <1>1, <1>2, FirstBytesType, RulesAre
  <2>3. Onward(Rules["OBEGIN"], byte) = IF byte \in {"lbrace"} THEN End ELSE {}
    BY <1>1, <1>2, FirstBytesType, RulesAre
  <2>4. Onward(Rules["OEND"], byte) = IF byte \in {"rbrace"} THEN End ELSE {}
    BY <1>1, <1>2, FirstBytesType, RulesAre
  <2>5. Onward(Rules["COMMA"], byte) = IF byte \in {"comma"} THEN End ELSE {}
    BY <1>1, <1>2, FirstBytesType, RulesAre
  <2>6. Onward(Rules["COLON"], byte) = IF byte \in {"colon"} THEN End ELSE {}
    BY <1>1, <1>2, FirstBytesType, RulesAre
  <2>7. Onward(Rules["EOF"], byte) = IF byte \in {"NUL"} THEN End ELSE {}
    BY <1>1, <1>2, FirstBytesType, RulesAre
  <2>8. QED
    BY <2>1, <2>2, <2>3, <2>4, <2>5, <2>6, <2>7
<1>4. Onward(Rules["nl"], byte) = IF byte = "nl" THEN Prefixed(Many({<<{"nl"}>>}), End) ELSE {}
  <2> DEFINE R == Prefixed(Many({<<{"nl"}>>}), End)
  <2>1. R \in SUBSET Chains
    BY SpaceFollows DEF SpaceStands
  <2>2. Rules["nl"] = Prefixed(One({"nl"}), R)
    BY RulesAre
  <2> HIDE DEF R
  <2>3. Onward(Rules["nl"], byte) = IF byte \in {"nl"} THEN R ELSE {}
    BY <1>2, <2>1, <2>2, FirstBytesType
  <2>4. QED
    BY <2>3 DEF R
<1>5. Onward(Rules["ws"], byte) = IF byte \in {"space", "tab"} THEN Prefixed(Many({<<{"space", "tab"}>>}), End) ELSE {}
  <2> DEFINE R == Prefixed(Many({<<{"space", "tab"}>>}), End)
  <2>1. R \in SUBSET Chains
    BY SpaceFollows DEF SpaceStands
  <2>2. Rules["ws"] = Prefixed(One({"space", "tab"}), R)
    BY RulesAre
  <2> HIDE DEF R
  <2>3. Onward(Rules["ws"], byte) = IF byte \in {"space", "tab"} THEN R ELSE {}
    BY <1>2, <2>1, <2>2, FirstBytesType
  <2>4. QED
    BY <2>3 DEF R
<1>6. Onward(Rules["bom"], byte) = IF byte = "EF" THEN Prefixed(One({"BB"}), BF1) ELSE {}
  <2> DEFINE R == Prefixed(One({"BB"}), BF1)
  <2>1. R \in SUBSET Chains
    BY BomFollows DEF BomStands
  <2>2. Rules["bom"] = Prefixed(One({"EF"}), R)
    BY RulesAre
  <2> HIDE DEF R
  <2>3. Onward(Rules["bom"], byte) = IF byte \in {"EF"} THEN R ELSE {}
    BY <1>2, <2>1, <2>2, FirstBytesType
  <2>4. QED
    BY <2>3 DEF R
<1>7. Onward(Rules["NULL"], byte) = IF byte \in {"N", "n"} THEN Ull ELSE {}
  <2>1. Ull \in SUBSET Chains
    BY LiteralFollows DEF LiteralStands
  <2>2. QED
    BY <1>2, <2>1, FirstBytesType, RulesAre
<1>8. Onward(Rules["BOOLEAN"], byte) = IF byte \in {"T", "t"} THEN Rue ELSE IF byte \in {"F", "f"} THEN Alse ELSE {}
  <2> DEFINE A == Prefixed(One({"T", "t"}), Rue)
             B == Prefixed(One({"F", "f"}), Alse)
  <2>1. Rue \in SUBSET Chains /\ Alse \in SUBSET Chains
    BY LiteralFollows DEF LiteralStands
  <2>2. Rules["BOOLEAN"] = A \cup B
    BY RulesAre
  <2>3. A \in SUBSET Chains /\ Onward(A, byte) = IF byte \in {"T", "t"} THEN Rue ELSE {}
    BY <1>2, <2>1, FirstBytesType
  <2>4. B \in SUBSET Chains /\ Onward(B, byte) = IF byte \in {"F", "f"} THEN Alse ELSE {}
    BY <1>2, <2>1, FirstBytesType
  <2> HIDE DEF A, B
  <2>5. Onward(A \cup B, byte) = Onward(A, byte) \cup Onward(B, byte)
    BY <2>3, <2>4, OnwardUnion, SMTT(30)
  <2>6. QED
    BY <2>2, <2>3, <2>4, <2>5
<1>9. Onward(Rules["NUMBER"], byte) = IF byte = "minus" THEN Unsigned ELSE IF byte = "0" THEN Tails
                                      ELSE IF byte = "9" THEN Prefixed(digits, Tails) ELSE {}
  <2> DEFINE A == Prefixed(One({"minus"}), Unsigned)
  <2>1. Unsigned \in SUBSET Chains
    BY OnwardUnsigned
  <2>2. Rules["NUMBER"] = A \cup Unsigned
    BY RulesAre
  <2>3. A \in SUBSET Chains /\ Onward(A, byte) = IF byte \in {"minus"} THEN Unsigned ELSE {}
    BY <1>2, <2>1, FirstBytesType
  <2> HIDE DEF A
  <2>4. Onward(A \cup Unsigned, byte) = Onward(A, byte) \cup Onward(Unsigned, byte)
    BY <2>1, <2>3, OnwardUnion
  <2>5. QED
    BY <2>2, <2>3, <2>4, OnwardUnsigned
<1>10. Onward(Rules["STRING"], byte) = IF byte = "quote" THEN Inside ELSE {}
  <2>1. Inside \in SUBSET Chains
    BY OnwardInside
  <2>2. Onward(Rules["STRING"], byte) = IF byte \in {"quote"} THEN Inside ELSE {}
    BY <1>2, <2>1, Escapeable, RulesAre
  <2>3. QED
    BY <2>2
<1>11. QED
  BY <1>3, <1>4, <1>5, <1>6, <1>7, <1>8, <1>9, <1>10

\* A byte, for the items of one rule and for those of all.
LEMMA AfterItems ==
    ASSUME NEW rule, NEW set, NEW byte
    PROVE  After(ItemsOf(rule, set), byte) = ItemsOf(rule, Onward(set, byte))
<1>1. \A c, r : r \in Taken(c, byte) \cup (IF c # <<>> /\ Head(c).many THEN Taken(Tail(c), byte) ELSE {}) <=> r \in Remains(c, byte)
  BY DEF Remains
<1> DEFINE moved(i) == {[rule |-> i.rule, rest |-> r] : r \in Remains(i.rest, byte)}
<1>2. After(ItemsOf(rule, set), byte) = UNION {moved(i) : i \in ItemsOf(rule, set)}
  BY DEF After, Remains
<1>3. \A c \in set : moved([rule |-> rule, rest |-> c]) = {[rule |-> rule, rest |-> r] : r \in Remains(c, byte)}
  OBVIOUS
<1> HIDE DEF moved
<1>4. \A x : x \in After(ItemsOf(rule, set), byte) <=> \E c \in set : x \in moved([rule |-> rule, rest |-> c])
  BY <1>2 DEF ItemsOf
<1>5. \A x : x \in ItemsOf(rule, Onward(set, byte)) <=> \E c \in set : \E r \in Remains(c, byte) : x = [rule |-> rule, rest |-> r]
  BY DEF ItemsOf, Onward
<1>6. \A x : x \in After(ItemsOf(rule, set), byte) <=> x \in ItemsOf(rule, Onward(set, byte))
  <2>1. \A x : \A c \in set : x \in moved([rule |-> rule, rest |-> c]) <=> \E r \in Remains(c, byte) : x = [rule |-> rule, rest |-> r]
    BY <1>3
  <2>2. QED
    BY <1>4, <1>5, <2>1
<1>7. QED
  BY <1>6

\* What a byte makes of the beginning, rule by rule.
LEMMA AfterOpen ==
    ASSUME NEW byte
    PROVE  After(Open, byte) = UNION {ItemsOf(r, Onward(Rules[r], byte)) : r \in DOMAIN Rules}
<1>1. Open = UNION {ItemsOf(r, Rules[r]) : r \in DOMAIN Rules}
  BY DEF Open, ItemsOf
<1>2. ASSUME NEW x
      PROVE  x \in After(Open, byte) <=> \E r \in DOMAIN Rules : x \in After(ItemsOf(r, Rules[r]), byte)
  BY <1>1 DEF After
<1>3. \A r \in DOMAIN Rules : After(ItemsOf(r, Rules[r]), byte) = ItemsOf(r, Onward(Rules[r], byte))
  BY AfterItems
<1>4. QED
  BY <1>2, <1>3

\* Where one rule only goes on.
LEMMA OnlyRule ==
    ASSUME NEW byte, NEW rule \in DOMAIN Rules,
           \A r \in DOMAIN Rules : r # rule => Onward(Rules[r], byte) = {}
    PROVE  After(Open, byte) = ItemsOf(rule, Onward(Rules[rule], byte))
<1>1. \A r \in DOMAIN Rules : r # rule => ItemsOf(r, Onward(Rules[r], byte)) = {}
  BY DEF ItemsOf
<1>2. After(Open, byte) = UNION {ItemsOf(r, Onward(Rules[r], byte)) : r \in DOMAIN Rules}
  BY AfterOpen
<1> DEFINE part(r) == ItemsOf(r, Onward(Rules[r], byte))
<1> HIDE DEF part
<1>3. UNION {part(r) : r \in DOMAIN Rules} = part(rule)
  BY <1>1 DEF part
<1>4. QED
  BY <1>2, <1>3 DEF part

\* Where no rule goes on.
LEMMA NoRule ==
    ASSUME NEW byte, \A r \in DOMAIN Rules : Onward(Rules[r], byte) = {}
    PROVE  After(Open, byte) = ItemsOf("error", {})
<1>1. \A r \in DOMAIN Rules : ItemsOf(r, Onward(Rules[r], byte)) = {}
  BY DEF ItemsOf
<1>2. After(Open, byte) = UNION {ItemsOf(r, Onward(Rules[r], byte)) : r \in DOMAIN Rules}
  BY AfterOpen
<1>3. QED
  BY <1>1, <1>2 DEF ItemsOf

\* The first byte leads to a label at which the rules stand.
LEMMA StartFollows ==
    ASSUME NEW byte, NEW e \in StartEdges, byte \in e[1]
    PROVE  \E rule, rests : Stands(e[2], rule, rests) /\ After(Open, byte) = ItemsOf(rule, rests)
<1> DEFINE Rs == {"nl", "ws", "bom", "ABEGIN", "AEND", "OBEGIN", "OEND", "COMMA", "COLON",
                  "NULL", "BOOLEAN", "NUMBER", "STRING", "EOF"}
<1>1. DOMAIN Rules = Rs
  BY RulesAre
<1>2. ASSUME NEW rule \in Rs, NEW rests, Stands(e[2], rule, rests), Onward(Rules[rule], byte) = rests,
             \A r \in Rs : r # rule => Onward(Rules[r], byte) = {}
      PROVE  \E k, s : Stands(e[2], k, s) /\ After(Open, byte) = ItemsOf(k, s)
  <2>1. After(Open, byte) = ItemsOf(rule, rests)
    BY <1>1, <1>2, OnlyRule
  <2>2. QED
    BY <1>2, <2>1
<1>3. CASE e = <<{"NUL"}, "yy2">>
  <2> DEFINE R == End
  <2>1. byte \in {"NUL"} /\ e[2] = "yy2"
    BY <1>3
  <2>2. Stands("yy2", "EOF", R)
    BY DEF Stands, EndStands, Ends
  <2>3. Onward(Rules["EOF"], byte) = R
    BY <2>1, RulesOnward
  <2> HIDE DEF R
  <2>4. \A r \in Rs : r # "EOF" => Onward(Rules[r], byte) = {}
    BY <2>1, RulesOnward
  <2>5. QED
    BY <1>2, <2>1, <2>2, <2>3, <2>4
<1>4. CASE e = <<{"tab", "space"}, "yy6">>
  <2> DEFINE R == Prefixed(Many({<<{"space", "tab"}>>}), End)
  <2>1. byte \in {"tab", "space"} /\ e[2] = "yy6"
    BY <1>4
  <2>2. Stands("yy6", "ws", R)
    BY DEF Stands, SpaceStands
  <2>3. Onward(Rules["ws"], byte) = R
    BY <2>1, RulesOnward
  <2> HIDE DEF R
  <2>4. \A r \in Rs : r # "ws" => Onward(Rules[r], byte) = {}
    BY <2>1, RulesOnward
  <2>5. QED
    BY <1>2, <2>1, <2>2, <2>3, <2>4
<1>5. CASE e = <<{"nl"}, "yy9">>
  <2> DEFINE R == Prefixed(Many({<<{"nl"}>>}), End)
  <2>1. byte \in {"nl"} /\ e[2] = "yy9"
    BY <1>5
  <2>2. Stands("yy9", "nl", R)
    BY DEF Stands, SpaceStands
  <2>3. Onward(Rules["nl"], byte) = R
    BY <2>1, RulesOnward
  <2> HIDE DEF R
  <2>4. \A r \in Rs : r # "nl" => Onward(Rules[r], byte) = {}
    BY <2>1, RulesOnward
  <2>5. QED
    BY <1>2, <2>1, <2>2, <2>3, <2>4
<1>6. CASE e = <<{"quote"}, "yy12">>
  <2> DEFINE R == Inside
  <2>1. byte \in {"quote"} /\ e[2] = "yy12"
    BY <1>6
  <2>2. Stands("yy12", "STRING", R)
    BY DEF Stands, StringStands
  <2>3. Onward(Rules["STRING"], byte) = R
    BY <2>1, RulesOnward
  <2> HIDE DEF R
  <2>4. \A r \in Rs : r # "STRING" => Onward(Rules[r], byte) = {}
    BY <2>1, RulesOnward
  <2>5. QED
    BY <1>2, <2>1, <2>2, <2>3, <2>4
<1>7. CASE e = <<{"comma"}, "yy13">>
  <2> DEFINE R == End
  <2>1. byte \in {"comma"} /\ e[2] = "yy13"
    BY <1>7
  <2>2. Stands("yy13", "COMMA", R)
    BY DEF Stands, EndStands, Ends
  <2>3. Onward(Rules["COMMA"], byte) = R
    BY <2>1, RulesOnward
  <2> HIDE DEF R
  <2>4. \A r \in Rs : r # "COMMA" => Onward(Rules[r], byte) = {}
    BY <2>1, RulesOnward
  <2>5. QED
    BY <1>2, <2>1, <2>2, <2>3, <2>4
<1>8. CASE e = <<{"minus"}, "yy15">>
  <2> DEFINE R == Unsigned
  <2>1. byte \in {"minus"} /\ e[2] = "yy15"
    BY <1>8
  <2>2. Stands("yy15", "NUMBER", R)
    BY DEF Stands, NumberStands
  <2>3. Onward(Rules["NUMBER"], byte) = R
    BY <2>1, RulesOnward
  <2> HIDE DEF R
  <2>4. \A r \in Rs : r # "NUMBER" => Onward(Rules[r], byte) = {}
    BY <2>1, RulesOnward
  <2>5. QED
    BY <1>2, <2>1, <2>2, <2>3, <2>4
<1>9. CASE e = <<{"0"}, "yy16">>
  <2> DEFINE R == Tails
  <2>1. byte \in {"0"} /\ e[2] = "yy16"
    BY <1>9
  <2>2. Stands("yy16", "NUMBER", R)
    BY DEF Stands, NumberStands
  <2>3. Onward(Rules["NUMBER"], byte) = R
    BY <2>1, RulesOnward
  <2> HIDE DEF R
  <2>4. \A r \in Rs : r # "NUMBER" => Onward(Rules[r], byte) = {}
    BY <2>1, RulesOnward
  <2>5. QED
    BY <1>2, <2>1, <2>2, <2>3, <2>4
<1>10. CASE e = <<{"9"}, "yy18">>
  <2> DEFINE R == Prefixed(digits, Tails)
  <2>1. byte \in {"9"} /\ e[2] = "yy18"
    BY <1>10
  <2>2. Stands("yy18", "NUMBER", R)
    BY DEF Stands, NumberStands
  <2>3. Onward(Rules["NUMBER"], byte) = R
    BY <2>1, RulesOnward
  <2> HIDE DEF R
  <2>4. \A r \in Rs : r # "NUMBER" => Onward(Rules[r], byte) = {}
    BY <2>1, RulesOnward
  <2>5. QED
    BY <1>2, <2>1, <2>2, <2>3, <2>4
<1>11. CASE e = <<{"colon"}, "yy20">>
  <2> DEFINE R == End
  <2>1. byte \in {"colon"} /\ e[2] = "yy20"
    BY <1>11
  <2>2. Stands("yy20", "COLON", R)
    BY DEF Stands, EndStands, Ends
  <2>3. Onward(Rules["COLON"], byte) = R
    BY <2>1, RulesOnward
  <2> HIDE DEF R
  <2>4. \A r \in Rs : r # "COLON" => Onward(Rules[r], byte) = {}
    BY <2>1, RulesOnward
  <2>5. QED
    BY <1>2, <2>1, <2>2, <2>3, <2>4
<1>12. CASE e = <<{"F", "f"}, "yy22">>
  <2> DEFINE R == Alse
  <2>1. byte \in {"F", "f"} /\ e[2] = "yy22"
    BY <1>12
  <2>2. Stands("yy22", "BOOLEAN", R)
    BY DEF Stands, LiteralStands
  <2>3. Onward(Rules["BOOLEAN"], byte) = R
    BY <2>1, RulesOnward
  <2> HIDE DEF R
  <2>4. \A r \in Rs : r # "BOOLEAN" => Onward(Rules[r], byte) = {}
    BY <2>1, RulesOnward
  <2>5. QED
    BY <1>2, <2>1, <2>2, <2>3, <2>4
<1>13. CASE e = <<{"N", "n"}, "yy23">>
  <2> DEFINE R == Ull
  <2>1. byte \in {"N", "n"} /\ e[2] = "yy23"
    BY <1>13
  <2>2. Stands("yy23", "NULL", R)
    BY DEF Stands, LiteralStands
  <2>3. Onward(Rules["NULL"], byte) = R
    BY <2>1, RulesOnward
  <2> HIDE DEF R
  <2>4. \A r \in Rs : r # "NULL" => Onward(Rules[r], byte) = {}
    BY <2>1, RulesOnward
  <2>5. QED
    BY <1>2, <2>1, <2>2, <2>3, <2>4
<1>14. CASE e = <<{"T", "t"}, "yy24">>
  <2> DEFINE R == Rue
  <2>1. byte \in {"T", "t"} /\ e[2] = "yy24"
    BY <1>14
  <2>2. Stands("yy24", "BOOLEAN", R)
    BY DEF Stands, LiteralStands
  <2>3. Onward(Rules["BOOLEAN"], byte) = R
    BY <2>1, RulesOnward
  <2> HIDE DEF R
  <2>4. \A r \in Rs : r # "BOOLEAN" => Onward(Rules[r], byte) = {}
    BY <2>1, RulesOnward
  <2>5. QED
    BY <1>2, <2>1, <2>2, <2>3, <2>4
<1>15. CASE e = <<{"lbracket"}, "yy25">>
  <2> DEFINE R == End
  <2>1. byte \in {"lbracket"} /\ e[2] = "yy25"
    BY <1>15
  <2>2. Stands("yy25", "ABEGIN", R)
    BY DEF Stands, EndStands, Ends
  <2>3. Onward(Rules["ABEGIN"], byte) = R
    BY <2>1, RulesOnward
  <2> HIDE DEF R
  <2>4. \A r \in Rs : r # "ABEGIN" => Onward(Rules[r], byte) = {}
    BY <2>1, RulesOnward
  <2>5. QED
    BY <1>2, <2>1, <2>2, <2>3, <2>4
<1>16. CASE e = <<{"rbracket"}, "yy27">>
  <2> DEFINE R == End
  <2>1. byte \in {"rbracket"} /\ e[2] = "yy27"
    BY <1>16
  <2>2. Stands("yy27", "AEND", R)
    BY DEF Stands, EndStands, Ends
  <2>3. Onward(Rules["AEND"], byte) = R
    BY <2>1, RulesOnward
  <2> HIDE DEF R
  <2>4. \A r \in Rs : r # "AEND" => Onward(Rules[r], byte) = {}
    BY <2>1, RulesOnward
  <2>5. QED
    BY <1>2, <2>1, <2>2, <2>3, <2>4
<1>17. CASE e = <<{"lbrace"}, "yy29">>
  <2> DEFINE R == End
  <2>1. byte \in {"lbrace"} /\ e[2] = "yy29"
    BY <1>17
  <2>2. Stands("yy29", "OBEGIN", R)
    BY DEF Stands, EndStands, Ends
  <2>3. Onward(Rules["OBEGIN"], byte) = R
    BY <2>1, RulesOnward
  <2> HIDE DEF R
  <2>4. \A r \in Rs : r # "OBEGIN" => Onward(Rules[r], byte) = {}
    BY <2>1, RulesOnward
  <2>5. QED
    BY <1>2, <2>1, <2>2, <2>3, <2>4
<1>18. CASE e = <<{"rbrace"}, "yy31">>
  <2> DEFINE R == End
  <2>1. byte \in {"rbrace"} /\ e[2] = "yy31"
    BY <1>18
  <2>2. Stands("yy31", "OEND", R)
    BY DEF Stands, EndStands, Ends
  <2>3. Onward(Rules["OEND"], byte) = R
    BY <2>1, RulesOnward
  <2> HIDE DEF R
  <2>4. \A r \in Rs : r # "OEND" => Onward(Rules[r], byte) = {}
    BY <2>1, RulesOnward
  <2>5. QED
    BY <1>2, <2>1, <2>2, <2>3, <2>4
<1>19. CASE e = <<{"EF"}, "yy33">>
  <2> DEFINE R == Prefixed(One({"BB"}), BF1)
  <2>1. byte \in {"EF"} /\ e[2] = "yy33"
    BY <1>19
  <2>2. Stands("yy33", "bom", R)
    BY DEF Stands, BomStands
  <2>3. Onward(Rules["bom"], byte) = R
    BY <2>1, RulesOnward
  <2> HIDE DEF R
  <2>4. \A r \in Rs : r # "bom" => Onward(Rules[r], byte) = {}
    BY <2>1, RulesOnward
  <2>5. QED
    BY <1>2, <2>1, <2>2, <2>3, <2>4
<1>20. CASE e = <<Rest(FirstEdges), "yy4">>
  <2>1. byte \in Bytes /\ \A d \in FirstEdges : byte \notin d[1]
    BY <1>20 DEF Rest
  <2>2. /\ byte # "NUL" /\ byte # "tab" /\ byte # "space" /\ byte # "nl" /\ byte # "quote" /\ byte # "comma"
        /\ byte # "minus" /\ byte # "0" /\ byte # "9" /\ byte # "colon" /\ byte # "F" /\ byte # "f"
        /\ byte # "N" /\ byte # "n" /\ byte # "T" /\ byte # "t" /\ byte # "lbracket" /\ byte # "rbracket"
        /\ byte # "lbrace" /\ byte # "rbrace" /\ byte # "EF"
    BY <2>1 DEF FirstEdges
  <2>3. \A r \in Rs : Onward(Rules[r], byte) = {}
    BY <2>2, RulesOnward
  <2>4. After(Open, byte) = ItemsOf("error", {})
    BY <1>1, <2>3, NoRule
  <2>5. Stands("yy4", "error", {}) /\ e[2] = "yy4"
    BY <1>20 DEF Stands, EndStands
  <2>6. QED
    BY <2>4, <2>5
<1>21. QED
  BY <1>3, <1>4, <1>5, <1>6, <1>7, <1>8, <1>9, <1>10, <1>11, <1>12, <1>13, <1>14, <1>15, <1>16, <1>17, <1>18, <1>19, <1>20 DEF StartEdges, FirstEdges

\* Every byte leads somewhere from the start.
LEMMA StartLeads ==
    ASSUME NEW byte \in Bytes
    PROVE  \E e \in StartEdges : byte \in e[1]
<1>1. CASE \E e \in FirstEdges : byte \in e[1]
  BY <1>1 DEF StartEdges
<1>2. CASE \A e \in FirstEdges : byte \notin e[1]
  <2> DEFINE e == <<Rest(FirstEdges), "yy4">>
  <2>1. e \in StartEdges /\ e[1] = Rest(FirstEdges)
    BY DEF StartEdges
  <2>2. byte \in Rest(FirstEdges)
    BY <1>2 DEF Rest
  <2>3. QED
    BY <2>1, <2>2
<1>3. QED
  BY <1>1, <1>2
=============================================================================
