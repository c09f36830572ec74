------------------------------ MODULE JsonTree ------------------------------
(***************************************************************************)
(* JSON documents as trees, and what the deserialization rules ask for     *)
(* them: the reference that src/deserialization.c is measured against.     *)
(* The rules are those of README.md:61-66 and of                           *)
(* include/yajp/deserialization.h; nothing here follows the tokens.        *)
(***************************************************************************)
EXTENDS Integers, Sequences, SequencesExt

\* A value is a primitive, a sequence of values, or a sequence of members.
Primitive(t, v) == [kind |-> "primitive", token |-> t, value |-> v, items |-> <<>>]
Number(v) == Primitive(9, v)
String(v) == Primitive(4, v)
Null == Primitive(10, "")
Array(items) == [kind |-> "array", token |-> 6, value |-> "", items |-> items]
Object(members) == [kind |-> "object", token |-> 1, value |-> "", items |-> members]
Pair(name, value) == [name |-> name, is |-> value]

Mark(t) == [token |-> t, value |-> ""]

\* Sequences glued together, with a comma between any two.
Joined(parts) ==
    FlattenSeq([i \in 1..Len(parts) |-> IF i = 1 THEN parts[i] ELSE <<Mark(3)>> \o parts[i]])

\* The tokens of a value.
RECURSIVE Tokens(_)
Tokens(tree) ==
    CASE tree.kind = "primitive" -> <<[token |-> tree.token, value |-> tree.value]>>
      [] tree.kind = "array" ->
            <<Mark(6)>> \o Joined([i \in 1..Len(tree.items) |-> Tokens(tree.items[i])]) \o <<Mark(7)>>
      [] tree.kind = "object" ->
            <<Mark(1)>>
            \o Joined([i \in 1..Len(tree.items) |->
                          <<[token |-> 4, value |-> tree.items[i].name], Mark(5)>>
                          \o Tokens(tree.items[i].is)])
            \o <<Mark(2)>>

\* What is to be done for a value, in the order of the document: the setter's
\* calls, each with its verdict, or the refusal of a value of the wrong kind.
Setting(name, v, rule) == [call |-> [name |-> name, value |-> v], fits |-> TRUE, taken |-> v \in rule.accepts]
Refusal(name) == [call |-> [name |-> name, value |-> ""], fits |-> FALSE, taken |-> FALSE]

RECURSIVE ItemPlan(_, _, _, _), ObjectPlan(_, _, _)
ItemPlan(contexts, name, rule, tree) ==
    CASE tree.kind = "array" ->
            FlattenSeq([i \in 1..Len(tree.items) |-> ItemPlan(contexts, name, rule, tree.items[i])])
      [] tree.kind = "object" -> ObjectPlan(contexts, rule.ctx, tree)
      [] OTHER -> <<Setting(name, tree.value, rule)>>

ObjectPlan(contexts, ctx, tree) ==
    LET Member(m) ==
            IF m.name \notin DOMAIN contexts[ctx] THEN <<>>
            ELSE LET rule == contexts[ctx][m.name]
                 IN  IF \/ rule.kind = "other"
                        \/ rule.kind \in {"array", "objects"} /\ m.is.kind # "array"
                     THEN <<Refusal(m.name)>>
                     ELSE ItemPlan(contexts, m.name, rule, m.is)
    IN  FlattenSeq([i \in 1..Len(tree.items) |-> Member(tree.items[i])])

\* The plan up to the first refusal, after which nothing more is done.
Plan(contexts, ctx, tree) ==
    LET all == ObjectPlan(contexts, ctx, tree)
        refused == {i \in 1..Len(all) : ~all[i].taken}
    IN  IF refused = {} THEN all
        ELSE SubSeq(all, 1, CHOOSE i \in refused : \A j \in refused : i <= j)
=============================================================================
