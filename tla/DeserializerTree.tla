-------------------------- MODULE DeserializerTree --------------------------
(***************************************************************************)
(* What the caller's structure has to hold when a document has been        *)
(* deserialized: the tree of the document, read through the rules.         *)
(***************************************************************************)
EXTENDS Deserializer, JsonTree

\* A document as the lexer will deliver it, with what it asks for.
Document(tree, end) ==
    [tokens |-> Tokens(tree) \o end, tree |-> tree, plan |-> Plan(Contexts, Root, tree)]

\* The terminating zero of a C string, when its size is counted in.
Nul == <<Mark(P!TOK_EOF)>>

Holds(address, v) == address \in DOMAIN memory /\ memory[address] = v

\* Where the content of a place is: there, or in a block that is pointed to from there.
Behind(address) == Block(Held(memory, address))
Content(pointed, address) == IF pointed THEN Behind(address) ELSE address

RECURSIVE ObjectHeld(_, _, _), LevelHeld(_, _, _)
ObjectHeld(ctx, address, tree) ==
    \A i \in 1..Len(tree.items) :
        LET name == tree.items[i].name
            value == tree.items[i].is
            rule == Contexts[ctx][name]
            field == Member(address, rule.field)
        IN  name \in DOMAIN Contexts[ctx] =>
                CASE rule.kind = "primitive" -> Holds(Content(rule.allocate, field), Converted(value.value))
                  [] rule.kind = "object" -> ObjectHeld(rule.ctx, Content(rule.allocate, field), value)
                  [] OTHER -> LevelHeld(rule, Content(rule.allocate, field), value)

\* A level holds rows or elements, counts them, and says which.
LevelHeld(rule, address, tree) ==
    LET n == Len(tree.items)
        ofRows == n > 0 /\ tree.items[1].kind = "array"
        row(i) == Append(Behind(Member(address, "rows")), At("row", (i - 1) * FieldSize))
        elems == IF rule.elems THEN Behind(Member(address, ElemsMember)) ELSE address
        elem(i) == Append(elems, At("elem", (i - 1) * ElemSize))
    IN  /\ Holds(Member(address, "final_dim"), Flag(~ofRows))
        /\ IF n = 0 THEN Member(address, "count") \notin DOMAIN memory
                    ELSE Holds(Member(address, "count"), Counted(n))
        /\ \A i \in 1..n :
              LET item == tree.items[i]
              IN  IF ofRows THEN LevelHeld(rule, row(i), item)
                  ELSE IF rule.kind = "objects" THEN ObjectHeld(rule.ctx, elem(i), item)
                  ELSE Holds(Content(rule.string, elem(i)), Converted(item.value))

\* Success means that the whole document is where the rules want it: every
\* field set, every array counted, whatever lies between them.
FieldsRepresented ==
    phase = "done" /\ ret = 0 => ObjectHeld(Root, Caller, doc.tree)
=============================================================================
