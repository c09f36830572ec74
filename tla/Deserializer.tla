---------------------------- MODULE Deserializer ----------------------------
(***************************************************************************)
(* src/deserialization.c: the mutually recursive functions that pull       *)
(* tokens from the lexer, hand each one to the parser, and act on what the *)
(* parser says it has recognised.  The C call stack is `frames'; one step  *)
(* is what a function does between two calls of the lexer, the parser or   *)
(* another of these functions.                                             *)
(*                                                                         *)
(* The parser is module Parser, step by step.  It is given the addresses   *)
(* of tokens in the callers' stack frames, so a reference is a frame and a *)
(* slot in it, and following it once the frame is gone is an error here.   *)
(***************************************************************************)
EXTENDS Integers, Sequences, SequencesExt

CONSTANTS
    Documents,     \* what may be deserialized: [tokens, tree]
    PastEnd,       \* what the lexer may find behind the last byte of a document, as often as it is asked
    Contexts,      \* context -> field name -> rule
    Root,          \* the context the caller passes
    YYSTACKDEPTH,  \* the parser's
    MallocFails,   \* subset of BOOLEAN: may an allocation fail?
    LongTexts,     \* texts longer than YAJP_BUFFER_SIZE, which need a block of their own
    TextFails,     \* subset of BOOLEAN: may the allocation of that block fail?
    ElemsMember,   \* member with the pointer to an array's elements: "rows" where the two are a union
    ElemSize,      \* size of an array's element
    FieldSize      \* size of the structure that holds an array or an object

ASSUME DeserializerAssumption ==
    /\ YYSTACKDEPTH \in Nat \ {0}
    /\ Root \in DOMAIN Contexts
    /\ MallocFails \subseteq BOOLEAN /\ FALSE \in MallocFails
    /\ TextFails \subseteq BOOLEAN /\ FALSE \in TextFails
    /\ ElemsMember \in {"elems", "rows"}
    /\ ElemSize \in Nat \ {0} /\ FieldSize \in Nat \ {0}
    /\ \A c \in DOMAIN Contexts : \A key \in DOMAIN Contexts[c] : Contexts[c][key].ctx \in DOMAIN Contexts

VARIABLES
    yystack, yyerrcnt, call, prev, entity,   \* the parser
    doc, pos,      \* the document and the position of the lexer
    frames,        \* the C call stack, the innermost function last
    born,          \* frames ever made: the next one's identity
    ret,           \* what the last function returned
    memory,        \* what has been written, address by address
    mallocs,       \* blocks ever allocated
    freed,         \* those given back
    setterCalls,   \* the calls of the user's setters, in order
    phase,         \* of the entry point: "start", "running", "done"
    ub             \* undefined behaviour met, or "none"

parserVars == <<yystack, yyerrcnt, call, prev, entity>>
lexerVars == <<doc, pos>>
heapVars == <<memory, mallocs, freed, setterCalls>>
vars == <<parserVars, lexerVars, frames, born, ret, heapVars, phase, ub>>

TOKENS_CNT == 3
References == [frame : Nat \ {0}, slot : 0..(TOKENS_CNT - 1)]
NoReference == [frame |-> 0, slot |-> 0]

P == INSTANCE Parser WITH Minors <- References, NoMinor <- NoReference
-----------------------------------------------------------------------------
(* Tokens, frames and memory.                                              *)

Tok(t, v) == [token |-> t, value |-> v]

\* memset(tokens, 0, ...), and what yajp_lexer_release_token leaves behind.
ZeroToken == Tok(P!TOK_EOF, "")

Primitives == {P!TOK_NUMBER, P!TOK_STRING, P!TOK_BOOLEAN, P!TOK_NULL}

\* Bytes that are no token: yajp_lexer_get_next_token fails and writes nothing.
LexicalError == Tok(-1, "")

IsLexeme(t) == t = LexicalError \/ (t = Tok(t.token, t.value) /\ t.token \in P!Terminals)

ASSUME LexerAssumption ==
    /\ \A d \in Documents : Len(d.tokens) \in Nat /\ \A k \in 1..Len(d.tokens) : IsLexeme(d.tokens[k])
    /\ \A t \in PastEnd : IsLexeme(t)

\* An address is a path: a structure or a block, and what is in it: a member, a
\* row or an element of an array.
At(name, k) == [name |-> name, at |-> k]
Member(address, name) == Append(address, At(name, 0))
Caller == <<At("struct", 0)>>
Block(n) == <<At("block", n)>>
BlockOf(address) == IF address[1].name = "block" THEN address[1].at ELSE 0

\* What a place holds: a converted value, a pointer, or a number.
Converted(v) == [is |-> v, to |-> 0]
PointerTo(n) == [is |-> "pointer", to |-> n]
NullPointer == [is |-> "pointer", to |-> 0]
Counted(n) == [is |-> "count", to |-> n]
Flag(b) == [is |-> IF b THEN "true" ELSE "false", to |-> 0]

Write(mem, address, v) ==
    [a \in DOMAIN mem \cup {address} |-> IF a = address THEN v ELSE mem[a]]

\* memset(address, 0, size): what was under the address is gone.
Zeroed(mem, address) ==
    [a \in {x \in DOMAIN mem : ~IsPrefix(address, x)} |-> mem[a]]

\* The block that the pointer at an address leads to, or 0.
Held(mem, address) ==
    IF address \in DOMAIN mem THEN IF mem[address].is = "pointer" THEN mem[address].to ELSE 0 ELSE 0

\* Variant: malloc in place of realloc.
GrownAnew(address) == mallocs + 1

\* realloc of what the pointer at an address leads to.  A block that has to be
\* moved keeps its number: that no function has an address in it is part of
\* PointersHold.
Grown(address) == IF Held(memory, address) # 0 THEN Held(memory, address) ELSE mallocs + 1

\* The blocks made once there is block n.
Made(n) == IF n > mallocs THEN n ELSE mallocs

\* (*count)++ where memory was zeroed before the first count.
CountUp(mem, address) ==
    LET a == Member(address, "count")
    IN  Write(mem, a, Counted(IF a \in DOMAIN mem THEN mem[a].to + 1 ELSE 1))

NoRule == [kind |-> "none", field |-> "", allocate |-> FALSE, elems |-> FALSE,
           string |-> FALSE, accepts |-> {}, ctx |-> Root]

\* A stack frame; a function uses the members it has in the code.
Frame(fn, ctx, rule, name, address) ==
    [id |-> born + 1, fn |-> fn, pc |-> "read", ctx |-> ctx, rule |-> rule, name |-> name,
     address |-> address, tmp |-> 0, i |-> 0, tokens |-> [k \in 0..(TOKENS_CNT - 1) |-> ZeroToken],
     picked |-> P!TOK_EOF, recognized |-> [type |-> "NONE", token |-> NoReference],
     brackets |-> 0, shift |-> 0]

f == Last(frames)

Live(ref) == \E k \in 1..Len(frames) : frames[k].id = ref.frame
Deref(ref) == frames[CHOOSE k \in 1..Len(frames) : frames[k].id = ref.frame].tokens[ref.slot]

Set(g) == frames' = [frames EXCEPT ![Len(frames)] = g] /\ UNCHANGED <<born, ret>>

\* Call a function; what the caller does next is decided at `pc'.
Call(g, pc, callee) ==
    /\ frames' = Append([frames EXCEPT ![Len(frames)] = [g EXCEPT !.pc = pc]], callee)
    /\ born' = born + 1
    /\ UNCHANGED ret

\* Every function releases its own tokens before it returns.
Return(result) ==
    /\ frames' = Front(frames)
    /\ ret' = result
    /\ UNCHANGED born

Undefined(what) == ub' = what /\ UNCHANGED <<frames, born, ret>>

In(fns, pcs) ==
    /\ phase = "running" /\ ub = "none" /\ ~call.busy
    /\ frames # <<>> /\ f.fn \in fns /\ f.pc \in pcs
-----------------------------------------------------------------------------
(* One token from the lexer to the parser.                                 *)

NextTokens == IF pos <= Len(doc.tokens) THEN {doc.tokens[pos]} ELSE PastEnd

Slot == CASE f.fn \in {"parse", "array", "objects"} -> f.i % TOKENS_CNT
          [] f.fn = "primitive" -> f.i
          [] OTHER -> 0

\* Variant: the entity is not reset.
FeedUnreset(t) ==
    /\ P!Parse(t.token, [frame |-> f.id, slot |-> Slot], f.recognized)
    /\ Set([f EXCEPT !.tokens[Slot] = t, !.picked = t.token, !.pc = "react"])

\* The token is stored and its address passed on; the entity is a local whose
\* type alone is reset (not even that where nobody looks at it: skip, array_value).
Feed(t) ==
    /\ P!Parse(t.token, [frame |-> f.id, slot |-> Slot],
               [type |-> "NONE", token |-> f.recognized.token])
    /\ Set([f EXCEPT !.tokens[Slot] = t, !.picked = t.token, !.pc = "react"])

Reads(fns) ==
    /\ In(fns, {"read"})
    /\ pos' = IF pos <= Len(doc.tokens) THEN pos + 1 ELSE pos
    /\ UNCHANGED <<doc, heapVars, phase>>

\* What a call of the lexer into a slot that held `old' returns and leaves there.
\* A text without memory has its type set, and the size that was there before.
Lexed(t, old) ==
    IF t = LexicalError THEN {[result |-> -1, token |-> old]}
    ELSE {[result |-> 0, token |-> t]}
         \cup {[result |-> -1, token |-> Tok(t.token, old.value)] : fails \in {x \in TextFails : x /\ t.value \in LongTexts}}

\* yajp_parse and yajp_skip_json_object look at the lexer's result ...
ReadChecked ==
    /\ Reads({"parse", "skip"})
    /\ \E t \in NextTokens : \E lexed \in Lexed(t, f.tokens[Slot]) :
          IF lexed.result # 0 THEN Return(-1) /\ UNCHANGED parserVars ELSE Feed(lexed.token)
    /\ UNCHANGED ub

\* Variant: what the failed lexer left is handed to the parser as it is.
ReadUncheckedRaw ==
    /\ Reads({"primitive", "array", "objects"})
    /\ f.fn = "primitive" => f.i < 2
    /\ \E t \in NextTokens : Feed(t)
    /\ UNCHANGED ub

\* ... the others do not, and pass on what the slot holds.
ReadUnchecked ==
    /\ Reads({"primitive", "array", "objects"})
    /\ f.fn = "primitive" => f.i < 2
    /\ \E t \in NextTokens : \E lexed \in Lexed(t, f.tokens[Slot]) : Feed(lexed.token)
    /\ UNCHANGED ub

\* yajp_parse_primitive_value has an array of two tokens and no modulo.
ReadOverrun ==
    /\ Reads({"primitive"})
    /\ f.i >= 2
    /\ Undefined("overrun")
    /\ UNCHANGED parserVars

\* An array's value has to start with [; the token is an uninitialised local,
\* which is compared and released even if the lexer has failed.
ReadArrayBegin ==
    /\ Reads({"array_value"})
    /\ \E t \in NextTokens :
          CASE t = LexicalError -> Undefined("uninitialised") /\ UNCHANGED parserVars
            [] t.token = P!TOK_ABEGIN -> Feed(t) /\ UNCHANGED ub
            [] OTHER -> Return(-1) /\ UNCHANGED <<parserVars, ub>>

ParserStep ==
    /\ phase = "running" /\ ub = "none"
    /\ P!Step
    /\ UNCHANGED <<lexerVars, frames, born, ret, heapVars, phase, ub>>
-----------------------------------------------------------------------------
(* What the functions do with what was recognised.                         *)

\* Of a loop's counter only its slot counts, and whether it has come round.
Next3(i) == IF i = 2 * TOKENS_CNT - 1 THEN TOKENS_CNT ELSE i + 1

\* Variant: the newest token is released instead of the oldest.
TurnReleasingNewest(g) ==
    LET i == Next3(g.i)
    IN  [g EXCEPT !.i = i, !.pc = "read",
                  !.tokens = IF i >= TOKENS_CNT THEN [@ EXCEPT ![g.i % TOKENS_CNT] = ZeroToken] ELSE @]

\* The end of a turn of the loops that keep their last two tokens: the oldest
\* one is released, to be the next one read into.
Turn(g) ==
    LET i == Next3(g.i)
    IN  [g EXCEPT !.i = i, !.pc = "read",
                  !.tokens = IF i >= TOKENS_CNT THEN [@ EXCEPT ![i % TOKENS_CNT] = ZeroToken] ELSE @]

Reacts(fns, pcs) == In(fns, pcs) /\ UNCHANGED <<parserVars, lexerVars, phase>>

\* Variant: the end of the input is not looked for.
ParseTurnToBracket == IF f.picked = P!TOK_OEND THEN Return(0) ELSE Set(Turn(f))

\* The loop of yajp_parse goes on to the end of the input or of an object.
ParseTurn ==
    IF f.picked \in {P!TOK_EOF, P!TOK_OEND} THEN Return(0) ELSE Set(Turn(f))

\* yajp_deserialize_value: find the rule of the key and call its function.
Deserialize(key) ==
    LET rules == Contexts[f.ctx]
        rule == rules[key]
        Callee(fn) == Frame(fn, rule.ctx, rule, entity.token, Member(f.address, rule.field))
    IN  IF key \notin DOMAIN rules
        THEN Call(f, "called", Frame("skip", f.ctx, NoRule, entity.token, f.address))
        ELSE CASE rule.kind = "primitive" -> Call(f, "called", Callee("primitive"))
               [] rule.kind \in {"array", "objects"} -> Call(f, "called", Callee("array_value"))
               [] rule.kind = "object" -> Call(f, "called", [Callee("object_value") EXCEPT !.pc = "enter"])
               [] OTHER -> Return(-1)

ParseReact ==
    /\ Reacts({"parse"}, {"react"})
    /\ CASE entity.type # "KEY" -> ParseTurn /\ UNCHANGED ub
         [] entity.type = "KEY" /\ ~Live(entity.token) -> Undefined("dangling")
         [] OTHER -> Deserialize(Deref(entity.token).value) /\ UNCHANGED ub
    /\ UNCHANGED heapVars

\* Variant: the result of a member is not looked at.
ParseCalledUnchecked ==
    /\ Reacts({"parse"}, {"called"})
    /\ ParseTurn
    /\ UNCHANGED <<heapVars, ub>>

ParseCalled ==
    /\ Reacts({"parse"}, {"called"})
    /\ IF ret # 0 THEN Return(-1) ELSE ParseTurn
    /\ UNCHANGED <<heapVars, ub>>

\* The user's setter is called with the field's name and the value's text, and
\* takes it or not.
SetterCall(v) ==
    setterCalls' = Append(setterCalls, [name |-> Deref(f.name).value, value |-> v])

\* Variant: the setter's refusal is forgotten.
PrimitiveSetTaken(v) ==
    /\ SetterCall(v)
    /\ memory' = Write(memory, f.address, Converted(v))
    /\ Return(0)
    /\ UNCHANGED <<mallocs, freed>>

\* yajp_parse_primitive_value, once the parser has the pair: the value goes into
\* the field, or into a block that the field points to if the setter takes it.
PrimitiveSet(v) ==
    LET taken == v \in f.rule.accepts
        tmp == mallocs + 1
    IN  \E fails \in MallocFails :
          IF f.rule.allocate /\ fails
          THEN Return(-1) /\ UNCHANGED heapVars
          ELSE /\ SetterCall(v)
               /\ Return(IF taken THEN 0 ELSE -1)
               /\ IF f.rule.allocate
                  THEN /\ mallocs' = tmp
                       /\ freed' = IF taken THEN freed ELSE freed \cup {tmp}
                       /\ memory' = IF taken
                                    THEN Write(Write(memory, Block(tmp), Converted(v)), f.address, PointerTo(tmp))
                                    ELSE Write(memory, f.address, NullPointer)
                  ELSE /\ memory' = IF taken THEN Write(memory, f.address, Converted(v)) ELSE memory
                       /\ UNCHANGED <<mallocs, freed>>

\* Variant: the loop's condition is tested before the parser is called.
PrimitiveReactLate ==
    /\ Reacts({"primitive"}, {"react"})
    /\ IF f.recognized.type # "PAIR"
       THEN Set([f EXCEPT !.i = @ + 1, !.pc = "read", !.recognized = entity]) /\ UNCHANGED heapVars
       ELSE PrimitiveSet(Deref(entity.token).value)
    /\ UNCHANGED ub

PrimitiveReact ==
    /\ Reacts({"primitive"}, {"react"})
    /\ CASE entity.type # "PAIR" ->
              Set([f EXCEPT !.i = @ + 1, !.pc = "read", !.recognized = entity]) /\ UNCHANGED <<heapVars, ub>>
         [] entity.type = "PAIR" /\ Live(entity.token) ->
              PrimitiveSet(Deref(entity.token).value) /\ UNCHANGED ub
         [] OTHER -> Undefined("dangling") /\ UNCHANGED heapVars

\* yajp_skip_json_object: one look at the first token decides how to skip.  The
\* token is released as soon as the parser has returned.
Skipped(g) == Set([g EXCEPT !.i = 1, !.pc = "read", !.tokens[0] = ZeroToken])

Opens == {P!TOK_OBEGIN, P!TOK_ABEGIN}
ClosesOfObjects == {P!TOK_OEND}   \* variant
Closes == {P!TOK_OEND, P!TOK_AEND}

\* Brackets open behind the token just read.
Brackets == CASE f.picked \in Opens -> f.brackets + 1
              [] f.picked \in Closes -> f.brackets - 1
              [] OTHER -> f.brackets

\* Variant: one counting loop for values of every kind.
SkipReactCounting ==
    /\ Reacts({"skip"}, {"react"})
    /\ IF f.i > 0 /\ Brackets = 0 THEN Return(0) ELSE Skipped([f EXCEPT !.brackets = Brackets])
    /\ UNCHANGED <<heapVars, ub>>

SkipReact ==
    /\ Reacts({"skip"}, {"react"})
    /\ CASE f.i = 0 /\ f.picked \in Opens -> Skipped([f EXCEPT !.brackets = 1])
         [] f.i = 0 /\ f.picked \in Primitives -> Skipped(f)
         [] f.i = 0 /\ f.picked \notin Opens \cup Primitives -> Return(-1)
         [] f.i > 0 /\ f.brackets > 0 ->
              IF Brackets = 0 THEN Return(0) ELSE Skipped([f EXCEPT !.brackets = Brackets])
         [] OTHER -> IF f.picked \in {P!TOK_COMMA, P!TOK_OEND} THEN Return(0) ELSE Skipped(f)
    /\ UNCHANGED <<heapVars, ub>>

\* yajp_parse_object_value, yajp_parse_array_value and
\* yajp_parse_array_of_objects_value prepare the memory of the value: a block
\* of its own, or the field itself; either is set to zero, and the function that
\* fills it is called.
Prepare(fn) ==
    \E fails \in MallocFails :
        IF f.rule.allocate
        THEN IF fails THEN Return(-1) /\ UNCHANGED heapVars
             ELSE /\ mallocs' = mallocs + 1
                  /\ Call([f EXCEPT !.tmp = mallocs + 1], "called", Frame(fn, f.ctx, f.rule, f.name, Block(mallocs + 1)))
                  /\ memory' = Zeroed(memory, Block(mallocs + 1))
                  /\ UNCHANGED <<freed, setterCalls>>
        ELSE /\ Call(f, "called", Frame(fn, f.ctx, f.rule, f.name, f.address))
             /\ memory' = Zeroed(memory, f.address)
             /\ UNCHANGED <<mallocs, freed, setterCalls>>

\* The block of a value that was read to its end is hung into the caller's
\* structure; that of another is given back, with all that was in it.
Attach ==
    /\ CASE ~f.rule.allocate -> UNCHANGED <<memory, freed>>
         [] f.rule.allocate /\ ret = 0 ->
              memory' = Write(memory, f.address, PointerTo(f.tmp)) /\ UNCHANGED freed
         [] OTHER -> memory' = Zeroed(memory, Block(f.tmp)) /\ freed' = freed \cup {f.tmp}
    /\ Return(ret)
    /\ UNCHANGED <<mallocs, setterCalls, ub>>

\* Variant: the block is hung into the structure before it is filled.
ObjectEnterAttached ==
    /\ Reacts({"object_value"}, {"enter"})
    /\ IF f.rule.allocate
       THEN /\ Call([f EXCEPT !.tmp = mallocs + 1], "called",
                    Frame("parse", f.ctx, f.rule, f.name, Block(mallocs + 1)))
            /\ mallocs' = mallocs + 1
            /\ memory' = Write(memory, f.address, PointerTo(mallocs + 1))
            /\ UNCHANGED <<freed, setterCalls>>
       ELSE Prepare("parse")
    /\ UNCHANGED ub

ObjectEnter ==
    /\ Reacts({"object_value"}, {"enter"})
    /\ Prepare("parse")
    /\ UNCHANGED ub

ObjectCalled == Reacts({"object_value"}, {"called"}) /\ Attach

ArrayEnter ==
    /\ Reacts({"array_value"}, {"react"})
    /\ Prepare(IF f.rule.kind = "objects" THEN "objects" ELSE "array")
    /\ UNCHANGED ub

ArrayCalled == Reacts({"array_value"}, {"called"}) /\ Attach
-----------------------------------------------------------------------------
(* yajp_parse_array_value_internal and                                     *)
(* yajp_parse_array_of_objects_value_internal: one level of an array.      *)

\* Memory as the function finds it, `*final_dim = true' at its head included.
Level == IF f.i = 0 /\ f.pc = "react" THEN Write(memory, Member(f.address, "final_dim"), Flag(TRUE)) ELSE memory

RowsPointer == Member(f.address, "rows")
ElemsPointer == Member(f.address, ElemsMember)

\* Elements are in the structure itself, or in a block that grows with each of
\* them.  The pointer to it is stored before the element is there, and stays if
\* the element fails.
ElemBlock == IF f.rule.elems THEN Grown(ElemsPointer) ELSE 0
ElemPlace == Append(IF f.rule.elems THEN Block(ElemBlock) ELSE f.address, At("elem", f.shift))
WithElem == IF f.rule.elems THEN Write(Level, ElemsPointer, PointerTo(ElemBlock)) ELSE Level

LevelTurn(g) ==
    IF g.recognized.type = "PAIR" \/ g.picked = P!TOK_AEND THEN Return(0) ELSE Set(Turn(g))

\* A row: [ within the array.  The pointer to the rows is stored before the row
\* is read, and stays if it cannot be.
RowEnter ==
    /\ Reacts({"array", "objects"}, {"react"})
    /\ f.picked = P!TOK_ABEGIN
    /\ \E fails \in MallocFails :
          LET flagged == Write(memory, Member(f.address, "final_dim"), Flag(FALSE))
              row == Append(Block(Grown(RowsPointer)), At("row", f.shift))
          IN  IF fails THEN Return(-1) /\ memory' = flagged /\ UNCHANGED mallocs
              ELSE /\ Call([f EXCEPT !.recognized = entity], "row",
                           Frame(f.fn, f.ctx, f.rule, f.name, row))
                   /\ memory' = Write(Zeroed(flagged, row), RowsPointer, PointerTo(Grown(RowsPointer)))
                   /\ mallocs' = Made(Grown(RowsPointer))
    /\ UNCHANGED <<freed, setterCalls, ub>>

\* Variant: every row goes to the same place.
RowCalledInPlace ==
    /\ Reacts({"array", "objects"}, {"row"})
    /\ IF ret # 0 THEN Return(ret) /\ UNCHANGED memory
       ELSE /\ Set([f EXCEPT !.pc = "element"])
            /\ memory' = CountUp(memory, f.address)
    /\ UNCHANGED <<mallocs, freed, setterCalls, ub>>

RowCalled ==
    /\ Reacts({"array", "objects"}, {"row"})
    /\ IF ret # 0 THEN Return(ret) /\ UNCHANGED memory
       ELSE /\ Set([f EXCEPT !.shift = @ + FieldSize, !.pc = "element"])
            /\ memory' = CountUp(memory, f.address)
    /\ UNCHANGED <<mallocs, freed, setterCalls, ub>>

\* Variant: one entity serves all levels of an array.
ElementShared == [f EXCEPT !.recognized = entity]

\* After the row, or without one, the value the parser has reported, if any.
\* What was reported is the function's own: a row's report does not change it.
Element == IF f.pc = "react" THEN [f EXCEPT !.recognized = entity] ELSE f

ElementPhase(fns) ==
    /\ Reacts(fns, {"react", "element"})
    /\ f.pc = "react" => f.picked # P!TOK_ABEGIN

NoElement ==
    /\ ElementPhase({"array", "objects"})
    /\ Element.recognized.type # "VALUE"
    /\ ~(f.fn = "objects" /\ f.picked = P!TOK_OBEGIN)
    /\ LevelTurn(Element)
    /\ memory' = Level
    /\ UNCHANGED <<mallocs, freed, setterCalls, ub>>

\* Room for the element is made with realloc, room for a string with malloc: the
\* element is then a pointer to it, stored before the setter is called.
ElementSet(v) ==
    LET str == Made(ElemBlock) + 1
        stored == IF f.rule.string THEN Write(WithElem, ElemPlace, PointerTo(str)) ELSE WithElem
        target == IF f.rule.string THEN Block(str) ELSE ElemPlace
    IN  \E elemsFail \in (IF f.rule.elems THEN MallocFails ELSE {FALSE}),
           stringFails \in (IF f.rule.string THEN MallocFails ELSE {FALSE}) :
          CASE elemsFail -> Return(-1) /\ memory' = Level /\ UNCHANGED <<mallocs, setterCalls>>
            [] ~elemsFail /\ stringFails ->
                 /\ Return(-1)
                 /\ memory' = WithElem
                 /\ mallocs' = Made(ElemBlock)
                 /\ UNCHANGED setterCalls
            [] OTHER ->
                 /\ SetterCall(v)
                 /\ mallocs' = IF f.rule.string THEN str ELSE Made(ElemBlock)
                 /\ IF v \in f.rule.accepts
                    THEN /\ memory' = CountUp(Write(stored, target, Converted(v)), f.address)
                         /\ LevelTurn([Element EXCEPT !.shift = @ + ElemSize])
                    ELSE memory' = stored /\ Return(-1)

ElementReact ==
    /\ ElementPhase({"array"})
    /\ Element.recognized.type = "VALUE"
    /\ LET ref == Element.recognized.token
       IN  IF Live(ref) THEN ElementSet(Deref(ref).value) /\ UNCHANGED <<freed, ub>>
           ELSE Undefined("dangling") /\ UNCHANGED heapVars

\* An element of an array of objects: yajp_parse, on memory nobody has cleared.
ObjectElement ==
    /\ ElementPhase({"objects"})
    /\ Element.recognized.type = "VALUE" \/ f.picked = P!TOK_OBEGIN
    /\ \E fails \in (IF f.rule.elems THEN MallocFails ELSE {FALSE}) :
          IF fails THEN Return(-1) /\ memory' = Level /\ UNCHANGED mallocs
          ELSE /\ Call(Element, "object", Frame("parse", f.ctx, f.rule, f.name, ElemPlace))
               /\ memory' = WithElem
               /\ mallocs' = Made(ElemBlock)
    /\ UNCHANGED <<freed, setterCalls, ub>>

ObjectElementCalled ==
    /\ Reacts({"objects"}, {"object"})
    /\ IF ret # 0 THEN Return(ret) /\ UNCHANGED memory
       ELSE /\ memory' = CountUp(memory, f.address)
            /\ LevelTurn([f EXCEPT !.shift = @ + ElemSize])
    /\ UNCHANGED <<mallocs, freed, setterCalls, ub>>
-----------------------------------------------------------------------------
(* The entry points.                                                       *)

Init ==
    /\ P!Init
    /\ doc \in Documents
    /\ pos = 1
    /\ frames = <<>>
    /\ born = 0
    /\ ret = 0
    /\ memory = [a \in {} |-> NullPointer]
    /\ mallocs = 0
    /\ freed = {}
    /\ setterCalls = <<>>
    /\ phase = "start"
    /\ ub = "none"

\* yajp_deserialize_json_stream: the stream, the lexer's buffer and the parser
\* are made first, and undone one by one if the next cannot be made.
Start ==
    /\ phase = "start"
    /\ \E fails \in MallocFails :
          IF fails THEN phase' = "done" /\ ret' = -1 /\ UNCHANGED <<frames, born>>
          ELSE /\ phase' = "running"
               /\ frames' = <<Frame("parse", Root, NoRule, NoReference, Caller)>>
               /\ born' = 1
               /\ UNCHANGED ret
    /\ UNCHANGED <<parserVars, lexerVars, heapVars, ub>>

\* The parser and the lexer's buffer are released, the result is handed on.
Finish ==
    /\ phase = "running" /\ frames = <<>>
    /\ phase' = "done"
    /\ UNCHANGED <<parserVars, lexerVars, frames, born, ret, heapVars, ub>>

Program ==
    \/ Start \/ Finish
    \/ ReadChecked \/ ReadUnchecked \/ ReadOverrun \/ ReadArrayBegin
    \/ ParserStep
    \/ ParseReact \/ ParseCalled \/ PrimitiveReact \/ SkipReact
    \/ ObjectEnter \/ ObjectCalled \/ ArrayEnter \/ ArrayCalled
    \/ RowEnter \/ RowCalled \/ NoElement \/ ElementReact
    \/ ObjectElement \/ ObjectElementCalled

\* The program has returned, or is no longer a program.
Stopped == (phase = "done" \/ ub # "none") /\ UNCHANGED vars

Next == Program \/ Stopped

\* One thread runs to its end: nothing it waits for can fail to come.
Spec == Init /\ [][Next]_vars /\ WF_vars(Program)
-----------------------------------------------------------------------------
(* Properties *)

Functions == {"parse", "skip", "primitive", "object_value", "array_value", "array", "objects"}

\* Counters, results and the C stack stay within what the code can hold.
TypeOK ==
    /\ pos \in 1..(Len(doc.tokens) + 1)
    /\ \A k \in 1..Len(frames) :
          /\ frames[k].fn \in Functions /\ frames[k].id \in 1..born
          /\ frames[k].ctx \in DOMAIN Contexts
          /\ frames[k].i \in Nat /\ frames[k].brackets \in Nat /\ frames[k].shift \in Nat
    /\ ret \in {0, -1}
    /\ mallocs \in Nat /\ freed \subseteq 1..mallocs
    /\ phase \in {"start", "running", "done"}
    /\ ub \in {"none", "overrun", "dangling", "uninitialised"}

\* Every function that reads has a clean slot to read into: a token that was
\* given memory of its own is never overwritten before it is released
\* (src/deserialization.c:207-211, 342, 362, 377, 519-521, 679-681).
SlotsReleased ==
    In({"parse", "skip", "array_value", "array", "objects"}, {"read"}) => f.tokens[Slot] = ZeroToken

\* Pointers into blocks stored in memory.
Pointers == {a \in DOMAIN memory : memory[a].is = "pointer" /\ memory[a].to # 0}

\* Whatever fails on the way, what is left in the caller's structure leads to
\* memory that is still there, complete or not: no pointer leads to a block that
\* was given back, and no two pointers to one block.  No function works in a block that was given back, nor,
\* where an array enlarges its rows or elements, in the block that may be moved
\* by that (src/deserialization.c:285-306, 409-414, 457-468, 481-503, 546-551,
\* 582-587, 631-642, 655-664).
PointersHold ==
    /\ \A a \in Pointers : memory[a].to \notin freed
    /\ \A a, b \in Pointers : memory[a].to = memory[b].to => a = b
    /\ \A k \in 1..Len(frames) : BlockOf(frames[k].address) \notin freed
    /\ In({"array", "objects"}, {"react", "element"}) =>
          \A p \in {RowsPointer, ElemsPointer} \cap Pointers : \A k \in 1..Len(frames) :
              BlockOf(frames[k].address) # memory[p].to

\* After success every block that was allocated and not given back is in the
\* caller's structure: a pointer leads to it, so that the caller can release it
\* (src/deserialization.c:287-306, 414, 457-467, 481-502, 551, 587, 631-663).
NoneLost ==
    phase = "done" /\ ret = 0 =>
        \A n \in (1..mallocs) \ freed : \E a \in Pointers : memory[a].to = n

\* Whatever the document, what a setter is given is in reach: the value it
\* converts and the name it is told are in tokens of functions that have not
\* returned yet, however deep an array or an object is.  yajp_parse alone may follow a
\* key whose function has returned (src/deserialization.c:178, 285-309, 498-521).
ValuesInReach ==
    /\ ub = "dangling" => f.fn = "parse"
    /\ \A k \in 2..Len(frames) : Live(frames[k].name)

\* A failure is final: the functions return one after the other, and nothing
\* else is done: neither the lexer nor a setter is called any more.
FailureIsFinal ==
    [][ret = -1 => /\ frames' = IF frames = <<>> THEN <<>> ELSE Front(frames)
                   /\ pos' = pos /\ setterCalls' = setterCalls]_vars

\* The lexer's tokens, the parser's stack and the C stack agree: when a function
\* asks for a token the parser has open exactly the arrays and objects that
\* functions are at work on.  Only the outermost object may be closed already,
\* by the function that handled its last member.
OpenInParser ==
    Len(SelectSeq(yystack, LAMBDA e : e.major \in {P!TOK_OBEGIN, P!TOK_ABEGIN, 18}))
    - (IF P!Top.major \in {P!TOK_OEND, P!TOK_AEND, 19} THEN 1 ELSE 0)

\* Has the function's own array or object been opened?
Opened(k) ==
    \/ frames[k].fn \in {"array", "objects"}
    \/ frames[k].fn = "parse" /\ (frames[k].i > 0 \/ (k > 1 /\ frames[k - 1].fn = "objects"))

OpenInFrames ==
    Len(SelectSeq([k \in 1..Len(frames) |-> Opened(k)], LAMBDA b : b))
    + (IF f.fn = "skip" THEN f.brackets ELSE 0)

InStep ==
    In(Functions, {"read"}) =>
        \/ OpenInParser = OpenInFrames
        \/ Len(frames) = 1 /\ OpenInParser = 0

\* The code never does what C leaves undefined: no token array overrun, no token
\* of a function that has returned, no uninitialised token.
Defined == ub = "none"

\* The program ends, in whatever way.
Ends == <>(phase = "done" \/ ub # "none")

\* On an unfinished document the program ends as well, if only zero bytes come
\* behind it, unless it comes to stay in a loop that waits for a bracket or a
\* comma: skipping a value or reading an array (src/deserialization.c:213, 324, 360, 377, 522-524).
EndsOrWaits ==
    \/ Ends
    \/ []<>(In(Functions, {"react"}) /\ f.picked # P!TOK_EOF)
    \/ <>[](frames # <<>> /\ f.fn \in {"skip", "array", "objects"})

\* The parser is used as module Parser says, so what is proved there holds here:
\* this is P!Spec, with the parameters of P!Next read off the step itself.
UsesParser ==
    P!Init /\ [][\/ P!Step
                 \/ /\ call'.major \in P!Terminals /\ call'.minor \in References
                    /\ entity' \in P!Entities
                    /\ P!Parse(call'.major, call'.minor, entity')]_parserVars

\* The promise made to the caller (module FieldAssignment).
Promise == INSTANCE FieldAssignment WITH
    MemoryFails <- MallocFails,
    plan <- doc.plan,
    calls <- setterCalls,
    status <- IF phase # "done" THEN "running" ELSE IF ret = 0 THEN "ok" ELSE "failed"

KeepsPromise == Promise!Spec
=============================================================================
