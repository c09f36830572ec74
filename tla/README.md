# yajp: a verification project

`yajp` ("yet another JSON parser") reads a JSON document from a string or a `FILE` and writes it straight into a C
structure, following *rules* that the program registers for the names of members. This directory holds TLA+ modules of all
its parts (lexer, parser, deserializer, rule table, setters), TLC runs that check them on small instances, and TLAPS proofs
about each of them for every instance: every document, buffer, stack depth, list of rules and width of a type.

Paths below are those of the repository; `PROJECT.json` gives, for every definition, the lines it models.

## 1. The system

A call of `yajp_deserialize_json_stream` (or `_string`, which opens a memory stream) runs to its end in the caller's thread.
There are no threads, timers, messages or persistent state. What is hard is *layering*: three machines, each with its own
notion of where in the document it is, advance at different speeds.

| component | state | operations | called by |
|---|---|---|---|
| lexer input buffer (`src/lexer_misc.c`, `lexer.h`) | `yajp_lexer_input_t`: buffer, its size, `limit`, `cursor`, `marker`, `token`; the `FILE` | `init_input`, `fill_input`, `extend_buffer`, `read_buffer`, `release_input` | scanner, entry points |
| lexer scanner (`src/lexer.c`, generated by re2c from `extern/lexer.c.re2c`) | its place in the automaton | `yajp_lexer_get_next_token` | deserializer |
| tokens (`lexer_misc.c`) | `yajp_lexer_token_t`: type, text in itself or in a block of its own | `pick_token`, `release_token` | scanner; deserializer |
| LALR parser (`src/parser.c`, generated by lemon from `extern/parser.y`) | a stack of 100 entries (state, symbol, token *address*), an error count | `parser_init`, `parser_parse` (one token per call; reports a key, a value or a pair through `entity`) | deserializer |
| deserializer (`src/deserialization.c`) | the C call stack: nine mutually recursive functions, each with its own two or three tokens, counter, shift, bracket count | `yajp_parse`, `yajp_deserialize_value`, one function per kind of value, `yajp_skip_json_object` | entry points |
| the caller's structure and the heap | fields, blocks, counts, flags | written by setters and by the array functions | deserializer |
| rule table (`src/deserialization_misc.c`, vendored `khash.h`) | a hash table from names' hashes to rules | `context_init`, `rule_init`, `yajp_find_action` | deserializer |
| setters (`src/deserialization_routine.c`) | the C library's `errno` | one conversion per C type | deserializer, through the rule |

**How they interact.** A deserializer function asks the lexer for a token into one of its own slots, gives the parser the
token's type and the slot's *address*, and looks at what the parser reports: the address of a token passed one call *earlier*.
It then calls another of these functions, which goes on with the same lexer and parser and its own slots. Nobody holds the
whole: the parser's stack points into C stack frames; the functions end their loops on tokens that they have read themselves;
and the buffer is shifted, extended and refilled while a lexeme is half scanned and may still be backed out of.

**What makes it correct.**

* Buffer and scanner: every byte is scanned once, in order; the lexeme under way stays in one piece; only a long lexeme makes
  the buffer grow; the end is reached.
* Parser: the stack spells a prefix of the grammar whatever was fed to it; every token the grammar allows is taken, every
  other one is refused without effect; a report is never lost and never older than one call; every call returns.
* Deserializer: on success the structure is the document seen through the rules; setters are called once per value in
  document order; after a failure nothing more is read or set; no token is followed after its function has returned; no slot
  is overwritten unreleased; whatever fails, no pointer is left to a block that was given back, and after success every block can
  be reached and released; lexer, parser and C stack stay in step.
* Scanner: the longest token of the rules of `lexer.c.re2c`, or an error; nothing is looked at that was not asked for.
* Rule table: a name finds its own rule or none, also after the table has grown. Setters: a value is stored exactly or
  refused, whatever was converted before it; it is known which values need more memory than they are given.

`PROJECT.json` lists the hazards behind these, each at its line, with the properties that would catch it.

## 2. The modules

```
FieldAssignment <---refines--- Deserializer <--- DeserializerTree <--- MCDeserializer <--- MCMalformed
(abstract promise)               |  (INSTANCE)     (with JsonTree)                     <--- MCFindings
                                 v
JsonGrammar  <---refines---   Parser  <--- ParserGrammar <--- MCParser
(abstract grammar)

TokenRules <--- Scanner <--- MCScanner            RuleMap <---refines--- RuleTable <---+
(language)   (graph against language)             (abstract map)       (over HashTable) |--- Members <--- MCMembers
    |                                                                       Setters <---+
ScannerGraph <--- LexerInput <--- MCLexerInput
```

The proofs about a module are in a module of their own that extends it: `ParserProofs`, `ParserGrammarProofs` (which extends that),
`DeserializerProofs` (which instantiates `ParserProofs`), `LexerInputProofs` and `ScannerProofs` (which share `TokenRulesProofs`), `RuleTableProofs`, and
`MembersProofs`, which extends `RuleTableProofs`.

**`Parser`** is the LALR(1) engine with lemon's tables as they stand in `parser.c`. One step is one turn of the loop of
`yajp_parser_parse`: `Reduce`, or one of the four ways a call ends (`Shift`, `Overflow`, `Accept`, `SyntaxError`). `Parse`
is the beginning of a call. Token texts do not occur: a token is its code and a reference that the engine gives back unread.
`YYSTACKDEPTH` and the references `Minors` are constants. Tracing and `yyhwm` are left out; the error count is kept by its
sign, the only thing ever tested.

**`JsonGrammar`** says without tables what a parser of `extern/parser.y` fed token by token must do: `nest` is the phase of
the document and of every open container. `Take` follows an allowed token, `Refuse` throws another away, `Drop` gives up a
document that is nested too deeply. **`ParserGrammar`** maps the engine's stack to the nest (`OpenNest`) and states
`ImplementsGrammar`, the abstract specification as a property of the engine.

**`Deserializer`** models all of `deserialization.c`. `frames` is the C call stack. One action is what a function does
between two calls: `Read...` takes a token from the lexer and starts a call of the parser, `ParserStep` is a step of module
`Parser` (instantiated, not imitated), `...React` is what the function does with what was recognised, `...Called` what it does
when a function it called has returned. A reference is a frame's identity and a slot; following one whose frame is gone is
undefined behaviour, recorded in `ub`, and so are the other things C leaves undefined: writing past the two tokens of
`yajp_parse_primitive_value`, and reading an uninitialised token after a lexical error. Such a state stops: what the C
program does next cannot be said. Setters are the caller's: a rule says which texts its setter takes. `malloc` and `realloc` fail whenever `MallocFails` allows.

Memory is a function from addresses to what was written there. An address is the caller's structure or a block, by its number, and a
path within it: a member, a row, an element. What is written is a converted value, a count, a flag or a *pointer* to a block; what is `memset`
is forgotten. Pointers are stored when the code stores them: that of an allocated primitive, object or array behind the call that has
filled the block (`PrimitiveSet`, `Attach`), those of rows, elements and strings *before* the row is read, the element filled or
the setter called (`RowEnter`, `WithElem`, `ElementSet`), where they stay if that fails. `freed` are the blocks given back.
`ElemsMember` says whether the pointers to rows and to elements are two members or, in a union, one. A block that
`realloc` enlarges keeps its number (`Grown`), moved or not: the difference is seen only through an address kept from before,
and `PointersHold` says that no function and no other pointer has one.

**`FieldAssignment`** is the promise to the caller in four actions, over the *plan* of a document: the setters' calls it asks
for, with the verdict of each. **`JsonTree`** derives plan and tokens from a tree, independently of the functions under test;
**`DeserializerTree`** says what memory must hold for that tree (`FieldsRepresented`).

When the lexer cannot allocate the text of a token longer than `YAJP_BUFFER_SIZE` it returns -1 and leaves a token of that
type with no text (`Lexed`); three functions do not look at the result.

**`ScannerGraph`** is re2c's graph of labels as a relation: which byte leads from which label to which, where a label sets the
mark, how many bytes it asks for, what it returns. **`LexerInput`** has the buffer byte by byte under that graph, a byte being
its number in the stream, and the pointers as offsets; the scanner takes *any* way through the graph that the zero byte permits,
so the run covers every document of that length and more.

**`Scanner`** is the same graph over real bytes (39 classes that no label tells apart), one step per byte, next to
**`TokenRules`**, the rules of `extern/lexer.c.re2c` as a language: a rule is a set of chains of parts, and what may still come
of each chain is carried along (its derivative). The generated automaton is thus compared with its source, not with itself.

**`HashTable`** has the operations of the vendored `khash.h` as this code uses them: prime numbers of buckets, probing with a
second step width, and a growth that moves keys within the arrays they are in. **`RuleTable`** is `deserialization_misc.c` on
top of it: one step puts one rule, or moves one key of a growing table. **`RuleMap`** is the map it is to its users.

**`Setters`** has the nine provided setters as operators from a text and `errno` to result, stored value and `errno`; of
`strtol` and its kin it keeps the value, the range error and the place where they stop. **`Members`** composes rule table and
setters: each member of a document goes from its name (`FindRule`) over its text (`ReadValue`, with the lexer's `errno = 0`) to
the setter of the rule found (`SetValue`), with the sizes that the macros passed, `rule_init` kept and the deserializer adds up.

Operators marked *variant* beside a definition are plausible slips in the code they stand beside (a missing reset, a wrong
count, a test too late). Each property of a passing run is violated when one of them replaces the definition (`mutants`).

## 3. The runs

### Passing

| run | instance | what it shows |
|---|---|---|
| `MCParser` | stack of 9, one reference, every sequence of the 11 tokens, legal or not (110 thousand states) | `StackIsPath`, `HandleOnTop`, `AssertionsHold`: the path invariant and the engine's assertions; `ImplementsGrammar`: refinement of the grammar; `CallReturns`: no endless reduction |
| `MCParserRefs` | stack of 6, two references (406 thousand states) | `EntityIsPreviousToken`, `NoReportLost`: reports are of the previous token and none is lost; `IInv`: the invariant of the proofs |
| `MCDeserializer` | 22 sample members in documents of up to three, every allocation may fail, rows and elements in a union (213 thousand states) | `FieldsRepresented`, `KeepsPromise`, `FailureIsFinal`, `Ends`; `Defined`: no undefined behaviour; `SlotsReleased`; `PointersHold`, `NoneLost`: what is left in the caller's structure was not given back, and after success it leads to every block that was not; `InStep`: lexer, parser and C stack agree; `UsesParser`: the parser is used as its module says, so what is proved there holds here |
| `MCMalformed` | seven sound documents with one token lost, doubled, unreadable, or replaced by `}`, `[`, a zero byte or a string, texts that find no memory, and any leftovers behind the end, for ever; rows and elements in separate members (64 thousand states) | protocol, slots, pointers and finality of failure survive bad input; `EndsOrWaits`: only three functions can read zero bytes for ever; `ValuesInReach`: setters are given only tokens whose function has not returned |
| `MCLexerInput` | buffer of 10, stream of 22 (206 thousand states) | `AtNextByte`, `LexemeIntact`, `GrowsForOneLexeme`, `ReachesEnd` |
| `MCScanner` | every lexeme of up to 16 bytes and the byte behind it, any byte in any place (522 states: a lexeme is known by its label, its length and what may still come) | `LongestMatch`: the scanner returns what the rules say, and leaves the cursor behind it; `LooksAtWhatItAskedFor`: no byte is looked at that was not asked for |
| `MCMembers` | 66 lists of no to ten rules from a pool of eleven names, three of nine rules with a name given twice; every setter; values at, below and beyond every limit (94 thousand states) | `ImplementsRuleMap`: the refinement, and that a context is made in the end; `NothingLost`: the same at every step of a growth; `StoredExactly`; `OverflowsNamed`: a setter writes beyond its memory in two cases alone |

### What the bounds are and why they are enough

* *Stack of 9 / 6* (`YYSTACKDEPTH`, 100 in the code). An open object takes at most 4 entries and an open array
  2; 9 holds an object within an object, so every container is met within every other, and full stacks at every kind of entry. For
  other depths the safety part is proved (section 5).
* *References.* The engine never compares or follows them; two are enough to tell "the previous one" from another, and the
  theorems are for any set.
* *Stack of 30 in `MCDeserializer`/`MCMalformed`.* None of their documents needs more, so that `Overflow` is not in play
  there; `MCDeep` shows what happens when it is. `MCParser` fires `Overflow`.
* *Documents.* Every kind of rule (primitive, nullable primitive, string, object, allocated object, arrays with and without
  allocated elements, arrays of objects, rows in arrays, a rule whose type is none of these, no rule) with every way to leave
  to the next member, in pairs, and in triples behind each of five kinds of first member. A function keeps nothing from the
  member before the last but the slot index, which goes round after three.
* *Rows and elements mixed in one array* are left out: both share one pointer and `final_dim` says one thing for the array,
  so that what the caller may read of it is not defined by the code or its documentation.
* *No array in the place of a primitive*: see "Further disagreements".
* *Names given twice in one object* are left out of the documents of `MCDeserializer`: the second value's block takes the place of the first's,
  which is lost, as `NoneLost` would show.
* *Declarations in `MCMembers`*: a plain field for most types, an `int` that may be null, arrays, an allocated string, and a string
  in a field of four bytes; one text fits that field, or the block for the `int`, and one just does not.
* *Objects with rules of their own end with an array or are empty* in `MCDeserializer`; `MCNested` shows the other case.
* *Behind the end of a document* nothing is bounded: the lexer answers as often as it is asked, in `MCMalformed` with any of
  four answers each time. A loop's counter goes from 5 back to 3 (`Next3`), since only its remainder and whether it has come to 3 are
  looked at. So a function that reads for ever is a cycle in the state graph, and `EndsOrWaits` can see it.
* *Buffer of 10, stream of 22.* 9 is the least buffer in which a token's five bytes fit behind a lexeme of four; the stream
  passes the end of the buffer twice, with every lexeme at every offset, and lexemes longer than the buffer. The code has at least 32 and
  asks for the same 1, 3 and 5.
* *`TextFails = {FALSE}`* in `MCDeserializer` is a *condition*: the block for a long text is always found. `MCMalformed` drops it.
* *Lexemes of 16 bytes* in `MCScanner`. The longest token without a loop is a number like `-0.0E-0` of seven bytes, an escape in a
  string has six; every loop is gone through at least twice. The end of the input is a zero byte, as in the code.
* *Names in `MCMembers`* are chosen by their hashes, among 11 buckets and among 23 (the sizes before and after the growth that
  the ninth rule causes): four share their first bucket of 11, some of these every probe after it, four share one of 23; with
  their order turned, keys kick each other out in chains. No two have one hash: the code compares nothing else (section 6).
  `HashSize` 2^24 instead of 2^32 keeps TLC's integers from overflowing; the hashes of the names are below it. A name
  of no bytes and one without rule are asked for as well.
* *Widths in `MCMembers`.* `short` to `long long` have 1, 2, 3 and 4 bits beside the sign, so that every value at and next to
  a limit of one is an ordinary value of the next; the exponents of the reals likewise. For other widths `StoredExactly` is proved.
* *`MaxNumber` 5, `Moves = {TRUE}`, `MallocFails = {FALSE}`* in `MCLexerInput` are *conditions*: numbers do not reach the end
  of a full buffer, `realloc` moves the block, memory lasts. Each is dropped by one of the runs below, and the properties fail.
  For other sizes of buffer and stream, under the same conditions, the properties are proved.

### Runs that show a disagreement

Each checks one sentence of the repository and is violated. All five were also observed on the compiled code, `MCInPlace` and
`MCSmallBlock` as corrupted heap.

| run | claim | what the code does |
|---|---|---|
| `MCNested` | rules are followed (`README.md:68-69`) | a nested object that ends with a primitive: its `}` is read by `yajp_parse_primitive_value`, the inner `yajp_parse` goes on in the outer object under the inner rules; `{"o":{"a":1},"b":2}` returns 0 without `b` |
| `MCDeep` | members without rule are skipped (`README.md:69`) | nesting to the parser's depth empties its stack silently; later members are lost with result 0 |
| `MCUnterminated` | streams are supported (`README.md:12`) | without a zero byte behind the last brace the unfilled buffer is read as part of the document |
| `MCInPlace` | `limit` is the end of what is available (`lexer.h:62`) | `limit` is set only if `realloc` moved the block |
| `MCSmallBlock` | a number may be nullable (`README.md:234`), its memory is allocated (`README.md:252`) | the block has the length of the text, not of the type: `5` is stored as four bytes in one |

### Further disagreements

The constants of the passing runs leave these out; putting them in shows each. The two marked * were read off
the model and the code; all others were also seen on the compiled code.

| to see it | what the code does |
|---|---|
| `MCLexerInput` with `MaxNumber = 20`: `AtNextByte` fails | a buffer extended within a number is filled from the cursor (`lexer_misc.c:59`) although up to two bytes there are unread |
| `MCLexerInput` with `MallocFails = {FALSE, TRUE}`, `StreamSize = 32`: `AtNextByte` fails | -1 kept in a `size_t` passes `<= 0` (`lexer_misc.c:56`); the rest of the stream is read beyond the buffer |
| `MCDeserializer` with `TextFails = {FALSE, TRUE}`: `FieldsRepresented` fails | a string whose token finds no memory is stored as an empty one, with result 0 (`deserialization.c:280`, `lexer_misc.c:117`) |
| `MCDeserializer` with a document `{"b":[1],"x":2}`: `Defined` fails | an array where a primitive is expected writes `tokens[2]`; the comment at `deserialization.c:267` says that two are enough |
| `MCMalformed` with `Defined` | after a missing comma, `{"a":12345 "z":5}`, the next key has been read by a function that has returned, and `yajp_parse` follows it |
| `MCMalformed` with `Ends` * | a skipped value or an array that is not closed: the loops of `deserialization.c:360`, `378`, `522-524` and `682-684` do not look for the end of the input and read zero bytes for ever, or whatever the buffer holds |
| `MCSmallBlock` with the declaration `{"STRING"}, 4, 0, "string"`: `WritesFit` fails * | a string in a field of its own is copied with its terminator whatever the length of the field (`deserialization.c:307`, `deserialization_routine.c:269-270`): the setter is told the length of the text, not that of the field. It is one of the two cases of `OverflowsNamed`; the other is that of `MCSmallBlock` as it stands |
| `MCMembers`: `last.text = NoText => last.ret = 0` fails for the nullable `int` | every setter but that of strings refuses `null`, so that a number that may be null cannot be (`README.md:228`) |
| `MCMembers` without the exception in `StoredExactly` | `1e99` is taken by `yajp_set_float` and stored as infinity (`deserialization_routine.c:166`) |

## 4. Fairness

There is one thread and no waiting on anything outside it, so a step that can be taken is taken: `WF(Step)` in `Parser` (a
call, once begun, is a plain loop), `WF(Program)` in `Deserializer`, `WF(Next)` in `LexerInput`, `WF(MakeTable)` in `Members` (`context_init`
runs to its end; whether and for what names a context is asked is up to its users). `Parser` does not assume that
a caller calls again. Liveness (`CallReturns`, `Ends`, `ReachesEnd`) therefore says that no loop goes round for ever. `Ends` and
`EndsOrWaits` allow for `ub`: a program that has done something undefined promises nothing. `Ends` is checked on well-formed documents, where
`Defined` says that there is no `ub`. `EndsOrWaits` is about the others, and excepts an input that never comes to an end and
the functions that wait for a bracket or a comma; without any one of its alternatives it fails. The lexer's input is taken to be a finite
stream whose reads return. Deadlock is not checked in `MCMembers` and `MCSmallBlock` alone: a context that could not be made stays
as it is.

## 5. The proofs

Every safety property that a passing run checks is proved for all values of the constants, but for the invariants and the refinement named in section 6.
Each proof has an inductive invariant `IInv` (in `Members`, `MemberIInv`) with the theorem `Invariance`; the others follow from it,
`ReachTheorem` and `FailureTheorem` from it and a second one, `ReachInv`.

| module | theorem | |
|---|---|---|
| `ParserProofs` | `TypeCorrect`, `PathTheorem`, `HandleTheorem` | `TypeOK`; `StackIsPath`; `HandleOnTop`: every reduction finds its right-hand side |
| | `AssertionTheorem` | `AssertionsHold`: the assertions of `parser.c` hold, and no reduction pops the sentinel |
| | `PreviousTokenTheorem`, `NoReportLostTheorem` | `EntityIsPreviousToken`; `NoReportLost` |
| `ParserGrammarProofs` | `GrammarTheorem` | `ImplementsGrammar`: the engine takes the tokens that the grammar allows, refuses the others, and drops a document for its depth alone |
| `DeserializerProofs` | `TypeCorrect`, `SlotsTheorem`, `PointersTheorem` | `TypeOK`; `SlotsReleased`; `PointersHold` |
| | `FailureTheorem` | `FailureIsFinal`: after a failure every step is the return of one function |
| | `ReachTheorem` | `ValuesInReach`: whatever the document, no setter is given a token of a function that has returned |
| | `UseTheorem`, `ParserTheorem` | `UsesParser`, and so what `ParserProofs` proves holds of the parser in use |
| `LexerInputProofs` | `TypeCorrect`, `NextByte`, `LexemeStays`, `GrowsForLexeme` | `TypeOK`; `AtNextByte`; `LexemeIntact`; `GrowsForOneLexeme` |
| `ScannerProofs` | `TypeCorrect`, `AskedFor`, `LongestToken` | `TypeOK`; `LooksAtWhatItAskedFor`; `LongestMatch`, for lexemes of every length |
| `RuleTableProofs` | `TypeCorrect`, `NothingLostTheorem` | `TypeOK`; `NothingLost` |
| | `Refinement` | every step of the table is a step of `RuleMap` or changes nothing there |
| `MembersProofs` | `TableTheorem` | `TypeOK` and `NothingLost` as members are looked up and set |
| | `StoredTheorem`, `WritesTheorem` | `StoredExactly`; `OverflowsNamed` |

### Assumptions

* `ParserAssumption`, `DeserializerAssumption`, `LexerAssumption`, `LexerInputAssumption`, `ScannerAssumption`,
  `RuleTableAssumption`, `SettersAssumption`, `MembersAssumption` say what kind of thing each constant is: a stack has a place,
  a name is a sequence of bytes other than zero, a type of integers is no wider than the next. TLC evaluates each for every run.
  `RuleTableAssumption` also bounds a list of rules by 299 names, since the model's list of primes ends where that
  many keys need it to; `khash.h` goes on to 4294967291.
* `Undisturbed`, in the theorems about `LexerInput`: `realloc` moves the block, memory lasts, numbers stay five bytes shorter than the
  buffer. These are no assumptions of convenience: without any one of them the properties are false of the code (section 3).
* `NoCollisions`, in `Refinement` alone: no two names have one hash. TLC evaluates it for the names of `MCMembers`. `NothingLost` is
  proved without it.
* `WellTyped`, in `MembersAssumption`: the setter of a rule is that of the type its value has in the structure. This is the program's part, which no
  code here can check: a setter is told neither the type nor the size of what it writes to. Of a string's field nothing is assumed but that it is not empty,
  and nothing of which values are allocated or nullable.

### The arguments

*Parser.* `HandleOnTop` and `AssertionsHold` are not inductive: they say what is on the stack when a reduction is due,
not why. What is inductive is the LALR property itself: each entry is where the tables lead from the entry below
(`StackIsPath`). The tables are finite and given, so *which* edges exist can be read off them once: `ShiftTable`, `GotoTable`,
`EdgeTable` list them, and `RuleTable` the rules. `ReductionBase` then walks down from the top, at most three entries, along
these edges: the right-hand side is there, and the state uncovered is one the rule can start from; `ReductionGoto` finds the
goto for it. With `PathGrows` (a path cut and extended by an edge is a path) every action keeps `StackIsPath`.

The reports need more. A token is reported when it is *reduced*, a call later than it was shifted, so the invariant carries
`PendingIsPrevious` (a primitive on top that waits for its reduction belongs to the call before) and `ReportOrder` (where the
engine stands in a call that has already reported something). From these follow `EntityIsPreviousToken` and, for each
reduction that reports, that nothing or only the pair's own value was reported before (`OneReport`, hence `NoReportLost`).

`IInv` is also checked by `MCParserRefs`.

*Grammar.* The refinement mapping `NestOf` folds the stack into the containers that are open. `NestGrows` says what one more entry
does to the nest; since `NestOf` is a function defined by recursion, that it exists and that two stacks with a common beginning agree on it has to
be proved first (`NestsExist`, `NestsAgree`, by least counterexample). `EveryFits`: below every entry of a state proper, the
innermost container is in the one phase that belongs to the state, and the entries so far are no more than `DepthOf` counts.
A reduction then changes nothing (`ReducedOne`, `ReducedTwo`, `ReducedThree`, by the length of the right-hand side: both sides of a rule stand
for the same nest, over every state the rule can start from); the shift table and `Allowed` are the same relation (`TableTakes`, `GrammarTakes`); a token
that is shifted leads where the grammar says (`AfterIs`); and a full stack means a nest of that depth (`OverflowDrops`). Acceptance needs
one more invariant, `AcceptAtEnd`: the start symbol is on the stack only while the end of the input is being parsed.

*Deserializer.* None of its properties is inductive: each speaks of one frame, and what matters is what lies below it. The
invariant says what every frame is like (`IsFrame`), and of the stack as a whole (`Stack`) that all frames but the top one wait
for a call. `Tidy` is behind `SlotsReleased`: the slots behind the one last read into are clean, and so, where a function is about to
read, is the one it will read into; since slots go round after three and a function runs its loop while others run above it, this
has to be known of every frame, not only the top. `PointersHold` takes an order: blocks are numbered as they are made, and the numbers rise along the C stack (`Climbs`: the
functions on top write to the youngest blocks, and to a block that is being filled only those above the function that made it) and along
pointers (`Sound`: each leads to a younger block than the one it is stored in, not given back, and to one of its own; `Unled`: none
leads to a block that is still being filled). So the block that a failed call leaves can be given back, since no pointer leads to it and no
function below writes to it; and the block of rows or elements that `realloc` moves is younger than all that the stack writes to. `FailureAwaited` says that only a function
that waits for another can find a failure, which makes every action of a function but the returns impossible then; that no call of the parser is under way either is part of `ReachInv`, below. The parser's
part is its own invariant: `PP!IInv` is a conjunct, every `Read...` is a `Parse` of it and every `ParserStep` one of its steps
(`ParserSteps`), so no proof about the tables is repeated.

`ReachTheorem` needs a second invariant, `ReachInv`, beside the first. A reference is a pointer into the frame of a function, and the
parser keeps it longer than the call it came with: a value is reported with the token behind it. `ReachInv` follows a value from the slot it is read
into, over the parser's stack (`Waiting`) and its report, to the function that converts it, and says at each place
that the function it was read by is still among the frames. Most functions wait for the parser to have reduced what
they have read before they return (`AfterCall`); `yajp_parse_primitive_value` counts two tokens instead, so where
the parser stands has to be known for each of its steps (`PrimitivePhase`), and a row keeps the report it was called with
(`RowsKept`). Of the parser it takes two facts, which `ParserProofs` reads off the tables: `OneReduction`, what one reduction
uncovers and reports, and `CallEnds`, where it stands when it has taken a token. What is left out is the key in `yajp_parse`: `OnlyKeysLost`
says that a dangling reference is followed there or not at all, and section 3 shows a document for which it is.

*Lexer input.* `Window`: the bytes in the buffer are those of the stream from the token's first on, without gap, as far as the
buffer is filled, and the buffer is full unless the stream is at its end. `ShiftFills`, `ExtendFills` and `AskFills`
show that shifting, extending and refilling turn one window into another. The scanner's part is `Ensured`, the least number of bytes that are
still there at a label of re2c's graph: an edge takes one byte and the label it leads to may ask for more, and the table is checked edge by edge
(`TokenRulesProofs`). At the labels that may go back, the mark is where the last accepted prefix ended. The same table gives
`LooksAtWhatItAskedFor` in `Scanner`.

*Scanner.* `LongestMatch` compares the graph with the rules of `TokenRules`, and a rule is a sequence of parts, each repeated: the
lexeme says nothing of which part its next byte belongs to. The comparison goes through what *may still come*. A chain is what
is left of a rule, part by part, and `Onward` is what is left of a set of chains behind one more byte; lemmas give it for a part that comes once
and for one that comes any number of times. Each label `Stands` for the chains of one rule that are possible there, the first one
for those of all rules (`StartFollows`), and an edge leads to the label of just the chains that its byte leaves, byte by byte. So the bytes
behind the cursor make a token exactly at the labels that accept, and `InTheRules`, the invariant, adds that
the mark or the cursor is at the longest token so far. When no edge takes the next byte no rule does, and what is chosen then is the
longest (`LongestToken`). `MCScanner` checks the same on short lexemes.

*Rule table.* Each rule that was put is in one bucket or in hand, under its key (`Holding`), and a look-up of a key comes to
its bucket before it meets an empty one (`Reached`). To place a key, or find that it is missing, the probe sequence has to come to
a free bucket: `ProbesMeetAll` proves that it comes to *every* bucket, because the number of buckets is prime, so that the
second step width has an inverse (the least linear combination of the two is 1, `HasInverse`), and `FreeSite`, that one of them
is free, since the buckets that are taken hold different rules. In a growth the two tables share their arrays; a bucket is never taken in both
(`Growing`), and the key in hand is in neither. `Refinement` then compares the steps with `RuleMap`'s: what a look-up answers is the
one rule of that hash, and with `NoCollisions` of that name. That the hash of a name is a number below `HashSize` is the one place where the type
of a recursive function is needed; it is proved by a least counterexample (`Least`, `FromZero`).

*Members.* `Right` says of a setter that what it stores is the value of the text, and that a value of its type is not
refused; it is proved setter by setter from the conversions, `IntegerIsRight` and `RealIsRight` standing for all widths. It needs `errno` to be
free of `ERANGE` when the setter is called, which is what the lexer's `errno = 0` is for (`MemberIInv`). For
`OverflowsNamed`, `SizesKept` says what `rule_init` keeps of the sizes that the macros pass, and `RoomIsShort` compares what the deserializer adds up of them
with what the setter writes, for a string and for the other types.

## 6. What is only model-checked, and what is not modelled

*Only model-checked.*
* Liveness under fairness, which the prover does not reach: `CallReturns`, `Ends`, `EndsOrWaits`, `ReachesEnd`, and the part of
  `ImplementsRuleMap` that says that a context is made in the end.
* The refinement `KeepsPromise` and the invariant `FieldsRepresented`: what is compared is computed along the plan or the
  document. `NoneLost`, which holds only of objects that have each name once.
* `Defined` and `InStep`: they hold for well-formed documents only (section 3 shows others), so a proof has to carry the rest of the
  document's tree along the C stack.

*Not modelled.*
* Names of one hash: the table takes them for one (`Aa` and `BB` are such a pair). As rules they are refused like a name given
  twice; as a member without rule one is read by the other's. `RuleMap` promises nothing then, and the runs have none.
* A failing `calloc` or `malloc` within `khash.h`: none is tested, the next access is through a null pointer.
* `input->eof`: it is set only when the stream is opened (`lexer_misc.c:70`), before anything was read, and taken to be false;
  so is an error of `fread`.
* Unescaping: the code does none, a text is the bytes of its lexeme.
* Line and column counting, which is empty in the build that is documented.
* What an unwritten byte of a `realloc`ed block holds; the capacity of arrays that the caller has allocated. Blocks reached only from a
  block that was freed on failure are lost in the code, and forgotten in the model.
* A rule declared with a setter and a context or with neither: `rule_init` returns -1 and nothing else differs.
* What the preprocessor refuses in `deserialization_action_initialization.h`, the generator template, build files and tests: no
  state of the program.

## 7. Plan

Done: the parser with its refinement, the deserializer over it, the lexer's buffer, the scanner against its rules, the
rule table as a map, the setters, and members from name to field; and the proofs of section 5. In order of what matters most, there
is left:

1. `Defined` and `InStep` for documents that the grammar allows, over what `GrammarTheorem` says of the parser.
2. Memory: `NoneLost` as a theorem, for objects that have each name once, and unwritten bytes of an array's elements.
