----------------------------- MODULE LexerInput -----------------------------
(***************************************************************************)
(* The buffer of the lexer (src/lexer_misc.c) under the scanner that re2c  *)
(* generated (src/lexer.c).  A byte of the stream is its number, so what   *)
(* is looked at can be compared with what should be; the scanner is its    *)
(* graph of labels, and takes any way through it (which way the bytes make *)
(* it take is module Scanner's).                                           *)
(***************************************************************************)
EXTENDS Integers, ScannerGraph

CONSTANTS
    BUFFER_SIZE,   \* YAJP_BUFFER_SIZE
    StreamSize,    \* bytes of the stream; the last one is the terminating zero
    MaxNumber,     \* bound on the length of a number
    Moves,         \* subset of BOOLEAN: may realloc() return another address?
    MallocFails    \* subset of BOOLEAN: may realloc() fail?

\* What the five bytes asked for at the head of a token need to fit behind it;
\* the code has at least 32 (src/lexer.h:34-36).
ASSUME LexerInputAssumption ==
    /\ BUFFER_SIZE \in Nat /\ BUFFER_SIZE >= 9
    /\ StreamSize \in Nat \ {0}
    /\ MaxNumber \in Nat
    /\ Moves \subseteq BOOLEAN /\ Moves # {}
    /\ MallocFails \subseteq BOOLEAN /\ FALSE \in MallocFails

VARIABLES
    input,     \* yajp_lexer_input_t, its pointers counted from the buffer's start
    stream,    \* bytes read from the stream
    state,     \* where in yajp_lexer_get_next_token, or how it has returned
    scanned,   \* bytes of the stream the scanner has passed
    marked     \* bytes it had passed at its last mark

vars == <<input, stream, state, scanned, marked>>

\* A byte of the buffer that was never written.
Unwritten == 0
-----------------------------------------------------------------------------
(* The scanner's graph, without the bytes that choose the way through it.  *)

Goes == [label \in Looking |-> {e[2] : e \in Edges[label]}]

Skips == {"ws", "nl", "bom"}
NumberParts == {"yy40", "yy41", "yy49"}

\* What follows a lexeme: another one, the caller, or the end of the stream.
Followed(rule) ==
    CASE rule \in Skips -> "loop"
      [] rule = "EOF" -> "eof"
      [] rule = "error" -> "error"
      [] OTHER -> "token"
-----------------------------------------------------------------------------
(* src/lexer_misc.c                                                        *)

Smaller(a, b) == IF a < b THEN a ELSE b

\* yajp_lexer_read_buffer: as many of n bytes as the stream has.
Available(n) == Smaller(n, StreamSize - stream)

Read(in, at, n) ==
    [in EXCEPT !.buffer =
        [k \in DOMAIN @ |-> IF k \in at..(at + Available(n) - 1) THEN stream + 1 + k - at ELSE @[k]]]

\* Variants: the mark stays where it was; the last byte is not moved.
ShiftedUnmarked(in) ==
    [in EXCEPT !.buffer = [k \in DOMAIN @ |-> IF k < in.limit - in.token THEN @[k + in.token] ELSE @[k]],
               !.token = 0, !.cursor = @ - in.token]

ShiftedShort(in) ==
    [in EXCEPT !.buffer = [k \in DOMAIN @ |-> IF k < in.limit - in.token - 1 THEN @[k + in.token] ELSE @[k]],
               !.token = 0, !.cursor = @ - in.token, !.marker = @ - in.token]

\* Everything before the token is dropped.
Shifted(in) ==
    [in EXCEPT !.buffer = [k \in DOMAIN @ |-> IF k < in.limit - in.token THEN @[k + in.token] ELSE @[k]],
               !.token = 0, !.cursor = @ - in.token, !.marker = @ - in.token]

\* Variant: the limit is never set.
ExtendedUnlimited(in, need, moves) ==
    LET size == in.buffer_size + BUFFER_SIZE * ((need + BUFFER_SIZE - 1) \div BUFFER_SIZE)
    IN  [in EXCEPT !.buffer = [k \in 0..(size - 1) |-> IF k < in.buffer_size THEN @[k] ELSE Unwritten],
                   !.buffer_size = size]

\* yajp_lexer_extend_buffer: by a multiple of BUFFER_SIZE; the limit is set only
\* if the buffer has moved.
Extended(in, need, moves) ==
    LET size == in.buffer_size + BUFFER_SIZE * ((need + BUFFER_SIZE - 1) \div BUFFER_SIZE)
    IN  [in EXCEPT !.buffer = [k \in 0..(size - 1) |-> IF k < in.buffer_size THEN @[k] ELSE Unwritten],
                   !.buffer_size = size,
                   !.limit = IF moves THEN size ELSE @]

\* Variant: the buffer is extended whenever it is filled.
yajp_lexer_fill_inputExtending(in, need, label) ==
    \E moves \in Moves :
        LET room == Extended(Shifted(in), need, moves)
        IN  /\ input' = Read(room, in.limit - in.token, room.limit - (in.limit - in.token))
            /\ stream' = stream + Available(room.limit - (in.limit - in.token))
            /\ state' = label

\* The failure of yajp_lexer_extend_buffer is kept in an unsigned `allocated',
\* whose test for <= 0 it passes: everything left of the stream is read to where
\* the cursor is, and a byte is looked at there, room or no room.
Unextended(in, label) ==
    LET kept == Shifted(in)
        room == in.buffer_size - kept.cursor
        rest == StreamSize - stream
    IN  /\ input' = Read(kept, kept.cursor, rest)
        /\ stream' = StreamSize
        /\ state' = IF rest > room \/ room = 0 THEN "overrun" ELSE label

\* yajp_lexer_fill_input, and what the scanner does with its result.  Without
\* room for the bytes needed the buffer is extended, and filled from the cursor.
yajp_lexer_fill_input(in, need, label) ==
    LET free == in.token
    IN  IF free >= need
        THEN /\ input' = Read(Shifted(in), in.limit - free, free)
             /\ stream' = stream + Available(free)
             /\ state' = label
        ELSE \E fails \in MallocFails, moves \in Moves :
             IF fails THEN Unextended(in, label)
             ELSE LET room == Extended(Shifted(in), need, moves)
                      allocated == room.buffer_size - in.buffer_size
                  IN  /\ input' = Read(room, room.cursor, allocated)
                      /\ stream' = stream + Available(allocated)
                      /\ state' = label

\* A label asks for bytes only if they are not there.
Ask(in, label) ==
    IF in.limit - in.cursor < Needs(label)
    THEN yajp_lexer_fill_input(in, Needs(label), label)
    ELSE input' = in /\ state' = label /\ UNCHANGED stream
-----------------------------------------------------------------------------
(* yajp_lexer_get_next_token                                               *)

\* yajp_lexer_init_input: a buffer as full as the stream makes it.
Init ==
    /\ input = [buffer |-> [k \in 0..(BUFFER_SIZE - 1) |-> IF k < StreamSize THEN k + 1 ELSE Unwritten],
                buffer_size |-> BUFFER_SIZE, limit |-> BUFFER_SIZE, cursor |-> 0, marker |-> 0, token |-> 0]
    /\ stream = Smaller(BUFFER_SIZE, StreamSize)
    /\ state = "loop"
    /\ scanned = 0
    /\ marked = 0

\* A new call, or the next lexeme of the same one.
Begin ==
    /\ state \in {"loop", "token", "error"}
    /\ Ask([input EXCEPT !.token = input.cursor], "start")
    /\ UNCHANGED <<scanned, marked>>

\* The zero byte leads nowhere but from the start.
AtZero == input.buffer[input.cursor] = StreamSize

Scan ==
    /\ state \in Looking
    /\ \E label \in Goes[state] :
          /\ AtZero <=> label = "yy2"
          /\ label \in {"yy16", "yy18", "yy40", "yy41", "yy47", "yy49", "yy50"}
                => input.cursor - input.token < MaxNumber
          /\ LET passed == [input EXCEPT !.cursor = @ + 1,
                                         !.marker = IF label \in Marks THEN input.cursor + 1 ELSE @]
             IN  IF label \in DOMAIN Ends
                 THEN input' = passed /\ state' = Followed(Ends[label]) /\ UNCHANGED stream
                 ELSE Ask(passed, label)
          /\ scanned' = scanned + 1
          /\ marked' = IF label \in Marks THEN scanned + 1 ELSE marked

\* The byte looked at belongs to no longer lexeme.
Stop ==
    /\ state \in DOMAIN Spaces \cup Numbers \cup FirstBytes
    /\ state' = CASE state \in DOMAIN Spaces -> "loop"
                  [] state \in Numbers -> "token"
                  [] OTHER -> "error"
    /\ UNCHANGED <<input, stream, scanned, marked>>

\* Variant: back to the head of the lexeme.
BacktrackToToken ==
    /\ state \in Looking \ (DOMAIN Spaces \cup Numbers \cup FirstBytes \cup {"start"})
    /\ state' = IF state \in NumberParts THEN "token" ELSE "error"
    /\ input' = [input EXCEPT !.cursor = input.token]
    /\ scanned' = scanned - (input.cursor - input.token)
    /\ UNCHANGED <<stream, marked>>

\* yy36: nor does it make the lexeme under way complete: back to the mark.
Backtrack ==
    /\ state \in Looking \ (DOMAIN Spaces \cup Numbers \cup FirstBytes \cup {"start"})
    /\ state' = IF state \in NumberParts THEN "token" ELSE "error"
    /\ input' = [input EXCEPT !.cursor = input.marker]
    /\ scanned' = marked
    /\ UNCHANGED <<stream, marked>>

\* Behind the terminating zero nothing is asked for.
Done == state \in {"eof", "overrun"} /\ UNCHANGED vars

Next == Begin \/ Scan \/ Stop \/ Backtrack \/ Done

Spec == Init /\ [][Next]_vars /\ WF_vars(Next)
-----------------------------------------------------------------------------
(* Properties *)

\* The four pointers keep their order and stay within the buffer, which is always
\* a multiple of YAJP_BUFFER_SIZE.
TypeOK ==
    /\ input.buffer_size \in Nat /\ input.buffer_size % BUFFER_SIZE = 0
    /\ DOMAIN input.buffer = 0..(input.buffer_size - 1)
    /\ \A k \in DOMAIN input.buffer : input.buffer[k] \in 0..StreamSize
    /\ 0 <= input.token /\ input.token <= input.cursor
    /\ input.cursor <= input.limit /\ input.limit <= input.buffer_size
    /\ stream \in 0..StreamSize /\ scanned \in 0..StreamSize /\ marked \in 0..StreamSize
    /\ state \in Looking \cup {"loop", "token", "error", "eof", "overrun"}

\* `cursor: the next input character to be read' (src/lexer.h:61): whatever was
\* shifted, read and allocated, the scanner looks at the bytes of the stream in
\* their order, none lost, none twice, none that was never written, and nothing
\* is written or looked at behind the buffer (src/lexer_misc.c:56-59).
AtNextByte ==
    /\ state # "overrun"
    /\ state \in Looking => input.cursor < input.buffer_size /\ input.buffer[input.cursor] = scanned + 1

\* `token: the start of the current lexeme' (src/lexer.h:64): until the lexeme is
\* picked, all of it stays in the buffer in one piece, for yajp_lexer_pick_token
\* to copy (src/lexer_misc.c:106-124).
LexemeIntact ==
    \A k \in input.token..(input.cursor - 1) : input.buffer[k] = scanned - (input.cursor - k) + 1

\* The stream is not kept in memory (README.md:12): the buffer grows only when a
\* single lexeme has filled all of it.
GrowsForOneLexeme ==
    [][input'.buffer_size > input.buffer_size => input'.cursor - input'.token >= input.buffer_size]_vars

\* The scanner gets through the stream: neither an error nor a step back keeps
\* it in one place for ever.
ReachesEnd == <>(state = "eof")
=============================================================================
