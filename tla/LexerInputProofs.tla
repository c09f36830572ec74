-------------------------- MODULE LexerInputProofs --------------------------
(***************************************************************************)
(* Proofs about LexerInput, for every size of the buffer and every length  *)
(* of the stream: as long as realloc() finds memory, and elsewhere than    *)
(* before, and no number comes near the size of the buffer, the scanner    *)
(* sees the stream as if there were no buffer.                             *)
(***************************************************************************)
EXTENDS LexerInput, TokenRulesProofs

\* The conditions of run MCLexerInput; without any one of them AtNextByte fails.
Undisturbed ==
    /\ Moves = {TRUE} /\ MallocFails = {FALSE}
    /\ MaxNumber + 5 <= BUFFER_SIZE

Fields == {"buffer", "buffer_size", "limit", "cursor", "marker", "token"}

\* `read' bytes were read; `bytes' are those from `base' on, as far as they go.
Full(bytes, size, base, read) ==
    /\ bytes \in [0..(size - 1) -> 0..StreamSize]
    /\ read = Smaller(base + size, StreamSize)
    /\ \A k \in 0..(size - 1) : base + k < StreamSize => bytes[k] = base + k + 1

\* The buffer is a window of the stream, full unless the stream is at its end;
\* `passed' bytes of the stream are before the cursor.
Window(in, read, passed) ==
    /\ DOMAIN in = Fields
    /\ in.buffer_size \in Nat /\ in.buffer_size >= BUFFER_SIZE /\ in.buffer_size % BUFFER_SIZE = 0
    /\ in.limit = in.buffer_size
    /\ in.token \in Nat /\ in.cursor \in Nat /\ in.marker \in Int
    /\ in.token <= in.cursor /\ in.cursor <= in.limit
    /\ passed \in 0..StreamSize /\ in.cursor <= passed
    /\ Full(in.buffer, in.limit, passed - in.cursor, read)

States == Looking \cup {"loop", "token", "error", "eof"}

\* The labels that may lead back to the mark, and those at which it is set.
Marked == Looking \ {"start", "yy6", "yy9", "yy15"}

IInv ==
    /\ state \in States
    /\ Window(input, stream, scanned)
    /\ state \in Looking => input.limit - input.cursor >= Ensured(state)
    /\ state # "eof" => scanned < StreamSize
    /\ marked \in 0..StreamSize
    /\ state \in Marked => /\ input.marker \in input.token..input.cursor
                           /\ marked = scanned - (input.cursor - input.marker)
-----------------------------------------------------------------------------
(* Filling the buffer.                                                     *)

\* A byte that is moved, or read behind those that were moved, is in its place.
LEMMA MovedByte ==
    ASSUME NEW S \in Nat, NEW size \in Nat, NEW free \in 0..size, NEW base \in Nat, NEW k \in 0..(size - 1),
           NEW bytes, \A j \in 0..(size - 1) : base + j < S => bytes[j] = base + j + 1,
           k < size - free, base + free + k < S
    PROVE  bytes[k + free] = base + free + k + 1
<1>1. k + free \in 0..(size - 1) /\ base + (k + free) < S
  OBVIOUS
<1>2. bytes[k + free] = base + (k + free) + 1
  BY <1>1
<1>3. QED
  BY <1>2

\* What was read behind the bytes that were moved goes on where they end.
LEMMA ReadByte ==
    ASSUME NEW size \in Int, NEW free \in Int, NEW base \in Int, NEW k \in Int, NEW read, read = base + size
    PROVE  read + 1 + k - (size - free) = base + free + k + 1
  OBVIOUS

\* What was read is in the stream.
LEMMA ReadRange ==
    ASSUME NEW S \in Nat, NEW read \in 0..S, NEW got \in Nat, read + got <= S, NEW size \in Nat, NEW free \in 0..size,
           NEW k \in (size - free)..(size - free + got - 1)
    PROVE  read + 1 + k - (size - free) \in 0..S
  OBVIOUS

\* The window moved on by `free' bytes, of which `got' are read.
Moved(bytes, size, free, read, got) ==
    [k \in 0..(size - 1) |-> IF k \in (size - free)..(size - free + got - 1) THEN read + 1 + k - (size - free)
                             ELSE IF k < size - free THEN bytes[k + free] ELSE bytes[k]]

\* The window moved: bytes kept and bytes read are those of the stream, in order.
LEMMA ShiftedBytes ==
    ASSUME StreamSize \in Nat,
           NEW size \in Nat, NEW free \in 0..size, NEW base \in Nat, NEW bytes, NEW read,
           Full(bytes, size, base, read)
    PROVE  LET got == Smaller(free, StreamSize - read)
           IN  Full(Moved(bytes, size, free, read, got), size, base + free, read + got)
<1> DEFINE got == Smaller(free, StreamSize - read)
           new == Moved(bytes, size, free, read, got)
<1>1. /\ bytes \in [0..(size - 1) -> 0..StreamSize]
      /\ \A k \in 0..(size - 1) : base + k < StreamSize => bytes[k] = base + k + 1
  BY DEF Full
<1>2. read = IF base + size < StreamSize THEN base + size ELSE StreamSize
  BY DEF Full, Smaller
<1>3. got = IF free < StreamSize - read THEN free ELSE StreamSize - read
  BY DEF Smaller
<1> HIDE DEF got
<1>4. got \in Nat /\ read \in Nat
  BY <1>2, <1>3
<1>5. read + got = IF base + free + size < StreamSize THEN base + free + size ELSE StreamSize
  BY <1>2, <1>3
<1>6. read \in 0..StreamSize /\ read + got <= StreamSize
  BY <1>2, <1>3
<1>7. ASSUME NEW k \in 0..(size - 1) PROVE new[k] \in 0..StreamSize
  <2>1. CASE k \in (size - free)..(size - free + got - 1)
    <3>1. new[k] = read + 1 + k - (size - free)
      BY <2>1 DEF Moved
    <3>2. read + 1 + k - (size - free) \in 0..StreamSize
      BY <1>4, <1>6, <2>1, ReadRange
    <3>3. QED
      BY <3>1, <3>2, Zenon
  <2>2. CASE k \notin (size - free)..(size - free + got - 1) /\ k < size - free
    <3>1. k + free \in 0..(size - 1)
      BY <2>2
    <3>2. QED
      BY <1>1, <2>2, <3>1 DEF Moved
  <2>3. CASE k \notin (size - free)..(size - free + got - 1) /\ k >= size - free
    BY <1>1, <2>3 DEF Moved
  <2>4. QED
    BY <1>4, <2>1, <2>2, <2>3
<1>8. ASSUME NEW k \in 0..(size - 1), base + free + k < StreamSize PROVE new[k] = base + free + k + 1
  <2>1. CASE k < size - free
    <3>1. k \notin (size - free)..(size - free + got - 1)
      BY <1>4, <2>1
    <3>2. new[k] = bytes[k + free]
      BY <2>1, <3>1 DEF Moved
    <3>3. bytes[k + free] = base + free + k + 1
      BY <1>1, <1>8, <2>1, MovedByte
    <3>4. QED
      BY <3>2, <3>3, Zenon
  <2>2. CASE k >= size - free
    <3>1. read = base + size /\ k < size - free + got
      BY <1>2, <1>3, <1>8, <2>2
    <3>2. k \in (size - free)..(size - free + got - 1)
      BY <1>4, <2>2, <3>1
    <3>3. new[k] = read + 1 + k - (size - free)
      BY <3>2 DEF Moved
    <3>4. read + 1 + k - (size - free) = base + free + k + 1
      BY <3>1, ReadByte
    <3>5. QED
      BY <3>3, <3>4, Zenon
  <2>3. QED
    BY <2>1, <2>2
<1>9. new \in [0..(size - 1) -> 0..StreamSize]
  BY <1>7 DEF Moved
<1>10. Full(new, size, base + free, read + got)
  <2>1. read + got = Smaller(base + free + size, StreamSize)
    BY <1>5 DEF Smaller
  <2>2. QED
    BY <1>8, <1>9, <2>1 DEF Full
<1>11. QED
  BY <1>10 DEF got

\* yajp_lexer_shift, field by field.
LEMMA ShiftedFields ==
    ASSUME NEW in, DOMAIN in = Fields
    PROVE  /\ DOMAIN Shifted(in) = Fields
           /\ Shifted(in).buffer = [k \in DOMAIN in.buffer |->
                  IF k < in.limit - in.token THEN in.buffer[k + in.token] ELSE in.buffer[k]]
           /\ Shifted(in).buffer_size = in.buffer_size /\ Shifted(in).limit = in.limit
           /\ Shifted(in).token = 0
           /\ Shifted(in).cursor = in.cursor - in.token /\ Shifted(in).marker = in.marker - in.token
  BY DEF Shifted, Fields

\* yajp_lexer_read_buffer, field by field.
LEMMA ReadFields ==
    ASSUME NEW in, DOMAIN in = Fields, NEW at, NEW n
    PROVE  /\ DOMAIN Read(in, at, n) = Fields
           /\ Read(in, at, n).buffer = [k \in DOMAIN in.buffer |->
                  IF k \in at..(at + Available(n) - 1) THEN stream + 1 + k - at ELSE in.buffer[k]]
           /\ \A f \in Fields \ {"buffer"} : Read(in, at, n)[f] = in[f]
  BY DEF Read, Fields

\* A buffer with room before the token: shifted, and filled behind.
LEMMA ShiftFills ==
    ASSUME LexerInputAssumption,
           NEW in, NEW passed, Window(in, stream, passed),
           NEW new, new = Read(Shifted(in), in.limit - in.token, in.token)
    PROVE  /\ Window(new, stream + Available(in.token), passed)
           /\ new.token = 0 /\ new.cursor = in.cursor - in.token /\ new.marker = in.marker - in.token
           /\ new.limit = in.limit /\ new.buffer_size = in.buffer_size
<1> DEFINE got == Available(in.token)
           at == in.limit - in.token
           base == passed - in.cursor
<1>1. DOMAIN in = Fields /\ in.limit = in.buffer_size /\ Full(in.buffer, in.limit, base, stream)
  BY DEF Window
<1>2. /\ in.limit \in Nat /\ in.token \in Nat /\ in.cursor \in Nat /\ in.marker \in Int /\ passed \in Nat
      /\ in.token <= in.cursor /\ in.cursor <= in.limit /\ in.cursor <= passed
  BY DEF Window, LexerInputAssumption
<1>3. base \in Nat /\ in.token \in 0..in.limit
  BY <1>2
<1>4. DOMAIN in.buffer = 0..(in.limit - 1)
  BY <1>1 DEF Full
<1>5. DOMAIN Shifted(in) = Fields
  BY <1>1, ShiftedFields, Zenon
<1>6. /\ DOMAIN new = Fields
      /\ new.buffer = [k \in DOMAIN Shifted(in).buffer |->
             IF k \in at..(at + got - 1) THEN stream + 1 + k - at ELSE Shifted(in).buffer[k]]
      /\ \A f \in Fields \ {"buffer"} : new[f] = Shifted(in)[f]
  <2> HIDE DEF at
  <2>1. /\ DOMAIN Read(Shifted(in), at, in.token) = Fields
        /\ Read(Shifted(in), at, in.token).buffer = [k \in DOMAIN Shifted(in).buffer |->
               IF k \in at..(at + got - 1) THEN stream + 1 + k - at ELSE Shifted(in).buffer[k]]
        /\ \A f \in Fields \ {"buffer"} : Read(Shifted(in), at, in.token)[f] = Shifted(in)[f]
    BY <1>5, ReadFields
  <2>2. QED
    BY <2>1 DEF at
<1>7. /\ DOMAIN Shifted(in).buffer = 0..(in.limit - 1)
      /\ \A k \in 0..(in.limit - 1) :
            Shifted(in).buffer[k] = IF k < at THEN in.buffer[k + in.token] ELSE in.buffer[k]
  BY <1>1, <1>4, ShiftedFields
<1>8. new.buffer = [k \in 0..(in.limit - 1) |->
         IF k \in at..(at + got - 1) THEN stream + 1 + k - at
         ELSE IF k < at THEN in.buffer[k + in.token] ELSE in.buffer[k]]
  BY <1>6, <1>7
<1>9. new.buffer = Moved(in.buffer, in.limit, in.token, stream, got)
  <2> HIDE DEF got
  <2>1. QED
    BY <1>8 DEF at, Moved
<1>10. Full(new.buffer, in.limit, base + in.token, stream + got)
  <2> HIDE DEF base
  <2>1. Full(Moved(in.buffer, in.limit, in.token, stream, got), in.limit, base + in.token, stream + got)
    BY <1>1, <1>2, <1>3, ShiftedBytes, LexerInputAssumption DEF Available, LexerInputAssumption
  <2>2. QED
    BY <1>9, <2>1, Zenon
<1>11. /\ new.token = 0 /\ new.cursor = in.cursor - in.token /\ new.marker = in.marker - in.token
       /\ new.limit = in.limit /\ new.buffer_size = in.buffer_size
  <2>1. /\ new.token = Shifted(in).token /\ new.cursor = Shifted(in).cursor /\ new.marker = Shifted(in).marker
        /\ new.limit = Shifted(in).limit /\ new.buffer_size = Shifted(in).buffer_size
    BY <1>6 DEF Fields
  <2>2. QED
    BY <1>1, <2>1, ShiftedFields, Zenon
<1>12. passed - new.cursor = base + in.token
  <2>1. new.cursor = in.cursor - in.token
    BY <1>11
  <2>2. QED
    BY <1>2, <2>1
<1>13. new.token \in Nat /\ new.cursor \in Nat /\ new.marker \in Int /\ new.token <= new.cursor
       /\ new.cursor <= new.limit /\ new.cursor <= passed
  <2>1. new.token = 0 /\ new.cursor = in.cursor - in.token /\ new.marker = in.marker - in.token
        /\ new.limit = in.limit
    BY <1>11
  <2>2. QED
    BY <1>2, <2>1
<1>14. Window(new, stream + got, passed)
  <2>1. /\ new.buffer_size \in Nat /\ new.buffer_size >= BUFFER_SIZE /\ new.buffer_size % BUFFER_SIZE = 0
        /\ new.limit = new.buffer_size /\ passed \in 0..StreamSize
    BY <1>1, <1>11 DEF Window
  <2>2. Full(new.buffer, new.limit, passed - new.cursor, stream + got)
    BY <1>10, <1>11, <1>12
  <2>3. QED
    BY <1>6, <1>13, <2>1, <2>2 DEF Window
<1>15. QED
  BY <1>11, <1>14

\* The window of `size' bytes made one of `total', with `got' bytes read.
Grown(bytes, size, total, read, got) ==
    [k \in 0..(total - 1) |-> IF k \in size..(size + got - 1) THEN read + 1 + k - size
                           ELSE IF k < size THEN bytes[k] ELSE Unwritten]

\* The window made longer: the bytes kept and those read behind them.
LEMMA GrownBytes ==
    ASSUME StreamSize \in Nat,
           NEW size \in Nat, NEW more \in Nat, NEW base \in Nat, NEW bytes, NEW read,
           Full(bytes, size, base, read)
    PROVE  LET got == Smaller(more, StreamSize - read)
           IN  Full(Grown(bytes, size, size + more, read, got), size + more, base, read + got)
<1> DEFINE got == Smaller(more, StreamSize - read)
           new == Grown(bytes, size, size + more, read, got)
<1>1. /\ bytes \in [0..(size - 1) -> 0..StreamSize]
      /\ \A k \in 0..(size - 1) : base + k < StreamSize => bytes[k] = base + k + 1
  BY DEF Full
<1>2. read = IF base + size < StreamSize THEN base + size ELSE StreamSize
  BY DEF Full, Smaller
<1>3. got = IF more < StreamSize - read THEN more ELSE StreamSize - read
  BY DEF Smaller
<1> HIDE DEF got
<1>4. got \in Nat /\ read \in Nat
  BY <1>2, <1>3
<1>5. read + got = IF base + (size + more) < StreamSize THEN base + (size + more) ELSE StreamSize
  BY <1>2, <1>3
<1>6. read + got <= StreamSize
  BY <1>2, <1>3
<1>7. ASSUME NEW k \in 0..(size + more - 1) PROVE new[k] \in 0..StreamSize
  <2>1. CASE k \in size..(size + got - 1)
    <3>1. new[k] = read + 1 + k - size
      BY <2>1 DEF Grown
    <3>2. read + 1 + k - size \in 0..StreamSize
      BY <1>4, <1>6, <2>1
    <3>3. QED
      BY <3>1, <3>2, Zenon
  <2>2. CASE k \notin size..(size + got - 1) /\ k < size
    BY <1>1, <2>2 DEF Grown
  <2>3. CASE k \notin size..(size + got - 1) /\ k >= size
    BY <2>3 DEF Grown, Unwritten
  <2>4. QED
    BY <1>4, <2>1, <2>2, <2>3
<1>8. ASSUME NEW k \in 0..(size + more - 1), base + k < StreamSize PROVE new[k] = base + k + 1
  <2>1. CASE k < size
    <3>1. k \notin size..(size + got - 1)
      BY <1>4, <2>1
    <3>2. new[k] = bytes[k]
      BY <2>1, <3>1 DEF Grown
    <3>3. bytes[k] = base + k + 1
      BY <1>1, <1>8, <2>1
    <3>4. QED
      BY <3>2, <3>3, Zenon
  <2>2. CASE k >= size
    <3>1. read = base + size /\ k < size + got
      BY <1>2, <1>3, <1>8, <2>2
    <3>2. k \in size..(size + got - 1)
      BY <1>4, <2>2, <3>1
    <3>3. new[k] = read + 1 + k - size
      BY <3>2 DEF Grown
    <3>4. read + 1 + k - size = base + k + 1
      BY <3>1
    <3>5. QED
      BY <3>3, <3>4, Zenon
  <2>3. QED
    BY <2>1, <2>2
<1>9. new \in [0..(size + more - 1) -> 0..StreamSize]
  BY <1>7 DEF Grown
<1>10. Full(new, size + more, base, read + got)
  <2>1. read + got = Smaller(base + (size + more), StreamSize)
    BY <1>5 DEF Smaller
  <2>2. QED
    BY <1>8, <1>9, <2>1 DEF Full
<1>11. QED
  BY <1>10 DEF got

\* What is asked for is less than BUFFER_SIZE, so the buffer grows by just that.
LEMMA OneMore ==
    ASSUME LexerInputAssumption, NEW need \in 1..5
    PROVE  BUFFER_SIZE * ((need + BUFFER_SIZE - 1) \div BUFFER_SIZE) = BUFFER_SIZE
<1>1. (need + BUFFER_SIZE - 1) \div BUFFER_SIZE = 1
  BY DEF LexerInputAssumption
<1>2. QED
  BY <1>1 DEF LexerInputAssumption

\* Multiples leave no remainder.
LEMMA Multiple ==
    ASSUME NEW b \in Nat \ {0}, NEW q \in Nat
    PROVE  (b * q) % b = 0
  OBVIOUS

\* A buffer of whole chunks has whole chunks after one more.
LEMMA StillMultiple ==
    ASSUME NEW b \in Nat \ {0}, NEW size \in Nat, size % b = 0
    PROVE  (size + b) % b = 0
<1> DEFINE q == size \div b
<1>1. q \in Nat /\ size = b * q
  OBVIOUS
<1> HIDE DEF q
<1>2. size + b = b * (q + 1) /\ q + 1 \in Nat
  BY <1>1
<1>3. (b * (q + 1)) % b = 0
  BY <1>2, Multiple
<1>4. QED
  BY <1>2, <1>3, Zenon

\* The buffer made `size' bytes long.
Longer(in, size) ==
    [in EXCEPT !.buffer = [k \in 0..(size - 1) |-> IF k < in.buffer_size THEN @[k] ELSE Unwritten],
               !.buffer_size = size, !.limit = size]

\* yajp_lexer_extend_buffer, where realloc moves the buffer.
LEMMA ExtendedIsLonger ==
    ASSUME LexerInputAssumption, NEW in, NEW need \in 1..5
    PROVE  Extended(in, need, TRUE) = Longer(in, in.buffer_size + BUFFER_SIZE)
<1> DEFINE more == BUFFER_SIZE * ((need + BUFFER_SIZE - 1) \div BUFFER_SIZE)
<1>1. Extended(in, need, TRUE) = Longer(in, in.buffer_size + more)
  BY Zenon DEF Extended, Longer
<1>2. more = BUFFER_SIZE
  BY OneMore
<1>3. QED
  BY <1>1, <1>2, Zenon

\* The longer buffer, field by field.
LEMMA LongerFields ==
    ASSUME NEW in, DOMAIN in = Fields, NEW size
    PROVE  /\ DOMAIN Longer(in, size) = Fields
           /\ Longer(in, size).buffer =
                 [k \in 0..(size - 1) |-> IF k < in.buffer_size THEN in.buffer[k] ELSE Unwritten]
           /\ Longer(in, size).buffer_size = size /\ Longer(in, size).limit = size
           /\ \A f \in {"token", "cursor", "marker"} : Longer(in, size)[f] = in[f]
  BY DEF Longer, Fields

\* A buffer that is one lexeme from end to end: made longer, and filled behind.
LEMMA ExtendFills ==
    ASSUME LexerInputAssumption,
           NEW in, NEW passed, Window(in, stream, passed), in.token = 0, in.cursor = in.limit,
           NEW need \in 1..5
    PROVE  LET room == Extended(Shifted(in), need, TRUE)
               new == Read(room, room.cursor, BUFFER_SIZE)
           IN  /\ Window(new, stream + Available(BUFFER_SIZE), passed)
               /\ new.token = 0 /\ new.cursor = in.cursor /\ new.marker = in.marker
               /\ new.limit = in.limit + BUFFER_SIZE
               /\ room.buffer_size = in.buffer_size + BUFFER_SIZE
<1> DEFINE room == Extended(Shifted(in), need, TRUE)
           new == Read(room, room.cursor, BUFFER_SIZE)
           got == Available(BUFFER_SIZE)
           base == passed - in.cursor
           size == in.limit + BUFFER_SIZE
<1>1. DOMAIN in = Fields /\ in.limit = in.buffer_size /\ Full(in.buffer, in.limit, base, stream)
  BY DEF Window
<1>2. /\ in.limit \in Nat /\ in.cursor \in Nat /\ in.marker \in Int /\ passed \in Nat
      /\ in.cursor = in.limit /\ in.cursor <= passed /\ passed \in 0..StreamSize
      /\ BUFFER_SIZE \in Nat \ {0} /\ StreamSize \in Nat
  BY DEF Window, LexerInputAssumption
<1>3. base \in Nat /\ size \in Nat
  BY <1>2
<1>4. DOMAIN in.buffer = 0..(in.limit - 1)
  BY <1>1 DEF Full
<1>5. /\ DOMAIN Shifted(in) = Fields
      /\ \A k \in 0..(in.limit - 1) : Shifted(in).buffer[k] = in.buffer[k]
      /\ Shifted(in).token = 0 /\ Shifted(in).limit = in.limit /\ Shifted(in).buffer_size = in.limit
      /\ Shifted(in).cursor = in.cursor /\ Shifted(in).marker = in.marker
  <2>1. /\ DOMAIN Shifted(in) = Fields
        /\ Shifted(in).buffer = [k \in DOMAIN in.buffer |->
               IF k < in.limit - in.token THEN in.buffer[k + in.token] ELSE in.buffer[k]]
        /\ Shifted(in).token = 0 /\ Shifted(in).limit = in.limit /\ Shifted(in).buffer_size = in.buffer_size
        /\ Shifted(in).cursor = in.cursor - in.token /\ Shifted(in).marker = in.marker - in.token
    BY <1>1, ShiftedFields, Zenon
  <2>2. in.cursor - in.token = in.cursor /\ in.marker - in.token = in.marker
    BY <1>2
  <2>3. ASSUME NEW k \in 0..(in.limit - 1) PROVE Shifted(in).buffer[k] = in.buffer[k]
    BY <1>2, <1>4, <2>1
  <2>4. QED
    BY <1>1, <2>1, <2>2, <2>3
<1>6. room = Longer(Shifted(in), size)
  BY <1>5, ExtendedIsLonger
<1> HIDE DEF size, room
<1>7. /\ DOMAIN room = Fields
      /\ room.buffer = [k \in 0..(size - 1) |-> IF k < in.limit THEN Shifted(in).buffer[k] ELSE Unwritten]
      /\ room.buffer_size = size /\ room.limit = size
      /\ room.token = 0 /\ room.cursor = in.limit /\ room.marker = in.marker
  <2>1. /\ DOMAIN room = Fields
        /\ room.buffer =
              [k \in 0..(size - 1) |-> IF k < Shifted(in).buffer_size THEN Shifted(in).buffer[k] ELSE Unwritten]
        /\ room.buffer_size = size /\ room.limit = size
        /\ \A f \in {"token", "cursor", "marker"} : room[f] = Shifted(in)[f]
    <3>1. DOMAIN Shifted(in) = Fields
      BY <1>5
    <3>2. /\ DOMAIN Longer(Shifted(in), size) = Fields
          /\ Longer(Shifted(in), size).buffer =
                [k \in 0..(size - 1) |-> IF k < Shifted(in).buffer_size THEN Shifted(in).buffer[k] ELSE Unwritten]
          /\ Longer(Shifted(in), size).buffer_size = size /\ Longer(Shifted(in), size).limit = size
          /\ \A f \in {"token", "cursor", "marker"} : Longer(Shifted(in), size)[f] = Shifted(in)[f]
      BY <3>1, LongerFields, ZenonT(30)
    <3>3. QED
      BY <1>6, <3>2
  <2>2. Shifted(in).buffer_size = in.limit /\ Shifted(in).cursor = in.limit
    BY <1>2, <1>5, Zenon
  <2>3. /\ room.token = Shifted(in).token /\ room.cursor = Shifted(in).cursor /\ room.marker = Shifted(in).marker
    BY <2>1
  <2>4. room.buffer = [k \in 0..(size - 1) |-> IF k < in.limit THEN Shifted(in).buffer[k] ELSE Unwritten]
    BY <2>1, <2>2, Zenon
  <2>5. QED
    BY <1>5, <2>1, <2>2, <2>3, <2>4, Zenon
<1>8. new = Read(room, in.limit, BUFFER_SIZE)
  BY <1>7, Zenon
<1> HIDE DEF new
<1>9. /\ DOMAIN new = Fields
      /\ new.buffer = [k \in DOMAIN room.buffer |->
             IF k \in in.limit..(in.limit + got - 1) THEN stream + 1 + k - in.limit ELSE room.buffer[k]]
      /\ \A f \in Fields \ {"buffer"} : new[f] = room[f]
  <2>1. DOMAIN room = Fields
    BY <1>7
  <2>2. /\ DOMAIN Read(room, in.limit, BUFFER_SIZE) = Fields
        /\ Read(room, in.limit, BUFFER_SIZE).buffer = [k \in DOMAIN room.buffer |->
               IF k \in in.limit..(in.limit + Available(BUFFER_SIZE) - 1) THEN stream + 1 + k - in.limit
               ELSE room.buffer[k]]
        /\ \A f \in Fields \ {"buffer"} : Read(room, in.limit, BUFFER_SIZE)[f] = room[f]
    BY <2>1, ReadFields
  <2>3. QED
    BY <1>8, <2>2
<1>10. new.buffer = [k \in 0..(size - 1) |->
          IF k \in in.limit..(in.limit + got - 1) THEN stream + 1 + k - in.limit
          ELSE IF k < in.limit THEN in.buffer[k] ELSE Unwritten]
  <2> HIDE DEF got
  <2>1. ASSUME NEW k \in 0..(size - 1), k < in.limit PROVE k \in 0..(in.limit - 1)
    BY <1>2, <2>1
  <2>2. ASSUME NEW k \in 0..(size - 1)
        PROVE  room.buffer[k] = IF k < in.limit THEN in.buffer[k] ELSE Unwritten
    BY <1>5, <1>7, <2>1
  <2>3. DOMAIN room.buffer = 0..(size - 1)
    BY <1>7
  <2>4. QED
    BY <1>9, <2>2, <2>3
<1>11. new.buffer = Grown(in.buffer, in.limit, size, stream, got)
  <2> HIDE DEF got
  <2>1. QED
    BY <1>10 DEF Grown
<1>12. Full(new.buffer, size, base, stream + got)
  <2> HIDE DEF base
  <2>1. Full(Grown(in.buffer, in.limit, in.limit + BUFFER_SIZE, stream, got), in.limit + BUFFER_SIZE, base, stream + got)
    BY <1>1, <1>2, <1>3, GrownBytes DEF Available
  <2>2. QED
    BY <1>11, <2>1, Zenon DEF size
<1>13. /\ new.token = 0 /\ new.cursor = in.limit /\ new.marker = in.marker
       /\ new.limit = size /\ new.buffer_size = size
  BY <1>7, <1>9 DEF Fields
<1>14. Window(new, stream + got, passed)
  <2>1. size >= BUFFER_SIZE /\ size % BUFFER_SIZE = 0 /\ in.limit <= size
    <3>1. in.limit % BUFFER_SIZE = 0
      BY <1>1 DEF Window
    <3>2. QED
      BY <1>2, <3>1, StillMultiple DEF size
  <2>2. passed - new.cursor = base
    BY <1>2, <1>13
  <2>3. QED
    BY <1>2, <1>3, <1>9, <1>12, <1>13, <2>1, <2>2 DEF Window
<1>15. QED
  BY <1>1, <1>2, <1>7, <1>13, <1>14 DEF size, room, new

\* What a label asks for, it gets, and nothing moves against the cursor; the
\* buffer grows only for a lexeme that has filled it.
LEMMA AskFills ==
    ASSUME LexerInputAssumption, Undisturbed,
           NEW in, NEW label \in Looking, NEW passed, Window(in, stream, passed),
           label = "start" => in.cursor = in.token,
           label \in {"yy18", "yy47"} => in.cursor - in.token <= MaxNumber,
           Ask(in, label)
    PROVE  /\ state' = label
           /\ Window(input', stream', passed)
           /\ input'.limit - input'.cursor >= Needs(label)
           /\ input'.limit - input'.cursor >= in.limit - in.cursor
           /\ input'.cursor - input'.token = in.cursor - in.token
           /\ input'.cursor - input'.marker = in.cursor - in.marker
           /\ input'.buffer_size > in.buffer_size => input'.cursor - input'.token >= in.buffer_size
<1> DEFINE need == Needs(label)
<1>1. /\ in.limit = in.buffer_size /\ in.limit >= BUFFER_SIZE
      /\ in.limit \in Nat /\ in.token \in Nat /\ in.cursor \in Nat /\ in.marker \in Int
      /\ in.token <= in.cursor /\ in.cursor <= in.limit
      /\ BUFFER_SIZE \in Nat /\ BUFFER_SIZE >= 9 /\ MaxNumber \in Nat /\ MaxNumber + 5 <= BUFFER_SIZE
  BY DEF Window, LexerInputAssumption, Undisturbed
<1>2. /\ need \in 0..5
      /\ label = "start" \/ label \in {"yy18", "yy47"} \/ need <= 1
      /\ label \in {"yy18", "yy47"} => need = 3
  BY DEF Needs
<1> HIDE DEF need
<1>3. CASE in.limit - in.cursor >= need
  <2>1. input' = in /\ state' = label /\ stream' = stream
    <3>1. ~(in.limit - in.cursor < Needs(label))
      BY <1>1, <1>2, <1>3 DEF need
    <3>2. QED
      BY <3>1, Zenon DEF Ask
  <2>2. Window(input', stream', passed)
    BY <2>1, Zenon
  <2>3. QED
    BY <1>1, <1>2, <1>3, <2>1, <2>2 DEF need
<1>4. CASE in.limit - in.cursor < need
  <2>1. yajp_lexer_fill_input(in, need, label)
    BY <1>4, Zenon DEF Ask, need
  <2>2. CASE in.token >= need
    <3> DEFINE new == Read(Shifted(in), in.limit - in.token, in.token)
    <3>1. input' = new /\ stream' = stream + Available(in.token) /\ state' = label
      BY <2>1, <2>2, Zenon DEF yajp_lexer_fill_input
    <3>2. /\ Window(new, stream + Available(in.token), passed)
          /\ new.token = 0 /\ new.cursor = in.cursor - in.token /\ new.marker = in.marker - in.token
          /\ new.limit = in.limit /\ new.buffer_size = in.buffer_size
      BY ShiftFills
    <3> HIDE DEF new
    <3>3. /\ new.limit - new.cursor >= need /\ new.limit - new.cursor >= in.limit - in.cursor
          /\ new.cursor - new.token = in.cursor - in.token
          /\ new.cursor - new.marker = in.cursor - in.marker
          /\ ~(new.buffer_size > in.buffer_size)
      BY <1>1, <1>2, <2>2, <3>2
    <3>4. QED
      BY <3>1, <3>2, <3>3, Zenon DEF need
  <2>3. CASE ~(in.token >= need)
    <3> DEFINE room == Extended(Shifted(in), need, TRUE)
               new == Read(room, room.cursor, BUFFER_SIZE)
    <3>1. in.token = 0 /\ in.cursor = in.limit /\ need \in 1..5
      <4>1. CASE label = "start"
        <5>1. in.limit < 9
          BY <1>1, <1>2, <1>4, <2>3, <4>1
        <5>2. QED
          BY <1>1, <5>1
      <4>2. CASE label \in {"yy18", "yy47"}
        <5>1. need = 3 /\ in.token <= 2 /\ in.cursor <= MaxNumber + 2 /\ in.limit <= MaxNumber + 4
          BY <1>1, <1>2, <1>4, <2>3, <4>2
        <5>2. QED
          BY <1>1, <5>1
      <4>3. CASE need <= 1
        BY <1>1, <1>2, <1>4, <2>3, <4>3
      <4>4. QED
        BY <1>2, <4>1, <4>2, <4>3
    <3>2. /\ Window(new, stream + Available(BUFFER_SIZE), passed)
          /\ new.token = 0 /\ new.cursor = in.cursor /\ new.marker = in.marker
          /\ new.limit = in.limit + BUFFER_SIZE
          /\ room.buffer_size = in.buffer_size + BUFFER_SIZE
      BY <3>1, ExtendFills, Zenon
    <3>3. input' = new /\ stream' = stream + Available(BUFFER_SIZE) /\ state' = label
      <4>1. \E fails \in MallocFails, moves \in Moves :
               IF fails THEN Unextended(in, label)
               ELSE LET longer == Extended(Shifted(in), need, moves)
                        allocated == longer.buffer_size - in.buffer_size
                    IN  /\ input' = Read(longer, longer.cursor, allocated)
                        /\ stream' = stream + Available(allocated)
                        /\ state' = label
        BY <2>1, <2>3, Zenon DEF yajp_lexer_fill_input
      <4>2. LET allocated == room.buffer_size - in.buffer_size
            IN  /\ input' = Read(room, room.cursor, allocated)
                /\ stream' = stream + Available(allocated)
                /\ state' = label
        BY <4>1, Zenon DEF Undisturbed
      <4>3. room.buffer_size - in.buffer_size = BUFFER_SIZE
        <5> HIDE DEF room
        <5>1. room.buffer_size = in.buffer_size + BUFFER_SIZE /\ in.buffer_size \in Nat
          BY <1>1, <3>2
        <5>2. QED
          BY <1>1, <5>1
      <4>4. QED
        BY <4>2, <4>3, Zenon
    <3> HIDE DEF new, room
    <3>4. /\ new.limit - new.cursor >= need /\ new.limit - new.cursor >= in.limit - in.cursor
          /\ new.cursor - new.token = in.cursor - in.token
          /\ new.cursor - new.marker = in.cursor - in.marker
          /\ new.cursor - new.token >= in.buffer_size
      BY <1>1, <1>2, <3>1, <3>2
    <3>5. QED
      BY <3>2, <3>3, <3>4, Zenon DEF need
  <2>4. QED
    BY <2>2, <2>3
<1>5. QED
  BY <1>1, <1>2, <1>3, <1>4
-----------------------------------------------------------------------------
(* The steps of the scanner.                                               *)

\* A label to which there is a way back was reached through one that marks.
LEMMA MarkedOnTheWay ==
    ASSUME NEW from \in Looking, NEW e \in Edges[from], e[2] \in Marked, e[2] \notin Marks
    PROVE  from \in Marked
  BY EdgesAre, LabelsAre DEF Leading, Labels, Marked, Marks

\* How many bytes the labels ask for and rely on.
LEMMA EnsuredIs ==
    ASSUME NEW label
    PROVE  Ensured(label) \in 1..5 /\ Needs(label) \in 0..5 /\ Ensured("start") <= Needs("start")
  BY DEF Ensured, Needs

\* yajp_lexer_init_input fills the buffer from the beginning of the stream.
LEMMA InitIInv ==
    ASSUME LexerInputAssumption, Init
    PROVE  IInv
<1> DEFINE bytes == [k \in 0..(BUFFER_SIZE - 1) |-> IF k < StreamSize THEN k + 1 ELSE Unwritten]
<1>1. /\ input = [buffer |-> bytes, buffer_size |-> BUFFER_SIZE, limit |-> BUFFER_SIZE,
                  cursor |-> 0, marker |-> 0, token |-> 0]
      /\ stream = Smaller(BUFFER_SIZE, StreamSize)
      /\ state = "loop" /\ scanned = 0 /\ marked = 0
  BY DEF Init
<1>2. BUFFER_SIZE \in Nat /\ BUFFER_SIZE >= 9 /\ StreamSize \in Nat \ {0}
  BY DEF LexerInputAssumption
<1>3. Full(bytes, BUFFER_SIZE, 0, stream)
  BY <1>1, <1>2 DEF Full, Unwritten, Smaller
<1> HIDE DEF bytes
<1>4. /\ DOMAIN input = Fields
      /\ input.buffer = bytes /\ input.buffer_size = BUFFER_SIZE /\ input.limit = BUFFER_SIZE
      /\ input.cursor = 0 /\ input.marker = 0 /\ input.token = 0
  BY <1>1 DEF Fields
<1>5. BUFFER_SIZE % BUFFER_SIZE = 0
  BY <1>2
<1>6. Window(input, stream, scanned)
  BY <1>1, <1>2, <1>3, <1>4, <1>5 DEF Window
<1>7. "loop" \notin Looking
  BY LabelsAre DEF Labels
<1>8. QED
  BY <1>1, <1>2, <1>6, <1>7 DEF IInv, States, Marked

\* The buffer grows in this step for one lexeme that filled it.
Grows == input'.buffer_size > input.buffer_size => input'.cursor - input'.token >= input.buffer_size

\* A token begins at the cursor, and the first bytes are asked for.
LEMMA BeginIInv ==
    ASSUME LexerInputAssumption, Undisturbed, IInv, Begin
    PROVE  IInv' /\ Grows
<1> DEFINE in == [input EXCEPT !.token = input.cursor]
<1>1. /\ DOMAIN input = Fields /\ Window(input, stream, scanned)
      /\ input.cursor \in Nat /\ scanned < StreamSize /\ marked \in 0..StreamSize
  BY DEF IInv, Window, Begin
<1>2. /\ DOMAIN in = Fields /\ in.token = input.cursor
      /\ \A f \in Fields \ {"token"} : in[f] = input[f]
  BY <1>1 DEF Fields
<1>3. Ask(in, "start") /\ scanned' = scanned /\ marked' = marked
  BY DEF Begin
<1> HIDE DEF in
<1>4. /\ in.buffer = input.buffer /\ in.buffer_size = input.buffer_size /\ in.limit = input.limit
      /\ in.cursor = input.cursor /\ in.marker = input.marker
  BY <1>2 DEF Fields
<1>5. Window(in, stream, scanned)
  BY <1>1, <1>2, <1>4 DEF Window
<1>6. "start" \in Looking /\ "start" \notin {"yy18", "yy47"} /\ "start" \notin Marked
  BY LabelsAre DEF Labels, Marked
<1>7. /\ state' = "start" /\ Window(input', stream', scanned)
      /\ input'.limit - input'.cursor >= Needs("start")
      /\ input'.buffer_size > in.buffer_size => input'.cursor - input'.token >= in.buffer_size
  BY <1>2, <1>3, <1>4, <1>5, <1>6, AskFills
<1>8. input'.limit - input'.cursor >= Ensured("start")
  BY <1>7 DEF Ensured, Needs
<1>9. IInv'
  BY <1>1, <1>3, <1>6, <1>7, <1>8 DEF IInv, States
<1>10. Grows
  BY <1>4, <1>7 DEF Grows
<1>11. QED
  BY <1>9, <1>10

\* A token ends where the scanner stands.
LEMMA StopIInv ==
    ASSUME LexerInputAssumption, IInv, Stop
    PROVE  IInv' /\ Grows
<1>1. input' = input /\ stream' = stream /\ scanned' = scanned /\ marked' = marked
  BY DEF Stop
<1>2. state' \in {"loop", "token", "error"} /\ state \in Looking
  BY LabelsAre DEF Stop, Labels, Spaces, Numbers, FirstBytes
<1>3. state' \notin Looking /\ state' \in States /\ state # "eof"
  BY <1>2, LabelsAre DEF States, Labels
<1>4. input.buffer_size \in Nat
  BY DEF IInv, Window
<1>5. Window(input, stream, scanned)'
  BY <1>1 DEF IInv, Window, Full
<1>6. IInv'
  BY <1>1, <1>3, <1>5 DEF IInv, Marked
<1>7. QED
  BY <1>1, <1>4, <1>6 DEF Grows

\* A number that went wrong ends at the last mark.
LEMMA BacktrackIInv ==
    ASSUME LexerInputAssumption, IInv, Backtrack
    PROVE  IInv' /\ Grows
<1>1. /\ DOMAIN input = Fields /\ Window(input, stream, scanned)
      /\ input.limit \in Nat /\ input.buffer_size \in Nat /\ input.token \in Nat /\ input.cursor \in Nat
      /\ input.cursor <= input.limit /\ input.cursor <= scanned /\ scanned \in 0..StreamSize
  BY DEF IInv, Window
<1>2. state \in Looking /\ state \in Marked /\ state # "eof"
  BY LabelsAre DEF Backtrack, Marked, Labels, Spaces, Numbers, FirstBytes
<1>3. /\ input.marker \in input.token..input.cursor /\ marked = scanned - (input.cursor - input.marker)
      /\ marked \in 0..StreamSize /\ scanned < StreamSize /\ StreamSize \in Nat
  BY <1>2 DEF IInv, LexerInputAssumption
<1>4. input' = [input EXCEPT !.cursor = input.marker] /\ scanned' = marked /\ marked' = marked /\ stream' = stream
  BY DEF Backtrack
<1>5. /\ DOMAIN input' = Fields /\ input'.cursor = input.marker
      /\ input'.buffer = input.buffer /\ input'.buffer_size = input.buffer_size /\ input'.limit = input.limit
      /\ input'.token = input.token /\ input'.marker = input.marker
  BY <1>1, <1>4 DEF Fields
<1>6. /\ scanned' - input'.cursor = scanned - input.cursor
      /\ scanned' < StreamSize /\ scanned' \in 0..StreamSize /\ input'.cursor <= scanned'
      /\ input'.cursor \in Nat /\ input'.token <= input'.cursor /\ input'.cursor <= input'.limit
  BY <1>1, <1>3, <1>4, <1>5
<1>7. Full(input.buffer, input.limit, scanned - input.cursor, stream)
  BY <1>1 DEF Window
<1>8. Full(input'.buffer, input'.limit, scanned' - input'.cursor, stream')
  BY <1>4, <1>5, <1>6, <1>7, Zenon
<1>9. Window(input', stream', scanned')
  BY <1>1, <1>5, <1>6, <1>8 DEF Window
<1>10. state' \in {"token", "error"} /\ state' \notin Looking
  BY LabelsAre DEF Backtrack, Labels
<1>11. IInv'
  BY <1>3, <1>4, <1>6, <1>9, <1>10 DEF IInv, States, Marked
<1>12. QED
  BY <1>1, <1>5, <1>11 DEF Grows

\* Where an edge leads, the scanner looks at the next byte or is at an end.
LEMMA LeadsOn ==
    ASSUME NEW from \in Looking, NEW e \in Edges[from]
    PROVE  /\ e[2] \in Looking \/ e[2] \in DOMAIN Ends
           /\ e[2] \in Looking => e[2] \notin DOMAIN Ends /\ e[2] # "start"
           /\ e[2] \in DOMAIN Ends =>
                 /\ Followed(Ends[e[2]]) \in {"loop", "token", "error", "eof"}
                 /\ Followed(Ends[e[2]]) = "eof" <=> e[2] = "yy2"
<1>1. Leading(from, e[2])
  BY EdgesAre
<1>2. e[2] \in Looking \/ e[2] \in DOMAIN Ends
  BY <1>1, LabelsAre DEF Leading, Labels, Ends
<1>3. e[2] \in Looking => e[2] \notin DOMAIN Ends /\ e[2] # "start"
  BY <1>1, LabelsAre DEF Leading, Labels, Ends
<1>4. ASSUME e[2] \in DOMAIN Ends
      PROVE  /\ Followed(Ends[e[2]]) \in {"loop", "token", "error", "eof"}
             /\ Followed(Ends[e[2]]) = "eof" <=> e[2] = "yy2"
  BY <1>4 DEF Ends, Followed, Skips
<1>5. QED
  BY <1>2, <1>3, <1>4

\* A byte is passed, and the label it leads to may ask for more.
LEMMA ScanIInv ==
    ASSUME LexerInputAssumption, Undisturbed, IInv, Scan
    PROVE  IInv' /\ Grows
<1>1. /\ DOMAIN input = Fields /\ Window(input, stream, scanned)
      /\ input.limit = input.buffer_size
      /\ input.limit \in Nat /\ input.token \in Nat /\ input.cursor \in Nat /\ input.marker \in Int
      /\ input.token <= input.cursor /\ input.cursor <= input.limit /\ input.cursor <= scanned
      /\ scanned \in Nat /\ StreamSize \in Nat
  BY DEF IInv, Window, LexerInputAssumption
<1>2. state \in Looking /\ scanned < StreamSize /\ marked \in 0..StreamSize
  BY LabelsAre DEF Scan, IInv, Labels
<1>3. input.limit - input.cursor >= Ensured(state) /\ Ensured(state) >= 1 /\ Ensured(state) \in Nat
  BY <1>2, EnsuredIs DEF IInv
<1> DEFINE passed(label) == [input EXCEPT !.cursor = @ + 1,
                                          !.marker = IF label \in Marks THEN input.cursor + 1 ELSE @]
<1>4. PICK label \in Goes[state] :
        /\ AtZero <=> label = "yy2"
        /\ label \in {"yy16", "yy18", "yy40", "yy41", "yy47", "yy49", "yy50"}
              => input.cursor - input.token < MaxNumber
        /\ IF label \in DOMAIN Ends
           THEN input' = passed(label) /\ state' = Followed(Ends[label]) /\ UNCHANGED stream
           ELSE Ask(passed(label), label)
        /\ scanned' = scanned + 1
        /\ marked' = IF label \in Marks THEN scanned + 1 ELSE marked
  BY Zenon DEF Scan
<1>17. PICK e \in Edges[state] : label = e[2]
  BY <1>2 DEF Goes
<1>5. /\ DOMAIN passed(label) = Fields /\ passed(label).cursor = input.cursor + 1
      /\ passed(label).marker = IF label \in Marks THEN input.cursor + 1 ELSE input.marker
      /\ passed(label).buffer = input.buffer /\ passed(label).buffer_size = input.buffer_size /\ passed(label).limit = input.limit
      /\ passed(label).token = input.token
  BY <1>1 DEF Fields
<1>6. /\ label \in Looking \/ label \in DOMAIN Ends
      /\ label \in Looking => label \notin DOMAIN Ends /\ label # "start"
  BY <1>2, <1>17, LeadsOn
<1>7. /\ AtZero <=> label = "yy2"
      /\ label \in {"yy18", "yy47"} => input.cursor - input.token < MaxNumber
      /\ scanned' = scanned + 1
      /\ marked' = IF label \in Marks THEN scanned + 1 ELSE marked
  BY <1>4
<1>8. /\ label \in DOMAIN Ends => input' = passed(label) /\ state' = Followed(Ends[label]) /\ stream' = stream
      /\ label \notin DOMAIN Ends => Ask(passed(label), label)
  BY <1>4
<1> HIDE DEF passed
<1>9. input.cursor + 1 <= input.limit
  BY <1>1, <1>3
<1>10. /\ passed(label).cursor \in Nat /\ passed(label).marker \in Int /\ passed(label).token <= passed(label).cursor
       /\ passed(label).cursor <= passed(label).limit /\ passed(label).cursor <= scanned + 1 /\ scanned + 1 \in 0..StreamSize
       /\ scanned + 1 - passed(label).cursor = scanned - input.cursor
  BY <1>1, <1>2, <1>5, <1>9
<1>11. Window(passed(label), stream, scanned + 1)
  <2>1. Full(input.buffer, input.limit, scanned - input.cursor, stream)
    BY <1>1 DEF Window
  <2>2. Full(passed(label).buffer, passed(label).limit, scanned + 1 - passed(label).cursor, stream)
    BY <1>5, <1>10, <2>1, Zenon
  <2>3. QED
    BY <1>1, <1>5, <1>10, <2>2 DEF Window
\* Only the terminating zero is followed by nothing.
<1>12. label # "yy2" => scanned + 1 < StreamSize
  <2>1. \A k \in 0..(input.limit - 1) :
           scanned - input.cursor + k < StreamSize => input.buffer[k] = scanned - input.cursor + k + 1
    BY <1>1 DEF Window, Full
  <2>2. input.buffer[input.cursor] = scanned + 1
    BY <1>1, <1>2, <1>9, <2>1
  <2>3. label # "yy2" => scanned + 1 # StreamSize
    BY <1>7, <2>2 DEF AtZero
  <2>4. QED
    BY <1>1, <1>2, <2>3
<1>13. marked' \in 0..StreamSize
  BY <1>1, <1>2, <1>7
<1>14. CASE label \in DOMAIN Ends
  <2>1. /\ state' \in {"loop", "token", "error", "eof"} /\ state' \notin Looking
        /\ state' = "eof" <=> label = "yy2"
    BY <1>2, <1>17, <1>8, <1>14, LeadsOn, LabelsAre DEF Labels
  <2>2. Window(input', stream', scanned')
    BY <1>7, <1>8, <1>11, <1>14, Zenon
  <2>3. IInv'
    BY <1>7, <1>12, <1>13, <2>1, <2>2 DEF IInv, States, Marked
  <2>4. input'.buffer_size = input.buffer_size
    BY <1>5, <1>8, <1>14
  <2>5. QED
    BY <1>1, <2>3, <2>4 DEF Grows
<1>15. CASE label \in Looking
  <2>1. label \notin DOMAIN Ends /\ label # "start" /\ label # "yy2" /\ label # "eof"
    BY <1>6, <1>15, LabelsAre DEF Labels
  <2>2. label \in {"yy18", "yy47"} => passed(label).cursor - passed(label).token <= MaxNumber
    BY <1>1, <1>5, <1>7, <1>10 DEF LexerInputAssumption
  <2>3. /\ state' = label /\ Window(input', stream', scanned + 1)
        /\ input'.limit - input'.cursor >= Needs(label)
        /\ input'.limit - input'.cursor >= passed(label).limit - passed(label).cursor
        /\ input'.cursor - input'.token = passed(label).cursor - passed(label).token
        /\ input'.cursor - input'.marker = passed(label).cursor - passed(label).marker
        /\ input'.buffer_size > passed(label).buffer_size => input'.cursor - input'.token >= passed(label).buffer_size
    BY <1>8, <1>11, <1>15, <2>1, <2>2, AskFills
  <2>4. /\ input'.limit \in Nat /\ input'.cursor \in Nat /\ input'.token \in Nat /\ input'.marker \in Int
        /\ input'.token <= input'.cursor
    BY <2>3 DEF Window
  <2>5. input'.limit - input'.cursor >= Ensured(label)
    <3>1. Ensured(state) - 1 >= Ensured(label) \/ Needs(label) >= Ensured(label)
      BY <1>2, <1>17, <1>15, EnsuredOnTheWay
    <3>2. passed(label).limit - passed(label).cursor >= Ensured(state) - 1
      BY <1>1, <1>3, <1>5
    <3>3. QED
      BY <1>1, <1>3, <1>5, <2>3, <2>4, <3>1, <3>2, EnsuredIs
  <2>6. label \in Marked => /\ input'.marker \in input'.token..input'.cursor
                            /\ marked' = scanned' - (input'.cursor - input'.marker)
    <3>1. CASE label \in Marks
      <4>1. passed(label).marker = passed(label).cursor /\ marked' = scanned'
        BY <1>5, <1>7, <3>1
      <4>2. input'.marker = input'.cursor
        BY <1>10, <2>3, <2>4, <4>1
      <4>3. QED
        BY <1>1, <1>7, <2>4, <4>1, <4>2
    <3>2. CASE label \notin Marks /\ label \in Marked
      <4>1. state \in Marked
        BY <1>2, <1>17, <3>2, MarkedOnTheWay
      <4>2. input.marker \in input.token..input.cursor /\ marked = scanned - (input.cursor - input.marker)
        BY <4>1 DEF IInv
      <4>3. passed(label).marker = input.marker /\ marked' = marked
        BY <1>5, <1>7, <3>2
      <4>4. QED
        BY <1>1, <1>5, <1>7, <2>3, <2>4, <4>2, <4>3
    <3>3. QED
      BY <3>1, <3>2
  <2>7. IInv'
    BY <1>7, <1>12, <1>13, <1>15, <2>1, <2>3, <2>5, <2>6 DEF IInv, States
  <2>8. Grows
    <3>1. passed(label).cursor - passed(label).token = input.cursor + 1 - input.token
      <4>1. passed(label).cursor = input.cursor + 1 /\ passed(label).token = input.token
        BY <1>5
      <4>2. QED
        BY <1>1, <4>1
    <3>2. input'.cursor - input'.token = input.cursor + 1 - input.token
      BY <2>3, <3>1
    <3>3. QED
      BY <1>1, <1>5, <2>3, <2>4, <3>2 DEF Grows
  <2>9. QED
    BY <2>7, <2>8
<1>16. QED
  BY <1>6, <1>14, <1>15

\* Every step keeps the invariant, and the buffer grows for one lexeme only.
LEMMA StepIInv ==
    ASSUME LexerInputAssumption, Undisturbed, IInv, [Next]_vars
    PROVE  IInv' /\ Grows
<1>1. CASE Begin
  BY <1>1, BeginIInv
<1>2. CASE Scan
  BY <1>2, ScanIInv
<1>3. CASE Stop
  BY <1>3, StopIInv
<1>4. CASE Backtrack
  BY <1>4, BacktrackIInv
<1>5. CASE Done \/ UNCHANGED vars
  <2>1. UNCHANGED vars
    BY <1>5 DEF Done
  <2>2. IInv'
    BY <2>1 DEF vars, IInv, Window, Full
  <2>3. input.buffer_size \in Nat /\ input' = input
    BY <2>1 DEF vars, IInv, Window
  <2>4. QED
    BY <2>2, <2>3 DEF Grows
<1>6. QED
  BY <1>1, <1>2, <1>3, <1>4, <1>5 DEF Next

\* The invariant holds in every state the lexer reaches.
THEOREM Invariance ==
    ASSUME Undisturbed
    PROVE  Spec => []IInv
<1>1. Init => IInv
  BY LexerInputAssumption, InitIInv
<1>2. IInv /\ [Next]_vars => IInv'
  BY LexerInputAssumption, StepIInv
<1>3. QED
  BY <1>1, <1>2, PTL DEF Spec
-----------------------------------------------------------------------------
(* What the runs check, for every buffer and every stream.                 *)

\* The pointers of yajp_lexer_input_t keep their order and stay in the buffer.
THEOREM TypeCorrect ==
    ASSUME Undisturbed
    PROVE  Spec => []TypeOK
<1>1. IInv => TypeOK
  <2> SUFFICES ASSUME IInv PROVE TypeOK
    OBVIOUS
  <2>1. Window(input, stream, scanned)
    BY DEF IInv
  <2>2. /\ DOMAIN input.buffer = 0..(input.buffer_size - 1)
        /\ \A k \in DOMAIN input.buffer : input.buffer[k] \in 0..StreamSize
    BY <2>1 DEF Window, Full
  <2>3. stream \in 0..StreamSize
    BY <2>1, LexerInputAssumption DEF Window, Full, Smaller, LexerInputAssumption
  <2>4. QED
    BY <2>1, <2>2, <2>3 DEF TypeOK, IInv, Window, States
<1>2. QED
  BY <1>1, Invariance, PTL

\* No byte of the stream is lost, looked at twice or looked at before it was read.
THEOREM NextByte ==
    ASSUME Undisturbed
    PROVE  Spec => []AtNextByte
<1>1. IInv => AtNextByte
  <2> SUFFICES ASSUME IInv PROVE AtNextByte
    OBVIOUS
  <2>1. state # "overrun"
    BY LabelsAre DEF IInv, States, Labels
  <2>2. ASSUME state \in Looking
        PROVE  input.cursor < input.buffer_size /\ input.buffer[input.cursor] = scanned + 1
    <3>1. /\ input.limit = input.buffer_size /\ input.limit \in Nat /\ input.cursor \in Nat
          /\ input.cursor <= scanned /\ scanned \in Nat /\ StreamSize \in Nat
      BY LexerInputAssumption DEF IInv, Window, LexerInputAssumption
    <3>2. /\ input.limit - input.cursor >= Ensured(state) /\ Ensured(state) \in 1..5
          /\ scanned < StreamSize
      BY <2>2, EnsuredIs, LabelsAre DEF IInv, Labels
    <3>3. \A k \in 0..(input.limit - 1) :
             scanned - input.cursor + k < StreamSize => input.buffer[k] = scanned - input.cursor + k + 1
      BY DEF IInv, Window, Full
    <3>4. QED
      BY <3>1, <3>2, <3>3
  <2>3. QED
    BY <2>1, <2>2 DEF AtNextByte
<1>2. QED
  BY <1>1, Invariance, PTL

\* A lexeme stays in the buffer in one piece until it is picked.
THEOREM LexemeStays ==
    ASSUME Undisturbed
    PROVE  Spec => []LexemeIntact
<1>1. IInv => LexemeIntact
  <2> SUFFICES ASSUME IInv, NEW k \in input.token..(input.cursor - 1)
               PROVE  input.buffer[k] = scanned - (input.cursor - k) + 1
    BY DEF LexemeIntact
  <2>1. /\ input.limit \in Nat /\ input.token \in Nat /\ input.cursor \in Nat /\ input.cursor <= input.limit
        /\ scanned \in 0..StreamSize /\ StreamSize \in Nat
    BY LexerInputAssumption DEF IInv, Window, LexerInputAssumption
  <2>2. \A j \in 0..(input.limit - 1) :
           scanned - input.cursor + j < StreamSize => input.buffer[j] = scanned - input.cursor + j + 1
    BY DEF IInv, Window, Full
  <2>3. k \in 0..(input.limit - 1) /\ scanned - input.cursor + k < StreamSize
    BY <2>1
  <2>4. QED
    BY <2>1, <2>2, <2>3
<1>2. QED
  BY <1>1, Invariance, PTL

\* The buffer grows only when one lexeme fills all of it (README.md:12).
THEOREM GrowsForLexeme ==
    ASSUME Undisturbed
    PROVE  Spec => GrowsForOneLexeme
<1>1. IInv /\ [Next]_vars => [Grows]_vars
  BY LexerInputAssumption, StepIInv
<1>2. Grows => (input'.buffer_size > input.buffer_size => input'.cursor - input'.token >= input.buffer_size)
  BY DEF Grows
<1>3. QED
  BY <1>1, <1>2, Invariance, PTL DEF Spec, GrowsForOneLexeme
=============================================================================
