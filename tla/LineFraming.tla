---------------------------- MODULE LineFraming ----------------------------
(***************************************************************************)
(* How pool_connection.rs cuts the pool's byte stream into lines: read_line *)
(* takes the login reply byte by byte, then receiver_loop reads chunks and *)
(* take_complete_lines takes the whole lines out of its buffer.            *)
(*                                                                         *)
(* `received` is what has been taken out of the stream so far, on one      *)
(* connection; a chunk is any sequence of bytes the read returns.          *)
(***************************************************************************)
EXTENDS Naturals, Sequences, SequencesExt

CONSTANTS Newline, Space, Letter,   \* the three kinds of byte told apart
          MaxLineBytes,              \* MAX_LINE_BYTES
          ChunkSize,                 \* the size of receiver_loop's chunk
          MaxBytes                   \* bound: bytes read in all

ASSUME FramingAssumption ==
    /\ Newline # Space /\ Space # Letter /\ Newline # Letter
    /\ MaxLineBytes \in Nat \ {0} /\ ChunkSize \in Nat \ {0}
    /\ MaxBytes \in Nat

VARIABLES received, phase, line, reply, pending, lines

vars == <<received, phase, line, reply, pending, lines>>
-----------------------------------------------------------------------------
Bytes == {Newline, Space, Letter}

(* str::trim. *)
Trim(s) ==
    LET solid == {i \in 1 .. Len(s) : s[i] # Space}
    IN IF solid = {} THEN <<>> ELSE SubSeq(s, Min(solid), Max(solid))

Init ==
    /\ received = <<>>
    /\ phase = "login"
    /\ line = <<>> /\ reply = <<>>
    /\ pending = <<>> /\ lines = <<>>

CanRead(n) == Len(received) + n <= MaxBytes

OverLong(s) == Len(s) > MaxLineBytes

(* read_line, one byte. *)
ReadByte(b) ==
    /\ phase = "login" /\ CanRead(1)
    /\ received' = Append(received, b)
    /\ IF b = Newline
         THEN reply' = line /\ line' = <<>> /\ phase' = "receive"
         ELSE /\ line' = Append(line, b)
              /\ phase' = IF OverLong(line') THEN "overflow" ELSE phase
              /\ reply' = reply
    /\ UNCHANGED <<pending, lines>>

(* End of file ends the line too, unfinished as it is; the receiver's next *)
(* read finds the stream closed.                                           *)
LoginEof ==
    /\ phase = "login"
    /\ reply' = line /\ line' = <<>>
    /\ phase' = "closed"
    /\ UNCHANGED <<received, pending, lines>>

(* A read error in either phase, or end of file in the receiver. *)
ReadFails ==
    /\ phase \in {"login", "receive"}
    /\ phase' = "closed"
    /\ UNCHANGED <<received, line, reply, pending, lines>>

(* reconnect succeeded: a new stream, read from its start. *)
Reconnect ==
    /\ phase \in {"overflow", "closed"}
    /\ received' = <<>>
    /\ phase' = "login"
    /\ line' = <<>> /\ reply' = <<>>
    /\ pending' = <<>>
    /\ lines' = <<>>

(* Taking lines off the front until no newline is left. *)
TakeByte(taken, b) ==
    IF b # Newline THEN [taken EXCEPT !.rest = Append(@, b)]
    ELSE [rest |-> <<>>,
          lines |-> IF Trim(taken.rest) = <<>> THEN taken.lines
                    ELSE Append(taken.lines, Trim(taken.rest))]

(* Faulty variant: one line is taken, the others wait for the next read. *)
TakeFirstLine(buffer) ==
    LET ends == {i \in DOMAIN buffer : buffer[i] = Newline}
    IN IF ends = {} THEN [rest |-> buffer, lines |-> <<>>]
       ELSE [FoldLeft(TakeByte, [rest |-> <<>>, lines |-> <<>>],
                      SubSeq(buffer, 1, Min(ends)))
             EXCEPT !.rest = SubSeq(buffer, Min(ends) + 1, Len(buffer))]

take_complete_lines(buffer) ==
    FoldLeft(TakeByte, [rest |-> <<>>, lines |-> <<>>], buffer)

(* Faulty variant: the limit is applied to the buffer as it arrives. *)
OverflowsOnArrival(buffer) == OverLong(buffer)

Overflows(buffer) == OverLong(take_complete_lines(buffer).rest)

(* receiver_loop, one read.  On overflow the lines taken by this call are  *)
(* dropped with the buffer, and the loop reconnects.                       *)
ReadChunk(chunk) ==
    /\ phase = "receive" /\ CanRead(Len(chunk))
    /\ received' = received \o chunk
    /\ LET buffer == pending \o chunk
       IN IF Overflows(buffer)
            THEN phase' = "overflow" /\ pending' = <<>> /\ lines' = lines
            ELSE /\ pending' = take_complete_lines(buffer).rest
                 /\ lines' = lines \o take_complete_lines(buffer).lines
                 /\ phase' = phase
    /\ UNCHANGED <<line, reply>>

Next == \/ \E b \in Bytes : ReadByte(b)
        \/ LoginEof \/ ReadFails \/ Reconnect
        \/ \E n \in 1 .. ChunkSize : \E chunk \in [1 .. n -> Bytes] : ReadChunk(chunk)

Spec == Init /\ [][Next]_vars
-----------------------------------------------------------------------------
(* Reference: a line of a stream is what lies between two neighbouring     *)
(* newlines; the receiver handles the whole lines after the first, except  *)
(* blank ones, trimmed and in order.                                       *)
Newlines(stream) == {i \in 1 .. Len(stream) : stream[i] = Newline}
Starts(stream) == {1} \cup {i + 1 : i \in Newlines(stream)}
LineFrom(stream, i) ==
    LET ends == {j \in Newlines(stream) : j >= i}
    IN SubSeq(stream, i, (IF ends = {} THEN Len(stream) + 1 ELSE Min(ends)) - 1)
Whole(stream) == {i \in Starts(stream) : \E j \in Newlines(stream) : j >= i}
Unfinished(stream) == LineFrom(stream, Max(Starts(stream)))
Handled(stream) ==
    {i \in Whole(stream) : i # 1 /\ Trim(LineFrom(stream, i)) # <<>>}
Nth(S, k) == CHOOSE i \in S : Cardinality({j \in S : j < i}) = k - 1
Deliverable(stream) ==
    [k \in 1 .. Cardinality(Handled(stream)) |->
        Trim(LineFrom(stream, Nth(Handled(stream), k)))]

(* However the reads cut the stream, the login reply is the first line and *)
(* the receiver handles exactly the other whole lines that are not blank,  *)
(* in order, each once: none is lost between the two framers, split or     *)
(* joined.  Only an overflow drops whole lines, those of the same read.     *)
LinesDelivered ==
    IF Whole(received) = {} THEN lines = <<>>
    ELSE /\ reply = LineFrom(received, 1)
         /\ IsPrefix(lines, Deliverable(received))
         /\ phase = "receive" => lines = Deliverable(received)

(* The length limit is on lines.  A connection is dropped for an overlong  *)
(* line only if the line it is in the middle of is overlong, however many  *)
(* short ones arrived with it; between two reads never more than a line of *)
(* the permitted size is buffered, by either framer, and no line handled   *)
(* is longer than that and a chunk.                                        *)
LimitOnLines ==
    /\ phase = "overflow" => Len(Unfinished(received)) > MaxLineBytes
    /\ Len(pending) <= MaxLineBytes
    /\ phase = "login" => Len(line) <= MaxLineBytes
    /\ \A k \in DOMAIN lines : Len(lines[k]) < MaxLineBytes + ChunkSize
=============================================================================
