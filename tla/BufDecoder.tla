---------------------------- MODULE BufDecoder -----------------------------
(***************************************************************************)
(* A watched file's decoder: BufDecoder (component/decoder.rs), the stream *)
(* decoders it drives, and WatchedFile::fill_buf and decode that drive it. *)
(*                                                                         *)
(*   file --fill_buf--> buf --gzip | plain--> stream.buf                   *)
(*                                   --frames and events--> the reader     *)
(*                                                                         *)
(* Bytes are known by their position in the file, and in the text that     *)
(* comes out of the stream decoder.  A gzip file is a sequence of members: *)
(* a header, a body each byte of which expands to several of text, and a   *)
(* footer.  Inflating is external (flate2): it goes on until it has no     *)
(* more input or no more room, and may hold text it has no room for.       *)
(*                                                                         *)
(* Delimited is taken for what it promises: frames end at the positions    *)
(* `ends` of the text.                                                     *)
(***************************************************************************)
EXTENDS Buf, SequencesExt

CONSTANTS
  Kinds,       \* stream decoders: "plain", "gzip"
  HeaderLen,
  BodyLen,
  Expansion,   \* bytes of text that one byte of a body expands to
  FooterLen,   \* 8
  Broken,      \* the members, counted from 0, whose header is not one
  EndSets,     \* where the frames may end in the text
  MaxSize      \* bound: length of the file

ASSUME BufDecoderAssumption ==
  /\ Kinds \subseteq {"plain", "gzip"}
  /\ {HeaderLen, BodyLen, Expansion, FooterLen} \subseteq Nat \ {0}
  /\ Broken \subseteq Nat
  /\ EndSets \subseteq SUBSET (Nat \ {0})
  /\ MaxSize \in Nat

VARIABLES
  kind,     \* which stream decoder it is
  ends,     \* the positions of the text where a frame is complete
  size,     \* length of the file
  offset,   \* WatchedFile.offset
  buf,      \* BufDecoder.buf: bytes of the file
  out,      \* BufDecoder.stream.buf: bytes of the text
  gz,       \* gzip: its state, and the bytes of this member's body read and written
  pc,       \* idle | decoding | framing | flushing | flushed | panicked
  again,    \* this round of decode has moved something
  events,   \* `events`: the frames of this turn, by their ends
  given,    \* history: the frames the reader got
  lost,     \* history: the frames that an error dropped
  peakIn,   \* history: the most that was unread at once in buf,
  peakOut   \*   and in stream.buf

fileVars == <<kind, ends, size, offset>>
frameVars == <<events, given, lost>>
vars == <<fileVars, buf, out, gz, pc, again, frameVars, peakIn, peakOut>>

NewMember == [state |-> "header", read |-> 0, written |-> 0, member |-> 0]

Init ==
  /\ kind \in Kinds
  /\ ends \in EndSets
  /\ size = 0
  /\ offset = 0
  /\ buf = EmptyBuf
  /\ out = EmptyBuf
  /\ gz = NewMember
  /\ pc = "idle"
  /\ again = FALSE
  /\ events = <<>>
  /\ given = <<>>
  /\ lost = {}
  /\ peakIn = 0
  /\ peakOut = 0

Least(m, n) == IF m < n THEN m ELSE n

Most(m, n) == IF m > n THEN m ELSE n

\* How much of its stream a buffer's reader has taken, and how much it has received.
Consumed(b) == b.base + b.rp
Filled(b) == b.base + b.wp

-----------------------------------------------------------------------------
(* The stream decoders: what decode may answer for so much input and room. *)

Answer(read, written, state) ==
  [ok |-> TRUE, read |-> read, written |-> written, gz |-> state]

Failure == [ok |-> FALSE, read |-> 0, written |-> 0, gz |-> gz]

\* flate2 has come to a byte it cannot inflate, and stays there.
Spoils == [Failure EXCEPT !.gz.state = "spoilt"]

Plain(avail, room) == {Answer(Least(avail, room), Least(avail, room), gz)}

\* A header is read when all of it is there.
Header(avail) ==
  IF avail < HeaderLen THEN {Answer(0, 0, gz)}
  ELSE {Answer(HeaderLen, 0, [gz EXCEPT !.state = "decompress"])}

Footer(avail) ==
  IF avail < FooterLen THEN {Answer(0, 0, gz)}
  ELSE {Answer(FooterLen, 0,
               [state |-> "header", read |-> 0, written |-> 0, member |-> gz.member + 1])}

\* Decompress: as much as there is input for, or room.
Inflate(avail, room) ==
  LET most       == Least(avail, BodyLen - gz.read)
      Written(r) == Least(room, Expansion * (gz.read + r) - gz.written)
      After(r)   ==
        LET read    == gz.read + r
            written == gz.written + Written(r)
            over    == read = BodyLen /\ written = Expansion * BodyLen
        IN  [state   |-> IF over THEN "footer" ELSE "decompress",
             read    |-> read,
             written |-> written,
             member  |-> gz.member]
  IN  {Answer(r, Written(r), After(r)) :
         r \in {q \in 0 .. most : q = most \/ Written(q) = room}}

\* Any body may turn out to be spoilt, when part of its text has been given.
Gzip(avail, room) ==
  CASE gz.state = "header" ->
         IF gz.member \in Broken THEN {Failure} ELSE Header(avail)
    [] gz.state = "decompress" -> Inflate(avail, room) \union {Spoils}
    [] gz.state = "spoilt" -> {Failure}
    [] gz.state = "footer" -> Footer(avail)

StreamDecode(avail, room) == IF kind = "plain" THEN Plain(avail, room) ELSE Gzip(avail, room)

\* Mutant of NeedsMoreInput: an answer that only reads, or only writes, ends the turn.
IsIdle(r) == r.read = 0 \/ r.written = 0

\* Mutant of NeedsMoreInput: no answer ends the turn.
NeverIdle(r) == FALSE

NeedsMoreInput(r) == r.read = 0 /\ r.written = 0

-----------------------------------------------------------------------------
(* The file and the reader's turn                                          *)

GrowFile ==
  /\ size < MaxSize
  /\ size' = size + 1
  /\ UNCHANGED <<kind, ends, offset, buf, out, gz, pc, again, frameVars, peakIn, peakOut>>

\* fill_buf asks for as much as the buffer is long, and slices what is free of it.
Fill ==
  /\ pc = "idle"
  /\ offset < size
  /\ LET b       == EnsureWriteable(buf)
         canRead == Least(size - offset, b.len)
     IN  IF canRead > Room(b)
           THEN /\ pc' = "panicked"
                /\ buf' = b
                /\ UNCHANGED <<offset, peakIn>>
           ELSE /\ pc' = "decoding"
                /\ buf' = AdvanceWrite(b, canRead)
                /\ offset' = offset + canRead
                /\ peakIn' = Most(peakIn, Unread(buf'))
  /\ UNCHANGED <<kind, ends, size, out, gz, again, frameVars, peakOut>>

\* The stream decoder is asked if there is input for it.
StreamOut == IF Unread(buf) > 0 THEN EnsureWriteable(out) ELSE out

StreamAnswers ==
  IF Unread(buf) > 0
    THEN StreamDecode(Unread(buf), Room(StreamOut))
    ELSE {Answer(0, 0, gz)}

\* The first half of a round of decode0, in a turn or in a flush.
Decode(next) ==
  /\ \E r \in StreamAnswers :
       /\ r.ok
       /\ buf' = AdvanceRead(buf, r.read)
       /\ gz' = r.gz
       /\ out' = AdvanceWrite(StreamOut, r.written)
       /\ again' = ~NeedsMoreInput(r)
  /\ peakOut' = Most(peakOut, Unread(out'))
  /\ pc' = next
  /\ UNCHANGED <<fileVars, frameVars, peakIn>>

DecodeRound == pc = "decoding" /\ Decode("framing")

\* Mutant of DecodeFails: the events decoded before the error are given out as well.
FailureGivesEvents ==
  /\ pc = "decoding"
  /\ \E r \in StreamAnswers : ~r.ok /\ gz' = r.gz
  /\ out' = StreamOut
  /\ given' = given \o events
  /\ UNCHANGED <<lost, events>>
  /\ pc' = "idle"
  /\ UNCHANGED <<fileVars, buf, again, peakIn, peakOut>>

\* `?` in decode0 and in WatchedFile::decode: the events of the turn are dropped.
DecodeFails ==
  /\ pc = "decoding"
  /\ \E r \in StreamAnswers : ~r.ok /\ gz' = r.gz
  /\ out' = StreamOut
  /\ lost' = lost \union ToSet(events)
  /\ events' = <<>>
  /\ pc' = "idle"
  /\ UNCHANGED <<fileVars, buf, again, given, peakIn, peakOut>>

\* The frames that the frame decoder finds in what can be read.
Frames == {e \in ends : Consumed(out) < e /\ e <= Filled(out)}

\* Mutant of FrameLength: one byte more is taken than there may be.
OneMore(e) == e + 1 - Consumed(out)

\* From the end of the last frame to the end of this one.
FrameLength(e) == e - Consumed(out)

\* `for frame in frames`: the next one is an event.
TakeFrame ==
  /\ pc \in {"framing", "flushing"}
  /\ \E e \in Frames :
       /\ \A d \in Frames : e <= d
       /\ events' = Append(events, e)
       /\ out' = AdvanceRead(out, FrameLength(e))
  /\ again' = TRUE
  /\ UNCHANGED <<fileVars, buf, gz, pc, given, lost, peakIn, peakOut>>

\* The loop of decode0, and the one around it in WatchedFile::decode, which goes on until
\* decode answers 0.  Then the reader gets the events.
EndRound ==
  /\ pc = "framing"
  /\ Frames = {}
  /\ IF again
       THEN /\ pc' = "decoding"
            /\ UNCHANGED <<given, events>>
       ELSE /\ pc' = "idle"
            /\ given' = given \o events
            /\ events' = <<>>
  /\ UNCHANGED <<fileVars, buf, out, gz, again, lost, peakIn, peakOut>>

Turn == Fill \/ DecodeRound \/ DecodeFails \/ TakeFrame \/ EndRound

\* BufDecoder::flush: one round, and what is left is a frame.  The program never calls it.
Flush ==
  /\ pc = "idle"
  /\ offset = size
  /\ Decode("flushing")

FlushFails ==
  /\ pc = "idle"
  /\ offset = size
  /\ \E r \in StreamAnswers : ~r.ok /\ gz' = r.gz
  /\ out' = StreamOut
  /\ pc' = "flushed"
  /\ UNCHANGED <<fileVars, buf, again, frameVars, peakIn, peakOut>>

FlushRest ==
  /\ pc = "flushing"
  /\ Frames = {}
  /\ out' = AdvanceRead(out, Unread(out))
  /\ given' = (given \o events) \o (IF Unread(out) > 0 THEN <<Filled(out)>> ELSE <<>>)
  /\ events' = <<>>
  /\ pc' = "flushed"
  /\ UNCHANGED <<fileVars, buf, gz, again, lost, peakIn, peakOut>>

Next == GrowFile \/ Turn \/ Flush \/ FlushFails \/ FlushRest

\* The reader's turns go on; the file need not grow.
Spec == Init /\ [][Next]_vars /\ WF_vars(Turn)

-----------------------------------------------------------------------------
GzipStates ==
  [state : {"header", "decompress", "spoilt", "footer"}, read : 0 .. BodyLen,
   written : 0 .. Expansion * BodyLen, member : Nat]

Steps == {"idle", "decoding", "framing", "flushing", "flushed", "panicked"}

Positions(b) == b.rp <= b.wp /\ b.wp <= b.len

\* Types, and the asserted order of each buffer's positions: no call of advance_read_pos
\* or advance_write_pos trips its assertion (decoder.rs:40, 49).
TypeOK ==
  /\ kind \in Kinds
  /\ ends \in EndSets
  /\ size \in Nat
  /\ offset \in 0 .. size
  /\ buf \in Bufs /\ Positions(buf)
  /\ out \in Bufs /\ Positions(out)
  /\ gz \in GzipStates
  /\ pc \in Steps
  /\ again \in BOOLEAN
  /\ events \in Seq(Nat)
  /\ given \in Seq(Nat)
  /\ lost \subseteq Nat
  /\ peakIn \in Nat
  /\ peakOut \in Nat

MemberLen == HeaderLen + BodyLen + FooterLen

\* How far into its member the stream decoder has read.
Place(g) ==
  IF g.state = "header" THEN 0
  ELSE IF g.state \in {"decompress", "spoilt"} THEN HeaderLen + g.read
  ELSE HeaderLen + BodyLen

\* The gzip decoder has taken so many bytes of the file and given so many of the text.
InStep(g, taken, text) ==
  /\ taken = MemberLen * g.member + Place(g)
  /\ text = (Expansion * BodyLen) * g.member + g.written
  /\ g.written <= Expansion * g.read
  /\ g.state = "header" => g.read = 0
  /\ g.state = "footer" => g.written = Expansion * BodyLen

\* Compaction and growth move no byte: what is written to buf continues the file where the
\* last read ended, and stream.buf holds the text of exactly the bytes taken from buf, less
\* what the inflater still holds (decoder.rs:52-84).
BytesInOrder ==
  /\ Filled(buf) = offset
  /\ kind = "plain" => Filled(out) = Consumed(buf)
  /\ kind = "gzip" => InStep(gz, Consumed(buf), Filled(out))

\* A buffer is never longer than three times what was once unread in it (or twice the least
\* length).  A long file does not make it grow by itself: a long frame does, and a gzip file
\* that does not decode, of which everything stays unread (decoder.rs:58-70).
BufferBounded ==
  /\ buf.len <= Most(2 * MinLen, 3 * peakIn)
  /\ out.len <= Most(2 * MinLen, 3 * peakOut)

\* The text that n bytes of the file hold, and the part of it that does not wait for more
\* bytes: what is inflated and not yet written comes out when the next byte is there.
DueTextOf(n) ==
  LET rest == n % MemberLen
  IN  IF kind = "plain" THEN n
      ELSE Expansion * BodyLen
             * (IF rest > HeaderLen + BodyLen THEN n \div MemberLen + 1 ELSE n \div MemberLen)

\* When a turn is over every frame in the bytes read so far has been given to the reader,
\* except what an error dropped or the inflater still holds; a flush leaves nothing
\* (decoder.rs:139-168, file.rs:314-323).
NothingLeftBehind ==
  (kind = "plain" \/ (gz.member \notin Broken /\ gz.state # "spoilt")) =>
    /\ pc = "idle" =>
         /\ DueTextOf(offset) <= Filled(out)
         /\ ToSet(given) = {e \in ends : e <= Filled(out)}
    /\ pc = "flushed" => Unread(out) = 0

\* The frames that are with the reader or on their way.
Kept == given \o events

\* A frame that was taken from the buffer is kept, once and in order, or was dropped by an
\* error, and then for good (composite.rs:51-53, file.rs:314-323).
FramesAccountedFor ==
  /\ \A j, k \in DOMAIN Kept : j < k => Kept[j] < Kept[k]
  /\ ToSet(Kept) \intersect lost = {}
  /\ (ToSet(Kept) \union lost) \intersect ends = {e \in ends : e <= Consumed(out)}

\* The loop over decode comes to an end, whatever the file holds (file.rs:316).
TurnEnds == pc = "decoding" ~> pc \notin {"decoding", "framing"}

\* What fill_buf asks for fits into what is free of the buffer, as the assertion on write_pos
\* takes for granted (decoder.rs:47-50): if not, slicing the free part, just before that
\* assertion, panics (file.rs:305).
ReadFits == pc # "panicked"
=============================================================================
