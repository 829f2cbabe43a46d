----------------------------- MODULE Delimited -----------------------------
(***************************************************************************)
(* component/decoder/frame/delimited.rs: cuts a stream of bytes into       *)
(* frames at line endings or at a string, and glues frames together whose  *)
(* text matches a pattern.                                                 *)
(*                                                                         *)
(* The caller keeps the bytes in a buffer.  It appends to it, has it       *)
(* decoded, and drops from it what was read; the decoder itself keeps only *)
(* the positions of GlueState, which count from 0 in that buffer.          *)
(*                                                                         *)
(* External: memchr and regex.  The pattern looks for one byte, at the     *)
(* start or at the end of the text, as those of the tests do.              *)
(***************************************************************************)
EXTENDS Naturals, SequencesExt

CONSTANTS
  CR, LF,    \* the bytes of line endings
  Mark,      \* the byte the glue pattern looks for
  Text,      \* other bytes
  Configs,   \* configurations of the decoder
  MaxBytes   \* bound: bytes between the start, or a flush, and the next flush

Bytes == Text \union {CR, LF, Mark}

ASSUME DelimitedAssumption ==
  /\ CR # LF
  /\ {CR, LF} \intersect (Text \union {Mark}) = {}
  /\ MaxBytes \in Nat
  /\ \A c \in Configs :
       /\ c.key \in {"none", "line", "string"}
       /\ c.line \in {"any", "dos", "unix", "mac"}
       /\ c.string \in Seq(Bytes)
       /\ c.glue \in {"none", "previous", "next"}
       /\ c.on \in {"start", "end"}

VARIABLES
  config,  \* what the decoder was made from
  buf,     \* the caller's buffer: bytes not yet read
  glue,    \* GlueState: start, pos, delim_len
  status,  \* what was done last: filled | decoded | flushed, or the call panicked
  fed,     \* history: the bytes received since the start or the last flush
  frames   \* history: the frames they gave

vars == <<config, buf, glue, status, fed, frames>>

\* `&s[from..to]`
Slice(s, from, to) == SubSeq(s, from + 1, to)

-----------------------------------------------------------------------------
(* The configuration: ProviderImpl::new                                    *)

AnyLine(c) == c.key = "none" \/ (c.key = "line" /\ c.line = "any")

Delimiter(c) ==
  IF c.key = "string"
    THEN c.string
    ELSE [dos |-> <<CR, LF>>, unix |-> <<LF>>, mac |-> <<CR>>][c.line]

Glued(c) == c.glue # "none"

IsMatch(c, frame) ==
  /\ frame # <<>>
  /\ (IF c.on = "start" THEN Head(frame) ELSE Last(frame)) = Mark

-----------------------------------------------------------------------------
(* Where the delimiters are: sequences of <<position, length>>             *)

\* memchr: the first of these bytes at or after `from`, or the end.
Find(s, bytes, from) ==
  LET hits == {i \in from .. Len(s) - 1 : s[i + 1] \in bytes}
  IN  IF hits = {} THEN Len(s) ELSE Min(hits)

\* Mutant of IsHalfEnding: a carriage return ends a line at once.
NeverHalfEnding(s, cr) == FALSE

\* The line feed that belongs to this carriage return may be still to come.
IsHalfEnding(s, cr) == cr + 1 >= Len(s)

\* LineEndings: from the next carriage return and the next line feed on.
LineEndings(s, start) ==
  LET From(j) == [cr |-> Find(s, {CR}, j), lf |-> Find(s, {LF}, j)]
      Endings[next \in [cr : 0 .. Len(s), lf : 0 .. Len(s)]] ==
        IF next.cr < next.lf
          THEN LET len == IF next.cr + 1 < Len(s) /\ s[next.cr + 2] = LF THEN 2 ELSE 1
               IN  IF IsHalfEnding(s, next.cr)
                     THEN <<>>
                     ELSE <<<<next.cr, len>>>> \o Endings[From(next.cr + len)]
          ELSE IF next.lf >= Len(s)
                 THEN <<>>
                 ELSE <<<<next.lf, 1>>>>
                        \o Endings[[next EXCEPT !.lf = Find(s, {LF}, next.lf + 1)]]
  IN  Endings[From(start)]

\* Memchr: after each hit the search goes on `step` further; hits not `wanted` are dropped.
\* Where that is beyond the end slicing the haystack panics, which a position beyond the end
\* stands for.
Memchr(s, bytes, step, wanted, start) ==
  LET Hits[i \in 0 .. Len(s) + step] ==
        IF i > Len(s)
          THEN <<i>>
          ELSE LET hit == Find(s, bytes, i)
               IN  IF hit = Len(s) THEN <<>>
                   ELSE (IF hit \in wanted THEN <<hit>> ELSE <<>>) \o Hits[hit + step]
  IN  Hits[start]

\* DecoderImpl::decode, by the length of the delimiter: up to three bytes any one of them
\* is a hit; of a longer one three are searched for and the rest is compared.
Matches(c, s, start) ==
  LET d == Delimiter(c)
      RestFollows == {i \in 0 .. Len(s) - Len(d) :
                        Slice(s, i + 3, i + Len(d)) = Slice(d, 3, Len(d))}
      hits == IF Len(d) <= 3
                THEN Memchr(s, ToSet(d), Len(d), Nat, start)
                ELSE Memchr(s, ToSet(Slice(d, 0, 3)), 1, RestFollows, start)
  IN  IF AnyLine(c)
        THEN LineEndings(s, start)
        ELSE [k \in DOMAIN hits |-> <<hits[k], Len(d)>>]

-----------------------------------------------------------------------------
(* Gluing: GlueState                                                       *)

NoGlue == [start |-> 0, pos |-> 0, delim |-> 0]

\* Mutant of Reset: the positions outlive the buffer they are about.
NotReset(g) == g

Reset(g) == NoGlue

\* Mutant of Rebase: the positions stay, although the buffer loses what was read.
NotRebased(g) == g

Rebase(g) == [g EXCEPT !.pos = @ - g.start, !.start = 0]

Flush(from, to, delim) == <<[from |-> from, to |-> to, delim |-> delim]>>

\* update, for the input up to `end`, a delimiter of `len` bytes included: the new state,
\* and the slice that is ready, if there is one.
Update(c, g, s, end, len) ==
  LET matched == IsMatch(c, Slice(s, g.pos, end - len))
  IN  IF matched
        THEN [glue  |-> IF c.glue = "previous"
                          THEN [g EXCEPT !.pos = end, !.delim = len]
                          ELSE g,
              flush |-> <<>>]
      ELSE IF c.glue = "previous"
        THEN [glue  |-> [start |-> g.pos, pos |-> end, delim |-> len],
              flush |-> IF g.pos = g.start THEN <<>> ELSE Flush(g.start, g.pos, g.delim)]
        ELSE [glue  |-> [start |-> end, pos |-> end, delim |-> len],
              flush |-> Flush(g.start, end, len)]

-----------------------------------------------------------------------------
(* decode and flush                                                        *)

\* decode_string: one turn of its loops.  A position out of order or out of range panics.
CutAt(c, s, r, match) ==
  LET i   == match[1]
      end == match[1] + match[2]
      u   == Update(c, r.glue, s, end, match[2])
  IN  IF ~r.ok \/ (IF Glued(c) THEN i < r.glue.pos \/ end > Len(s)
                               ELSE i < r.read \/ i > Len(s))
        THEN [r EXCEPT !.ok = FALSE]
      ELSE IF ~Glued(c)
        THEN [r EXCEPT !.frames = Append(@, Slice(s, r.read, i)), !.read = end]
      ELSE IF u.flush = <<>>
        THEN [r EXCEPT !.glue = u.glue]
        ELSE LET f == u.flush[1]
             IN  [r EXCEPT !.glue = u.glue,
                           !.frames = Append(@, Slice(s, f.from, f.to - f.delim)),
                           !.read = f.to]

\* With the empty delimiter the whole input is a frame.
Undelimited(s, g) == [ok |-> TRUE, read |-> Len(s), frames |-> <<s>>, glue |-> g]

\* What decode returns for this input: an empty delimiter takes all of it for a frame.
Decoded(c, s, g) ==
  IF ~AnyLine(c) /\ Delimiter(c) = <<>>
    THEN Undelimited(s, g)
    ELSE LET r == FoldLeft(LAMBDA acc, match : CutAt(c, s, acc, match),
                           [ok |-> g.pos <= Len(s), read |-> 0, frames |-> <<>>, glue |-> g],
                           IF g.pos <= Len(s) THEN Matches(c, s, g.pos) ELSE <<>>)
         IN  [r EXCEPT !.glue = Rebase(@)]

\* Mutant of TrailingDelimiter: only the line feed of a CR LF is taken off.
TrailingByte(c, s) == IF Last(s) \in {CR, LF} THEN 1 ELSE 0

\* flush_line, flush_string: the delimiter at the end of what is left.
TrailingDelimiter(c, s) ==
  IF AnyLine(c)
    THEN IF IsSuffix(<<CR, LF>>, s) THEN 2 ELSE IF Last(s) \in {CR, LF} THEN 1 ELSE 0
    ELSE IF IsSuffix(Delimiter(c), s) THEN Len(Delimiter(c)) ELSE 0

Flushed(c, s) ==
  IF s = <<>> THEN <<>> ELSE <<Slice(s, 0, Len(s) - TrailingDelimiter(c, s))>>

-----------------------------------------------------------------------------
Init ==
  /\ config \in Configs
  /\ buf = <<>>
  /\ glue = NoGlue
  /\ status = "filled"
  /\ fed = <<>>
  /\ frames = <<>>

\* The caller has got one more byte; several before the next decode are a chunk.
Receive(b) ==
  /\ status # "panicked"
  /\ fed' = IF status = "flushed" THEN <<b>> ELSE Append(fed, b)
  /\ frames' = IF status = "flushed" THEN <<>> ELSE frames
  /\ Len(fed') <= MaxBytes
  /\ buf' = Append(buf, b)
  /\ status' = "filled"
  /\ UNCHANGED <<config, glue>>

DecodeBuf ==
  /\ status = "filled"
  /\ LET r == Decoded(config, buf, glue)
     IN  IF r.ok
           THEN /\ buf' = Slice(buf, r.read, Len(buf))
                /\ glue' = r.glue
                /\ frames' = frames \o r.frames
                /\ status' = "decoded"
           ELSE /\ status' = "panicked"
                /\ UNCHANGED <<buf, glue, frames>>
  /\ UNCHANGED <<config, fed>>

\* BufDecoder::flush decodes first, and then flushes the rest.
FlushBuf ==
  /\ status = "decoded"
  /\ glue' = Reset(glue)
  /\ frames' = frames \o Flushed(config, buf)
  /\ buf' = <<>>
  /\ status' = "flushed"
  /\ UNCHANGED <<config, fed>>

Next == (\E b \in Bytes : Receive(b)) \/ DecodeBuf \/ FlushBuf

Spec == Init /\ [][Next]_vars

-----------------------------------------------------------------------------
(* What the frames should be, said of the whole input at once              *)

\* Configurations that do what they say.  Of a delimiter of several bytes the search does not
\* find the whole; and of frames that are glued to the next one, each new one is looked at
\* together with those before it (`pos` stays), so only its end can be told.
Sound(c) ==
  /\ AnyLine(c) \/ Len(Delimiter(c)) = 1
  /\ c.glue = "next" => c.on = "end"

\* The positions behind line endings that nothing to come can change.
Ends(c, s) ==
  IF AnyLine(c)
    THEN {p \in DOMAIN s : s[p] = LF \/ (s[p] = CR /\ p < Len(s) /\ s[p + 1] # LF)}
    ELSE {p \in DOMAIN s : <<s[p]>> = Delimiter(c)}

EndLen(c, s, p) ==
  IF AnyLine(c) /\ p > 1 /\ s[p] = LF /\ s[p - 1] = CR THEN 2 ELSE 1

\* The piece of s from the last of these positions before p up to p, without its ending.
Piece(c, s, positions, p) ==
  Slice(s, Max({0} \union {q \in positions : q < p}), p - EndLen(c, s, p))

\* The line endings that end a frame: those after which nothing is glued on.
Breaks(c, s) ==
  LET ends         == Ends(c, s)
      Marked(p)    == IsMatch(c, Piece(c, s, ends, p))
      Following(p) == {q \in ends : q > p}
  IN  CASE c.glue = "none"     -> ends
        [] c.glue = "next"     -> {p \in ends : ~Marked(p)}
        [] c.glue = "previous" ->
             {p \in ends : Following(p) # {} /\ ~Marked(Min(Following(p)))}

\* The k-th of these positions.
Nth(positions, k) == Min({p \in positions : Cardinality({q \in positions : q <= p}) = k})

Pieces(c, s, positions) ==
  [k \in 1 .. Cardinality(positions) |-> Piece(c, s, positions, Nth(positions, k))]

Expected(c, s) == Pieces(c, s, Breaks(c, s))

Rest(c, s) == Slice(s, Max({0} \union Breaks(c, s)), Len(s))

-----------------------------------------------------------------------------
(* Types, and the positions kept between calls: they lie inside the buffer, and start is
   where the buffer begins. *)
TypeOK ==
  /\ config \in Configs
  /\ {buf, fed} \subseteq Seq(Bytes)
  /\ status \in {"filled", "decoded", "flushed", "panicked"}
  /\ frames \in Seq(Seq(Bytes))
  /\ glue.start = 0
  /\ glue.pos \in 0 .. Len(buf)
  /\ glue.delim \in Nat
  /\ glue.pos > 0 => glue.delim <= glue.pos

\* However the input was cut into chunks, with a line ending or a glued frame across the
\* cuts, the frames are those of the whole input and the buffer keeps what follows them
\* (delimited.rs:139-216, 281-407).
FramesOfWholeInput ==
  status = "decoded" /\ Sound(config) =>
    frames = Expected(config, fed) /\ buf = Rest(config, fed)

\* A flush gives out what is left as one frame, glued lines and all, without the line
\* ending it may have, and the decoder starts afresh (delimited.rs:262-270, 348-370).
FlushedInFull ==
  status = "flushed" /\ Sound(config) =>
    LET rest == Rest(config, fed)
        half == AnyLine(config) /\ IsSuffix(<<CR>>, rest)
        cut  == IF half THEN 1
                ELSE IF Len(fed) \in Ends(config, fed) /\ rest # <<>>
                       THEN EndLen(config, fed, Len(fed)) ELSE 0
    IN  frames = Expected(config, fed)
                   \o (IF rest = <<>> THEN <<>> ELSE <<Slice(rest, 0, Len(rest) - cut)>>)

\* No sequence of calls trips the assertion on the glue position (delimited.rs:381) or
\* slices the input where it is not, also after a flush in the middle of glued frames.
NeverPanics == Sound(config) => status # "panicked"

\* delimited.rs:163-164: the new frame "includes the delimiter bytes of len `delim_len`":
\* what the search takes for a delimiter is one.
DelimiterIsWhole ==
  status = "filled" =>
    \A match \in ToSet(Matches(config, buf, glue.pos)) :
      /\ match[1] + match[2] <= Len(buf)
      /\ Slice(buf, match[1], match[1] + match[2]) = Delimiter(config)
=============================================================================
