-------------------------- MODULE BufDecoderProofs --------------------------
(***************************************************************************)
(* Proofs about BufDecoder, for files, members and buffers of any length:  *)
(* positions stay in order, bytes stay in order, buffers stay bounded and  *)
(* every frame is accounted for.                                           *)
(***************************************************************************)
EXTENDS BufDecoder, SequenceTheorems, TLAPS

-----------------------------------------------------------------------------
(* Arithmetic                                                              *)

LEMMA Scale ==
  ASSUME NEW k \in Nat, NEW m \in Nat, NEW n \in Nat, m <= n
  PROVE  k * m \in Nat /\ k * n \in Nat /\ k * m <= k * n
<1>1. n - m \in Nat /\ k * (n - m) \in Nat
  OBVIOUS
<1>2. k * n = k * m + k * (n - m)
  OBVIOUS
<1> QED
  BY <1>1, <1>2

LEMMA NextMultiple ==
  ASSUME NEW k \in Nat, NEW m \in Nat
  PROVE  k * (m + 1) = k * m + k
OBVIOUS

LEMMA DivMod ==
  ASSUME NEW n \in Nat, NEW m \in Nat \ {0}
  PROVE  /\ n \div m \in Nat
         /\ n % m \in 0 .. m - 1
         /\ n = m * (n \div m) + (n % m)
OBVIOUS
LEMMA Multiple ==
  ASSUME NEW k \in Nat, NEW m \in Nat \ {0}, NEW p \in 0 .. m - 1
  PROVE  (m * k + p) \div m = k /\ (m * k + p) % m = p
<1> DEFINE n == m * k + p
           q == n \div m
           r == n % m
<1>1. n \in Nat /\ m * k \in Nat
  OBVIOUS
<1>2. q \in Nat /\ r \in 0 .. m - 1 /\ n = m * q + r
  BY <1>1, DivMod
<1>0. n = m * k + p
  OBVIOUS
<1> HIDE DEF n, q, r
<1>3. m * q \in Nat
  BY <1>2
<1>4. ~(q < k)
  <2> SUFFICES ASSUME q < k PROVE FALSE
    OBVIOUS
  <2>1. m * (q + 1) <= m * k /\ m * (q + 1) = m * q + m
    BY <1>2, Scale
  <2> QED BY ONLY <2>1, <1>0, <1>1, <1>2, <1>3, p \in 0 .. m - 1, m \in Nat
<1>5. ~(k < q)
  <2> SUFFICES ASSUME k < q PROVE FALSE
    OBVIOUS
  <2>1. m * (k + 1) <= m * q /\ m * (k + 1) = m * k + m
    BY <1>2, Scale
  <2> QED BY ONLY <2>1, <1>0, <1>1, <1>2, <1>3, p \in 0 .. m - 1, m \in Nat
<1>6. q = k
  BY <1>2, <1>4, <1>5
<1> QED BY <1>0, <1>1, <1>2, <1>6 DEF n, q, r

-----------------------------------------------------------------------------
(* Buf                                                                     *)

\* A buffer never longer than what was once unread in it allows.
Bounded(b, peak) == Unread(b) <= peak /\ b.len <= Most(2 * MinLen, 3 * peak)

GoodBuf(b, peak) == b \in Bufs /\ Positions(b) /\ Bounded(b, peak)

USE DEF Bufs, Positions, Unread, Room, Consumed, Filled, Most, Least

LEMMA CompactKeeps ==
  ASSUME NEW b \in Bufs, Positions(b)
  PROVE  /\ Compact(b) \in Bufs
         /\ Positions(Compact(b))
         /\ Consumed(Compact(b)) = Consumed(b)
         /\ Filled(Compact(b)) = Filled(b)
         /\ Compact(b).len = b.len - b.rp
BY DEF Compact

LEMMA GrowKeeps ==
  ASSUME NEW b \in Bufs, Positions(b)
  PROVE  /\ Grow(b) \in Bufs
         /\ Positions(Grow(b))
         /\ Consumed(Grow(b)) = Consumed(b)
         /\ Filled(Grow(b)) = Filled(b)
         /\ Room(Grow(b)) > 0
         /\ Grow(b).len = 2 * Most(b.len, MinLen)
<1> DEFINE n == 2 * Most(b.len, MinLen)
<1>1. n \in Nat /\ b.len < n
  BY BufAssumption
<1>2. Grow(b) = [b EXCEPT !.len = n]
  BY BufAssumption DEF Grow
<1> HIDE DEF n
<1>3. [b EXCEPT !.len = n] = [base |-> b.base, len |-> n, rp |-> b.rp, wp |-> b.wp]
  OBVIOUS
<1>4. n = 2 * Most(b.len, MinLen)
  BY DEF n
<1> QED
  BY <1>1, <1>2, <1>3, <1>4

LEMMA Writeable ==
  ASSUME NEW b, NEW peak \in Nat, GoodBuf(b, peak)
  PROVE  LET c == EnsureWriteable(b)
         IN  /\ GoodBuf(c, peak)
             /\ Room(c) > 0
             /\ Consumed(c) = Consumed(b)
             /\ Filled(c) = Filled(b)
<1> USE BufAssumption DEF GoodBuf, Bounded
<1>1. CASE Room(b) > 0
  BY <1>1 DEF EnsureWriteable
<1>2. CASE Room(b) <= 0 /\ WorthCompacting(b)
  <2> DEFINE d == Compact(b)
  <2>1. /\ d \in Bufs
        /\ Positions(d)
        /\ Consumed(d) = Consumed(b)
        /\ Filled(d) = Filled(b)
        /\ d.len = b.len - b.rp
    BY CompactKeeps
  <2>2. EnsureWriteable(b) = Grow(d)
    BY <1>2 DEF EnsureWriteable
  <2> HIDE DEF d
  <2>3. /\ Grow(d) \in Bufs
        /\ Positions(Grow(d))
        /\ Consumed(Grow(d)) = Consumed(d)
        /\ Filled(Grow(d)) = Filled(d)
        /\ Room(Grow(d)) > 0
        /\ Grow(d).len = 2 * Most(d.len, MinLen)
    BY <2>1, GrowKeeps
  <2>4. d.len <= peak
    BY <1>2, <2>1
  <2>5. Bounded(Grow(d), peak)
    BY <2>1, <2>3, <2>4
  <2> QED
    BY <2>1, <2>2, <2>3, <2>5
<1>3. CASE Room(b) <= 0 /\ ~WorthCompacting(b)
  <2>1. EnsureWriteable(b) = Grow(b)
    BY <1>3 DEF EnsureWriteable
  <2>2. /\ Grow(b) \in Bufs
        /\ Positions(Grow(b))
        /\ Consumed(Grow(b)) = Consumed(b)
        /\ Filled(Grow(b)) = Filled(b)
        /\ Room(Grow(b)) > 0
        /\ Grow(b).len = 2 * Most(b.len, MinLen)
    BY GrowKeeps
  <2>3. 2 * b.len <= 3 * peak
    BY <1>3 DEF WorthCompacting
  <2>4. Bounded(Grow(b), peak)
    BY <2>2, <2>3
  <2> QED
    BY <2>1, <2>2, <2>4
<1> QED
  BY <1>1, <1>2, <1>3

LEMMA ReadKeeps ==
  ASSUME NEW b, NEW peak \in Nat, GoodBuf(b, peak), NEW n \in 0 .. Unread(b)
  PROVE  LET c == AdvanceRead(b, n)
         IN  /\ GoodBuf(c, peak)
             /\ Consumed(c) = Consumed(b) + n
             /\ Filled(c) = Filled(b)
BY DEF GoodBuf, Bounded, AdvanceRead

LEMMA WriteKeeps ==
  ASSUME NEW b, NEW peak \in Nat, GoodBuf(b, peak), NEW n \in 0 .. Room(b)
  PROVE  LET c == AdvanceWrite(b, n)
         IN  /\ Most(peak, Unread(c)) \in Nat
             /\ GoodBuf(c, Most(peak, Unread(c)))
             /\ Consumed(c) = Consumed(b)
             /\ Filled(c) = Filled(b) + n
BY BufAssumption DEF GoodBuf, Bounded, AdvanceWrite
-----------------------------------------------------------------------------
(* The stream decoders                                                     *)

\* An answer takes no more than there is, gives no more than there is room for, and keeps
\* the decoder in step with both streams.
LEMMA PlainAnswers ==
  ASSUME NEW avail \in Nat, NEW room \in Nat, NEW r \in Plain(avail, room)
  PROVE  /\ r.read \in 0 .. avail
         /\ r.written = r.read
         /\ r.written \in 0 .. room
         /\ r.gz = gz
BY DEF Plain, Answer

LEMMA HeaderAnswers ==
  ASSUME gz \in GzipStates, gz.state = "header",
         NEW avail \in Nat, NEW room \in Nat, NEW r \in Header(avail),
         NEW taken \in Nat, NEW text \in Nat, InStep(gz, taken, text)
  PROVE  /\ r.read \in 0 .. avail
         /\ r.written \in 0 .. room
         /\ r.gz \in GzipStates
         /\ InStep(r.gz, taken + r.read, text + r.written)
<1> USE BufDecoderAssumption
<1>1. CASE avail < HeaderLen
  BY <1>1 DEF Header, Answer
<1>2. CASE ~(avail < HeaderLen)
  <2> DEFINE g == [gz EXCEPT !.state = "decompress"]
  <2>1. r = Answer(HeaderLen, 0, g)
    BY <1>2 DEF Header
  <2>2. r.read = HeaderLen /\ r.written = 0 /\ r.gz = g
    BY <2>1 DEF Answer
  <2>3. /\ g \in GzipStates
        /\ g.state = "decompress"
        /\ g.read = gz.read
        /\ g.written = gz.written
        /\ g.member = gz.member
    BY DEF GzipStates
  <2> HIDE DEF g
  <2>4. MemberLen * gz.member \in Nat
    BY DEF GzipStates, MemberLen
  <2>5. InStep(g, taken + HeaderLen, text)
    BY <2>3, <2>4 DEF InStep, Place
  <2> QED
    BY <1>2, <2>2, <2>3, <2>5
<1> QED
  BY <1>1, <1>2

LEMMA FooterAnswers ==
  ASSUME gz \in GzipStates, gz.state = "footer",
         NEW avail \in Nat, NEW room \in Nat, NEW r \in Footer(avail),
         NEW taken \in Nat, NEW text \in Nat, InStep(gz, taken, text)
  PROVE  /\ r.read \in 0 .. avail
         /\ r.written \in 0 .. room
         /\ r.gz \in GzipStates
         /\ InStep(r.gz, taken + r.read, text + r.written)
<1> USE BufDecoderAssumption
<1>1. CASE avail < FooterLen
  BY <1>1 DEF Footer, Answer
<1>2. CASE ~(avail < FooterLen)
  <2> DEFINE g == [state |-> "header", read |-> 0, written |-> 0, member |-> gz.member + 1]
             textLen == Expansion * BodyLen
  <2>1. r = Answer(FooterLen, 0, g)
    BY <1>2 DEF Footer
  <2>2. r.read = FooterLen /\ r.written = 0 /\ r.gz = g
    BY <2>1 DEF Answer
  <2>3. textLen \in Nat /\ MemberLen \in Nat /\ gz.member \in Nat
    BY DEF GzipStates, MemberLen
  <2>4. /\ g \in GzipStates
        /\ g.state = "header"
        /\ g.read = 0
        /\ g.written = 0
        /\ g.member = gz.member + 1
    BY <2>3 DEF GzipStates
  <2>5. /\ MemberLen * g.member = MemberLen * gz.member + MemberLen
        /\ textLen * g.member = textLen * gz.member + textLen
    BY <2>3, <2>4, NextMultiple
  <2>6. MemberLen * gz.member \in Nat /\ textLen * gz.member \in Nat
    BY <2>3
  <2>7. /\ taken = MemberLen * gz.member + HeaderLen + BodyLen
        /\ text = textLen * gz.member + textLen
    BY <2>3, <2>6 DEF InStep, Place
  <2>8. taken + FooterLen = MemberLen * gz.member + MemberLen
    BY <2>6, <2>7 DEF MemberLen
  <2> HIDE DEF g, textLen
  <2>9. /\ taken + FooterLen = MemberLen * g.member + Place(g)
        /\ text = textLen * g.member + g.written
    BY <2>3, <2>4, <2>5, <2>6, <2>7, <2>8 DEF Place
  <2>10. InStep(g, taken + FooterLen, text)
    BY <2>4, <2>9 DEF InStep, textLen
  <2> QED
    BY <1>2, <2>2, <2>4, <2>10
<1> QED
  BY <1>1, <1>2

LEMMA InflateAnswers ==
  ASSUME gz \in GzipStates, gz.state = "decompress",
         NEW avail \in Nat, NEW room \in Nat, NEW r \in Inflate(avail, room),
         NEW taken \in Nat, NEW text \in Nat, InStep(gz, taken, text)
  PROVE  /\ r.read \in 0 .. avail
         /\ r.written \in 0 .. room
         /\ r.gz \in GzipStates
         /\ InStep(r.gz, taken + r.read, text + r.written)
<1> USE BufDecoderAssumption
<1> DEFINE most == Least(avail, BodyLen - gz.read)
           Written(q) == Least(room, Expansion * (gz.read + q) - gz.written)
           After(q) ==
             LET read    == gz.read + q
                 written == gz.written + Written(q)
                 over    == read = BodyLen /\ written = Expansion * BodyLen
             IN  [state   |-> IF over THEN "footer" ELSE "decompress",
                  read    |-> read,
                  written |-> written,
                  member  |-> gz.member]
<1>1. PICK q \in 0 .. most : r = Answer(q, Written(q), After(q))
  BY DEF Inflate
<1>2. /\ gz.read \in 0 .. BodyLen
      /\ gz.written \in Nat
      /\ gz.member \in Nat
      /\ BodyLen \in Nat /\ Expansion \in Nat
  BY DEF GzipStates
<1>3. /\ q \in Nat /\ q <= avail
      /\ gz.read + q \in 0 .. BodyLen
  BY <1>2
<1> DEFINE inflated == Expansion * (gz.read + q)
           textLen  == Expansion * BodyLen
           written  == gz.written + Written(q)
           g        == After(q)
<1>4. /\ inflated \in Nat /\ textLen \in Nat
      /\ Expansion * gz.read <= inflated
      /\ inflated <= textLen
  BY <1>2, <1>3, Scale
<1>5. gz.written <= inflated
  BY <1>2, <1>4 DEF InStep
<1>6. Written(q) \in 0 .. room /\ written \in Nat /\ written <= inflated
  <2> HIDE DEF inflated
  <2>1. Written(q) = Least(room, inflated - gz.written)
    BY DEF inflated
  <2> QED
    BY <1>2, <1>4, <1>5, <2>1
<1>7. /\ g.state = IF gz.read + q = BodyLen /\ written = textLen
                     THEN "footer" ELSE "decompress"
      /\ g.read = gz.read + q
      /\ g.written = written
      /\ g.member = gz.member
      /\ g = [state |-> g.state, read |-> g.read, written |-> g.written,
              member |-> g.member]
  OBVIOUS
<1>8. r.read = q /\ r.written = Written(q) /\ r.gz = g
  BY <1>1 DEF Answer
<1>9. written = gz.written + Written(q)
  OBVIOUS
<1> HIDE DEF g, written, After, inflated, textLen
<1> HIDE DEF Written
<1>10. written \in 0 .. textLen
  BY <1>4, <1>6
<1>11. g \in GzipStates
  BY <1>3, <1>7, <1>10, <1>2 DEF GzipStates, textLen
<1>12. MemberLen * gz.member \in Nat /\ textLen * gz.member \in Nat
  BY <1>2, <1>4 DEF MemberLen
<1>13. /\ taken = MemberLen * gz.member + HeaderLen + gz.read
       /\ text = textLen * gz.member + gz.written
  BY <1>2, <1>12 DEF InStep, Place, textLen
<1>14. Place(g) = HeaderLen + gz.read + q
  BY <1>2, <1>3, <1>7 DEF Place
<1>15. /\ taken + q = MemberLen * g.member + Place(g)
       /\ text + Written(q) = textLen * g.member + g.written
  BY <1>2, <1>3, <1>6, <1>7, <1>9, <1>12, <1>13, <1>14
<1>16. InStep(g, taken + q, text + Written(q))
  BY <1>6, <1>7, <1>15 DEF InStep, textLen, inflated
<1> QED
  BY <1>3, <1>6, <1>8, <1>11, <1>16
\* The text written so far is what was taken of the file, by either decoder.
Sync(g, taken, text) ==
  /\ kind = "plain" => text = taken
  /\ kind = "gzip" => InStep(g, taken, text)

LEMMA StreamAnswersKeep ==
  ASSUME kind \in Kinds, gz \in GzipStates,
         NEW avail \in Nat, NEW room \in Nat, NEW r \in StreamDecode(avail, room), r.ok,
         NEW taken \in Nat, NEW text \in Nat, Sync(gz, taken, text)
  PROVE  /\ r.read \in 0 .. avail
         /\ r.written \in 0 .. room
         /\ r.gz \in GzipStates
         /\ Sync(r.gz, taken + r.read, text + r.written)
<1>1. CASE kind = "plain"
  <2>1. r \in Plain(avail, room)
    BY <1>1 DEF StreamDecode
  <2>2. /\ r.read \in 0 .. avail
        /\ r.written = r.read
        /\ r.written \in 0 .. room
        /\ r.gz = gz
    BY <2>1, PlainAnswers
  <2> QED
    BY <1>1, <2>2 DEF Sync
<1>2. CASE kind = "gzip"
  <2>1. r \in Gzip(avail, room) /\ InStep(gz, taken, text)
    BY <1>2 DEF StreamDecode, Sync
  <2>2. gz.state \in {"header", "decompress", "spoilt", "footer"}
    BY DEF GzipStates
  <2>3. r \notin {Failure} /\ r \notin {Spoils}
    BY DEF Failure, Spoils
  <2>4. \/ gz.state = "header" /\ r \in Header(avail)
        \/ gz.state = "decompress" /\ r \in Inflate(avail, room)
        \/ gz.state = "footer" /\ r \in Footer(avail)
    BY <2>1, <2>2, <2>3 DEF Gzip
  <2>5. /\ r.read \in 0 .. avail
        /\ r.written \in 0 .. room
        /\ r.gz \in GzipStates
        /\ InStep(r.gz, taken + r.read, text + r.written)
    BY <2>1, <2>4, HeaderAnswers, InflateAnswers, FooterAnswers
  <2> QED
    BY <1>2, <2>5 DEF Sync
<1> QED
  BY <1>1, <1>2, BufDecoderAssumption

-----------------------------------------------------------------------------
(* Bytes                                                                   *)

\* The part of the invariant that is about bytes and buffers.
Flow ==
  /\ kind \in Kinds
  /\ size \in Nat
  /\ offset \in 0 .. size
  /\ gz \in GzipStates
  /\ peakIn \in Nat
  /\ peakOut \in Nat
  /\ GoodBuf(buf, peakIn)
  /\ GoodBuf(out, peakOut)
  /\ Filled(buf) = offset
  /\ Sync(gz, Consumed(buf), Filled(out))

HIDE DEF Bufs, Positions, Unread, Room, Consumed, Filled, Most, Least

LEMMA BufNumbers ==
  ASSUME NEW b, NEW peak \in Nat, GoodBuf(b, peak)
  PROVE  /\ Consumed(b) \in Nat
         /\ Filled(b) \in Nat
         /\ Unread(b) \in Nat
         /\ Room(b) \in Nat
         /\ Filled(b) = Consumed(b) + Unread(b)
BY DEF GoodBuf, Bufs, Positions, Consumed, Filled, Unread, Room

LEMMA FlowInit == Init => Flow
<1> SUFFICES ASSUME Init PROVE Flow
  OBVIOUS
<1> USE BufAssumption, BufDecoderAssumption DEF Init
<1>1. GoodBuf(EmptyBuf, 0) /\ Consumed(EmptyBuf) = 0 /\ Filled(EmptyBuf) = 0
  BY DEF GoodBuf, EmptyBuf, Bounded, Bufs, Positions, Unread, Consumed, Filled, Most
<1>2. NewMember \in GzipStates
  <2>1. Expansion * BodyLen \in Nat
    OBVIOUS
  <2> QED
    BY <2>1 DEF NewMember, GzipStates
<1>3. InStep(NewMember, 0, 0)
  <2>1. Expansion * BodyLen \in Nat /\ MemberLen \in Nat
    BY DEF MemberLen
  <2>2. (Expansion * BodyLen) * 0 = 0 /\ MemberLen * 0 = 0 /\ Expansion * 0 = 0
    BY <2>1
  <2> QED
    BY <2>2 DEF InStep, NewMember, Place
<1> QED
  BY <1>1, <1>2, <1>3 DEF Flow, Sync

LEMMA FlowFill == Flow /\ Fill => Flow'
<1> SUFFICES ASSUME Flow, Fill PROVE Flow'
  OBVIOUS
<1> DEFINE b       == EnsureWriteable(buf)
           canRead == Least(size - offset, b.len)
<1>1. /\ GoodBuf(b, peakIn)
      /\ Consumed(b) = Consumed(buf)
      /\ Filled(b) = Filled(buf)
  BY Writeable DEF Flow
<1>2. canRead \in Nat /\ canRead <= size - offset
  BY <1>1 DEF Flow, Fill, GoodBuf, Bufs, Least
<1>3. Room(b) \in Nat
  BY <1>1, BufNumbers DEF Flow
<1>4. CASE canRead > Room(b)
  <2>1. buf' = b /\ UNCHANGED <<kind, size, offset, out, gz, peakIn, peakOut>>
    BY <1>4 DEF Fill
  <2> QED
    BY <1>1, <2>1 DEF Flow, Sync
<1>5. CASE ~(canRead > Room(b))
  <2>1. /\ buf' = AdvanceWrite(b, canRead)
        /\ offset' = offset + canRead
        /\ peakIn' = Most(peakIn, Unread(buf'))
        /\ UNCHANGED <<kind, size, out, gz, peakOut>>
    BY <1>5 DEF Fill
  <2>2. canRead \in 0 .. Room(b)
    BY <1>2, <1>3, <1>5
  <2> HIDE DEF b, canRead
  <2>3. /\ peakIn' \in Nat
        /\ GoodBuf(buf', peakIn')
        /\ Consumed(buf') = Consumed(b)
        /\ Filled(buf') = Filled(b) + canRead
    BY <1>1, <2>1, <2>2, WriteKeeps DEF Flow
  <2>4. offset' \in 0 .. size'
    BY <1>2, <2>1 DEF Flow
  <2> QED
    BY <1>1, <2>1, <2>3, <2>4 DEF Flow, Sync
<1> QED
  BY <1>4, <1>5

LEMMA StreamOutKeeps ==
  ASSUME Flow
  PROVE  /\ GoodBuf(StreamOut, peakOut)
         /\ Consumed(StreamOut) = Consumed(out)
         /\ Filled(StreamOut) = Filled(out)
BY Writeable DEF Flow, StreamOut

LEMMA FlowDecode ==
  ASSUME Flow, NEW next, Decode(next)
  PROVE  /\ Flow'
         /\ Consumed(out') = Consumed(out)
<1>1. PICK r \in StreamAnswers :
        /\ r.ok
        /\ buf' = AdvanceRead(buf, r.read)
        /\ gz' = r.gz
        /\ out' = AdvanceWrite(StreamOut, r.written)
  BY DEF Decode
<1>2. /\ peakOut' = Most(peakOut, Unread(out'))
      /\ UNCHANGED <<kind, size, offset, peakIn>>
  BY DEF Decode, fileVars
<1>3. /\ Unread(buf) \in Nat
      /\ Consumed(buf) \in Nat
      /\ Filled(out) \in Nat
      /\ Room(StreamOut) \in Nat
  BY BufNumbers, StreamOutKeeps DEF Flow
<1>4. /\ r.read \in 0 .. Unread(buf)
      /\ r.written \in 0 .. Room(StreamOut)
      /\ r.gz \in GzipStates
      /\ Sync(r.gz, Consumed(buf) + r.read, Filled(out) + r.written)
  <2>1. CASE Unread(buf) > 0
    <3>1. r \in StreamDecode(Unread(buf), Room(StreamOut))
      BY <2>1 DEF StreamAnswers
    <3> QED
      BY <1>1, <1>3, <3>1, StreamAnswersKeep DEF Flow
  <2>2. CASE ~(Unread(buf) > 0)
    <3>1. r.read = 0 /\ r.written = 0 /\ r.gz = gz
      BY <2>2 DEF StreamAnswers, Answer
    <3> QED
      BY <1>3, <3>1 DEF Flow
  <2> QED
    BY <2>1, <2>2
<1>5. /\ GoodBuf(buf', peakIn)
      /\ Consumed(buf') = Consumed(buf) + r.read
      /\ Filled(buf') = Filled(buf)
  BY <1>1, <1>4, ReadKeeps DEF Flow
<1>6. /\ peakOut' \in Nat
      /\ GoodBuf(out', peakOut')
      /\ Consumed(out') = Consumed(StreamOut)
      /\ Filled(out') = Filled(StreamOut) + r.written
  BY <1>1, <1>2, <1>4, StreamOutKeeps, WriteKeeps DEF Flow
<1> QED
  BY <1>1, <1>2, <1>4, <1>5, <1>6, StreamOutKeeps DEF Flow, Sync

\* The decoder fails at a header that is not one, at a byte of a body, or once it has failed
\* there.
LEMMA FailureLeaves ==
  ASSUME Flow, NEW r \in StreamAnswers, ~r.ok
  PROVE  /\ kind = "gzip"
         /\ \/ r.gz = gz /\ gz.state = "header" /\ gz.member \in Broken
            \/ r.gz = gz /\ gz.state = "spoilt"
            \/ r.gz = [gz EXCEPT !.state = "spoilt"] /\ gz.state = "decompress"
<1>1. r \in StreamDecode(Unread(buf), Room(StreamOut))
  BY DEF StreamAnswers, Answer
<1>2. kind = "gzip"
  BY <1>1, BufDecoderAssumption DEF Flow, StreamDecode, Plain, Answer
<1>3. /\ r \in Gzip(Unread(buf), Room(StreamOut))
      /\ gz.state \in {"header", "decompress", "spoilt", "footer"}
  BY <1>1, <1>2 DEF StreamDecode, Flow, GzipStates
<1>4. /\ r \notin Header(Unread(buf))
      /\ r \notin Footer(Unread(buf))
      /\ r \notin Inflate(Unread(buf), Room(StreamOut))
  BY DEF Header, Footer, Inflate, Answer
<1>5. CASE gz.state = "header"
  BY <1>2, <1>3, <1>4, <1>5 DEF Gzip, Failure
<1>6. CASE gz.state = "decompress"
  <2>1. r = Spoils
    BY <1>3, <1>4, <1>6 DEF Gzip
  <2> QED BY <1>2, <1>6, <2>1 DEF Spoils, Failure
<1>7. CASE gz.state = "spoilt"
  BY <1>2, <1>3, <1>7 DEF Gzip, Failure
<1>8. CASE gz.state = "footer"
  BY <1>3, <1>4, <1>8 DEF Gzip
<1> QED BY <1>3, <1>5, <1>6, <1>7, <1>8

LEMMA FlowStreamFails ==
  ASSUME Flow, out' = StreamOut, UNCHANGED <<fileVars, buf, peakIn, peakOut>>,
         NEW r \in StreamAnswers, ~r.ok, gz' = r.gz
  PROVE  /\ Flow'
         /\ Consumed(out') = Consumed(out)
<1>1. \/ gz' = gz
      \/ gz' = [gz EXCEPT !.state = "spoilt"] /\ gz.state = "decompress"
  BY FailureLeaves
<1>2. gz \in GzipStates /\ Sync(gz, Consumed(buf), Filled(out))
  BY DEF Flow
<1>3. gz' \in GzipStates
  BY <1>1, <1>2 DEF GzipStates
<1>4. Sync(gz', Consumed(buf), Filled(out))
  <2>1. CASE gz' = gz
    BY <1>2, <2>1
  <2>2. CASE gz' = [gz EXCEPT !.state = "spoilt"] /\ gz.state = "decompress"
    <3>1. /\ gz'.state = "spoilt" /\ gz'.read = gz.read /\ gz'.written = gz.written
          /\ gz'.member = gz.member
      BY <1>2, <2>2 DEF GzipStates
    <3>2. Place(gz') = Place(gz)
      BY <2>2, <3>1 DEF Place
    <3> QED BY <1>2, <2>2, <3>1, <3>2 DEF Sync, InStep
  <2> QED BY <1>1, <2>1, <2>2
<1> QED BY <1>3, <1>4, StreamOutKeeps DEF Flow, Sync, fileVars

LEMMA FlowRead ==
  ASSUME Flow, NEW n \in 0 .. Unread(out), out' = AdvanceRead(out, n),
         UNCHANGED <<fileVars, buf, gz, peakIn, peakOut>>
  PROVE  /\ Flow'
         /\ Consumed(out') = Consumed(out) + n
BY ReadKeeps DEF Flow, Sync, fileVars

-----------------------------------------------------------------------------
(* Frames                                                                  *)

\* The frames `kept` are in order, and with those in `dropped` they are all that end in the
\* first n bytes of the text.
Accounted(kept, dropped, n) ==
  /\ \A j, k \in DOMAIN kept : j < k => kept[j] < kept[k]
  /\ \A k \in DOMAIN kept : kept[k] <= n /\ kept[k] \notin dropped
  /\ \A x \in dropped : x <= n
  /\ \A e \in ends : e <= n <=> e \in dropped \/ \E k \in DOMAIN kept : kept[k] = e

FrameTypes ==
  /\ ends \in EndSets
  /\ events \in Seq(Nat)
  /\ given \in Seq(Nat)
  /\ lost \subseteq Nat

FrameInv == FrameTypes /\ Accounted(Kept, lost, Consumed(out))

LEMMA EndsAreNumbers == FrameTypes => ends \subseteq Nat \ {0}
BY BufDecoderAssumption DEF FrameTypes

LEMMA AccountedImplies == FrameInv => FramesAccountedFor
<1> SUFFICES ASSUME FrameInv PROVE FramesAccountedFor
  OBVIOUS
<1>1. ToSet(Kept) = {Kept[k] : k \in DOMAIN Kept}
  BY DEF ToSet
<1> QED
  BY <1>1 DEF FrameInv, Accounted, FramesAccountedFor

LEMMA FrameInit == Init => FrameInv
<1> SUFFICES ASSUME Init PROVE FrameInv
  OBVIOUS
<1>1. FrameTypes /\ Kept = <<>> /\ DOMAIN Kept = {} /\ lost = {}
  BY DEF Init, FrameTypes, Kept
<1>2. Consumed(out) = 0
  BY DEF Init, EmptyBuf, Consumed
<1>3. \A e \in ends : ~(e <= 0)
  BY <1>1, EndsAreNumbers
<1> QED
  BY <1>1, <1>2, <1>3 DEF FrameInv, Accounted

LEMMA FrameSame ==
  ASSUME FrameInv, Kept' = Kept, events' \in Seq(Nat), given' \in Seq(Nat),
         UNCHANGED <<ends, lost>>, Consumed(out') = Consumed(out)
  PROVE  FrameInv'
BY DEF FrameInv, FrameTypes, Accounted

\* One more frame that ends after the others, and before any other that is to come.
LEMMA FrameNext ==
  ASSUME FrameInv, NEW e \in Nat, Consumed(out) \in Nat, Consumed(out) < e,
         \A d \in ends : Consumed(out) < d /\ d <= e => d = e,
         Kept' = Append(Kept, e), events' \in Seq(Nat), given' \in Seq(Nat),
         UNCHANGED <<ends, lost>>, Consumed(out') = e
  PROVE  FrameInv'
<1> DEFINE n == Len(Kept)
<1>1. Kept \in Seq(Nat)
  BY ConcatProperties DEF FrameInv, FrameTypes, Kept
<1>2. /\ n \in Nat
      /\ DOMAIN Kept = 1 .. n
      /\ DOMAIN Kept' = 1 .. n + 1
      /\ \A k \in 1 .. n : Kept'[k] = Kept[k] /\ Kept[k] \in Nat
      /\ Kept'[n + 1] = e
  BY <1>1, AppendProperties, LenProperties
<1> HIDE DEF n
<1>3. Accounted(Kept, lost, Consumed(out)) /\ ends \subseteq Nat /\ lost \subseteq Nat
  BY EndsAreNumbers DEF FrameInv, FrameTypes
<1>4. \A j, k \in 1 .. n + 1 : j < k => Kept'[j] < Kept'[k]
  <2> SUFFICES ASSUME NEW j \in 1 .. n + 1, NEW k \in 1 .. n + 1, j < k
               PROVE  Kept'[j] < Kept'[k]
    OBVIOUS
  <2>1. j \in 1 .. n /\ Kept'[j] <= Consumed(out)
    BY <1>2, <1>3, SMTT(30) DEF Accounted
  <2>2. CASE k = n + 1
    BY <1>2, <2>1, <2>2
  <2>3. CASE k # n + 1
    <3>1. j \in DOMAIN Kept /\ k \in DOMAIN Kept
      BY <1>2, <2>1, <2>3
    <3>2. Kept[j] < Kept[k]
      BY <1>3, <3>1 DEF Accounted
    <3> QED
      BY <1>2, <3>1, <3>2
  <2> QED
    BY <2>2, <2>3
<1>5. \A k \in 1 .. n + 1 : Kept'[k] <= e /\ Kept'[k] \notin lost
  <2> SUFFICES ASSUME NEW k \in 1 .. n + 1
               PROVE  Kept'[k] <= e /\ Kept'[k] \notin lost
    OBVIOUS
  <2>1. CASE k = n + 1
    BY <1>2, <1>3, <2>1 DEF Accounted
  <2>2. CASE k # n + 1
    <3>1. k \in DOMAIN Kept
      BY <1>2, <2>2
    <3>2. Kept[k] <= Consumed(out) /\ Kept[k] \notin lost
      BY <1>3, <3>1 DEF Accounted
    <3> QED
      BY <1>2, <3>1, <3>2
  <2> QED
    BY <2>1, <2>2
<1>6. \A x \in lost : x <= e
  BY <1>3 DEF Accounted
<1>7. \A d \in ends : d <= e <=> d \in lost \/ \E k \in 1 .. n + 1 : Kept'[k] = d
  <2> SUFFICES ASSUME NEW d \in ends
               PROVE  d <= e <=> d \in lost \/ \E k \in 1 .. n + 1 : Kept'[k] = d
    OBVIOUS
  <2>1. CASE d <= Consumed(out)
    BY <1>2, <1>3, <2>1 DEF Accounted
  <2>2. CASE ~(d <= Consumed(out)) /\ d <= e
    <3>1. d = e
      BY <1>3, <2>2
    <3> QED
      BY <1>2, <2>2, <3>1
  <2>3. CASE ~(d <= e)
    BY <1>3, <1>5, <1>6, <2>3
  <2> QED
    BY <2>1, <2>2, <2>3
<1> QED
  BY <1>2, <1>4, <1>5, <1>6, <1>7 DEF FrameInv, FrameTypes, Accounted

\* The frames of the turn are dropped for good.
LEMMA FrameDrop ==
  ASSUME FrameInv, events' = <<>>, given' = given, lost' = lost \union ToSet(events),
         ends' = ends, Consumed(out') = Consumed(out), Consumed(out) \in Nat
  PROVE  FrameInv'
<1> DEFINE m == Len(given)
           n == Len(events)
<1>1. /\ given \in Seq(Nat) /\ events \in Seq(Nat)
      /\ ends \subseteq Nat /\ lost \subseteq Nat
      /\ Accounted(Kept, lost, Consumed(out))
  BY EndsAreNumbers DEF FrameInv, FrameTypes
<1>2. /\ m \in Nat /\ n \in Nat
      /\ DOMAIN given = 1 .. m /\ DOMAIN events = 1 .. n
      /\ \A k \in 1 .. m : given[k] \in Nat
      /\ \A k \in 1 .. n : events[k] \in Nat
  BY <1>1, LenProperties
<1>3. /\ DOMAIN Kept = 1 .. m + n
      /\ \A k \in 1 .. m : Kept[k] = given[k]
      /\ \A k \in 1 .. n : Kept[m + k] = events[k]
  <2>1. /\ Kept \in Seq(Nat)
        /\ Len(Kept) = m + n
        /\ \A k \in 1 .. m + n : Kept[k] = IF k <= m THEN given[k] ELSE events[k - m]
    BY <1>1, ConcatProperties DEF Kept
  <2>2. DOMAIN Kept = 1 .. m + n
    BY <2>1, LenProperties
  <2> HIDE DEF m, n
  <2> QED
    BY <1>2, <2>1, <2>2
<1>4. Kept' = given
  BY <1>1, ConcatEmptySeq DEF Kept
<1>5. ToSet(events) = {events[k] : k \in 1 .. n}
  BY <1>2 DEF ToSet
<1> HIDE DEF m, n
<1>6. \A j, k \in 1 .. m : j < k => given[j] < given[k]
  <2> SUFFICES ASSUME NEW j \in 1 .. m, NEW k \in 1 .. m, j < k
               PROVE  given[j] < given[k]
    OBVIOUS
  <2>1. j \in DOMAIN Kept /\ k \in DOMAIN Kept
    BY <1>2, <1>3
  <2>2. Kept[j] < Kept[k]
    BY <1>1, <2>1 DEF Accounted
  <2> QED
    BY <1>3, <2>2
<1>7. \A k \in 1 .. m : given[k] <= Consumed(out) /\ given[k] \notin lost'
  <2> SUFFICES ASSUME NEW k \in 1 .. m
               PROVE  given[k] <= Consumed(out) /\ given[k] \notin lost'
    OBVIOUS
  <2>1. given[k] <= Consumed(out) /\ given[k] \notin lost
    <3>1. k \in DOMAIN Kept /\ Kept[k] = given[k]
      BY <1>2, <1>3
    <3>2. Kept[k] <= Consumed(out) /\ Kept[k] \notin lost
      BY <1>1, <3>1 DEF Accounted
    <3> QED
      BY <3>1, <3>2
  <2>2. ASSUME NEW j \in 1 .. n PROVE given[k] # events[j]
    <3>1. k \in DOMAIN Kept /\ m + j \in DOMAIN Kept /\ k < m + j
      BY <1>2, <1>3
    <3>2. Kept[k] < Kept[m + j]
      BY <1>1, <3>1 DEF Accounted
    <3> QED
      BY <1>2, <1>3, <3>2
  <2> QED
    BY <1>5, <2>1, <2>2
<1>8. \A x \in lost' : x \in Nat /\ x <= Consumed(out)
  <2>1. \A j \in 1 .. n : events[j] \in Nat /\ events[j] <= Consumed(out)
    <3> SUFFICES ASSUME NEW j \in 1 .. n PROVE events[j] <= Consumed(out)
      BY <1>2
    <3>1. m + j \in DOMAIN Kept
      BY <1>2, <1>3
    <3> QED
      BY <1>1, <1>3, <3>1 DEF Accounted
  <2> QED
    BY <1>1, <1>5, <2>1 DEF Accounted
<1>9. \A e \in ends :
        e <= Consumed(out) <=> e \in lost' \/ \E k \in 1 .. m : given[k] = e
  <2> SUFFICES ASSUME NEW e \in ends
               PROVE  e <= Consumed(out)
                        <=> e \in lost' \/ \E k \in 1 .. m : given[k] = e
    OBVIOUS
  <2>1. (\E k \in DOMAIN Kept : Kept[k] = e)
          <=> e \in ToSet(events) \/ \E k \in 1 .. m : given[k] = e
    <3>1. ASSUME NEW k \in DOMAIN Kept, Kept[k] = e
          PROVE  e \in ToSet(events) \/ \E i \in 1 .. m : given[i] = e
      <4>1. CASE k <= m
        BY <1>2, <1>3, <3>1, <4>1
      <4>2. CASE ~(k <= m)
        <5>1. k - m \in 1 .. n /\ k = m + (k - m)
          BY <1>2, <1>3, <4>2
        <5>2. events[k - m] = e
          BY <1>3, <3>1, <5>1
        <5> QED
          BY <1>5, <5>1, <5>2
      <4> QED
        BY <4>1, <4>2
    <3>2. ASSUME e \in ToSet(events) \/ \E i \in 1 .. m : given[i] = e
          PROVE  \E k \in DOMAIN Kept : Kept[k] = e
      <4>1. CASE e \in ToSet(events)
        <5>1. PICK i \in 1 .. n : events[i] = e
          BY <1>5, <4>1
        <5>2. m + i \in DOMAIN Kept /\ Kept[m + i] = e
          BY <1>2, <1>3, <5>1
        <5> QED
          BY <5>2
      <4>2. CASE \E i \in 1 .. m : given[i] = e
        <5>1. PICK i \in 1 .. m : given[i] = e
          BY <4>2
        <5>2. i \in DOMAIN Kept /\ Kept[i] = e
          BY <1>2, <1>3, <5>1
        <5> QED
          BY <5>2
      <4> QED
        BY <3>2, <4>1, <4>2
    <3> QED
      BY <3>1, <3>2
  <2> QED
    BY <1>1, <2>1 DEF Accounted
<1>10. FrameTypes'
  <2>1. <<>> \in Seq(Nat)
    BY EmptySeq
  <2> QED
    BY <1>1, <1>8, <2>1 DEF FrameInv, FrameTypes
<1> QED
  BY <1>2, <1>4, <1>6, <1>7, <1>8, <1>9, <1>10 DEF FrameInv, Accounted

\* A flush gives out what is left of the text as a frame.
LEMMA FrameRest ==
  ASSUME FrameInv, Flow, Frames = {}, out' = AdvanceRead(out, Unread(out)),
         Consumed(out') = Filled(out),
         given' = (given \o events) \o (IF Unread(out) > 0 THEN <<Filled(out)>> ELSE <<>>),
         events' = <<>>, UNCHANGED <<ends, lost>>
  PROVE  FrameInv'
<1>1. /\ Consumed(out) \in Nat
      /\ Filled(out) \in Nat
      /\ Unread(out) \in Nat
      /\ Filled(out) = Consumed(out) + Unread(out)
  BY BufNumbers DEF Flow
<1>2. given \in Seq(Nat) /\ events \in Seq(Nat) /\ Kept \in Seq(Nat)
  BY ConcatProperties DEF FrameInv, FrameTypes, Kept
<1>3. events' \in Seq(Nat)
  BY EmptySeq
<1>4. \A d \in ends : ~(Consumed(out) < d /\ d <= Filled(out))
  BY DEF Frames
<1>5. CASE Unread(out) > 0
  <2>1. given' = Append(Kept, Filled(out))
    BY <1>1, <1>2, <1>5, AppendIsConcat DEF Kept
  <2>2. given' \in Seq(Nat)
    BY <1>1, <1>2, <2>1, AppendProperties
  <2>3. Kept' = Append(Kept, Filled(out))
    BY <2>1, <2>2, ConcatEmptySeq DEF Kept
  <2>4. Filled(out) \in Nat /\ Consumed(out) < Filled(out) /\ Consumed(out) \in Nat
    BY <1>1, <1>5
  <2>5. \A d \in ends : Consumed(out) < d /\ d <= Filled(out) => d = Filled(out)
    BY <1>4
  <2>6. UNCHANGED <<ends, lost>> /\ Consumed(out') = Filled(out)
    OBVIOUS
  <2> QED
    BY <1>3, <2>2, <2>3, <2>4, <2>5, <2>6, FrameNext
<1>6. CASE ~(Unread(out) > 0)
  <2>1. given' = Kept
    BY <1>2, <1>6, ConcatEmptySeq DEF Kept
  <2>2. Kept' = Kept
    BY <1>2, <2>1, ConcatEmptySeq DEF Kept
  <2>3. Consumed(out') = Consumed(out)
    BY <1>1, <1>6
  <2> QED
    BY <1>2, <1>3, <2>1, <2>2, <2>3, FrameSame
<1> QED
  BY <1>5, <1>6

-----------------------------------------------------------------------------
(* The invariant                                                           *)

IInv == Flow /\ FrameInv /\ pc \in Steps /\ again \in BOOLEAN

LEMMA InvInit == Init => IInv
BY FlowInit, FrameInit DEF Init, IInv, Steps

\* A step that leaves the frames and what is taken of the text as they are.
LEMMA FramesUntouched ==
  ASSUME FrameInv, UNCHANGED <<ends, frameVars>>, Consumed(out') = Consumed(out)
  PROVE  FrameInv'
BY FrameSame DEF frameVars, Kept, FrameInv, FrameTypes

LEMMA InvDecode ==
  ASSUME IInv, NEW next \in Steps, Decode(next)
  PROVE  IInv'
<1>1. Flow' /\ Consumed(out') = Consumed(out)
  BY FlowDecode DEF IInv
<1>2. UNCHANGED <<ends, frameVars>> /\ pc' = next /\ again' \in BOOLEAN
  BY DEF Decode, fileVars, NeedsMoreInput
<1>3. FrameInv'
  BY <1>1, <1>2, FramesUntouched DEF IInv
<1> QED
  BY <1>1, <1>2, <1>3 DEF IInv

LEMMA InvNext == IInv /\ [Next]_vars => IInv'
<1> SUFFICES ASSUME IInv, [Next]_vars PROVE IInv'
  OBVIOUS
<1> USE DEF IInv
<1>1. CASE GrowFile
  <2>1. /\ size' = size + 1
        /\ UNCHANGED <<kind, ends, offset, buf, out, gz, pc, again, frameVars, peakIn, peakOut>>
    BY <1>1 DEF GrowFile
  <2>2. Flow'
    BY <2>1 DEF Flow, Sync
  <2>3. FrameInv'
    BY <2>1, FramesUntouched
  <2> QED
    BY <2>1, <2>2, <2>3
<1>2. CASE Fill
  <2>1. /\ UNCHANGED <<ends, out, again, frameVars>>
        /\ pc' \in Steps
    BY <1>2 DEF Fill, Steps
  <2>2. FrameInv'
    BY <2>1, FramesUntouched
  <2> QED
    BY <1>2, <2>1, <2>2, FlowFill
<1>3. CASE DecodeRound
  BY <1>3, InvDecode DEF DecodeRound, Steps
<1>4. CASE DecodeFails
  <2>1. /\ out' = StreamOut
        /\ lost' = lost \union ToSet(events)
        /\ events' = <<>>
        /\ pc' = "idle"
        /\ UNCHANGED <<fileVars, buf, again, given, peakIn, peakOut>>
        /\ \E r \in StreamAnswers : ~r.ok /\ gz' = r.gz
    BY <1>4 DEF DecodeFails
  <2>2. Flow' /\ Consumed(out') = Consumed(out)
    BY <2>1, FlowStreamFails
  <2>3. Consumed(out) \in Nat
    BY BufNumbers DEF Flow
  <2>4. FrameInv'
    BY <2>1, <2>2, <2>3, FrameDrop DEF fileVars
  <2> QED
    BY <2>1, <2>2, <2>4 DEF Steps
<1>5. CASE TakeFrame
  <2>1. PICK e \in Frames :
          /\ \A d \in Frames : e <= d
          /\ events' = Append(events, e)
          /\ out' = AdvanceRead(out, FrameLength(e))
    BY <1>5 DEF TakeFrame
  <2>2. /\ again' = TRUE
        /\ UNCHANGED <<fileVars, buf, gz, pc, given, lost, peakIn, peakOut>>
    BY <1>5 DEF TakeFrame
  <2>3. /\ Consumed(out) \in Nat
        /\ Unread(out) \in Nat
        /\ Filled(out) = Consumed(out) + Unread(out)
    BY BufNumbers DEF Flow
  <2>4. ends \subseteq Nat
    BY EndsAreNumbers DEF FrameInv
  <2>5. e \in ends /\ e \in Nat /\ Consumed(out) < e /\ e <= Filled(out)
    BY <2>4 DEF Frames
  <2>6. FrameLength(e) = e - Consumed(out) /\ FrameLength(e) \in 0 .. Unread(out)
    BY <2>3, <2>5 DEF FrameLength
  <2>7. Flow' /\ Consumed(out') = Consumed(out) + FrameLength(e)
    BY <2>1, <2>2, <2>6, FlowRead
  <2>8. Consumed(out') = e
    BY <2>3, <2>5, <2>6, <2>7
  <2>9. \A d \in ends : Consumed(out) < d /\ d <= e => d = e
    BY <2>1, <2>3, <2>4, <2>5 DEF Frames
  <2>10. events \in Seq(Nat) /\ given \in Seq(Nat)
    BY DEF FrameInv, FrameTypes
  <2>11. events' \in Seq(Nat)
    BY <2>1, <2>5, <2>10, AppendProperties
  <2>12. Kept' = Append(Kept, e)
    BY <2>1, <2>2, <2>5, <2>10, <2>11, ConcatProperties DEF Kept
  <2>13. FrameInv'
    BY <2>2, <2>3, <2>5, <2>8, <2>9, <2>10, <2>11, <2>12, FrameNext DEF fileVars
  <2> QED
    BY <2>2, <2>7, <2>13
<1>6. CASE EndRound
  <2>1. UNCHANGED <<fileVars, buf, out, gz, again, lost, peakIn, peakOut>>
    BY <1>6 DEF EndRound
  <2>2. Flow'
    BY <2>1 DEF Flow, Sync, fileVars
  <2>3. pc' \in Steps
    BY <1>6 DEF EndRound, Steps
  <2>4. given \in Seq(Nat) /\ events \in Seq(Nat)
    BY DEF FrameInv, FrameTypes
  <2>5. \/ UNCHANGED <<given, events>>
        \/ given' = given \o events /\ events' = <<>>
    BY <1>6 DEF EndRound
  <2>6. events' \in Seq(Nat) /\ given' \in Seq(Nat) /\ Kept' = Kept
    <3>1. CASE UNCHANGED <<given, events>>
      BY <2>4, <3>1 DEF Kept
    <3>2. CASE given' = given \o events /\ events' = <<>>
      <4>1. given \o events \in Seq(Nat) /\ <<>> \in Seq(Nat)
        BY <2>4, ConcatProperties, EmptySeq
      <4>2. (given \o events) \o <<>> = given \o events
        BY <4>1, ConcatEmptySeq
      <4>3. given' \o events' = given \o events
        BY <3>2, <4>2
      <4> QED
        BY <3>2, <4>1, <4>3 DEF Kept
    <3> QED
      BY <2>5, <3>1, <3>2
  <2>7. FrameInv'
    BY <2>1, <2>6, FrameSame DEF fileVars
  <2> QED
    BY <2>1, <2>2, <2>3, <2>7
<1>7. CASE Flush
  BY <1>7, InvDecode DEF Flush, Steps
<1>8. CASE FlushFails
  <2>1. /\ out' = StreamOut
        /\ pc' = "flushed"
        /\ UNCHANGED <<fileVars, buf, again, frameVars, peakIn, peakOut>>
        /\ \E r \in StreamAnswers : ~r.ok /\ gz' = r.gz
    BY <1>8 DEF FlushFails
  <2>2. Flow' /\ Consumed(out') = Consumed(out)
    BY <2>1, FlowStreamFails
  <2>3. FrameInv'
    BY <2>1, <2>2, FramesUntouched DEF fileVars
  <2> QED
    BY <2>1, <2>2, <2>3 DEF Steps
<1>9. CASE FlushRest
  <2>1. /\ Frames = {}
        /\ out' = AdvanceRead(out, Unread(out))
        /\ given' = (given \o events) \o (IF Unread(out) > 0 THEN <<Filled(out)>> ELSE <<>>)
        /\ events' = <<>>
        /\ pc' = "flushed"
        /\ UNCHANGED <<fileVars, buf, gz, again, lost, peakIn, peakOut>>
    BY <1>9 DEF FlushRest
  <2>2. /\ Consumed(out) \in Nat
        /\ Unread(out) \in Nat
        /\ Filled(out) = Consumed(out) + Unread(out)
    BY BufNumbers DEF Flow
  <2>3. Flow' /\ Consumed(out') = Consumed(out) + Unread(out)
    BY <2>1, <2>2, FlowRead
  <2>4. FrameInv'
    BY <2>1, <2>2, <2>3, FrameRest DEF fileVars
  <2> QED
    BY <2>1, <2>3, <2>4 DEF Steps
<1>10. CASE UNCHANGED vars
  <2>1. UNCHANGED <<kind, ends, size, offset, buf, out, gz, pc, again, frameVars, peakIn, peakOut>>
    BY <1>10 DEF vars, fileVars
  <2>2. Flow'
    BY <2>1 DEF Flow, Sync
  <2>3. FrameInv'
    BY <2>1, FramesUntouched
  <2> QED
    BY <2>1, <2>2, <2>3
<1> QED
  BY <1>1, <1>2, <1>3, <1>4, <1>5, <1>6, <1>7, <1>8, <1>9, <1>10 DEF Next, Turn

LEMMA InvariantHolds == Spec => []IInv
BY InvInit, InvNext, PTL DEF Spec

-----------------------------------------------------------------------------
(* What a turn leaves behind                                               *)

\* A broken member is met at its header, and a body that is through is not gone on with.
Proceeds(g) ==
  /\ kind = "gzip" /\ g.member \in Broken => g.state = "header"
  /\ g.state = "decompress" => ~(g.read = BodyLen /\ g.written = Expansion * BodyLen)

\* The stream decoder is not stuck, at a broken member or in a spoilt body.
Decodes(g) == kind = "plain" \/ (g.member \notin Broken /\ g.state # "spoilt")

AnswerOf(r) == r \in StreamAnswers /\ r.ok

LEMMA AnswersProceed ==
  ASSUME Flow, Proceeds(gz), NEW r, AnswerOf(r)
  PROVE  Proceeds(r.gz) /\ (Decodes(r.gz) => Decodes(gz))
<1> USE BufDecoderAssumption
<1>1. CASE Unread(buf) > 0 /\ kind = "gzip"
  <2>1. r \in Gzip(Unread(buf), Room(StreamOut)) /\ r.ok
    BY <1>1 DEF AnswerOf, StreamAnswers, StreamDecode
  <2>2. gz.state \in {"header", "decompress", "spoilt", "footer"} /\ gz.member \in Nat
    BY DEF Flow, GzipStates
  <2>3. r \notin {Failure} /\ r \notin {Spoils}
    BY <2>1 DEF Failure, Spoils
  <2>4. CASE gz.state = "footer"
    <3>1. r \in Footer(Unread(buf)) /\ gz.member \notin Broken
      BY <1>1, <2>1, <2>4 DEF Gzip, Proceeds
    <3>2. r.gz = gz \/ r.gz.state = "header"
      BY <3>1 DEF Footer, Answer
    <3> QED BY <2>4, <3>1, <3>2 DEF Proceeds, Decodes
  <2>5. CASE gz.state = "header"
    <3>1. r \in Header(Unread(buf)) /\ gz.member \notin Broken
      BY <2>1, <2>2, <2>3, <2>5 DEF Gzip
    <3>2. \/ r.gz = gz
          \/ r.gz.state = "decompress" /\ r.gz.member = gz.member /\ r.gz.read = gz.read
      <4>1. gz = [state |-> gz.state, read |-> gz.read, written |-> gz.written,
                  member |-> gz.member]
        BY DEF Flow, GzipStates
      <4> QED BY <3>1, <4>1 DEF Header, Answer
    <3>3. gz.read = 0 /\ BodyLen # 0
      BY <1>1, <2>5 DEF Flow, Sync, InStep
    <3> QED BY <2>5, <3>1, <3>2, <3>3 DEF Proceeds, Decodes
  <2>6. CASE gz.state = "decompress"
    <3>1. r \in Inflate(Unread(buf), Room(StreamOut)) /\ gz.member \notin Broken
      BY <1>1, <2>1, <2>2, <2>3, <2>6 DEF Gzip, Proceeds
    <3>2. /\ r.gz.member = gz.member
          /\ r.gz.state = IF r.gz.read = BodyLen /\ r.gz.written = Expansion * BodyLen
                            THEN "footer" ELSE "decompress"
      BY <3>1 DEF Inflate, Answer
    <3> QED BY <2>6, <3>1, <3>2 DEF Proceeds, Decodes
  <2>7. gz.state # "spoilt"
    BY <2>1, <2>3 DEF Gzip
  <2> QED BY <2>2, <2>4, <2>5, <2>6, <2>7
<1>2. CASE ~(Unread(buf) > 0 /\ kind = "gzip")
  <2>1. r.gz = gz
    <3>1. CASE Unread(buf) > 0
      <4>1. kind = "plain"
        BY <1>2, <3>1 DEF Flow
      <4>2. r \in Plain(Unread(buf), Room(StreamOut))
        BY <3>1, <4>1 DEF AnswerOf, StreamAnswers, StreamDecode
      <4> QED BY <4>2 DEF Plain, Answer
    <3>2. CASE ~(Unread(buf) > 0)
      BY <3>2 DEF AnswerOf, StreamAnswers, Answer
    <3> QED BY <3>1, <3>2
  <2> QED BY <2>1
<1> QED BY <1>1, <1>2

LEMMA StuckOnceFailed ==
  ASSUME Flow, Proceeds(gz), NEW r \in StreamAnswers, ~r.ok
  PROVE  Proceeds(r.gz) /\ ~Decodes(r.gz)
<1>1. gz = [state |-> gz.state, read |-> gz.read, written |-> gz.written,
            member |-> gz.member]
  BY DEF Flow, GzipStates
<1>2. kind = "gzip"
  BY FailureLeaves
<1>3. CASE r.gz = gz /\ gz.state = "header" /\ gz.member \in Broken
  BY <1>2, <1>3 DEF Proceeds, Decodes
<1>4. CASE r.gz = gz /\ gz.state = "spoilt"
  BY <1>2, <1>4 DEF Proceeds, Decodes
<1>5. CASE r.gz = [gz EXCEPT !.state = "spoilt"] /\ gz.state = "decompress"
  <2>1. r.gz.state = "spoilt" /\ r.gz.member = gz.member
    BY <1>1, <1>5
  <2>2. gz.member \notin Broken
    BY <1>2, <1>5 DEF Proceeds
  <2> QED BY <1>2, <2>1, <2>2 DEF Proceeds, Decodes
<1> QED BY FailureLeaves, <1>3, <1>4, <1>5

\* The text that is due after n bytes, of which the decoder is at this place of a member.
LEMMA DueText ==
  ASSUME kind = "gzip", NEW k \in Nat, NEW p \in 0 .. MemberLen - 1
  PROVE  DueTextOf(MemberLen * k + p)
           = (Expansion * BodyLen) * (IF p > HeaderLen + BodyLen THEN k + 1 ELSE k)
<1>1. MemberLen \in Nat \ {0}
  BY BufDecoderAssumption DEF MemberLen
<1>2. (MemberLen * k + p) \div MemberLen = k /\ (MemberLen * k + p) % MemberLen = p
  BY <1>1, Multiple
<1> QED BY <1>2 DEF DueTextOf

\* A decoder that neither reads nor writes has given all the text that is due.
LEMMA IdleIsDone ==
  ASSUME Flow, Proceeds(gz), NEW r, AnswerOf(r), NeedsMoreInput(r)
  PROVE  DueTextOf(offset) <= Filled(out)
<1> DEFINE avail   == Unread(buf)
           room    == Room(StreamOut)
           textLen == Expansion * BodyLen
<1>1. /\ avail \in Nat
      /\ offset = Consumed(buf) + avail
      /\ Consumed(buf) \in Nat /\ Filled(out) \in Nat /\ offset \in Nat
  BY BufNumbers DEF Flow
<1>2. r.read = 0 /\ r.written = 0 /\ r \in StreamAnswers /\ r.ok
  BY DEF NeedsMoreInput, AnswerOf
<1>3. avail > 0 => room \in Nat /\ room > 0
  <2> SUFFICES ASSUME avail > 0 PROVE room \in Nat /\ room > 0
    OBVIOUS
  <2>1. StreamOut = EnsureWriteable(out)
    BY DEF StreamOut
  <2>2. Room(StreamOut) > 0
    BY <2>1, Writeable DEF Flow
  <2> QED BY <2>2, StreamOutKeeps, BufNumbers DEF Flow
<1>4. {HeaderLen, BodyLen, Expansion, FooterLen} \subseteq Nat \ {0} /\ textLen \in Nat
  BY BufDecoderAssumption
<1>5. CASE kind = "plain"
  <2>1. Filled(out) = Consumed(buf)
    BY <1>5 DEF Flow, Sync
  <2>2. avail = 0
    <3> SUFFICES ASSUME avail > 0 PROVE FALSE
      BY <1>1
    <3>1. r \in Plain(avail, room)
      BY <1>2, <1>5 DEF StreamAnswers, StreamDecode
    <3>2. Least(avail, room) = 0
      BY <1>2, <3>1 DEF Plain, Answer
    <3> QED BY <1>1, <1>3, <3>2 DEF Least
  <2>3. DueTextOf(offset) = offset
    BY <1>5 DEF DueTextOf
  <2> QED BY <1>1, <2>1, <2>2, <2>3
<1>6. CASE kind = "gzip"
  <2>1. InStep(gz, Consumed(buf), Filled(out)) /\ gz \in GzipStates
    BY <1>6 DEF Flow, Sync
  <2> DEFINE k == gz.member
             place == Place(gz)
             p == place + avail
  <2>2. /\ k \in Nat /\ gz.read \in 0 .. BodyLen /\ gz.written \in Nat
        /\ gz.state \in {"header", "decompress", "spoilt", "footer"}
    BY <1>4, <2>1 DEF GzipStates
  <2>3. /\ place \in 0 .. HeaderLen + BodyLen
        /\ gz.state = "header" => place = 0
        /\ gz.state = "footer" => place = HeaderLen + BodyLen
    BY <1>4, <2>2 DEF Place
  <2>4. /\ Consumed(buf) = MemberLen * k + place
        /\ Filled(out) = textLen * k + gz.written
        /\ MemberLen * k \in Nat /\ textLen * k \in Nat
        /\ MemberLen = HeaderLen + BodyLen + FooterLen
    BY <1>4, <2>1, <2>2, SMTT(30) DEF InStep, MemberLen
  <2>5. textLen * (k + 1) = textLen * k + textLen
    BY <1>4, <2>2, NextMultiple
  <2> HIDE DEF place, k, textLen, avail, room
  \* Either it is at a place before the footer, or the whole body is out.
  <2>6. ASSUME p < MemberLen, p > HeaderLen + BodyLen => gz.written = textLen
        PROVE  DueTextOf(offset) <= Filled(out)
    <3>1. p \in 0 .. MemberLen - 1 /\ offset = MemberLen * k + p
      BY <1>1, <1>4, <2>3, <2>4, <2>6
    <3>2. DueTextOf(offset) = textLen * (IF p > HeaderLen + BodyLen THEN k + 1 ELSE k)
      BY <1>6, <2>2, <3>1, DueText DEF k, textLen
    <3> HIDE DEF p
    <3>3. CASE p > HeaderLen + BodyLen
      BY <1>4, <2>4, <2>5, <2>6, <3>2, <3>3
    <3>4. CASE ~(p > HeaderLen + BodyLen)
      BY <1>4, <2>2, <2>4, <3>2, <3>4
    <3> QED BY <3>3, <3>4
  <2>7. CASE avail = 0
    <3>1. p < MemberLen /\ ~(p > HeaderLen + BodyLen)
      BY <1>4, <2>3, <2>4, <2>7
    <3> QED BY <2>6, <3>1
  <2>8. CASE avail > 0
    <3>1. r \in Gzip(avail, room) /\ r \notin {Failure} /\ r \notin {Spoils}
      BY <1>2, <1>6, <2>8 DEF StreamAnswers, StreamDecode, Failure, Spoils, avail, room
    <3>2. CASE gz.state = "header"
      <4>1. r \in Header(avail)
        BY <3>1, <3>2 DEF Gzip
      <4>2. avail < HeaderLen
        BY <1>2, <1>4, <4>1 DEF Header, Answer
      <4> QED BY <1>1, <1>4, <2>3, <2>4, <2>6, <3>2, <4>2
    <3>3. CASE gz.state = "footer"
      <4>1. r \in Footer(avail)
        BY <3>1, <3>3 DEF Gzip
      <4>2. avail < FooterLen
        BY <1>2, <1>4, <4>1 DEF Footer, Answer
      <4>3. gz.written = textLen
        BY <2>1, <3>3 DEF InStep, textLen
      <4> QED BY <1>1, <1>4, <2>3, <2>4, <2>6, <3>3, <4>2, <4>3
    <3>4. CASE gz.state = "decompress"
      <4>1. r \in Inflate(avail, room)
        BY <3>1, <3>4 DEF Gzip
      <4> DEFINE most       == Least(avail, BodyLen - gz.read)
                 inflated   == Expansion * (gz.read + 0)
                 Written(q) == Least(room, Expansion * (gz.read + q) - gz.written)
      <4>2. PICK q \in 0 .. most : r.read = q /\ r.written = Written(q)
                                   /\ (q = most \/ Written(q) = room)
        BY <4>1 DEF Inflate, Answer
      <4>3. q = 0 /\ Written(0) = 0 /\ (0 = most \/ Written(0) = room)
        BY <1>2, <4>2
      <4>4. most = 0
        BY <1>3, <2>8, <4>3 DEF avail, room
      <4>5. gz.read = BodyLen
        BY <1>1, <1>4, <2>2, <2>8, <4>4 DEF Least
      <4>6. Written(0) = Least(room, textLen - gz.written)
        BY <1>4, <4>5 DEF textLen
      <4>7. gz.written <= textLen
        BY <2>1, <4>5 DEF InStep, textLen
      <4> HIDE DEF Written, most
      <4>8. gz.written = textLen
        BY <1>3, <1>4, <2>2, <2>8, <4>3, <4>6, <4>7 DEF Least, avail
      <4> QED BY <3>4, <4>5, <4>8 DEF Proceeds, textLen
    <3>5. gz.state # "spoilt"
      BY <3>1 DEF Gzip
    <3> QED BY <2>2, <3>2, <3>3, <3>4, <3>5
  <2> QED BY <1>1, <2>7, <2>8
<1> QED BY <1>5, <1>6 , BufDecoderAssumption DEF Flow

\* At a place where the reader stops, nothing that could be given to it is left.
CaughtUp ==
  /\ Proceeds(gz)
  /\ pc # "flushed" => ToSet(Kept) \subseteq ends
  /\ pc = "idle" => events = <<>>
  /\ Decodes(gz) =>
       /\ lost = {}
       /\ pc = "idle" => Frames = {}
       /\ pc = "idle" \/ (pc = "framing" /\ ~again) => DueTextOf(offset) <= Filled(out)
       /\ pc = "flushed" => Unread(out) = 0

LEMMA ConcatToSet ==
  ASSUME NEW s \in Seq(Nat), NEW t \in Seq(Nat)
  PROVE  ToSet(s \o t) = ToSet(s) \union ToSet(t)
<1>1. /\ s \o t \in Seq(Nat)
      /\ Len(s \o t) = Len(s) + Len(t)
      /\ \A k \in 1 .. Len(s) + Len(t) : (s \o t)[k] = IF k <= Len(s) THEN s[k] ELSE t[k - Len(s)]
      /\ Len(s) \in Nat /\ Len(t) \in Nat
  BY ConcatProperties
<1>2. /\ ToSet(s) = {s[k] : k \in 1 .. Len(s)}
      /\ ToSet(t) = {t[k] : k \in 1 .. Len(t)}
      /\ ToSet(s \o t) = {(s \o t)[k] : k \in 1 .. Len(s) + Len(t)}
  BY <1>1, LenProperties DEF ToSet
<1>3. \A x \in ToSet(s) : x \in ToSet(s \o t)
  <2> SUFFICES ASSUME NEW k \in 1 .. Len(s) PROVE s[k] \in ToSet(s \o t)
    BY <1>2
  <2>1. k \in 1 .. Len(s) + Len(t) /\ (s \o t)[k] = s[k]
    BY <1>1
  <2> QED BY <1>2, <2>1
<1>4. \A x \in ToSet(t) : x \in ToSet(s \o t)
  <2> SUFFICES ASSUME NEW k \in 1 .. Len(t) PROVE t[k] \in ToSet(s \o t)
    BY <1>2
  <2>1. Len(s) + k \in 1 .. Len(s) + Len(t) /\ (s \o t)[Len(s) + k] = t[k]
    BY <1>1
  <2> QED BY <1>2, <2>1
<1>5. \A x \in ToSet(s \o t) : x \in ToSet(s) \/ x \in ToSet(t)
  <2> SUFFICES ASSUME NEW k \in 1 .. Len(s) + Len(t)
               PROVE  (s \o t)[k] \in ToSet(s) \/ (s \o t)[k] \in ToSet(t)
    BY <1>2
  <2>1. CASE k <= Len(s)
    BY <1>1, <1>2, <2>1
  <2>2. CASE ~(k <= Len(s))
    <3>1. k - Len(s) \in 1 .. Len(t) /\ (s \o t)[k] = t[k - Len(s)]
      BY <1>1, <2>2
    <3> QED BY <1>2, <3>1
  <2> QED BY <2>1, <2>2
<1> QED BY <1>3, <1>4, <1>5

LEMMA NothingInEmpty == ToSet(<<>>) = {}
BY DEF ToSet

LEMMA KeptToSet ==
  ASSUME FrameTypes
  PROVE  ToSet(Kept) = ToSet(given) \union ToSet(events)
BY ConcatToSet DEF FrameTypes, Kept

LEMMA CaughtUpInit == Init => CaughtUp
<1> SUFFICES ASSUME Init PROVE CaughtUp
  OBVIOUS
<1> USE BufDecoderAssumption DEF Init
<1>1. Proceeds(gz)
  BY DEF Proceeds, NewMember
<1>2. Kept = <<>> /\ ToSet(Kept) = {}
  BY NothingInEmpty DEF Kept
<1>3. Filled(out) = 0 /\ Consumed(out) = 0
  BY DEF EmptyBuf, Filled, Consumed
<1>4. Frames = {}
  <2>1. ends \subseteq Nat \ {0}
    OBVIOUS
  <2> QED BY <1>3, <2>1 DEF Frames
<1>5. DueTextOf(0) = 0
  <2>1. CASE kind = "plain"
    BY <2>1 DEF DueTextOf
  <2>2. CASE kind = "gzip"
    <3>1. MemberLen \in Nat \ {0} /\ HeaderLen + BodyLen \in Nat
      BY DEF MemberLen
    <3>2. 0 \in 0 .. MemberLen - 1 /\ MemberLen * 0 + 0 = 0 /\ ~(0 > HeaderLen + BodyLen)
      BY <3>1
    <3>3. DueTextOf(MemberLen * 0 + 0) = (Expansion * BodyLen) * 0
      BY <2>2, <3>2, DueText
    <3>4. (Expansion * BodyLen) * 0 = 0
      OBVIOUS
    <3> QED BY <3>2, <3>3, <3>4
  <2> QED BY <2>1, <2>2
<1> QED BY <1>1, <1>2, <1>3, <1>4, <1>5 DEF CaughtUp

\* Steps that touch neither the decoder nor the frames, and do not stop the reader.
LEMMA CaughtUpGoesOn ==
  ASSUME CaughtUp, UNCHANGED <<kind, ends, gz>>, Kept' = Kept, lost' = lost,
         pc # "flushed", pc' \in {"decoding", "framing", "flushing", "panicked"},
         pc' = "framing" => again'
  PROVE  CaughtUp'
BY DEF CaughtUp, Proceeds, Decodes

LEMMA CaughtUpDecode ==
  ASSUME IInv, CaughtUp, NEW next \in {"framing", "flushing"}, pc # "flushed", Decode(next)
  PROVE  CaughtUp'
<1>1. PICK r \in StreamAnswers :
        /\ r.ok
        /\ gz' = r.gz
        /\ out' = AdvanceWrite(StreamOut, r.written)
        /\ again' = ~NeedsMoreInput(r)
  BY DEF Decode
<1>2. /\ pc' = next /\ next # "idle" /\ next # "flushed"
      /\ UNCHANGED <<kind, ends, size, offset, events, given, lost>>
  BY DEF Decode, fileVars, frameVars
<1>3. Proceeds(r.gz) /\ (Decodes(r.gz) => Decodes(gz))
  BY <1>1, AnswersProceed DEF IInv, CaughtUp, AnswerOf
<1>4. Proceeds(gz)' /\ (Decodes(gz)' => Decodes(gz))
  BY <1>1, <1>2, <1>3 DEF Proceeds, Decodes
<1>5. Kept' = Kept
  BY <1>2 DEF Kept
<1>6. ~again' => DueTextOf(offset)' <= Filled(out')
  <2> SUFFICES ASSUME NeedsMoreInput(r) PROVE DueTextOf(offset)' <= Filled(out')
    BY <1>1
  <2>1. DueTextOf(offset) <= Filled(out)
    BY <1>1, IdleIsDone DEF IInv, CaughtUp, AnswerOf
  <2>2. DueTextOf(offset)' = DueTextOf(offset)
    BY <1>2 DEF DueTextOf
  <2>3. r.written = 0
    BY DEF NeedsMoreInput
  <2>4. /\ GoodBuf(StreamOut, peakOut)
        /\ Filled(StreamOut) = Filled(out)
        /\ peakOut \in Nat
    BY StreamOutKeeps DEF IInv, Flow
  <2>5. Room(StreamOut) \in Nat /\ Filled(out) \in Nat
    BY <2>4, BufNumbers
  <2>6. Filled(AdvanceWrite(StreamOut, 0)) = Filled(StreamOut) + 0
    BY <2>4, <2>5, WriteKeeps
  <2> QED BY <1>1, <2>1, <2>2, <2>3, <2>4, <2>5, <2>6
<1> QED BY <1>2, <1>4, <1>5, <1>6 DEF CaughtUp

LEMMA CaughtUpNext == IInv /\ CaughtUp /\ [Next]_vars => CaughtUp'
<1> SUFFICES ASSUME IInv, CaughtUp, [Next]_vars PROVE CaughtUp'
  OBVIOUS
<1> USE DEF IInv
<1>1. CASE GrowFile
  <2>1. UNCHANGED <<kind, ends, offset, out, gz, pc, again, events, given, lost>>
    BY <1>1 DEF GrowFile, frameVars
  <2> QED BY <2>1 DEF CaughtUp, Proceeds, Decodes, Kept, Frames, DueTextOf
<1>2. CASE Fill
  <2>1. /\ UNCHANGED <<kind, ends, out, gz, again, events, given, lost>>
        /\ pc = "idle"
        /\ pc' \in {"panicked", "decoding"}
    BY <1>2 DEF Fill, frameVars
  <2> QED BY <2>1, CaughtUpGoesOn DEF Kept
<1>3. CASE DecodeRound
  BY <1>3, CaughtUpDecode DEF DecodeRound
<1>4. CASE DecodeFails
  <2>1. /\ \E r \in StreamAnswers : ~r.ok /\ gz' = r.gz
        /\ pc' = "idle" /\ pc = "decoding"
        /\ events' = <<>>
        /\ UNCHANGED <<kind, ends, given>>
    BY <1>4 DEF DecodeFails, fileVars
  <2>2. Proceeds(gz)' /\ ~Decodes(gz)'
    BY <2>1, StuckOnceFailed DEF IInv, CaughtUp, Proceeds, Decodes
  <2>3. ToSet(Kept)' \subseteq ends
    <3>1. FrameTypes /\ given \in Seq(Nat)
      BY DEF FrameInv, FrameTypes
    <3>2. Kept' = given
      BY <2>1, <3>1, ConcatEmptySeq DEF Kept
    <3> QED BY <2>1, <3>1, <3>2, KeptToSet DEF CaughtUp
  <2> QED BY <2>1, <2>2, <2>3 DEF CaughtUp
<1>5. CASE TakeFrame
  <2>1. PICK e \in Frames : events' = Append(events, e)
    BY <1>5 DEF TakeFrame
  <2>2. /\ again' = TRUE
        /\ pc' = pc /\ pc \in {"framing", "flushing"}
        /\ UNCHANGED <<kind, ends, gz, given, lost>>
    BY <1>5 DEF TakeFrame, fileVars
  <2>3. /\ ToSet(Kept) = ToSet(given) \union ToSet(events)
        /\ (ToSet(Kept) = ToSet(given) \union ToSet(events))'
    <3>1. FrameTypes /\ FrameTypes'
      BY InvNext DEF FrameInv
    <3> QED BY <3>1, KeptToSet, PTL
  <2>4. ToSet(events') = ToSet(events) \union {e}
    <3>1. events \in Seq(Nat) /\ e \in ends /\ ends \subseteq Nat
      BY <2>1, EndsAreNumbers DEF FrameInv, FrameTypes, Frames
    <3>2. <<e>> \in Seq(Nat) /\ ToSet(<<e>>) = {e}
      BY <3>1 DEF ToSet
    <3>3. events' = events \o <<e>>
      BY <2>1, <3>1, AppendIsConcat
    <3> QED BY <3>1, <3>2, <3>3, ConcatToSet
  <2>5. e \in ends
    BY DEF Frames
  <2> QED BY <2>2, <2>3, <2>4, <2>5 DEF CaughtUp, Proceeds, Decodes
<1>6. CASE EndRound
  <2>1. /\ UNCHANGED <<kind, ends, offset, out, gz, again, lost>>
        /\ pc = "framing" /\ Frames = {}
    BY <1>6 DEF EndRound, fileVars
  <2>2. \/ again /\ pc' = "decoding" /\ UNCHANGED <<given, events>>
        \/ ~again /\ pc' = "idle" /\ given' = given \o events /\ events' = <<>>
    BY <1>6 DEF EndRound
  <2>3. Kept' = Kept
    <3>1. given \o events \in Seq(Nat)
      BY ConcatProperties DEF FrameInv, FrameTypes
    <3> QED BY <2>2, <3>1, ConcatEmptySeq DEF Kept
  <2>4. Frames' = {}
    BY <2>1 DEF Frames
  <2>5. DueTextOf(offset)' = DueTextOf(offset)
    BY <2>1 DEF DueTextOf
  <2> QED BY <2>1, <2>2, <2>3, <2>4, <2>5 DEF CaughtUp, Proceeds, Decodes
<1>7. CASE Flush
  BY <1>7, CaughtUpDecode DEF Flush
<1>8. CASE FlushFails
  <2>1. /\ \E r \in StreamAnswers : ~r.ok /\ gz' = r.gz
        /\ pc' = "flushed"
        /\ UNCHANGED <<kind, ends, given, events>>
    BY <1>8 DEF FlushFails, fileVars, frameVars
  <2>2. Proceeds(gz)' /\ ~Decodes(gz)'
    BY <2>1, StuckOnceFailed DEF IInv, CaughtUp, Proceeds, Decodes
  <2> QED BY <2>1, <2>2 DEF CaughtUp
<1>9. CASE FlushRest
  <2>1. /\ out' = AdvanceRead(out, Unread(out))
        /\ pc = "flushing" /\ pc' = "flushed"
        /\ UNCHANGED <<kind, ends, gz, lost>>
    BY <1>9 DEF FlushRest, fileVars
  <2>2. Unread(out') = 0
    BY <2>1 DEF Flow, GoodBuf, Bufs, Positions, Unread, AdvanceRead
  <2> QED BY <2>1, <2>2 DEF CaughtUp, Proceeds, Decodes
<1>10. CASE UNCHANGED vars
  BY <1>10 DEF vars, fileVars, frameVars, CaughtUp, Proceeds, Decodes, Kept, Frames, DueTextOf
<1> QED
  BY <1>1, <1>2, <1>3, <1>4, <1>5, <1>6, <1>7, <1>8, <1>9, <1>10 DEF Next, Turn

LEMMA AlwaysCaughtUp == Spec => [](IInv /\ CaughtUp)
<1>1. Init => CaughtUp
  BY CaughtUpInit
<1>2. (IInv /\ CaughtUp) /\ [Next]_vars => (IInv /\ CaughtUp)'
  BY InvNext, CaughtUpNext
<1> QED BY <1>1, <1>2, InvInit, PTL DEF Spec

-----------------------------------------------------------------------------
(* The theorems                                                            *)

\* The positions of both buffers stay in order, and every variable keeps its type: no
\* assertion of advance_read_pos or advance_write_pos fails (decoder.rs:38-50).
THEOREM TypeCorrect == Spec => []TypeOK
<1>1. IInv => TypeOK
  BY DEF IInv, Flow, FrameInv, FrameTypes, GoodBuf, TypeOK
<1> QED
  BY <1>1, InvariantHolds, PTL

\* No byte of the file or of the text is skipped, doubled or moved by the two buffers, for
\* both stream decoders (decoder.rs:52-84, 139-151).
THEOREM BytesStayInOrder == Spec => []BytesInOrder
<1>1. IInv => BytesInOrder
  BY DEF IInv, Flow, Sync, BytesInOrder
<1> QED
  BY <1>1, InvariantHolds, PTL

\* The length of a buffer is bounded by what was once unread in it, not by the length of
\* the file (decoder.rs:58-70).
THEOREM BuffersStayBounded == Spec => []BufferBounded
<1>1. IInv => BufferBounded
  BY DEF IInv, Flow, GoodBuf, Bounded, BufferBounded
<1> QED
  BY <1>1, InvariantHolds, PTL

\* Every frame whose bytes were taken is with the reader, once and in order, or was dropped
\* by an error (composite.rs:43-62, file.rs:314-323).
THEOREM FramesAreAccountedFor == Spec => []FramesAccountedFor
<1>1. IInv => FramesAccountedFor
  BY AccountedImplies DEF IInv
<1> QED
  BY <1>1, InvariantHolds, PTL
\* When the reader has come to the end of its turn it has every frame in what was read so far,
\* unless the stream decoder has failed; and a flush leaves no byte of the
\* text (decoder.rs:139-168, file.rs:314-323).
THEOREM NothingIsLeftBehind == Spec => []NothingLeftBehind
<1>1. IInv /\ CaughtUp => NothingLeftBehind
  <2> SUFFICES ASSUME IInv, CaughtUp, Decodes(gz)
               PROVE  /\ pc = "idle" =>
                           /\ DueTextOf(offset) <= Filled(out)
                           /\ ToSet(given) = {e \in ends : e <= Filled(out)}
                      /\ pc = "flushed" => Unread(out) = 0
    BY DEF NothingLeftBehind, Decodes
  <2>1. ASSUME pc = "idle" PROVE ToSet(given) = {e \in ends : e <= Filled(out)}
    <3>1. FrameTypes /\ Accounted(Kept, lost, Consumed(out)) /\ lost = {} /\ events = <<>>
      BY <2>1 DEF IInv, FrameInv, CaughtUp
    <3>2. ToSet(Kept) = ToSet(given) /\ ToSet(given) \subseteq ends
      BY <2>1, <3>1, KeptToSet, NothingInEmpty DEF CaughtUp
    <3>3. ToSet(Kept) = {Kept[k] : k \in DOMAIN Kept}
      BY DEF ToSet
    <3>4. \A e \in ends : e <= Consumed(out) <=> e \in ToSet(given)
      BY <3>1, <3>2, <3>3 DEF Accounted
    <3>5. /\ Consumed(out) \in Nat /\ Filled(out) \in Nat /\ Consumed(out) <= Filled(out)
          /\ ends \subseteq Nat
      BY <3>1, BufNumbers, EndsAreNumbers DEF IInv, Flow
    <3>6. \A e \in ends : e <= Consumed(out) <=> e <= Filled(out)
      BY <2>1, <3>5 DEF CaughtUp, Frames
    <3> QED BY <3>2, <3>4, <3>6
  <2> QED BY <2>1 DEF CaughtUp
<1> QED BY <1>1, AlwaysCaughtUp, PTL
=============================================================================
