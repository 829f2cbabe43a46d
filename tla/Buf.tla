-------------------------------- MODULE Buf --------------------------------
(***************************************************************************)
(* component/decoder.rs: Buf, the buffer that BufDecoder has twice.        *)
(*                                                                         *)
(* A buffer is filled by a stream of bytes and keeps a piece of it, so its *)
(* content is given by where in the stream the byte at index 0 stands:     *)
(*   base  the bytes of the stream before that one,                        *)
(*   len   buf.len(),                                                      *)
(*   rp    read_pos,                                                       *)
(*   wp    write_pos: the bytes base + rp + 1 .. base + wp of the stream   *)
(*         are there to be read.                                           *)
(***************************************************************************)
EXTENDS Naturals

CONSTANT MinLen  \* the least length a buffer grows from: 512

ASSUME BufAssumption == MinLen \in Nat \ {0}

Bufs == [base : Nat, len : Nat, rp : Nat, wp : Nat]

EmptyBuf == [base |-> 0, len |-> 0, rp |-> 0, wp |-> 0]

\* What read() and write() give access to.
Unread(b) == b.wp - b.rp

Room(b) == b.len - b.wp

AdvanceRead(b, n) == [b EXCEPT !.rp = @ + n]

AdvanceWrite(b, n) == [b EXCEPT !.wp = @ + n]

\* Mutant of Compact: write_pos stays where it is.
CompactReadOnly(b) ==
  [b EXCEPT !.base = @ + b.rp, !.len = @ - b.rp, !.rp = 0]

\* drain(..read_pos)
Compact(b) ==
  [base |-> b.base + b.rp, len |-> b.len - b.rp, rp |-> 0, wp |-> b.wp - b.rp]

\* resize to a greater length, which leaves the positions alone.
Grow(b) == [b EXCEPT !.len = 2 * (IF @ < MinLen THEN MinLen ELSE @)]

\* Mutant of WorthCompacting: what has been read is never dropped.
NeverCompacts(b) == FALSE

\* `read_pos > 0 && len / read_pos <= 2`, where the division rounds down.
WorthCompacting(b) == b.rp > 0 /\ b.len < 3 * b.rp

EnsureWriteable(b) ==
  IF Room(b) > 0 THEN b ELSE Grow(IF WorthCompacting(b) THEN Compact(b) ELSE b)
=============================================================================
