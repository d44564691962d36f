----------------------------- MODULE RingBuffer -----------------------------
(***************************************************************************)
(* The index arithmetic of class RingBuffer (ringbuffer.cpp).  The class   *)
(* keeps two indexes, rp_ and wp_, into a buffer of BufSize bytes; one     *)
(* slot always stays free, so that rp_ = wp_ means "empty".  The operators *)
(* take the indexes as arguments: the two ring buffers of a UART are       *)
(* variables of the modules that use them.                                 *)
(***************************************************************************)
EXTENDS Naturals

CONSTANT BufSize      \* bufsize_ (2^12 for both buffers of a UART)

ASSUME BufSizeAssumption == BufSize \in Nat /\ BufSize > 1

Index == 0 .. BufSize - 1

AtMost(x, y) == IF x < y THEN x ELSE y

\* RingBuffer::empty
RbEmpty(rp, wp) == wp = rp

\* RingBuffer::data_size: bytes between the read and the write index.
DataSize(rp, wp) == IF rp = wp THEN 0 ELSE (BufSize + wp - rp) % BufSize

\* RingBuffer::data_space: bytes that still fit (one slot stays free).
DataSpace(rp, wp) ==
  IF rp = wp THEN BufSize - 1 ELSE ((BufSize + rp - wp) % BufSize) - 1

\* RingBuffer::read_size and write_size: the part that does not wrap.
ReadSize(rp, wp)  == AtMost(DataSize(rp, wp), BufSize - rp)
WriteSize(rp, wp) == AtMost(DataSpace(rp, wp), BufSize - wp)

\* RingBuffer::read_update and write_update.
Advance(p, n) == (p + BufSize + n) % BufSize
=============================================================================
