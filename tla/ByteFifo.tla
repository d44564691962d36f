------------------------------ MODULE ByteFifo ------------------------------
(***************************************************************************)
(* What a reader of a UART may rely on: a bounded first-in first-out       *)
(* buffer of the numbered bytes of the wire.  A byte put in comes out once *)
(* and in order; the buffer may be emptied by an error recovery; and when  *)
(* more than Capacity bytes wait the promise ends.                         *)
(***************************************************************************)
EXTENDS Naturals, Sequences

CONSTANT Capacity

VARIABLES queue,    \* bytes that wait
          out,      \* bytes that came out
          last,     \* the number of the last byte put in
          overrun   \* Capacity was exceeded

fifovars == <<queue, out, last, overrun>>

Init == queue = <<>> /\ out = <<>> /\ last = 0 /\ overrun = FALSE

Put ==
  /\ Len(queue) < Capacity
  /\ last' = last + 1 /\ queue' = Append(queue, last')
  /\ UNCHANGED <<out, overrun>>

Get(n) ==
  /\ out' = out \o SubSeq(queue, 1, n)
  /\ queue' = SubSeq(queue, n + 1, Len(queue))
  /\ UNCHANGED <<last, overrun>>

Clear == queue' = <<>> /\ UNCHANGED <<out, last, overrun>>

\* The byte that does not fit ends the promise: the contents are arbitrary.
Overrun == Len(queue) = Capacity /\ overrun' = TRUE

Next ==
  \/ Put \/ Clear \/ Overrun
  \/ \E n \in 1 .. Len(queue) : Get(n)
  \/ overrun /\ overrun' = TRUE

Spec == Init /\ [][Next]_fifovars
=============================================================================
