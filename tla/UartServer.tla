----------------------------- MODULE UartServer -----------------------------
(***************************************************************************)
(* The firmware's end of the serial link: both halves of the UART and the  *)
(* one task that uses them, which reads a line, executes it and writes the *)
(* answer (jsonrpc_request_handler).  The halves meet in three places: the *)
(* task does not read while it writes, the interrupts of either half       *)
(* preempt it, and the error recovery of read() stops both DMA streams.    *)
(***************************************************************************)
EXTENDS UartRx, UartTx

CONSTANT MaxAnswer    \* bound: bytes of an answer, its newline included

ASSUME UartServerAssumption == MaxAnswer \in Nat

VARIABLE answers      \* history: the requests answered and their answers

vars == <<rxvars, txvars, answers>>

Init == RxInit /\ TxInit /\ answers = <<>>

\* The task runs: no interrupt of the other half is pending either.
Reading == TxAt("idle") /\ UNCHANGED <<txvars, answers>>

ReadStep ==
  /\ Reading
  /\ \/ Poll \/ Check \/ ReadNdtr \/ SetWp \/ SizeRing \/ ResizeRing
     \/ CopyOut \/ WipeRing \/ TakeChunk

RecoverStep ==
  /\ \/ StopDma /\ StopStreams
     \/ RestartDma /\ RestartRx
  /\ UNCHANGED answers

\* A variant that also ignores lines of one character.
AnswerLonger ==
  /\ Serve
  /\ IF Len(request) <= 2
     THEN TxAt("idle") /\ UNCHANGED <<txvars, answers>>
     ELSE \E n \in 1 .. MaxAnswer :
            /\ Write(n)
            /\ answers' = Append(answers, [request |-> request, first |-> written + 1,
                                           last |-> written + n])

\* A line of blanks is ignored; any other is answered, if only with an error.
Answer ==
  /\ Serve
  /\ IF Len(request) = 1
     THEN TxAt("idle") /\ UNCHANGED <<txvars, answers>>
     ELSE \E n \in 1 .. MaxAnswer :
            /\ Write(n)
            /\ answers' = Append(answers, [request |-> request,
                                           first |-> written + 1,
                                           last |-> written + n])

WriteStep == (Fill \/ StartDma) /\ ~dmaIrq /\ UNCHANGED <<rxvars, answers>>

Task == ReadStep \/ RecoverStep \/ Answer \/ WriteStep

RxHardware == (DmaStore \/ LineError \/ DmaIsr) /\ UNCHANGED <<txvars, answers>>
TxHardware == TxInterrupt /\ UNCHANGED <<rxvars, answers>>

Next == Task \/ RxHardware \/ TxHardware

Spec == Init /\ [][Next]_vars

\* The scheduler: interrupts are served, the DMA stream and the USART keep
\* clocking bytes out (no flow control is configured), and the main loop, the
\* task of the highest priority, keeps running.  Nothing is assumed of the wire.
FairSpec ==
  /\ Spec
  /\ WF_vars(Task)
  /\ WF_vars(DmaIsr /\ UNCHANGED <<txvars, answers>>)
  /\ WF_vars(TxHardware)

(***************************************************************************)
(* Properties.                                                             *)
(***************************************************************************)

\* The line that ends with byte k has lost everything but its newline.
Blank(k) == \E j \in NL \union {0} : j < k /\ (j + 1 .. k - 1) \ dropped = {}

\* Every line that is not blank is answered exactly once, and in the order of
\* the lines (jsonrpc_request_handler, uartrpcserver.cpp:1245-1260).
OneAnswerPerLine ==
  ~lapped =>
    /\ \A i \in 1 .. Len(answers) - 1 :
         Last(answers[i].request) < answers[i + 1].request[1]
    /\ rxpc # "serve" => \A k \in NL \intersect ToSet(delivered) :
         Blank(k) \/ \E i \in 1 .. Len(answers) : Last(answers[i].request) = k

\* Bytes are missing from an answer on the wire only where an error recovery of
\* the receive side cut it: at its end (UART::read, uart.cpp:257).
CutAtTheEnd ==
  \A i \in 1 .. Len(answers) :
    LET gone == {b \in answers[i].first .. answers[i].last :
                   b \notin ToSet(wire) /\ \E c \in ToSet(wire) : c > b}
    IN  gone # {} => aborted /\ answers[i].last \in gone

\* The recovery always gets the receiver going again: HAL_UART_Receive_DMA,
\* whose result is ignored, finds the handle free (uart.cpp:351-354).
ReceiverRestarts == rxpc = "stopped" => txpc = "stopped" /\ hal = "READY"

\* A line that is not blank and that neither an error recovery nor a lapping
\* DMA destroyed is answered.
LinesAreAnswered ==
  \A k \in NL :
    k <= stored ~> \/ \E i \in 1 .. Len(answers) : Last(answers[i].request) = k
                   \/ k \in dropped \/ lapped \/ Blank(k)
=============================================================================
