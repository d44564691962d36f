------------------------------- MODULE UartTx -------------------------------
(***************************************************************************)
(* The transmit half of class UART (uart.cpp): write() hands a buffer to   *)
(* the transmit DMA in pieces, each copied into txbuf_ once the previous   *)
(* piece has left.  Three agents meet in txbuf_: the main task in write(), *)
(* the DMA stream, which reads the buffer byte by byte, and the USART      *)
(* interrupt, which drains the ring when the last byte is on the wire.     *)
(* The DMA stream, the USART and the ST driver under uart.cpp are modelled *)
(* as far as uart.cpp depends on them.  A byte is its number in the order  *)
(* the program wrote it.                                                   *)
(***************************************************************************)
EXTENDS RingBuffer, Sequences, SequencesExt

CONSTANT
  MaxWritten   \* bound: bytes written in a behaviour

ASSUME UartTxAssumption == MaxWritten \in Nat

Halted == {"READY", "BUSY_RX"}      \* HAL states that allow a transmission

VARIABLES
  \* class UART: the ring buffer txbuf_
  txslot, txrp, txwp,
  \* the HAL handle: State
  hal,
  \* the DMA stream: next slot and bytes to go; its transfer-complete flag
  dmaptr, dmaleft, dmaTc,
  \* the USART: transmission-complete interrupt enabled
  tcie,
  \* the main task: where it is in write(), and the bytes not yet accepted
  txpc, left,
  \* history: bytes written, bytes put on the wire, whether a transmission
  \* was cut short by an error recovery of the receive side
  written, wire, aborted

txring == <<txslot, txrp, txwp>>
txdma  == <<dmaptr, dmaleft, dmaTc, tcie>>
txvars == <<txring, hal, txdma, txpc, left, written, wire, aborted>>

\* uart_dmarx_start() has put the handle in BUSY_RX before the first write.
TxInit ==
  /\ txslot = [i \in Index |-> 0] /\ txrp = 0 /\ txwp = 0
  /\ hal = "BUSY_RX"
  /\ dmaptr = 0 /\ dmaleft = 0 /\ dmaTc = FALSE /\ tcie = FALSE
  /\ txpc = "idle" /\ left = 0
  /\ written = 0 /\ wire = <<>> /\ aborted = FALSE

\* The transmit interrupts preempt the task.
TxAt(pc) == txpc = pc /\ ~dmaTc

\* UART::write of n bytes.
Write(n) ==
  /\ TxAt("idle")
  /\ n > 0 /\ written + n <= MaxWritten
  /\ left' = n /\ written' = written + n
  /\ txpc' = "fill"
  /\ UNCHANGED <<txring, hal, txdma, wire, aborted>>

\* Variants: one that does not wait, and one that sends the first piece only.
FillAtOnce ==
  /\ TxAt("fill")
  /\ LET size == AtMost(WriteSize(0, 0), left)
     IN  /\ txslot' = [i \in Index |-> IF i < size THEN written - left + i + 1
                                       ELSE txslot[i]]
         /\ txrp' = 0 /\ txwp' = Advance(0, size) /\ left' = left - size
  /\ txpc' = "start"
  /\ UNCHANGED <<hal, txdma, written, wire, aborted>>

FillOnce ==
  /\ TxAt("fill") /\ RbEmpty(txrp, txwp)
  /\ LET size == AtMost(WriteSize(0, 0), left)
     IN  /\ txslot' = [i \in Index |-> IF i < size THEN written - left + i + 1
                                       ELSE txslot[i]]
         /\ txrp' = 0 /\ txwp' = Advance(0, size) /\ left' = 0
  /\ txpc' = "start"
  /\ UNCHANGED <<hal, txdma, written, wire, aborted>>

\* UART::transmit once txbuf_ is empty: reset, memcpy, write_update.
Fill ==
  /\ TxAt("fill") /\ RbEmpty(txrp, txwp)
  /\ LET size  == AtMost(WriteSize(0, 0), left)
         first == written - left
     IN  /\ txslot' = [i \in Index |-> IF i < size THEN first + i + 1
                                       ELSE txslot[i]]
         /\ txrp' = 0 /\ txwp' = Advance(0, size)
         /\ left' = left - size
  /\ txpc' = "start"
  /\ UNCHANGED <<hal, txdma, written, wire, aborted>>

\* HAL_UART_Transmit_DMA: a busy handle refuses, and the result is ignored.
StartDma ==
  /\ TxAt("start")
  /\ IF hal \in Halted
     THEN /\ hal' = IF hal = "BUSY_RX" THEN "BUSY_TX_RX" ELSE "BUSY_TX"
          /\ dmaptr' = txrp /\ dmaleft' = ReadSize(txrp, txwp)
     ELSE UNCHANGED <<hal, dmaptr, dmaleft>>
  /\ txpc' = IF left = 0 THEN "idle" ELSE "fill"
  /\ UNCHANGED <<txring, dmaTc, tcie, left, written, wire, aborted>>

\* The stream moves a byte from the buffer to the data register.
DmaSend ==
  /\ dmaleft > 0
  /\ wire' = Append(wire, txslot[dmaptr])
  /\ dmaptr' = dmaptr + 1 /\ dmaleft' = dmaleft - 1
  /\ dmaTc' = (dmaleft = 1)
  /\ UNCHANGED <<txring, hal, tcie, txpc, left, written, aborted>>

\* UART_DMATransmitCplt: the DMA interrupt enables the interrupt of the USART.
DmaTcIsr ==
  /\ dmaTc
  /\ dmaTc' = FALSE /\ tcie' = TRUE
  /\ UNCHANGED <<txring, hal, dmaptr, dmaleft, txpc, left, written, wire, aborted>>

\* The last byte has left the shift register: UART_EndTransmit_IT and
\* uart_dmatx_complete, in the USART interrupt.
TxComplete ==
  /\ tcie /\ dmaleft = 0
  /\ tcie' = FALSE
  /\ hal' = IF hal = "BUSY_TX_RX" THEN "BUSY_RX" ELSE "READY"
  /\ txrp' = Advance(txrp, ReadSize(txrp, txwp))
  /\ UNCHANGED <<txslot, txwp, dmaptr, dmaleft, dmaTc, txpc, left, written, wire,
                 aborted>>

\* A variant that stops the receive stream only.
StopReceiveOnly ==
  /\ TxAt("idle")
  /\ txpc' = "stopped"
  /\ hal' = IF hal = "BUSY_TX_RX" THEN "BUSY_TX" ELSE "READY"
  /\ UNCHANGED <<txring, txdma, left, written, wire, aborted>>

\* The error recovery of UART::read(), in the same task: HAL_UART_DMAStop stops
\* the transmit stream too, which raises its transfer-complete flag ...
StopStreams ==
  /\ TxAt("idle")
  /\ txpc' = "stopped"
  /\ dmaleft' = 0 /\ dmaTc' = (dmaleft > 0)
  /\ hal' = "READY"
  /\ aborted' = (aborted \/ dmaleft > 0)
  /\ UNCHANGED <<txring, dmaptr, tcie, left, written, wire>>

\* ... and uart_dmarx_start() takes the handle again, for the receiver.
RestartRx ==
  /\ TxAt("stopped")
  /\ txpc' = "idle"
  /\ hal' = IF hal = "READY" THEN "BUSY_RX" ELSE hal
  /\ UNCHANGED <<txring, txdma, left, written, wire, aborted>>

TxInterrupt == DmaSend \/ DmaTcIsr \/ TxComplete

(***************************************************************************)
(* Properties.                                                             *)
(***************************************************************************)

\* The bytes on the wire are the bytes written, in order: txbuf_ is never
\* refilled under a running stream, and only an error recovery of the receive
\* side can leave a gap (UART::transmit, uart.cpp:295-306).
WireInOrder ==
  /\ \A i \in 1 .. Len(wire) - 1 : wire[i] < wire[i + 1]
  /\ ~aborted => \A i \in 1 .. Len(wire) : wire[i] = i

\* What is written goes out, unless an error recovery aborts it.
EverythingSent ==
  \A k \in 1 .. MaxWritten : written >= k ~> k \in ToSet(wire) \/ aborted
=============================================================================
