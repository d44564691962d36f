------------------------------- MODULE UartRx -------------------------------
(***************************************************************************)
(* The receive half of class UART (uart.cpp) with the line assembly of     *)
(* UartRpcServer::jsonrpc_request_handler (uartrpcserver.cpp).             *)
(*                                                                         *)
(* Three agents share the ring buffer rxbuf_: the circular DMA stream,     *)
(* which stores every received byte and counts NDTR down; the DMA          *)
(* interrupt, which copies the DMA position into wp_; and the main task,   *)
(* which polls UART::read() once per flight-control cycle.  A byte is its  *)
(* number in the order the DMA stored it; the bytes of NL are newlines.    *)
(* A step of the task is one access to state that another agent writes.    *)
(***************************************************************************)
EXTENDS RingBuffer, Sequences, SequencesExt

CONSTANTS
  CacheSize,   \* sizeof(cache_), 128
  ChunkSize,   \* sizeof(buf) in UART::read(), 32
  NL,          \* the bytes that are '\n'
  MaxStored,   \* bound: bytes the DMA stores in a behaviour
  MaxErrors,   \* bound: line errors in a behaviour
  MaxDuring    \* bytes that may arrive while receive() sizes the ring

ASSUME UartRxAssumption ==
  /\ CacheSize \in Nat /\ CacheSize > 0
  /\ ChunkSize \in Nat /\ ChunkSize > 0
  /\ NL \subseteq Nat \ {0}
  /\ MaxStored \in Nat /\ MaxErrors \in Nat
  /\ MaxDuring \in {0, 1}

Filler == 0            \* '-', what memset leaves behind; also initial contents

VARIABLES
  \* the DMA stream and the USART
  slot, ndtr, dmaIrq, err, errors,
  \* the UART object
  rp, wp, cache,
  \* the main task: program counter and the locals of receive()
  rxpc, snap, readsize,
  \* cached_request_ of the rpc server and the last line it was given
  line, request,
  \* history: bytes stored, bytes consumed from the ring, bytes thrown away,
  \* bytes handed out by readcache, bytes that arrived during the sizing,
  \* and whether the DMA ever lapped the reader
  stored, fetched, dropped, delivered, during, lapped

ring    == <<slot, ndtr, dmaIrq, rp, wp>>
locals  == <<snap, readsize, during>>
history == <<stored, fetched, dropped, lapped>>
lines   == <<cache, line, request, delivered>>
rxvars  == <<ring, err, errors, lines, rxpc, locals, history>>

\* The DMA position, (bufsize - NDTR) % bufsize.
DmaPos == (BufSize - ndtr) % BufSize

RxInit ==
  /\ slot = [i \in Index |-> Filler] /\ ndtr = BufSize
  /\ dmaIrq = FALSE /\ err = FALSE /\ errors = 0
  /\ rp = 0 /\ wp = 0 /\ cache = <<>>
  /\ rxpc = "idle" /\ snap = 0 /\ readsize = 0
  /\ line = <<>> /\ request = <<>>
  /\ stored = 0 /\ fetched = 0 /\ dropped = {} /\ delivered = <<>>
  /\ during = 0 /\ lapped = FALSE

(***************************************************************************)
(* The hardware.                                                           *)
(***************************************************************************)

\* The states of the task from the reading of NDTR to the second read_size().
Sizing == rxpc \in {"setwp", "sized", "resize"}

\* The DMA moves a byte from the data register to the ring, circularly; the
\* half and the full transfer raise its interrupt.  Reading the data register
\* after a read of the status register clears the error flags.
DmaStore ==
  /\ rxpc # "stopped" /\ stored < MaxStored
  /\ Sizing => during < MaxDuring
  /\ slot' = [slot EXCEPT ![DmaPos] = stored + 1]
  /\ ndtr' = IF ndtr = 1 THEN BufSize ELSE ndtr - 1
  /\ dmaIrq' = (dmaIrq \/ ndtr' \in {BufSize, BufSize \div 2})
  /\ err' \in {err, FALSE}
  /\ stored' = stored + 1
  /\ lapped' = (lapped \/ stored - fetched = BufSize - 1)
  /\ during' = IF Sizing THEN during + 1 ELSE during
  /\ UNCHANGED <<errors, rp, wp, lines, rxpc, snap, readsize, fetched, dropped>>

\* Noise, framing, parity or overrun: a flag of the status register is set.
LineError ==
  /\ errors < MaxErrors
  /\ err' = TRUE /\ errors' = errors + 1
  /\ UNCHANGED <<ring, lines, rxpc, locals, history>>

\* uart_dmarx_complete and uart_dmarx_half_complete, in the DMA interrupt.
DmaIsr ==
  /\ dmaIrq
  /\ dmaIrq' = FALSE /\ wp' = DmaPos
  /\ UNCHANGED <<slot, ndtr, rp, err, errors, lines, rxpc, locals, history>>

(***************************************************************************)
(* The main task.  A pending DMA interrupt (priority 1) preempts it.       *)
(***************************************************************************)
At(pc) == rxpc = pc /\ ~dmaIrq

\* The main loop calls jsonrpc_request_handler, which calls uart->read().
Poll ==
  /\ At("idle") /\ rxpc' = "check"
  /\ UNCHANGED <<ring, err, errors, lines, locals, history>>

\* A variant that does not look at the cache.
CheckNoCache ==
  /\ At("check")
  /\ rxpc' = IF err THEN "stop" ELSE "snap"
  /\ UNCHANGED <<ring, err, errors, lines, locals, history>>

\* UART::read(buf, size): the error flags first, then the cache, then the ring.
Check ==
  /\ At("check")
  /\ \/ err /\ rxpc' = "stop"
     \/ ~err /\ cache # <<>> /\ rxpc' = "take"
     \/ ~err /\ cache = <<>> /\ rxpc' = "snap"
  /\ UNCHANGED <<ring, err, errors, lines, locals, history>>

\* HAL_UART_DMAStop and the clearing of the flags.  Aborting the stream raises
\* its transfer-complete interrupt.
StopDma ==
  /\ At("stop")
  /\ rxpc' = "stopped" /\ err' = FALSE /\ dmaIrq' = TRUE
  /\ UNCHANGED <<slot, ndtr, rp, wp, errors, lines, locals, history>>

\* A variant that restarts the DMA without resetting rxbuf_.
RestartDmaOnly ==
  /\ At("stopped")
  /\ ndtr' = BufSize /\ rxpc' = "idle"
  /\ dropped' = dropped \union (fetched + 1 .. stored) /\ fetched' = stored
  /\ UNCHANGED <<slot, dmaIrq, rp, wp, err, errors, lines, locals, stored, lapped>>

\* rxbuf_.reset(), uart_dmarx_start(), and read returns 0: what the ring held
\* is lost, what the cache and cached_request_ hold is kept.
RestartDma ==
  /\ At("stopped")
  /\ rp' = 0 /\ wp' = 0 /\ ndtr' = BufSize
  /\ dropped' = dropped \union (fetched + 1 .. stored) /\ fetched' = stored
  /\ rxpc' = "idle"
  /\ UNCHANGED <<slot, dmaIrq, err, errors, lines, locals, stored, lapped>>

\* Variants: the position one byte too far, and no look at the DMA at all.
ReadNdtrAhead ==
  /\ At("snap")
  /\ snap' = Advance(DmaPos, 1) /\ during' = 0 /\ rxpc' = "setwp"
  /\ UNCHANGED <<ring, err, errors, lines, readsize, history>>

ReadOldWp ==
  /\ At("snap")
  /\ snap' = wp /\ during' = 0 /\ rxpc' = "setwp"
  /\ UNCHANGED <<ring, err, errors, lines, readsize, history>>

\* receive(): the argument of reset_wp is read ...
ReadNdtr ==
  /\ At("snap")
  /\ snap' = DmaPos /\ during' = 0 /\ rxpc' = "setwp"
  /\ UNCHANGED <<ring, err, errors, lines, readsize, history>>

\* ... and stored in wp_, over what the interrupt may have put there since.
SetWp ==
  /\ At("setwp")
  /\ wp' = snap /\ rxpc' = "sized"
  /\ UNCHANGED <<slot, ndtr, dmaIrq, rp, err, errors, lines, locals, history>>

\* A variant that does not compare with the size of the cache.
SizeRingOnly ==
  /\ At("sized")
  /\ rxpc' = IF RbEmpty(rp, wp) THEN "take" ELSE "resize"
  /\ UNCHANGED <<ring, err, errors, lines, locals, history>>

\* empty(), then the comparison of the first read_size() with the cache.
SizeRing ==
  /\ At("sized")
  /\ \/ RbEmpty(rp, wp) /\ rxpc' = "take" /\ UNCHANGED readsize
     \/ /\ ~RbEmpty(rp, wp) /\ ReadSize(rp, wp) < CacheSize
        /\ rxpc' = "resize" /\ UNCHANGED readsize
     \/ /\ ~RbEmpty(rp, wp) /\ ReadSize(rp, wp) >= CacheSize
        /\ rxpc' = "copy" /\ readsize' = CacheSize
  /\ UNCHANGED <<ring, err, errors, lines, snap, during, history>>

\* The second read_size(), whose result is the number of bytes copied.
ResizeRing ==
  /\ At("resize")
  /\ readsize' = ReadSize(rp, wp) /\ rxpc' = "copy"
  /\ UNCHANGED <<ring, err, errors, lines, snap, during, history>>

\* memcpy of the ring into the cache.
CopyOut ==
  /\ At("copy")
  /\ cache' = [i \in 1 .. readsize |-> slot[rp + i - 1]]
  /\ rxpc' = "wipe"
  /\ UNCHANGED <<ring, err, errors, line, request, delivered, locals, history>>

\* memset of the ring, read_update.
WipeRing ==
  /\ At("wipe")
  /\ slot' = [i \in Index |-> IF i \in rp .. rp + readsize - 1
                              THEN Filler ELSE slot[i]]
  /\ rp' = Advance(rp, readsize) /\ fetched' = fetched + readsize
  /\ rxpc' = "take"
  /\ UNCHANGED <<ndtr, dmaIrq, wp, err, errors, lines, locals, stored, dropped,
                 lapped>>

\* A variant that does not stop at a newline.
ChunkWhole(n) == n = AtMost(Len(cache), ChunkSize)

\* readcache: as much of the cache as fits the chunk, up to a newline.
ChunkEnd(n) ==
  /\ n \in 0 .. AtMost(Len(cache), ChunkSize)
  /\ \A i \in 1 .. n - 1 : cache[i] \notin NL
  /\ n < AtMost(Len(cache), ChunkSize) => n > 0 /\ cache[n] \in NL

\* UART::read() and jsonrpc_request_handler: nothing read returns; a chunk
\* joins the line, and a newline completes it.
TakeChunk ==
  /\ At("take")
  /\ \E n \in 0 .. Len(cache) :
       LET chunk == SubSeq(cache, 1, n) IN
       /\ ChunkEnd(n)
       /\ cache' = SubSeq(cache, n + 1, Len(cache))
       /\ delivered' = delivered \o chunk
       /\ \/ /\ n = 0
             /\ rxpc' = "idle" /\ UNCHANGED <<line, request>>
          \/ /\ n > 0 /\ cache[n] \notin NL
             /\ line' = line \o chunk
             /\ rxpc' = "check" /\ UNCHANGED request
          \/ /\ n > 0 /\ cache[n] \in NL
             /\ request' = line \o chunk /\ line' = <<>>
             /\ rxpc' = "serve"
  /\ UNCHANGED <<ring, err, errors, locals, history>>

\* The request is trimmed, executed and answered (module UartTx).
Serve ==
  /\ At("serve") /\ rxpc' = "idle"
  /\ UNCHANGED <<ring, err, errors, lines, locals, history>>

(***************************************************************************)
(* Properties.                                                             *)
(***************************************************************************)

\* memcpy in UART::receive stays inside cache_ although the interrupt may move
\* wp_ between the two calls of read_size() (uart.cpp:285).
CacheFits ==
  ~lapped /\ rxpc \in {"copy", "wipe"} => readsize <= CacheSize

\* UART::receive copies the bytes in the order of their arrival, without a gap
\* and without a byte the DMA has not stored yet, as long as the main loop
\* comes back before the DMA is a whole buffer ahead (uart.cpp:280-293).
CopiesInOrder ==
  ~lapped /\ rxpc = "wipe" =>
    \A i \in 1 .. readsize : cache[i] = fetched + i /\ cache[i] <= stored

\* What UART::read has handed out and what the cache still holds is what the
\* DMA stored, in order, less what the error recovery of UART::read threw
\* away: nothing is lost, repeated or reordered (uart.cpp:224-293).
NothingLost ==
  ~lapped /\ rxpc # "wipe" =>
    LET out == delivered \o cache IN
    /\ \A i \in 1 .. Len(out) - 1 : out[i] < out[i + 1]
    /\ ToSet(out) = (1 .. fetched) \ dropped

\* A request is one line of what was received: it ends with its only newline,
\* and it starts right after the previous newline that survived
\* (jsonrpc_request_handler, uartrpcserver.cpp:1250-1253).
OneLinePerRequest ==
  ~lapped /\ request # <<>> =>
    LET last  == Last(request)
        earlier == {k \in NL : k < last /\ k \notin dropped}
        start == IF earlier = {} THEN 0 ELSE CHOOSE k \in earlier : \A j \in earlier : j <= k
    IN  /\ last \in NL
        /\ ToSet(request) = (start + 1 .. last) \ dropped

\* The bytes that wait in the ring; they have come out once read_update has
\* released their slots, not as soon as the cache holds a copy.
Waiting == [i \in 1 .. stored - fetched |-> slot[Advance(rp, i - 1)]]

Fifo ==
  INSTANCE ByteFifo WITH
    Capacity <- BufSize - 1,
    queue    <- IF lapped THEN <<>> ELSE Waiting,
    out      <- IF rxpc = "wipe" THEN delivered ELSE delivered \o cache,
    last     <- stored,
    overrun  <- lapped

\* The ring buffer, the DMA position and the cache together implement a bounded
\* first-in first-out buffer (class RingBuffer and UART::receive).
ImplementsFifo == Fifo!Spec
=============================================================================
