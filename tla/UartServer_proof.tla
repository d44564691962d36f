--------------------------- MODULE UartServer_proof ---------------------------
(***************************************************************************)
(* Proofs about the firmware's end of the serial link, for every size of   *)
(* the buffers, every choice of the newlines and every number of bytes.    *)
(***************************************************************************)
EXTENDS UartServer, SequenceTheorems, TLAPS

USE BufSizeAssumption, UartRxAssumption, UartTxAssumption, UartServerAssumption

(***************************************************************************)
(* Ring buffers.                                                           *)
(***************************************************************************)

LEMMA AdvanceIs ==
  ASSUME NEW p \in Index, NEW n \in 0 .. BufSize
  PROVE  /\ Advance(p, n) = IF p + n < BufSize THEN p + n ELSE p + n - BufSize
         /\ Advance(p, n) \in Index
<1>. DEFINE a == p + BufSize + n
<1>1. a \in Nat /\ BufSize <= a /\ a < 3 * BufSize
  BY DEF Index
<1>2. \A x, b \in Nat : b > 0 /\ b <= x /\ x < 2 * b => x % b = x - b
  OBVIOUS
<1>3. \A x, b \in Nat : b > 0 /\ 2 * b <= x /\ x < 3 * b => x % b = x - 2 * b
  OBVIOUS
<1>4. p \in Nat /\ n \in Nat /\ p < BufSize /\ n <= BufSize
  BY DEF Index
<1>5. /\ p + n < BufSize => a < 2 * BufSize
      /\ p + n >= BufSize => 2 * BufSize <= a
  BY <1>4
<1>6. /\ p + n < BufSize => a - BufSize = p + n
      /\ a - 2 * BufSize = p + n - BufSize
  BY <1>4
<1>. HIDE DEF a
<1>7. /\ p + n < BufSize => a % BufSize = a - BufSize
      /\ p + n >= BufSize => a % BufSize = a - 2 * BufSize
  BY <1>1, <1>2, <1>3, <1>5
<1>8. Advance(p, n) = a % BufSize
  BY DEF Advance, a
<1>. QED  BY <1>4, <1>6, <1>7, <1>8 DEF Index

LEMMA AdvanceTwice ==
  ASSUME NEW p \in Index, NEW m \in 0 .. BufSize, NEW n \in 0 .. BufSize,
         m + n <= BufSize
  PROVE  Advance(Advance(p, m), n) = Advance(p, m + n)
<1>. DEFINE q == Advance(p, m)
<1>1. q \in Index /\ q = IF p + m < BufSize THEN p + m ELSE p + m - BufSize
  BY AdvanceIs
<1>. DEFINE k == m + n
<1>2. k \in 0 .. BufSize
  OBVIOUS
<1>. HIDE DEF q, k
<1>3. Advance(p, k) = IF p + k < BufSize THEN p + k ELSE p + k - BufSize
  BY <1>2, AdvanceIs
<1>4. Advance(q, n) = IF q + n < BufSize THEN q + n ELSE q + n - BufSize
  BY <1>1, AdvanceIs
<1>5. /\ p \in Nat /\ m \in Nat /\ n \in Nat /\ BufSize \in Nat /\ q \in Nat
      /\ p < BufSize /\ q < BufSize /\ m <= BufSize /\ n <= BufSize /\ k <= BufSize
  BY <1>1, <1>2 DEF Index
<1>6. k = m + n
  BY DEF k
<1>7. Advance(q, n) = Advance(p, k)
  BY <1>1, <1>3, <1>4, <1>5, <1>6
<1>. QED  BY <1>7 DEF q, k

LEMMA AdvanceInjective ==
  ASSUME NEW p \in Index, NEW m \in 0 .. BufSize - 1, NEW n \in 0 .. BufSize - 1,
         Advance(p, m) = Advance(p, n)
  PROVE  m = n
<1>1. m \in 0 .. BufSize /\ n \in 0 .. BufSize
  OBVIOUS
<1>2. /\ Advance(p, m) = IF p + m < BufSize THEN p + m ELSE p + m - BufSize
      /\ Advance(p, n) = IF p + n < BufSize THEN p + n ELSE p + n - BufSize
  BY <1>1, AdvanceIs
<1>3. /\ p \in Nat /\ m \in Nat /\ n \in Nat /\ BufSize \in Nat
      /\ p < BufSize /\ m < BufSize /\ n < BufSize
  BY DEF Index
<1>4. (IF p + m < BufSize THEN p + m ELSE p + m - BufSize)
        = (IF p + n < BufSize THEN p + n ELSE p + n - BufSize)
  BY <1>2
<1>. QED  BY ONLY <1>3, <1>4

\* The write index is n bytes ahead of the read index.
LEMMA DataSizeIs ==
  ASSUME NEW p \in Index, NEW n \in 0 .. BufSize - 1
  PROVE  /\ DataSize(p, Advance(p, n)) = n
         /\ RbEmpty(p, Advance(p, n)) <=> n = 0
<1>. DEFINE w == Advance(p, n)  a == BufSize + w - p
<1>1. w = (IF p + n < BufSize THEN p + n ELSE p + n - BufSize) /\ w \in Index
  BY AdvanceIs
<1>2. w = p <=> n = 0
  BY <1>1 DEF Index
<1>3. a = (IF p + n < BufSize THEN BufSize + n ELSE n) /\ a \in Nat
  BY <1>1 DEF Index
<1>4. \A x, b \in Nat : b > 0 /\ b <= x /\ x < 2 * b => x % b = x - b
  OBVIOUS
<1>5. \A x, b \in Nat : b > 0 /\ x < b => x % b = x
  OBVIOUS
<1>6. a % BufSize = n
  BY <1>3, <1>4, <1>5
<1>. QED  BY <1>2, <1>6 DEF DataSize, RbEmpty

LEMMA ReadSizeIs ==
  ASSUME NEW p \in Index, NEW n \in 0 .. BufSize - 1
  PROVE  ReadSize(p, Advance(p, n)) = IF n < BufSize - p THEN n ELSE BufSize - p
BY DataSizeIs DEF ReadSize, AtMost, Index

\* What read_size returns stays within the buffer, wherever the indexes are.
LEMMA ReadSizeFits ==
  ASSUME NEW p \in Index, NEW w \in Index
  PROVE  ReadSize(p, w) \in 0 .. BufSize - p
<1>1. DataSize(p, w) \in 0 .. BufSize - 1
  <2>1. \A x, b \in Nat : b > 0 => x % b \in 0 .. b - 1
    OBVIOUS
  <2>2. BufSize + w - p \in Nat
    BY DEF Index
  <2>. QED  BY <2>1, <2>2 DEF DataSize
<1>. QED  BY <1>1 DEF ReadSize, AtMost, Index

(***************************************************************************)
(* The transmit half.                                                      *)
(***************************************************************************)

TxTypeOK ==
  /\ txslot \in [Index -> Nat] /\ txrp \in Index /\ txwp \in Index
  /\ hal \in {"READY", "BUSY_RX", "BUSY_TX", "BUSY_TX_RX"}
  /\ dmaptr \in 0 .. BufSize /\ dmaleft \in 0 .. BufSize
  /\ dmaTc \in BOOLEAN /\ tcie \in BOOLEAN /\ aborted \in BOOLEAN
  /\ txpc \in {"idle", "fill", "start", "stopped"}
  /\ left \in Nat /\ written \in Nat /\ left <= written
  /\ wire \in Seq(Nat)

\* Bytes that write() has put into txbuf_, and those of them that have to leave.
Accepted == written - left
Pending  == IF txpc = "start" THEN txwp ELSE dmaleft

\* A transmission goes on until its last byte has left the shift register.
Sending == dmaleft > 0 \/ dmaTc \/ tcie

\* One of the stream, its interrupt and the interrupt of the USART is next.
SendingInv ==
  /\ dmaTc => dmaleft = 0 /\ ~tcie
  /\ tcie => dmaleft = 0
  /\ dmaleft > 0 => dmaptr + dmaleft = txwp
  /\ hal \in Halted \/ Sending

\* The piece in txbuf_ is the end of what was accepted.
PieceInv ==
  /\ txwp <= Accepted
  /\ \A i \in 0 .. txwp - 1 : txslot[i] = Accepted - txwp + i + 1
  /\ Sending \/ txpc = "start" => txrp = 0 /\ txwp > 0
  /\ txpc = "start" => ~Sending

\* Where the task is in write().
TaskInv ==
  /\ txpc \in {"idle", "stopped"} => left = 0
  /\ txpc = "fill" => left > 0
  /\ txpc = "stopped" => hal = "READY"

\* What is on the wire is what was accepted and need not leave any more.
WireInv ==
  /\ \A i \in 1 .. Len(wire) : wire[i] <= Accepted - Pending
  /\ \A i \in 1 .. Len(wire) - 1 : wire[i] < wire[i + 1]
  /\ ~aborted => Len(wire) = Accepted - Pending /\ \A i \in 1 .. Len(wire) : wire[i] = i

TxInv == TxTypeOK /\ SendingInv /\ PieceInv /\ TaskInv /\ WireInv

LEMMA TxInitInv == TxInit => TxInv
<1>. SUFFICES ASSUME TxInit
              PROVE  TxInv
  OBVIOUS
<1>. USE DEF TxInit
<1>1. TxTypeOK
  <2>1. 0 \in Index /\ 0 \in 0 .. BufSize /\ 0 <= 0 /\ <<>> \in Seq(Nat)
    BY DEF Index
  <2>2. txslot \in [Index -> Nat]
    OBVIOUS
  <2>. QED  BY <2>1, <2>2 DEF TxTypeOK
<1>2. SendingInv /\ PieceInv /\ TaskInv /\ WireInv
  BY DEF SendingInv, PieceInv, TaskInv, WireInv, Sending, Halted, Accepted, Pending
<1>. QED  BY <1>1, <1>2 DEF TxInv

LEMMA WriteInv ==
  ASSUME TxInv, NEW n \in Nat, Write(n)
  PROVE  TxInv'
BY DEF Write, TxAt, txring, txdma, TxInv, TxTypeOK, SendingInv, PieceInv, TaskInv,
       WireInv, Sending, Accepted, Pending, Index

LEMMA FillInv ==
  ASSUME TxInv, Fill
  PROVE  TxInv'
<1>. USE DEF TxInv
<1>. DEFINE size == IF BufSize - 1 < left THEN BufSize - 1 ELSE left
<1>1. AtMost(WriteSize(0, 0), left) = size
  BY DEF AtMost, WriteSize, DataSpace
<1>2. size \in 1 .. BufSize - 1 /\ size <= left /\ left \in Nat /\ 0 \in Index
  BY DEF Fill, TxAt, TaskInv, TxTypeOK, Index
<1>3. Advance(0, size) = size /\ size \in Index
  BY <1>2, AdvanceIs DEF Index
<1>4. ~Sending
  BY DEF Fill, RbEmpty, PieceInv, TxTypeOK
<1>5. /\ txslot' = [i \in Index |-> IF i < size THEN written - left + i + 1
                                    ELSE txslot[i]]
      /\ txrp' = 0 /\ txwp' = size /\ left' = left - size /\ txpc' = "start"
      /\ UNCHANGED <<hal, txdma, written, wire, aborted>>
  BY <1>1, <1>3 DEF Fill
<1>. HIDE DEF size
<1>6. TxTypeOK'
  <2>1. \A i \in Index : i < size => written - left + i + 1 \in Nat
    <3>1. written - left \in Nat
      BY DEF TxTypeOK
    <3>2. \A i \in Index : i \in Nat
      BY DEF Index
    <3>. QED  BY <3>1, <3>2
  <2>. QED  BY <1>2, <1>3, <1>5, <2>1 DEF TxTypeOK, txdma
<1>7. SendingInv'
  BY <1>4, <1>5 DEF SendingInv, Sending, txdma
<1>8. PieceInv'
  BY <1>2, <1>4, <1>5 DEF PieceInv, Sending, Accepted, txdma, TxTypeOK, Index
<1>9. TaskInv'
  BY <1>5 DEF TaskInv
<1>10. WireInv'
  BY <1>2, <1>4, <1>5 DEF Fill, TxAt, WireInv, Sending, Accepted, Pending, TxTypeOK, txdma
<1>. QED  BY <1>6, <1>7, <1>8, <1>9, <1>10

LEMMA StartDmaInv ==
  ASSUME TxInv, StartDma
  PROVE  TxInv'
<1>. USE DEF TxInv
<1>1. txrp = 0 /\ txwp \in 1 .. BufSize - 1 /\ hal \in Halted /\ ~Sending
  BY DEF StartDma, TxAt, PieceInv, SendingInv, TxTypeOK, Index
<1>2. ReadSize(txrp, txwp) = txwp
  BY <1>1, AdvanceIs, ReadSizeIs DEF Index
<1>3. /\ hal' = (IF hal = "BUSY_RX" THEN "BUSY_TX_RX" ELSE "BUSY_TX")
      /\ dmaptr' = 0 /\ dmaleft' = txwp
      /\ txpc = "start" /\ txpc' = IF left = 0 THEN "idle" ELSE "fill"
      /\ UNCHANGED <<txring, dmaTc, tcie, left, written, wire, aborted>>
  BY <1>1, <1>2 DEF StartDma, TxAt
<1>4. TxTypeOK' /\ SendingInv' /\ PieceInv'
  BY <1>1, <1>3 DEF TxTypeOK, SendingInv, PieceInv, Sending, Accepted, txring
<1>5. TaskInv' /\ WireInv'
  BY <1>1, <1>3 DEF TaskInv, WireInv, TxTypeOK, Accepted, Pending, txring
<1>. QED  BY <1>4, <1>5

LEMMA DmaSendInv ==
  ASSUME TxInv, DmaSend
  PROVE  TxInv'
<1>. USE DEF TxInv, DmaSend
<1>1. /\ dmaleft > 0 /\ txpc # "start" /\ ~tcie /\ ~dmaTc
      /\ dmaptr + dmaleft = txwp /\ txrp = 0 /\ Accepted' = Accepted
  BY DEF SendingInv, PieceInv, Sending, TxTypeOK, Accepted
<1>2. /\ dmaptr \in 0 .. txwp - 1 /\ dmaleft \in 1 .. BufSize - 1 /\ dmaptr \in Index
      /\ Accepted \in Nat /\ txwp \in Nat /\ txwp <= Accepted
  BY <1>1 DEF TxTypeOK, PieceInv, Accepted, Index
<1>3. txslot[dmaptr] = Accepted - txwp + dmaptr + 1
  BY <1>2 DEF PieceInv
<1>4. txslot[dmaptr] = Accepted - dmaleft + 1 /\ Accepted - dmaleft \in Nat
  BY <1>1, <1>2, <1>3
<1>5. TxTypeOK'
  BY <1>2, <1>4 DEF TxTypeOK, txring, Index
<1>6. SendingInv'
  <2>1. dmaTc' <=> dmaleft = 1
    BY Zenon
  <2>2. /\ dmaleft = 1 <=> dmaleft' = 0
        /\ dmaleft' > 0 \/ dmaleft' = 0
        /\ dmaptr' + dmaleft' = txwp'
    BY <1>1, <1>2 DEF txring
  <2>3. ~tcie'
    BY <1>1
  <2>. QED  BY <2>1, <2>2, <2>3, Zenon DEF SendingInv, Sending
<1>7. PieceInv' /\ TaskInv'
  BY <1>1 DEF PieceInv, TaskInv, Sending, txring
<1>8. WireInv'
  <2>1. /\ wire' = Append(wire, Accepted - dmaleft + 1)
        /\ Pending = dmaleft /\ Pending' = dmaleft - 1
    BY <1>1, <1>4 DEF Pending
  <2>. DEFINE top == Accepted - dmaleft
  <2>2. top \in Nat /\ Accepted' - Pending' = top + 1
    BY <1>1, <1>2, <1>4, <2>1
  <2>3. /\ wire \in Seq(Nat) /\ aborted' = aborted
        /\ \A i \in 1 .. Len(wire) : wire[i] <= top
        /\ \A i \in 1 .. Len(wire) - 1 : wire[i] < wire[i + 1]
        /\ ~aborted => Len(wire) = top /\ \A i \in 1 .. Len(wire) : wire[i] = i
    BY <2>1 DEF WireInv, TxTypeOK
  <2>4. wire' = Append(wire, top + 1)
    BY <2>1
  <2>. HIDE DEF top
  <2>5. /\ Len(wire') = Len(wire) + 1 /\ wire'[Len(wire) + 1] = top + 1
        /\ \A i \in 1 .. Len(wire) : wire'[i] = wire[i]
    BY <2>2, <2>3, <2>4
  <2>6. Len(wire) \in Nat /\ \A i \in 1 .. Len(wire) : wire[i] \in Nat
    BY <2>3
  <2>. QED  BY <2>2, <2>3, <2>5, <2>6 DEF WireInv
<1>. QED  BY <1>5, <1>6, <1>7, <1>8

LEMMA TxInterruptInv ==
  ASSUME TxInv, TxInterrupt
  PROVE  TxInv'
<1>1. CASE DmaTcIsr
  BY <1>1 DEF DmaTcIsr, txring, TxInv, TxTypeOK, SendingInv, PieceInv, TaskInv,
              WireInv, Sending, Accepted, Pending
<1>2. CASE TxComplete
  <2>. USE DEF TxComplete, TxInv
  <2>1. txrp = 0 /\ txwp \in 1 .. BufSize - 1 /\ txpc # "start" /\ ~dmaTc
    BY <1>2 DEF PieceInv, SendingInv, Sending, TxTypeOK, Index
  <2>2. ReadSize(txrp, txwp) = txwp /\ Advance(txrp, txwp) = txwp
    BY <2>1, AdvanceIs, ReadSizeIs DEF Index
  <2>3. TxTypeOK' /\ SendingInv' /\ TaskInv'
    BY <1>2, <2>1, <2>2 DEF TxTypeOK, SendingInv, TaskInv, Sending, Halted
  <2>4. PieceInv' /\ WireInv'
    BY <1>2, <2>1, <2>2 DEF TxTypeOK, PieceInv, WireInv, Sending, Accepted, Pending
  <2>. QED  BY <2>3, <2>4
<1>. QED  BY <1>1, <1>2, DmaSendInv DEF TxInterrupt

\* The recovery of the receive side, between two calls of write().
LEMMA RecoveryTxInv ==
  ASSUME TxInv, StopStreams \/ RestartRx
  PROVE  TxInv'
<1>1. CASE StopStreams
  <2>. USE DEF TxInv, StopStreams, TxAt, txring
  <2>1. TxTypeOK' /\ SendingInv' /\ TaskInv'
    BY <1>1 DEF TxTypeOK, SendingInv, TaskInv, Halted
  <2>2. PieceInv'
    BY <1>1 DEF TxTypeOK, PieceInv, Sending, Accepted
  <2>3. WireInv'
    <3>1. Accepted' = Accepted /\ Pending = dmaleft /\ Pending' = 0
      BY <1>1 DEF Accepted, Pending
    <3>2. Accepted \in Nat /\ wire \in Seq(Nat) /\ dmaleft \in Nat
      BY DEF TxTypeOK, Accepted
    <3>3. ~aborted' => ~aborted /\ dmaleft = 0
      <4>1. aborted' = (aborted \/ dmaleft > 0)
        BY <1>1
      <4>2. dmaleft > 0 \/ dmaleft = 0
        BY <3>2
      <4>. QED  BY <4>1, <4>2, Zenon
    <3>. QED  BY <1>1, <3>1, <3>2, <3>3 DEF WireInv
  <2>. QED  BY <2>1, <2>2, <2>3
<1>2. CASE RestartRx
  BY <1>2 DEF RestartRx, TxAt, txring, txdma, TxInv, TxTypeOK, SendingInv, PieceInv,
              TaskInv, WireInv, Sending, Halted, Accepted, Pending
<1>. QED  BY <1>1, <1>2

(***************************************************************************)
(* Sequences of bytes.                                                     *)
(***************************************************************************)

Sorted(s) == \A i, j \in 1 .. Len(s) : i < j => s[i] < s[j]

LEMMA ConcatBytes ==
  ASSUME NEW s \in Seq(Nat), NEW t \in Seq(Nat)
  PROVE  /\ s \o t \in Seq(Nat) /\ Len(s \o t) = Len(s) + Len(t)
         /\ \A i \in 1 .. Len(s) : (s \o t)[i] = s[i]
         /\ \A j \in 1 .. Len(t) : (s \o t)[Len(s) + j] = t[j]
         /\ ToSet(s \o t) = ToSet(s) \union ToSet(t)
<1>. DEFINE u == s \o t
<1>1. u \in Seq(Nat) /\ Len(u) = Len(s) + Len(t) /\ Len(s) \in Nat /\ Len(t) \in Nat
  OBVIOUS
<1>2. \A i \in 1 .. Len(s) : u[i] = s[i]
  OBVIOUS
<1>3. \A j \in 1 .. Len(t) : u[Len(s) + j] = t[j]
  OBVIOUS
<1>4. /\ DOMAIN s = 1 .. Len(s) /\ DOMAIN t = 1 .. Len(t) /\ DOMAIN u = 1 .. Len(u)
  BY <1>1
<1>. HIDE DEF u
<1>5. ToSet(u) = ToSet(s) \union ToSet(t)
  <2>1. ASSUME NEW x \in ToSet(u)
        PROVE  x \in ToSet(s) \union ToSet(t)
    <3>1. PICK i \in 1 .. Len(u) : x = u[i]
      BY <1>4 DEF ToSet
    <3>2. CASE i <= Len(s)
      <4>1. i \in 1 .. Len(s) /\ x = s[i]
        BY <1>1, <1>2, <3>1, <3>2
      <4>. QED  BY <1>4, <4>1 DEF ToSet
    <3>3. CASE i > Len(s)
      <4>1. i - Len(s) \in 1 .. Len(t) /\ i = Len(s) + (i - Len(s))
        BY <1>1, <3>3
      <4>2. x = t[i - Len(s)]
        BY <1>3, <3>1, <4>1
      <4>. QED  BY <1>4, <4>1, <4>2 DEF ToSet
    <3>. QED  BY <1>1, <3>2, <3>3
  <2>2. ASSUME NEW x \in ToSet(s)
        PROVE  x \in ToSet(u)
    <3>1. PICK i \in 1 .. Len(s) : x = s[i]
      BY <1>4 DEF ToSet
    <3>2. i \in 1 .. Len(u) /\ x = u[i]
      BY <1>1, <1>2, <3>1
    <3>. QED  BY <1>4, <3>2 DEF ToSet
  <2>3. ASSUME NEW x \in ToSet(t)
        PROVE  x \in ToSet(u)
    <3>1. PICK j \in 1 .. Len(t) : x = t[j]
      BY <1>4 DEF ToSet
    <3>2. Len(s) + j \in 1 .. Len(u) /\ x = u[Len(s) + j]
      BY <1>1, <1>3, <3>1
    <3>. QED  BY <1>4, <3>2 DEF ToSet
  <2>. QED  BY <2>1, <2>2, <2>3
<1>. QED  BY <1>1, <1>2, <1>3, <1>5 DEF u

\* A chunk of a sequence and the rest of it.
LEMMA SplitBytes ==
  ASSUME NEW s \in Seq(Nat), NEW n \in 0 .. Len(s)
  PROVE  LET c == SubSeq(s, 1, n)
             r == SubSeq(s, n + 1, Len(s))
         IN  /\ c \in Seq(Nat) /\ r \in Seq(Nat)
             /\ Len(c) = n /\ Len(r) = Len(s) - n
             /\ \A i \in 1 .. n : c[i] = s[i]
             /\ \A i \in 1 .. Len(s) - n : r[i] = s[n + i]
             /\ c \o r = s
             /\ ToSet(s) = ToSet(c) \union ToSet(r)
<1>. DEFINE c == SubSeq(s, 1, n)  r == SubSeq(s, n + 1, Len(s))
<1>1. /\ c \in Seq(Nat) /\ Len(c) = n /\ \A i \in 1 .. n : c[i] = s[i]
  OBVIOUS
<1>2. /\ r \in Seq(Nat) /\ Len(r) = Len(s) - n
      /\ \A i \in 1 .. Len(s) - n : r[i] = s[n + i]
  OBVIOUS
<1>. HIDE DEF c, r
<1>3. c \o r = s
  <2>1. /\ c \o r \in Seq(Nat) /\ Len(c \o r) = Len(s)
        /\ \A i \in 1 .. n : (c \o r)[i] = c[i]
        /\ \A j \in 1 .. Len(s) - n : (c \o r)[n + j] = r[j]
    BY <1>1, <1>2, ConcatBytes
  <2>2. ASSUME NEW i \in 1 .. Len(s)
        PROVE  (c \o r)[i] = s[i]
    <3>1. CASE i <= n
      BY <1>1, <2>1, <3>1
    <3>2. CASE i > n
      <4>1. i - n \in 1 .. Len(s) - n /\ n + (i - n) = i
        BY <3>2
      <4>2. (c \o r)[n + (i - n)] = r[i - n] /\ r[i - n] = s[n + (i - n)]
        BY <1>2, <2>1, <4>1
      <4>. QED  BY <4>1, <4>2
    <3>3. i <= n \/ i > n
      OBVIOUS
    <3>. QED  BY ONLY <3>1, <3>2, <3>3
  <2>. QED  BY <2>1, <2>2, SeqEqual
<1>4. ToSet(s) = ToSet(c) \union ToSet(r)
  BY <1>1, <1>2, <1>3, ConcatBytes
<1>. QED  BY <1>1, <1>2, <1>3, <1>4 DEF c, r

\* The elements of a sequence, without its domain.
LEMMA ToSetIs ==
  ASSUME NEW s \in Seq(Nat)
  PROVE  /\ \A i \in 1 .. Len(s) : s[i] \in ToSet(s)
         /\ \A x \in ToSet(s) : \E i \in 1 .. Len(s) : x = s[i]
         /\ ToSet(s) \subseteq Nat
<1>1. DOMAIN s = 1 .. Len(s) /\ \A i \in 1 .. Len(s) : s[i] \in Nat
  OBVIOUS
<1>. QED  BY <1>1 DEF ToSet

LEMMA SortedConcat ==
  ASSUME NEW s \in Seq(Nat), NEW t \in Seq(Nat)
  PROVE  Sorted(s \o t) <=>
           Sorted(s) /\ Sorted(t) /\ \A x \in ToSet(s), y \in ToSet(t) : x < y
<1>. DEFINE u == s \o t
<1>1. /\ Len(u) = Len(s) + Len(t) /\ Len(s) \in Nat /\ Len(t) \in Nat
      /\ \A i \in 1 .. Len(s) : u[i] = s[i]
      /\ \A j \in 1 .. Len(t) : u[Len(s) + j] = t[j]
  BY ConcatBytes
<1>. HIDE DEF u
<1>2. \A i \in 1 .. Len(u) : i > Len(s) => i - Len(s) \in 1 .. Len(t) /\ u[i] = t[i - Len(s)]
  <2>. SUFFICES ASSUME NEW i \in 1 .. Len(u), i > Len(s)
                PROVE  i - Len(s) \in 1 .. Len(t) /\ u[i] = t[i - Len(s)]
    OBVIOUS
  <2>1. i - Len(s) \in 1 .. Len(t) /\ i = Len(s) + (i - Len(s))
    BY <1>1
  <2>. QED  BY <1>1, <2>1
<1>3. ASSUME Sorted(s), Sorted(t), \A x \in ToSet(s), y \in ToSet(t) : x < y,
             NEW i \in 1 .. Len(u), NEW j \in 1 .. Len(u), i < j
      PROVE  u[i] < u[j]
  <2>1. CASE j <= Len(s)
    <3>1. i \in 1 .. Len(s) /\ j \in 1 .. Len(s)
      BY <1>1, <1>3, <2>1
    <3>. QED  BY <1>1, <1>3, <3>1 DEF Sorted
  <2>2. CASE i <= Len(s) /\ j > Len(s)
    <3>1. i \in 1 .. Len(s) /\ j - Len(s) \in 1 .. Len(t)
      BY <1>1, <1>2, <2>2
    <3>2. u[i] \in ToSet(s) /\ u[j] \in ToSet(t)
      BY <1>1, <1>2, <2>2, <3>1, ToSetIs
    <3>. QED  BY <1>3, <3>2
  <2>3. CASE i > Len(s)
    <3>1. i - Len(s) < j - Len(s) /\ j > Len(s)
      BY <1>1, <1>3, <2>3
    <3>. QED  BY <1>2, <1>3, <2>3, <3>1 DEF Sorted
  <2>. QED  BY <1>1, <2>1, <2>2, <2>3
<1>4. ASSUME Sorted(u)
      PROVE  Sorted(s) /\ Sorted(t) /\ \A x \in ToSet(s), y \in ToSet(t) : x < y
  <2>1. Sorted(s)
    BY <1>1, <1>4 DEF Sorted
  <2>2. ASSUME NEW i \in 1 .. Len(t), NEW j \in 1 .. Len(t), i < j
        PROVE  t[i] < t[j]
    <3>1. /\ Len(s) + i \in 1 .. Len(u) /\ Len(s) + j \in 1 .. Len(u)
          /\ Len(s) + i < Len(s) + j
      BY <1>1, <2>2
    <3>. QED  BY <1>1, <1>4, <3>1 DEF Sorted
  <2>3. ASSUME NEW x \in ToSet(s), NEW y \in ToSet(t)
        PROVE  x < y
    <3>1. PICK i \in 1 .. Len(s) : x = s[i]
      BY ToSetIs
    <3>2. PICK j \in 1 .. Len(t) : y = t[j]
      BY ToSetIs
    <3>3. i \in 1 .. Len(u) /\ Len(s) + j \in 1 .. Len(u) /\ i < Len(s) + j
      BY <1>1
    <3>. QED  BY <1>1, <1>4, <3>1, <3>2, <3>3 DEF Sorted
  <2>. QED  BY <2>1, <2>2, <2>3 DEF Sorted
<1>. QED  BY <1>3, <1>4 DEF Sorted, u

(***************************************************************************)
(* The receive half.                                                       *)
(***************************************************************************)

RxTypeOK ==
  /\ slot \in [Index -> Nat] /\ ndtr \in 1 .. BufSize
  /\ rp \in Index /\ wp \in Index /\ snap \in Index
  /\ dmaIrq \in BOOLEAN /\ err \in BOOLEAN /\ lapped \in BOOLEAN
  /\ rxpc \in {"idle", "check", "stop", "stopped", "snap", "setwp", "sized",
               "resize", "copy", "wipe", "take", "serve"}
  /\ readsize \in Nat /\ stored \in Nat /\ fetched \in Nat /\ during \in Nat
  /\ cache \in Seq(Nat) /\ delivered \in Seq(Nat)
  /\ line \in Seq(Nat) /\ request \in Seq(Nat)
  /\ dropped \subseteq Nat
  /\ rxpc \in {"copy", "wipe"} => rp + readsize <= BufSize
  /\ rxpc \in {"snap", "setwp", "sized", "resize", "copy"} => cache = <<>>
  /\ rxpc = "serve" => request # <<>>

\* Bytes that wait in the ring.
Waits == stored - fetched

\* The ring holds the bytes that wait, from the read index to the DMA position.
RingInv ==
  /\ Waits \in 0 .. BufSize - 1
  /\ DmaPos = Advance(rp, Waits)
  /\ \A n \in 0 .. Waits - 1 : slot[Advance(rp, n)] = fetched + n + 1

\* While receive() sizes the ring, the write index lags the DMA position by no
\* more than what arrived meanwhile.
SizingInv ==
  /\ Sizing => during <= 1 /\ during <= Waits /\ snap = Advance(rp, Waits - during)
  /\ rxpc \in {"sized", "resize"} =>
       \E n \in Waits - during .. Waits : wp = Advance(rp, n)
  /\ rxpc = "resize" => AtMost(Waits - during, BufSize - rp) < CacheSize

\* What receive() copies waits in the ring and fits the cache.
CopyInv ==
  /\ rxpc \in {"copy", "wipe"} => readsize <= CacheSize /\ readsize <= Waits
  /\ rxpc = "wipe" =>
       Len(cache) = readsize /\ \A i \in 1 .. readsize : cache[i] = fetched + i

\* What came out of the ring.
Seen == ToSet(delivered)

OutInv ==
  /\ dropped \subseteq 1 .. fetched
  /\ Sorted(delivered) /\ Sorted(cache)
  /\ \A b \in Seen, c \in ToSet(cache) : b < c
  /\ Seen \union (IF rxpc = "wipe" THEN {} ELSE ToSet(cache)) = (1 .. fetched) \ dropped

\* The newlines that came out.
Ends == NL \intersect Seen

\* The line after the last newline, and the line that it ends.
LineInv ==
  /\ ToSet(line) = {b \in Seen : \A k \in Ends : k < b}
  /\ request = <<>> => Ends = {}
  /\ request # <<>> =>
       /\ Last(request) \in Ends /\ \A k \in Ends : k <= Last(request)
       /\ \E start \in Ends \union {0} :
            /\ start < Last(request)
            /\ \A k \in Ends : k < Last(request) => k <= start
            /\ ToSet(request) = (start + 1 .. Last(request)) \ dropped

RxInv == RingInv /\ SizingInv /\ CopyInv /\ OutInv /\ LineInv

LEMMA RxInitInv == RxInit => RxTypeOK /\ RxInv
<1>. SUFFICES ASSUME RxInit
              PROVE  RxTypeOK /\ RxInv
  OBVIOUS
<1>. USE DEF RxInit
<1>1. 0 \in Index /\ <<>> \in Seq(Nat) /\ ToSet(<<>>) = {} /\ 0 \in Nat
  BY DEF Index, ToSet
<1>2. RxTypeOK
  BY <1>1 DEF RxTypeOK, Filler
<1>3. RingInv
  <2>1. Advance(0, 0) = 0
    BY <1>1, AdvanceIs
  <2>2. BufSize - BufSize = 0 /\ 0 % BufSize = 0
    <3>1. \A b \in Nat : b > 0 => 0 % b = 0
      OBVIOUS
    <3>. QED  BY <3>1
  <2>3. DmaPos = 0 /\ Waits = 0
    BY <2>2 DEF DmaPos, Waits
  <2>. QED  BY <2>1, <2>3 DEF RingInv
<1>4. SizingInv /\ CopyInv
  BY DEF SizingInv, CopyInv, Sizing
<1>5. OutInv /\ LineInv
  BY <1>1 DEF OutInv, LineInv, Sorted, Seen, Ends
<1>. QED  BY <1>2, <1>3, <1>4, <1>5 DEF RxInv

\* A step of the receive half.
TaskStep ==
  \/ Poll \/ Check \/ ReadNdtr \/ SetWp \/ SizeRing \/ ResizeRing
  \/ CopyOut \/ WipeRing \/ TakeChunk \/ StopDma \/ RestartDma \/ Serve
RxStep == TaskStep \/ DmaStore \/ LineError \/ DmaIsr

\* The DMA position is a slot, whatever the stream does.
LEMMA DmaPosIs ==
  ASSUME ndtr \in 1 .. BufSize
  PROVE  DmaPos = BufSize - ndtr /\ DmaPos \in Index
<1>1. \A x, b \in Nat : x < b => x % b = x
  OBVIOUS
<1>2. BufSize - ndtr \in Nat /\ BufSize - ndtr < BufSize
  OBVIOUS
<1>. QED  BY <1>1, <1>2 DEF DmaPos, Index

LEMMA RxTypeStep ==
  ASSUME RxTypeOK, RxStep
  PROVE  RxTypeOK'
<1>. USE DEF RxTypeOK, ring, locals, history, lines
<1>1. /\ rp \in Index /\ wp \in Index /\ rp \in Nat
      /\ DmaPos \in Index /\ ReadSize(rp, wp) \in 0 .. BufSize - rp
  <2>1. rp \in Index /\ wp \in Index /\ ndtr \in 1 .. BufSize
    OBVIOUS
  <2>. QED  BY ONLY <2>1, ReadSizeFits, DmaPosIs, BufSizeAssumption DEF Index
<1>2. CASE Poll \/ Check \/ StopDma \/ Serve
  BY <1>2 DEF Poll, Check, StopDma, Serve, At
<1>3. CASE ReadNdtr \/ SetWp
  <2>1. CASE ReadNdtr
    BY <1>1, <2>1 DEF ReadNdtr, At
  <2>2. CASE SetWp
    BY <2>2 DEF SetWp, At
  <2>. QED  BY <1>3, <2>1, <2>2
<1>4. CASE SizeRing
  <2>1. ReadSize(rp, wp) >= CacheSize => rp + CacheSize <= BufSize
    BY <1>1
  <2>. QED  BY <1>1, <1>4, <2>1 DEF SizeRing, At
<1>5. CASE ResizeRing
  BY <1>1, <1>5 DEF ResizeRing, At
<1>6. CASE CopyOut
  <2>1. \A i \in 1 .. readsize : slot[rp + i - 1] \in Nat
    BY <1>6 DEF CopyOut, At, Index
  <2>2. cache' \in Seq(Nat)
    BY <1>6, <2>1 DEF CopyOut
  <2>. QED  BY <1>6, <2>2 DEF CopyOut, At
<1>7. CASE WipeRing
  <2>1. slot' \in [Index -> Nat]
    BY <1>7 DEF WipeRing, Filler
  <2>2. rp' \in Index
    <3>1. readsize \in 0 .. BufSize
      BY <1>7 DEF WipeRing, At, Index
    <3>. QED  BY <1>7, <3>1, AdvanceIs DEF WipeRing
  <2>. QED  BY <1>7, <2>1, <2>2 DEF WipeRing, At
<1>8. CASE TakeChunk
  <2>. PICK n \in 0 .. Len(cache) :
         LET chunk == SubSeq(cache, 1, n) IN
         /\ ChunkEnd(n)
         /\ cache' = SubSeq(cache, n + 1, Len(cache))
         /\ delivered' = delivered \o chunk
         /\ \/ /\ n = 0
               /\ rxpc' = "idle" /\ UNCHANGED <<line, request>>
            \/ /\ n > 0 /\ cache[n] \notin NL
               /\ line' = line \o chunk
               /\ rxpc' = "check" /\ UNCHANGED request
            \/ /\ n > 0 /\ cache[n] \in NL
               /\ request' = line \o chunk /\ line' = <<>>
               /\ rxpc' = "serve"
    BY <1>8 DEF TakeChunk
  <2>. DEFINE chunk == SubSeq(cache, 1, n)
  <2>1. chunk \in Seq(Nat) /\ cache' \in Seq(Nat) /\ Len(chunk) = n
    BY SplitBytes
  <2>. HIDE DEF chunk
  <2>2. /\ delivered \o chunk \in Seq(Nat) /\ line \o chunk \in Seq(Nat)
        /\ n > 0 => line \o chunk # <<>>
    BY <2>1
  <2>3. delivered' = delivered \o chunk /\ line' \in {line, line \o chunk, <<>>}
    BY DEF chunk
  <2>4. /\ request' \in {request, line \o chunk}
        /\ rxpc' = "serve" => request' = line \o chunk /\ n > 0
        /\ rxpc' \in {"idle", "check", "serve"}
    BY DEF chunk
  <2>5. /\ line' \in Seq(Nat) /\ request' \in Seq(Nat) /\ delivered' \in Seq(Nat)
        /\ rxpc' = "serve" => request' # <<>>
    <3>1. line \in Seq(Nat) /\ request \in Seq(Nat) /\ <<>> \in Seq(Nat)
      OBVIOUS
    <3>. QED  BY ONLY <2>2, <2>3, <2>4, <3>1
  <2>6. UNCHANGED <<ring, err, errors, locals, history>>
    BY <1>8 DEF TakeChunk
  <2>. QED  BY <2>1, <2>4, <2>5, <2>6
<1>9. CASE RestartDma
  BY <1>9 DEF RestartDma, At, Index
<1>10. CASE DmaStore
  <2>1. slot' \in [Index -> Nat]
    <3>1. /\ slot \in [Index -> Nat] /\ stored + 1 \in Nat
          /\ slot' = [slot EXCEPT ![DmaPos] = stored + 1]
      BY <1>10 DEF DmaStore
    <3>. QED  BY ONLY <3>1
  <2>2. dmaIrq' \in BOOLEAN /\ lapped' \in BOOLEAN /\ err' \in BOOLEAN
    <3>1. dmaIrq' \in BOOLEAN
      BY <1>10, Zenon DEF DmaStore
    <3>2. lapped' \in BOOLEAN
      BY <1>10, Zenon DEF DmaStore
    <3>3. err' \in BOOLEAN
      BY <1>10, Zenon DEF DmaStore
    <3>. QED  BY <3>1, <3>2, <3>3
  <2>. QED  BY <1>10, <2>1, <2>2 DEF DmaStore
<1>11. CASE LineError
  BY <1>11 DEF LineError
<1>12. CASE DmaIsr
  BY <1>1, <1>12 DEF DmaIsr
<1>. QED  BY <1>2, <1>3, <1>4, <1>5, <1>6, <1>7, <1>8, <1>9, <1>10, <1>11, <1>12
          DEF RxStep, TaskStep

LEMMA RingStep ==
  ASSUME RxTypeOK, RingInv, CopyInv, RxStep, ~lapped'
  PROVE  RingInv'
<1>. DEFINE unchanged == UNCHANGED <<slot, ndtr, rp, stored, fetched>>
<1>1. /\ rp \in Index /\ rp \in Nat /\ stored \in Nat /\ fetched \in Nat /\ Waits \in Nat
      /\ BufSize \in Nat
  BY DEF RxTypeOK, RingInv, Index
<1>2. CASE unchanged
  BY <1>2 DEF RingInv, Waits, DmaPos
<1>3. CASE DmaStore
  <2>. DEFINE w == Waits  d == DmaPos
  <2>1. /\ w \in 0 .. BufSize - 1 /\ d = Advance(rp, w)
        /\ \A n \in 0 .. w - 1 : slot[Advance(rp, n)] = fetched + n + 1
        /\ slot \in [Index -> Nat]
    BY DEF RingInv, RxTypeOK
  <2>2. w # BufSize - 1
    <3>1. stored - fetched # BufSize - 1
      BY <1>3 DEF DmaStore
    <3>. QED  BY <3>1 DEF Waits
  <2>3. w + 1 \in 0 .. BufSize - 1 /\ w + 1 \in 0 .. BufSize /\ w \in 0 .. BufSize
    BY <2>1, <2>2
  <2>4. /\ Waits' = w + 1 /\ fetched' = fetched /\ rp' = rp
        /\ slot' = [slot EXCEPT ![d] = stored + 1]
    BY <1>1, <1>3 DEF DmaStore, Waits
  <2>5. DmaPos' = Advance(rp, w + 1)
    <3>1. /\ ndtr \in 1 .. BufSize /\ ndtr' = IF ndtr = 1 THEN BufSize ELSE ndtr - 1
      BY <1>3 DEF DmaStore, RxTypeOK
    <3>2. ndtr' \in 1 .. BufSize
      BY <3>1
    <3>3. d = BufSize - ndtr /\ d \in Index
      BY <3>1, DmaPosIs
    <3>4. \A x, b \in Nat : x < b => x % b = x
      OBVIOUS
    <3>5. BufSize - ndtr' \in Nat /\ BufSize - ndtr' < BufSize
      <4>1. \A x \in 1 .. BufSize : BufSize - x \in Nat /\ BufSize - x < BufSize
        OBVIOUS
      <4>. QED  BY <3>2, <4>1
    <3>6. DmaPos' = BufSize - ndtr'
      BY <3>4, <3>5 DEF DmaPos
    <3>. HIDE DEF d
    <3>7. Advance(d, 1) = IF d + 1 < BufSize THEN d + 1 ELSE d + 1 - BufSize
      BY <3>3, AdvanceIs
    <3>8. Advance(d, 1) = DmaPos'
      BY <3>1, <3>2, <3>3, <3>6, <3>7
    <3>9. Advance(Advance(rp, w), 1) = Advance(rp, w + 1)
      <4>. HIDE DEF w
      <4>. QED  BY <1>1, <2>3, AdvanceTwice
    <3>. QED  BY <2>1, <3>8, <3>9
  <2>. HIDE DEF d
  <2>6. ASSUME NEW n \in 0 .. w
        PROVE  slot'[Advance(rp, n)] = fetched + n + 1
    <3>1. Advance(rp, n) \in Index /\ n \in 0 .. BufSize - 1
      <4>1. n \in 0 .. BufSize /\ n \in 0 .. BufSize - 1
        BY <2>1
      <4>. QED  BY <1>1, <4>1, AdvanceIs
    <3>2. CASE n = w
      <4>1. stored + 1 = fetched + w + 1
        BY <1>1 DEF Waits
      <4>. QED  BY <2>1, <2>4, <3>1, <3>2, <4>1
    <3>3. CASE n # w
      <4>1. n \in 0 .. w - 1
        BY <2>1, <3>3
      <4>2. Advance(rp, n) # d
        <5>. HIDE DEF w
        <5>. QED  BY <1>1, <2>1, <3>1, <3>3, AdvanceInjective
      <4>. QED  BY <2>1, <2>4, <3>1, <4>1, <4>2
    <3>. QED  BY <3>2, <3>3
  <2>. HIDE DEF w
  <2>7. \A n \in 0 .. Waits' - 1 : n \in 0 .. w
    BY <2>3, <2>4
  <2>8. \A n \in 0 .. Waits' - 1 : slot'[Advance(rp', n)] = fetched' + n + 1
    BY <2>4, <2>6, <2>7
  <2>. QED  BY <2>3, <2>4, <2>5, <2>8 DEF RingInv
<1>4. CASE WipeRing
  <2>. DEFINE w == Waits  size == readsize
  <2>1. /\ w \in 0 .. BufSize - 1 /\ DmaPos = Advance(rp, w)
        /\ \A n \in 0 .. w - 1 : slot[Advance(rp, n)] = fetched + n + 1
    BY DEF RingInv
  <2>2. size \in Nat /\ size <= w /\ rp + size <= BufSize
    BY <1>4 DEF WipeRing, At, RxTypeOK, CopyInv
  <2>3. /\ rp' = Advance(rp, size) /\ fetched' = fetched + size
        /\ Waits' = w - size /\ DmaPos' = DmaPos
        /\ slot' = [i \in Index |-> IF i \in rp .. rp + size - 1
                                    THEN Filler ELSE slot[i]]
    BY <1>1, <1>4, <2>2 DEF WipeRing, Waits, DmaPos
  <2>. HIDE DEF w, size
  <2>4. /\ size \in 0 .. BufSize /\ w - size \in 0 .. BufSize - 1
        /\ w - size \in 0 .. BufSize /\ size + (w - size) = w
    BY <2>1, <2>2
  <2>5. Advance(rp', w - size) = Advance(rp, w)
    <3>. DEFINE m == w - size
    <3>1. m \in 0 .. BufSize /\ size + m = w /\ size + m <= BufSize
      BY <2>1, <2>4
    <3>. HIDE DEF m
    <3>2. Advance(Advance(rp, size), m) = Advance(rp, size + m)
      BY <1>1, <2>4, <3>1, AdvanceTwice
    <3>. QED  BY <2>3, <3>1, <3>2 DEF m
  <2>6. ASSUME NEW n \in 0 .. w - size - 1
        PROVE  slot'[Advance(rp', n)] = fetched' + n + 1
    <3>. DEFINE m == size + n
    <3>1. n \in 0 .. BufSize /\ m <= BufSize /\ m \in 0 .. w - 1 /\ m \in 0 .. BufSize
          /\ n \in Nat /\ size \in Nat /\ m \in Nat /\ m >= size /\ m < BufSize
      BY <2>1, <2>2
    <3>2. Advance(Advance(rp, size), n) = Advance(rp, size + n)
      BY <1>1, <2>4, <3>1, AdvanceTwice
    <3>3. fetched' + n + 1 = fetched + m + 1
      BY <1>1, <2>3, <3>1
    <3>. HIDE DEF m
    <3>4. /\ Advance(rp, m) = IF rp + m < BufSize THEN rp + m ELSE rp + m - BufSize
          /\ Advance(rp, m) \in Index
      BY <1>1, <3>1, AdvanceIs
    <3>5. Advance(rp, m) \notin rp .. rp + size - 1
      BY <1>1, <2>2, <3>1, <3>4
    <3>6. slot'[Advance(rp, m)] = slot[Advance(rp, m)]
      BY <2>3, <3>4, <3>5
    <3>7. Advance(rp', n) = Advance(rp, m)
      BY <2>3, <3>2 DEF m
    <3>. QED  BY <2>1, <3>1, <3>3, <3>6, <3>7
  <2>7. \A n \in 0 .. Waits' - 1 : slot'[Advance(rp', n)] = fetched' + n + 1
    BY <2>3, <2>6
  <2>. QED  BY <2>1, <2>3, <2>4, <2>5, <2>7 DEF RingInv
<1>5. CASE RestartDma
  <2>1. Waits' = 0 /\ rp' = 0 /\ ndtr' = BufSize
    BY <1>1, <1>5 DEF RestartDma, Waits
  <2>2. DmaPos' = 0
    <3>1. \A b \in Nat : b > 0 => 0 % b = 0
      OBVIOUS
    <3>. QED  BY <2>1, <3>1 DEF DmaPos
  <2>3. 0 \in Index
    BY DEF Index
  <2>4. Advance(0, 0) = 0
    BY <2>3, AdvanceIs
  <2>. QED  BY <2>1, <2>2, <2>4 DEF RingInv
<1>6. RxStep => unchanged \/ DmaStore \/ WipeRing \/ RestartDma
  BY DEF RxStep, TaskStep, Poll, Check, ReadNdtr, SetWp, SizeRing, ResizeRing, CopyOut,
         TakeChunk, StopDma, Serve, LineError, DmaIsr, ring, history
<1>. QED  BY <1>2, <1>3, <1>4, <1>5, <1>6

LEMMA SizingStep ==
  ASSUME RxTypeOK, RingInv, SizingInv, RxStep, ~lapped'
  PROVE  SizingInv'
<1>. USE DEF At
<1>1. /\ rp \in Index /\ rp \in Nat /\ stored \in Nat /\ fetched \in Nat
      /\ Waits \in 0 .. BufSize - 1 /\ during \in Nat /\ BufSize \in Nat
  BY DEF RxTypeOK, RingInv, Index
<1>2. CASE /\ UNCHANGED <<rp, stored, fetched>>
           /\ rxpc' \notin {"setwp", "sized", "resize"}
  BY <1>2 DEF SizingInv, Sizing
<1>3. CASE ReadNdtr
  <2>1. Waits' = Waits /\ Waits - 0 = Waits /\ during' = 0 /\ rp' = rp /\ rxpc' = "setwp"
        /\ snap' = DmaPos
    BY <1>1, <1>3 DEF ReadNdtr, Waits, ring, history
  <2>. QED  BY <1>1, <2>1 DEF SizingInv, Sizing, RingInv
<1>4. CASE SetWp
  <2>1. /\ Waits' = Waits /\ during' = during /\ rp' = rp /\ rxpc' = "sized"
        /\ snap' = snap /\ wp' = snap /\ rxpc = "setwp"
    BY <1>4 DEF SetWp, Waits, locals, history
  <2>2. during <= 1 /\ during <= Waits /\ snap = Advance(rp, Waits - during)
    BY <2>1 DEF SizingInv, Sizing
  <2>3. Waits - during \in Waits - during .. Waits
    BY <1>1, <2>2
  <2>. QED  BY <2>1, <2>2, <2>3 DEF SizingInv, Sizing
<1>5. CASE SizeRing
  <2>1. /\ Waits' = Waits /\ UNCHANGED <<rp, wp, during, snap>> /\ rxpc = "sized"
        /\ rxpc' = "resize" => ReadSize(rp, wp) < CacheSize
        /\ rxpc' \in {"take", "resize", "copy"}
    BY <1>5 DEF SizeRing, Waits, ring, history
  <2>2. /\ during <= 1 /\ during <= Waits /\ snap = Advance(rp, Waits - during)
        /\ \E n \in Waits - during .. Waits : wp = Advance(rp, n)
    BY <2>1 DEF SizingInv, Sizing
  <2>3. ASSUME rxpc' = "resize"
        PROVE  AtMost(Waits - during, BufSize - rp) < CacheSize
    <3>. PICK n \in Waits - during .. Waits : wp = Advance(rp, n)
      BY <2>2
    <3>1. n \in 0 .. BufSize - 1 /\ n >= Waits - during
      BY <1>1, <2>2
    <3>2. ReadSize(rp, wp) = IF n < BufSize - rp THEN n ELSE BufSize - rp
      BY <1>1, <3>1, ReadSizeIs
    <3>3. ReadSize(rp, wp) < CacheSize
      BY <2>1, <2>3
    <3>. QED  BY <1>1, <2>2, <3>1, <3>2, <3>3 DEF AtMost
  <2>. QED  BY <2>1, <2>2, <2>3 DEF SizingInv, Sizing
<1>6. CASE DmaStore
  <2>1. /\ Waits' = Waits + 1 /\ UNCHANGED <<rp, wp, snap, rxpc>>
        /\ Sizing => during < 1 /\ during' = during + 1
    BY <1>1, <1>6 DEF DmaStore, Waits
  <2>2. CASE Sizing
    <3>1. /\ during' = during + 1 /\ during <= Waits /\ snap = Advance(rp, Waits - during)
          /\ during' <= 1 /\ during' <= Waits'
          /\ Waits' - during' = Waits - during
      BY <1>1, <2>1, <2>2 DEF SizingInv
    <3>2. Waits - during .. Waits \subseteq Waits' - during' .. Waits'
      BY <1>1, <2>1, <3>1
    <3>. QED  BY <2>1, <3>1, <3>2 DEF SizingInv, Sizing
  <2>3. CASE ~Sizing
    BY <2>1, <2>3 DEF SizingInv, Sizing
  <2>. QED  BY <2>2, <2>3
<1>7. CASE LineError
  BY <1>7 DEF LineError, SizingInv, Sizing, Waits, ring, locals, history
<1>8. CASE DmaIsr
  <2>1. /\ Waits' = Waits /\ UNCHANGED <<rp, snap, rxpc, during>> /\ wp' = DmaPos
    BY <1>8 DEF DmaIsr, Waits, locals, history
  <2>2. wp' = Advance(rp, Waits)
    BY <2>1 DEF RingInv
  <2>3. Sizing => Waits \in Waits - during .. Waits
    BY <1>1 DEF SizingInv
  <2>. QED  BY <2>1, <2>2, <2>3 DEF SizingInv, Sizing
<1>9. CASE WipeRing \/ RestartDma
  BY <1>9 DEF WipeRing, RestartDma, SizingInv, Sizing
<1>. QED
  BY <1>2, <1>3, <1>4, <1>5, <1>6, <1>7, <1>8, <1>9
  DEF RxStep, TaskStep, Poll, Check, ResizeRing, CopyOut, TakeChunk, StopDma, Serve,
      ring, history

LEMMA CopyStep ==
  ASSUME RxTypeOK, RingInv, SizingInv, CopyInv, RxStep, ~lapped'
  PROVE  CopyInv'
<1>. USE DEF At
<1>1. /\ rp \in Index /\ rp \in Nat /\ stored \in Nat /\ fetched \in Nat
      /\ Waits \in 0 .. BufSize - 1 /\ during \in Nat /\ readsize \in Nat /\ BufSize \in Nat
  BY DEF RxTypeOK, RingInv, Index
<1>2. CASE rxpc' \notin {"copy", "wipe"}
  BY <1>2 DEF CopyInv
<1>3. ASSUME rxpc \in {"sized", "resize"}
      PROVE  /\ ReadSize(rp, wp) <= Waits
             /\ ReadSize(rp, wp) <= AtMost(Waits - during, BufSize - rp) + 1
  <2>1. /\ during <= 1 /\ during <= Waits
        /\ \E n \in Waits - during .. Waits : wp = Advance(rp, n)
    BY <1>3 DEF SizingInv, Sizing
  <2>. PICK n \in Waits - during .. Waits : wp = Advance(rp, n)
    BY <2>1
  <2>2. n \in 0 .. BufSize - 1 /\ n <= Waits /\ n <= Waits - during + 1
    BY <1>1, <2>1
  <2>3. ReadSize(rp, wp) = IF n < BufSize - rp THEN n ELSE BufSize - rp
    BY <1>1, <2>2, ReadSizeIs
  <2>. QED  BY <1>1, <2>1, <2>2, <2>3 DEF AtMost
<1>4. CASE SizeRing
  <2>1. rxpc = "sized" /\ Waits' = Waits
    BY <1>4 DEF SizeRing, Waits, history
  <2>2. \/ rxpc' \in {"take", "resize"}
        \/ rxpc' = "copy" /\ readsize' = CacheSize /\ ReadSize(rp, wp) >= CacheSize
    BY <1>4 DEF SizeRing
  <2>3. ReadSize(rp, wp) \in Int /\ CacheSize \in Nat
    BY <1>1, ReadSizeFits DEF RxTypeOK
  <2>. QED  BY <1>1, <1>3, <2>1, <2>3, <2>2 DEF CopyInv
<1>5. CASE ResizeRing
  <2>1. AtMost(Waits - during, BufSize - rp) < CacheSize
    BY <1>5 DEF ResizeRing, SizingInv
  <2>2. /\ rxpc = "resize" /\ rxpc' = "copy" /\ readsize' = ReadSize(rp, wp)
        /\ Waits' = Waits
    BY <1>5 DEF ResizeRing, Waits, history
  <2>3. AtMost(Waits - during, BufSize - rp) \in Int
    BY <1>1 DEF AtMost
  <2>4. ReadSize(rp, wp) \in Int
    BY <1>1, ReadSizeFits DEF RxTypeOK
  <2>. QED  BY <1>1, <1>3, <2>1, <2>2, <2>3, <2>4 DEF CopyInv
<1>6. CASE CopyOut
  <2>1. /\ rxpc = "copy" /\ rxpc' = "wipe" /\ UNCHANGED <<readsize, fetched, stored>>
        /\ cache' = [i \in 1 .. readsize |-> slot[rp + i - 1]]
    BY <1>6 DEF CopyOut, locals, history
  <2>2. readsize <= CacheSize /\ readsize <= Waits /\ rp + readsize <= BufSize
    BY <2>1 DEF CopyInv, RxTypeOK
  <2>3. ASSUME NEW i \in 1 .. readsize
        PROVE  slot[rp + i - 1] = fetched + i
    <3>. DEFINE n == i - 1
    <3>1. n \in 0 .. Waits - 1 /\ n \in 0 .. BufSize /\ rp + n < BufSize
          /\ rp + i - 1 = rp + n /\ fetched + i = fetched + n + 1
      BY <1>1, <2>2
    <3>. HIDE DEF n
    <3>2. Advance(rp, n) = rp + n
      BY <1>1, <3>1, AdvanceIs
    <3>3. slot[Advance(rp, n)] = fetched + n + 1
      BY <3>1 DEF RingInv
    <3>. QED  BY <3>1, <3>2, <3>3
  <2>4. Len(cache') = readsize
    BY <1>1, <2>1
  <2>. QED  BY <2>1, <2>2, <2>3, <2>4 DEF CopyInv, Waits
<1>7. CASE DmaStore
  <2>1. Waits' = Waits + 1 /\ UNCHANGED <<readsize, fetched, rxpc, cache>>
    BY <1>1, <1>7 DEF DmaStore, Waits, lines
  <2>. QED  BY <1>1, <2>1 DEF CopyInv
<1>8. CASE LineError \/ DmaIsr
  BY <1>8 DEF LineError, DmaIsr, CopyInv, Waits, ring, locals, history, lines
<1>. QED
  BY <1>2, <1>4, <1>5, <1>6, <1>7, <1>8
  DEF RxStep, TaskStep, Poll, Check, ReadNdtr, SetWp, WipeRing, TakeChunk, StopDma,
      RestartDma, Serve

\* What readcache takes: the chunk leaves the cache, and joins the line.
Took(n, chunk) ==
  /\ Len(chunk) = n /\ cache = chunk \o cache'
  /\ ToSet(cache) = ToSet(chunk) \union ToSet(cache')
  /\ delivered' = delivered \o chunk
  /\ \A i \in 1 .. n - 1 : chunk[i] \notin NL
  /\ \/ n = 0 /\ rxpc' = "idle" /\ UNCHANGED <<line, request>>
     \/ /\ n > 0 /\ chunk[n] \notin NL
        /\ line' = line \o chunk /\ rxpc' = "check" /\ UNCHANGED request
     \/ /\ n > 0 /\ chunk[n] \in NL
        /\ request' = line \o chunk /\ line' = <<>> /\ rxpc' = "serve"

LEMMA TakeChunkIs ==
  ASSUME RxTypeOK, TakeChunk
  PROVE  /\ cache' \in Seq(Nat)
         /\ \E n \in Nat, chunk \in Seq(Nat) : Took(n, chunk)
<1>. PICK n \in 0 .. Len(cache) :
       LET chunk == SubSeq(cache, 1, n) IN
       /\ ChunkEnd(n)
       /\ cache' = SubSeq(cache, n + 1, Len(cache))
       /\ delivered' = delivered \o chunk
       /\ \/ /\ n = 0
             /\ rxpc' = "idle" /\ UNCHANGED <<line, request>>
          \/ /\ n > 0 /\ cache[n] \notin NL
             /\ line' = line \o chunk
             /\ rxpc' = "check" /\ UNCHANGED request
          \/ /\ n > 0 /\ cache[n] \in NL
             /\ request' = line \o chunk /\ line' = <<>>
             /\ rxpc' = "serve"
  BY DEF TakeChunk
<1>. DEFINE chunk == SubSeq(cache, 1, n)
<1>1. cache \in Seq(Nat)
  BY DEF RxTypeOK
<1>2. /\ chunk \in Seq(Nat) /\ cache' \in Seq(Nat) /\ Len(chunk) = n
      /\ \A i \in 1 .. n : chunk[i] = cache[i]
      /\ cache = chunk \o cache' /\ ToSet(cache) = ToSet(chunk) \union ToSet(cache')
  BY <1>1, SplitBytes
<1>3. n \in Nat /\ \A i \in 1 .. n - 1 : cache[i] \notin NL
  BY DEF ChunkEnd
<1>4. delivered' = delivered \o chunk
  OBVIOUS
<1>5. \/ n = 0 /\ rxpc' = "idle" /\ UNCHANGED <<line, request>>
      \/ /\ n > 0 /\ cache[n] \notin NL
         /\ line' = line \o chunk /\ rxpc' = "check" /\ UNCHANGED request
      \/ /\ n > 0 /\ cache[n] \in NL
         /\ request' = line \o chunk /\ line' = <<>> /\ rxpc' = "serve"
  OBVIOUS
<1>. HIDE DEF chunk
<1>6. n > 0 => chunk[n] = cache[n]
  BY <1>2, <1>3
<1>7. \A i \in 1 .. n - 1 : chunk[i] \notin NL
  BY <1>2, <1>3
<1>8. Took(n, chunk)
  BY ONLY <1>2, <1>4, <1>5, <1>6, <1>7 DEF Took
<1>. QED  BY <1>2, <1>3, <1>8

LEMMA OutStep ==
  ASSUME RxTypeOK, RingInv, CopyInv, CopyInv', OutInv, RxStep
  PROVE  OutInv'
<1>0. /\ cache \in Seq(Nat) /\ delivered \in Seq(Nat) /\ dropped \subseteq Nat
      /\ readsize \in Nat /\ fetched \in Nat /\ stored \in Nat /\ fetched <= stored
  BY DEF RxTypeOK, RingInv, Waits
<1>1. CASE /\ UNCHANGED <<dropped, fetched, delivered, cache>>
           /\ rxpc = "wipe" <=> rxpc' = "wipe"
  BY <1>1 DEF OutInv, Seen, Sorted
<1>2. CASE CopyOut
  <2>1. /\ UNCHANGED <<dropped, fetched, delivered, readsize>>
        /\ rxpc = "copy" /\ rxpc' = "wipe" /\ cache = <<>>
        /\ cache' \in Seq(Nat)
    BY <1>2, RxTypeStep DEF CopyOut, At, history, locals, RxTypeOK
  <2>2. Len(cache') = readsize /\ \A i \in 1 .. readsize : cache'[i] = fetched + i
    BY <2>1 DEF CopyInv
  <2>3. Seen = (1 .. fetched) \ dropped
    BY <2>1 DEF OutInv, ToSet
  <2>4. Sorted(cache')
    BY <1>0, <2>2 DEF Sorted
  <2>5. \A c \in ToSet(cache') : c > fetched
    <3>1. \A c \in ToSet(cache') : \E i \in 1 .. readsize : c = cache'[i]
      BY <2>1, <2>2, ToSetIs
    <3>. QED  BY <1>0, <2>2, <3>1
  <2>6. \A b \in Seen, c \in ToSet(cache') : b < c
    <3>1. ToSet(cache') \subseteq Nat
      BY <2>1, ToSetIs
    <3>. QED  BY <1>0, <2>3, <2>5, <3>1
  <2>. QED  BY <2>1, <2>3, <2>4, <2>6 DEF OutInv, Seen
<1>3. CASE WipeRing
  <2>1. /\ UNCHANGED <<dropped, delivered, cache>> /\ fetched' = fetched + readsize
        /\ rxpc = "wipe" /\ rxpc' = "take"
    BY <1>3 DEF WipeRing, At, lines
  <2>2. Len(cache) = readsize /\ \A i \in 1 .. readsize : cache[i] = fetched + i
    BY <2>1 DEF CopyInv
  <2>3. ToSet(cache) = fetched + 1 .. fetched + readsize
    <3>0. /\ \A c \in ToSet(cache) : \E i \in 1 .. Len(cache) : c = cache[i]
          /\ \A i \in 1 .. Len(cache) : cache[i] \in ToSet(cache)
      BY <1>0, ToSetIs
    <3>1. ASSUME NEW c \in ToSet(cache)
          PROVE  c \in fetched + 1 .. fetched + readsize
      <4>. PICK i \in 1 .. readsize : c = cache[i]
        BY ONLY <2>2, <3>0, <3>1
      <4>1. c = fetched + i
        BY <2>2
      <4>. QED  BY <1>0, <4>1
    <3>2. ASSUME NEW x \in fetched + 1 .. fetched + readsize
          PROVE  x \in ToSet(cache)
      <4>1. x - fetched \in 1 .. readsize /\ fetched + (x - fetched) = x
        BY <1>0
      <4>2. cache[x - fetched] = x
        BY <2>2, <4>1
      <4>. QED  BY <2>2, <3>0, <4>1, <4>2
    <3>. QED  BY <3>1, <3>2
  <2>4. Seen = (1 .. fetched) \ dropped /\ dropped \subseteq 1 .. fetched
    BY <2>1 DEF OutInv
  <2>5. Seen \union ToSet(cache) = (1 .. fetched + readsize) \ dropped
    BY <1>0, <2>3, <2>4
  <2>6. dropped \subseteq 1 .. fetched + readsize
    BY <1>0, <2>4
  <2>. QED  BY <2>1, <2>5, <2>6 DEF OutInv, Seen, Sorted
<1>4. CASE TakeChunk
  <2>1. cache' \in Seq(Nat)
    BY <1>4, TakeChunkIs
  <2>. PICK n \in Nat, chunk \in Seq(Nat) : Took(n, chunk)
    BY <1>4, TakeChunkIs
  <2>2. UNCHANGED <<dropped, fetched>> /\ rxpc = "take" /\ rxpc' # "wipe"
    BY <1>4 DEF TakeChunk, At, history, Took
  <2>3. /\ cache = chunk \o cache' /\ delivered' = delivered \o chunk
        /\ ToSet(cache) = ToSet(chunk) \union ToSet(cache')
    BY DEF Took
  <2>4. /\ Sorted(chunk) /\ Sorted(cache')
        /\ \A x \in ToSet(chunk), y \in ToSet(cache') : x < y
    BY <2>1, <2>3, SortedConcat DEF OutInv
  <2>5. Seen' = Seen \union ToSet(chunk)
    BY <1>0, <2>3, ConcatBytes DEF Seen
  <2>6. \A b \in Seen, c \in ToSet(cache) : b < c
    BY DEF OutInv
  <2>7. Sorted(delivered')
    <3>1. \A x \in ToSet(delivered), y \in ToSet(chunk) : x < y
      BY <2>3, <2>6 DEF Seen
    <3>. QED  BY <1>0, <2>3, <2>4, <3>1, SortedConcat DEF OutInv
  <2>8. \A b \in Seen', c \in ToSet(cache)' : b < c
    BY <2>3, <2>4, <2>5, <2>6
  <2>9. Seen' \union ToSet(cache)' = (1 .. fetched) \ dropped
    BY <2>2, <2>3, <2>5 DEF OutInv
  <2>. QED  BY <2>2, <2>4, <2>7, <2>8, <2>9 DEF OutInv
<1>5. CASE RestartDma
  <2>1. /\ UNCHANGED <<delivered, cache>> /\ rxpc = "stopped" /\ rxpc' = "idle"
        /\ dropped' = dropped \union (fetched + 1 .. stored) /\ fetched' = stored
    BY <1>5 DEF RestartDma, At, lines
  <2>2. /\ Seen \union ToSet(cache) = (1 .. fetched) \ dropped
        /\ dropped \subseteq 1 .. fetched
    BY <2>1 DEF OutInv
  <2>3. (1 .. fetched) \ dropped = (1 .. stored) \ (dropped \union (fetched + 1 .. stored))
    BY <1>0, <2>2
  <2>4. dropped \union (fetched + 1 .. stored) \subseteq 1 .. stored
    BY <1>0, <2>2
  <2>. QED  BY <2>1, <2>2, <2>3, <2>4 DEF OutInv, Seen, Sorted
<1>. QED
  BY <1>1, <1>2, <1>3, <1>4, <1>5
  DEF RxStep, TaskStep, Poll, Check, ReadNdtr, SetWp, SizeRing, ResizeRing, StopDma,
      Serve, DmaStore, LineError, DmaIsr, At, history, lines

\* The bytes of a chunk, C, in the order of things: they follow what came out
\* before and precede what stays in the cache; the newline, if any, is the last.
Chunk(C) ==
  /\ C \subseteq Nat /\ Seen' = Seen \union C
  /\ \A x \in C, y \in ToSet(cache') : x < y
  /\ \A b \in Seen, c \in C : b < c
  /\ Seen \union C \union ToSet(cache') = (1 .. fetched) \ dropped

Joins(C) ==
  /\ ToSet(line') = ToSet(line) \union C /\ NL \intersect C = {}
  /\ UNCHANGED request /\ rxpc' # "serve"

Completes(C, e) ==
  /\ e \in C /\ e \in NL /\ \A b \in C : b <= e /\ (b \in NL => b = e)
  /\ request' # <<>> /\ Last(request') = e
  /\ ToSet(request') = ToSet(line) \union C /\ line' = <<>> /\ rxpc' = "serve"

LEMMA ChunkIs ==
  ASSUME RxTypeOK, OutInv, TakeChunk
  PROVE  \E C : Chunk(C) /\ (Joins(C) \/ \E e : Completes(C, e))
<1>0. /\ cache \in Seq(Nat) /\ delivered \in Seq(Nat) /\ line \in Seq(Nat)
      /\ cache' \in Seq(Nat) /\ rxpc = "take"
  BY TakeChunkIs DEF RxTypeOK, TakeChunk, At
<1>. PICK n \in Nat, chunk \in Seq(Nat) : Took(n, chunk)
  BY TakeChunkIs
<1>. DEFINE C == ToSet(chunk)
<1>1. /\ Len(chunk) = n
      /\ cache = chunk \o cache' /\ delivered' = delivered \o chunk
      /\ ToSet(cache) = C \union ToSet(cache')
      /\ \A i \in 1 .. n - 1 : chunk[i] \notin NL
  BY DEF Took
<1>2. Sorted(chunk) /\ Chunk(C)
  <2>1. /\ Sorted(cache) /\ \A b \in Seen, c \in ToSet(cache) : b < c
        /\ Seen \union ToSet(cache) = (1 .. fetched) \ dropped
    BY <1>0 DEF OutInv
  <2>2. Sorted(chunk) /\ \A x \in C, y \in ToSet(cache') : x < y
    BY <1>0, <1>1, <2>1, SortedConcat
  <2>3. Seen' = Seen \union C
    BY <1>0, <1>1, ConcatBytes DEF Seen
  <2>4. C \subseteq Nat
    BY ToSetIs
  <2>. QED  BY <1>1, <2>1, <2>2, <2>3, <2>4 DEF Chunk
<1>3. /\ \A i \in 1 .. n : chunk[i] \in C /\ chunk[i] \in Nat
      /\ \A x \in C : \E i \in 1 .. n : x = chunk[i]
  BY <1>1, ToSetIs
<1>4. /\ ToSet(line \o chunk) = ToSet(line) \union C
      /\ n > 0 => line \o chunk # <<>> /\ Last(line \o chunk) = chunk[n]
  <2>1. /\ line \o chunk \in Seq(Nat) /\ Len(line \o chunk) = Len(line) + n
        /\ ToSet(line \o chunk) = ToSet(line) \union C
        /\ \A j \in 1 .. n : (line \o chunk)[Len(line) + j] = chunk[j]
    BY <1>0, <1>1, ConcatBytes
  <2>2. Len(line) \in Nat
    BY <1>0
  <2>. QED  BY <2>1, <2>2 DEF Last
<1>5. \A i \in 1 .. n : i \in 1 .. n - 1 \/ i = n
  OBVIOUS
<1>. HIDE DEF C
<1>6. CASE n = 0
  <2>1. C = {} /\ UNCHANGED <<line, request>> /\ rxpc' # "serve"
    BY <1>3, <1>6 DEF Took
  <2>. QED  BY <1>2, <2>1 DEF Joins
<1>7. CASE n > 0 /\ chunk[n] \notin NL
  <2>1. line' = line \o chunk /\ UNCHANGED request /\ rxpc' # "serve"
    BY <1>7 DEF Took
  <2>2. NL \intersect C = {}
    BY <1>1, <1>3, <1>5, <1>7
  <2>. QED  BY <1>2, <1>4, <2>1, <2>2 DEF Joins
<1>8. CASE n > 0 /\ chunk[n] \in NL
  <2>1. request' = line \o chunk /\ line' = <<>> /\ rxpc' = "serve"
    BY <1>8 DEF Took
  <2>2. n \in 1 .. n /\ \A i \in 1 .. n : i # n => chunk[i] < chunk[n]
    BY <1>1, <1>2, <1>5, <1>8 DEF Sorted
  <2>3. \A i \in 1 .. n : chunk[i] <= chunk[n]
    BY <1>3, <2>2
  <2>4. chunk[n] \in C /\ \A b \in C : b <= chunk[n] /\ (b \in NL => b = chunk[n])
    BY <1>1, <1>3, <1>5, <2>2, <2>3
  <2>5. Completes(C, chunk[n])
    BY <1>4, <1>8, <2>1, <2>4 DEF Completes
  <2>. QED  BY <1>2, <2>5
<1>. QED  BY <1>6, <1>7, <1>8

LEMMA LineStep ==
  ASSUME RxTypeOK, RingInv, OutInv, LineInv, RxStep
  PROVE  LineInv'
<1>0. /\ cache \in Seq(Nat) /\ delivered \in Seq(Nat) /\ dropped \subseteq Nat
      /\ line \in Seq(Nat) /\ request \in Seq(Nat)
      /\ fetched \in Nat /\ stored \in Nat /\ Seen \subseteq 1 .. fetched
  BY DEF RxTypeOK, OutInv
<1>1. CASE UNCHANGED <<dropped, delivered, line, request>>
  BY <1>1 DEF LineInv, Seen, Ends
<1>2. CASE TakeChunk
  <2>1. dropped' = dropped
    BY <1>2 DEF TakeChunk, history
  <2>2. PICK C : Chunk(C) /\ (Joins(C) \/ \E e : Completes(C, e))
    BY <1>2, ChunkIs
  <2>3. /\ \A x \in C, y \in ToSet(cache') : x < y
        /\ \A b \in Seen, c \in C : b < c
        /\ Seen \union C \union ToSet(cache') = (1 .. fetched) \ dropped
    BY <2>2 DEF Chunk
  <2>4. Seen' = Seen \union C /\ Ends' = Ends \union (NL \intersect C)
    BY <2>2 DEF Chunk, Ends
  <2>5. /\ \A b \in Seen \union C : b \in Nat /\ b >= 1 /\ b <= fetched /\ b \notin dropped
        /\ Ends = NL \intersect Seen
    BY <1>0, <2>3 DEF Ends
  <2>6. CASE Joins(C)
    <3>1. ToSet(line') = ToSet(line) \union C /\ UNCHANGED request
      BY <2>6 DEF Joins
    <3>2. Ends' = Ends /\ Seen' = Seen \union C
      BY <2>4, <2>6 DEF Joins
    <3>3. ToSet(line') = {b \in Seen' : \A k \in Ends' : k < b}
      <4>1. \A b \in C, k \in Ends : k < b
        BY <2>3, <2>5
      <4>2. ToSet(line) = {b \in Seen : \A k \in Ends : k < b}
        BY DEF LineInv
      <4>. QED  BY <3>1, <3>2, <4>1, <4>2
    <3>. QED  BY <2>1, <3>1, <3>2, <3>3 DEF LineInv
  <2>7. ASSUME NEW e, Completes(C, e)
         PROVE  LineInv'
    <3>1. line' = <<>> /\ dropped' = dropped /\ request' # <<>> /\ Last(request') = e
      BY <2>1, <2>7 DEF Completes
    <3>2. e \in C /\ e \in NL /\ \A b \in C : b <= e /\ (b \in NL => b = e)
      BY <2>7 DEF Completes
    <3>3. Ends' = Ends \union {e} /\ Seen' = Seen \union C
      BY <2>4, <3>2
    <3>4. e \in Nat /\ \A b \in Seen : b < e
      BY <2>3, <2>5, <3>2
    <3>5. ToSet(line') = {b \in Seen' : \A k \in Ends' : k < b}
      <4>1. ToSet(line') = {}
        BY <3>1 DEF ToSet
      <4>2. \A b \in Seen' : b \in Nat /\ b <= e
        BY <2>5, <3>2, <3>3, <3>4
      <4>3. \A b \in Seen' : ~(e < b)
        BY <3>4, <4>2
      <4>4. e \in Ends'
        BY <3>3
      <4>. QED  BY <4>1, <4>3, <4>4
    <3>6. e \in Ends' /\ \A k \in Ends' : k <= e
      BY <2>5, <3>3, <3>4
    <3>7. \E start \in Ends \union {0} :
             start < e /\ \A k \in Ends : k <= start
      <4>1. CASE request = <<>>
        <5>1. Ends = {} /\ 0 < e
          BY <2>5, <3>2, <4>1 DEF LineInv
        <5>. QED  BY <5>1
      <4>2. CASE request # <<>>
        <5>1. Last(request) \in Ends /\ \A k \in Ends : k <= Last(request)
          BY <4>2 DEF LineInv
        <5>2. Last(request) < e
          BY <2>5, <3>4, <5>1
        <5>. QED  BY <5>1, <5>2
      <4>. QED  BY <4>1, <4>2
    <3>. PICK start \in Ends \union {0} : start < e /\ \A k \in Ends : k <= start
      BY <3>7
    <3>8. start \in Nat /\ \A c \in C : start < c
      <4>1. CASE start = 0
        BY <2>5, <4>1
      <4>2. CASE start \in Ends
        BY <2>3, <2>5, <4>2
      <4>. QED  BY <4>1, <4>2
    <3>9. ToSet(request') = ToSet(line) \union C
      BY <2>7 DEF Completes
    <3>10. ASSUME NEW x \in ToSet(request')
           PROVE  x \in (start + 1 .. e) \ dropped
      <4>1. CASE x \in C
        BY <2>5, <3>2, <3>4, <3>8, <4>1
      <4>2. CASE x \in ToSet(line)
        <5>1. x \in Seen /\ \A k \in Ends : k < x
          BY <4>2 DEF LineInv
        <5>2. x \in Nat /\ x >= 1 /\ x < e /\ x \notin dropped
          BY <2>5, <3>4, <5>1
        <5>. QED  BY <3>4, <3>8, <5>1, <5>2
      <4>. QED  BY <3>9, <4>1, <4>2
    <3>11. ASSUME NEW x \in (start + 1 .. e) \ dropped
           PROVE  x \in ToSet(request')
      <4>0. x \in Nat /\ start < x /\ x <= e /\ x \notin dropped
        BY <3>4, <3>8
      <4>1. x \in (1 .. fetched) \ dropped
        <5>1. e <= fetched /\ e \in Nat
          BY <2>5, <3>2
        <5>. QED  BY <1>0, <3>8, <4>0, <5>1
      <4>2. CASE x \in C
        BY <3>9, <4>2
      <4>3. CASE x \in Seen
        <5>1. \A k \in Ends : k < x
          <6>1. \A k \in Ends : k \in Nat /\ k <= start
            BY <2>5
          <6>. QED  BY <3>8, <4>0, <6>1
        <5>2. x \in ToSet(line)
          BY <4>3, <5>1 DEF LineInv
        <5>. QED  BY <3>9, <5>2
      <4>4. CASE x \in ToSet(cache')
        <5>1. e < x
          BY <2>3, <3>2, <4>4
        <5>. QED  BY <3>4, <4>0, <5>1
      <4>. QED  BY <2>3, <4>1, <4>2, <4>3, <4>4
    <3>12. ToSet(request') = (start + 1 .. e) \ dropped
      BY <3>10, <3>11
    <3>13. \A k \in Ends' : k < e => k <= start
      BY <3>3, <3>4
    <3>14. start \in Ends' \union {0} /\ start < e
      BY <3>3
    <3>. QED  BY <3>1, <3>5, <3>6, <3>12, <3>13, <3>14 DEF LineInv
  <2>. QED  BY <2>2, <2>6, <2>7
<1>3. CASE RestartDma
  <2>1. /\ UNCHANGED <<delivered, line, request>>
        /\ dropped' = dropped \union (fetched + 1 .. stored)
    BY <1>3 DEF RestartDma, lines
  <2>2. Seen' = Seen /\ Ends' = Ends
    BY <2>1 DEF Seen, Ends
  <2>3. ASSUME request # <<>>
        PROVE  \E start \in Ends \union {0} :
                 /\ start < Last(request)
                 /\ \A k \in Ends : k < Last(request) => k <= start
                 /\ ToSet(request) = (start + 1 .. Last(request)) \ dropped'
    <3>1. Last(request) \in Ends /\ Last(request) \in 1 .. fetched
      BY <1>0, <2>3 DEF LineInv, Ends
    <3>. PICK start \in Ends \union {0} :
           /\ start < Last(request)
           /\ \A k \in Ends : k < Last(request) => k <= start
           /\ ToSet(request) = (start + 1 .. Last(request)) \ dropped
      BY <2>3 DEF LineInv
    <3>2. start \in Nat
      BY <1>0 DEF Ends
    <3>3. \A x \in start + 1 .. Last(request) : x \notin fetched + 1 .. stored
      BY <1>0, <3>1, <3>2
    <3>4. (start + 1 .. Last(request)) \ dropped = (start + 1 .. Last(request)) \ dropped'
      BY <2>1, <3>3
    <3>. QED  BY <3>4
  <2>. QED  BY <2>1, <2>2, <2>3 DEF LineInv
<1>. QED
  BY <1>1, <1>2, <1>3
  DEF RxStep, TaskStep, Poll, Check, ReadNdtr, SetWp, SizeRing, ResizeRing, CopyOut,
      WipeRing, StopDma, Serve, DmaStore, LineError, DmaIsr, history, lines

LEMMA RxInvStep ==
  ASSUME RxTypeOK, RxInv, RxStep, ~lapped'
  PROVE  RxInv'
<1>. USE DEF RxInv
<1>1. RingInv' /\ SizingInv'
  BY RingStep, SizingStep
<1>2. CopyInv'
  BY CopyStep
<1>3. OutInv' /\ LineInv'
  BY <1>2, OutStep, LineStep
<1>. QED  BY <1>1, <1>2, <1>3

\* Nobody takes back that the DMA lapped the reader.
LEMMA StaysLapped ==
  ASSUME RxTypeOK, RxStep, lapped
  PROVE  lapped'
<1>1. CASE DmaStore
  BY <1>1, Zenon DEF DmaStore
<1>. QED
  BY <1>1
  DEF RxStep, TaskStep, Poll, Check, ReadNdtr, SetWp, SizeRing, ResizeRing, CopyOut,
      WipeRing, TakeChunk, StopDma, RestartDma, Serve, LineError, DmaIsr, history

(***************************************************************************)
(* The answers.                                                            *)
(***************************************************************************)

AnswerType == [request : Seq(Nat) \ {<<>>}, first : Nat \ {0}, last : Nat]

AnswersTypeOK == answers \in Seq(AnswerType)

\* The next byte to leave, or to be accepted.
NextByte == Accepted - Pending + 1

\* Of an answer, bytes are lost up to its end; and what has left of an answer
\* that still goes on left in full.
Cut(a) ==
  /\ a.last <= written
  /\ \A b \in a.first .. a.last :
       b \notin ToSet(wire) /\ b < NextByte =>
         \A d \in b .. a.last : d \notin ToSet(wire)
  /\ NextByte \in a.first .. a.last => a.first .. NextByte - 1 \subseteq ToSet(wire)

CutInv == \A i \in 1 .. Len(answers) : Cut(answers[i])

LEMMA AppendBytes ==
  ASSUME NEW s \in Seq(Nat), NEW x \in Nat
  PROVE  ToSet(Append(s, x)) = ToSet(s) \union {x}
<1>. DEFINE u == Append(s, x)
<1>1. /\ u \in Seq(Nat) /\ Len(u) = Len(s) + 1 /\ Len(s) \in Nat
      /\ \A i \in 1 .. Len(s) : u[i] = s[i]
      /\ u[Len(s) + 1] = x
  OBVIOUS
<1>. HIDE DEF u
<1>2. /\ \A i \in 1 .. Len(u) : u[i] \in ToSet(u)
      /\ \A y \in ToSet(u) : \E i \in 1 .. Len(u) : y = u[i]
      /\ \A i \in 1 .. Len(s) : s[i] \in ToSet(s)
      /\ \A y \in ToSet(s) : \E i \in 1 .. Len(s) : y = s[i]
  BY <1>1, ToSetIs
<1>3. ASSUME NEW y \in ToSet(u)
      PROVE  y \in ToSet(s) \union {x}
  <2>1. PICK i \in 1 .. Len(u) : y = u[i]
    BY <1>2
  <2>2. i \in 1 .. Len(s) \/ i = Len(s) + 1
    BY <1>1
  <2>. QED  BY <1>1, <1>2, <2>1, <2>2
<1>4. ASSUME NEW y \in ToSet(s) \union {x}
      PROVE  y \in ToSet(u)
  <2>1. CASE y = x
    <3>1. Len(s) + 1 \in 1 .. Len(u)
      BY <1>1
    <3>. QED  BY <1>1, <1>2, <2>1, <3>1
  <2>2. CASE y \in ToSet(s)
    <3>1. PICK i \in 1 .. Len(s) : y = s[i]
      BY <1>2, <2>2
    <3>2. i \in 1 .. Len(u)
      BY <1>1
    <3>. QED  BY <1>1, <1>2, <3>1, <3>2
  <2>. QED  BY <2>1, <2>2
<1>. QED  BY <1>3, <1>4 DEF u

\* What the steps of the transmit half do to the byte that is next.
LEMMA NextByteSteady ==
  ASSUME TxInv, Fill \/ StartDma \/ DmaTcIsr \/ TxComplete \/ RestartRx
  PROVE  NextByte' = NextByte /\ wire' = wire /\ written' = written
<1>. USE DEF TxInv
<1>1. CASE Fill
  <2>. DEFINE size == IF BufSize - 1 < left THEN BufSize - 1 ELSE left
  <2>1. AtMost(WriteSize(0, 0), left) = size
    BY DEF AtMost, WriteSize, DataSpace
  <2>2. size \in 1 .. BufSize - 1 /\ size <= left /\ left \in Nat /\ 0 \in Index
    BY <1>1 DEF Fill, TxAt, TaskInv, TxTypeOK, Index
  <2>3. Advance(0, size) = size
    BY <2>2, AdvanceIs DEF Index
  <2>4. dmaleft = 0 /\ txpc = "fill"
    BY <1>1 DEF Fill, TxAt, RbEmpty, PieceInv, Sending, TxTypeOK
  <2>5. /\ txwp' = size /\ left' = left - size /\ txpc' = "start"
        /\ UNCHANGED <<written, wire>>
    BY <1>1, <2>1, <2>3 DEF Fill
  <2>. HIDE DEF size
  <2>6. written \in Nat
    BY DEF TxTypeOK
  <2>. QED  BY <2>2, <2>4, <2>5, <2>6 DEF NextByte, Accepted, Pending
<1>2. CASE StartDma
  <2>1. txrp = 0 /\ txwp \in 1 .. BufSize - 1 /\ hal \in Halted
    BY <1>2 DEF StartDma, TxAt, PieceInv, SendingInv, TxTypeOK, Index
  <2>2. ReadSize(txrp, txwp) = txwp
    BY <2>1, AdvanceIs, ReadSizeIs DEF Index
  <2>3. /\ dmaleft' = txwp /\ txpc = "start" /\ txpc' # "start"
        /\ UNCHANGED <<left, written, wire>>
    BY <1>2, <2>1, <2>2 DEF StartDma, TxAt
  <2>. QED  BY <2>3 DEF NextByte, Accepted, Pending
<1>3. CASE DmaTcIsr \/ TxComplete
  BY <1>3 DEF DmaTcIsr, TxComplete, txring, NextByte, Accepted, Pending
<1>4. CASE RestartRx
  BY <1>4 DEF RestartRx, TxAt, txring, txdma, NextByte, Accepted, Pending
<1>. QED  BY <1>1, <1>2, <1>3, <1>4

LEMMA DmaSendIs ==
  ASSUME TxInv, DmaSend
  PROVE  /\ wire' = Append(wire, NextByte) /\ NextByte' = NextByte + 1
         /\ written' = written
<1>1. /\ dmaleft > 0 /\ txpc # "start" /\ dmaptr + dmaleft = txwp /\ txpc' = txpc
      /\ Accepted' = Accepted /\ written' = written /\ dmaleft' = dmaleft - 1
      /\ wire' = Append(wire, txslot[dmaptr])
  BY DEF TxInv, SendingInv, PieceInv, Sending, TxTypeOK, Accepted, DmaSend
<1>2. /\ dmaptr \in 0 .. txwp - 1 /\ dmaleft \in Nat /\ Accepted \in Nat /\ txwp \in Nat
  BY <1>1 DEF TxInv, TxTypeOK, Accepted, Index
<1>3. txslot[dmaptr] = Accepted - txwp + dmaptr + 1
  BY <1>2 DEF TxInv, PieceInv
<1>4. txslot[dmaptr] = NextByte /\ NextByte' = NextByte + 1
  BY <1>1, <1>2, <1>3 DEF NextByte, Pending
<1>. QED  BY <1>1, <1>4

LEMMA NextByteIs ==
  ASSUME TxInv
  PROVE  NextByte \in Nat /\ NextByte <= written + 1 /\ NextByte >= 1
BY DEF TxInv, TxTypeOK, PieceInv, SendingInv, NextByte, Accepted, Pending, Index

\* A step of the system, as the transmit half and the answers see it.
AnswerStep(n) ==
  /\ Write(n)
  /\ answers' = Append(answers, [request |-> request, first |-> written + 1,
                                 last |-> written + n])

TxStep ==
  \/ /\ UNCHANGED answers
     /\ UNCHANGED txvars \/ Fill \/ StartDma \/ StopStreams \/ RestartRx \/ TxInterrupt
  \/ \E n \in 1 .. MaxAnswer : AnswerStep(n)

LEMMA CutStep ==
  ASSUME TxInv, AnswersTypeOK, CutInv, TxStep
  PROVE  CutInv'
<1>0. /\ written \in Nat /\ NextByte \in Nat /\ NextByte <= written + 1 /\ NextByte >= 1
      /\ \A i \in 1 .. Len(answers) : answers[i].first \in Nat /\ answers[i].last \in Nat
  <2>1. written \in Nat /\ NextByte \in Nat /\ NextByte <= written + 1 /\ NextByte >= 1
    BY NextByteIs DEF TxInv, TxTypeOK
  <2>2. \A i \in 1 .. Len(answers) : answers[i] \in AnswerType
    BY DEF AnswersTypeOK
  <2>3. \A a \in AnswerType : a.first \in Nat /\ a.last \in Nat
    BY DEF AnswerType
  <2>. QED  BY <2>1, <2>2, <2>3
<1>1. CASE UNCHANGED <<NextByte, wire, written, answers>>
  BY <1>1 DEF CutInv, Cut
<1>2. CASE UNCHANGED answers /\ DmaSend
  <2>1. ToSet(wire') = ToSet(wire) \union {NextByte}
    <3>1. wire \in Seq(Nat)
      BY DEF TxInv, TxTypeOK
    <3>. QED  BY <1>0, <1>2, <3>1, AppendBytes, DmaSendIs
  <2>2. NextByte' = NextByte + 1 /\ written' = written /\ answers' = answers
    BY <1>2, DmaSendIs
  <2>. SUFFICES ASSUME NEW i \in 1 .. Len(answers)
                PROVE  Cut(answers[i])'
    BY <2>2 DEF CutInv
  <2>. DEFINE f == answers[i].first  l == answers[i].last  W == ToSet(wire)  x == NextByte
  <2>3. f \in Nat /\ l \in Nat /\ x \in Nat /\ l <= written
    BY <1>0 DEF CutInv, Cut
  <2>4. /\ \A b \in f .. l : b \notin W /\ b < x => \A d \in b .. l : d \notin W
        /\ x \in f .. l => f .. x - 1 \subseteq W
    BY DEF CutInv, Cut
  <2>. HIDE DEF f, l, W, x
  <2>5. ASSUME NEW b \in f .. l, b \notin W \union {x}, b < x + 1,
               NEW d \in b .. l
        PROVE  d \notin W \union {x}
    <3>1. b \notin W /\ b < x /\ b \in Nat
      BY <2>3, <2>5
    <3>2. d \notin W
      BY <2>4, <2>5, <3>1
    <3>3. d # x
      <4>. SUFFICES ASSUME d = x
                    PROVE  FALSE
        OBVIOUS
      <4>1. x \in f .. l /\ b \in f .. x - 1
        BY <2>3, <2>5, <3>1
      <4>. QED  BY <2>4, <3>1, <4>1
    <3>. QED  BY <3>2, <3>3
  <2>6. ASSUME x + 1 \in f .. l
        PROVE  f .. x \subseteq W \union {x}
    <3>1. CASE x < f
      BY <2>3, <3>1
    <3>2. CASE f <= x
      <4>1. x \in f .. l
        BY <2>3, <2>6, <3>2
      <4>2. \A b \in f .. x : b \in f .. x - 1 \/ b = x
        BY <2>3
      <4>. QED  BY <2>4, <4>1, <4>2
    <3>. QED  BY <2>3, <3>1, <3>2
  <2>7. /\ f = answers'[i].first /\ l = answers'[i].last
        /\ ToSet(wire') = W \union {x} /\ NextByte' = x + 1 /\ NextByte' - 1 = x
    BY <2>1, <2>2, <2>3 DEF f, l, W, x
  <2>. QED  BY <2>2, <2>3, <2>5, <2>6, <2>7 DEF Cut
<1>3. CASE UNCHANGED answers /\ StopStreams
  <2>1. /\ NextByte' = written + 1 /\ NextByte' - 1 = written
        /\ UNCHANGED <<wire, written, answers>>
    <3>1. /\ left = 0 /\ left' = 0 /\ dmaleft' = 0 /\ txpc' # "start"
          /\ UNCHANGED <<wire, written, answers>>
      BY <1>3 DEF StopStreams, TxAt, TxInv, TaskInv
    <3>. QED  BY <1>0, <3>1 DEF NextByte, Accepted, Pending
  <2>. SUFFICES ASSUME NEW i \in 1 .. Len(answers)
                PROVE  Cut(answers[i])'
    BY <2>1 DEF CutInv
  <2>. DEFINE f == answers[i].first  l == answers[i].last  W == ToSet(wire)  x == NextByte
  <2>2. f \in Nat /\ l \in Nat /\ x \in Nat /\ l <= written /\ x <= written + 1
    BY <1>0 DEF CutInv, Cut
  <2>3. \A b \in f .. l : b \notin W /\ b < x => \A d \in b .. l : d \notin W
    BY DEF CutInv, Cut
  <2>4. \A b \in ToSet(wire) : b < NextByte
    <3>1. /\ wire \in Seq(Nat)
          /\ \A j \in 1 .. Len(wire) : wire[j] <= Accepted - Pending
      BY DEF TxInv, TxTypeOK, WireInv
    <3>2. \A j \in 1 .. Len(wire) : wire[j] \in Nat
      BY <3>1
    <3>3. Accepted - Pending \in Int
      BY DEF TxInv, TxTypeOK, Accepted, Pending, Index
    <3>4. \A j \in 1 .. Len(wire) : wire[j] < NextByte
      BY <3>1, <3>2, <3>3 DEF NextByte
    <3>. QED  BY <3>1, <3>4, ToSetIs
  <2>5. \A b \in W : b < x
    BY <2>4
  <2>. HIDE DEF f, l, W, x
  <2>6. ASSUME NEW b \in f .. l, b \notin W,
               NEW d \in b .. l
        PROVE  d \notin W
    <3>1. CASE b < x
      BY <2>3, <2>6, <3>1
    <3>2. CASE b >= x
      BY <2>2, <2>5, <3>2
    <3>. QED  BY <2>2, <3>1, <3>2
  <2>7. written + 1 \notin f .. l
    BY <1>0, <2>2
  <2>8. f = answers'[i].first /\ l = answers'[i].last /\ ToSet(wire') = W
    BY <2>1 DEF f, l, W
  <2>. QED  BY <2>1, <2>2, <2>6, <2>7, <2>8 DEF Cut
<1>4. ASSUME NEW n \in 1 .. MaxAnswer, AnswerStep(n)
      PROVE  CutInv'
  <2>. DEFINE a == [request |-> request, first |-> written + 1, last |-> written + n]
  <2>1. /\ written' = written + n /\ wire' = wire /\ NextByte' = NextByte
        /\ answers' = Append(answers, a)
    <3>1. /\ txpc = "idle" /\ txpc' = "fill" /\ left = 0 /\ left' = n
          /\ written' = written + n /\ UNCHANGED <<dmaleft, wire>>
      BY <1>4 DEF AnswerStep, Write, TxAt, txdma, TxInv, TaskInv
    <3>. QED  BY <1>0, <1>4, <3>1 DEF AnswerStep, NextByte, Accepted, Pending
  <2>2. /\ Len(answers') = Len(answers) + 1 /\ Len(answers) \in Nat
        /\ \A i \in 1 .. Len(answers) : answers'[i] = answers[i]
        /\ answers'[Len(answers) + 1] = a
    BY <2>1 DEF AnswersTypeOK
  <2>. SUFFICES ASSUME NEW i \in 1 .. Len(answers')
                PROVE  Cut(answers[i])'
    BY DEF CutInv
  <2>3. i \in 1 .. Len(answers) \/ i = Len(answers) + 1
    BY <2>2
  <2>4. CASE i \in 1 .. Len(answers)
    <3>1. Cut(answers[i]) /\ answers'[i] = answers[i]
      BY <2>2, <2>4 DEF CutInv
    <3>2. answers[i].last <= written + n
      BY <1>0, <2>4, <3>1 DEF Cut
    <3>. QED  BY <2>1, <3>1, <3>2 DEF Cut
  <2>5. CASE i = Len(answers) + 1
    <3>1. answers'[i].first = written + 1 /\ answers'[i].last = written + n
      BY <2>2, <2>5
    <3>2. \A b \in written + 1 .. written + n : ~(b < NextByte)
      BY <1>0
    <3>3. written + 1 .. NextByte - 1 = {}
      BY <1>0
    <3>. QED  BY <1>0, <2>1, <3>1, <3>2, <3>3 DEF Cut
  <2>. QED  BY <2>3, <2>4, <2>5
<1>5. CASE UNCHANGED answers /\ UNCHANGED txvars
  BY <1>1, <1>5 DEF txvars, txring, txdma, NextByte, Accepted, Pending
<1>6. CASE UNCHANGED answers /\ (Fill \/ StartDma \/ RestartRx \/ DmaTcIsr \/ TxComplete)
  BY <1>1, <1>6, NextByteSteady
<1>. QED  BY <1>2, <1>3, <1>4, <1>5, <1>6 DEF TxStep, TxInterrupt

EndOf(a) == Last(a.request)

\* The lines that are answered, in their order; the line that is being served
\* is the next.
AnsweredInv ==
  /\ \A i \in 1 .. Len(answers) : EndOf(answers[i]) \in Ends
  /\ \A i \in 1 .. Len(answers) - 1 : EndOf(answers[i]) < answers[i + 1].request[1]
  /\ rxpc = "serve" => \A i \in 1 .. Len(answers) : EndOf(answers[i]) < request[1]
  /\ \A k \in Ends :
       \/ rxpc = "serve" /\ k = Last(request)
       \/ Blank(k)
       \/ \E i \in 1 .. Len(answers) : EndOf(answers[i]) = k

\* A request is executed: it is answered, or it is nothing but a newline.
LEMMA AnswerIs ==
  ASSUME Answer
  PROVE  /\ rxpc = "serve" /\ rxpc' = "idle"
         /\ UNCHANGED <<cache, line, request, delivered, dropped, fetched, lapped>>
         /\ \/ Len(request) = 1 /\ UNCHANGED <<txvars, answers>>
            \/ \E n \in 1 .. MaxAnswer : AnswerStep(n)
BY DEF Answer, Serve, At, AnswerStep, lines, history

LEMMA AnswersTypeStep ==
  ASSUME TxTypeOK, RxTypeOK, AnswersTypeOK, rxpc = "serve",
         NEW n \in 1 .. MaxAnswer, AnswerStep(n)
  PROVE  AnswersTypeOK'
<1>. DEFINE a == [request |-> request, first |-> written + 1, last |-> written + n]
<1>1. request \in Seq(Nat) \ {<<>>} /\ written + 1 \in Nat \ {0} /\ written + n \in Nat
  BY DEF RxTypeOK, TxTypeOK
<1>2. a \in AnswerType
  BY <1>1 DEF AnswerType
<1>3. answers' = Append(answers, a)
  BY DEF AnswerStep
<1>. HIDE DEF a
<1>. QED  BY <1>2, <1>3 DEF AnswersTypeOK

LEMMA AnsweredStep ==
  ASSUME RxTypeOK, RxTypeOK', OutInv, LineInv, AnswersTypeOK, AnsweredInv
  PROVE  /\ /\ UNCHANGED <<delivered, request, answers>> /\ dropped \subseteq dropped'
            /\ rxpc = "serve" <=> rxpc' = "serve"
            => AnsweredInv'
         /\ TakeChunk /\ UNCHANGED answers => AnsweredInv'
         /\ Answer => AnsweredInv'
<1>0. NL \subseteq Nat /\ Seen \subseteq 1 .. fetched /\ fetched \in Nat
  BY DEF RxTypeOK, OutInv
<1>1. ASSUME UNCHANGED <<delivered, request, answers>>, dropped \subseteq dropped',
             rxpc = "serve" <=> rxpc' = "serve"
      PROVE  AnsweredInv'
  <2>1. Ends' = Ends
    BY <1>1 DEF Ends, Seen
  <2>2. \A k \in Ends : Blank(k) => Blank(k)'
    BY <1>1 DEF Blank
  <2>. QED  BY <1>1, <2>1, <2>2 DEF AnsweredInv
<1>2. ASSUME TakeChunk, UNCHANGED answers
      PROVE  AnsweredInv'
  <2>1. PICK C : Chunk(C) /\ (Joins(C) \/ \E e : Completes(C, e))
    BY <1>2, ChunkIs
  <2>2. rxpc = "take" /\ answers' = answers /\ \A k : Blank(k)' <=> Blank(k)
    BY <1>2 DEF TakeChunk, At, Blank, history
  <2>3. Ends' = Ends \union (NL \intersect C) /\ \A b \in Seen, c \in C : b < c
    BY <2>1 DEF Chunk, Ends
  <2>4. CASE Joins(C)
    <3>1. Ends' = Ends /\ request' = request /\ rxpc' # "serve"
      BY <2>3, <2>4 DEF Joins
    <3>. QED  BY <2>2, <3>1 DEF AnsweredInv
  <2>5. ASSUME NEW e, Completes(C, e)
        PROVE  AnsweredInv'
    <3>1. /\ rxpc' = "serve" /\ Last(request') = e /\ Ends' = Ends \union {e}
          /\ ToSet(request') = ToSet(line) \union C
      BY <2>3, <2>5 DEF Completes
    <3>2. \A k \in Ends, b \in ToSet(line) \union C : k < b
      BY <2>3 DEF LineInv, Ends
    <3>3. request'[1] \in ToSet(request')
      <4>1. request' \in Seq(Nat) /\ request' # <<>>
        BY <2>5 DEF RxTypeOK, Completes
      <4>2. 1 \in 1 .. Len(request')
        BY <4>1
      <4>. QED  BY <4>1, <4>2, ToSetIs
    <3>. QED  BY <2>2, <3>1, <3>2, <3>3 DEF AnsweredInv
  <2>. QED  BY <2>1, <2>4, <2>5
<1>3. ASSUME Answer
      PROVE  AnsweredInv'
  <2>1. /\ rxpc = "serve" /\ rxpc' = "idle" /\ request' = request /\ Ends' = Ends
        /\ \A k : Blank(k)' <=> Blank(k)
    BY <1>3, AnswerIs DEF Ends, Seen, Blank
  <2>2. request \in Seq(Nat) /\ request # <<>> /\ Last(request) \in Ends
    BY <2>1 DEF RxTypeOK, LineInv
  <2>3. CASE Len(request) = 1 /\ UNCHANGED answers
    <3>1. Blank(Last(request))
      <4>1. PICK start \in Ends \union {0} :
              /\ start < Last(request)
              /\ ToSet(request) = (start + 1 .. Last(request)) \ dropped
        BY <2>2 DEF LineInv
      <4>2. start \in Nat /\ Last(request) \in Nat /\ start \in NL \union {0}
        <5>1. Ends \subseteq NL /\ NL \subseteq Nat
          BY <1>0 DEF Ends
        <5>2. start \in NL \union {0}
          BY <4>1, <5>1
        <5>3. \A k \in NL \union {0} : k \in Nat
          BY <5>1
        <5>. QED  BY <2>2, <5>1, <5>2, <5>3
      <4>3. \A x \in ToSet(request) : x = Last(request)
        BY <2>2, <2>3, ToSetIs DEF Last
      <4>4. \A x \in start + 1 .. Last(request) - 1 :
               x \in start + 1 .. Last(request) /\ x # Last(request)
        BY <4>2
      <4>5. (start + 1 .. Last(request) - 1) \ dropped = {}
        BY <4>1, <4>3, <4>4
      <4>. QED  BY <4>1, <4>2, <4>5 DEF Blank
    <3>2. /\ \A i \in 1 .. Len(answers) : EndOf(answers[i]) \in Ends
          /\ \A i \in 1 .. Len(answers) - 1 : EndOf(answers[i]) < answers[i + 1].request[1]
          /\ \A k \in Ends : Blank(k) \/ \E i \in 1 .. Len(answers) : EndOf(answers[i]) = k
      BY <3>1 DEF AnsweredInv
    <3>. QED  BY <2>1, <2>3, <3>2 DEF AnsweredInv
  <2>4. ASSUME NEW n \in 1 .. MaxAnswer, AnswerStep(n)
        PROVE  AnsweredInv'
    <3>. DEFINE a == [request |-> request, first |-> written + 1, last |-> written + n]
                N == Len(answers)
    <3>1. /\ N \in Nat /\ Len(answers') = N + 1
          /\ \A i \in 1 .. N : answers'[i] = answers[i]
          /\ answers'[N + 1] = a
      BY <2>4 DEF AnswerStep, AnswersTypeOK
    <3>2. EndOf(a) = Last(request) /\ a.request = request
      BY DEF EndOf
    <3>. HIDE DEF a, N
    <3>3. \A i \in 1 .. N + 1 : i \in 1 .. N \/ i = N + 1
      BY <3>1
    <3>4. /\ \A i \in 1 .. N : EndOf(answers[i]) \in Ends /\ EndOf(answers[i]) < request[1]
          /\ \A i \in 1 .. N - 1 : EndOf(answers[i]) < answers[i + 1].request[1]
          /\ \A k \in Ends : k = Last(request) \/ Blank(k)
                               \/ \E i \in 1 .. N : EndOf(answers[i]) = k
      BY <2>1 DEF AnsweredInv, N
    <3>5. \A i \in 1 .. N + 1 : EndOf(answers'[i]) \in Ends
      BY <2>2, <3>1, <3>2, <3>3, <3>4
    <3>6. ASSUME NEW i \in 1 .. N
          PROVE  EndOf(answers'[i]) < answers'[i + 1].request[1]
      <4>1. i \in 1 .. N - 1 \/ i = N
        BY <3>1
      <4>2. CASE i \in 1 .. N - 1
        <5>1. i + 1 \in 1 .. N
          BY <3>1, <4>2
        <5>. QED  BY <3>1, <3>4, <4>2, <5>1
      <4>3. CASE i = N
        BY <3>1, <3>2, <3>4, <4>3
      <4>. QED  BY <4>1, <4>2, <4>3
    <3>7. ASSUME NEW k \in Ends
          PROVE  Blank(k) \/ \E i \in 1 .. N + 1 : EndOf(answers'[i]) = k
      <4>1. N + 1 \in 1 .. N + 1 /\ \A i \in 1 .. N : i \in 1 .. N + 1
        BY <3>1
      <4>. QED  BY <3>1, <3>2, <3>4, <4>1
    <3>8. N + 1 - 1 = N
      BY <3>1
    <3>. QED  BY <2>1, <3>1, <3>5, <3>6, <3>7, <3>8 DEF AnsweredInv
  <2>. QED  BY <1>3, <2>3, <2>4, AnswerIs
<1>. QED  BY <1>1, <1>2, <1>3

(***************************************************************************)
(* The inductive invariant of the system.                                  *)
(***************************************************************************)

UartInv ==
  /\ TxInv /\ RxTypeOK /\ AnswersTypeOK /\ CutInv
  /\ rxpc = "stopped" => txpc = "stopped"
  /\ ~lapped => RxInv /\ AnsweredInv

\* A step of the system, half by half.
LEMMA StepIs ==
  ASSUME Next
  PROVE  /\ RxStep \/ UNCHANGED rxvars
         /\ TxStep
<1>1. CASE ReadStep
  BY <1>1 DEF ReadStep, Reading, RxStep, TaskStep, TxStep
<1>2. CASE RecoverStep
  BY <1>2 DEF RecoverStep, RxStep, TaskStep, TxStep
<1>3. CASE Answer
  BY <1>3, AnswerIs DEF Answer, RxStep, TaskStep, TxStep
<1>4. CASE WriteStep
  BY <1>4 DEF WriteStep, TxStep
<1>5. CASE RxHardware
  BY <1>5 DEF RxHardware, RxStep, TxStep
<1>6. CASE TxHardware
  BY <1>6 DEF TxHardware, TxStep
<1>. QED  BY <1>1, <1>2, <1>3, <1>4, <1>5, <1>6 DEF Next, Task

LEMMA TxInvStep ==
  ASSUME TxInv, TxStep
  PROVE  TxInv'
<1>1. CASE UNCHANGED txvars
  BY <1>1 DEF txvars, txring, txdma, TxInv, TxTypeOK, SendingInv, PieceInv, TaskInv,
              WireInv, Sending, Accepted, Pending
<1>2. ASSUME NEW n \in 1 .. MaxAnswer, AnswerStep(n)
      PROVE  TxInv'
  BY <1>2, WriteInv DEF AnswerStep
<1>. QED
  BY <1>1, <1>2, FillInv, StartDmaInv, TxInterruptInv, RecoveryTxInv DEF TxStep

LEMMA CouplingStep ==
  ASSUME rxpc = "stopped" => txpc = "stopped", Next
  PROVE  (rxpc = "stopped" => txpc = "stopped")'
<1>1. CASE ReadStep
  BY <1>1
  DEF ReadStep, Reading, Poll, Check, ReadNdtr, SetWp, SizeRing, ResizeRing, CopyOut,
      WipeRing, TakeChunk, At, txvars
<1>2. CASE RecoverStep
  BY <1>2 DEF RecoverStep, StopStreams, RestartDma
<1>3. CASE Answer
  BY <1>3, AnswerIs
<1>4. CASE WriteStep
  BY <1>4 DEF WriteStep, Fill, StartDma, TxAt, rxvars
<1>5. CASE RxHardware
  BY <1>5 DEF RxHardware, DmaStore, LineError, DmaIsr, txvars
<1>6. CASE TxHardware
  BY <1>6 DEF TxHardware, TxInterrupt, DmaSend, DmaTcIsr, TxComplete, rxvars
<1>. QED  BY <1>1, <1>2, <1>3, <1>4, <1>5, <1>6 DEF Next, Task

\* A step of the system, as the answered lines see it.
LEMMA AnsweredView ==
  ASSUME Next
  PROVE  \/ /\ UNCHANGED <<delivered, request, answers>>
            /\ dropped \subseteq dropped'
            /\ rxpc = "serve" <=> rxpc' = "serve"
         \/ TakeChunk /\ UNCHANGED answers
         \/ Answer
<1>1. CASE ReadStep
  BY <1>1
  DEF ReadStep, Reading, Poll, Check, ReadNdtr, SetWp, SizeRing, ResizeRing, CopyOut,
      WipeRing, At, lines, history
<1>2. CASE RecoverStep
  BY <1>2 DEF RecoverStep, StopDma, RestartDma, At, lines, history
<1>3. CASE Answer
  BY <1>3
<1>4. CASE WriteStep
  BY <1>4 DEF WriteStep, rxvars, lines, history
<1>5. CASE RxHardware
  BY <1>5 DEF RxHardware, DmaStore, LineError, DmaIsr, lines, history
<1>6. CASE TxHardware
  BY <1>6 DEF TxHardware, rxvars, lines, history
<1>. QED  BY <1>1, <1>2, <1>3, <1>4, <1>5, <1>6 DEF Next, Task

LEMMA UartInit == Init => UartInv
<1>. SUFFICES ASSUME Init
              PROVE  UartInv
  OBVIOUS
<1>1. RxTypeOK /\ RxInv /\ TxInv
  BY RxInitInv, TxInitInv DEF Init
<1>2. rxpc # "stopped" /\ answers = <<>> /\ delivered = <<>> /\ rxpc # "serve"
  BY DEF Init, RxInit
<1>3. AnswersTypeOK /\ CutInv
  BY <1>2 DEF AnswersTypeOK, CutInv
<1>4. AnsweredInv
  <2>1. Ends = {}
    BY <1>2 DEF Ends, Seen, ToSet
  <2>. QED  BY <1>2, <2>1 DEF AnsweredInv
<1>. QED  BY <1>1, <1>2, <1>3, <1>4 DEF UartInv

LEMMA UartStep == UartInv /\ [Next]_vars => UartInv'
<1>. SUFFICES ASSUME UartInv, [Next]_vars
              PROVE  UartInv'
  OBVIOUS
<1>. USE DEF UartInv
<1>1. CASE Next
  <2>1. (RxStep \/ UNCHANGED rxvars) /\ TxStep
    BY <1>1, StepIs
  <2>2. TxInv' /\ CutInv'
    BY <2>1, TxInvStep, CutStep
  <2>3. RxTypeOK'
    <3>1. CASE UNCHANGED rxvars
      BY <3>1 DEF RxTypeOK, rxvars, ring, lines, locals, history
    <3>. QED  BY <2>1, <3>1, RxTypeStep
  <2>4. AnswersTypeOK'
    <3>1. CASE UNCHANGED answers
      BY <3>1 DEF AnswersTypeOK
    <3>2. ASSUME NEW n \in 1 .. MaxAnswer, AnswerStep(n)
          PROVE  AnswersTypeOK'
      <4>1. rxpc = "serve"
        <5>1. written' # written
          BY <3>2 DEF AnswerStep, Write, TxInv, TxTypeOK
        <5>. QED
          BY <1>1, <5>1, AnswerIs
          DEF Next, Task, ReadStep, Reading, RecoverStep, StopStreams, RestartRx, WriteStep,
              Fill, StartDma, RxHardware, TxHardware, TxInterrupt, DmaSend, DmaTcIsr,
              TxComplete, txvars
      <4>. QED  BY <3>2, <4>1, AnswersTypeStep DEF TxInv
    <3>. QED  BY <2>1, <3>1, <3>2 DEF TxStep
  <2>5. (rxpc = "stopped" => txpc = "stopped")'
    BY <1>1, CouplingStep
  <2>6. ASSUME ~lapped'
        PROVE  RxInv' /\ AnsweredInv'
    <3>1. CASE UNCHANGED rxvars
      <4>1. ~lapped /\ RxInv'
        BY <2>6, <3>1
        DEF RxInv, RingInv, SizingInv, Sizing, CopyInv, OutInv, LineInv, Sorted, Waits,
            DmaPos, Seen, Ends, rxvars, ring, lines, locals, history
      <4>2. AnsweredInv'
        BY <1>1, <4>1, AnsweredView, AnsweredStep, <2>3 DEF RxInv
      <4>. QED  BY <4>1, <4>2
    <3>2. CASE RxStep
      <4>1. ~lapped
        BY <2>6, <3>2, StaysLapped
      <4>2. RxInv'
        BY <2>6, <3>2, <4>1, RxInvStep
      <4>3. AnsweredInv'
        BY <1>1, <2>3, <4>1, AnsweredView, AnsweredStep DEF RxInv
      <4>. QED  BY <4>2, <4>3
    <3>. QED  BY <2>1, <3>1, <3>2
  <2>. QED  BY <2>2, <2>3, <2>4, <2>5, <2>6
<1>2. CASE UNCHANGED vars
  <2>1. UNCHANGED rxvars /\ UNCHANGED txvars /\ UNCHANGED answers
    BY <1>2 DEF vars
  <2>2. TxInv' /\ CutInv'
    BY <2>1, TxInvStep, CutStep DEF TxStep
  <2>3. RxTypeOK' /\ AnswersTypeOK' /\ (rxpc = "stopped" => txpc = "stopped")'
    BY <2>1 DEF RxTypeOK, AnswersTypeOK, rxvars, ring, lines, locals, history, txvars
  <2>4. lapped' = lapped /\ (RxInv => RxInv')
    BY <2>1
    DEF RxInv, RingInv, SizingInv, Sizing, CopyInv, OutInv, LineInv, Sorted, Waits,
        DmaPos, Seen, Ends, rxvars, ring, lines, locals, history
  <2>5. AnsweredInv => AnsweredInv'
    BY <2>1 DEF AnsweredInv, Ends, Seen, Blank, rxvars, lines, history
  <2>. QED  BY <2>2, <2>3, <2>4, <2>5
<1>. QED  BY <1>1, <1>2

THEOREM UartInvariant == Spec => []UartInv
<1>. QED  BY UartInit, UartStep, PTL DEF Spec

(***************************************************************************)
(* The properties of the runs.                                             *)
(***************************************************************************)

\* The bytes on the wire are the bytes written, in order, and without a gap
\* as long as no recovery of the receive side aborts a transmission.
THEOREM WireKeepsOrder == Spec => []WireInOrder
<1>1. UartInv => WireInOrder
  BY DEF UartInv, TxInv, WireInv, WireInOrder
<1>. QED  BY <1>1, UartInvariant, PTL

\* HAL_UART_Receive_DMA always finds the handle free.
THEOREM ReceiverAlwaysRestarts == Spec => []ReceiverRestarts
<1>1. UartInv => ReceiverRestarts
  BY DEF UartInv, TxInv, TaskInv, ReceiverRestarts
<1>. QED  BY <1>1, UartInvariant, PTL

\* A recovery cuts an answer at its end and nowhere else.
THEOREM AnswersCutAtTheEnd == Spec => []CutAtTheEnd
<1>1. ASSUME UartInv
      PROVE  CutAtTheEnd
  <2>. DEFINE W == ToSet(wire)
  <2>. SUFFICES ASSUME NEW i \in 1 .. Len(answers),
                       NEW b \in answers[i].first .. answers[i].last, b \notin W,
                       NEW c \in W, c > b
                PROVE  /\ aborted
                       /\ answers[i].last \in answers[i].first .. answers[i].last
                       /\ answers[i].last \notin W /\ \E d \in W : d > answers[i].last
    BY DEF CutAtTheEnd
  <2>. DEFINE f == answers[i].first  l == answers[i].last
  <2>1. f \in Nat /\ f >= 1 /\ l \in Nat
    <3>1. answers[i] \in AnswerType
      BY <1>1 DEF UartInv, AnswersTypeOK
    <3>. QED  BY <3>1 DEF AnswerType
  <2>2. b \notin W /\ b < NextByte => \A d \in b .. l : d \notin W
    BY <1>1 DEF UartInv, CutInv, Cut
  <2>3. /\ wire \in Seq(Nat) /\ Accepted - Pending \in Int
        /\ \A j \in 1 .. Len(wire) : wire[j] <= Accepted - Pending
        /\ ~aborted => Len(wire) = Accepted - Pending /\ \A j \in 1 .. Len(wire) : wire[j] = j
    BY <1>1 DEF UartInv, TxInv, TxTypeOK, WireInv, Accepted, Pending, Index
  <2>4. PICK j \in 1 .. Len(wire) : c = wire[j]
    BY <2>3, ToSetIs
  <2>5. c \in Nat /\ c < NextByte /\ b \in Nat /\ b < NextByte
    <3>1. c \in Nat /\ c <= Accepted - Pending
      BY <2>3, <2>4
    <3>2. b \in Nat
      BY <2>1
    <3>. QED  BY <2>3, <3>1, <3>2 DEF NextByte
  <2>. HIDE DEF f, l
  <2>6. \A d \in b .. l : d \notin W
    BY <2>2, <2>5
  <2>7. c > l /\ l \in f .. l /\ l \in b .. l
    <3>1. b \in f .. l /\ c \notin b .. l
      BY <2>6 DEF f, l
    <3>. QED  BY <2>1, <2>5, <3>1
  <2>8. aborted
    <3>. SUFFICES ASSUME ~aborted
                  PROVE  FALSE
      OBVIOUS
    <3>1. c = j /\ Len(wire) \in Nat
      BY <2>3, <2>4
    <3>2. b \in 1 .. Len(wire) /\ wire[b] = b
      <4>1. b >= 1
        BY <2>1 DEF f
      <4>. QED  BY <2>3, <2>4, <2>5, <3>1, <4>1
    <3>. QED  BY <2>3, <3>2, ToSetIs
  <2>. QED  BY <2>6, <2>7, <2>8 DEF f, l
<1>. QED  BY <1>1, UartInvariant, PTL

\* memcpy in UART::receive stays inside cache_.
THEOREM CacheNeverOverflows == Spec => []CacheFits
<1>1. UartInv => CacheFits
  BY DEF UartInv, RxInv, CopyInv, CacheFits
<1>. QED  BY <1>1, UartInvariant, PTL

\* UART::receive copies the bytes in the order of their arrival, without a gap
\* and without a byte the DMA has not stored yet.
THEOREM BytesCopiedInOrder == Spec => []CopiesInOrder
<1>1. ASSUME UartInv, ~lapped, rxpc = "wipe", NEW i \in 1 .. readsize
      PROVE  cache[i] = fetched + i /\ cache[i] <= stored
  <2>1. /\ readsize <= Waits /\ cache[i] = fetched + i
        /\ readsize \in Nat /\ fetched \in Nat /\ stored \in Nat
    BY <1>1 DEF UartInv, RxInv, CopyInv, RxTypeOK
  <2>. QED  BY <2>1 DEF Waits
<1>2. UartInv => CopiesInOrder
  BY <1>1 DEF CopiesInOrder
<1>. QED  BY <1>2, UartInvariant, PTL

\* What UART::read has handed out and what the cache holds is what the DMA
\* stored, in order, less what the error recovery threw away.
THEOREM NoByteLost == Spec => []NothingLost
<1>1. ASSUME UartInv, ~lapped, rxpc # "wipe"
      PROVE  LET out == delivered \o cache IN
             /\ \A i \in 1 .. Len(out) - 1 : out[i] < out[i + 1]
             /\ ToSet(out) = (1 .. fetched) \ dropped
  <2>1. delivered \in Seq(Nat) /\ cache \in Seq(Nat) /\ OutInv
    BY <1>1 DEF UartInv, RxTypeOK, RxInv
  <2>. DEFINE out == delivered \o cache
  <2>2. Sorted(out)
    BY <2>1, SortedConcat DEF OutInv, Seen
  <2>3. ToSet(out) = (1 .. fetched) \ dropped
    BY <1>1, <2>1, ConcatBytes DEF OutInv, Seen
  <2>4. Len(out) \in Nat
    BY <2>1
  <2>. HIDE DEF out
  <2>5. \A i \in 1 .. Len(out) - 1 : out[i] < out[i + 1]
    <3>1. \A i \in 1 .. Len(out) - 1 :
            i \in 1 .. Len(out) /\ i + 1 \in 1 .. Len(out) /\ i < i + 1
      BY <2>4
    <3>. QED  BY <2>2, <3>1 DEF Sorted
  <2>. QED  BY <2>3, <2>5 DEF out
<1>2. UartInv => NothingLost
  BY <1>1 DEF NothingLost
<1>. QED  BY <1>2, UartInvariant, PTL

\* A request is one line of what was received, from the newline before it.
THEOREM RequestIsOneLine == Spec => []OneLinePerRequest
<1>1. ASSUME UartInv, ~lapped, request # <<>>
      PROVE  LET last  == Last(request)
                 earlier == {k \in NL : k < last /\ k \notin dropped}
                 start == IF earlier = {} THEN 0
                          ELSE CHOOSE k \in earlier : \A j \in earlier : j <= k
             IN  /\ last \in NL
                 /\ ToSet(request) = (start + 1 .. last) \ dropped
  <2>. DEFINE last == Last(request)
              earlier == {k \in NL : k < last /\ k \notin dropped}
              start == IF earlier = {} THEN 0
                       ELSE CHOOSE k \in earlier : \A j \in earlier : j <= k
  <2>1. RxTypeOK /\ OutInv /\ LineInv
    BY <1>1 DEF UartInv, RxInv
  <2>2. /\ NL \subseteq Nat \ {0} /\ Seen \subseteq 1 .. fetched /\ fetched \in Nat
        /\ \A b \in Seen : b \notin dropped
    BY <2>1 DEF RxTypeOK, OutInv
  <2>3. last \in Ends /\ last \in NL /\ last \in Seen
    BY <1>1, <2>1 DEF LineInv, Ends
  <2>4. PICK s \in Ends \union {0} :
          /\ s < last
          /\ \A k \in Ends : k < last => k <= s
          /\ ToSet(request) = (s + 1 .. last) \ dropped
    BY <1>1, <2>1 DEF LineInv
  <2>. HIDE DEF last
  <2>5. earlier = {k \in Ends : k < last}
    <3>1. ASSUME NEW k \in NL, k < last, k \notin dropped
          PROVE  k \in Seen
      <4>1. k \in (1 .. fetched) \ dropped
        BY <2>2, <2>3, <3>1
      <4>2. k \notin ToSet(cache) \/ rxpc = "wipe"
        <5>1. \A c \in ToSet(cache) : last < c
          BY <2>1, <2>3 DEF OutInv
        <5>2. ~(last < k)
          BY <2>2, <2>3, <3>1
        <5>. QED  BY <5>1, <5>2
      <4>. QED  BY <2>1, <4>1, <4>2 DEF OutInv
    <3>. QED  BY <2>2, <3>1 DEF Ends
  <2>6. s \in Nat /\ (s # 0 => s \in earlier) /\ \A k \in earlier : k <= s
    <3>1. Ends \subseteq Nat
      BY <2>2 DEF Ends
    <3>. QED  BY <2>4, <2>5, <3>1
  <2>7. start = s
    <3>1. \A k \in earlier : k \in Nat /\ k # 0
      BY <2>2
    <3>. HIDE DEF earlier
    <3>2. CASE earlier = {}
      BY <2>6, <3>2
    <3>3. CASE earlier # {}
      <4>1. s \in earlier
        BY <2>6, <3>1, <3>3
      <4>2. \A k \in earlier : (\A j \in earlier : j <= k) <=> k = s
        BY <2>6, <3>1, <4>1
      <4>3. (CHOOSE k \in earlier : \A j \in earlier : j <= k) = s
        BY <4>1, <4>2
      <4>. QED  BY <3>3, <4>3
    <3>. QED  BY <3>2, <3>3
  <2>. HIDE DEF start
  <2>8. ToSet(request) = (start + 1 .. last) \ dropped
    BY <2>4, <2>7
  <2>. QED  BY <2>3, <2>8 DEF start, last
<1>2. UartInv => OneLinePerRequest
  BY <1>1 DEF OneLinePerRequest
<1>. QED  BY <1>2, UartInvariant, PTL

\* Every line that is not blank is answered exactly once, in the order of the
\* lines.
THEOREM EveryLineAnswered == Spec => []OneAnswerPerLine
<1>1. ASSUME UartInv
      PROVE  OneAnswerPerLine
  <2>1. ~lapped => AnsweredInv
    BY <1>1 DEF UartInv
  <2>. QED  BY <2>1 DEF OneAnswerPerLine, AnsweredInv, EndOf, Ends, Seen
<1>. QED  BY <1>1, UartInvariant, PTL

(***************************************************************************)
(* The refinement of ByteFifo.                                             *)
(***************************************************************************)

\* Slots that hold consecutive bytes, as a queue.
LEMMA SlotsAreQueue ==
  ASSUME NEW s, NEW p, NEW w \in Nat, NEW f \in Nat,
         \A n \in 0 .. w - 1 : s[Advance(p, n)] = f + n + 1
  PROVE  [i \in 1 .. w |-> s[Advance(p, i - 1)]] = [i \in 1 .. w |-> f + i]
<1>1. ASSUME NEW i \in 1 .. w
      PROVE  s[Advance(p, i - 1)] = f + i
  <2>1. i - 1 \in 0 .. w - 1 /\ f + (i - 1) + 1 = f + i
    OBVIOUS
  <2>. QED  BY <2>1
<1>. QED  BY <1>1

LEMMA WaitingIs ==
  ASSUME RxTypeOK, RingInv
  PROVE  Waiting = [i \in 1 .. Waits |-> fetched + i]
<1>1. fetched \in Nat
  BY DEF RxTypeOK
<1>2. Waits \in Nat /\ \A n \in 0 .. Waits - 1 : slot[Advance(rp, n)] = fetched + n + 1
  BY DEF RingInv
<1>3. Waiting = [i \in 1 .. Waits |-> slot[Advance(rp, i - 1)]]
  BY DEF Waiting, Waits
<1>. QED  BY <1>1, <1>2, <1>3, SlotsAreQueue

LEMMA WaitingNext ==
  ASSUME RxTypeOK', RingInv'
  PROVE  Waiting' = [i \in 1 .. Waits' |-> fetched' + i]
<1>1. fetched' \in Nat
  BY DEF RxTypeOK
<1>2. Waits' \in Nat
  BY DEF RingInv
<1>3. \A n \in 0 .. Waits' - 1 : slot'[Advance(rp', n)] = fetched' + n + 1
  BY DEF RingInv
<1>4. Waiting' = [i \in 1 .. Waits' |-> slot'[Advance(rp', i - 1)]]
  BY DEF Waiting, Waits
<1>. DEFINE s == slot'  p == rp'  w == Waits'  f == fetched'
<1>5. w \in Nat /\ f \in Nat /\ \A n \in 0 .. w - 1 : s[Advance(p, n)] = f + n + 1
  BY <1>1, <1>2, <1>3
<1>. HIDE DEF s, p, w, f
<1>6. [i \in 1 .. w |-> s[Advance(p, i - 1)]] = [i \in 1 .. w |-> f + i]
  BY <1>5, SlotsAreQueue
<1>. QED  BY <1>4, <1>6 DEF s, p, w, f

\* Two queues of consecutive bytes.
LEMMA ConsecutiveBytes ==
  ASSUME NEW f \in Nat, NEW n \in Nat
  PROVE  LET q == [i \in 1 .. n |-> f + i] IN
         /\ q \in Seq(Nat) /\ Len(q) = n
         /\ Append(q, f + n + 1) = [i \in 1 .. n + 1 |-> f + i]
         /\ \A k \in 0 .. n :
              /\ SubSeq(q, 1, k) = [i \in 1 .. k |-> f + i]
              /\ SubSeq(q, k + 1, Len(q)) = [i \in 1 .. n - k |-> f + k + i]
<1>. DEFINE q == [i \in 1 .. n |-> f + i]
<1>1. q \in Seq(Nat) /\ Len(q) = n /\ \A i \in 1 .. n : q[i] = f + i
  OBVIOUS
<1>. HIDE DEF q
<1>2. Append(q, f + n + 1) = [i \in 1 .. n + 1 |-> f + i]
  <2>. DEFINE u == Append(q, f + n + 1)  v == [i \in 1 .. n + 1 |-> f + i]
  <2>1. u \in Seq(Nat) /\ Len(u) = n + 1 /\ u[n + 1] = f + n + 1
        /\ \A i \in 1 .. n : u[i] = q[i]
    BY <1>1
  <2>2. v \in Seq(Nat) /\ Len(v) = n + 1 /\ \A i \in 1 .. n + 1 : v[i] = f + i
    OBVIOUS
  <2>. HIDE DEF u, v
  <2>3. \A i \in 1 .. n + 1 : i \in 1 .. n \/ i = n + 1
    OBVIOUS
  <2>4. f + (n + 1) = f + n + 1
    OBVIOUS
  <2>5. \A i \in 1 .. n + 1 : u[i] = v[i]
    BY <1>1, <2>1, <2>2, <2>3, <2>4
  <2>6. u = v
    BY <2>1, <2>2, <2>5, SeqEqual
  <2>. QED  BY <2>6 DEF u, v
<1>3. ASSUME NEW k \in 0 .. n
      PROVE  /\ SubSeq(q, 1, k) = [i \in 1 .. k |-> f + i]
             /\ SubSeq(q, k + 1, Len(q)) = [i \in 1 .. n - k |-> f + k + i]
  <2>. DEFINE c == SubSeq(q, 1, k)  r == SubSeq(q, k + 1, Len(q))
              v == [i \in 1 .. k |-> f + i]  w == [i \in 1 .. n - k |-> f + k + i]
  <2>1. /\ c \in Seq(Nat) /\ r \in Seq(Nat) /\ Len(c) = k /\ Len(r) = n - k
        /\ \A i \in 1 .. k : c[i] = q[i]
        /\ \A i \in 1 .. n - k : r[i] = q[k + i]
    BY <1>1, SplitBytes
  <2>2. /\ v \in Seq(Nat) /\ Len(v) = k /\ \A i \in 1 .. k : v[i] = f + i
        /\ w \in Seq(Nat) /\ Len(w) = n - k /\ \A i \in 1 .. n - k : w[i] = f + k + i
    OBVIOUS
  <2>. HIDE DEF c, r, v, w
  <2>3. \A i \in 1 .. k : c[i] = v[i]
    BY <1>1, <2>1, <2>2
  <2>4. ASSUME NEW i \in 1 .. n - k
        PROVE  r[i] = w[i]
    <3>1. k + i \in 1 .. n /\ f + (k + i) = f + k + i
      OBVIOUS
    <3>. QED  BY <1>1, <2>1, <2>2, <3>1
  <2>5. c = v /\ r = w
    BY <2>1, <2>2, <2>3, <2>4, SeqEqual
  <2>. QED  BY <2>5 DEF c, r, v, w
<1>. QED  BY <1>1, <1>2, <1>3 DEF q

LEMMA FifoInit == Init => Fifo!Init
<1>. SUFFICES ASSUME Init
              PROVE  Fifo!Init
  OBVIOUS
<1>1. /\ delivered = <<>> /\ cache = <<>> /\ stored = 0 /\ fetched = 0 /\ lapped = FALSE
      /\ rxpc = "idle"
  BY DEF Init, RxInit
<1>2. Waiting = <<>>
  BY <1>1 DEF Waiting
<1>. QED  BY <1>1, <1>2 DEF Fifo!Init

\* As long as nobody laps the reader, a step of the receive half is a step of
\* the queue, or none.
LEMMA FifoRxStep ==
  ASSUME RxTypeOK, RxTypeOK', RxInv, RxInv', RxStep, ~lapped, ~lapped'
  PROVE  Fifo!Next \/ UNCHANGED Fifo!fifovars
<1>. DEFINE out == IF rxpc = "wipe" THEN delivered ELSE delivered \o cache
<1>1. /\ Waits \in 0 .. BufSize - 1 /\ Waits' \in 0 .. BufSize - 1
      /\ fetched \in Nat /\ stored \in Nat /\ readsize \in Nat
      /\ cache \in Seq(Nat) /\ delivered \in Seq(Nat)
      /\ lapped = FALSE /\ lapped' = FALSE
      /\ Waiting = [i \in 1 .. Waits |-> fetched + i]
      /\ Waiting' = [i \in 1 .. Waits' |-> fetched' + i]
  BY WaitingIs, WaitingNext DEF RxTypeOK, RxInv, RingInv
<1>2. CASE UNCHANGED <<Waiting, stored>> /\ out' = out
  BY <1>1, <1>2 DEF Fifo!fifovars
<1>3. CASE DmaStore
  <2>1. /\ stored - fetched # BufSize - 1 /\ stored' = stored + 1
        /\ UNCHANGED <<fetched, rxpc, delivered, cache>>
    BY <1>1, <1>3 DEF DmaStore, lines
  <2>2. Waits' = Waits + 1 /\ stored + 1 = fetched + Waits + 1 /\ Waits < BufSize - 1
    BY <1>1, <2>1 DEF Waits
  <2>3. Len(Waiting) = Waits /\ Waiting' = Append(Waiting, stored + 1)
    BY <1>1, <2>1, <2>2, ConsecutiveBytes
  <2>4. Fifo!Put
    BY <1>1, <2>1, <2>2, <2>3 DEF Fifo!Put
  <2>. QED  BY <2>4 DEF Fifo!Next
<1>4. CASE WipeRing
  <2>1. /\ fetched' = fetched + readsize /\ rxpc = "wipe" /\ rxpc' = "take"
        /\ UNCHANGED <<stored, delivered, cache>> /\ Waits' = Waits - readsize
    BY <1>1, <1>4 DEF WipeRing, At, lines, Waits
  <2>2. /\ readsize \in 0 .. Waits /\ cache = [i \in 1 .. readsize |-> fetched + i]
    BY <1>1, <2>1 DEF RxInv, CopyInv
  <2>3. /\ Len(Waiting) = Waits
        /\ SubSeq(Waiting, 1, readsize) = cache
        /\ SubSeq(Waiting, readsize + 1, Len(Waiting)) = Waiting'
    BY <1>1, <2>1, <2>2, ConsecutiveBytes
  <2>4. CASE readsize = 0
    <3>1. Waiting' = Waiting /\ cache = <<>>
      BY <1>1, <2>1, <2>2, <2>4
    <3>2. delivered \o cache = delivered
      BY <1>1, <3>1
    <3>. QED  BY <1>2, <2>1, <3>1, <3>2
  <2>5. CASE readsize > 0
    <3>1. Fifo!Get(readsize)
      BY <1>1, <2>1, <2>3 DEF Fifo!Get
    <3>2. readsize \in 1 .. Waits
      BY <2>2, <2>5
    <3>. QED  BY <1>1, <2>3, <3>1, <3>2 DEF Fifo!Next
  <2>. QED  BY <1>1, <2>4, <2>5
<1>5. CASE RestartDma
  <2>1. /\ fetched' = stored /\ rxpc = "stopped" /\ rxpc' = "idle"
        /\ UNCHANGED <<stored, delivered, cache>> /\ Waits' = 0
    BY <1>1, <1>5 DEF RestartDma, At, lines, Waits
  <2>2. Waiting' = <<>>
    BY <1>1, <2>1
  <2>3. Fifo!Clear
    BY <1>1, <2>1, <2>2 DEF Fifo!Clear
  <2>. QED  BY <2>3 DEF Fifo!Next
<1>6. CASE TakeChunk
  <2>1. cache' \in Seq(Nat) /\ rxpc = "take" /\ UNCHANGED <<slot, rp, stored, fetched>>
    BY <1>6, TakeChunkIs DEF TakeChunk, At, ring, history
  <2>. PICK n \in Nat, chunk \in Seq(Nat) : Took(n, chunk)
    BY <1>6, TakeChunkIs
  <2>2. /\ cache = chunk \o cache' /\ delivered' = delivered \o chunk /\ rxpc' # "wipe"
    BY DEF Took
  <2>3. (delivered \o chunk) \o cache' = delivered \o (chunk \o cache')
    <3>1. delivered \in Seq(Nat) /\ chunk \in Seq(Nat) /\ cache' \in Seq(Nat)
      BY <1>1, <2>1
    <3>. QED  BY ONLY <3>1, ConcatAssociative
  <2>. QED  BY <1>2, <2>1, <2>2, <2>3 DEF Waiting
<1>7. CASE CopyOut
  <2>1. /\ rxpc = "copy" /\ rxpc' = "wipe" /\ cache = <<>>
        /\ UNCHANGED <<slot, rp, stored, fetched, delivered>>
    BY <1>7 DEF CopyOut, At, RxTypeOK, ring, history
  <2>2. delivered \o cache = delivered
    BY <1>1, <2>1
  <2>. QED  BY <1>2, <2>1, <2>2 DEF Waiting
<1>8. CASE /\ UNCHANGED <<slot, rp, stored, fetched, delivered, cache>>
           /\ rxpc = "wipe" <=> rxpc' = "wipe"
  BY <1>2, <1>8 DEF Waiting
<1>. QED
  BY <1>3, <1>4, <1>5, <1>6, <1>7, <1>8
  DEF RxStep, TaskStep, Poll, Check, ReadNdtr, SetWp, SizeRing, ResizeRing, StopDma,
      Serve, LineError, DmaIsr, At, ring, lines, history

LEMMA FifoStep ==
  ASSUME UartInv, UartInv', [Next]_vars
  PROVE  [Fifo!Next]_(Fifo!fifovars)
<1>1. RxStep \/ UNCHANGED rxvars
  BY StepIs DEF vars
<1>2. RxTypeOK /\ RxTypeOK' /\ lapped \in BOOLEAN /\ lapped' \in BOOLEAN
  BY DEF UartInv, RxTypeOK
<1>3. CASE UNCHANGED rxvars
  <2>1. UNCHANGED <<slot, rp, stored, fetched, delivered, cache, rxpc, lapped>>
    BY <1>3 DEF rxvars, ring, lines, history
  <2>. QED  BY <2>1 DEF Fifo!fifovars, Waiting
<1>4. CASE RxStep /\ lapped
  <2>1. lapped' = TRUE /\ lapped = TRUE
    BY <1>2, <1>4, StaysLapped
  <2>. QED  BY <2>1 DEF Fifo!Next
<1>5. CASE RxStep /\ ~lapped /\ lapped'
  <2>1. DmaStore
    BY <1>5
    DEF RxStep, TaskStep, Poll, Check, ReadNdtr, SetWp, SizeRing, ResizeRing, CopyOut,
        WipeRing, TakeChunk, StopDma, RestartDma, Serve, LineError, DmaIsr, history
  <2>2. stored - fetched = BufSize - 1
    <3>1. lapped' = (lapped \/ stored - fetched = BufSize - 1)
      BY <2>1 DEF DmaStore
    <3>. QED  BY <1>5, <3>1
  <2>3. /\ fetched \in Nat /\ Waits = BufSize - 1 /\ Waits \in Nat
        /\ Waiting = [i \in 1 .. Waits |-> fetched + i]
    <3>1. RingInv /\ fetched \in Nat
      BY <1>2, <1>5 DEF UartInv, RxInv, RxTypeOK
    <3>2. Waits = BufSize - 1 /\ Waits \in Nat
      BY <2>2 DEF Waits
    <3>. QED  BY <1>2, <3>1, <3>2, WaitingIs
  <2>4. Len(Waiting) = BufSize - 1
    BY <2>3, ConsecutiveBytes
  <2>. QED  BY <1>2, <1>5, <2>4 DEF Fifo!Next, Fifo!Overrun
<1>6. CASE RxStep /\ ~lapped /\ ~lapped'
  BY <1>2, <1>6, FifoRxStep DEF UartInv
<1>. QED  BY <1>1, <1>3, <1>4, <1>5, <1>6

\* The ring buffer, the DMA position and the cache implement a bounded
\* first-in first-out buffer, whatever the interrupts do in between.
THEOREM UartImplementsFifo == Spec => ImplementsFifo
<1>. QED  BY FifoInit, FifoStep, UartInvariant, PTL DEF Spec, ImplementsFifo, Fifo!Spec
=============================================================================
