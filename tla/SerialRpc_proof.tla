---------------------------- MODULE SerialRpc_proof ----------------------------
(***************************************************************************)
(* Proofs about the host's end of the serial link, for any number of       *)
(* requests and of line errors.                                            *)
(***************************************************************************)
EXTENDS SerialRpc, SequenceTheorems, TLAPS

USE SerialRpcAssumption

(***************************************************************************)
(* Sequences of pieces.                                                    *)
(***************************************************************************)

LEMMA ElementsAre ==
  ASSUME NEW S, NEW s \in Seq(S)
  PROVE  /\ \A i \in 1 .. Len(s) : s[i] \in ToSet(s)
         /\ \A x \in ToSet(s) : \E i \in 1 .. Len(s) : x = s[i]
         /\ ToSet(s) \subseteq S
<1>1. DOMAIN s = 1 .. Len(s) /\ \A i \in 1 .. Len(s) : s[i] \in S
  OBVIOUS
<1>. QED  BY <1>1 DEF ToSet

LEMMA ConcatIs ==
  ASSUME NEW S, NEW s \in Seq(S), NEW t \in Seq(S)
  PROVE  /\ s \o t \in Seq(S) /\ Len(s \o t) = Len(s) + Len(t)
         /\ \A i \in 1 .. Len(s) : (s \o t)[i] = s[i]
         /\ \A j \in 1 .. Len(t) : (s \o t)[Len(s) + j] = t[j]
         /\ \A k \in 1 .. Len(s) + Len(t) :
              k > Len(s) => k - Len(s) \in 1 .. Len(t) /\ (s \o t)[k] = t[k - Len(s)]
         /\ ToSet(s \o t) = ToSet(s) \union ToSet(t)
<1>. DEFINE u == s \o t
<1>1. /\ u \in Seq(S) /\ Len(u) = Len(s) + Len(t) /\ Len(s) \in Nat /\ Len(t) \in Nat
      /\ \A i \in 1 .. Len(s) : u[i] = s[i]
      /\ \A j \in 1 .. Len(t) : u[Len(s) + j] = t[j]
  OBVIOUS
<1>2. ASSUME NEW k \in 1 .. Len(s) + Len(t), k > Len(s)
      PROVE  k - Len(s) \in 1 .. Len(t) /\ u[k] = t[k - Len(s)]
  <2>. HIDE DEF u
  <2>1. k - Len(s) \in 1 .. Len(t) /\ k = Len(s) + (k - Len(s))
    BY <1>1, <1>2
  <2>. QED  BY <1>1, <2>1
<1>3. /\ \A i \in 1 .. Len(u) : u[i] \in ToSet(u)
      /\ \A x \in ToSet(u) : \E i \in 1 .. Len(u) : x = u[i]
  BY <1>1, ElementsAre
<1>. HIDE DEF u
<1>4. ASSUME NEW x \in ToSet(u)
      PROVE  x \in ToSet(s) \union ToSet(t)
  <2>1. PICK i \in 1 .. Len(u) : x = u[i]
    BY <1>3
  <2>2. CASE i <= Len(s)
    <3>1. i \in 1 .. Len(s) /\ x = s[i]
      BY <1>1, <2>1, <2>2
    <3>. QED  BY <3>1, ElementsAre
  <2>3. CASE i > Len(s)
    <3>1. i - Len(s) \in 1 .. Len(t) /\ x = t[i - Len(s)]
      BY <1>1, <1>2, <2>1, <2>3
    <3>. QED  BY <3>1, ElementsAre
  <2>. QED  BY <1>1, <2>2, <2>3
<1>5. ASSUME NEW x \in ToSet(s)
      PROVE  x \in ToSet(u)
  <2>1. PICK i \in 1 .. Len(s) : x = s[i]
    BY ElementsAre
  <2>2. i \in 1 .. Len(u) /\ x = u[i]
    BY <1>1, <2>1
  <2>. QED  BY <1>3, <2>2
<1>6. ASSUME NEW x \in ToSet(t)
      PROVE  x \in ToSet(u)
  <2>1. PICK j \in 1 .. Len(t) : x = t[j]
    BY ElementsAre
  <2>2. Len(s) + j \in 1 .. Len(u) /\ x = u[Len(s) + j]
    BY <1>1, <2>1
  <2>. QED  BY <1>3, <2>2
<1>7. ToSet(u) = ToSet(s) \union ToSet(t)
  BY <1>4, <1>5, <1>6
<1>. QED  BY <1>1, <1>2, <1>7 DEF u

LEMMA SplitIs ==
  ASSUME NEW S, NEW s \in Seq(S), NEW n \in 0 .. Len(s)
  PROVE  LET c == SubSeq(s, 1, n)
             r == SubSeq(s, n + 1, Len(s))
         IN  /\ c \in Seq(S) /\ Len(c) = n /\ r \in Seq(S)
             /\ \A i \in 1 .. n : c[i] = s[i]
             /\ s = c \o r
<1>. DEFINE c == SubSeq(s, 1, n)  r == SubSeq(s, n + 1, Len(s))
<1>1. /\ c \in Seq(S) /\ Len(c) = n /\ \A i \in 1 .. n : c[i] = s[i]
      /\ r \in Seq(S) /\ Len(r) = Len(s) - n
      /\ \A i \in 1 .. Len(s) - n : r[i] = s[n + i]
      /\ n \in Nat /\ Len(s) \in Nat
  OBVIOUS
<1>. HIDE DEF c, r
<1>2. /\ c \o r \in Seq(S) /\ Len(c \o r) = Len(s)
      /\ \A i \in 1 .. n : (c \o r)[i] = s[i]
      /\ \A k \in 1 .. Len(s) : k > n => k - n \in 1 .. Len(s) - n /\ (c \o r)[k] = r[k - n]
  <2>1. /\ c \o r \in Seq(S) /\ Len(c \o r) = Len(c) + Len(r)
        /\ \A i \in 1 .. Len(c) : (c \o r)[i] = c[i]
        /\ \A k \in 1 .. Len(c) + Len(r) :
             k > Len(c) => k - Len(c) \in 1 .. Len(r) /\ (c \o r)[k] = r[k - Len(c)]
    BY <1>1, ConcatIs
  <2>2. Len(c) = n /\ Len(r) = Len(s) - n /\ Len(c) + Len(r) = Len(s)
    BY <1>1
  <2>. QED  BY <1>1, <2>1, <2>2
<1>3. ASSUME NEW i \in 1 .. Len(s)
      PROVE  (c \o r)[i] = s[i]
  <2>1. CASE i <= n
    <3>1. i \in 1 .. n
      BY <1>1, <2>1
    <3>. QED  BY <1>2, <3>1
  <2>2. CASE i > n
    <3>1. i - n \in 1 .. Len(s) - n /\ n + (i - n) = i /\ (c \o r)[i] = r[i - n]
      BY <1>1, <1>2, <2>2
    <3>. QED  BY <1>1, <3>1
  <2>3. i <= n \/ i > n
    BY <1>1
  <2>. QED  BY <2>1, <2>2, <2>3
<1>4. c \o r = s
  BY <1>2, <1>3, SeqEqual
<1>. QED  BY <1>1, <1>4 DEF c, r

LEMMA OneElement ==
  ASSUME NEW S, NEW x \in S
  PROVE  <<x>> \in Seq(S) /\ Len(<<x>>) = 1 /\ <<x>>[1] = x /\ ToSet(<<x>>) = {x}
<1>1. <<x>> \in Seq(S) /\ Len(<<x>>) = 1 /\ <<x>>[1] = x
  OBVIOUS
<1>2. ToSet(<<x>>) = {x}
  <2>1. \A i \in 1 .. 1 : i = 1
    OBVIOUS
  <2>2. DOMAIN <<x>> = 1 .. 1
    OBVIOUS
  <2>. QED  BY <1>1, <2>1, <2>2 DEF ToSet
<1>. QED  BY <1>1, <1>2

LEMMA HeadTailIs ==
  ASSUME NEW S, NEW s \in Seq(S), s # <<>>
  PROVE  /\ Head(s) \in S /\ Tail(s) \in Seq(S) /\ s = <<Head(s)>> \o Tail(s)
         /\ ToSet(s) = {Head(s)} \union ToSet(Tail(s))
<1>1. Head(s) \in S /\ Tail(s) \in Seq(S) /\ s = <<Head(s)>> \o Tail(s)
  OBVIOUS
<1>2. <<Head(s)>> \in Seq(S) /\ ToSet(<<Head(s)>>) = {Head(s)}
  BY <1>1, OneElement
<1>3. \A a, b \in Seq(S) : ToSet(a \o b) = ToSet(a) \union ToSet(b)
  BY ConcatIs
<1>. QED  BY <1>1, <1>2, <1>3

LEMMA AppendIs ==
  ASSUME NEW S, NEW s \in Seq(S), NEW x \in S
  PROVE  /\ Append(s, x) \in Seq(S) /\ Append(s, x) = s \o <<x>>
         /\ ToSet(Append(s, x)) = ToSet(s) \union {x}
<1>1. Append(s, x) = s \o <<x>> /\ Append(s, x) \in Seq(S)
  OBVIOUS
<1>2. <<x>> \in Seq(S) /\ ToSet(<<x>>) = {x}
  BY OneElement
<1>3. \A t \in Seq(S) : ToSet(s \o t) = ToSet(s) \union ToSet(t)
  BY ConcatIs
<1>4. ToSet(s \o <<x>>) = ToSet(s) \union {x}
  BY ONLY <1>2, <1>3, Zenon
<1>. QED  BY ONLY <1>1, <1>4

(***************************************************************************)
(* The order of the pieces.                                                *)
(***************************************************************************)

\* Of two pieces of the same part, x is of an earlier request.
Earlier(x, y) == x.part = y.part /\ x.req # 0 /\ y.req # 0 => x.req < y.req

Before(X, Y) == \A x \in X, y \in Y : Earlier(x, y)

InOrder(s) == \A i, j \in 1 .. Len(s) : i < j => Earlier(s[i], s[j])

LEMMA InOrderConcat ==
  ASSUME NEW S, NEW s \in Seq(S), NEW t \in Seq(S)
  PROVE  InOrder(s \o t) <=> InOrder(s) /\ InOrder(t) /\ Before(ToSet(s), ToSet(t))
<1>. DEFINE u == s \o t
<1>1. /\ Len(u) = Len(s) + Len(t) /\ Len(s) \in Nat /\ Len(t) \in Nat
      /\ \A i \in 1 .. Len(s) : u[i] = s[i]
      /\ \A j \in 1 .. Len(t) : u[Len(s) + j] = t[j]
      /\ \A k \in 1 .. Len(u) : k > Len(s) => k - Len(s) \in 1 .. Len(t) /\ u[k] = t[k - Len(s)]
  BY ConcatIs
<1>. HIDE DEF u
<1>2. ASSUME InOrder(s), InOrder(t), Before(ToSet(s), ToSet(t)),
             NEW i \in 1 .. Len(u), NEW j \in 1 .. Len(u), i < j
      PROVE  Earlier(u[i], u[j])
  <2>1. CASE j <= Len(s)
    <3>1. i \in 1 .. Len(s) /\ j \in 1 .. Len(s)
      BY <1>1, <1>2, <2>1
    <3>. QED  BY <1>1, <1>2, <3>1 DEF InOrder
  <2>2. CASE i <= Len(s) /\ j > Len(s)
    <3>1. i \in 1 .. Len(s) /\ j - Len(s) \in 1 .. Len(t)
      BY <1>1, <2>2
    <3>2. u[i] \in ToSet(s) /\ u[j] \in ToSet(t)
      BY <1>1, <2>2, <3>1, ElementsAre
    <3>. QED  BY <1>2, <3>2 DEF Before
  <2>3. CASE i > Len(s)
    <3>1. i - Len(s) < j - Len(s) /\ j > Len(s)
      BY <1>1, <1>2, <2>3
    <3>. QED  BY <1>1, <1>2, <2>3, <3>1 DEF InOrder
  <2>. QED  BY <1>1, <2>1, <2>2, <2>3
<1>3. ASSUME InOrder(u)
      PROVE  InOrder(s) /\ InOrder(t) /\ Before(ToSet(s), ToSet(t))
  <2>1. InOrder(s)
    <3>1. \A i \in 1 .. Len(s) : i \in 1 .. Len(u)
      BY <1>1
    <3>. QED  BY <1>1, <1>3, <3>1 DEF InOrder
  <2>2. ASSUME NEW i \in 1 .. Len(t), NEW j \in 1 .. Len(t), i < j
        PROVE  Earlier(t[i], t[j])
    <3>1. /\ Len(s) + i \in 1 .. Len(u) /\ Len(s) + j \in 1 .. Len(u)
          /\ Len(s) + i < Len(s) + j
      BY <1>1, <2>2
    <3>2. Earlier(u[Len(s) + i], u[Len(s) + j])
      BY <1>3, <3>1 DEF InOrder
    <3>. QED  BY <1>1, <3>2
  <2>3. ASSUME NEW x \in ToSet(s), NEW y \in ToSet(t)
        PROVE  Earlier(x, y)
    <3>1. PICK i \in 1 .. Len(s) : x = s[i]
      BY ElementsAre
    <3>2. PICK j \in 1 .. Len(t) : y = t[j]
      BY ElementsAre
    <3>3. i \in 1 .. Len(u) /\ Len(s) + j \in 1 .. Len(u) /\ i < Len(s) + j
      BY <1>1
    <3>4. Earlier(u[i], u[Len(s) + j])
      BY <1>3, <3>3 DEF InOrder
    <3>. QED  BY <1>1, <3>1, <3>2, <3>4
  <2>. QED  BY <2>1, <2>2, <2>3 DEF InOrder, Before
<1>. QED  BY <1>2, <1>3 DEF InOrder, u

LEMMA InOrderOne ==
  ASSUME NEW x
  PROVE  InOrder(<<x>>)
<1>1. \A i, j \in 1 .. Len(<<x>>) : ~(i < j)
  OBVIOUS
<1>. QED  BY <1>1 DEF InOrder

LEMMA InOrderFirst ==
  ASSUME NEW S, NEW x \in S, NEW s \in Seq(S), InOrder(<<x>> \o s)
  PROVE  InOrder(s) /\ Before({x}, ToSet(s))
<1>1. <<x>> \in Seq(S) /\ ToSet(<<x>>) = {x}
  BY OneElement
<1>2. \A t \in Seq(S) : InOrder(t \o s) => InOrder(s) /\ Before(ToSet(t), ToSet(s))
  BY InOrderConcat
<1>. QED  BY ONLY <1>1, <1>2, InOrder(<<x>> \o s), Zenon

LEMMA InOrderNone == InOrder(<<>>) /\ ToSet(<<>>) = {}
BY DEF InOrder, ToSet

\* The two pieces of a line.
LEMMA WholeIs ==
  ASSUME NEW r \in 0 .. MaxRequests
  PROVE  /\ Whole(r) \in Seq(Piece) /\ Len(Whole(r)) = 2
         /\ Whole(r)[1] = [req |-> r, part |-> "head"]
         /\ Whole(r)[2] = [req |-> r, part |-> "tail"]
         /\ Whole(r)[1] \in Piece /\ Whole(r)[2] \in Piece
         /\ Whole(r)[1].req = r /\ Whole(r)[1].part = "head"
         /\ \A x \in ToSet(Whole(r)) : x \in Piece /\ x.req = r
         /\ InOrder(Whole(r))
<1>. DEFINE h == [req |-> r, part |-> "head"]  t == [req |-> r, part |-> "tail"]
<1>1. h \in Piece /\ t \in Piece
  BY DEF Piece
<1>2. Whole(r) = <<h, t>>
  BY DEF Whole
<1>3. h.req = r /\ h.part = "head" /\ t.req = r /\ h.part # t.part
  OBVIOUS
<1>. HIDE DEF h, t
<1>4. /\ Whole(r) \in Seq(Piece) /\ Len(Whole(r)) = 2
      /\ Whole(r)[1] = h /\ Whole(r)[2] = t
  BY <1>1, <1>2
<1>5. \A i \in 1 .. 2 : i = 1 \/ i = 2
  OBVIOUS
<1>6. \A x \in ToSet(Whole(r)) : x = h \/ x = t
  BY <1>4, <1>5, ElementsAre
<1>7. InOrder(Whole(r))
  <2>1. \A i, j \in 1 .. 2 : i < j => i = 1 /\ j = 2
    OBVIOUS
  <2>. QED  BY <1>3, <1>4, <2>1 DEF InOrder, Earlier
<1>. QED  BY <1>1, <1>3, <1>4, <1>6, <1>7 DEF h, t

(***************************************************************************)
(* The parts of the inductive invariant.                                   *)
(***************************************************************************)

\* Where the pieces of answers are, in their order: with the client, unless the
\* call has ended; in its cache; in the tty; on the wire.
Taken  == IF client = "done" THEN {} ELSE ToSet(response)
Kept   == ToSet(cache)
Here   == ToSet(tty)
Coming == ToSet(up)
Flow   == Taken \union Kept \union Here \union Coming

\* Where a call is.
CallInv ==
  /\ early <= Len(results)
  /\ client \in {"closed", "open"} => cache = <<>> /\ response = <<>>
  /\ client # "closed" => serial > 0
  /\ \A i \in 1 .. Len(results) :
       /\ results[i].req = i /\ results[i].req <= serial
       /\ client \in {"open", "waiting"} => results[i].req < serial

\* What is on its way is of the requests made, each in its order.
FlowInv ==
  /\ InOrder(cache) /\ InOrder(tty) /\ InOrder(up) /\ InOrder(down)
  /\ Before(Taken, Kept) /\ Before(Taken, Here) /\ Before(Taken, Coming)
  /\ Before(Kept, Here) /\ Before(Kept, Coming) /\ Before(Here, Coming)
  /\ \A x \in Flow \union ToSet(down) :
       x.req <= serial /\ (client = "open" => x.req < serial)
  /\ \A d \in ToSet(down) : d.req > 0
  /\ \A x \in Flow, d \in ToSet(down) : d.part = "tail" => x.req < d.req

\* What the calls returned is of earlier requests than what is on its way.
GotInv ==
  /\ \A i \in 1 .. Len(results) :
       LET got == ToSet(results[i].got) IN
       /\ \A x \in got : x.req <= results[i].req
       /\ Before(got, Flow)
       /\ \A x \in got, d \in ToSet(down) : d.part = "tail" => x.req < d.req
  /\ \A i, j \in 1 .. Len(results) :
       i < j => Before(ToSet(results[i].got), ToSet(results[j].got))

\* A call that found the link quiet meets nothing but its own answer.
Around == ToSet(response) \union Kept \union Here \union Coming \union ToSet(down)

QuietInv ==
  /\ quiet /\ client # "closed" => \A x \in Around : x.req \in {0, serial}
  /\ \A i \in 1 .. Len(results) :
       results[i].quiet => \A x \in ToSet(results[i].got) : x.req \in {0, results[i].req}

\* Without time-outs, failures and line errors there is one request or answer on
\* its way, while a call waits for it, and nothing else.
Idle == down = <<>> /\ line = <<>> /\ up = <<>> /\ tty = <<>> /\ cache = <<>>

AloneInv ==
  /\ client # "waiting" => Idle
  /\ client = "waiting" =>
       \/ /\ line \o down = Whole(serial)
          /\ response = <<>> /\ up = <<>> /\ tty = <<>> /\ cache = <<>>
       \/ /\ line = <<>> /\ down = <<>>
          /\ response \o cache \o tty \o up = Whole(serial)
  /\ \A i \in 1 .. Len(results) : results[i].got = Whole(results[i].req)

(***************************************************************************)
(* How a call reads, and how it ends.                                      *)
(***************************************************************************)

ResultType == [req : 1 .. MaxRequests, quiet : BOOLEAN, threw : BOOLEAN,
               got : Seq(Piece)]

LEMMA EndIs ==
  ASSUME TypeOK, serial > 0, NEW threw \in BOOLEAN, NEW got \in Seq(Piece),
         End(threw, got)
  PROVE  /\ client' = "done" /\ results' \in Seq(ResultType)
         /\ Len(results') = Len(results) + 1 /\ Len(results) \in Nat
         /\ \A i \in 1 .. Len(results) : results'[i] = results[i]
         /\ results'[Len(results) + 1].req = serial
         /\ results'[Len(results) + 1].quiet = quiet
         /\ results'[Len(results) + 1].got = got
         /\ \A i \in 1 .. Len(results') : i \in 1 .. Len(results) \/ i = Len(results) + 1
<1>. DEFINE e == [req |-> serial, quiet |-> quiet, threw |-> threw, got |-> got]
<1>1. e \in ResultType /\ e.req = serial /\ e.quiet = quiet /\ e.got = got
  <2>1. serial \in 1 .. MaxRequests /\ quiet \in BOOLEAN
    BY DEF TypeOK
  <2>. QED  BY <2>1 DEF ResultType
<1>2. results \in Seq(ResultType)
  BY DEF TypeOK, ResultType
<1>3. results' = Append(results, e) /\ client' = "done"
  BY DEF End
<1>. HIDE DEF e
<1>4. /\ results' \in Seq(ResultType) /\ Len(results) \in Nat
      /\ Len(results') = Len(results) + 1 /\ results'[Len(results) + 1] = e
      /\ \A i \in 1 .. Len(results) : results'[i] = results[i]
  BY <1>1, <1>2, <1>3
<1>5. \A i \in 1 .. Len(results') : i \in 1 .. Len(results) \/ i = Len(results) + 1
  BY <1>4
<1>. QED  BY <1>1, <1>3, <1>4, <1>5

\* A round of response(): a chunk leaves the cache or the tty.
ReadTakes(chunk) ==
  /\ chunk \in Seq(Piece) /\ Len(chunk) > 0
  /\ \A i \in 1 .. Len(chunk) - 1 : chunk[i].part = "head"
  /\ cache' \in Seq(Piece) /\ tty' \in Seq(Piece)
  /\ cache \o tty = chunk \o (cache' \o tty')
  /\ response' = response \o chunk
  /\ IF chunk[Len(chunk)].part = "tail" THEN End(FALSE, response')
                                        ELSE UNCHANGED <<client, results>>
  /\ client = "waiting" /\ UNCHANGED <<down, up, line, errors, serial, quiet, early>>

LEMMA ReadIs ==
  ASSUME TypeOK, Read
  PROVE  \E chunk : ReadTakes(chunk)
<1>1. cache \in Seq(Piece) /\ tty \in Seq(Piece)
  BY DEF TypeOK
<1>2. PICK n \in 1 .. Len(Cached) :
        /\ Chunk(Cached, n)
        /\ cache' = SubSeq(Cached, n + 1, Len(Cached))
        /\ response' = response \o SubSeq(Cached, 1, n)
        /\ IF Cached[n].part = "tail" THEN End(FALSE, response')
                                      ELSE UNCHANGED <<client, results>>
  BY DEF Read
<1>3. /\ client = "waiting" /\ tty' = IF cache = <<>> THEN <<>> ELSE tty
      /\ UNCHANGED <<down, up, line, errors, serial, quiet, early>>
  BY DEF Read
<1>. DEFINE s == Cached  chunk == SubSeq(s, 1, n)  rest == SubSeq(s, n + 1, Len(s))
<1>4. s \in Seq(Piece) /\ s = IF cache = <<>> THEN tty ELSE cache
  BY <1>1 DEF Cached
<1>5. \A i \in 1 .. n - 1 : s[i].part = "head"
  BY <1>2 DEF Chunk
<1>6. /\ cache' = rest /\ response' = response \o chunk
      /\ IF s[n].part = "tail" THEN End(FALSE, response') ELSE UNCHANGED <<client, results>>
  BY <1>2
<1>. HIDE DEF s
<1>7. n \in 0 .. Len(s) /\ n > 0 /\ n \in 1 .. n
  BY <1>2, <1>4 DEF s
<1>8. /\ chunk \in Seq(Piece) /\ Len(chunk) = n /\ rest \in Seq(Piece)
      /\ \A i \in 1 .. n : chunk[i] = s[i]
      /\ s = chunk \o rest
  BY <1>4, <1>7, SplitIs
<1>. HIDE DEF chunk, rest
<1>9. chunk[n] = s[n] /\ \A i \in 1 .. n - 1 : chunk[i] = s[i]
  BY <1>7, <1>8
<1>10. tty' \in Seq(Piece) /\ cache \o tty = chunk \o (rest \o tty')
  <2>1. CASE cache = <<>>
    <3>1. tty' = <<>> /\ cache \o tty = s /\ rest \o tty' = rest /\ <<>> \in Seq(Piece)
      BY <1>1, <1>3, <1>4, <1>8, <2>1
    <3>. QED  BY <1>8, <3>1
  <2>2. CASE cache # <<>>
    <3>1. tty' = tty /\ cache = chunk \o rest
      BY <1>3, <1>4, <1>8, <2>2
    <3>2. chunk \in Seq(Piece) /\ rest \in Seq(Piece) /\ tty \in Seq(Piece)
      BY <1>1, <1>8
    <3>3. (chunk \o rest) \o tty = chunk \o (rest \o tty)
      BY ONLY <3>2, ConcatAssociative
    <3>. QED  BY <1>1, <3>1, <3>3
  <2>. QED  BY <2>1, <2>2
<1>11. ReadTakes(chunk)
  BY ONLY <1>3, <1>5, <1>6, <1>7, <1>8, <1>9, <1>10 DEF ReadTakes
<1>. QED  BY <1>11

\* The same, as the order of the pieces sees it.
LEMMA ReadOrder ==
  ASSUME TypeOK, FlowInv, NEW chunk, ReadTakes(chunk)
  PROVE  LET C == ToSet(chunk) IN
         /\ InOrder(cache') /\ InOrder(tty')
         /\ Before(C, Kept') /\ Before(C, Here') /\ Before(Kept', Here')
         /\ Kept \union Here = C \union Kept' \union Here'
         /\ ToSet(response') = ToSet(response) \union C /\ response' \in Seq(Piece)
<1>1. /\ cache \in Seq(Piece) /\ tty \in Seq(Piece) /\ response \in Seq(Piece)
      /\ chunk \in Seq(Piece) /\ cache' \in Seq(Piece) /\ tty' \in Seq(Piece)
  BY DEF TypeOK, ReadTakes
<1>. DEFINE rest == cache' \o tty'
<1>2. /\ rest \in Seq(Piece) /\ ToSet(rest) = Kept' \union Here'
      /\ InOrder(rest) <=> InOrder(cache') /\ InOrder(tty') /\ Before(Kept', Here')
  BY <1>1, ConcatIs, InOrderConcat DEF Kept, Here
<1>3. /\ ToSet(cache \o tty) = Kept \union Here /\ InOrder(cache \o tty)
  BY <1>1, ConcatIs, InOrderConcat DEF Kept, Here, FlowInv
<1>4. cache \o tty = chunk \o rest
  BY DEF ReadTakes
<1>. HIDE DEF rest
<1>5. /\ ToSet(chunk \o rest) = ToSet(chunk) \union ToSet(rest)
      /\ InOrder(chunk \o rest) => InOrder(rest) /\ Before(ToSet(chunk), ToSet(rest))
  BY <1>1, <1>2, ConcatIs, InOrderConcat
<1>6. /\ InOrder(rest) /\ Before(ToSet(chunk), Kept' \union Here')
      /\ Kept \union Here = ToSet(chunk) \union (Kept' \union Here')
  BY <1>2, <1>3, <1>4, <1>5
<1>7. Before(ToSet(chunk), Kept') /\ Before(ToSet(chunk), Here')
  BY <1>6 DEF Before
<1>8. /\ ToSet(response') = ToSet(response) \union ToSet(chunk) /\ response' \in Seq(Piece)
  BY <1>1, ConcatIs DEF ReadTakes
<1>. QED  BY <1>2, <1>6, <1>7, <1>8

(***************************************************************************)
(* Types and the place of a call.                                          *)
(***************************************************************************)

PiecesOK ==
  /\ down \in Seq(Piece) /\ up \in Seq(Piece) /\ tty \in Seq(Piece)
  /\ line \in Seq(Piece) /\ cache \in Seq(Piece) /\ response \in Seq(Piece)

ResultsOK ==
  /\ results \in Seq(ResultType)
  /\ Len(results) = serial - IF client \in {"open", "waiting"} THEN 1 ELSE 0

CountsOK ==
  /\ errors \in 0 .. MaxErrors /\ serial \in 0 .. MaxRequests
  /\ client \in {"closed", "open", "waiting", "done"}
  /\ quiet \in BOOLEAN /\ early \in 0 .. MaxRequests

LEMMA TypeParts == TypeOK <=> PiecesOK /\ ResultsOK /\ CountsOK
BY DEF TypeOK, PiecesOK, ResultsOK, CountsOK, ResultType

LEMMA PiecesStep ==
  ASSUME PiecesOK, CountsOK, CallInv, TypeOK, Next
  PROVE  PiecesOK'
<1>. <<>> \in Seq(Piece)
  OBVIOUS
<1>. USE DEF PiecesOK
<1>1. CASE Open
  BY <1>1 DEF Open
<1>2. CASE Request
  <2>1. Whole(serial) \in Seq(Piece)
    BY WholeIs DEF CountsOK
  <2>2. down \o Whole(serial) \in Seq(Piece)
    BY <2>1, ConcatIs
  <2>. QED  BY <1>2, <2>2 DEF Request
<1>3. CASE Read
  <2>1. PICK chunk : ReadTakes(chunk)
    BY <1>3, ReadIs
  <2>2. response \o chunk \in Seq(Piece)
    BY <2>1, ConcatIs DEF ReadTakes
  <2>. QED  BY <2>1, <2>2 DEF ReadTakes
<1>4. CASE Timeout
  BY <1>4 DEF Timeout, link
<1>5. CASE Fail
  <2>1. Whole(serial)[1] \in Piece
    BY WholeIs DEF CountsOK
  <2>2. Append(down, Whole(serial)[1]) \in Seq(Piece)
    BY <2>1, AppendIs
  <2>3. down' \in {down, Append(down, Whole(serial)[1])}
    BY <1>5 DEF Fail
  <2>4. down' \in Seq(Piece)
    BY <2>2, <2>3
  <2>. QED  BY <1>5, <2>4 DEF Fail
<1>6. CASE Close
  <2>1. PICK n \in 0 .. Len(down) : down' = SubSeq(down, 1, n)
    BY <1>6 DEF Close
  <2>2. down' \in Seq(Piece)
    BY <2>1, SplitIs
  <2>. QED  BY <1>6, <2>2 DEF Close
<1>7. CASE Deliver
  <2>1. Head(up) \in Piece /\ Tail(up) \in Seq(Piece)
    BY <1>7, HeadTailIs DEF Deliver
  <2>2. Append(tty, Head(up)) \in Seq(Piece)
    BY <2>1, AppendIs
  <2>. QED  BY <1>7, <2>1, <2>2 DEF Deliver
<1>8. CASE Serve
  <2>. DEFINE piece == Head(down)  whole == Append(line, piece)
  <2>1. piece \in Piece /\ Tail(down) \in Seq(Piece)
    BY <1>8, HeadTailIs DEF Serve
  <2>2. whole \in Seq(Piece)
    BY <2>1, AppendIs
  <2>3. \A r \in {piece.req, 0} : up \o Whole(r) \in Seq(Piece)
    <3>1. piece.req \in 0 .. MaxRequests /\ 0 \in 0 .. MaxRequests
      BY <2>1 DEF Piece
    <3>2. ASSUME NEW r \in {piece.req, 0}
          PROVE  up \o Whole(r) \in Seq(Piece)
      <4>1. Whole(r) \in Seq(Piece)
        BY <3>1, <3>2, WholeIs
      <4>. QED  BY <4>1, ConcatIs
    <3>. QED  BY <3>2
  <2>4. down' = Tail(down) /\ UNCHANGED <<tty, cache, response>>
    BY <1>8 DEF Serve
  <2>5. \/ line' = whole /\ up' = up
        \/ line' = <<>> /\ \/ up' = up
                           \/ \E r \in {piece.req, 0} : up' = up \o Whole(r)
    BY <1>8 DEF Serve
  <2>. QED  BY <2>1, <2>2, <2>3, <2>4, <2>5
<1>9. CASE LineError
  <2>1. PICK n \in 0 .. Len(down) : down' = SubSeq(down, n + 1, Len(down))
    BY <1>9 DEF LineError
  <2>2. down' \in Seq(Piece)
    BY <2>1, SplitIs
  <2>3. PICK m \in 0 .. Len(up) : up' = SubSeq(up, 1, Len(up) - m)
    BY <1>9 DEF LineError
  <2>4. Len(up) - m \in 0 .. Len(up)
    OBVIOUS
  <2>5. up' \in Seq(Piece)
    BY <2>3, <2>4, SplitIs
  <2>. QED  BY <1>9, <2>2, <2>5 DEF LineError
<1>. QED  BY <1>1, <1>2, <1>3, <1>4, <1>5, <1>6, <1>7, <1>8, <1>9 DEF Next

\* A call ends: how, and what the firmware and the port see of it.
Ends(threw, got) == client \in {"open", "waiting"} /\ End(threw, got)

LEMMA EndStep ==
  ASSUME TypeOK, CallInv, UNCHANGED serial, early' \in {early, early + 1},
         UNCHANGED <<errors, quiet>>,
         NEW threw \in BOOLEAN, NEW got \in Seq(Piece), Ends(threw, got)
  PROVE  ResultsOK' /\ CountsOK' /\ CallInv'
<1>1. serial > 0 /\ client \in {"open", "waiting"} /\ End(threw, got)
  BY DEF CallInv, Ends
<1>2. /\ client' = "done" /\ results' \in Seq(ResultType)
      /\ Len(results') = Len(results) + 1 /\ Len(results) \in Nat
      /\ \A i \in 1 .. Len(results) : results'[i] = results[i]
      /\ results'[Len(results) + 1].req = serial
      /\ \A i \in 1 .. Len(results') : i \in 1 .. Len(results) \/ i = Len(results) + 1
  BY <1>1, EndIs
<1>3. /\ Len(results) = serial - 1 /\ serial \in 1 .. MaxRequests /\ early \in Nat
      /\ errors \in 0 .. MaxErrors /\ quiet \in BOOLEAN
  BY <1>1 DEF TypeOK
<1>4. early <= Len(results) /\ \A i \in 1 .. Len(results) : results[i].req < serial
  BY <1>1 DEF CallInv
<1>5. ResultsOK'
  BY <1>2, <1>3 DEF ResultsOK
<1>6. early' \in 0 .. MaxRequests /\ early' <= Len(results')
  BY <1>2, <1>3, <1>4
<1>7. CountsOK'
  BY <1>2, <1>3, <1>6 DEF CountsOK
<1>8. \A i \in 1 .. Len(results') : results'[i].req = i /\ results'[i].req <= serial
  <2>1. \A i \in 1 .. Len(results) : results[i].req = i /\ results[i].req <= serial
    BY DEF CallInv
  <2>. QED  BY <1>2, <1>3, <2>1
<1>. QED  BY <1>2, <1>3, <1>5, <1>6, <1>7, <1>8 DEF CallInv

LEMMA CallStep ==
  ASSUME TypeOK, CallInv, Next
  PROVE  ResultsOK' /\ CountsOK' /\ CallInv'
<1>1. PiecesOK /\ ResultsOK /\ CountsOK
  BY TypeParts
<1>2. CASE Open
  <2>1. CountsOK'
    <3>1. quiet' = Quiet /\ Quiet \in BOOLEAN
      BY <1>2 DEF Open, Quiet
    <3>. QED  BY <1>1, <1>2, <3>1 DEF Open, CountsOK
  <2>2. ResultsOK'
    BY <1>1, <1>2 DEF Open, ResultsOK, CountsOK
  <2>3. serial' = serial + 1 /\ UNCHANGED <<early, results, cache, response>> /\ serial \in Nat
    BY <1>1, <1>2 DEF Open, CountsOK
  <2>4. \A i \in 1 .. Len(results) :
          results[i].req = i /\ results[i].req <= serial /\ results[i].req \in Nat
    <3>1. \A i \in 1 .. Len(results) : results[i] \in ResultType
      BY <1>1 DEF ResultsOK
    <3>. QED  BY <3>1 DEF CallInv, ResultType
  <2>5. client = "closed" /\ cache = <<>> /\ response = <<>>
    BY <1>2 DEF Open, CallInv
  <2>. QED  BY <2>1, <2>2, <2>3, <2>4, <2>5 DEF CallInv
<1>3. CASE Request
  BY <1>1, <1>3 DEF Request, calls, ResultsOK, CountsOK, CallInv
<1>4. CASE Read
  <2>1. PICK chunk : ReadTakes(chunk)
    BY <1>4, ReadIs
  <2>2. CASE chunk[Len(chunk)].part = "tail"
    <3>1. response' \in Seq(Piece)
      BY <2>1, ConcatIs DEF ReadTakes, TypeOK
    <3>2. Ends(FALSE, response') /\ UNCHANGED <<serial, early, errors, quiet>>
      BY <2>1, <2>2 DEF ReadTakes, Ends
    <3>. QED  BY <3>1, <3>2, EndStep
  <2>3. CASE chunk[Len(chunk)].part # "tail"
    <3>1. UNCHANGED <<client, results, serial, early, errors, quiet>> /\ client = "waiting"
      BY <2>1, <2>3 DEF ReadTakes
    <3>. QED  BY <1>1, <3>1 DEF ResultsOK, CountsOK, CallInv
  <2>. QED  BY <2>2, <2>3
<1>5. CASE Timeout
  <2>1. Ends(FALSE, response) /\ early' = early + 1 /\ UNCHANGED <<serial, errors, quiet>>
    BY <1>5 DEF Timeout, Ends, link
  <2>2. response \in Seq(Piece)
    BY DEF TypeOK
  <2>. QED  BY <2>1, <2>2, EndStep
<1>6. CASE Fail
  <2>1. Ends(TRUE, <<>>) /\ early' = early + 1 /\ UNCHANGED <<serial, errors, quiet>>
    BY <1>6 DEF Fail, Ends
  <2>2. <<>> \in Seq(Piece)
    OBVIOUS
  <2>. QED  BY <2>1, <2>2, EndStep
<1>7. CASE Close
  BY <1>1, <1>7 DEF Close, calls, ResultsOK, CountsOK, CallInv
<1>8. CASE Deliver
  BY <1>1, <1>8 DEF Deliver, calls, ResultsOK, CountsOK, CallInv
<1>9. CASE Serve
  <2>1. UNCHANGED <<errors, client, cache, response, calls>>
    BY <1>9 DEF Serve
  <2>. QED  BY <1>1, <2>1 DEF calls, ResultsOK, CountsOK, CallInv
<1>10. CASE LineError
  <2>1. /\ errors < MaxErrors /\ errors' = errors + 1
        /\ UNCHANGED <<client, cache, response, calls>>
    BY <1>10 DEF LineError
  <2>. QED  BY <1>1, <2>1 DEF calls, ResultsOK, CountsOK, CallInv
<1>. QED  BY <1>2, <1>3, <1>4, <1>5, <1>6, <1>7, <1>8, <1>9, <1>10 DEF Next

(***************************************************************************)
(* The order of what is on its way.                                        *)
(***************************************************************************)

LEMMA PieceTypes ==
  ASSUME TypeOK
  PROVE  /\ Flow \subseteq Piece /\ ToSet(down) \subseteq Piece /\ serial \in Nat
         /\ \A x \in Piece : x.req \in Nat /\ x.part \in {"head", "tail"}
<1>1. /\ ToSet(response) \subseteq Piece /\ Kept \subseteq Piece /\ Here \subseteq Piece
      /\ Coming \subseteq Piece /\ ToSet(down) \subseteq Piece
  BY ElementsAre DEF TypeOK, Kept, Here, Coming
<1>2. Flow \subseteq Piece
  BY <1>1 DEF Flow, Taken
<1>3. \A x \in Piece : x.req \in Nat /\ x.part \in {"head", "tail"}
  BY DEF Piece
<1>4. serial \in Nat
  BY DEF TypeOK
<1>. QED  BY <1>1, <1>2, <1>3, <1>4

\* The first pieces of a sequence, and the others.
LEMMA PartsInOrder ==
  ASSUME NEW S, NEW s \in Seq(S), NEW n \in 0 .. Len(s)
  PROVE  LET c == SubSeq(s, 1, n)
             r == SubSeq(s, n + 1, Len(s))
         IN  /\ ToSet(c) \subseteq ToSet(s) /\ ToSet(r) \subseteq ToSet(s)
             /\ InOrder(s) => InOrder(c) /\ InOrder(r)
<1>. DEFINE c == SubSeq(s, 1, n)  r == SubSeq(s, n + 1, Len(s))
<1>1. c \in Seq(S) /\ r \in Seq(S) /\ s = c \o r
  BY SplitIs
<1>. HIDE DEF c, r
<1>2. /\ ToSet(c \o r) = ToSet(c) \union ToSet(r)
      /\ InOrder(c \o r) => InOrder(c) /\ InOrder(r)
  BY <1>1, ConcatIs, InOrderConcat
<1>. QED  BY <1>1, <1>2 DEF c, r

\* Pieces only leave their places.
LEMMA FlowLess ==
  ASSUME TypeOK, FlowInv,
         InOrder(cache'), InOrder(tty'), InOrder(up'), InOrder(down'),
         Taken' \subseteq Taken, Kept' \subseteq Kept, Here' \subseteq Here,
         Coming' \subseteq Coming, ToSet(down') \subseteq ToSet(down),
         serial' \in Nat, serial <= serial',
         client' = "open" => \A x \in Flow \union ToSet(down) : x.req < serial'
  PROVE  FlowInv'
<1>. DEFINE T == Taken'  K == Kept'  H == Here'  C == Coming'  D == ToSet(down')
<1>1. Flow' = T \union K \union H \union C
  BY DEF Flow
<1>2. /\ T \subseteq Taken /\ K \subseteq Kept /\ H \subseteq Here /\ C \subseteq Coming
      /\ D \subseteq ToSet(down)
  OBVIOUS
<1>3. /\ \A x \in Flow \union ToSet(down) : x.req <= serial /\ x.req \in Nat
      /\ \A d \in ToSet(down) : d.req > 0
      /\ \A x \in Flow, d \in ToSet(down) : d.part = "tail" => x.req < d.req
      /\ serial \in Nat
  BY PieceTypes DEF FlowInv
<1>. HIDE DEF T, K, H, C, D
<1>4. Before(T, K) /\ Before(T, H) /\ Before(T, C) /\ Before(K, H) /\ Before(K, C) /\ Before(H, C)
  BY <1>2 DEF FlowInv, Before
<1>5. T \union K \union H \union C \subseteq Flow
  BY <1>2 DEF Flow
<1>6. /\ \A x \in (T \union K \union H \union C) \union D :
           x.req <= serial' /\ (client' = "open" => x.req < serial')
      /\ \A d \in D : d.req > 0
      /\ \A x \in T \union K \union H \union C, d \in D : d.part = "tail" => x.req < d.req
  <2>1. ASSUME NEW x \in (T \union K \union H \union C) \union D
        PROVE  x.req <= serial' /\ (client' = "open" => x.req < serial')
    <3>1. x \in Flow \union ToSet(down)
      BY <1>2, <1>5
    <3>2. x.req <= serial /\ x.req \in Nat
      BY <1>3, <3>1
    <3>3. client' = "open" => x.req < serial'
      BY <3>1
    <3>. QED  BY <1>3, <3>2, <3>3
  <2>2. /\ \A d \in D : d.req > 0
        /\ \A x \in T \union K \union H \union C, d \in D : d.part = "tail" => x.req < d.req
    BY <1>2, <1>3, <1>5
  <2>. QED  BY <2>1, <2>2
<1>. QED  BY <1>1, <1>4, <1>6 DEF FlowInv, T, K, H, C, D

\* A piece or a line of the request that is made goes to the firmware.
LEMMA FlowSends ==
  ASSUME TypeOK, FlowInv, client = "open", client' \in {"waiting", "done"},
         UNCHANGED <<cache, tty, up, response, serial>>, serial > 0,
         NEW t \in Seq(Piece), \A x \in ToSet(t) : x.req = serial, InOrder(t),
         down' = down \o t
  PROVE  FlowInv'
<1>1. /\ Taken' \subseteq Taken /\ Kept' = Kept /\ Here' = Here /\ Coming' = Coming
  BY DEF Taken, Kept, Here, Coming
<1>2. Flow' \subseteq Flow
  BY <1>1 DEF Flow
<1>3. down \in Seq(Piece)
  BY DEF TypeOK
<1>4. ToSet(down') = ToSet(down) \union ToSet(t)
  BY <1>3, ConcatIs
<1>5. \A x \in Flow \union ToSet(down) : x.req < serial /\ x.req \in Nat
  BY PieceTypes DEF FlowInv
<1>6. Before(ToSet(down), ToSet(t))
  BY <1>5 DEF Before, Earlier
<1>7. InOrder(down')
  BY <1>3, <1>6, InOrderConcat DEF FlowInv
<1>8. /\ Before(Taken', Kept') /\ Before(Taken', Here') /\ Before(Taken', Coming')
      /\ Before(Kept', Here') /\ Before(Kept', Coming') /\ Before(Here', Coming')
  BY <1>1 DEF FlowInv, Before
<1>9. InOrder(cache') /\ InOrder(tty') /\ InOrder(up')
  BY DEF FlowInv
<1>10. serial' = serial /\ serial \in Nat /\ client' # "open"
  BY PieceTypes
<1>11. \A x \in Flow' \union ToSet(down') : x.req <= serial
  BY <1>2, <1>4, <1>5, <1>10
<1>12. \A d \in ToSet(down') : d.req > 0
  BY <1>4 DEF FlowInv
<1>13. \A x \in Flow', d \in ToSet(down') : d.part = "tail" => x.req < d.req
  BY <1>2, <1>4, <1>5 DEF FlowInv
<1>. QED  BY <1>7, <1>8, <1>9, <1>10, <1>11, <1>12, <1>13 DEF FlowInv

LEMMA FlowRead ==
  ASSUME TypeOK, FlowInv, NEW chunk, ReadTakes(chunk)
  PROVE  /\ FlowInv' /\ Flow' \subseteq Flow
         /\ ToSet(response') \subseteq Flow
         /\ Before(ToSet(response'), Kept' \union Here' \union Coming')
<1>. DEFINE C == ToSet(chunk)  T == Taken'  K == Kept'  H == Here'
<1>1. /\ InOrder(cache') /\ InOrder(tty')
      /\ Before(C, K) /\ Before(C, H) /\ Before(K, H)
      /\ Kept \union Here = C \union K \union H
      /\ ToSet(response') = ToSet(response) \union C
  BY ReadOrder
<1>2. client = "waiting" /\ UNCHANGED <<down, up, serial>> /\ client' \in {"waiting", "done"}
  BY DEF ReadTakes, End
<1>3. /\ Taken = ToSet(response) /\ T \subseteq ToSet(response') /\ Coming' = Coming
  BY <1>2 DEF Taken, Coming
<1>4. Flow = Taken \union Kept \union Here \union Coming /\ Flow' = T \union K \union H \union Coming
  BY <1>3 DEF Flow
<1>5. /\ Before(Taken, Kept) /\ Before(Taken, Here) /\ Before(Taken, Coming)
      /\ Before(Kept, Here) /\ Before(Kept, Coming) /\ Before(Here, Coming)
  BY DEF FlowInv
<1>. HIDE DEF C, T, K, H
<1>6. T \subseteq Taken \union C /\ C \union K \union H \subseteq Kept \union Here
  BY <1>1, <1>3
<1>7. Before(T, K) /\ Before(T, H) /\ Before(T, Coming)
  BY <1>1, <1>5, <1>6 DEF Before
<1>8. Before(K, Coming) /\ Before(H, Coming)
  BY <1>5, <1>6 DEF Before
<1>9. Flow' \subseteq Flow
  BY <1>4, <1>6
<1>10. /\ \A x \in Flow' \union ToSet(down') : x.req <= serial
       /\ \A d \in ToSet(down') : d.req > 0
       /\ \A x \in Flow', d \in ToSet(down') : d.part = "tail" => x.req < d.req
  BY <1>2, <1>9 DEF FlowInv
<1>11. InOrder(up') /\ InOrder(down') /\ client' # "open" /\ serial' = serial
  BY <1>2 DEF FlowInv
<1>12. /\ ToSet(response') \subseteq Flow
       /\ Before(ToSet(response'), K \union H \union Coming)
  BY <1>1, <1>3, <1>4, <1>5, <1>6 DEF Before
<1>. QED  BY <1>1, <1>3, <1>7, <1>8, <1>9, <1>10, <1>11, <1>12 DEF FlowInv, T, K, H

LEMMA FlowDeliver ==
  ASSUME TypeOK, FlowInv, Deliver
  PROVE  FlowInv' /\ Flow' \subseteq Flow
<1>. DEFINE h == Head(up)  H == Here'  C == Coming'
<1>1. UNCHANGED <<down, client, cache, response, serial>> /\ up' = Tail(up) /\ up # <<>>
  BY DEF Deliver, calls
<1>2. /\ h \in Piece /\ up' \in Seq(Piece) /\ up = <<h>> \o up'
      /\ Coming = {h} \union C
  BY <1>1, HeadTailIs DEF TypeOK, Coming
<1>3. InOrder(up') /\ Before({h}, C)
  <2>. HIDE DEF h
  <2>1. InOrder(<<h>> \o up')
    BY <1>2 DEF FlowInv
  <2>2. InOrder(up') /\ Before({h}, ToSet(up'))
    BY ONLY <1>2, <2>1, InOrderFirst
  <2>. QED  BY <2>2 DEF Coming
<1>4. Taken' = Taken /\ Kept' = Kept
  BY <1>1 DEF Taken, Kept
<1>5. H \subseteq Here \union {h} /\ InOrder(tty')
  <2>1. CASE UNCHANGED tty
    BY <2>1 DEF Here, FlowInv
  <2>2. CASE tty' = Append(tty, h)
    <3>1. tty \in Seq(Piece)
      BY DEF TypeOK
    <3>2. Append(tty, h) = tty \o <<h>> /\ ToSet(Append(tty, h)) = ToSet(tty) \union {h}
      BY <1>2, <3>1, AppendIs
    <3>3. <<h>> \in Seq(Piece) /\ ToSet(<<h>>) = {h} /\ InOrder(<<h>>)
      BY <1>2, OneElement, InOrderOne
    <3>4. InOrder(tty) /\ Before(ToSet(tty), {h})
      BY <1>2 DEF FlowInv, Before, Here
    <3>. HIDE DEF h
    <3>5. InOrder(tty \o <<h>>)
      BY <3>1, <3>3, <3>4, InOrderConcat
    <3>. QED  BY <2>2, <3>2, <3>5 DEF Here
  <2>. QED  BY <2>1, <2>2 DEF Deliver
<1>. HIDE DEF h, H, C
<1>6. /\ Flow = Taken \union Kept \union Here \union Coming
      /\ Flow' = Taken \union Kept \union H \union C
  BY <1>4 DEF Flow, H, C
<1>7. /\ Before(Taken, Kept) /\ Before(Taken, Here) /\ Before(Taken, Coming)
      /\ Before(Kept, Here) /\ Before(Kept, Coming) /\ Before(Here, Coming)
  BY DEF FlowInv
<1>8. /\ Before(Taken, H) /\ Before(Taken, C) /\ Before(Kept, H) /\ Before(Kept, C)
      /\ Before(H, C)
  BY <1>2, <1>3, <1>5, <1>7 DEF Before
<1>9. Flow' \subseteq Flow
  BY <1>2, <1>5, <1>6
<1>10. /\ \A x \in Flow' \union ToSet(down') :
            x.req <= serial' /\ (client' = "open" => x.req < serial')
       /\ \A d \in ToSet(down') : d.req > 0
       /\ \A x \in Flow', d \in ToSet(down') : d.part = "tail" => x.req < d.req
       /\ InOrder(cache') /\ InOrder(down')
  BY <1>1, <1>9 DEF FlowInv
<1>. QED  BY <1>3, <1>4, <1>5, <1>7, <1>8, <1>9, <1>10 DEF FlowInv, H, C

\* A line is served: its answer comes after all that is on its way, and before
\* the answers to the lines that wait.
LEMMA FlowServe ==
  ASSUME TypeOK, FlowInv, Serve
  PROVE  /\ FlowInv' /\ ToSet(down') \subseteq ToSet(down)
         /\ \A x \in Flow' :
              x \in Flow \/ (Head(down).part = "tail" /\ x.req \in {0, Head(down).req})
         /\ Head(down) \in ToSet(down)
         /\ \A d \in ToSet(down') : d.part = "tail" /\ Head(down).part = "tail" =>
                                      Head(down).req < d.req
<1>. DEFINE h == Head(down)  D == ToSet(down')  C == Coming'
<1>1. UNCHANGED <<client, cache, tty, response, serial>> /\ down' = Tail(down) /\ down # <<>>
  BY DEF Serve, calls
<1>2. /\ h \in Piece /\ down' \in Seq(Piece) /\ down = <<h>> \o down'
      /\ ToSet(down) = {h} \union D
  BY <1>1, HeadTailIs DEF TypeOK
<1>3. InOrder(down') /\ Before({h}, D)
  <2>. HIDE DEF h
  <2>1. InOrder(<<h>> \o down')
    BY <1>2 DEF FlowInv
  <2>2. InOrder(down') /\ Before({h}, ToSet(down'))
    BY ONLY <1>2, <2>1, InOrderFirst
  <2>. QED  BY <2>2
<1>4. Taken' = Taken /\ Kept' = Kept /\ Here' = Here
  BY <1>1 DEF Taken, Kept, Here
<1>5. \/ up' = up
      \/ h.part = "tail" /\ \E r \in {0, h.req} : up' = up \o Whole(r)
  BY DEF Serve
<1>6. h \in ToSet(down) /\ D \subseteq ToSet(down)
  BY <1>2
<1>. HIDE DEF h
<1>7. \A x \in Flow : h.part = "tail" => x.req < h.req /\ x.req \in Nat
  BY <1>6, PieceTypes DEF FlowInv
<1>8. h.req <= serial /\ h.req \in Nat /\ serial \in Nat /\ (client = "open" => h.req < serial)
      /\ h.req > 0
  BY <1>2, <1>6, PieceTypes DEF FlowInv
<1>9. /\ InOrder(up')
      /\ \A x \in C : x \in Coming \/ (h.part = "tail" /\ x.req \in {0, h.req})
  <2>1. CASE up' = up
    BY <2>1 DEF Coming, FlowInv
  <2>2. CASE h.part = "tail" /\ \E r \in {0, h.req} : up' = up \o Whole(r)
    <3>1. PICK r \in {0, h.req} : up' = up \o Whole(r)
      BY <2>2
    <3>2. r \in 0 .. MaxRequests
      BY <1>2 DEF Piece
    <3>3. Whole(r) \in Seq(Piece) /\ InOrder(Whole(r)) /\ \A x \in ToSet(Whole(r)) : x.req = r
      BY <3>2, WholeIs
    <3>4. up \in Seq(Piece) /\ InOrder(up)
      BY DEF TypeOK, FlowInv
    <3>5. \A x \in ToSet(up) : x.req < h.req
      BY <1>7, <2>2 DEF Flow, Coming
    <3>6. Before(ToSet(up), ToSet(Whole(r)))
      BY <3>1, <3>3, <3>5 DEF Before, Earlier
    <3>7. InOrder(up') /\ ToSet(up') = ToSet(up) \union ToSet(Whole(r))
      BY <3>1, <3>3, <3>4, <3>6, InOrderConcat, ConcatIs
    <3>8. \A x \in C : x \in Coming \/ x.req = r
      BY <3>3, <3>7 DEF Coming
    <3>. QED  BY <2>2, <3>1, <3>7, <3>8
  <2>. QED  BY <1>5, <2>1, <2>2
<1>. HIDE DEF C, D
<1>10. /\ Flow = Taken \union Kept \union Here \union Coming
       /\ Flow' = Taken \union Kept \union Here \union C
  BY <1>4 DEF Flow, C
<1>11. \A x \in Flow' : x \in Flow \/ (h.part = "tail" /\ x.req \in {0, h.req})
  BY <1>9, <1>10
<1>12. ASSUME NEW X, X \subseteq Flow, Before(X, Coming)
       PROVE  Before(X, C)
  <2>1. ASSUME NEW x \in X, NEW y \in C
        PROVE  Earlier(x, y)
    <3>1. CASE y \in Coming
      BY <1>12, <3>1 DEF Before
    <3>2. CASE h.part = "tail" /\ y.req \in {0, h.req}
      <4>1. x.req < h.req
        BY <1>7, <1>12, <3>2
      <4>. QED  BY <3>2, <4>1 DEF Earlier
    <3>. QED  BY <1>9, <3>1, <3>2
  <2>. QED  BY <2>1 DEF Before
<1>13. Before(Taken, C) /\ Before(Kept, C) /\ Before(Here, C)
  <2>1. Taken \subseteq Flow /\ Kept \subseteq Flow /\ Here \subseteq Flow
    BY <1>10
  <2>2. Before(Taken, Coming) /\ Before(Kept, Coming) /\ Before(Here, Coming)
    BY DEF FlowInv
  <2>. QED  BY <1>12, <2>1, <2>2
<1>14. \A d \in D : d.part = "tail" /\ h.part = "tail" => h.req < d.req
  <2>1. \A d \in D : d.req > 0
    BY <1>6 DEF FlowInv
  <2>. QED  BY <1>3, <1>8, <2>1 DEF Before, Earlier
<1>15. \A x \in Flow' \union D : x.req <= serial /\ (client = "open" => x.req < serial)
  <2>1. \A x \in Flow \union D : x.req <= serial /\ (client = "open" => x.req < serial)
    BY <1>6 DEF FlowInv
  <2>2. \A x \in Flow' : x \in Flow \/ x.req = 0 \/ x.req = h.req
    BY <1>11
  <2>3. 0 <= serial /\ (client = "open" => 0 < serial)
    BY <1>8
  <2>4. \A x \in Flow' : x.req <= serial /\ (client = "open" => x.req < serial)
    BY <1>8, <2>1, <2>2, <2>3
  <2>. QED  BY <2>1, <2>4
<1>16. \A d \in D : d.req > 0 /\ d.req \in Nat
  BY <1>6, PieceTypes DEF FlowInv
<1>17. ASSUME NEW x \in Flow', NEW d \in D, d.part = "tail"
       PROVE  x.req < d.req
  <2>1. CASE x \in Flow
    BY <1>6, <1>17, <2>1 DEF FlowInv
  <2>2. CASE h.part = "tail" /\ x.req \in {0, h.req}
    BY <1>14, <1>16, <1>17, <2>2
  <2>. QED  BY <1>11, <2>1, <2>2
<1>18. serial' = serial /\ client' = client /\ InOrder(cache') /\ InOrder(tty')
  BY <1>1 DEF FlowInv
<1>19. Before(Taken, Kept) /\ Before(Taken, Here) /\ Before(Kept, Here)
  BY DEF FlowInv
<1>20. FlowInv'
  BY <1>3, <1>4, <1>9, <1>13, <1>15, <1>16, <1>17, <1>18, <1>19 DEF FlowInv, C, D
<1>. QED  BY <1>6, <1>11, <1>14, <1>20 DEF h, D

LEMMA FlowStep ==
  ASSUME TypeOK, CallInv, FlowInv, Next
  PROVE  FlowInv'
<1>1. /\ serial \in Nat /\ \A x \in Flow \union ToSet(down) : x.req \in Nat /\ x.req <= serial
      /\ down \in Seq(Piece) /\ up \in Seq(Piece)
      /\ InOrder(cache) /\ InOrder(tty) /\ InOrder(up) /\ InOrder(down)
  BY PieceTypes DEF FlowInv, TypeOK
<1>2. CASE Open
  <2>1. /\ client = "closed" /\ client' = "open" /\ serial' = serial + 1 /\ tty' = <<>>
        /\ UNCHANGED <<down, up, cache, response>>
    BY <1>2 DEF Open
  <2>2. /\ Taken' = Taken /\ Kept' = Kept /\ Here' = {} /\ Coming' = Coming
        /\ InOrder(tty')
    BY <2>1, InOrderNone DEF Taken, Kept, Here, Coming
  <2>3. \A x \in Flow \union ToSet(down) : x.req < serial'
    BY <1>1, <2>1
  <2>4. serial' \in Nat /\ serial <= serial'
    BY <1>1, <2>1
  <2>. QED  BY <1>1, <2>1, <2>2, <2>3, <2>4, FlowLess
<1>3. CASE Request
  <2>1. serial > 0 /\ serial \in 0 .. MaxRequests
    BY <1>3 DEF Request, CallInv, TypeOK
  <2>2. /\ Whole(serial) \in Seq(Piece) /\ InOrder(Whole(serial))
        /\ \A x \in ToSet(Whole(serial)) : x.req = serial
    BY <2>1, WholeIs
  <2>3. /\ client = "open" /\ client' = "waiting" /\ down' = down \o Whole(serial)
        /\ UNCHANGED <<cache, tty, up, response, serial>>
    BY <1>3 DEF Request, calls
  <2>. QED  BY <2>1, <2>2, <2>3, FlowSends
<1>4. CASE Read
  BY <1>4, ReadIs, FlowRead
<1>5. CASE Timeout
  <2>1. client' = "done" /\ UNCHANGED <<down, up, tty, cache, response, serial>>
    BY <1>5 DEF Timeout, End, link
  <2>2. /\ Taken' \subseteq Taken /\ Kept' = Kept /\ Here' = Here /\ Coming' = Coming
    BY <2>1 DEF Taken, Kept, Here, Coming
  <2>. QED  BY <1>1, <2>1, <2>2, FlowLess
<1>6. CASE Fail
  <2>1. client' = "done" /\ UNCHANGED <<up, tty, cache, response, serial>>
    BY <1>6 DEF Fail, End
  <2>2. CASE UNCHANGED down
    <3>1. /\ Taken' \subseteq Taken /\ Kept' = Kept /\ Here' = Here /\ Coming' = Coming
      BY <2>1 DEF Taken, Kept, Here, Coming
    <3>. QED  BY <1>1, <2>1, <2>2, <3>1, FlowLess
  <2>3. CASE client = "open" /\ down' = Append(down, Whole(serial)[1])
    <3>. DEFINE h == Whole(serial)[1]
    <3>1. serial > 0 /\ serial \in 0 .. MaxRequests
      BY <2>3 DEF CallInv, TypeOK
    <3>2. h \in Piece /\ h.req = serial
      BY <3>1, WholeIs
    <3>. HIDE DEF h
    <3>3. /\ <<h>> \in Seq(Piece) /\ InOrder(<<h>>) /\ \A x \in ToSet(<<h>>) : x.req = serial
          /\ Append(down, h) = down \o <<h>>
      BY <1>1, <3>2, OneElement, InOrderOne, AppendIs
    <3>4. down' = down \o <<h>>
      BY <2>3, <3>3 DEF h
    <3>. QED  BY <2>1, <2>3, <3>1, <3>3, <3>4, FlowSends
  <2>. QED  BY <1>6, <2>2, <2>3 DEF Fail
<1>7. CASE Close
  <2>1. PICK n \in 0 .. Len(down) : down' = SubSeq(down, 1, n)
    BY <1>7 DEF Close
  <2>2. ToSet(down') \subseteq ToSet(down) /\ InOrder(down')
    BY <1>1, <2>1, PartsInOrder
  <2>3. /\ client' = "closed" /\ tty' = <<>> /\ cache' = <<>> /\ response' = <<>>
        /\ UNCHANGED <<up, serial>>
    BY <1>7 DEF Close, calls
  <2>4. /\ Taken' = {} /\ Kept' = {} /\ Here' = {} /\ Coming' = Coming
        /\ InOrder(tty') /\ InOrder(cache')
    BY <2>3, InOrderNone DEF Taken, Kept, Here, Coming
  <2>. QED  BY <1>1, <2>2, <2>3, <2>4, FlowLess
<1>8. CASE Deliver
  BY <1>8, FlowDeliver
<1>9. CASE Serve
  BY <1>9, FlowServe
<1>10. CASE LineError
  <2>1. PICK n \in 0 .. Len(down) : down' = SubSeq(down, n + 1, Len(down))
    BY <1>10 DEF LineError
  <2>2. ToSet(down') \subseteq ToSet(down) /\ InOrder(down')
    BY <1>1, <2>1, PartsInOrder
  <2>3. PICK m \in 0 .. Len(up) : up' = SubSeq(up, 1, Len(up) - m)
    BY <1>10 DEF LineError
  <2>4. Len(up) - m \in 0 .. Len(up)
    BY <1>1
  <2>5. Coming' \subseteq Coming /\ InOrder(up')
    BY <1>1, <2>3, <2>4, PartsInOrder DEF Coming
  <2>6. UNCHANGED <<tty, client, cache, response, serial>>
    BY <1>10 DEF LineError, calls
  <2>7. Taken' = Taken /\ Kept' = Kept /\ Here' = Here
    BY <2>6 DEF Taken, Kept, Here
  <2>8. client' = "open" => \A x \in Flow \union ToSet(down) : x.req < serial'
    BY <2>6 DEF FlowInv
  <2>. QED  BY <1>1, <2>2, <2>5, <2>6, <2>7, <2>8, FlowLess
<1>. QED  BY <1>2, <1>3, <1>4, <1>5, <1>6, <1>7, <1>8, <1>9, <1>10 DEF Next

(***************************************************************************)
(* The order of what the calls returned.                                   *)
(***************************************************************************)

LEMMA ResultTypes ==
  ASSUME TypeOK
  PROVE  /\ Len(results) \in Nat
         /\ \A i \in 1 .. Len(results) :
              /\ results[i].req \in Nat /\ results[i].got \in Seq(Piece)
              /\ ToSet(results[i].got) \subseteq Piece
<1>1. results \in Seq(ResultType)
  BY TypeParts DEF ResultsOK
<1>2. \A i \in 1 .. Len(results) : results[i] \in ResultType
  BY <1>1
<1>3. ASSUME NEW i \in 1 .. Len(results)
      PROVE  /\ results[i].req \in Nat /\ results[i].got \in Seq(Piece)
             /\ ToSet(results[i].got) \subseteq Piece
  <2>1. results[i].req \in Nat /\ results[i].got \in Seq(Piece)
    BY <1>2 DEF ResultType
  <2>. QED  BY <2>1, ElementsAre
<1>. QED  BY <1>1, <1>3

LEMMA GotSame ==
  ASSUME TypeOK, GotInv, UNCHANGED results, Flow' \subseteq Flow,
         ToSet(down') \subseteq ToSet(down)
  PROVE  GotInv'
<1>. DEFINE Got(i) == ToSet(results[i].got)
<1>1. /\ \A i \in 1 .. Len(results) :
           /\ \A x \in Got(i) : x.req <= results[i].req
           /\ Before(Got(i), Flow)
           /\ \A x \in Got(i), d \in ToSet(down) : d.part = "tail" => x.req < d.req
      /\ \A i, j \in 1 .. Len(results) : i < j => Before(Got(i), Got(j))
  BY DEF GotInv
<1>. HIDE DEF Got
<1>2. \A i \in 1 .. Len(results) :
        /\ Before(Got(i), Flow')
        /\ \A x \in Got(i), d \in ToSet(down') : d.part = "tail" => x.req < d.req
  BY <1>1 DEF Before
<1>. QED  BY <1>1, <1>2 DEF GotInv, Got

\* The line of a request is written.
LEMMA GotSends ==
  ASSUME TypeOK, GotInv, CallInv, UNCHANGED results, Flow' \subseteq Flow,
         client \in {"open", "waiting"},
         \A d \in ToSet(down') : d \in ToSet(down) \/ d.req = serial
  PROVE  GotInv'
<1>. DEFINE Got(i) == ToSet(results[i].got)
<1>1. /\ \A i \in 1 .. Len(results) :
           /\ \A x \in Got(i) : x.req <= results[i].req
           /\ Before(Got(i), Flow)
           /\ \A x \in Got(i), d \in ToSet(down) : d.part = "tail" => x.req < d.req
      /\ \A i, j \in 1 .. Len(results) : i < j => Before(Got(i), Got(j))
  BY DEF GotInv
<1>2. \A i \in 1 .. Len(results) :
        /\ results[i].req < serial /\ results[i].req \in Nat
        /\ \A x \in Got(i) : x.req \in Nat
  BY ResultTypes, PieceTypes DEF CallInv
<1>3. serial \in Nat
  BY PieceTypes
<1>. HIDE DEF Got
<1>4. ASSUME NEW i \in 1 .. Len(results), NEW x \in Got(i)
      PROVE  x.req < serial
  BY <1>1, <1>2, <1>3
<1>5. \A i \in 1 .. Len(results) :
        /\ Before(Got(i), Flow')
        /\ \A x \in Got(i), d \in ToSet(down') : d.part = "tail" => x.req < d.req
  BY <1>1, <1>4 DEF Before
<1>. QED  BY <1>1, <1>5 DEF GotInv, Got

LEMMA GotServes ==
  ASSUME TypeOK, GotInv, FlowInv, Serve
  PROVE  GotInv'
<1>. DEFINE Got(i) == ToSet(results[i].got)  h == Head(down)
<1>1. /\ \A i \in 1 .. Len(results) :
           /\ \A x \in Got(i) : x.req <= results[i].req
           /\ Before(Got(i), Flow)
           /\ \A x \in Got(i), d \in ToSet(down) : d.part = "tail" => x.req < d.req
      /\ \A i, j \in 1 .. Len(results) : i < j => Before(Got(i), Got(j))
  BY DEF GotInv
<1>2. UNCHANGED results
  BY DEF Serve, calls
<1>3. /\ ToSet(down') \subseteq ToSet(down) /\ h \in ToSet(down)
      /\ \A y \in Flow' : y \in Flow \/ (h.part = "tail" /\ y.req \in {0, h.req})
  BY FlowServe
<1>. HIDE DEF Got, h
<1>4. ASSUME NEW i \in 1 .. Len(results), NEW x \in Got(i), NEW y \in Flow'
      PROVE  Earlier(x, y)
  <2>1. CASE y \in Flow
    BY <1>1, <2>1 DEF Before
  <2>2. CASE h.part = "tail" /\ y.req \in {0, h.req}
    <3>1. x.req < h.req
      BY <1>1, <1>3, <2>2
    <3>. QED  BY <2>2, <3>1 DEF Earlier
  <2>. QED  BY <1>3, <2>1, <2>2
<1>5. \A i \in 1 .. Len(results) :
        /\ Before(Got(i), Flow')
        /\ \A x \in Got(i), d \in ToSet(down') : d.part = "tail" => x.req < d.req
  BY <1>1, <1>3, <1>4 DEF Before
<1>. QED  BY <1>1, <1>2, <1>5 DEF GotInv, Got

\* A call ends with pieces that were on their way before all the others.
LEMMA GotEnds ==
  ASSUME TypeOK, GotInv, FlowInv, serial > 0,
         NEW threw \in BOOLEAN, NEW got \in Seq(Piece), End(threw, got), UNCHANGED serial,
         ToSet(got) \subseteq Flow, Flow' \subseteq Flow, Before(ToSet(got), Flow'),
         \A d \in ToSet(down') : d \in ToSet(down) \/ d.part = "head"
  PROVE  GotInv'
<1>. DEFINE Got(i) == ToSet(results[i].got)  r == results'  n == Len(results)  G == ToSet(got)
<1>1. /\ \A i \in 1 .. n :
           /\ \A x \in Got(i) : x.req <= results[i].req
           /\ Before(Got(i), Flow)
           /\ \A x \in Got(i), d \in ToSet(down) : d.part = "tail" => x.req < d.req
      /\ \A i, j \in 1 .. n : i < j => Before(Got(i), Got(j))
  BY DEF GotInv
<1>2. /\ Len(r) = n + 1 /\ n \in Nat
      /\ \A i \in 1 .. n : r[i] = results[i]
      /\ r[n + 1].req = serial /\ r[n + 1].got = got
      /\ \A i \in 1 .. Len(r) : i \in 1 .. n \/ i = n + 1
  BY EndIs
<1>3. \A i \in 1 .. n : ToSet(r[i].got) = Got(i) /\ r[i].req = results[i].req
  BY <1>2
<1>4. ToSet(r[n + 1].got) = G
  BY <1>2
<1>5. /\ \A x \in G : x.req <= serial
      /\ \A x \in G, d \in ToSet(down) : d.part = "tail" => x.req < d.req
  BY DEF FlowInv
<1>6. /\ G \subseteq Flow /\ Before(G, Flow')
      /\ \A d \in ToSet(down') : d.part = "tail" => d \in ToSet(down)
  OBVIOUS
<1>. HIDE DEF Got, r, n, G
<1>7. ASSUME NEW i \in 1 .. Len(r)
      PROVE  /\ \A x \in ToSet(r[i].got) : x.req <= r[i].req
             /\ Before(ToSet(r[i].got), Flow')
             /\ \A x \in ToSet(r[i].got), d \in ToSet(down') : d.part = "tail" => x.req < d.req
  <2>1. CASE i \in 1 .. n
    BY <1>1, <1>3, <1>6, <2>1 DEF Before
  <2>2. CASE i = n + 1
    BY <1>2, <1>4, <1>5, <1>6, <2>2
  <2>. QED  BY <1>2, <2>1, <2>2
<1>8. ASSUME NEW i \in 1 .. Len(r), NEW j \in 1 .. Len(r), i < j
      PROVE  Before(ToSet(r[i].got), ToSet(r[j].got))
  <2>1. i \in 1 .. n
    BY <1>2, <1>8
  <2>2. CASE j \in 1 .. n
    BY <1>1, <1>3, <1>8, <2>1, <2>2
  <2>3. CASE j = n + 1
    BY <1>1, <1>3, <1>4, <1>6, <2>1, <2>3 DEF Before
  <2>. QED  BY <1>2, <2>2, <2>3
<1>. QED  BY <1>7, <1>8 DEF GotInv, r

LEMMA GotStep ==
  ASSUME TypeOK, CallInv, FlowInv, GotInv, Next
  PROVE  GotInv'
<1>1. down \in Seq(Piece) /\ up \in Seq(Piece) /\ response \in Seq(Piece) /\ <<>> \in Seq(Piece)
  BY DEF TypeOK
<1>2. CASE Open
  <2>1. /\ client = "closed" /\ client' = "open" /\ tty' = <<>>
        /\ UNCHANGED <<down, up, cache, response, results>>
    BY <1>2 DEF Open
  <2>2. Flow' \subseteq Flow
    BY <2>1, InOrderNone DEF Flow, Taken, Kept, Here, Coming
  <2>. QED  BY <2>1, <2>2, GotSame
<1>3. CASE Request
  <2>1. serial \in 0 .. MaxRequests
    BY DEF TypeOK
  <2>2. Whole(serial) \in Seq(Piece) /\ \A x \in ToSet(Whole(serial)) : x.req = serial
    BY <2>1, WholeIs
  <2>3. /\ client = "open" /\ client' = "waiting" /\ down' = down \o Whole(serial)
        /\ UNCHANGED <<cache, tty, up, response, results>>
    BY <1>3 DEF Request, calls
  <2>4. ToSet(down') = ToSet(down) \union ToSet(Whole(serial))
    BY <1>1, <2>2, <2>3, ConcatIs
  <2>5. Flow' \subseteq Flow
    BY <2>3 DEF Flow, Taken, Kept, Here, Coming
  <2>. QED  BY <2>2, <2>3, <2>4, <2>5, GotSends
<1>4. CASE Read
  <2>1. PICK chunk : ReadTakes(chunk)
    BY <1>4, ReadIs
  <2>2. /\ Flow' \subseteq Flow /\ ToSet(response') \subseteq Flow
        /\ Before(ToSet(response'), Kept' \union Here' \union Coming')
    BY <2>1, FlowRead
  <2>3. client = "waiting" /\ UNCHANGED <<down, serial>> /\ serial > 0
    BY <2>1 DEF ReadTakes, CallInv
  <2>4. CASE chunk[Len(chunk)].part = "tail"
    <3>1. End(FALSE, response') /\ client' = "done"
      BY <2>1, <2>4 DEF ReadTakes, End
    <3>2. Flow' = Kept' \union Here' \union Coming'
      BY <3>1 DEF Flow, Taken
    <3>3. response' \in Seq(Piece)
      BY <2>1, ReadOrder
    <3>. QED  BY <2>2, <2>3, <3>1, <3>2, <3>3, GotEnds
  <2>5. CASE chunk[Len(chunk)].part # "tail"
    <3>1. UNCHANGED results
      BY <2>1, <2>5 DEF ReadTakes
    <3>. QED  BY <2>2, <2>3, <3>1, GotSame
  <2>. QED  BY <2>4, <2>5
<1>5. CASE Timeout
  <2>1. /\ client = "waiting" /\ cache = <<>> /\ tty = <<>> /\ up = <<>>
        /\ End(FALSE, response) /\ client' = "done"
        /\ UNCHANGED <<down, up, tty, cache, response, serial>>
    BY <1>5 DEF Timeout, End, link
  <2>2. Flow' = {} /\ ToSet(response) \subseteq Flow /\ serial > 0
    BY <2>1, InOrderNone DEF Flow, Taken, Kept, Here, Coming, CallInv
  <2>3. Before(ToSet(response), Flow')
    BY <2>2 DEF Before
  <2>. QED  BY <1>1, <2>1, <2>2, <2>3, GotEnds
<1>6. CASE Fail
  <2>1. End(TRUE, <<>>) /\ client' = "done" /\ UNCHANGED <<up, tty, cache, response, serial>>
    BY <1>6 DEF Fail, End
  <2>2. Flow' \subseteq Flow
    BY <2>1 DEF Flow, Taken, Kept, Here, Coming
  <2>3. ToSet(<<>>) \subseteq Flow /\ Before(ToSet(<<>>), Flow') /\ serial > 0
    BY <1>6, InOrderNone DEF Before, CallInv, Fail
  <2>4. \A d \in ToSet(down') : d \in ToSet(down) \/ d.part = "head"
    <3>. DEFINE h == Whole(serial)[1]
    <3>1. serial \in 0 .. MaxRequests
      BY DEF TypeOK
    <3>2. h \in Piece /\ h.part = "head"
      BY <3>1, WholeIs
    <3>3. down' \in {down, Append(down, h)}
      BY <1>6 DEF Fail
    <3>. HIDE DEF h
    <3>4. down \in Seq(Piece)
      BY <1>1
    <3>5. Append(down, h) = down \o <<h>> /\ ToSet(Append(down, h)) = ToSet(down) \union {h}
      BY <3>2, <3>4, AppendIs
    <3>6. ToSet(down') = ToSet(down) \/ ToSet(down') = ToSet(down) \union {h}
      BY ONLY <3>3, <3>4, <3>5
    <3>. QED  BY ONLY <3>2, <3>6
  <2>. QED  BY <1>1, <2>1, <2>2, <2>3, <2>4, GotEnds
<1>7. CASE Close
  <2>1. PICK n \in 0 .. Len(down) : down' = SubSeq(down, 1, n)
    BY <1>7 DEF Close
  <2>2. ToSet(down') \subseteq ToSet(down)
    BY <1>1, <2>1, PartsInOrder
  <2>3. /\ client' = "closed" /\ tty' = <<>> /\ cache' = <<>> /\ response' = <<>>
        /\ UNCHANGED <<up, results>>
    BY <1>7 DEF Close, calls
  <2>4. Flow' \subseteq Flow
    BY <2>3, InOrderNone DEF Flow, Taken, Kept, Here, Coming
  <2>. QED  BY <2>2, <2>3, <2>4, GotSame
<1>8. CASE Deliver
  <2>1. UNCHANGED <<down, results>>
    BY <1>8 DEF Deliver, calls
  <2>2. Flow' \subseteq Flow
    BY <1>8, FlowDeliver
  <2>. QED  BY <2>1, <2>2, GotSame
<1>9. CASE Serve
  BY <1>9, GotServes
<1>10. CASE LineError
  <2>1. PICK n \in 0 .. Len(down) : down' = SubSeq(down, n + 1, Len(down))
    BY <1>10 DEF LineError
  <2>2. ToSet(down') \subseteq ToSet(down)
    BY <1>1, <2>1, PartsInOrder
  <2>3. PICK m \in 0 .. Len(up) : up' = SubSeq(up, 1, Len(up) - m)
    BY <1>10 DEF LineError
  <2>4. Len(up) - m \in 0 .. Len(up)
    BY <1>1
  <2>5. Coming' \subseteq Coming
    BY <1>1, <2>3, <2>4, PartsInOrder DEF Coming
  <2>6. UNCHANGED <<tty, client, cache, response, results>>
    BY <1>10 DEF LineError, calls
  <2>7. Flow' \subseteq Flow
    BY <2>5, <2>6 DEF Flow, Taken, Kept, Here
  <2>. QED  BY <2>2, <2>6, <2>7, GotSame
<1>. QED  BY <1>2, <1>3, <1>4, <1>5, <1>6, <1>7, <1>8, <1>9, <1>10 DEF Next

(***************************************************************************)
(* What a call on a quiet link meets.                                      *)
(***************************************************************************)

\* Nothing new comes near the client but of its own request.
OnlyOwn == \A x \in Around' : x \in Around \/ x.req \in {0, serial}
                              \/ \E d \in ToSet(down) : x.req = d.req

LEMMA OwnIs ==
  ASSUME QuietInv, OnlyOwn, quiet, client # "closed"
  PROVE  \A x \in Around' : x.req \in {0, serial}
<1>1. \A x \in Around : x.req \in {0, serial}
  BY DEF QuietInv
<1>2. ToSet(down) \subseteq Around
  BY DEF Around
<1>. QED  BY <1>1, <1>2 DEF OnlyOwn

LEMMA QuietSame ==
  ASSUME QuietInv, UNCHANGED <<results, quiet, serial>>, OnlyOwn,
         client' # "closed" => client # "closed"
  PROVE  QuietInv'
<1>1. quiet' /\ client' # "closed" => \A x \in Around' : x.req \in {0, serial'}
  BY OwnIs
<1>. QED  BY <1>1 DEF QuietInv

LEMMA QuietEnds ==
  ASSUME TypeOK, QuietInv, OnlyOwn, serial > 0, client # "closed",
         NEW threw \in BOOLEAN, NEW got \in Seq(Piece), End(threw, got),
         UNCHANGED <<quiet, serial>>, ToSet(got) \subseteq Around'
  PROVE  QuietInv'
<1>. DEFINE r == results'  n == Len(results)
<1>1. /\ \A i \in 1 .. n : r[i] = results[i]
      /\ r[n + 1].req = serial /\ r[n + 1].quiet = quiet /\ r[n + 1].got = got
      /\ \A i \in 1 .. Len(r) : i \in 1 .. n \/ i = n + 1
  BY EndIs
<1>2. quiet => \A x \in Around' : x.req \in {0, serial}
  BY OwnIs
<1>3. \A i \in 1 .. n :
        results[i].quiet => \A x \in ToSet(results[i].got) : x.req \in {0, results[i].req}
  BY DEF QuietInv
<1>. HIDE DEF r, n
<1>4. ASSUME NEW i \in 1 .. Len(r), r[i].quiet
      PROVE  \A x \in ToSet(r[i].got) : x.req \in {0, r[i].req}
  <2>1. CASE i \in 1 .. n
    BY <1>1, <1>3, <1>4, <2>1
  <2>2. CASE i = n + 1
    <3>1. quiet
      BY <1>1, <1>4, <2>2
    <3>. QED  BY <1>1, <1>2, <2>2, <3>1
  <2>. QED  BY <1>1, <2>1, <2>2
<1>. QED  BY <1>2, <1>4 DEF QuietInv, r

LEMMA QuietStep ==
  ASSUME TypeOK, CallInv, FlowInv, QuietInv, Next
  PROVE  QuietInv'
<1>1. down \in Seq(Piece) /\ up \in Seq(Piece) /\ response \in Seq(Piece) /\ <<>> \in Seq(Piece)
      /\ serial \in 0 .. MaxRequests
  BY DEF TypeOK
<1>2. CASE Open
  <2>1. /\ client = "closed" /\ quiet' = Quiet /\ tty' = <<>>
        /\ UNCHANGED <<down, up, cache, response, results>>
    BY <1>2 DEF Open
  <2>2. cache = <<>> /\ response = <<>>
    BY <2>1 DEF CallInv
  <2>3. quiet' => Around' = {}
    BY <2>1, <2>2, InOrderNone DEF Quiet, Around, Kept, Here, Coming
  <2>. QED  BY <2>1, <2>3 DEF QuietInv
<1>3. CASE Request
  <2>1. Whole(serial) \in Seq(Piece) /\ \A x \in ToSet(Whole(serial)) : x.req = serial
    BY <1>1, WholeIs
  <2>2. /\ client = "open" /\ down' = down \o Whole(serial)
        /\ UNCHANGED <<cache, tty, up, response, results, quiet, serial>>
    BY <1>3 DEF Request, calls
  <2>3. ToSet(down') = ToSet(down) \union ToSet(Whole(serial))
    BY <1>1, <2>1, <2>2, ConcatIs
  <2>4. Around' = Around \union ToSet(Whole(serial))
    BY <2>2, <2>3 DEF Around, Kept, Here, Coming
  <2>5. OnlyOwn
    BY <2>1, <2>4 DEF OnlyOwn
  <2>. QED  BY <2>2, <2>5, QuietSame
<1>4. CASE Read
  <2>1. PICK chunk : ReadTakes(chunk)
    BY <1>4, ReadIs
  <2>2. /\ Kept \union Here = ToSet(chunk) \union Kept' \union Here'
        /\ ToSet(response') = ToSet(response) \union ToSet(chunk) /\ response' \in Seq(Piece)
    BY <2>1, ReadOrder
  <2>3. client = "waiting" /\ UNCHANGED <<down, up, serial, quiet>> /\ serial > 0
    BY <2>1 DEF ReadTakes, CallInv
  <2>4. Around' \subseteq Around /\ ToSet(response') \subseteq Around'
    BY <2>2, <2>3 DEF Around, Coming
  <2>5. OnlyOwn
    BY <2>4 DEF OnlyOwn
  <2>6. CASE chunk[Len(chunk)].part = "tail"
    <3>1. End(FALSE, response')
      BY <2>1, <2>6 DEF ReadTakes
    <3>. QED  BY <2>2, <2>3, <2>4, <2>5, <3>1, QuietEnds
  <2>7. CASE chunk[Len(chunk)].part # "tail"
    <3>1. UNCHANGED results
      BY <2>1, <2>7 DEF ReadTakes
    <3>. QED  BY <2>3, <2>5, <3>1, QuietSame
  <2>. QED  BY <2>6, <2>7
<1>5. CASE Timeout
  <2>1. /\ client = "waiting" /\ End(FALSE, response) /\ serial > 0
        /\ UNCHANGED <<down, up, tty, cache, response, serial, quiet>>
    BY <1>5 DEF Timeout, link, CallInv
  <2>2. Around' = Around /\ ToSet(response) \subseteq Around'
    BY <2>1 DEF Around, Kept, Here, Coming
  <2>3. OnlyOwn
    BY <2>2 DEF OnlyOwn
  <2>. QED  BY <1>1, <2>1, <2>2, <2>3, QuietEnds
<1>6. CASE Fail
  <2>1. /\ client # "closed" /\ End(TRUE, <<>>) /\ serial > 0
        /\ UNCHANGED <<up, tty, cache, response, serial, quiet>>
    BY <1>6 DEF Fail, CallInv
  <2>2. \A x \in ToSet(down') : x \in ToSet(down) \/ x.req = serial
    <3>. DEFINE h == Whole(serial)[1]
    <3>1. h \in Piece /\ h.req = serial
      BY <1>1, WholeIs
    <3>2. down' \in {down, Append(down, h)}
      BY <1>6 DEF Fail
    <3>. HIDE DEF h
    <3>3. down \in Seq(Piece)
      BY <1>1
    <3>4. Append(down, h) = down \o <<h>> /\ ToSet(Append(down, h)) = ToSet(down) \union {h}
      BY <3>1, <3>3, AppendIs
    <3>5. ToSet(down') = ToSet(down) \/ ToSet(down') = ToSet(down) \union {h}
      BY ONLY <3>2, <3>3, <3>4
    <3>. QED  BY ONLY <3>1, <3>5
  <2>3. OnlyOwn
    BY <2>1, <2>2 DEF OnlyOwn, Around, Kept, Here, Coming
  <2>4. ToSet(<<>>) \subseteq Around'
    BY InOrderNone
  <2>. QED  BY <1>1, <2>1, <2>3, <2>4, QuietEnds
<1>7. CASE Close
  <2>1. client' = "closed" /\ UNCHANGED results
    BY <1>7 DEF Close, calls
  <2>. QED  BY <2>1 DEF QuietInv
<1>8. CASE Deliver
  <2>. DEFINE h == Head(up)
  <2>1. /\ UNCHANGED <<down, client, cache, response, results, quiet, serial>>
        /\ up' = Tail(up) /\ up # <<>>
    BY <1>8 DEF Deliver, calls
  <2>2. h \in Piece /\ ToSet(up) = {h} \union ToSet(up')
    BY <1>1, <2>1, HeadTailIs
  <2>3. Here' \subseteq Here \union {h}
    <3>1. CASE UNCHANGED tty
      BY <3>1 DEF Here
    <3>2. CASE tty' = Append(tty, h)
      <4>1. tty \in Seq(Piece)
        BY DEF TypeOK
      <4>2. Append(tty, h) = tty \o <<h>> /\ ToSet(Append(tty, h)) = ToSet(tty) \union {h}
        BY <2>2, <4>1, AppendIs
      <4>. QED  BY <3>2, <4>2 DEF Here
    <3>. QED  BY <1>8, <3>1, <3>2 DEF Deliver
  <2>. HIDE DEF h
  <2>4. Around' \subseteq Around
    BY <2>1, <2>2, <2>3 DEF Around, Kept, Coming
  <2>5. OnlyOwn
    BY <2>4 DEF OnlyOwn
  <2>. QED  BY <2>1, <2>5, QuietSame
<1>9. CASE Serve
  <2>1. UNCHANGED <<client, cache, tty, response, results, quiet, serial>>
    BY <1>9 DEF Serve, calls
  <2>2. /\ ToSet(down') \subseteq ToSet(down) /\ Head(down) \in ToSet(down)
        /\ \A x \in ToSet(up') : x \in ToSet(up) \/ x.req \in {0, Head(down).req}
    <3>. DEFINE h == Head(down)
    <3>1. down # <<>> /\ down' = Tail(down)
      BY <1>9 DEF Serve
    <3>2. h \in Piece /\ ToSet(down) = {h} \union ToSet(down')
      BY <1>1, <3>1, HeadTailIs
    <3>3. \/ up' = up
          \/ \E r \in {0, h.req} : up' = up \o Whole(r)
      BY <1>9 DEF Serve
    <3>. HIDE DEF h
    <3>4. ASSUME NEW r \in {0, h.req}, up' = up \o Whole(r)
          PROVE  \A x \in ToSet(up') : x \in ToSet(up) \/ x.req \in {0, h.req}
      <4>1. r \in 0 .. MaxRequests
        BY <3>2 DEF Piece
      <4>2. Whole(r) \in Seq(Piece) /\ \A x \in ToSet(Whole(r)) : x.req = r
        BY <4>1, WholeIs
      <4>3. ToSet(up') = ToSet(up) \union ToSet(Whole(r))
        BY <1>1, <3>4, <4>2, ConcatIs
      <4>. QED  BY <4>2, <4>3
    <3>. QED  BY <3>2, <3>3, <3>4 DEF h
  <2>3. OnlyOwn
    BY <2>1, <2>2 DEF OnlyOwn, Around, Kept, Here, Coming
  <2>. QED  BY <2>1, <2>3, QuietSame
<1>10. CASE LineError
  <2>1. PICK n \in 0 .. Len(down) : down' = SubSeq(down, n + 1, Len(down))
    BY <1>10 DEF LineError
  <2>2. ToSet(down') \subseteq ToSet(down)
    BY <1>1, <2>1, PartsInOrder
  <2>3. PICK m \in 0 .. Len(up) : up' = SubSeq(up, 1, Len(up) - m)
    BY <1>10 DEF LineError
  <2>4. Len(up) - m \in 0 .. Len(up)
    BY <1>1
  <2>5. ToSet(up') \subseteq ToSet(up)
    BY <1>1, <2>3, <2>4, PartsInOrder
  <2>6. UNCHANGED <<tty, client, cache, response, results, quiet, serial>>
    BY <1>10 DEF LineError, calls
  <2>7. OnlyOwn
    BY <2>2, <2>5, <2>6 DEF OnlyOwn, Around, Kept, Here, Coming
  <2>. QED  BY <2>6, <2>7, QuietSame
<1>. QED  BY <1>2, <1>3, <1>4, <1>5, <1>6, <1>7, <1>8, <1>9, <1>10 DEF Next

(***************************************************************************)
(* A link without time-outs, failures and line errors.                     *)
(***************************************************************************)

\* What ends with a newline is the whole line.
LEMMA WholeSplit ==
  ASSUME NEW r \in 0 .. MaxRequests, NEW s \in Seq(Piece), NEW t \in Seq(Piece),
         s \o t = Whole(r), Len(s) > 0, s[Len(s)].part = "tail"
  PROVE  s = Whole(r) /\ t = <<>>
<1>. DEFINE w == Whole(r)
<1>1. Len(w) = 2 /\ w[1].part = "head"
  BY WholeIs
<1>2. /\ Len(s \o t) = Len(s) + Len(t) /\ Len(s) \in Nat /\ Len(t) \in Nat
      /\ \A i \in 1 .. Len(s) : (s \o t)[i] = s[i]
  BY ConcatIs
<1>3. s \o t = w
  OBVIOUS
<1>. HIDE DEF w
<1>4. Len(s) # 1
  <2>1. ASSUME Len(s) = 1
        PROVE  FALSE
    <3>1. w[1] = s[1]
      BY <1>2, <1>3, <2>1
    <3>. QED  BY <1>1, <2>1, <3>1
  <2>. QED  BY <2>1
<1>5. Len(t) = 0
  <2>1. Len(s) + Len(t) = 2
    BY <1>1, <1>2, <1>3
  <2>2. \A x, y \in Nat : x + y = 2 /\ x > 0 /\ x # 1 => y = 0
    OBVIOUS
  <2>. QED  BY <1>2, <1>4, <2>1, <2>2
<1>6. t = <<>> /\ s \o <<>> = s
  BY <1>5
<1>. QED  BY <1>3, <1>6 DEF w

\* Equality as a name, so that a prover does not take two sequences apart into
\* their elements when it looks for the lemma that says they are equal.
Same(s, t) == s = t

LEMMA Joined ==
  /\ \A a, b, c \in Seq(Piece) : Same((a \o b) \o c, a \o (b \o c))
  /\ \A a, b, c, d \in Seq(Piece) : Same(a \o b \o c \o d, a \o ((b \o c) \o d))
<1>1. \A a, b, c \in Seq(Piece) : Same((a \o b) \o c, a \o (b \o c))
  BY DEF Same
<1>2. \A a, b, c, d \in Seq(Piece) : Same(a \o b \o c \o d, a \o ((b \o c) \o d))
  BY DEF Same
<1>. QED  BY <1>1, <1>2

LEMMA AloneRead ==
  ASSUME TypeOK, CallInv, AloneInv, NEW chunk, ReadTakes(chunk)
  PROVE  AloneInv'
<1>. DEFINE S == Seq(Piece)  rest == cache' \o tty'
<1>1. /\ response \in S /\ cache \in S /\ tty \in S /\ up \in S /\ serial \in 0 .. MaxRequests
      /\ chunk \in S /\ cache' \in S /\ tty' \in S
  BY DEF TypeOK, ReadTakes
<1>2. /\ client = "waiting" /\ UNCHANGED <<down, up, line, serial>>
      /\ cache \o tty = chunk \o rest /\ Len(chunk) > 0 /\ response' = response \o chunk
  BY DEF ReadTakes
<1>3. rest \in S /\ response' \in S
  BY <1>1, <1>2, ConcatIs
<1>4. /\ line = <<>> /\ down = <<>>
      /\ response \o cache \o tty \o up = Whole(serial)
  <2>1. ASSUME cache = <<>>, tty = <<>>
        PROVE  FALSE
    <3>1. Len(cache \o tty) = 0
      BY <2>1
    <3>2. Len(chunk \o rest) = Len(chunk) + Len(rest) /\ Len(chunk) \in Nat /\ Len(rest) \in Nat
      BY <1>1, <1>3, ConcatIs
    <3>. QED  BY <1>2, <3>1, <3>2
  <2>. QED  BY <1>2, <2>1 DEF AloneInv
<1>. HIDE DEF rest
<1>5. /\ response' \o (rest \o up) = Whole(serial) /\ rest \o up \in S
      /\ response' \o cache' \o tty' \o up = Whole(serial)
  <2>1. Same(response \o cache \o tty \o up, response \o ((cache \o tty) \o up))
    BY <1>1, Joined
  <2>2. Same(response \o chunk \o rest \o up, response \o ((chunk \o rest) \o up))
    BY <1>1, <1>3, Joined
  <2>3. Same((response' \o rest) \o up, response' \o (rest \o up))
    BY <1>1, <1>3, Joined
  <2>4. Same(response' \o cache' \o tty' \o up, response' \o ((cache' \o tty') \o up))
    BY <1>1, <1>3, Joined
  <2>5. response' \o (rest \o up) = Whole(serial)
    BY ONLY <1>2, <1>4, <2>1, <2>2, <2>3 DEF Same
  <2>6. response' \o cache' \o tty' \o up = Whole(serial)
    BY ONLY <2>4, <2>5 DEF Same, rest
  <2>7. rest \o up \in S
    BY <1>1, <1>3, ConcatIs
  <2>. QED  BY <2>5, <2>6, <2>7
<1>6. \A i \in 1 .. Len(results) : results[i].got = Whole(results[i].req)
  BY DEF AloneInv
<1>7. CASE chunk[Len(chunk)].part = "tail"
  <2>1. End(FALSE, response') /\ client' = "done" /\ serial > 0
    BY <1>7 DEF ReadTakes, End, CallInv
  <2>2. Len(response') > 0 /\ response'[Len(response')].part = "tail"
    <3>1. /\ Len(response \o chunk) = Len(response) + Len(chunk)
          /\ Len(response) \in Nat /\ Len(chunk) \in Nat
          /\ \A j \in 1 .. Len(chunk) : (response \o chunk)[Len(response) + j] = chunk[j]
      BY <1>1, ConcatIs
    <3>2. (response \o chunk)[Len(response) + Len(chunk)] = chunk[Len(chunk)]
      BY <1>2, <3>1
    <3>. QED  BY <1>2, <1>7, <3>1, <3>2
  <2>3. response' = Whole(serial) /\ rest \o up = <<>>
    BY <1>1, <1>3, <1>5, <2>2, WholeSplit
  <2>4. cache' = <<>> /\ tty' = <<>> /\ up = <<>>
    <3>1. Len(rest \o up) = Len(rest) + Len(up) /\ Len(rest) \in Nat /\ Len(up) \in Nat
      BY <1>1, <1>3, ConcatIs
    <3>2. Len(rest) = 0 /\ Len(up) = 0
      BY <2>3, <3>1
    <3>3. Len(rest) = Len(cache') + Len(tty') /\ Len(cache') \in Nat /\ Len(tty') \in Nat
      BY <1>1, ConcatIs DEF rest
    <3>. DEFINE k == Len(cache')  m == Len(tty')
    <3>4. k + m = 0 /\ k \in Nat /\ m \in Nat
      BY <3>2, <3>3
    <3>5. Len(cache') = 0 /\ Len(tty') = 0
      <4>. HIDE DEF k, m
      <4>1. k = 0 /\ m = 0
        BY <3>4
      <4>. QED  BY <4>1 DEF k, m
    <3>. QED  BY <1>1, <3>2, <3>5
  <2>5. Idle'
    BY <1>2, <1>4, <2>4 DEF Idle
  <2>6. \A i \in 1 .. Len(results') : results'[i].got = Whole(results'[i].req)
    <3>1. /\ \A i \in 1 .. Len(results) : results'[i] = results[i]
          /\ results'[Len(results) + 1].req = serial
          /\ results'[Len(results) + 1].got = response'
          /\ \A i \in 1 .. Len(results') : i \in 1 .. Len(results) \/ i = Len(results) + 1
      BY <1>3, <2>1, EndIs
    <3>. QED  BY <1>6, <2>3, <3>1
  <2>. QED  BY <2>1, <2>5, <2>6 DEF AloneInv
<1>8. CASE chunk[Len(chunk)].part # "tail"
  <2>1. UNCHANGED <<client, results>>
    BY <1>8 DEF ReadTakes
  <2>2. response' \o cache' \o tty' \o up' = Whole(serial')
    BY <1>2, <1>5
  <2>. QED  BY <1>2, <1>4, <1>6, <2>1, <2>2 DEF AloneInv
<1>. QED  BY <1>7, <1>8

LEMMA AloneDeliver ==
  ASSUME TypeOK, AloneInv, Deliver
  PROVE  AloneInv'
<1>. DEFINE h == Head(up)  S == Seq(Piece)
<1>1. /\ up # <<>> /\ up' = Tail(up)
      /\ UNCHANGED <<down, line, client, cache, response, results, serial>>
  BY DEF Deliver, calls
<1>2. client = "waiting" /\ line = <<>> /\ down = <<>>
      /\ response \o cache \o tty \o up = Whole(serial)
  BY <1>1 DEF AloneInv, Idle
<1>3. tty' = Append(tty, h)
  BY <1>2 DEF Deliver
<1>4. response \in S /\ cache \in S /\ tty \in S /\ up \in S
  BY DEF TypeOK
<1>5. h \in Piece /\ up' \in S /\ up = <<h>> \o up'
  BY <1>1, <1>4, HeadTailIs
<1>. HIDE DEF h
<1>6. <<h>> \in S /\ tty' = tty \o <<h>>
  BY <1>3, <1>4, <1>5, OneElement, AppendIs
<1>. DEFINE x == response \o cache
<1>7. x \in S
  BY <1>4, ConcatIs
<1>. HIDE DEF x
<1>8. x \o (tty \o <<h>>) \o up' = x \o tty \o (<<h>> \o up')
  <2>1. \A p, q \in S : p \o q \in S
    OBVIOUS
  <2>2. \A p, q, r \in S : (p \o q) \o r = p \o (q \o r)
    BY ConcatAssociative
  <2>3. x \o (tty \o <<h>>) = (x \o tty) \o <<h>>
    BY <1>4, <1>6, <1>7, <2>2
  <2>4. ((x \o tty) \o <<h>>) \o up' = (x \o tty) \o (<<h>> \o up')
    <3>1. x \o tty \in S
      BY ONLY <1>4, <1>7, <2>1
    <3>. QED  BY ONLY <1>5, <1>6, <2>2, <3>1, Zenon
  <2>. QED  BY ONLY <2>3, <2>4
<1>9. response' \o cache' \o tty' \o up' = Whole(serial')
  <2>1. response' \o cache' \o tty' \o up' = x \o (tty \o <<h>>) \o up'
    BY <1>1, <1>6 DEF x
  <2>2. x \o tty \o up = Whole(serial)
    BY <1>2 DEF x
  <2>3. x \o tty \o (<<h>> \o up') = Whole(serial)
    BY <1>5, <2>2
  <2>. QED  BY ONLY <1>1, <1>8, <2>1, <2>3
<1>10. \A i \in 1 .. Len(results') : results'[i].got = Whole(results'[i].req)
  BY <1>1 DEF AloneInv
<1>. QED  BY <1>1, <1>2, <1>9, <1>10 DEF AloneInv

LEMMA AloneServe ==
  ASSUME TypeOK, AloneInv, Serve
  PROVE  AloneInv'
<1>. DEFINE h == Head(down)  S == Seq(Piece)  whole == Append(line, h)
<1>1. /\ down # <<>> /\ down' = Tail(down)
      /\ UNCHANGED <<client, cache, tty, response, results, serial>>
  BY DEF Serve, calls
<1>2. /\ client = "waiting" /\ line \o down = Whole(serial)
      /\ response = <<>> /\ up = <<>> /\ tty = <<>> /\ cache = <<>>
  BY <1>1 DEF AloneInv, Idle
<1>3. down \in S /\ line \in S /\ serial \in 0 .. MaxRequests
  BY DEF TypeOK
<1>4. h \in Piece /\ down' \in S /\ down = <<h>> \o down'
  BY <1>1, <1>3, HeadTailIs
<1>5. \/ h.part = "head" /\ line' = whole /\ UNCHANGED up
      \/ h.part = "tail" /\ line' = <<>>
         /\ \/ up' = up \o Whole(IF whole = Whole(h.req) THEN h.req ELSE 0)
            \/ Len(whole) = 1 /\ UNCHANGED up
  BY DEF Serve
<1>. HIDE DEF h
<1>6. <<h>> \in S /\ whole = line \o <<h>>
  BY <1>3, <1>4, OneElement, AppendIs
<1>7. whole \in S /\ Len(whole) > 0 /\ whole[Len(whole)] = h
  BY <1>3, <1>4
<1>8. whole \o down' = Whole(serial)
  <2>1. \A p, q, r \in S : (p \o q) \o r = p \o (q \o r)
    BY ConcatAssociative
  <2>2. (line \o <<h>>) \o down' = line \o (<<h>> \o down')
    BY ONLY <1>3, <1>4, <1>6, <2>1
  <2>3. line \o (<<h>> \o down') = Whole(serial)
    BY <1>2, <1>4
  <2>. QED  BY ONLY <1>6, <2>2, <2>3
<1>. HIDE DEF whole
<1>9. \A i \in 1 .. Len(results') : results'[i].got = Whole(results'[i].req)
  BY <1>1 DEF AloneInv
<1>10. CASE h.part = "head" /\ line' = whole /\ UNCHANGED up
  BY <1>1, <1>2, <1>8, <1>9, <1>10 DEF AloneInv
<1>11. CASE /\ h.part = "tail" /\ line' = <<>>
            /\ \/ up' = up \o Whole(IF whole = Whole(h.req) THEN h.req ELSE 0)
               \/ Len(whole) = 1 /\ UNCHANGED up
  <2>1. whole = Whole(serial) /\ down' = <<>>
    BY <1>3, <1>4, <1>7, <1>8, <1>11, WholeSplit
  <2>2. h.req = serial /\ Len(whole) = 2
    <3>1. Len(Whole(serial)) = 2 /\ Whole(serial)[2] = [req |-> serial, part |-> "tail"]
      BY <1>3, WholeIs
    <3>2. h = [req |-> serial, part |-> "tail"] /\ Len(whole) = 2
      BY <1>7, <2>1, <3>1
    <3>. QED  BY <3>2
  <2>3. up' = <<>> \o Whole(serial)
    BY <1>2, <1>11, <2>1, <2>2
  <2>4. Whole(serial) \in S
    BY <1>3, WholeIs
  <2>5. <<>> \o <<>> \o <<>> \o (<<>> \o Whole(serial)) = Whole(serial)
    BY <2>4
  <2>6. response' \o cache' \o tty' \o up' = Whole(serial')
    BY <1>1, <1>2, <2>3, <2>5
  <2>. QED  BY <1>1, <1>2, <1>9, <1>11, <2>1, <2>6 DEF AloneInv
<1>. QED  BY <1>5, <1>10, <1>11

LEMMA AloneStep ==
  ASSUME TypeOK, CallInv, early = 0 /\ errors = 0 => AloneInv, Next,
         early' = 0, errors' = 0
  PROVE  AloneInv'
<1>1. early \in Nat /\ errors \in Nat /\ serial \in 0 .. MaxRequests
  BY DEF TypeOK
<1>2. CASE Open
  <2>1. /\ client = "closed" /\ client' = "open" /\ tty' = <<>>
        /\ UNCHANGED <<down, up, line, errors, cache, early, results>>
    BY <1>2 DEF Open
  <2>. QED  BY <2>1 DEF AloneInv, Idle
<1>3. CASE Request
  <2>1. /\ client = "open" /\ client' = "waiting" /\ down' = down \o Whole(serial)
        /\ UNCHANGED <<up, tty, line, errors, cache, response, early, results, serial>>
    BY <1>3 DEF Request, calls
  <2>2. AloneInv /\ Idle /\ response = <<>>
    BY <2>1 DEF AloneInv, CallInv
  <2>3. Whole(serial) \in Seq(Piece)
    BY <1>1, WholeIs
  <2>4. <<>> \o (<<>> \o Whole(serial)) = Whole(serial)
    BY <2>3
  <2>5. line' \o down' = Whole(serial')
    BY <2>1, <2>2, <2>4 DEF Idle
  <2>. QED  BY <2>1, <2>2, <2>5 DEF AloneInv, Idle
<1>4. CASE Read
  <2>1. PICK chunk : ReadTakes(chunk)
    BY <1>4, ReadIs
  <2>2. UNCHANGED <<early, errors>>
    BY <2>1 DEF ReadTakes
  <2>. QED  BY <2>1, <2>2, AloneRead
<1>5. CASE Timeout
  BY <1>1, <1>5 DEF Timeout
<1>6. CASE Fail
  BY <1>1, <1>6 DEF Fail
<1>7. CASE Close
  <2>1. /\ client = "done" /\ client' = "closed" /\ tty' = <<>> /\ cache' = <<>>
        /\ UNCHANGED <<up, line, errors, early, results>>
        /\ \E n \in 0 .. Len(down) : down' = SubSeq(down, 1, n)
    BY <1>7 DEF Close, calls
  <2>2. AloneInv /\ Idle
    BY <2>1 DEF AloneInv
  <2>3. down' = <<>>
    BY <2>1, <2>2 DEF Idle
  <2>. QED  BY <2>1, <2>2, <2>3 DEF AloneInv, Idle
<1>8. CASE Deliver
  <2>1. UNCHANGED <<early, errors>>
    BY <1>8 DEF Deliver, calls
  <2>. QED  BY <1>8, <2>1, AloneDeliver
<1>9. CASE Serve
  <2>1. UNCHANGED <<early, errors>>
    BY <1>9 DEF Serve, calls
  <2>. QED  BY <1>9, <2>1, AloneServe
<1>10. CASE LineError
  BY <1>1, <1>10 DEF LineError
<1>. QED  BY <1>2, <1>3, <1>4, <1>5, <1>6, <1>7, <1>8, <1>9, <1>10 DEF Next

(***************************************************************************)
(* The invariant and the theorems.                                         *)
(***************************************************************************)

SerialInv ==
  /\ TypeOK /\ CallInv /\ FlowInv /\ GotInv /\ QuietInv
  /\ early = 0 /\ errors = 0 => AloneInv

LEMMA SerialInit == Init => SerialInv
<1>. SUFFICES ASSUME Init
              PROVE  SerialInv
  OBVIOUS
<1>. USE DEF Init
<1>1. ToSet(<<>>) = {} /\ InOrder(<<>>) /\ Len(<<>>) = 0
  BY InOrderNone
<1>2. TypeOK
  <2>1. <<>> \in Seq(Piece) /\ <<>> \in Seq(ResultType)
    OBVIOUS
  <2>2. PiecesOK
    BY <2>1 DEF PiecesOK
  <2>3. ResultsOK
    <3>1. results \in Seq(ResultType) /\ Len(results) = 0 /\ client = "closed" /\ serial = 0
      BY <1>1, <2>1
    <3>. DEFINE k == IF client \in {"open", "waiting"} THEN 1 ELSE 0
    <3>2. k = 0
      OBVIOUS
    <3>3. 0 = 0 - 0
      OBVIOUS
    <3>. HIDE DEF k
    <3>4. Len(results) = serial - k
      BY ONLY <3>1, <3>2, <3>3
    <3>. QED  BY ONLY <3>1, <3>4 DEF ResultsOK, k
  <2>4. CountsOK
    BY DEF CountsOK
  <2>. QED  BY <2>2, <2>3, <2>4, TypeParts
<1>3. CallInv
  BY DEF CallInv
<1>4. Taken = {} /\ Kept = {} /\ Here = {} /\ Coming = {} /\ ToSet(down) = {} /\ Flow = {}
  BY <1>1 DEF Taken, Kept, Here, Coming, Flow
<1>5. FlowInv
  BY <1>1, <1>4 DEF FlowInv, Before
<1>6. \A i \in 1 .. Len(results) : FALSE
  OBVIOUS
<1>7. GotInv /\ QuietInv
  BY <1>6 DEF GotInv, QuietInv
<1>8. AloneInv
  BY <1>6 DEF AloneInv, Idle
<1>. QED  BY <1>2, <1>3, <1>5, <1>7, <1>8 DEF SerialInv

LEMMA SerialStep == SerialInv /\ [Next]_vars => SerialInv'
<1>. SUFFICES ASSUME SerialInv, [Next]_vars
              PROVE  SerialInv'
  OBVIOUS
<1>1. /\ TypeOK /\ CallInv /\ FlowInv /\ GotInv /\ QuietInv
      /\ early = 0 /\ errors = 0 => AloneInv
  BY DEF SerialInv
<1>2. CASE Next
  <2>1. PiecesOK /\ ResultsOK /\ CountsOK
    BY <1>1, TypeParts
  <2>2. PiecesOK'
    BY <1>1, <1>2, <2>1, PiecesStep
  <2>3. ResultsOK' /\ CountsOK' /\ CallInv'
    BY <1>1, <1>2, CallStep
  <2>4. TypeOK'
    BY <2>2, <2>3 DEF TypeOK, PiecesOK, ResultsOK, CountsOK, ResultType
  <2>5. FlowInv'
    BY <1>1, <1>2, FlowStep
  <2>6. GotInv'
    BY <1>1, <1>2, GotStep
  <2>7. QuietInv'
    BY <1>1, <1>2, QuietStep
  <2>8. early' = 0 /\ errors' = 0 => AloneInv'
    BY <1>1, <1>2, AloneStep
  <2>. QED  BY <2>3, <2>4, <2>5, <2>6, <2>7, <2>8 DEF SerialInv
<1>3. CASE UNCHANGED vars
  <2>1. UNCHANGED <<down, up, tty, line, errors, client, cache, response,
                    serial, quiet, early, results>>
    BY <1>3 DEF vars, link, calls
  <2>2. TypeOK'
    BY <1>1, <2>1 DEF TypeOK
  <2>3. CallInv'
    BY <1>1, <2>1 DEF CallInv
  <2>4. /\ Taken' = Taken /\ Kept' = Kept /\ Here' = Here /\ Coming' = Coming
        /\ Flow' = Flow /\ Around' = Around
    BY <2>1 DEF Taken, Kept, Here, Coming, Flow, Around
  <2>5. FlowInv'
    BY <1>1, <2>1, <2>4 DEF FlowInv
  <2>6. GotInv'
    BY <1>1, <2>1, <2>4, GotSame
  <2>7. QuietInv'
    BY <1>1, <2>1, <2>4 DEF QuietInv
  <2>8. early' = 0 /\ errors' = 0 => AloneInv'
    BY <1>1, <2>1 DEF AloneInv, Idle
  <2>. QED  BY <2>2, <2>3, <2>5, <2>6, <2>7, <2>8 DEF SerialInv
<1>. QED  BY <1>2, <1>3

\* The inductive invariant: the types, the place of the call, the order of what
\* is on its way, what a call on a quiet link meets, and, without time-outs,
\* failures and line errors, that nothing but one request or its answer is on
\* its way.
THEOREM SerialInvariant == Spec => []SerialInv
<1>1. Init => SerialInv
  BY SerialInit
<1>2. SerialInv /\ [Next]_vars => SerialInv'
  BY SerialStep
<1>. QED  BY <1>1, <1>2, PTL DEF Spec

\* Every variable stays in its type, and every call ends once
\* (rpcclientuart.cpp:67-189).
THEOREM SerialTypes == Spec => []TypeOK
<1>1. SerialInv => TypeOK
  BY DEF SerialInv
<1>. QED  BY <1>1, SerialInvariant, PTL

\* A call that finds the link quiet gets its own answer, an error or nothing
\* (rpcclientuart.cpp:69), whatever was late, lost or cut before it.
THEOREM QuietCallsGetTheirOwn == Spec => []QuietMeansOwn
<1>1. SerialInv => QuietMeansOwn
  <2>. SUFFICES ASSUME SerialInv
                PROVE  QuietMeansOwn
    OBVIOUS
  <2>1. \A i \in 1 .. Len(results) :
          /\ \A j \in 1 .. Len(results[i].got) : results[i].got[j] \in ToSet(results[i].got)
          /\ results[i].quiet => \A x \in ToSet(results[i].got) : x.req \in {0, results[i].req}
    BY ResultTypes, ElementsAre DEF SerialInv, QuietInv
  <2>. QED  BY <2>1 DEF QuietMeansOwn
<1>. QED  BY <1>1, SerialInvariant, PTL

\* As long as no call gave up and no line error happened, every call gets the
\* whole answer to its own request.
NoMixup ==
  early = 0 /\ errors = 0 =>
    \A i \in 1 .. Len(results) : results[i].got = Whole(results[i].req)

\* As long as no call gave up and no line error happened, every call gets the
\* whole answer to its own request, although ids are not compared
\* (rpcclientuart.cpp:129-189).
THEOREM NoAnswerMixedUp == Spec => []NoMixup
<1>1. SerialInv => NoMixup
  BY DEF SerialInv, NoMixup, AloneInv
<1>. QED  BY <1>1, SerialInvariant, PTL

\* Answers never come twice and never overtake each other: the answers of
\* successive calls are to successively later requests (rpcclientuart.cpp:78-127).
THEOREM AnswersNeverOvertake == Spec => []AnswersInOrder
<1>1. SerialInv => AnswersInOrder
  <2>. SUFFICES ASSUME SerialInv,
                       NEW i \in 1 .. Len(results), NEW j \in 1 .. Len(results),
                       NEW a \in 1 .. Len(results[i].got), NEW b \in 1 .. Len(results[j].got)
                PROVE  LET x == results[i].got[a]
                           y == results[j].got[b]
                       IN  /\ x.req <= results[i].req
                           /\ i < j /\ x.part = y.part /\ x.req # 0 /\ y.req # 0 => x.req < y.req
    BY DEF AnswersInOrder
  <2>1. TypeOK /\ GotInv
    BY DEF SerialInv
  <2>2. results[i].got[a] \in ToSet(results[i].got) /\ results[j].got[b] \in ToSet(results[j].got)
    BY <2>1, ResultTypes, ElementsAre
  <2>. QED  BY <2>1, <2>2 DEF GotInv, Before, Earlier
<1>. QED  BY <1>1, SerialInvariant, PTL

(***************************************************************************)
(* What the relay of the daemon relies on.                                 *)
(***************************************************************************)

LEMMA WholeOnce == \A r, q : Whole(r) = Whole(q) => r = q
<1>1. \A r, q : Whole(r) = Whole(q) => Whole(r)[1].req = Whole(q)[1].req
  OBVIOUS
<1>2. \A r : Whole(r)[1].req = r
  BY DEF Whole
<1>. QED  BY <1>1, <1>2

LEMMA KindCases ==
  ASSUME NEW i
  PROVE  /\ Kind(i) = "own" <=> Brings(i, results[i].req)
         /\ Kind(i) = "late" => BringsLate(i)
         /\ Kind(i) \in {"own", "late", "nothing"}
            \/ /\ ~Brings(i, results[i].req) /\ ~BringsLate(i)
               /\ \E r \in 1 .. MaxRequests : Brings(i, r)
<1>. QED  BY DEF Kind

LEMMA BringsInOrder ==
  ASSUME SerialInv, NEW i \in 1 .. Len(results), NEW r \in Nat, Brings(i, r)
  PROVE  /\ results[i].req = i /\ i \in 1 .. MaxRequests /\ r \in 1 .. i
         /\ \A j \in 1 .. i - 1 : \A q \in Nat : Brings(j, q) => q < r
<1>1. TypeOK /\ CallInv /\ GotInv
  BY DEF SerialInv
<1>2. /\ results[i].req = i /\ i \in 1 .. MaxRequests /\ Len(results) \in Nat
  <2>1. results \in Seq(ResultType)
    BY <1>1, TypeParts DEF ResultsOK
  <2>2. results[i] \in ResultType /\ Len(results) \in Nat
    BY <2>1
  <2>3. results[i].req \in 1 .. MaxRequests
    BY <2>2 DEF ResultType
  <2>. QED  BY <1>1, <2>2, <2>3 DEF CallInv
<1>3. \A k \in 1 .. Len(results), q \in Nat :
        Brings(k, q) => q # 0 /\ [req |-> q, part |-> "head"] \in ToSet(results[k].got)
  <2>. SUFFICES ASSUME NEW k \in 1 .. Len(results), NEW q \in Nat, Brings(k, q)
                PROVE  q # 0 /\ [req |-> q, part |-> "head"] \in ToSet(results[k].got)
    OBVIOUS
  <2>1. q # 0 /\ results[k].got = Whole(q)
    BY DEF Brings
  <2>2. results[k].got \in Seq(Piece) /\ Len(Whole(q)) = 2
        /\ Whole(q)[1] = [req |-> q, part |-> "head"]
    BY <1>1, ResultTypes DEF Whole
  <2>3. 1 \in 1 .. Len(results[k].got) /\ results[k].got[1] = [req |-> q, part |-> "head"]
    BY <2>1, <2>2
  <2>4. results[k].got[1] \in ToSet(results[k].got)
    BY <2>2, <2>3, ElementsAre
  <2>. QED  BY <2>1, <2>3, <2>4
<1>4. r # 0 /\ [req |-> r, part |-> "head"] \in ToSet(results[i].got)
  BY <1>3
<1>5. r <= i
  BY <1>1, <1>2, <1>4 DEF GotInv
<1>6. ASSUME NEW j \in 1 .. i - 1, NEW q \in Nat, Brings(j, q)
      PROVE  q < r
  <2>1. j \in 1 .. Len(results) /\ j < i
    BY <1>2
  <2>2. q # 0 /\ [req |-> q, part |-> "head"] \in ToSet(results[j].got)
    BY <1>3, <1>6, <2>1
  <2>3. Before(ToSet(results[j].got), ToSet(results[i].got))
    BY <1>1, <2>1 DEF GotInv
  <2>4. Earlier([req |-> q, part |-> "head"], [req |-> r, part |-> "head"])
    BY <1>4, <2>2, <2>3 DEF Before
  <2>. QED  BY <1>4, <2>2, <2>4 DEF Earlier
<1>. QED  BY <1>2, <1>4, <1>5, <1>6

\* No call returns an answer that is not newer than those returned before, and
\* the first that does not return its own returns nothing.
Promised ==
  \A i \in 1 .. Len(results) :
    /\ Kind(i) \in {"own", "late", "nothing"}
    /\ Kind(i) = "late" => \E j \in 1 .. i - 1 : Kind(j) # "own"

LEMMA AsPromised == SerialInv => Promised
<1>. SUFFICES ASSUME SerialInv, NEW i \in 1 .. Len(results)
              PROVE  /\ Kind(i) \in {"own", "late", "nothing"}
                     /\ Kind(i) = "late" => \E j \in 1 .. i - 1 : Kind(j) # "own"
  BY DEF Promised
<1>1. ASSUME NEW r \in 1 .. MaxRequests, Brings(i, r)
      PROVE  Brings(i, results[i].req) \/ BringsLate(i)
  <2>1. /\ results[i].req = i /\ r \in 1 .. i
        /\ \A j \in 1 .. i - 1 : \A q \in Nat : Brings(j, q) => q < r
    BY <1>1, BringsInOrder
  <2>2. CASE r = i
    BY <1>1, <2>1, <2>2
  <2>3. CASE r # i
    <3>1. r \in 1 .. results[i].req - 1
      BY <2>1, <2>3
    <3>2. \A j \in 1 .. i - 1 : \A q \in r .. MaxRequests : ~Brings(j, q)
      BY <2>1
    <3>. QED  BY <1>1, <3>1, <3>2 DEF BringsLate
  <2>. QED  BY <2>2, <2>3
<1>2. Kind(i) \in {"own", "late", "nothing"}
  BY <1>1, KindCases
<1>3. ASSUME Kind(i) = "late"
      PROVE  \E j \in 1 .. i - 1 : Kind(j) # "own"
  <2>1. PICK r \in 1 .. results[i].req - 1 :
          /\ Brings(i, r)
          /\ \A j \in 1 .. i - 1 : \A q \in r .. MaxRequests : ~Brings(j, q)
    BY <1>3, KindCases DEF BringsLate
  <2>2. results[i].req \in Nat /\ r \in Nat
    BY ResultTypes DEF SerialInv
  <2>3. results[i].req = i /\ i \in 1 .. MaxRequests
    BY <2>1, <2>2, BringsInOrder
  <2>4. r \in 1 .. i - 1 /\ r \in r .. MaxRequests /\ r \in 1 .. Len(results)
    BY <2>1, <2>3
  <2>5. ~Brings(r, r)
    BY <2>1, <2>4
  <2>6. results[r].req = r
    BY <2>4 DEF SerialInv, CallInv
  <2>7. Kind(r) # "own"
    BY <2>5, <2>6, KindCases
  <2>. QED  BY <2>4, <2>7
<1>. QED  BY <1>2, <1>3

\* The results of earlier calls stay.
LEMMA ResultsGrow ==
  ASSUME SerialInv, [Next]_vars, results' # results
  PROVE  /\ Len(results') = Len(results) + 1 /\ Len(results) \in Nat
         /\ \A i \in 1 .. Len(results) : results'[i] = results[i]
<1>1. TypeOK /\ CallInv
  BY DEF SerialInv
<1>2. ASSUME NEW threw \in BOOLEAN, NEW got \in Seq(Piece), Ends(threw, got)
      PROVE  /\ Len(results') = Len(results) + 1 /\ Len(results) \in Nat
             /\ \A i \in 1 .. Len(results) : results'[i] = results[i]
  BY <1>1, <1>2, EndIs DEF Ends, CallInv
<1>3. CASE Read
  <2>1. PICK chunk : ReadTakes(chunk)
    BY <1>1, <1>3, ReadIs
  <2>2. End(FALSE, response') /\ client = "waiting"
    BY <2>1 DEF ReadTakes
  <2>3. response' \in Seq(Piece)
    BY <1>1, <2>1, ConcatIs DEF ReadTakes, TypeOK
  <2>. QED  BY <1>2, <2>2, <2>3 DEF Ends
<1>4. CASE Timeout
  <2>1. Ends(FALSE, response) /\ response \in Seq(Piece)
    BY <1>1, <1>4 DEF Timeout, Ends, TypeOK
  <2>. QED  BY <1>2, <2>1
<1>5. CASE Fail
  <2>1. Ends(TRUE, <<>>)
    BY <1>5 DEF Fail, Ends
  <2>2. <<>> \in Seq(Piece)
    OBVIOUS
  <2>. QED  BY <1>2, <2>1, <2>2
<1>6. CASE Open \/ Request \/ Close \/ Deliver \/ Serve \/ LineError \/ UNCHANGED vars
  BY <1>6 DEF Open, Request, Close, Deliver, Serve, LineError, calls, vars
<1>. QED  BY <1>3, <1>4, <1>5, <1>6 DEF Next

\* Every call is a step of FirmwareCall: as long as all returned their own answer
\* the next one does or returns nothing, and a late answer is newer than all that
\* were returned (rpcclientuart.cpp:129-189, userrpcserver.cpp:351-368).
THEOREM CallsAreAsPromised == Spec => CallsAsPromised
<1>1. Init => Firmware!Init
  <2>1. ASSUME Init
        PROVE  \A i \in 1 .. Len(results) : FALSE
    BY <2>1 DEF Init
  <2>. QED  BY <2>1 DEF Firmware!Init
<1>2. ASSUME SerialInv, Promised, Promised', [Next]_vars, results' # results
      PROVE  Firmware!Call(Kind(Len(results))')
  <2>1. /\ Len(results') = Len(results) + 1 /\ Len(results) \in Nat
        /\ \A i \in 1 .. Len(results) : results'[i] = results[i]
    BY <1>2, ResultsGrow
  <2>2. PICK n \in Nat : n = Len(results)
    BY <2>1
  <2>3. \A i \in 1 .. n : Kind(i)' = Kind(i)
    <3>1. \A i \in 1 .. n : \A r : Brings(i, r)' = Brings(i, r)
      BY <2>1, <2>2 DEF Brings
    <3>2. ASSUME NEW i \in 1 .. n
          PROVE  BringsLate(i)' = BringsLate(i)
      <4>1. results'[i].req = results[i].req
        BY <2>1, <2>2
      <4>2. \A r : Brings(i, r)' = Brings(i, r)
        BY <3>1
      <4>3. \A j \in 1 .. i - 1 : j \in 1 .. n
        BY <2>2, <2>1
      <4>4. \A j \in 1 .. i - 1 : \A q : Brings(j, q)' = Brings(j, q)
        BY <3>1, <4>3
      <4>. QED  BY ONLY <4>1, <4>2, <4>4 DEF BringsLate
    <3>. QED  BY <2>1, <2>2, <3>1, <3>2 DEF Kind
  <2>4. /\ Kind(n + 1)' \in {"own", "late", "nothing"}
        /\ Kind(n + 1)' = "late" => \E j \in 1 .. n : Kind(j)' # "own"
    BY <1>2, <2>1, <2>2 DEF Promised
  <2>5. Kind(n + 1)' = "late" => \E j \in 1 .. n : Kind(j) # "own"
    BY <2>3, <2>4
  <2>6. (\E j \in 1 .. Len(results) : Kind(j) # "own")'
          <=> (\E j \in 1 .. n : Kind(j) # "own") \/ Kind(n + 1)' # "own"
    <3>1. Len(results') = n + 1
      BY <2>1, <2>2
    <3>2. \A j : j \in 1 .. n + 1 <=> j \in 1 .. n \/ j = n + 1
      OBVIOUS
    <3>. QED  BY <2>3, <3>1, <3>2
  <2>7. Kind(Len(results))' = Kind(n + 1)'
    BY <2>1, <2>2 DEF Kind, Brings, BringsLate
  <2>. QED  BY <2>2, <2>4, <2>5, <2>6, <2>7 DEF Firmware!Call, Firmware!Results
<1>3. SerialInv => Promised
  BY AsPromised
<1>4. SerialInv /\ Promised /\ Promised' /\ [Next]_vars
        => [results' # results => Firmware!Call(Kind(Len(results))')]_vars
  BY <1>2
<1>. QED  BY <1>1, <1>3, <1>4, SerialInvariant, PTL DEF Spec, CallsAsPromised
=============================================================================
