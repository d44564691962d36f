---------------------------- MODULE Sigmad_proof -----------------------------
(***************************************************************************)
(* Proofs about the daemon, for every number of connections and of         *)
(* requests.                                                               *)
(***************************************************************************)
EXTENDS Sigmad, FiniteSetTheorems, TLAPS

(***************************************************************************)
(* The inductive invariant.                                                *)
(***************************************************************************)

Connections ==
  [client : Clients \union {"none"}, request : Nat, up : 0 .. 2, down : 0 .. 2,
   open : BOOLEAN,
   srv : {"free", "backlog", "headers", "content", "writing", "closed"}]

LinkTypeOK ==
  /\ conn \in [Conns -> Connections]
  /\ cpc \in [Clients -> {"idle", "connect", "write", "head", "body"}]
  /\ reused \in [Clients -> BOOLEAN] /\ sock \in [Clients -> Conns \union {0}]
  /\ asked \in [Clients -> Nat] /\ answer \in [Clients -> Nat]
  /\ busy \in Conns \union {0}
  /\ runs = [k \in Clients |-> runs[k]]
  /\ \A k \in Clients : runs[k] \in [Requests(k) -> Nat]

\* A socket is the client's end of an open connection of its own.
Owned ==
  \A k \in Clients : sock[k] # 0 => conn[sock[k]].client = k /\ conn[sock[k]].open

\* A request or its reply is somewhere in the connection c.
Carrying(c) == conn[c].up > 0 \/ conn[c].down > 0 \/ busy = c

\* A connection carries one thing at a time: a request on its way, one that is
\* executed, or the reply to one that was.
Carried ==
  \A c \in Conns :
    /\ Carrying(c) => /\ conn[c].client \in Clients
                      /\ conn[c].request \in Requests(conn[c].client)
    /\ conn[c].down > 0 => /\ conn[c].up = 0 /\ busy # c
                           /\ runs[conn[c].client][conn[c].request] > 0
    /\ busy = c => conn[c].up = 0 /\ conn[c].srv \in {"headers", "content"}

\* The open socket of a client carries nothing before the client writes, and
\* afterwards nothing but the present request.
Waiting ==
  \A k \in Clients : sock[k] # 0 =>
    /\ cpc[k] \in {"idle", "write"} => ~Carrying(sock[k])
    /\ cpc[k] \in {"head", "body"} /\ Carrying(sock[k]) =>
         conn[sock[k]].request = asked[k]

\* Without a socket the client connects or has lost it.
Asking ==
  \A k \in Clients :
    /\ cpc[k] # "idle" => asked[k] \in Requests(k) /\ answer[k] = 0
    /\ cpc[k] = "connect" => sock[k] = 0
    /\ asked[k] <= MaxRequests[k]

LinkInv ==
  LinkTypeOK /\ Owned /\ Carried /\ Waiting /\ Asking /\ AnswerIsOwn

\* The black box asks with an empty state.
BoxInv == rec = "asking" => state = Empty

\* A late answer comes after a call of the firmware without its own.
RelayInv ==
  /\ late \in BOOLEAN /\ brought \in [Requests(Recorder) -> Firmware!Results]
  /\ \A n \in Requests(Recorder) : brought[n] = "late" => late

IInv == LinkInv /\ BoxInv /\ RelayInv

USE HttpAssumption, SigmadAssumption

(***************************************************************************)
(* The two ends of a connection.                                           *)
(***************************************************************************)

LEMMA Ends ==
  ASSUME NEW x \in Connections
  PROVE  /\ Free \in Connections
         /\ Shut(x) \in Connections /\ Drop(x) \in Connections
         /\ x.srv = "closed" => Shut(x) = Free
         /\ x.srv # "closed" =>
              /\ Shut(x).client = x.client /\ Shut(x).request = x.request
              /\ Shut(x).up = x.up /\ Shut(x).down = 0 /\ ~Shut(x).open
              /\ Shut(x).srv = x.srv
         /\ ~x.open => Drop(x) = Free
         /\ x.open =>
              /\ Drop(x).client = x.client /\ Drop(x).request = x.request
              /\ Drop(x).up = 0 /\ Drop(x).down = x.down /\ Drop(x).open
              /\ Drop(x).srv = "closed"
<1>1. Free \in Connections
  BY DEF Free, Connections
<1>. DEFINE y == [x EXCEPT !.open = FALSE, !.down = 0]
            z == [x EXCEPT !.srv = "closed", !.up = 0]
<1>2. y \in Connections /\ z \in Connections
  <2>1. /\ y = [[x EXCEPT !.open = FALSE] EXCEPT !.down = 0]
        /\ z = [[x EXCEPT !.srv = "closed"] EXCEPT !.up = 0]
    OBVIOUS
  <2>2. \A r \in Connections : [r EXCEPT !.open = FALSE] \in Connections
    BY DEF Connections
  <2>3. \A r \in Connections : [r EXCEPT !.down = 0] \in Connections
    BY DEF Connections
  <2>4. \A r \in Connections : [r EXCEPT !.srv = "closed"] \in Connections
    BY DEF Connections
  <2>5. \A r \in Connections : [r EXCEPT !.up = 0] \in Connections
    BY DEF Connections
  <2>. HIDE DEF y, z
  <2>. QED  BY <2>1, <2>2, <2>3, <2>4, <2>5
<1>3. /\ y.client = x.client /\ y.request = x.request
      /\ y.up = x.up /\ y.down = 0 /\ y.open = FALSE /\ y.srv = x.srv
  BY DEF Connections
<1>4. /\ z.client = x.client /\ z.request = x.request
      /\ z.up = 0 /\ z.down = x.down /\ z.open = x.open /\ z.srv = "closed"
  BY DEF Connections
<1>5. Shut(x) = IF x.srv = "closed" THEN Free ELSE y
  BY DEF Shut
<1>6. Drop(x) = IF x.open THEN z ELSE Free
  BY DEF Drop
<1>7. x.open \in BOOLEAN
  BY DEF Connections
<1>. HIDE DEF y, z
<1>8. /\ Shut(x) \in Connections
      /\ x.srv = "closed" => Shut(x) = Free
      /\ x.srv # "closed" => Shut(x) = y
  BY <1>1, <1>2, <1>5
<1>9. /\ Drop(x) \in Connections
      /\ ~x.open => Drop(x) = Free
      /\ x.open => Drop(x) = z
  BY <1>1, <1>2, <1>6, <1>7
<1>. QED  BY <1>1, <1>3, <1>4, <1>8, <1>9

(***************************************************************************)
(* The client.                                                             *)
(***************************************************************************)

LEMMA BeginInv ==
  ASSUME LinkInv, NEW k \in Clients, Begin(k)
  PROVE  LinkInv'
<1>. USE DEF LinkInv, Begin, Set
<1>1. LinkTypeOK'
  BY DEF LinkTypeOK
<1>2. Owned' /\ Carried' /\ Waiting'
  BY DEF LinkTypeOK, Owned, Carried, Carrying, Waiting
<1>3. Asking'
  BY DEF LinkTypeOK, Asking, Requests
<1>4. AnswerIsOwn'
  BY DEF LinkTypeOK, AnswerIsOwn
<1>. QED  BY <1>1, <1>2, <1>3, <1>4

\* When a client closes its socket, its connection carries no reply, and
\* nothing else changes.
LEMMA CloseConn ==
  ASSUME LinkInv, NEW k \in Clients, sock[k] # 0
  PROVE  LET x == Shut(conn[sock[k]])
         IN  /\ x \in Connections /\ x.down = 0
             /\ x.up > 0 \/ busy = sock[k] =>
                  /\ x.client = conn[sock[k]].client
                  /\ x.request = conn[sock[k]].request
                  /\ x.srv = conn[sock[k]].srv /\ x.up = conn[sock[k]].up
             /\ \A j \in Clients : j # k => sock[j] # sock[k]
<1>. DEFINE y == conn[sock[k]]
<1>1. y \in Connections /\ sock[k] \in Conns
  BY DEF LinkInv, LinkTypeOK
<1>2. busy = sock[k] => y.srv # "closed"
  BY <1>1 DEF LinkInv, Carried
<1>3. \A j \in Clients : j # k => sock[j] # sock[k]
  BY DEF LinkInv, Owned
<1>4. Free.up = 0 /\ Free.down = 0
  BY DEF Free
<1>. HIDE DEF y
<1>. QED  BY <1>1, <1>2, <1>3, <1>4, Ends DEF y

LEMMA FailInv ==
  ASSUME LinkInv, NEW k \in Clients, NEW code, Fail(k, code), cpc[k] # "idle"
  PROVE  LinkInv'
<1>. DEFINE s == sock[k]
<1>1. LinkTypeOK /\ Owned /\ Carried /\ Waiting /\ Asking /\ AnswerIsOwn
  BY DEF LinkInv
<1>2. /\ conn' = IF s = 0 THEN conn ELSE [conn EXCEPT ![s] = Shut(conn[s])]
      /\ sock' = [sock EXCEPT ![k] = 0]
      /\ cpc' = [cpc EXCEPT ![k] = IF reused[k] /\ code \in Retryable
                                   THEN "connect" ELSE "idle"]
      /\ reused' = [reused EXCEPT ![k] = FALSE]
      /\ UNCHANGED <<asked, answer, busy, runs>>
  BY <1>1 DEF Fail, Set, Closed, LinkTypeOK
<1>3. \A d \in Conns : d # s \/ s = 0 => conn'[d] = conn[d]
  BY <1>1, <1>2 DEF LinkTypeOK
<1>4. s # 0 => s \in Conns /\ conn'[s] = Shut(conn[s])
  BY <1>1, <1>2 DEF LinkTypeOK
<1>5. s # 0 => /\ conn'[s] \in Connections /\ conn'[s].down = 0
               /\ conn'[s].up > 0 \/ busy = s =>
                    /\ conn'[s].client = conn[s].client
                    /\ conn'[s].request = conn[s].request
                    /\ conn'[s].srv = conn[s].srv /\ conn'[s].up = conn[s].up
               /\ \A j \in Clients : j # k => sock[j] # s
  BY <1>4, CloseConn
<1>6. LinkTypeOK'
  BY <1>1, <1>2, <1>5 DEF LinkTypeOK
<1>7. Owned'
  BY <1>1, <1>2, <1>3, <1>5 DEF LinkTypeOK, Owned
<1>8. Carried'
  BY <1>1, <1>2, <1>3, <1>4, <1>5 DEF LinkTypeOK, Carried, Carrying
<1>9. Waiting'
  BY <1>1, <1>2, <1>3, <1>5 DEF LinkTypeOK, Waiting, Carrying
<1>10. Asking'
  BY <1>1, <1>2 DEF LinkTypeOK, Asking
<1>11. AnswerIsOwn'
  BY <1>1, <1>2 DEF LinkTypeOK, Asking, AnswerIsOwn
<1>. QED  BY <1>6, <1>7, <1>8, <1>9, <1>10, <1>11 DEF LinkInv

LEMMA ConnectInv ==
  ASSUME LinkInv, NEW k \in Clients, Connect(k)
  PROVE  LinkInv'
<1>0. LinkTypeOK /\ Owned /\ Carried /\ Waiting /\ Asking /\ AnswerIsOwn
  BY DEF LinkInv
<1>. DEFINE new == [Free EXCEPT !.client = k, !.open = TRUE, !.srv = "backlog"]
<1>1. PICK c \in Conns : conn[c] = Free /\ Succeed(k, "write", [conn EXCEPT ![c] = new], c)
  BY DEF Connect
<1>2. /\ new \in Connections /\ Shut(new) \in Connections
      /\ new.client = k /\ new.open /\ new.up = 0 /\ new.down = 0
      /\ new.srv = "backlog" /\ Shut(new).up = 0 /\ Shut(new).down = 0
      /\ Shut(new).srv = "backlog"
  <2>. DEFINE new1 == [Free EXCEPT !.client = k]
              new2 == [new1 EXCEPT !.open = TRUE]
  <2>1. new = [new2 EXCEPT !.srv = "backlog"]
    OBVIOUS
  <2>2. /\ new.client = k /\ new.open /\ new.up = 0 /\ new.down = 0
        /\ new.srv = "backlog"
    BY DEF Free
  <2>3. Free \in Connections /\ k \in Clients \union {"none"}
    BY DEF Free, Connections
  <2>4. new1 \in Connections
    BY <2>3 DEF Connections
  <2>. HIDE DEF new1
  <2>5. new2 \in Connections
    BY <2>4 DEF Connections
  <2>. HIDE DEF new2
  <2>6. [new2 EXCEPT !.srv = "backlog"] \in Connections
    BY <2>5 DEF Connections
  <2>7. new \in Connections
    BY <2>1, <2>6
  <2>. HIDE DEF new
  <2>. QED  BY <2>2, <2>7, Ends
<1>3. c # 0 /\ busy # c
  BY <1>0, <1>1 DEF Carried, Free, Conns
<1>4. /\ \/ conn'[c] = new /\ sock' = [sock EXCEPT ![k] = c]
         \/ conn'[c] = Shut(new) /\ sock' = [sock EXCEPT ![k] = 0]
      /\ \A d \in Conns : d # c => conn'[d] = conn[d]
      /\ conn' \in [Conns -> Connections]
      /\ cpc' = [cpc EXCEPT ![k] = "write"]
      /\ reused' = [reused EXCEPT ![k] = reused[k]]
      /\ UNCHANGED <<asked, answer, busy, runs>>
  <2>. HIDE DEF new
  <2>1. conn \in [Conns -> Connections] /\ c \in Conns
    BY <1>0 DEF LinkTypeOK
  <2>2. \/ conn' = [conn EXCEPT ![c] = new] /\ sock' = [sock EXCEPT ![k] = c]
        \/ /\ conn' = [[conn EXCEPT ![c] = new] EXCEPT ![c] = Shut(new)]
           /\ sock' = [sock EXCEPT ![k] = 0]
    BY <1>1, <2>1 DEF Succeed, Set
  <2>3. /\ cpc' = [cpc EXCEPT ![k] = "write"]
        /\ reused' = [reused EXCEPT ![k] = reused[k]]
        /\ UNCHANGED <<asked, answer, busy, runs>>
    BY <1>0, <1>1 DEF Succeed, Set, Connect, LinkTypeOK
  <2>. QED  BY <1>2, <2>1, <2>2, <2>3
<1>. HIDE DEF new
<1>5. \A j \in Clients : sock[j] # c
  <2>1. ~conn[c].open
    BY <1>1 DEF Free
  <2>. QED  BY <1>0, <1>3, <2>1 DEF Owned
<1>6. cpc[k] # "idle" /\ asked[k] \in Requests(k) /\ answer[k] = 0
  BY <1>0 DEF Asking, Connect
<1>7. LinkTypeOK'
  BY <1>0, <1>3, <1>4 DEF LinkTypeOK
<1>8. Owned'
  BY <1>0, <1>2, <1>4, <1>5 DEF LinkTypeOK, Owned
<1>9. Carried'
  BY <1>0, <1>2, <1>3, <1>4 DEF LinkTypeOK, Carried, Carrying
<1>10. Waiting'
  BY <1>0, <1>2, <1>3, <1>4, <1>5 DEF LinkTypeOK, Waiting, Carrying
<1>11. Asking' /\ AnswerIsOwn'
  BY <1>0, <1>4, <1>6 DEF LinkTypeOK, Asking, AnswerIsOwn
<1>. QED  BY <1>7, <1>8, <1>9, <1>10, <1>11 DEF LinkInv

\* An operation of k over its socket s leaves x for its connection, and perhaps
\* a late timer, or the end of the request, closes the socket.
Leaves(k, s, x, pc) ==
  /\ \A d \in Conns : d # s => conn'[d] = conn[d]
  /\ conn' \in [Conns -> Connections]
  /\ \/ conn'[s] = x /\ sock' = sock
     \/ conn'[s] = Shut(x) /\ sock' = [sock EXCEPT ![k] = 0]
  /\ cpc' = [cpc EXCEPT ![k] = pc] /\ reused' \in [Clients -> BOOLEAN]
  /\ \A j \in Clients : reused'[j] => reused[j]
  /\ UNCHANGED <<asked, busy, runs>>

\* Such an x carries nothing but the present request, and a reply to one that
\* was executed; the answer a, if there is one, is the reply to that request.
Left(k, s, x, pc, a) ==
  /\ s \in Conns /\ s = sock[k] /\ s # 0 /\ cpc[k] # "idle"
  /\ x \in Connections /\ x.client = k /\ x.open
  /\ pc \in {"head", "body", "idle"}
  /\ a \in Nat /\ answer' = [answer EXCEPT ![k] = a]
  /\ x.up > 0 \/ x.down > 0 \/ busy = s => pc # "idle" /\ x.request = asked[k]
  /\ x.down > 0 => x.up = 0 /\ busy # s /\ runs[k][asked[k]] > 0
  /\ busy = s => x.up = 0 /\ x.srv \in {"headers", "content"}
  /\ a # 0 => pc = "idle" /\ a = asked[k] /\ runs[k][a] > 0

\* Only writing puts a request on the socket, and only a client that asks for it
\* keeps the socket when its request has ended.
Moves(k, s, x, pc) ==
  /\ busy # s /\ (x.up > 0 => pc = "head") /\ (pc = "head" => cpc[k] = "write")
  /\ pc = "idle" => sock'[k] = 0 \/ k \in KeepAlive

OverItsSocket(k) ==
  \E s, x, pc, a : Leaves(k, s, x, pc) /\ Left(k, s, x, pc, a) /\ Moves(k, s, x, pc)

LEMMA OverSocket ==
  ASSUME LinkInv, NEW k \in Clients, NEW s, NEW x, NEW pc, NEW a,
         Leaves(k, s, x, pc), Left(k, s, x, pc, a)
  PROVE  LinkInv'
<1>. USE DEF Leaves, Left
<1>1. LinkTypeOK /\ Owned /\ Carried /\ Waiting /\ Asking /\ AnswerIsOwn
  BY DEF LinkInv
<1>2. /\ Shut(x).down = 0
      /\ Shut(x).up > 0 \/ busy = s =>
           /\ Shut(x).client = k /\ Shut(x).request = x.request
           /\ Shut(x).up = x.up /\ Shut(x).srv = x.srv
  <2>1. Free.up = 0 /\ Free.down = 0
    BY DEF Free
  <2>2. busy = s => x.srv # "closed"
    OBVIOUS
  <2>. QED  BY <2>1, <2>2, Ends
<1>3. \A j \in Clients : j # k => sock[j] # s
  BY <1>1 DEF Owned
<1>4. asked[k] \in Requests(k)
  BY <1>1 DEF Asking
<1>5. sock' \in [Clients -> Conns \union {0}] /\ sock'[k] \in {0, s}
      /\ (sock'[k] = s => conn'[s] = x)
      /\ \A j \in Clients : j # k => sock'[j] = sock[j]
  BY <1>1 DEF LinkTypeOK
<1>6. LinkTypeOK'
  BY <1>1, <1>5 DEF LinkTypeOK
<1>7. Owned'
  BY <1>1, <1>3, <1>5 DEF LinkTypeOK, Owned
<1>8. Carried'
  <2>. SUFFICES ASSUME NEW d \in Conns
                PROVE  /\ Carrying(d)' =>
                            /\ conn'[d].client \in Clients
                            /\ conn'[d].request \in Requests(conn'[d].client)
                       /\ conn'[d].down > 0 =>
                            /\ conn'[d].up = 0 /\ busy # d
                            /\ runs[conn'[d].client][conn'[d].request] > 0
                       /\ busy = d => /\ conn'[d].up = 0
                                      /\ conn'[d].srv \in {"headers", "content"}
    BY DEF Carried
  <2>1. CASE d # s
    BY <1>1, <2>1 DEF Carried, Carrying
  <2>2. CASE d = s /\ conn'[s] = x
    BY <1>4, <2>2 DEF Carrying
  <2>3. CASE d = s /\ conn'[s] = Shut(x)
    BY <1>2, <1>4, <2>3 DEF Carrying
  <2>. QED  BY <2>1, <2>2, <2>3
<1>9. Waiting'
  BY <1>1, <1>3, <1>5 DEF LinkTypeOK, Waiting, Carrying
<1>10. Asking'
  BY <1>1, <1>4, <1>5 DEF LinkTypeOK, Asking
<1>11. AnswerIsOwn'
  BY <1>1 DEF LinkTypeOK, AnswerIsOwn
<1>. QED  BY <1>6, <1>7, <1>8, <1>9, <1>10, <1>11 DEF LinkInv

\* The first attempt may end.
ReusedLess ==
  reused' \in [Clients -> BOOLEAN] /\ \A j \in Clients : reused'[j] => reused[j]

LEMMA ReusedIsLess ==
  ASSUME LinkTypeOK, NEW k \in Clients, NEW pc, NEW cs, NEW s, Succeed(k, pc, cs, s)
  PROVE  ReusedLess
<1>1. reused' = [reused EXCEPT ![k] = reused[k] /\ pc # "idle"]
      /\ reused \in [Clients -> BOOLEAN]
  BY DEF Succeed, Set, LinkTypeOK
<1>2. reused' \in [Clients -> BOOLEAN]
  BY <1>1
<1>3. \A j \in Clients : reused'[j] => reused[j]
  BY <1>1
<1>. QED  BY <1>2, <1>3 DEF ReusedLess

\* Succeed, over the open socket.
LEMMA SucceedOver ==
  ASSUME LinkTypeOK, NEW k \in Clients, NEW s \in Conns, s = sock[k], s # 0,
         NEW x \in Connections, NEW pc,
         Succeed(k, pc, [conn EXCEPT ![s] = x], s)
  PROVE  Leaves(k, s, x, pc)
<1>1. Shut(x) \in Connections
  BY Ends
<1>2. \/ conn' = [conn EXCEPT ![s] = x] /\ sock' = sock
      \/ /\ conn' = [[conn EXCEPT ![s] = x] EXCEPT ![s] = Shut(x)]
         /\ sock' = [sock EXCEPT ![k] = 0]
  BY DEF Succeed, Set, LinkTypeOK
<1>3. cpc' = [cpc EXCEPT ![k] = pc] /\ UNCHANGED <<asked, busy, runs>>
  BY DEF Succeed, Set, LinkTypeOK
<1>4. reused' \in [Clients -> BOOLEAN] /\ \A j \in Clients : reused'[j] => reused[j]
  BY ReusedIsLess DEF ReusedLess
<1>5. /\ \A d \in Conns : d # s => conn'[d] = conn[d]
      /\ conn' \in [Conns -> Connections]
      /\ \/ conn'[s] = x /\ sock' = sock
         \/ conn'[s] = Shut(x) /\ sock' = [sock EXCEPT ![k] = 0]
  BY <1>1, <1>2 DEF LinkTypeOK
<1>. QED  BY <1>3, <1>4, <1>5 DEF Leaves

LEMMA WriteOver ==
  ASSUME LinkInv, NEW k \in Clients, Write(k)
  PROVE  OverItsSocket(k)
<1>0. LinkTypeOK /\ Owned /\ Carried /\ Waiting /\ Asking
  BY DEF LinkInv
<1>. DEFINE s == sock[k]  y == conn[s]
            x == IF y.srv = "closed" THEN y ELSE [y EXCEPT !.request = asked[k], !.up = 2]
<1>1. s # 0 /\ s \in Conns /\ y \in Connections /\ cpc[k] = "write"
  BY <1>0 DEF Write, LinkTypeOK
<1>2. y.client = k /\ y.open /\ ~Carrying(s)
  BY <1>0, <1>1 DEF Owned, Waiting
<1>3. x \in Connections
  <2>1. [y EXCEPT !.request = asked[k], !.up = 2]
          = [[y EXCEPT !.request = asked[k]] EXCEPT !.up = 2]
    OBVIOUS
  <2>2. asked[k] \in Nat
    BY <1>0 DEF LinkTypeOK
  <2>. HIDE DEF y
  <2>3. [y EXCEPT !.request = asked[k]] \in Connections
    BY <1>1, <2>2 DEF Connections
  <2>4. \A r \in Connections : [r EXCEPT !.up = 2] \in Connections
    BY DEF Connections
  <2>. QED  BY <1>1, <2>1, <2>3, <2>4
<1>4. /\ x.client = k /\ x.open /\ x.down = 0 /\ busy # s
      /\ x.up > 0 => x.request = asked[k]
  BY <1>1, <1>2 DEF Connections, Carrying
<1>5. Succeed(k, "head", [conn EXCEPT ![s] = x], s) /\ UNCHANGED answer
  <2>1. conn = [conn EXCEPT ![s] = y]
    BY <1>0, <1>1 DEF LinkTypeOK
  <2>2. [conn EXCEPT ![s].request = asked[k], ![s].up = 2]
          = [conn EXCEPT ![s] = [y EXCEPT !.request = asked[k], !.up = 2]]
    BY <1>0, <1>1 DEF LinkTypeOK
  <2>3. [conn EXCEPT ![s] = x] = IF y.srv = "closed" THEN conn
                                 ELSE [conn EXCEPT ![s].request = asked[k], ![s].up = 2]
    BY <2>1, <2>2
  <2>. HIDE DEF x, y, s
  <2>. QED  BY <2>3 DEF Write, s, y
<1>6. answer' = [answer EXCEPT ![k] = 0] /\ cpc[k] # "idle"
  BY <1>0, <1>1, <1>5 DEF Asking, LinkTypeOK
<1>. HIDE DEF x, y, s
<1>7. s = sock[k]
  BY DEF s
<1>8. Leaves(k, s, x, "head")
  BY <1>0, <1>1, <1>3, <1>5, <1>7, SucceedOver
<1>9. Left(k, s, x, "head", 0) /\ Moves(k, s, x, "head")
  BY <1>1, <1>3, <1>4, <1>6, <1>7 DEF Left, Moves
<1>. QED  BY <1>8, <1>9 DEF OverItsSocket

LEMMA CompleteOver ==
  ASSUME LinkInv, NEW k \in Clients, cpc[k] \in {"head", "body"}, sock[k] # 0,
         conn[sock[k]].down > 0, Complete(k)
  PROVE  OverItsSocket(k)
<1>0. LinkTypeOK /\ Owned /\ Carried /\ Waiting /\ Asking
  BY DEF LinkInv
<1>. DEFINE s == sock[k]  y == conn[s]  x == [y EXCEPT !.down = 0, !.request = 0]
            rest == [conn EXCEPT ![s].down = 0, ![s].request = 0]
<1>1. s # 0 /\ s \in Conns /\ y \in Connections /\ y.down > 0 /\ cpc[k] # "idle"
  BY <1>0 DEF LinkTypeOK
<1>2. /\ y.client = k /\ y.open /\ y.request = asked[k] /\ y.up = 0 /\ busy # s
      /\ asked[k] \in Nat /\ runs[k][asked[k]] > 0
  BY <1>0, <1>1 DEF Owned, Waiting, Carried, Carrying, LinkTypeOK
<1>3. /\ x \in Connections
      /\ x.client = k /\ x.open /\ x.down = 0 /\ x.up = 0
  <2>1. x = [[y EXCEPT !.down = 0] EXCEPT !.request = 0]
    OBVIOUS
  <2>2. x.client = k /\ x.open /\ x.down = 0 /\ x.up = 0
    BY <1>1, <1>2 DEF Connections
  <2>. HIDE DEF x, y
  <2>3. [y EXCEPT !.down = 0] \in Connections
    BY <1>1 DEF Connections
  <2>4. \A r \in Connections : [r EXCEPT !.request = 0] \in Connections
    BY DEF Connections
  <2>. QED  BY <2>1, <2>2, <2>3, <2>4
<1>4. rest = [conn EXCEPT ![s] = x]
  BY <1>0, <1>1 DEF LinkTypeOK
<1>5. /\ answer' = [answer EXCEPT ![k] = asked[k]]
      /\ \/ k \in KeepAlive /\ Succeed(k, "idle", rest, s)
         \/ Succeed(k, "idle", [rest EXCEPT ![s] = Shut(rest[s])], 0)
  <2>1. answer' = Set(answer, k, y.request)
    BY DEF Complete
  <2>2. \/ k \in KeepAlive /\ Succeed(k, "idle", rest, s)
        \/ Succeed(k, "idle", Closed(k, rest), 0)
    BY DEF Complete
  <2>. HIDE DEF rest, y
  <2>3. Closed(k, rest) = [rest EXCEPT ![s] = Shut(rest[s])]
    BY <1>1 DEF Closed
  <2>. QED  BY <1>2, <2>1, <2>2, <2>3 DEF Set
<1>. HIDE DEF x, y, s, rest
<1>6. s = sock[k]
  BY DEF s
<1>7. Leaves(k, s, x, "idle") /\ (sock'[k] = 0 \/ k \in KeepAlive)
  <2>1. CASE k \in KeepAlive /\ Succeed(k, "idle", rest, s)
    <3>1. Succeed(k, "idle", [conn EXCEPT ![s] = x], s)
      BY <1>4, <2>1
    <3>. QED  BY <1>0, <1>1, <1>3, <1>6, <2>1, <3>1, SucceedOver
  <2>2. CASE Succeed(k, "idle", [rest EXCEPT ![s] = Shut(rest[s])], 0)
    <3>1. /\ conn' = [[conn EXCEPT ![s] = x] EXCEPT ![s] = Shut(x)]
          /\ sock' = [sock EXCEPT ![k] = 0]
      BY <1>0, <1>1, <1>4, <2>2 DEF Succeed, Set, LinkTypeOK
    <3>2. cpc' = [cpc EXCEPT ![k] = "idle"] /\ UNCHANGED <<asked, busy, runs>>
      BY <1>0, <2>2 DEF Succeed, Set, LinkTypeOK
    <3>3. Shut(x) \in Connections
      BY <1>3, Ends
    <3>4. ReusedLess
      BY <1>0, <2>2, ReusedIsLess
    <3>. QED  BY <1>0, <1>1, <3>1, <3>2, <3>3, <3>4 DEF LinkTypeOK, Leaves, ReusedLess
  <2>. QED  BY <1>5, <2>1, <2>2
<1>8. Left(k, s, x, "idle", asked[k]) /\ Moves(k, s, x, "idle")
  BY <1>1, <1>2, <1>3, <1>5, <1>6, <1>7 DEF Left, Moves
<1>. QED  BY <1>7, <1>8 DEF OverItsSocket

LEMMA ReadOver ==
  ASSUME LinkInv, NEW k \in Clients, ReadHead(k) \/ ReadBody(k)
  PROVE  OverItsSocket(k)
<1>0. LinkTypeOK /\ Owned /\ Carried /\ Waiting /\ Asking
  BY DEF LinkInv
<1>. DEFINE s == sock[k]  y == conn[s]  x == [y EXCEPT !.down = 1]
<1>1. s # 0 /\ cpc[k] \in {"head", "body"} /\ y.down > 0
  BY DEF ReadHead, ReadBody
<1>2. s \in Conns /\ y \in Connections
  BY <1>0, <1>1 DEF LinkTypeOK
<1>3. CASE Complete(k)
  BY <1>1, <1>3, CompleteOver
<1>4. CASE Succeed(k, "body", [conn EXCEPT ![s].down = 1], s) /\ UNCHANGED answer
  <2>1. x \in Connections /\ x.client = y.client /\ x.open = y.open
        /\ x.down = 1 /\ x.up = y.up /\ x.request = y.request
    BY <1>2 DEF Connections
  <2>2. y.client = k /\ y.open /\ y.request = asked[k] /\ y.up = 0 /\ busy # s
        /\ runs[k][asked[k]] > 0
    BY <1>0, <1>1, <1>2 DEF Owned, Waiting, Carried, Carrying
  <2>3. [conn EXCEPT ![s].down = 1] = [conn EXCEPT ![s] = x]
    BY <1>0, <1>2 DEF LinkTypeOK
  <2>4. answer' = [answer EXCEPT ![k] = 0]
    BY <1>0, <1>1, <1>4 DEF Asking, LinkTypeOK
  <2>. HIDE DEF x, y, s
  <2>5. s = sock[k]
    BY DEF s
  <2>6. Leaves(k, s, x, "body")
    <3>1. Succeed(k, "body", [conn EXCEPT ![s] = x], s)
      BY <1>4, <2>3
    <3>. QED  BY <1>0, <1>1, <1>2, <2>1, <2>5, <3>1, SucceedOver
  <2>7. Left(k, s, x, "body", 0) /\ Moves(k, s, x, "body")
    BY <1>1, <1>2, <2>1, <2>2, <2>4, <2>5 DEF Left, Moves
  <2>. QED  BY <2>6, <2>7 DEF OverItsSocket
<1>. QED  BY <1>3, <1>4 DEF ReadHead, ReadBody

(***************************************************************************)
(* The server.                                                             *)
(***************************************************************************)

\* A step of the server leaves x for the connection c: of the client nothing
\* changes, and what c carries is what it carried, or the reply to it.
Served(c, x) ==
  /\ conn' = [conn EXCEPT ![c] = x] /\ x \in Connections
  /\ UNCHANGED clientvars
  /\ busy \in {0, c} /\ busy' \in {0, c}
  /\ \A k \in Clients : runs'[k] \in [Requests(k) -> Nat]
  /\ runs' = [k \in Clients |-> runs'[k]]
  /\ \A k \in Clients : \A n \in Requests(k) : runs[k][n] > 0 => runs'[k][n] > 0
  /\ conn[c].open => x.open /\ x.client = conn[c].client
  /\ x.up > 0 \/ x.down > 0 \/ busy' = c =>
       Carrying(c) /\ x.client = conn[c].client /\ x.request = conn[c].request
  /\ x.down > 0 => x.up = 0 /\ busy' # c /\ runs'[x.client][x.request] > 0
  /\ busy' = c => x.up = 0 /\ x.srv \in {"headers", "content"}

LEMMA ServedInv ==
  ASSUME LinkInv, NEW c \in Conns, NEW x, Served(c, x)
  PROVE  LinkInv'
<1>. USE DEF Served, clientvars
<1>1. LinkTypeOK /\ Owned /\ Carried /\ Waiting /\ Asking /\ AnswerIsOwn
  BY DEF LinkInv
<1>2. conn'[c] = x /\ \A d \in Conns : d # c => conn'[d] = conn[d]
  BY <1>1 DEF LinkTypeOK
<1>3. c # 0
  BY DEF Conns
<1>4. LinkTypeOK'
  BY <1>1 DEF LinkTypeOK
<1>5. Owned'
  BY <1>1, <1>2 DEF LinkTypeOK, Owned
<1>6. Carried'
  <2>. SUFFICES ASSUME NEW d \in Conns
                PROVE  /\ Carrying(d)' =>
                            /\ conn'[d].client \in Clients
                            /\ conn'[d].request \in Requests(conn'[d].client)
                       /\ conn'[d].down > 0 =>
                            /\ conn'[d].up = 0 /\ busy' # d
                            /\ runs'[conn'[d].client][conn'[d].request] > 0
                       /\ busy' = d => /\ conn'[d].up = 0
                                       /\ conn'[d].srv \in {"headers", "content"}
    BY DEF Carried
  <2>1. CASE d = c
    BY <1>1, <1>2, <2>1 DEF Carried, Carrying
  <2>2. CASE d # c
    <3>1. conn'[d] = conn[d] /\ (busy' = d <=> busy = d)
      BY <1>2, <1>3, <2>2 DEF Conns
    <3>2. /\ Carrying(d)' <=> Carrying(d)
          /\ conn[d].down > 0 => Carrying(d)
      BY <3>1 DEF Carrying
    <3>3. conn[d].down > 0 => runs'[conn[d].client][conn[d].request] > 0
      BY <1>1, <3>2 DEF Carried
    <3>. QED  BY <1>1, <3>1, <3>2, <3>3 DEF Carried
  <2>. QED  BY <2>1, <2>2
<1>7. Waiting'
  <2>. SUFFICES ASSUME NEW k \in Clients, sock[k] # 0
                PROVE  /\ cpc[k] \in {"idle", "write"} => ~Carrying(sock[k])'
                       /\ cpc[k] \in {"head", "body"} /\ Carrying(sock[k])' =>
                            conn'[sock[k]].request = asked[k]
    BY DEF Waiting
  <2>1. sock[k] \in Conns
    BY <1>1 DEF LinkTypeOK
  <2>2. Carrying(sock[k])' =>
          Carrying(sock[k]) /\ conn'[sock[k]].request = conn[sock[k]].request
    <3>1. CASE sock[k] = c
      BY <1>2, <3>1 DEF Carrying
    <3>2. CASE sock[k] # c
      BY <1>2, <1>3, <2>1, <3>2 DEF Carrying
    <3>. QED  BY <3>1, <3>2
  <2>. QED  BY <1>1, <2>2 DEF Waiting
<1>8. Asking'
  BY <1>1 DEF Asking
<1>9. AnswerIsOwn'
  BY <1>1 DEF LinkTypeOK, Asking, AnswerIsOwn, Requests
<1>. QED  BY <1>4, <1>5, <1>6, <1>7, <1>8, <1>9 DEF LinkInv

\* A step that does not touch what was executed.
LEMMA RunsKept ==
  ASSUME LinkInv, UNCHANGED runs
  PROVE  /\ \A k \in Clients : runs'[k] \in [Requests(k) -> Nat]
         /\ runs' = [k \in Clients |-> runs'[k]]
         /\ \A k \in Clients : \A n \in Requests(k) : runs[k][n] > 0 => runs'[k][n] > 0
BY DEF LinkInv, LinkTypeOK

\* A handler executes nothing, and a request that it leaves to be read or
\* executed was there.
Handled(c) ==
  UNCHANGED runs /\ \E x : Served(c, x) /\ (x.up > 0 \/ busy' = c => conn[c].up > 0)

LEMMA HandlerServes ==
  ASSUME LinkInv, NEW c \in Conns, Handler(c) \/ Inactive(c)
  PROVE  Handled(c)
<1>. DEFINE y == conn[c]
<1>1. LinkTypeOK /\ Owned /\ Carried
  BY DEF LinkInv
<1>2. y \in Connections /\ busy = 0 /\ 0 # c /\ UNCHANGED <<clientvars, runs>>
  BY <1>1 DEF LinkTypeOK, Handler, Accept, HeadersRead, ContentRead, ReplyWritten,
              ClientGone, Inactive, Conns
<1>3. /\ Carrying(c) <=> y.up > 0 \/ y.down > 0
      /\ y.down > 0 => y.up = 0 /\ runs[y.client][y.request] > 0
      /\ y.up \in 0 .. 2 /\ y.down \in 0 .. 2
  BY <1>1, <1>2 DEF Carrying, Carried, Connections
<1>4. ASSUME conn' = [conn EXCEPT ![c] = Drop(y)], busy' = busy
      PROVE  Handled(c)
  <2>1. Drop(y) \in Connections
    BY <1>2, Ends
  <2>2. /\ y.open => Drop(y).open /\ Drop(y).client = y.client
        /\ Drop(y).up = 0
        /\ Drop(y).down > 0 => /\ Drop(y).down = y.down
                              /\ Drop(y).client = y.client /\ Drop(y).request = y.request
    <3>1. Free.up = 0 /\ Free.down = 0 /\ y.open \in BOOLEAN
      BY <1>2 DEF Free, Connections
    <3>. HIDE DEF y
    <3>. QED  BY <1>2, <3>1, Ends
  <2>3. Served(c, Drop(y))
    BY <1>2, <1>3, <1>4, <2>1, <2>2, RunsKept DEF Served
  <2>4. ~(Drop(y).up > 0 \/ busy' = c)
    BY <1>2, <1>4, <2>2
  <2>. QED  BY <1>2, <2>3, <2>4 DEF Handled
<1>5. ASSUME NEW x \in Connections, conn' = [conn EXCEPT ![c] = x],
             x.client = y.client, x.request = y.request, x.open = y.open,
             x.down = y.down, x.up > 0 => y.up > 0,
             \/ busy' = 0
             \/ /\ busy' = c /\ x.up = 0 /\ y.up > 0
                /\ x.srv \in {"headers", "content"}
      PROVE  Handled(c)
  <2>1. x.up \in 0 .. 2
    BY <1>5 DEF Connections
  <2>2. /\ x.up > 0 \/ x.down > 0 \/ busy' = c => Carrying(c)
        /\ x.down > 0 => x.up = 0 /\ busy' # c /\ runs'[x.client][x.request] > 0
        /\ busy' = c => x.up = 0 /\ x.srv \in {"headers", "content"}
    <3>. HIDE DEF y
    <3>. QED  BY <1>2, <1>3, <1>5, <2>1
  <2>3. Served(c, x)
    BY <1>2, <1>5, <2>2, RunsKept DEF Served
  <2>4. x.up > 0 \/ busy' = c => y.up > 0
    BY <1>2, <1>5
  <2>. QED  BY <1>2, <2>3, <2>4 DEF Handled
<1>6. CASE Accept(c)
  <2>. DEFINE x == [y EXCEPT !.srv = "headers"]
  <2>1. conn' = [conn EXCEPT ![c] = x] /\ busy' = 0
    BY <1>2, <1>6 DEF Accept
  <2>2. /\ x \in Connections /\ x.client = y.client /\ x.request = y.request
        /\ x.open = y.open /\ x.down = y.down /\ x.up = y.up
    BY <1>2 DEF Connections
  <2>. HIDE DEF x, y
  <2>. QED  BY <1>5, <2>1, <2>2
<1>7. CASE HeadersRead(c)
  <2>1. CASE conn' = [conn EXCEPT ![c].up = 0] /\ busy' = c
    <3>. DEFINE x == [y EXCEPT !.up = 0]
    <3>1. conn' = [conn EXCEPT ![c] = x] /\ busy' = c /\ y.up > 0
      BY <1>7, <2>1 DEF HeadersRead
    <3>2. /\ x \in Connections /\ x.client = y.client /\ x.request = y.request
          /\ x.open = y.open /\ x.down = y.down /\ x.up = 0 /\ x.srv = "headers"
      BY <1>2, <1>7 DEF Connections, HeadersRead
    <3>. HIDE DEF x, y
    <3>. QED  BY <1>5, <3>1, <3>2
  <2>2. CASE conn' = [conn EXCEPT ![c].up = 1, ![c].srv = "content"] /\ UNCHANGED busy
    <3>. DEFINE w == [y EXCEPT !.up = 1]
                x == [w EXCEPT !.srv = "content"]
    <3>1. conn' = [conn EXCEPT ![c] = x] /\ busy' = 0 /\ y.up > 0
      <4>1. [conn EXCEPT ![c].up = 1, ![c].srv = "content"]
              = [conn EXCEPT ![c] = [y EXCEPT !.up = 1, !.srv = "content"]]
        BY <1>1 DEF LinkTypeOK
      <4>2. [y EXCEPT !.up = 1, !.srv = "content"] = x
        OBVIOUS
      <4>3. y.up > 0
        BY <1>7 DEF HeadersRead
      <4>. HIDE DEF x, y
      <4>. QED  BY <1>2, <2>2, <4>1, <4>2, <4>3
    <3>2. /\ w \in Connections /\ w.client = y.client /\ w.request = y.request
          /\ w.open = y.open /\ w.down = y.down
      BY <1>2 DEF Connections
    <3>. HIDE DEF w
    <3>3. /\ x \in Connections /\ x.client = w.client /\ x.request = w.request
          /\ x.open = w.open /\ x.down = w.down
      BY <3>2 DEF Connections
    <3>. HIDE DEF x, y
    <3>. QED  BY <1>5, <3>1, <3>2, <3>3
  <2>. QED  BY <1>7, <2>1, <2>2 DEF HeadersRead
<1>8. CASE ContentRead(c)
  <2>. DEFINE x == [y EXCEPT !.up = 0]
  <2>1. conn' = [conn EXCEPT ![c] = x] /\ busy' = c /\ y.up > 0
    BY <1>8 DEF ContentRead
  <2>2. /\ x \in Connections /\ x.client = y.client /\ x.request = y.request
        /\ x.open = y.open /\ x.down = y.down /\ x.up = 0 /\ x.srv = "content"
    BY <1>2, <1>8 DEF Connections, ContentRead
  <2>. HIDE DEF x, y
  <2>. QED  BY <1>5, <2>1, <2>2
<1>9. CASE ReplyWritten(c)
  <2>1. CASE y.client \in KeepAlive
    <3>. DEFINE x == [y EXCEPT !.srv = "headers"]
    <3>1. conn' = [conn EXCEPT ![c] = x] /\ busy' = 0
      BY <1>2, <1>9, <2>1 DEF ReplyWritten
    <3>2. /\ x \in Connections /\ x.client = y.client /\ x.request = y.request
          /\ x.open = y.open /\ x.down = y.down /\ x.up = y.up
      BY <1>2 DEF Connections
    <3>. HIDE DEF x, y
    <3>. QED  BY <1>5, <3>1, <3>2
  <2>2. CASE y.client \notin KeepAlive
    BY <1>4, <1>9, <2>2 DEF ReplyWritten
  <2>. QED  BY <2>1, <2>2
<1>10. CASE ClientGone(c) \/ Inactive(c)
  BY <1>4, <1>10 DEF ClientGone, Inactive
<1>. QED  BY <1>6, <1>7, <1>8, <1>9, <1>10 DEF Handler

\* The request whose reply is written has been executed.
Executed(c) ==
  /\ \E x : Served(c, x) /\ x.up = 0
  /\ busy = c /\ busy' = 0
  /\ conn[c].client \in Clients /\ conn[c].request \in Requests(conn[c].client)
  /\ \A k \in Clients : \A n \in Requests(k) :
       runs'[k][n] = IF k = conn[c].client /\ n = conn[c].request
                     THEN runs[k][n] + 1 ELSE runs[k][n]

LEMMA HandleServes ==
  ASSUME LinkInv, NEW c \in Conns, Handle(c)
  PROVE  Executed(c)
<1>. DEFINE y == conn[c]  k == y.client  n == y.request
            d == IF y.open THEN 2 ELSE 0
            w == [y EXCEPT !.down = d]  x == [w EXCEPT !.srv = "writing"]
<1>1. LinkTypeOK /\ Carried
  BY DEF LinkInv
<1>2. /\ y \in Connections /\ busy = c /\ busy' = 0 /\ 0 # c
      /\ y.up = 0 /\ k \in Clients /\ n \in Requests(k)
  BY <1>1 DEF LinkTypeOK, Handle, Conns, Carried, Carrying
<1>3. /\ w \in Connections /\ w.client = k /\ w.request = n /\ w.open = y.open
      /\ w.up = 0
  BY <1>2 DEF Connections
<1>4. conn' = [conn EXCEPT ![c] = x] /\ UNCHANGED clientvars
  BY <1>1 DEF Handle, LinkTypeOK
<1>5. runs' = [runs EXCEPT ![k] = [runs[k] EXCEPT ![n] = @ + 1]]
  BY <1>1, <1>2 DEF Handle, LinkTypeOK
<1>. HIDE DEF w
<1>6. /\ x \in Connections /\ x.client = k /\ x.request = n /\ x.open = y.open
      /\ x.up = 0
  BY <1>3 DEF Connections
<1>. HIDE DEF x, y, k, n
<1>7. /\ \A j \in Clients : runs'[j] \in [Requests(j) -> Nat]
      /\ runs' = [j \in Clients |-> runs'[j]]
      /\ \A j \in Clients : \A m \in Requests(j) : runs[j][m] > 0 => runs'[j][m] > 0
      /\ runs'[k][n] > 0
      /\ \A j \in Clients : \A m \in Requests(j) :
           runs'[j][m] = IF j = k /\ m = n THEN runs[j][m] + 1 ELSE runs[j][m]
  <2>. DEFINE f == [runs[k] EXCEPT ![n] = @ + 1]
  <2>1. /\ runs = [j \in Clients |-> runs[j]]
        /\ \A j \in Clients : runs[j] \in [Requests(j) -> Nat]
    BY <1>1 DEF LinkTypeOK
  <2>2. /\ f \in [Requests(k) -> Nat] /\ f[n] > 0
        /\ \A m \in Requests(k) : runs[k][m] > 0 => f[m] > 0
        /\ \A m \in Requests(k) : f[m] = IF m = n THEN runs[k][m] + 1 ELSE runs[k][m]
    BY <1>2, <2>1
  <2>. HIDE DEF f
  <2>3. runs' = [runs EXCEPT ![k] = f]
    BY <1>5 DEF f
  <2>4. runs'[k] = f /\ \A j \in Clients : j # k => runs'[j] = runs[j]
    BY <1>2, <2>1, <2>3
  <2>5. runs' = [j \in Clients |-> runs'[j]]
    BY <2>1, <2>3
  <2>. QED  BY <1>2, <2>1, <2>2, <2>4, <2>5
<1>8. Served(c, x)
  <2>1. y = conn[c] /\ k = y.client /\ n = y.request
    BY DEF y, k, n
  <2>. QED  BY <1>2, <1>4, <1>6, <1>7, <2>1 DEF Served, Carrying
<1>9. y = conn[c] /\ k = conn[c].client /\ n = conn[c].request
  BY DEF y, k, n
<1>. QED  BY <1>2, <1>6, <1>7, <1>8, <1>9 DEF Executed

(***************************************************************************)
(* The daemon.                                                             *)
(***************************************************************************)

LEMMA InitIInv == Init => IInv
<1>. SUFFICES ASSUME Init
              PROVE  IInv
  OBVIOUS
<1>. USE DEF Init, LinkInit
<1>1. /\ Free \in Connections /\ Free.up = 0 /\ Free.down = 0
      /\ \A c \in Conns : conn[c] = Free /\ c # 0
  BY DEF Free, Connections, Conns
<1>2. LinkTypeOK
  <2>1. conn \in [Conns -> Connections]
    BY <1>1
  <2>2. /\ runs = [k \in Clients |-> runs[k]]
        /\ \A k \in Clients : runs[k] \in [Requests(k) -> Nat]
    OBVIOUS
  <2>. QED  BY <2>1, <2>2 DEF LinkTypeOK
<1>3. Owned /\ Waiting /\ AnswerIsOwn
  BY DEF Owned, Waiting, AnswerIsOwn
<1>4. Carried
  BY <1>1 DEF Carried, Carrying
<1>5. Asking
  <2>. SUFFICES ASSUME NEW k \in Clients
                PROVE  cpc[k] = "idle" /\ asked[k] <= MaxRequests[k]
    BY DEF Asking
  <2>1. MaxRequests[k] \in Nat /\ asked[k] = 0
    OBVIOUS
  <2>2. asked[k] <= MaxRequests[k]
    BY ONLY <2>1
  <2>. QED  BY <2>2
<1>6. RelayInv
  BY DEF RelayInv, Firmware!Init, Firmware!Results, NotAsked
<1>. QED  BY <1>2, <1>3, <1>4, <1>5, <1>6 DEF IInv, LinkInv, BoxInv

\* A step that leaves the clients, the server and their connections alone.
LEMMA LinkStutters ==
  ASSUME LinkInv, UNCHANGED linkvars
  PROVE  LinkInv'
BY DEF LinkInv, LinkTypeOK, Owned, Carried, Carrying, Waiting, Asking,
       AnswerIsOwn, linkvars, clientvars

LEMMA ClientInv ==
  ASSUME LinkInv, NEW k \in Clients, Operation(k) \/ TimeOut(k)
  PROVE  LinkInv'
<1>1. CASE PeerClosed(k) \/ NoSocket(k) \/ TimeOut(k)
  <2>1. cpc[k] # "idle" /\ \E code : Fail(k, code)
    BY <1>1 DEF PeerClosed, NoSocket, TimeOut
  <2>2. PICK code : Fail(k, code)
    BY <2>1
  <2>. QED  BY <2>1, <2>2, FailInv
<1>2. CASE Write(k) \/ ReadHead(k) \/ ReadBody(k)
  <2>1. OverItsSocket(k)
    BY <1>2, WriteOver, ReadOver
  <2>. QED  BY <2>1, OverSocket DEF OverItsSocket
<1>. QED  BY <1>1, <1>2, ConnectInv DEF Operation

\* A request is forwarded: only a call without its own answer makes room for a
\* late one.
LEMMA Relayed ==
  ASSUME RelayInv, NEW c \in Conns, Relay(c)
  PROVE  RelayInv'
<1>1. PICK r \in Firmware!Results :
        /\ Firmware!Call(r)
        /\ brought' = IF conn[c].client = Recorder /\ conn[c].open
                      THEN [brought EXCEPT ![conn[c].request] = r]
                      ELSE brought
  BY DEF Relay
<1>2. late' \in BOOLEAN /\ (late => late') /\ (r = "late" => late)
  BY <1>1 DEF Firmware!Call
<1>3. brought' \in [Requests(Recorder) -> Firmware!Results]
  BY <1>1 DEF RelayInv
<1>4. \A n \in Requests(Recorder) : brought'[n] = brought[n] \/ brought'[n] = r
  BY <1>1 DEF RelayInv
<1>. QED  BY <1>2, <1>3, <1>4 DEF RelayInv

LEMMA RelayStep ==
  ASSUME RelayInv, [Next]_vars
  PROVE  RelayInv'
<1>1. CASE FirstDone \/ Record
  <2>1. brought' = NotAsked /\ UNCHANGED late
    BY <1>1 DEF FirstDone, Record, Take
  <2>. QED  BY <2>1 DEF RelayInv, NotAsked, Firmware!Results
<1>2. ASSUME NEW c \in Conns, Execute(c)
      PROVE  RelayInv'
  <2>1. Relay(c) \/ UNCHANGED relayvars
    BY <1>2 DEF Execute
  <2>. QED  BY <2>1, Relayed DEF RelayInv, relayvars
<1>3. CASE \/ AskFirst \/ AskAgain \/ StopLoop \/ UserAsks \/ Main \/ Terminate
           \/ \E k \in Clients : ClientStep(k)
           \/ \E c \in Conns : Serve(c) \/ Expire(c)
           \/ UNCHANGED vars
  <2>1. UNCHANGED relayvars
    BY <1>3 DEF AskFirst, AskAgain, Ask, StopLoop, UserAsks, Main, JoinIo, Exit,
                Terminate, ClientStep, Serve, Expire, vars
  <2>. QED  BY <2>1 DEF RelayInv, relayvars
<1>. QED  BY <1>1, <1>2, <1>3 DEF Next, BlackBox

LEMMA BoxStep ==
  ASSUME LinkInv, BoxInv, [Next]_vars
  PROVE  LinkInv' /\ BoxInv'
<1>1. Recorder \in Clients /\ User \in Clients
  OBVIOUS
<1>2. CASE AskFirst \/ AskAgain
  <2>1. Begin(Recorder) /\ BoxInv'
    BY <1>2 DEF AskFirst, AskAgain, Ask, BoxInv
  <2>. QED  BY <1>1, <2>1, BeginInv
<1>3. CASE FirstDone \/ Record \/ StopLoop
  BY <1>3, LinkStutters DEF FirstDone, Record, StopLoop, BoxInv
<1>4. CASE UserAsks
  BY <1>1, <1>4, BeginInv DEF UserAsks, BoxInv, boxvars
<1>5. CASE JoinIo \/ Exit \/ Terminate \/ UNCHANGED vars
  BY <1>5, LinkStutters DEF JoinIo, Exit, Terminate, vars, BoxInv, boxvars
<1>6. ASSUME NEW k \in Clients, ClientStep(k)
      PROVE  LinkInv' /\ BoxInv'
  BY <1>6, ClientInv DEF ClientStep, BoxInv, boxvars
<1>7. ASSUME NEW c \in Conns, Execute(c) \/ Serve(c) \/ Expire(c)
      PROVE  LinkInv' /\ BoxInv'
  <2>1. BoxInv'
    BY <1>7 DEF Execute, Serve, Expire, BoxInv, boxvars
  <2>2. Handle(c) \/ Handler(c) \/ Inactive(c)
    BY <1>7 DEF Execute, Serve, Expire
  <2>3. \E x : Served(c, x)
    BY <2>2, HandleServes, HandlerServes DEF Executed, Handled
  <2>. QED  BY <2>1, <2>3, ServedInv
<1>. QED  BY <1>2, <1>3, <1>4, <1>5, <1>6, <1>7 DEF Next, BlackBox, Main

LEMMA NextIInv == IInv /\ [Next]_vars => IInv'
BY BoxStep, RelayStep DEF IInv

LEMMA Invariance == Spec => []IInv
BY InitIInv, NextIInv, PTL DEF Spec

(***************************************************************************)
(* How often a request is executed.                                        *)
(***************************************************************************)

\* The connections over which the request n of k was sent and is not executed.
Sent(k, n) ==
  {c \in Conns : /\ conn[c].client = k /\ conn[c].request = n
                 /\ conn[c].up > 0 \/ busy = c}

Allowed(k, n) == IF k \in KeepAlive /\ n > 1 THEN 2 ELSE 1

\* How often it may still be written: in the attempt under way and, while that
\* is over a kept socket, in another.
Writes(k, n) ==
  IF asked[k] < n THEN Allowed(k, n)
  ELSE IF asked[k] > n \/ cpc[k] = "idle" THEN 0
  ELSE (IF cpc[k] \in {"connect", "write"} THEN 1 ELSE 0) + (IF reused[k] THEN 1 ELSE 0)

Counted(k, n) == runs[k][n] + Cardinality(Sent(k, n)) + Writes(k, n) <= Allowed(k, n)

\* A client that has a socket between two requests has kept it.
CountInv ==
  /\ \A k \in Clients : sock[k] # 0 /\ cpc[k] = "idle" => k \in KeepAlive /\ asked[k] > 0
  /\ \A k \in Clients : \A n \in Requests(k) : Counted(k, n)

\* What a set of connections has more or less than another.
LEMMA Cardinalities ==
  ASSUME NEW A \in SUBSET Conns, NEW B \in SUBSET Conns
  PROVE  /\ Cardinality(A) \in Nat
         /\ A \subseteq B => Cardinality(A) <= Cardinality(B)
         /\ \A c \in Conns : A \subseteq B \union {c} => Cardinality(A) <= Cardinality(B) + 1
         /\ \A c \in B : A \subseteq B \ {c} => Cardinality(A) + 1 <= Cardinality(B)
<1>1. IsFiniteSet(Conns)
  <2>1. 1 \in Int /\ MaxConns \in Int
    OBVIOUS
  <2>. QED  BY <2>1, FS_Interval DEF Conns
<1>2. \A X \in SUBSET Conns : IsFiniteSet(X) /\ Cardinality(X) \in Nat
  BY <1>1, FS_Subset, FS_CardinalityType
<1>3. \A X, Y \in SUBSET Conns : X \subseteq Y => Cardinality(X) <= Cardinality(Y)
  BY <1>2, FS_Subset
<1>4. ASSUME NEW c \in Conns, A \subseteq B \union {c}
      PROVE  Cardinality(A) <= Cardinality(B) + 1
  <2>1. Cardinality(A) <= Cardinality(B \union {c})
    BY <1>3, <1>4
  <2>2. Cardinality(B \union {c}) <= Cardinality(B) + 1
    <3>1. Cardinality(B \union {c}) = IF c \in B THEN Cardinality(B) ELSE Cardinality(B) + 1
      BY <1>2, FS_AddElement
    <3>. QED  BY <1>2, <3>1
  <2>3. B \union {c} \in SUBSET Conns
    OBVIOUS
  <2>. QED  BY <1>2, <2>1, <2>2, <2>3
<1>5. ASSUME NEW c \in B, A \subseteq B \ {c}
      PROVE  Cardinality(A) + 1 <= Cardinality(B)
  <2>1. Cardinality(A) <= Cardinality(B \ {c})
    BY <1>3, <1>5
  <2>2. Cardinality(B \ {c}) = Cardinality(B) - 1
    BY <1>2, FS_RemoveElement
  <2>3. B \ {c} \in SUBSET Conns
    OBVIOUS
  <2>. QED  BY <1>2, <2>1, <2>2, <2>3
<1>. QED  BY <1>2, <1>3, <1>4, <1>5

LEMMA CountTypes ==
  ASSUME LinkInv, NEW k \in Clients, NEW n \in Requests(k)
  PROVE  /\ runs[k][n] \in Nat /\ Writes(k, n) \in 0 .. 2 /\ Allowed(k, n) \in 1 .. 2
         /\ Sent(k, n) \in SUBSET Conns /\ n \in Nat /\ n > 0 /\ asked[k] \in Nat
         /\ Sent(k, n)' \in SUBSET Conns /\ Writes(k, n)' \in 0 .. 2
<1>1. LinkTypeOK
  BY DEF LinkInv
<1>2. runs[k][n] \in Nat /\ n \in Nat /\ n > 0 /\ asked[k] \in Nat
  BY <1>1 DEF LinkTypeOK, Requests
<1>3. Allowed(k, n) \in 1 .. 2
  BY DEF Allowed
<1>4. Writes(k, n) \in 0 .. 2
  BY <1>3 DEF Writes
<1>5. Allowed(k, n)' = Allowed(k, n)
  BY DEF Allowed
<1>6. Writes(k, n)' \in 0 .. 2
  BY <1>3, <1>5 DEF Writes
<1>7. Sent(k, n) \in SUBSET Conns /\ Sent(k, n)' \in SUBSET Conns
  BY DEF Sent
<1>. QED  BY <1>2, <1>3, <1>4, <1>6, <1>7

\* A step that writes and executes nothing.
LEMMA CountLess ==
  ASSUME LinkInv, NEW k \in Clients, NEW n \in Requests(k), Counted(k, n),
         runs'[k][n] = runs[k][n], Sent(k, n)' \subseteq Sent(k, n),
         Writes(k, n)' <= Writes(k, n)
  PROVE  Counted(k, n)'
<1>. DEFINE A == Sent(k, n)'  w == Writes(k, n)'
<1>1. /\ runs[k][n] \in Nat /\ Writes(k, n) \in 0 .. 2 /\ Allowed(k, n) \in 1 .. 2
      /\ Sent(k, n) \in SUBSET Conns
  BY CountTypes
<1>2. A \in SUBSET Conns /\ w \in 0 .. 2
  BY CountTypes
<1>3. A \subseteq Sent(k, n) /\ w <= Writes(k, n) /\ Allowed(k, n)' = Allowed(k, n)
  BY DEF Allowed
<1>. HIDE DEF A, w
<1>4. /\ Cardinality(A) <= Cardinality(Sent(k, n))
      /\ Cardinality(A) \in Nat /\ Cardinality(Sent(k, n)) \in Nat
  BY <1>1, <1>2, <1>3, Cardinalities
<1>5. runs[k][n] + Cardinality(A) + w <= Allowed(k, n)
  BY <1>1, <1>2, <1>3, <1>4 DEF Counted
<1>. QED  BY <1>3, <1>5 DEF Counted, A, w

\* A step that writes once.
LEMMA CountWrite ==
  ASSUME LinkInv, NEW k \in Clients, NEW n \in Requests(k), Counted(k, n),
         runs'[k][n] = runs[k][n], NEW c \in Conns, Sent(k, n)' \subseteq Sent(k, n) \union {c},
         Writes(k, n)' < Writes(k, n)
  PROVE  Counted(k, n)'
<1>. DEFINE A == Sent(k, n)'  w == Writes(k, n)'
<1>1. /\ runs[k][n] \in Nat /\ Writes(k, n) \in 0 .. 2 /\ Allowed(k, n) \in 1 .. 2
      /\ Sent(k, n) \in SUBSET Conns
  BY CountTypes
<1>2. A \in SUBSET Conns /\ w \in 0 .. 2
  BY CountTypes
<1>3. A \subseteq Sent(k, n) \union {c} /\ w < Writes(k, n) /\ Allowed(k, n)' = Allowed(k, n)
  BY DEF Allowed
<1>. HIDE DEF A, w
<1>4. /\ Cardinality(A) <= Cardinality(Sent(k, n)) + 1
      /\ Cardinality(A) \in Nat /\ Cardinality(Sent(k, n)) \in Nat
  BY <1>1, <1>2, <1>3, Cardinalities
<1>5. runs[k][n] + Cardinality(A) + w <= Allowed(k, n)
  BY <1>1, <1>2, <1>3, <1>4 DEF Counted
<1>. QED  BY <1>3, <1>5 DEF Counted, A, w

\* A step that executes what was sent over c.
LEMMA CountExecute ==
  ASSUME LinkInv, NEW k \in Clients, NEW n \in Requests(k), Counted(k, n),
         runs'[k][n] = runs[k][n] + 1, NEW c \in Sent(k, n), Sent(k, n)' \subseteq Sent(k, n) \ {c},
         Writes(k, n)' <= Writes(k, n)
  PROVE  Counted(k, n)'
<1>. DEFINE A == Sent(k, n)'  w == Writes(k, n)'
<1>1. /\ runs[k][n] \in Nat /\ Writes(k, n) \in 0 .. 2 /\ Allowed(k, n) \in 1 .. 2
      /\ Sent(k, n) \in SUBSET Conns
  BY CountTypes
<1>2. A \in SUBSET Conns /\ w \in 0 .. 2
  BY CountTypes
<1>3. A \subseteq Sent(k, n) \ {c} /\ w <= Writes(k, n) /\ Allowed(k, n)' = Allowed(k, n)
  BY DEF Allowed
<1>. HIDE DEF A, w
<1>4. /\ Cardinality(A) + 1 <= Cardinality(Sent(k, n))
      /\ Cardinality(A) \in Nat /\ Cardinality(Sent(k, n)) \in Nat
  BY <1>1, <1>2, <1>3, Cardinalities
<1>5. (runs[k][n] + 1) + Cardinality(A) + w <= Allowed(k, n)
  BY <1>1, <1>2, <1>3, <1>4 DEF Counted
<1>. QED  BY <1>3, <1>5 DEF Counted, A, w

\* Of the clients only k moves, and what it may still write does not grow.
LEMMA WritesOf ==
  ASSUME LinkInv, NEW k \in Clients, NEW j \in Clients, NEW n \in Requests(j),
         UNCHANGED asked, \A i \in Clients : i # k => cpc'[i] = cpc[i],
         \A i \in Clients : reused'[i] => reused[i],
         cpc[k] # "idle",
         cpc'[k] = "connect" => cpc[k] = "connect" \/ (reused[k] /\ ~reused'[k]),
         cpc'[k] = "write" => cpc[k] \in {"connect", "write"}
  PROVE  /\ Writes(j, n)' <= Writes(j, n)
         /\ cpc[k] = "write" /\ cpc'[k] = "head" /\ j = k /\ n = asked[k] =>
              Writes(j, n)' < Writes(j, n)
<1>0. asked[j] \in Nat /\ n \in Nat /\ asked' = asked
  BY CountTypes
<1>1. reused[j] \in BOOLEAN /\ reused[k] \in BOOLEAN /\ (reused'[j] => reused[j])
  BY DEF LinkInv, LinkTypeOK
<1>2. Allowed(j, n)' = Allowed(j, n) /\ Allowed(j, n) \in 1 .. 2
  BY DEF Allowed
<1>3. CASE asked[j] # n
  <2>1. asked[j] < n \/ asked[j] > n
    BY <1>0, <1>3
  <2>. QED  BY <1>0, <1>2, <1>3, <2>1 DEF Writes
<1>4. CASE asked[j] = n
  <2>. DEFINE o(pc, re) == IF pc = "idle" THEN 0
                           ELSE (IF pc \in {"connect", "write"} THEN 1 ELSE 0)
                                + (IF re THEN 1 ELSE 0)
  <2>1. Writes(j, n) = o(cpc[j], reused[j]) /\ Writes(j, n)' = o(cpc'[j], reused'[j])
    <3>1. ~(asked[j] < n) /\ ~(asked[j] > n) /\ ~(asked'[j] < n) /\ ~(asked'[j] > n)
      BY <1>0, <1>4
    <3>. QED  BY <3>1 DEF Writes
  <2>. HIDE DEF Writes
  <2>2. CASE j # k
    BY <1>1, <2>1, <2>2
  <2>3. CASE j = k
    BY <1>1, <2>1, <2>3
  <2>. QED  BY <2>2, <2>3
<1>. QED  BY <1>3, <1>4

\* When the client k closes its socket, nothing that was not there is sent.
LEMMA CountFail ==
  ASSUME LinkInv, CountInv, NEW k \in Clients, NEW code, Fail(k, code), cpc[k] # "idle"
  PROVE  CountInv'
<1>. DEFINE s == sock[k]
<1>1. LinkTypeOK
  BY DEF LinkInv
<1>2. /\ conn' = IF s = 0 THEN conn ELSE [conn EXCEPT ![s] = Shut(conn[s])]
      /\ sock' = [sock EXCEPT ![k] = 0]
      /\ cpc' = [cpc EXCEPT ![k] = IF reused[k] /\ code \in Retryable
                                   THEN "connect" ELSE "idle"]
      /\ reused' = [reused EXCEPT ![k] = FALSE]
      /\ UNCHANGED <<asked, answer, busy, runs>>
  BY <1>1 DEF Fail, Set, Closed, LinkTypeOK
<1>3. \A d \in Conns : d # s \/ s = 0 => conn'[d] = conn[d]
  BY <1>1, <1>2 DEF LinkTypeOK
<1>4. s # 0 => s \in Conns /\ conn'[s] = Shut(conn[s])
  BY <1>1, <1>2 DEF LinkTypeOK
<1>5. s # 0 /\ (conn'[s].up > 0 \/ busy = s) =>
        /\ conn'[s].client = conn[s].client
        /\ conn'[s].request = conn[s].request /\ conn'[s].up = conn[s].up
  BY <1>4, CloseConn
<1>6. ASSUME NEW j \in Clients, NEW n \in Requests(j)
      PROVE  Sent(j, n)' \subseteq Sent(j, n)
  <2>. SUFFICES ASSUME NEW d \in Conns, conn'[d].client = j, conn'[d].request = n,
                       conn'[d].up > 0 \/ busy = d
                PROVE  /\ conn[d].client = j /\ conn[d].request = n
                       /\ conn[d].up > 0 \/ busy = d
    BY <1>2 DEF Sent
  <2>1. CASE d # s \/ s = 0
    BY <1>3, <2>1
  <2>2. CASE d = s /\ s # 0
    BY <1>5, <2>2
  <2>. QED  BY <2>1, <2>2
<1>7. /\ \A i \in Clients : i # k => cpc'[i] = cpc[i]
      /\ cpc'[k] = "connect" => reused[k] /\ ~reused'[k]
      /\ cpc'[k] # "write" /\ sock'[k] = 0
      /\ \A i \in Clients : i # k => sock'[i] = sock[i]
  BY <1>1, <1>2 DEF LinkTypeOK
<1>8. \A i \in Clients : reused'[i] => reused[i]
  BY <1>1, <1>2 DEF LinkTypeOK
<1>9. ASSUME NEW j \in Clients, NEW n \in Requests(j)
      PROVE  Counted(j, n)'
  <2>1. Writes(j, n)' <= Writes(j, n)
    BY <1>2, <1>7, <1>8, WritesOf
  <2>2. Counted(j, n) /\ runs'[j][n] = runs[j][n]
    BY <1>2 DEF CountInv
  <2>. QED  BY <1>6, <2>1, <2>2, CountLess
<1>10. ASSUME NEW j \in Clients, sock'[j] # 0, cpc'[j] = "idle"
      PROVE  j \in KeepAlive /\ asked'[j] > 0
  BY <1>2, <1>7, <1>10 DEF CountInv
<1>. QED  BY <1>9, <1>10 DEF CountInv

LEMMA CountConnect ==
  ASSUME LinkInv, CountInv, NEW k \in Clients, Connect(k)
  PROVE  CountInv'
<1>0. LinkTypeOK /\ Carried
  BY DEF LinkInv
<1>. DEFINE new == [Free EXCEPT !.client = k, !.open = TRUE, !.srv = "backlog"]
<1>1. PICK c \in Conns : conn[c] = Free /\ Succeed(k, "write", [conn EXCEPT ![c] = new], c)
  BY DEF Connect
<1>2. new.up = 0 /\ Shut(new).up = 0 /\ cpc[k] = "connect"
  BY DEF Free, Shut, Connect
<1>3. c # 0 /\ busy # c
  BY <1>0, <1>1 DEF Carried, Free, Conns
<1>. HIDE DEF new
<1>4. /\ conn'[c] = new \/ conn'[c] = Shut(new)
      /\ \A d \in Conns : d # c => conn'[d] = conn[d]
      /\ cpc' = [cpc EXCEPT ![k] = "write"]
      /\ UNCHANGED <<asked, busy, runs>>
  <2>1. \/ conn' = [conn EXCEPT ![c] = new]
        \/ conn' = [[conn EXCEPT ![c] = new] EXCEPT ![c] = Shut([conn EXCEPT ![c] = new][c])]
    BY <1>1 DEF Succeed
  <2>2. [conn EXCEPT ![c] = new][c] = new
    BY <1>0, <1>1 DEF LinkTypeOK
  <2>3. /\ conn'[c] = new \/ conn'[c] = Shut(new)
        /\ \A d \in Conns : d # c => conn'[d] = conn[d]
    BY <1>0, <1>1, <2>1, <2>2 DEF LinkTypeOK
  <2>4. /\ cpc' = [cpc EXCEPT ![k] = "write"]
        /\ UNCHANGED <<asked, busy, runs>>
    BY <1>1 DEF Succeed, Set
  <2>. QED  BY <2>3, <2>4
<1>5. /\ \A i \in Clients : i # k => cpc'[i] = cpc[i] /\ sock'[i] = sock[i]
      /\ cpc'[k] = "write"
  BY <1>0, <1>1, <1>4 DEF LinkTypeOK, Succeed, Set
<1>6. \A i \in Clients : reused'[i] => reused[i]
  BY <1>0, <1>1, ReusedIsLess DEF ReusedLess
<1>7. ASSUME NEW j \in Clients, NEW n \in Requests(j)
      PROVE  Sent(j, n)' \subseteq Sent(j, n)
  <2>1. \A d \in Conns : conn'[d].up > 0 \/ busy = d => d # c
    BY <1>2, <1>3, <1>4
  <2>. QED  BY <1>4, <2>1 DEF Sent
<1>8. ASSUME NEW j \in Clients, NEW n \in Requests(j)
      PROVE  Counted(j, n)'
  <2>1. Writes(j, n)' <= Writes(j, n)
    BY <1>2, <1>4, <1>5, <1>6, WritesOf
  <2>2. Counted(j, n) /\ runs'[j][n] = runs[j][n]
    BY <1>4 DEF CountInv
  <2>. QED  BY <1>7, <2>1, <2>2, CountLess
<1>9. ASSUME NEW j \in Clients, sock'[j] # 0, cpc'[j] = "idle"
      PROVE  j \in KeepAlive /\ asked'[j] > 0
  BY <1>4, <1>5, <1>9 DEF CountInv
<1>. QED  BY <1>8, <1>9 DEF CountInv

LEMMA CountOver ==
  ASSUME LinkInv, CountInv, NEW k \in Clients, OverItsSocket(k)
  PROVE  CountInv'
<1>0. LinkTypeOK /\ Asking
  BY DEF LinkInv
<1>1. PICK s, x, pc, a : Leaves(k, s, x, pc) /\ Left(k, s, x, pc, a) /\ Moves(k, s, x, pc)
  BY DEF OverItsSocket
<1>2. /\ s \in Conns /\ cpc[k] # "idle" /\ busy # s
      /\ x \in Connections /\ x.client = k
      /\ x.up > 0 => x.request = asked[k] /\ pc = "head" /\ cpc[k] = "write"
      /\ pc = "head" => cpc[k] = "write"
      /\ pc \in {"head", "body", "idle"}
  BY <1>1 DEF Left, Moves
<1>3. /\ \A d \in Conns : d # s => conn'[d] = conn[d]
      /\ conn'[s] = x \/ conn'[s] = Shut(x)
      /\ cpc' = [cpc EXCEPT ![k] = pc]
      /\ \A i \in Clients : reused'[i] => reused[i]
      /\ UNCHANGED <<asked, busy, runs>>
  BY <1>1 DEF Leaves
<1>4. Shut(x).up > 0 => Shut(x).client = x.client /\ Shut(x).request = x.request
                        /\ Shut(x).up = x.up
  <2>1. Free.up = 0
    BY DEF Free
  <2>. QED  BY <1>2, <2>1, Ends
<1>5. /\ \A i \in Clients : i # k => cpc'[i] = cpc[i] /\ sock'[i] = sock[i]
      /\ cpc'[k] = pc
  BY <1>0, <1>1, <1>3 DEF LinkTypeOK, Leaves
<1>6. conn'[s].up > 0 \/ busy = s =>
        /\ conn'[s].client = k /\ conn'[s].request = asked[k]
        /\ pc = "head" /\ cpc[k] = "write"
  BY <1>2, <1>3, <1>4
<1>7. ASSUME NEW j \in Clients, NEW n \in Requests(j)
      PROVE  /\ Sent(j, n)' \subseteq Sent(j, n) \union {s}
             /\ ~(j = k /\ n = asked[k] /\ pc = "head") => Sent(j, n)' \subseteq Sent(j, n)
  BY <1>3, <1>6 DEF Sent
<1>8. ASSUME NEW j \in Clients, NEW n \in Requests(j)
      PROVE  Counted(j, n)'
  <2>1. /\ Writes(j, n)' <= Writes(j, n)
        /\ cpc[k] = "write" /\ cpc'[k] = "head" /\ j = k /\ n = asked[k] =>
             Writes(j, n)' < Writes(j, n)
    BY <1>2, <1>3, <1>5, WritesOf
  <2>2. Counted(j, n) /\ runs'[j][n] = runs[j][n]
    BY <1>3 DEF CountInv
  <2>3. CASE j = k /\ n = asked[k] /\ pc = "head"
    <3>1. Writes(j, n)' < Writes(j, n) /\ Sent(j, n)' \subseteq Sent(j, n) \union {s}
      BY <1>2, <1>5, <1>7, <2>1, <2>3
    <3>. QED  BY <1>2, <2>2, <3>1, CountWrite
  <2>4. CASE ~(j = k /\ n = asked[k] /\ pc = "head")
    <3>1. Sent(j, n)' \subseteq Sent(j, n)
      BY <1>7, <2>4
    <3>. QED  BY <2>1, <2>2, <3>1, CountLess
  <2>. QED  BY <2>3, <2>4
<1>9. ASSUME NEW j \in Clients, sock'[j] # 0, cpc'[j] = "idle"
      PROVE  j \in KeepAlive /\ asked'[j] > 0
  <2>1. CASE j # k
    BY <1>3, <1>5, <1>9, <2>1 DEF CountInv
  <2>2. CASE j = k
    <3>1. pc = "idle" /\ k \in KeepAlive
      BY <1>1, <1>5, <1>9, <2>2 DEF Moves
    <3>2. asked[k] \in Requests(k)
      BY <1>0, <1>2 DEF Asking
    <3>. QED  BY <1>3, <2>2, <3>1, <3>2 DEF Requests
  <2>. QED  BY <2>1, <2>2
<1>. QED  BY <1>8, <1>9 DEF CountInv

LEMMA CountBegin ==
  ASSUME LinkInv, CountInv, NEW k \in Clients, Begin(k)
  PROVE  CountInv'
<1>0. LinkTypeOK
  BY DEF LinkInv
<1>1. /\ cpc[k] = "idle" /\ UNCHANGED <<conn, sock, busy, runs>>
      /\ \A i \in Clients : i # k => asked'[i] = asked[i] /\ cpc'[i] = cpc[i]
      /\ asked'[k] = asked[k] + 1 /\ cpc'[k] = IF sock[k] # 0 THEN "write" ELSE "connect"
      /\ asked[k] \in Nat
  BY <1>0 DEF Begin, Set, LinkTypeOK
<1>2. /\ \A i \in Clients : i # k => reused'[i] = reused[i]
      /\ reused'[k] => sock[k] # 0
  BY <1>0 DEF Begin, Set, LinkTypeOK
<1>3. sock[k] # 0 => k \in KeepAlive /\ asked[k] > 0
  BY <1>1 DEF CountInv
<1>4. ASSUME NEW j \in Clients, NEW n \in Requests(j)
      PROVE  Writes(j, n)' <= Writes(j, n)
  <2>1. n \in Nat /\ asked[j] \in Nat /\ Writes(j, n) \in 0 .. 2 /\ Allowed(j, n) \in 1 .. 2
    BY CountTypes
  <2>2. Allowed(j, n)' = Allowed(j, n)
    BY DEF Allowed
  <2>3. CASE j # k
    <3>1. Writes(j, n)' = Writes(j, n)
      BY <1>1, <1>2, <2>2, <2>3 DEF Writes
    <3>. QED  BY <2>1, <3>1
  <2>4. CASE j = k
    <3>1. CASE n < asked[k] + 1
      <4>1. Writes(j, n)' = 0
        BY <1>1, <2>1, <2>4, <3>1 DEF Writes
      <4>. QED  BY <2>1, <4>1
    <3>2. CASE n = asked[k] + 1
      <4>1. Writes(j, n) = Allowed(j, n)
        BY <1>1, <2>1, <2>4, <3>2 DEF Writes
      <4>2. Writes(j, n)' = 1 + (IF reused'[k] THEN 1 ELSE 0)
        <5>1. ~(asked'[j] < n) /\ ~(asked'[j] > n) /\ cpc'[j] \in {"connect", "write"}
          BY <1>1, <2>1, <2>4, <3>2
        <5>. QED  BY <2>4, <5>1 DEF Writes
      <4>3. reused'[k] => Allowed(j, n) = 2
        BY <1>1, <1>2, <1>3, <2>4, <3>2 DEF Allowed
      <4>. QED  BY <2>1, <4>1, <4>2, <4>3
    <3>3. CASE n > asked[k] + 1
      <4>1. Writes(j, n)' = Writes(j, n)
        BY <1>1, <2>1, <2>2, <2>4, <3>3 DEF Writes
      <4>. QED  BY <2>1, <4>1
    <3>. QED  BY <1>1, <2>1, <3>1, <3>2, <3>3
  <2>. QED  BY <2>3, <2>4
<1>5. ASSUME NEW j \in Clients, NEW n \in Requests(j)
      PROVE  Counted(j, n)'
  <2>1. Sent(j, n)' \subseteq Sent(j, n) /\ runs'[j][n] = runs[j][n] /\ Counted(j, n)
    BY <1>1 DEF Sent, CountInv
  <2>. QED  BY <1>4, <2>1, CountLess
<1>6. ASSUME NEW j \in Clients, sock'[j] # 0, cpc'[j] = "idle"
      PROVE  j \in KeepAlive /\ asked'[j] > 0
  BY <1>1, <1>6 DEF CountInv
<1>. QED  BY <1>5, <1>6 DEF CountInv

\* A step of the server.
LEMMA CountServer ==
  ASSUME LinkInv, CountInv, NEW c \in Conns, Handled(c) \/ Executed(c)
  PROVE  CountInv'
<1>0. LinkTypeOK
  BY DEF LinkInv
<1>1. PICK x : Served(c, x) /\ \/ Handled(c) /\ (x.up > 0 \/ busy' = c => conn[c].up > 0)
                               \/ Executed(c) /\ x.up = 0
  BY DEF Handled, Executed
<1>2. /\ conn'[c] = x /\ \A d \in Conns : d # c => conn'[d] = conn[d]
      /\ UNCHANGED <<cpc, reused, sock, asked>>
      /\ \A d \in Conns : d # c => (busy' = d <=> busy = d)
      /\ x.up > 0 \/ busy' = c => x.client = conn[c].client /\ x.request = conn[c].request
      /\ c # 0
  BY <1>0, <1>1 DEF Served, clientvars, LinkTypeOK, Conns
<1>3. ASSUME NEW j \in Clients, NEW n \in Requests(j)
      PROVE  Writes(j, n)' <= Writes(j, n)
  <2>1. Writes(j, n)' = Writes(j, n)
    BY <1>2 DEF Writes, Allowed
  <2>2. Writes(j, n) \in 0 .. 2
    BY CountTypes
  <2>. QED  BY <2>1, <2>2
<1>4. \A j \in Clients : \A n \in Requests(j) : Counted(j, n)
  BY DEF CountInv
<1>5. CASE Handled(c) /\ (x.up > 0 \/ busy' = c => conn[c].up > 0)
  <2>1. ASSUME NEW j \in Clients, NEW n \in Requests(j)
        PROVE  Counted(j, n)'
    <3>1. Sent(j, n)' \subseteq Sent(j, n)
      BY <1>2, <1>5 DEF Sent
    <3>2. runs'[j][n] = runs[j][n]
      BY <1>5 DEF Handled
    <3>. QED  BY <1>3, <1>4, <3>1, <3>2, CountLess
  <2>. QED  BY <1>2, <2>1 DEF CountInv
<1>6. CASE Executed(c) /\ x.up = 0
  <2>1. /\ busy = c /\ busy' = 0
        /\ \A j \in Clients : \A n \in Requests(j) :
             runs'[j][n] = IF j = conn[c].client /\ n = conn[c].request
                           THEN runs[j][n] + 1 ELSE runs[j][n]
    BY <1>6 DEF Executed
  <2>2. ASSUME NEW j \in Clients, NEW n \in Requests(j)
        PROVE  Counted(j, n)'
    <3>1. Sent(j, n)' \subseteq Sent(j, n) \ {c}
      BY <1>2, <1>6, <2>1 DEF Sent
    <3>2. CASE j = conn[c].client /\ n = conn[c].request
      <4>1. c \in Sent(j, n) /\ runs'[j][n] = runs[j][n] + 1
        BY <2>1, <3>2 DEF Sent
      <4>. QED  BY <1>3, <1>4, <3>1, <4>1, CountExecute
    <3>3. CASE ~(j = conn[c].client /\ n = conn[c].request)
      <4>1. runs'[j][n] = runs[j][n] /\ Sent(j, n)' \subseteq Sent(j, n)
        BY <2>1, <3>1, <3>3
      <4>. QED  BY <1>3, <1>4, <4>1, CountLess
    <3>. QED  BY <3>2, <3>3
  <2>. QED  BY <1>2, <2>2 DEF CountInv
<1>. QED  BY <1>1, <1>5, <1>6

LEMMA CountStutters ==
  ASSUME CountInv, UNCHANGED linkvars
  PROVE  CountInv'
BY DEF CountInv, Counted, Sent, Writes, Allowed, linkvars, clientvars

LEMMA CountInit == Init => CountInv
<1>. SUFFICES ASSUME Init
              PROVE  CountInv
  OBVIOUS
<1>. USE DEF Init, LinkInit
<1>1. Free.up = 0 /\ \A c \in Conns : conn[c] = Free /\ busy # c
  BY DEF Free, Conns
<1>2. ASSUME NEW k \in Clients, NEW n \in Requests(k)
      PROVE  Counted(k, n)
  <2>1. Sent(k, n) = {}
    BY <1>1 DEF Sent
  <2>2. Cardinality(Sent(k, n)) = 0
    BY <2>1, FS_EmptySet
  <2>3. n \in Nat /\ n > 0 /\ asked[k] = 0 /\ runs[k][n] = 0
    BY DEF Requests
  <2>4. Writes(k, n) = Allowed(k, n) /\ Allowed(k, n) \in 1 .. 2
    BY <2>3 DEF Writes, Allowed
  <2>. QED  BY <2>2, <2>3, <2>4 DEF Counted
<1>3. \A k \in Clients : sock[k] = 0
  OBVIOUS
<1>. QED  BY <1>2, <1>3 DEF CountInv

LEMMA CountStep == IInv /\ CountInv /\ [Next]_vars => CountInv'
<1>. SUFFICES ASSUME LinkInv, CountInv, [Next]_vars
              PROVE  CountInv'
  BY DEF IInv
<1>1. Recorder \in Clients /\ User \in Clients
  OBVIOUS
<1>2. CASE AskFirst \/ AskAgain \/ UserAsks
  <2>1. Begin(Recorder) \/ Begin(User)
    BY <1>2 DEF AskFirst, AskAgain, Ask, UserAsks
  <2>. QED  BY <1>1, <2>1, CountBegin
<1>3. CASE FirstDone \/ Record \/ StopLoop \/ JoinIo \/ Exit \/ Terminate \/ UNCHANGED vars
  <2>1. UNCHANGED linkvars
    BY <1>3 DEF FirstDone, Record, StopLoop, JoinIo, Exit, Terminate, vars
  <2>. QED  BY <2>1, CountStutters
<1>4. ASSUME NEW k \in Clients, ClientStep(k)
      PROVE  CountInv'
  <2>1. CASE PeerClosed(k) \/ NoSocket(k) \/ TimeOut(k)
    <3>1. cpc[k] # "idle" /\ \E code : Fail(k, code)
      BY <2>1 DEF PeerClosed, NoSocket, TimeOut
    <3>2. PICK code : Fail(k, code)
      BY <3>1
    <3>. QED  BY <3>1, <3>2, CountFail
  <2>2. CASE Write(k) \/ ReadHead(k) \/ ReadBody(k)
    <3>1. OverItsSocket(k)
      BY <2>2, WriteOver, ReadOver
    <3>. QED  BY <3>1, CountOver
  <2>. QED  BY <1>4, <2>1, <2>2, CountConnect DEF ClientStep, Operation
<1>5. ASSUME NEW c \in Conns, Execute(c) \/ Serve(c) \/ Expire(c)
      PROVE  CountInv'
  <2>1. Handle(c) \/ Handler(c) \/ Inactive(c)
    BY <1>5 DEF Execute, Serve, Expire
  <2>2. Handled(c) \/ Executed(c)
    BY <2>1, HandleServes, HandlerServes
  <2>. QED  BY <2>2, CountServer
<1>. QED  BY <1>2, <1>3, <1>4, <1>5 DEF Next, BlackBox, Main

\* A request is executed twice only over a kept socket, hence never the first of
\* a client nor one of the black box, and never three times (the retry of
\* http_client::request, http_client.cpp:104-134).
THEOREM NeverThreeTimes == Spec => []TwiceOnlyAfterReuse
<1>1. Init => CountInv
  BY CountInit
<1>2. IInv /\ CountInv /\ [Next]_vars => CountInv'
  BY CountStep
<1>3. IInv /\ CountInv => TwiceOnlyAfterReuse
  <2>. SUFFICES ASSUME LinkInv, CountInv, NEW k \in Clients, NEW n \in Requests(k)
                PROVE  runs[k][n] <= IF k \in KeepAlive /\ n > 1 THEN 2 ELSE 1
    BY DEF IInv, TwiceOnlyAfterReuse
  <2>1. /\ runs[k][n] \in Nat /\ Writes(k, n) \in 0 .. 2 /\ Allowed(k, n) \in 1 .. 2
        /\ Cardinality(Sent(k, n)) \in Nat
    BY CountTypes, Cardinalities
  <2>2. runs[k][n] + Cardinality(Sent(k, n)) + Writes(k, n) <= Allowed(k, n)
    BY DEF CountInv, Counted
  <2>3. runs[k][n] <= Allowed(k, n)
    BY <2>1, <2>2
  <2>. QED  BY <2>3 DEF Allowed
<1>. QED  BY <1>1, <1>2, <1>3, Invariance, PTL DEF Spec

\* A response that request() returns is the response to the request it was
\* called with, which was executed: whatever timed out, was repeated or closed
\* before, on however many kept sockets (http_client::request).
THEOREM OwnAnswers == Spec => []AnswerIsOwn
<1>1. IInv => AnswerIsOwn
  BY DEF IInv, LinkInv
<1>. QED  BY <1>1, Invariance, PTL

\* What the black box records is empty or what its request of this round brought,
\* and as long as every call of the firmware returned its own answer, it is the
\* answer to that request (black_box::get_drone_state over
\* firmware_jsonrpc_request_handler).
THEOREM FreshRecords == Spec => RecordIsFresh
<1>. DEFINE A == rec = "asking" /\ rec' = "loop" /\ state' # Empty =>
                   state'[1] = asked[Recorder] /\ (~late => state'[2] = "own")
<1>1. IInv /\ [Next]_vars => [A]_vars
  <2>. SUFFICES ASSUME LinkInv, BoxInv, RelayInv, Next,
                       rec = "asking", rec' = "loop", state' # Empty
                PROVE  state'[1] = asked[Recorder] /\ (~late => state'[2] = "own")
    BY DEF IInv
  <2>1. Record
    BY DEF Next, BlackBox, AskFirst, FirstDone, AskAgain, StopLoop, Main, JoinIo,
           Exit, Terminate, UserAsks, ClientStep, Execute, Serve, Expire, boxvars
  <2>2. state = Empty /\ cpc[Recorder] = "idle" /\ state' = Answered
    BY <2>1 DEF BoxInv, Record, Take
  <2>. DEFINE n == answer[Recorder]
  <2>3. n # 0 /\ brought[n] # "nothing" /\ state' = <<n, brought[n]>>
    BY <2>2 DEF Answered
  <2>4. n = asked[Recorder] /\ n \in Requests(Recorder)
    <3>1. Recorder \in Clients /\ n \in Nat /\ asked[Recorder] <= MaxRequests[Recorder]
      BY DEF LinkInv, LinkTypeOK, Asking
    <3>2. n = asked[Recorder]
      BY <2>2, <2>3, <3>1 DEF LinkInv, AnswerIsOwn
    <3>. QED  BY <2>3, <3>1, <3>2 DEF Requests
  <2>5. brought[n] = "own" \/ (brought[n] = "late" /\ late)
    BY <2>3, <2>4 DEF RelayInv, Firmware!Results
  <2>6. state'[1] = n /\ state'[2] = brought[n]
    BY <2>3
  <2>. QED  BY <2>4, <2>5, <2>6
<1>. QED  BY <1>1, Invariance, PTL DEF Spec, RecordIsFresh
=============================================================================
