------------------------------ MODULE HttpLink ------------------------------
(***************************************************************************)
(* libhttp: the blocking http_client, one asynchronous operation with a    *)
(* timer after the other, and the http_server, whose connections share one *)
(* io thread, with the TCP connections between them.  A request is its     *)
(* number among those of its client.                                       *)
(*                                                                         *)
(* Times are left out: a timer may expire at any time.  The handler of one *)
(* that expires as its operation completes is already queued and cannot be *)
(* cancelled: it closes the socket after the completion handler ("late").  *)
(***************************************************************************)
EXTENDS Naturals

CONSTANTS
  Clients,      \* the http_clients of a server
  KeepAlive,    \* those that send "Connection: keep-alive"
  MaxRequests,  \* bound: requests of a client
  MaxConns      \* bound: connections at the same time

ASSUME HttpAssumption ==
  KeepAlive \subseteq Clients /\ MaxConns \in Nat /\ MaxRequests \in [Clients -> Nat]

VARIABLES
  conn,         \* the connections
  \* the clients: where request() is, in its first attempt over an open
  \* socket?, the connection (0: closed), the request, the request that the
  \* response is for (0: none, or an exception)
  cpc, reused, sock, asked, answer,
  \* the server: the connection whose request is executed, 0 if none
  busy,
  \* history: how often a request was executed
  runs

clientvars == <<cpc, reused, sock, asked, answer>>
linkvars   == <<conn, clientvars, busy, runs>>

Conns    == 1 .. MaxConns
Requests(k) == 1 .. MaxRequests[k]

\* Of a connection: its client, the request, how much of it and of the reply
\* the other side has yet to read (2 all, 1 the content), the server's end.
Free == [client |-> "none", request |-> 0, up |-> 0, down |-> 0, open |-> FALSE,
         srv |-> "free"]

LinkInit ==
  /\ conn = [c \in Conns |-> Free] /\ busy = 0
  /\ cpc = [k \in Clients |-> "idle"] /\ reused = [k \in Clients |-> FALSE]
  /\ sock = [k \in Clients |-> 0]
  /\ asked = [k \in Clients |-> 0] /\ answer = [k \in Clients |-> 0]
  /\ runs = [k \in Clients |-> [n \in Requests(k) |-> 0]]

Set(f, k, v) == [f EXCEPT ![k] = v]

\* What the connection x becomes when the client or the server closes its end:
\* what the other side has sent is thrown away.
Shut(x)  == IF x.srv = "closed" THEN Free ELSE [x EXCEPT !.open = FALSE, !.down = 0]
Drop(x)  == IF x.open THEN [x EXCEPT !.srv = "closed", !.up = 0] ELSE Free

(***************************************************************************)
(* http_client.                                                            *)
(***************************************************************************)

Retryable == {"eof", "bad_descriptor", "broken_pipe"}

\* socket_.close() by the client k, when the connections are cs.
Closed(k, cs) ==
  IF sock[k] = 0 THEN cs ELSE [cs EXCEPT ![sock[k]] = Shut(@)]

\* request() begins, with an empty response: over the open socket, or with a
\* connection.
Begin(k) ==
  /\ cpc[k] = "idle" /\ asked[k] < MaxRequests[k]
  /\ asked' = Set(asked, k, asked[k] + 1)
  /\ reused' = Set(reused, k, sock[k] # 0)
  /\ cpc' = Set(cpc, k, IF sock[k] # 0 THEN "write" ELSE "connect")
  /\ answer' = Set(answer, k, 0)
  /\ UNCHANGED <<conn, sock, busy, runs>>

\* Variants: a time-out that leaves the socket open, and one that is retried.
FailOpen(k, code) ==
  /\ conn' = IF code = "aborted" THEN conn ELSE Closed(k, conn)
  /\ sock' = IF code = "aborted" THEN sock ELSE Set(sock, k, 0)
  /\ cpc' = Set(cpc, k, IF reused[k] /\ code \in Retryable THEN "connect" ELSE "idle")
  /\ reused' = Set(reused, k, FALSE)
  /\ UNCHANGED <<asked, answer, busy, runs>>

FailRetries(k, code) ==
  /\ conn' = Closed(k, conn) /\ sock' = Set(sock, k, 0)
  /\ cpc' = Set(cpc, k, IF code = "refused" THEN "idle" ELSE "connect")
  /\ reused' = Set(reused, k, FALSE)
  /\ UNCHANGED <<asked, answer, busy, runs>>

\* An operation ends with an error: the socket is closed; over a kept socket
\* the request is repeated if the other end seems to have closed it.
Fail(k, code) ==
  /\ conn' = Closed(k, conn) /\ sock' = Set(sock, k, 0)
  /\ cpc' = Set(cpc, k, IF reused[k] /\ code \in Retryable THEN "connect" ELSE "idle")
  /\ reused' = Set(reused, k, FALSE)
  /\ UNCHANGED <<asked, answer, busy, runs>>

\* An operation succeeds and leaves the connections cs and the socket s; the
\* handler of a late timer closes it.
Succeed(k, pc, cs, s) ==
  /\ \/ conn' = cs /\ sock' = Set(sock, k, s)
     \/ s # 0 /\ conn' = [cs EXCEPT ![s] = Shut(@)] /\ sock' = Set(sock, k, 0)
  /\ cpc' = Set(cpc, k, pc)
  /\ reused' = Set(reused, k, reused[k] /\ pc # "idle")
  /\ UNCHANGED <<asked, busy, runs>>

\* async_connect_endpoint: a listening server has the connection in its backlog.
Connect(k) ==
  /\ cpc[k] = "connect"
  /\ \E c \in Conns :
       /\ conn[c] = Free /\ \A d \in 1 .. c - 1 : conn[d] # Free
       /\ Succeed(k, "write",
                  [conn EXCEPT ![c] = [Free EXCEPT !.client = k, !.open = TRUE,
                                                   !.srv = "backlog"]], c)
  /\ UNCHANGED answer

\* async_write_request_buffers: a closed other end takes the bytes as well.
Write(k) ==
  /\ cpc[k] = "write" /\ sock[k] # 0
  /\ Succeed(k, "head",
             IF conn[sock[k]].srv = "closed" THEN conn
             ELSE [conn EXCEPT ![sock[k]].request = asked[k], ![sock[k]].up = 2],
             sock[k])
  /\ UNCHANGED answer

\* The response is complete: the socket is kept if the response says so.
Complete(k) ==
  LET c == sock[k]
      rest == [conn EXCEPT ![c].down = 0, ![c].request = 0]
  IN  /\ answer' = Set(answer, k, conn[c].request)
      /\ IF k \in KeepAlive THEN Succeed(k, "idle", rest, c)
         ELSE Succeed(k, "idle", Closed(k, rest), 0)

\* read_headers: what arrives may be the headers only, or all of it.
ReadHead(k) ==
  /\ cpc[k] = "head" /\ sock[k] # 0 /\ conn[sock[k]].down = 2
  /\ \/ Complete(k)
     \/ /\ Succeed(k, "body", [conn EXCEPT ![sock[k]].down = 1], sock[k])
        /\ UNCHANGED answer

\* read_content, to Content-Length bytes.
ReadBody(k) ==
  cpc[k] = "body" /\ sock[k] # 0 /\ conn[sock[k]].down = 1 /\ Complete(k)

\* The other end has closed the connection.
PeerClosed(k) ==
  /\ cpc[k] \in {"write", "head", "body"} /\ sock[k] # 0
  /\ conn[sock[k]].srv = "closed" /\ conn[sock[k]].down = 0
  /\ \E code \in {"eof", "broken_pipe", "reset"} :
       (code = "eof" => cpc[k] # "write") /\ Fail(k, code)

\* An operation on the socket that a late timer has closed.
NoSocket(k) ==
  cpc[k] \in {"write", "head", "body"} /\ sock[k] = 0 /\ Fail(k, "bad_descriptor")

\* A variant that arms the timer for connecting only.
TimeOutConnect(k) == cpc[k] = "connect" /\ Fail(k, "aborted")

\* The timer of an operation that is under way closes the socket.
TimeOut(k) ==
  /\ cpc[k] # "idle" /\ (cpc[k] = "connect" \/ sock[k] # 0)
  /\ Fail(k, "aborted")

Operation(k) ==
  Connect(k) \/ Write(k) \/ ReadHead(k) \/ ReadBody(k) \/ PeerClosed(k) \/ NoSocket(k)

(***************************************************************************)
(* http_server: handlers on one thread, which a request occupies while it  *)
(* is executed.                                                            *)
(***************************************************************************)

\* handle_accept.
Accept(c) ==
  /\ busy = 0 /\ conn[c].srv = "backlog"
  /\ conn' = [conn EXCEPT ![c].srv = "headers"]
  /\ UNCHANGED <<clientvars, busy, runs>>

\* handle_headers_read: the content may come with the headers.
HeadersRead(c) ==
  /\ busy = 0 /\ conn[c].srv = "headers" /\ conn[c].up = 2
  /\ \/ conn' = [conn EXCEPT ![c].up = 0] /\ busy' = c
     \/ conn' = [conn EXCEPT ![c].up = 1, ![c].srv = "content"] /\ UNCHANGED busy
  /\ UNCHANGED <<clientvars, runs>>

\* handle_content_read.
ContentRead(c) ==
  /\ busy = 0 /\ conn[c].srv = "content" /\ conn[c].up = 1
  /\ conn' = [conn EXCEPT ![c].up = 0] /\ busy' = c
  /\ UNCHANGED <<clientvars, runs>>

\* handle_request has executed the request, and the reply is written at once.
Handle(c) ==
  /\ busy = c /\ busy' = 0
  /\ conn' = [conn EXCEPT ![c].down = IF conn[c].open THEN 2 ELSE 0,
                          ![c].srv = "writing"]
  /\ runs' = [runs EXCEPT ![conn[c].client][conn[c].request] = @ + 1]
  /\ UNCHANGED clientvars

\* handle_reply_write, of a written reply: the next request, or the end.
ReplyWritten(c) ==
  /\ busy = 0 /\ conn[c].srv = "writing"
  /\ conn' = [conn EXCEPT ![c] = IF @.client \in KeepAlive
                                 THEN [@ EXCEPT !.srv = "headers"] ELSE Drop(@)]
  /\ UNCHANGED <<clientvars, busy, runs>>

\* A handler with an error: the client has closed its end.
ClientGone(c) ==
  /\ busy = 0 /\ conn[c].srv \in {"headers", "content", "writing"}
  /\ ~conn[c].open /\ conn[c].up = 0
  /\ conn' = [conn EXCEPT ![c] = Drop(@)]
  /\ UNCHANGED <<clientvars, busy, runs>>

\* handle_connection_timeout, after 90 seconds without a completed operation.
Inactive(c) ==
  /\ busy = 0 /\ conn[c].srv \in {"headers", "content", "writing"}
  /\ conn' = [conn EXCEPT ![c] = Drop(@)]
  /\ UNCHANGED <<clientvars, busy, runs>>

Handler(c) ==
  Accept(c) \/ HeadersRead(c) \/ ContentRead(c) \/ ReplyWritten(c) \/ ClientGone(c)
=============================================================================
