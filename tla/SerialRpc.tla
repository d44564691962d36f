----------------------------- MODULE SerialRpc -----------------------------
(***************************************************************************)
(* The host's end of the serial link.  sigmad makes a client object for    *)
(* every request it forwards: it opens the port and flushes it, writes one *)
(* line, reads until a newline or a silence of timeout_, flushes and       *)
(* closes.  Handlers run in the one thread of the io_service, so there is  *)
(* one client at a time.  The firmware is what UartServer shows of it: it  *)
(* answers each line once and in order, whenever its main loop comes to    *)
(* it, and an error recovery loses what waits and the end of an answer.    *)
(*                                                                         *)
(* A line is two pieces, its head and the tail with the newline.  A piece  *)
(* has the number of the request it belongs to; the answer to a line that  *)
(* is not a whole request is an error without an id, number 0.             *)
(***************************************************************************)
EXTENDS Naturals, Sequences, SequencesExt

CONSTANTS
  MaxRequests,   \* bound: requests in a behaviour
  MaxErrors      \* bound: line errors in a behaviour

ASSUME SerialRpcAssumption == MaxRequests \in Nat /\ MaxErrors \in Nat

Piece == [req : 0 .. MaxRequests, part : {"head", "tail"}]

Whole(r) == <<[req |-> r, part |-> "head"], [req |-> r, part |-> "tail"]>>

VARIABLES
  \* the wires and what waits at their ends: to the firmware, to the host, and
  \* in the tty of the host
  down, up, tty,
  \* the firmware: cached_request_, line errors so far
  line, errors,
  \* the client: where it is, cache_, response_
  client, cache, response,
  \* history: the requests made, whether the link was quiet when the last one
  \* was opened, the calls that gave up waiting, and how every call ended
  serial, quiet, early, results

link    == <<down, up, tty, line, errors>>
calls   == <<serial, quiet, early, results>>
vars    == <<link, client, cache, response, calls>>

Init ==
  /\ down = <<>> /\ up = <<>> /\ tty = <<>> /\ line = <<>> /\ errors = 0
  /\ client = "closed" /\ cache = <<>> /\ response = <<>>
  /\ serial = 0 /\ quiet = TRUE /\ early = 0 /\ results = <<>>

(***************************************************************************)
(* The client.                                                             *)
(***************************************************************************)

\* The firmware is between two requests and no answer is on the wire.
Quiet == down = <<>> /\ up = <<>> /\ line = <<>>

\* A variant that does not flush the port.
OpenNoFlush ==
  /\ client = "closed" /\ serial < MaxRequests
  /\ client' = "open" /\ serial' = serial + 1 /\ quiet' = Quiet
  /\ UNCHANGED <<link, cache, response, early, results>>

\* The constructor: open, then tcflush.
Open ==
  /\ client = "closed" /\ serial < MaxRequests
  /\ client' = "open" /\ serial' = serial + 1 /\ quiet' = Quiet
  /\ tty' = <<>>
  /\ UNCHANGED <<down, up, line, errors, cache, response, early, results>>

\* request(): the line and its newline are written.
Request ==
  /\ client = "open" /\ client' = "waiting"
  /\ down' = down \o Whole(serial)
  /\ UNCHANGED <<up, tty, line, errors, cache, response, calls>>

\* The call ends, with a response or with an exception.
End(threw, got) ==
  /\ client' = "done"
  /\ results' = Append(results, [req |-> serial, quiet |-> quiet,
                                 threw |-> threw, got |-> got])

\* The cache, filled from the tty when it is used up.
Cached == IF cache = <<>> THEN tty ELSE cache

\* readcache: the first n pieces of s are read, up to a newline.
Chunk(s, n) ==
  /\ n \in 1 .. Len(s)
  /\ \A i \in 1 .. n - 1 : s[i].part = "head"

\* One round of response(): a newline ends its loop.
Read ==
  /\ client = "waiting"
  /\ \E n \in 1 .. Len(Cached) :
       /\ Chunk(Cached, n)
       /\ cache' = SubSeq(Cached, n + 1, Len(Cached))
       /\ response' = response \o SubSeq(Cached, 1, n)
       /\ IF Cached[n].part = "tail" THEN End(FALSE, response')
                                     ELSE UNCHANGED <<client, results>>
  /\ tty' = IF cache = <<>> THEN <<>> ELSE tty
  /\ UNCHANGED <<down, up, line, errors, serial, quiet, early>>

\* A variant whose timeout leaves the loop running.
TimeoutRetries ==
  /\ client = "waiting" /\ cache = <<>> /\ tty = <<>> /\ up = <<>>
  /\ UNCHANGED vars

\* select reports no data for timeout_: readtimeout returns 0, response() ends
\* its loop and returns what it has.  A byte on the wire takes microseconds and
\* timeout_ is 1.5 seconds, so none is on its way.
Timeout ==
  /\ client = "waiting" /\ cache = <<>> /\ tty = <<>> /\ up = <<>>
  /\ End(FALSE, response) /\ early' = early + 1
  /\ UNCHANGED <<link, cache, response, serial, quiet>>

\* write, select or read fails (a signal is enough for select): an exception.
\* Of the line a part may have been written.
Fail ==
  /\ \/ client = "open" /\ down' \in {down, Append(down, Whole(serial)[1])}
     \/ client = "waiting" /\ cache = <<>> /\ UNCHANGED down
  /\ End(TRUE, <<>>) /\ early' = early + 1
  /\ UNCHANGED <<up, tty, line, errors, cache, response, serial, quiet>>

\* A variant that serves the next request with the same object and does not
\* clear its response.
CloseKeeps ==
  /\ client = "done" /\ client' = "closed"
  /\ tty' = <<>> /\ cache' = <<>>
  /\ UNCHANGED <<down, up, line, errors, response, calls>>

\* The destructor: tcflush and close.  What the driver still holds of the line
\* is lost; cache_ and response_ are gone with the object.
Close ==
  /\ client = "done" /\ client' = "closed"
  /\ \E n \in 0 .. Len(down) :
       /\ \A i \in n + 1 .. Len(down) : down[i].req = serial
       /\ down' = SubSeq(down, 1, n)
  /\ tty' = <<>> /\ cache' = <<>> /\ response' = <<>>
  /\ UNCHANGED <<up, line, errors, calls>>

(***************************************************************************)
(* The wire and the firmware.                                              *)
(***************************************************************************)

\* A piece arrives at the host.  Whether a port that nobody has open keeps
\* its input is up to the driver.
Deliver ==
  /\ up # <<>> /\ up' = Tail(up)
  /\ \/ tty' = Append(tty, Head(up))
     \/ client = "closed" /\ UNCHANGED tty
  /\ UNCHANGED <<down, line, errors, client, cache, response, calls>>

\* jsonrpc_request_handler takes a piece; a newline completes the line.  The
\* newline may be all that is left of it, and a blank line is ignored.
Serve ==
  /\ down # <<>> /\ down' = Tail(down)
  /\ LET piece == Head(down)
         whole == Append(line, piece)
     IN  \/ piece.part = "head" /\ line' = whole /\ UNCHANGED up
         \/ piece.part = "tail" /\ line' = <<>>
            /\ \/ up' = up \o Whole(IF whole = Whole(piece.req) THEN piece.req ELSE 0)
               \/ Len(whole) = 1 /\ UNCHANGED up
  /\ UNCHANGED <<tty, errors, client, cache, response, calls>>

\* The recovery from a line error: the first pieces that wait are lost, and
\* with them the end of the last answer.
LineError ==
  /\ errors < MaxErrors /\ errors' = errors + 1
  /\ \E n \in 0 .. Len(down) : down' = SubSeq(down, n + 1, Len(down))
  /\ \E n \in 0 .. Len(up) :
       /\ n <= 2 /\ (n = 2 => up[Len(up) - 1].part = "head")
       /\ up' = SubSeq(up, 1, Len(up) - n)
  /\ UNCHANGED <<tty, line, client, cache, response, calls>>

Next ==
  \/ Open \/ Request \/ Read \/ Timeout \/ Fail \/ Close
  \/ Deliver \/ Serve \/ LineError

Spec == Init /\ [][Next]_vars

\* The host's thread runs, the wire carries what is on it, and select comes
\* back in time.  Nothing is assumed of the firmware: it may be silent.
FairSpec ==
  Spec /\ WF_vars(Request \/ Read \/ Close) /\ WF_vars(Timeout) /\ WF_vars(Deliver)

(***************************************************************************)
(* Properties.                                                             *)
(***************************************************************************)

\* Every variable stays in its type, and every call ends once.
TypeOK ==
  /\ down \in Seq(Piece) /\ up \in Seq(Piece) /\ tty \in Seq(Piece)
  /\ line \in Seq(Piece) /\ cache \in Seq(Piece) /\ response \in Seq(Piece)
  /\ errors \in 0 .. MaxErrors /\ serial \in 0 .. MaxRequests
  /\ client \in {"closed", "open", "waiting", "done"}
  /\ quiet \in BOOLEAN /\ early \in 0 .. MaxRequests
  /\ results \in Seq([req : 1 .. MaxRequests, quiet : BOOLEAN,
                      threw : BOOLEAN, got : Seq(Piece)])
  /\ Len(results) = serial - IF client \in {"open", "waiting"} THEN 1 ELSE 0

\* A call that finds the link quiet, with no line or answer on its way, gets its
\* own answer or an error or nothing: what came late for earlier calls is gone
\* (the flush of the constructor, rpcclientuart.cpp:69).
QuietMeansOwn ==
  \A i \in 1 .. Len(results) :
    results[i].quiet =>
      \A j \in 1 .. Len(results[i].got) : results[i].got[j].req \in {0, results[i].req}

\* The call i brings the whole answer to the request r; a late answer, newer than
\* all that earlier calls brought.
Brings(i, r) == r # 0 /\ results[i].got = Whole(r)

BringsLate(i) ==
  \E r \in 1 .. results[i].req - 1 :
    /\ Brings(i, r)
    /\ \A j \in 1 .. i - 1 : \A q \in r .. MaxRequests : ~Brings(j, q)

\* What that is for the relay; "stale" is what it never is.
Kind(i) ==
  IF Brings(i, results[i].req) THEN "own"
  ELSE IF BringsLate(i) THEN "late"
  ELSE IF \E r \in 1 .. MaxRequests : Brings(i, r) THEN "stale" ELSE "nothing"

Firmware == INSTANCE FirmwareCall WITH
  late <- \E i \in 1 .. Len(results) : Kind(i) # "own"

\* What the daemon relies on when it relays requests: as long as every call got
\* the whole answer to its own request, so does the next, although ids are not
\* compared, unless it gets nothing it can use; and after one that did not, a
\* call may get the answer to an earlier request, but one that is newer than all
\* that were ever returned (rpcclientuart.cpp:129-189, userrpcserver.cpp:351-368).
CallsAsPromised ==
  Firmware!Init /\ [][results' # results => Firmware!Call(Kind(Len(results))')]_vars

\* Answers may be lost or late, but never come twice or overtake each other:
\* the answers of successive calls are to successively later requests
\* (rpcclientuart.cpp:78-127).
AnswersInOrder ==
  \A i, j \in 1 .. Len(results) :
    \A a \in 1 .. Len(results[i].got), b \in 1 .. Len(results[j].got) :
      LET x == results[i].got[a]
          y == results[j].got[b]
      IN  /\ x.req <= results[i].req
          /\ i < j /\ x.part = y.part /\ x.req # 0 /\ y.req # 0 => x.req < y.req

\* Every call ends, also when the firmware never answers (select with timeout_,
\* rpcclientuart.cpp:105-127).
EveryCallEnds == client # "closed" ~> client = "closed"

\* What the client returns as a response is a line: if no newline came within
\* the timeout it throws ("rpc_client_uart::response timed out",
\* rpcclientuart.cpp:141-142).
ResponseIsALine ==
  \A i \in 1 .. Len(results) :
    ~results[i].threw => results[i].got # <<>> /\ Last(results[i].got).part = "tail"
=============================================================================
