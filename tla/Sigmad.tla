------------------------------- MODULE Sigmad -------------------------------
(***************************************************************************)
(* The daemon sigmad: the io thread of its http server, which relays       *)
(* requests to the firmware, the black box, a thread that asks the         *)
(* daemon's own server for the state of the drone and records it, and the  *)
(* main thread, which ends the daemon on sd_exit: it joins the io thread   *)
(* and then the black box.  The relay is module FirmwareCall, which        *)
(* SerialRpc implements.                                                   *)
(***************************************************************************)
EXTENDS HttpLink

Recorder == "recorder"     \* the http_client of the black box
User     == "user"         \* that of another process

CONSTANT Forwarded   \* the requests of the user that are for the firmware

ASSUME SigmadAssumption ==
  /\ {Recorder, User} = Clients /\ Recorder \notin KeepAlive
  /\ Forwarded \subseteq Requests(User)

VARIABLES
  \* the calls of the firmware (FirmwareCall), and what a request of the black
  \* box brought from it
  late, brought,
  \* the black box: its thread, recording_, drone_state: the request that it was
  \* the response to, and what that brought
  rec, recording, state,
  \* the io_service: the handler of the signals is queued; run() goes on
  signal, running,
  \* the main thread
  main

relayvars == <<late, brought>>
boxvars   == <<rec, recording, state>>
appvars   == <<signal, running, main>>
vars      == <<linkvars, relayvars, boxvars, appvars>>

Firmware == INSTANCE FirmwareCall

Empty    == <<0, "nothing">>
NotAsked == [n \in Requests(Recorder) |-> "nothing"]

\* The server listens before the threads start.
Init ==
  /\ LinkInit
  /\ Firmware!Init
  /\ brought = NotAsked
  /\ rec = "start" /\ recording = TRUE /\ state = Empty
  /\ signal = FALSE /\ running = TRUE /\ main = "run"

(***************************************************************************)
(* The black box.                                                          *)
(***************************************************************************)

\* A variant that keeps the last state.
AskKeeping(next) ==
  /\ Begin(Recorder) /\ rec' = next
  /\ UNCHANGED <<relayvars, recording, state, appvars>>

\* get_drone_state empties the state and sends a request ...
Ask(next) ==
  /\ Begin(Recorder) /\ rec' = next /\ state' = Empty
  /\ UNCHANGED <<relayvars, recording, appvars>>

\* ... and takes the result of the response, if there is one and it can be used.
Answered ==
  LET n == answer[Recorder]
  IN  IF n # 0 /\ brought[n] # "nothing" THEN <<n, brought[n]>> ELSE state

Take == state' = Answered /\ brought' = NotAsked

\* The first request precedes the loop, and is not recorded.
AskFirst == rec = "start" /\ Ask("first")

FirstDone ==
  /\ rec = "first" /\ cpc[Recorder] = "idle"
  /\ rec' = "loop" /\ Take
  /\ UNCHANGED <<linkvars, late, recording, appvars>>

AskAgain == rec = "loop" /\ recording /\ Ask("asking")

\* record_new_state, also of an empty state.
Record ==
  /\ rec = "asking" /\ cpc[Recorder] = "idle"
  /\ rec' = "loop" /\ Take
  /\ UNCHANGED <<linkvars, late, recording, appvars>>

StopLoop ==
  /\ rec = "loop" /\ ~recording /\ rec' = "done"
  /\ UNCHANGED <<linkvars, relayvars, recording, state, appvars>>

BlackBox == AskFirst \/ FirstDone \/ AskAgain \/ Record \/ StopLoop

(***************************************************************************)
(* The clients and the io thread.                                          *)
(***************************************************************************)

\* Another process sends a request.
UserAsks ==
  main # "exited" /\ Begin(User) /\ UNCHANGED <<relayvars, boxvars, appvars>>

\* The daemon's sockets are open until it exits, where the model ends.
ClientStep(k) ==
  /\ main # "exited"
  /\ Operation(k) \/ TimeOut(k)
  /\ UNCHANGED <<relayvars, boxvars, appvars>>

\* firmware_jsonrpc_request_handler: the request is forwarded.  What it brings
\* goes to the client that sent it, unless that has given up.
Relay(c) ==
  \E r \in Firmware!Results :
    /\ Firmware!Call(r)
    /\ brought' = IF conn[c].client = Recorder /\ conn[c].open
                  THEN [brought EXCEPT ![conn[c].request] = r]
                  ELSE brought

\* A request for the firmware is forwarded, as all of the black box are.  One for
\* the daemon may be sd_exit: rpc_exit cancels the wait for signals, which queues
\* their handler.
ForFirmware(x) == x.client = User => x.request \in Forwarded

Execute(c) ==
  /\ running /\ Handle(c)
  /\ IF ForFirmware(conn[c]) THEN Relay(c) /\ UNCHANGED signal
     ELSE signal' \in {signal, TRUE} /\ UNCHANGED relayvars
  /\ UNCHANGED <<boxvars, running, main>>

Serve(c) ==
  running /\ Handler(c) /\ UNCHANGED <<relayvars, boxvars, appvars>>

Expire(c) ==
  running /\ Inactive(c) /\ UNCHANGED <<relayvars, boxvars, appvars>>

\* signal_handler_terminate: the server would stop in 100 ms, but the
\* io_service stops now, and with it every connection.
Terminate ==
  /\ running /\ busy = 0 /\ signal /\ running' = FALSE
  /\ UNCHANGED <<linkvars, relayvars, boxvars, signal, main>>

(***************************************************************************)
(* The main thread.                                                        *)
(***************************************************************************)

\* run() returns when the io thread has ended; ~server_app comes to ~black_box.
JoinIo ==
  /\ main = "run" /\ ~running
  /\ main' = "join" /\ recording' = FALSE
  /\ UNCHANGED <<linkvars, relayvars, rec, state, signal, running>>

\* The black box has been joined: the daemon exits.
Exit ==
  /\ main = "join" /\ rec = "done"
  /\ main' = "exited"
  /\ UNCHANGED <<linkvars, relayvars, boxvars, signal, running>>

Main == JoinIo \/ Exit

Next ==
  \/ BlackBox \/ UserAsks \/ Main \/ Terminate
  \/ \E k \in Clients : ClientStep(k)
  \/ \E c \in Conns : Execute(c) \/ Serve(c) \/ Expire(c)

Spec == Init /\ [][Next]_vars

\* The three threads run, the io_service dispatches what is queued, the relay
\* to the firmware returns (SerialRpc!EveryCallEnds), and an operation of the
\* black box ends, by its timer at the latest.  The steps of the main thread and
\* these of the io thread are never enabled together, so that one condition
\* covers both; every step changes a variable of its subscript.
FairSpec ==
  /\ Spec
  /\ WF_<<rec, cpc>>(BlackBox \/ ClientStep(Recorder))
  /\ WF_<<busy, running, main>>(Main \/ Terminate \/ \E c \in Conns : Execute(c))

(***************************************************************************)
(* Properties.                                                             *)
(***************************************************************************)

\* A response that request() returns belongs to the request it was called with,
\* and the request was executed, although sockets are kept and requests given
\* up (http_client::request, http_client.cpp:91-150).
AnswerIsOwn ==
  \A k \in Clients :
    cpc[k] = "idle" /\ answer[k] # 0 => answer[k] = asked[k] /\ runs[k][asked[k]] > 0

\* A request is executed twice only over a kept socket, hence never the first
\* of a client nor one of the black box, and never three times (the retry of
\* http_client::request, http_client.cpp:104-134).
TwiceOnlyAfterReuse ==
  \A k \in Clients : \A n \in Requests(k) :
    runs[k][n] <= IF k \in KeepAlive /\ n > 1 THEN 2 ELSE 1

\* What the black box records is empty, or what the request of this round
\* brought, never what an earlier one did; and as long as every call of the
\* firmware returned its own answer, also those of other clients, it is the
\* answer to that request.  After a call without its own answer it may be a late
\* one, as the relay compares no ids, hence the state of an earlier moment or the
\* answer to another client, though never again an answer that was returned
\* before (black_box::get_drone_state, blackbox.cpp:80-101, over
\* userrpcserver.cpp:351-368).
RecordIsFresh ==
  [][rec = "asking" /\ rec' = "loop" /\ state' # Empty =>
       state'[1] = asked[Recorder] /\ (~late => state'[2] = "own")]_vars

\* Once told to, the daemon exits, although the black box may wait for an answer
\* of the server that has stopped (signal_handler_terminate, serverapp.cpp:59-64).
StopCompletes == signal ~> main = "exited"
=============================================================================
