----------------------------- MODULE TimeStamp -----------------------------
(***************************************************************************)
(* The clock of the firmware.  A hardware timer counts up to its period    *)
(* and an interrupt counts its periods.  read_timer pairs the two numbers; *)
(* it is called by the main task and by the capture interrupt, which the   *)
(* timer's own interrupt (priority 1 against 2) preempts like the task.    *)
(* The capture interrupt stamps a time; the task copies the stamp field by *)
(* field, in an order the compiler chooses, and asks for the time elapsed  *)
(* (RcChannel::is_live).                                                   *)
(***************************************************************************)
EXTENDS Integers

CONSTANTS
  Period,      \* ticks of the timer in a period
  MaxWraps     \* bound: periods in a behaviour

ASSUME TimerAssumption == Period \in Nat \ {0} /\ MaxWraps \in Nat

Levels == {"task", "capture"}
Ticks  == 0 .. Period - 1
Time   == [count : Nat, reg : Ticks]     \* TimeStamp::Stamp

VARIABLES
  \* the timer: its register, the periods that have passed, its interrupt,
  \* and period_elapsed_cnt_
  reg, wraps, irq, count,
  \* read_timer at either level: where it is, elapsed_count, what it returns
  pc, first, got,
  \* last_capture_ts_, the task's copy of it, and what elapsed() returns
  stamp, copy, result,
  \* history: when the last reading began, when the call of elapsed() did,
  \* and the stamps before and after the copying
  began, called, before, after

timer   == <<reg, wraps, irq, count>>
reading == <<first, got, began>>
stamps  == <<stamp, copy, result, called, before, after>>
vars    == <<timer, pc, reading, stamps>>

Now == [count |-> wraps, reg |-> reg]

Start == [count |-> 0, reg |-> 0]

Init ==
  /\ reg = 0 /\ wraps = 0 /\ irq = "none" /\ count = 0
  /\ pc = [l \in Levels |-> "idle"] /\ first = [l \in Levels |-> 0]
  /\ got = [l \in Levels |-> Start] /\ began = [l \in Levels |-> Start]
  /\ stamp = Start /\ copy = Start /\ result = 0
  /\ called = Start /\ before = Start /\ after = Start

(***************************************************************************)
(* The timer.                                                              *)
(***************************************************************************)

\* The register counts; at its end an interrupt is pending.  The interrupt
\* takes microseconds and the period is a millisecond, so it is served by then.
Tick ==
  /\ \/ reg < Period - 1 /\ reg' = reg + 1 /\ UNCHANGED <<wraps, irq>>
     \/ /\ reg = Period - 1 /\ irq = "none" /\ wraps < MaxWraps
        /\ reg' = 0 /\ wraps' = wraps + 1 /\ irq' = "pending"
  /\ UNCHANGED <<count, pc, reading, stamps>>

\* on_period_elapsed.
PeriodElapsed ==
  /\ irq # "none" /\ irq' = "none" /\ count' = count + 1
  /\ UNCHANGED <<reg, wraps, pc, reading, stamps>>

\* Level l runs.  A load that is under way when the interrupt becomes pending
\* may complete before it, and no more than one.
Runs(l, from) ==
  /\ pc[l] = from /\ irq # "due" /\ (l = "task" => pc["capture"] = "idle")
  /\ irq' = IF irq = "pending" THEN "due" ELSE "none"
  /\ UNCHANGED <<reg, wraps, count>>

Goes(l, to) == pc' = [pc EXCEPT ![l] = to]

\* The locals of read_timer at level l are gone.
Forgets(l) ==
  /\ first' = [first EXCEPT ![l] = 0]
  /\ got' = [got EXCEPT ![l] = Start] /\ began' = [began EXCEPT ![l] = Start]

(***************************************************************************)
(* read_timer.                                                             *)
(***************************************************************************)
ReadCount(l) ==
  /\ Runs(l, "count") /\ Goes(l, "reg")
  /\ first' = [first EXCEPT ![l] = count] /\ began' = [began EXCEPT ![l] = Now]
  /\ UNCHANGED <<got, stamps>>

ReadReg(l) ==
  /\ Runs(l, "reg") /\ Goes(l, "again")
  /\ got' = [got EXCEPT ![l] = [count |-> first[l], reg |-> reg]]
  /\ UNCHANGED <<first, began, stamps>>

\* A variant that takes the first reading.
ReadOnce(l) ==
  /\ Runs(l, "again") /\ Goes(l, "read")
  /\ UNCHANGED <<reading, stamps>>

\* A variant that reads the count before the loop only.
ReadAgainStale(l) ==
  /\ Runs(l, "again")
  /\ Goes(l, IF count = first[l] THEN "read" ELSE "reg")
  /\ UNCHANGED <<reading, stamps>>

\* The loop repeats until the count has not moved.
ReadAgain(l) ==
  /\ Runs(l, "again")
  /\ Goes(l, IF count = first[l] THEN "read" ELSE "count")
  /\ UNCHANGED <<reading, stamps>>

(***************************************************************************)
(* The capture interrupt: last_capture_ts_.time_stamp().                   *)
(***************************************************************************)
Capture ==
  /\ Runs("capture", "idle") /\ Goes("capture", "count")
  /\ UNCHANGED <<reading, stamps>>

SetStamp ==
  /\ Runs("capture", "read") /\ Goes("capture", "idle")
  /\ stamp' = got["capture"] /\ Forgets("capture")
  /\ UNCHANGED <<copy, result, called, before, after>>

(***************************************************************************)
(* The task: last_capture_ts().elapsed().                                  *)
(***************************************************************************)
CopyFirst ==
  /\ Runs("task", "idle")
  /\ \/ Goes("task", "copycount") /\ copy' = [copy EXCEPT !.reg = stamp.reg]
     \/ Goes("task", "copyreg") /\ copy' = [copy EXCEPT !.count = stamp.count]
  /\ called' = Now /\ before' = stamp
  /\ UNCHANGED <<reading, stamp, result, after>>

CopySecond ==
  /\ \/ Runs("task", "copycount") /\ copy' = [copy EXCEPT !.count = stamp.count]
     \/ Runs("task", "copyreg") /\ copy' = [copy EXCEPT !.reg = stamp.reg]
  /\ Goes("task", "count") /\ after' = stamp
  /\ UNCHANGED <<reading, stamp, result, called, before>>

\* The arithmetic of elapsed(), two cases.
Difference(now, then) ==
  IF now.count = then.count
  THEN now.reg - then.reg
  ELSE Period - then.reg + now.reg + Period * (now.count - then.count - 1)

\* A variant of elapsed() without its loop.
ElapsedAtOnce ==
  /\ Runs("task", "read") /\ Goes("task", "done")
  /\ result' = Difference(got["task"], copy)
  /\ UNCHANGED <<reading, stamp, copy, called, before, after>>

\* elapsed() reads until the time read is not before the stamp.
Elapsed ==
  /\ Runs("task", "read")
  /\ IF got["task"].count > copy.count \/ got["task"].reg >= copy.reg
     THEN Goes("task", "done") /\ result' = Difference(got["task"], copy)
     ELSE Goes("task", "count") /\ UNCHANGED result
  /\ UNCHANGED <<reading, stamp, copy, called, before, after>>

Return ==
  /\ Runs("task", "done") /\ Goes("task", "idle") /\ Forgets("task")
  /\ copy' = Start /\ result' = 0
  /\ called' = Start /\ before' = Start /\ after' = Start
  /\ UNCHANGED stamp

ReadTimer(l) == ReadCount(l) \/ ReadReg(l) \/ ReadAgain(l)

CaptureStep == ReadTimer("capture") \/ SetStamp
TaskStep == CopySecond \/ ReadTimer("task") \/ Elapsed \/ Return

Next ==
  \/ Tick \/ PeriodElapsed \/ Capture \/ CopyFirst
  \/ CaptureStep \/ TaskStep

Spec == Init /\ [][Next]_vars

\* The clock runs, interrupts are served and end, and, as captures come
\* milliseconds apart and take microseconds, the task goes on between them.
FairSpec ==
  /\ Spec /\ WF_vars(Tick) /\ WF_vars(PeriodElapsed)
  /\ WF_vars(CaptureStep) /\ SF_vars(TaskStep)

(***************************************************************************)
(* Properties.                                                             *)
(***************************************************************************)

\* Every variable stays in its type.
TypeOK ==
  /\ reg \in Ticks /\ wraps \in Nat /\ count \in Nat
  /\ irq \in {"none", "pending", "due"}
  /\ pc \in [Levels -> {"idle", "copycount", "copyreg", "count", "reg", "again",
                        "read", "done"}]
  /\ first \in [Levels -> Nat] /\ got \in [Levels -> Time]
  /\ began \in [Levels -> Time]
  /\ stamp \in Time /\ copy \in Time /\ result \in Int
  /\ called \in Time /\ before \in Time /\ after \in Time

NotAfter(s, t) ==
  \/ s.count < t.count
  \/ s.count = t.count /\ s.reg <= t.reg

\* read_timer returns a time that the clock has shown since the last round of
\* its loop began: the register never goes with the count of another period
\* (timestamp.cpp:43-53).
ReadingIsCurrent ==
  \A l \in Levels :
    pc[l] = "read" => NotAfter(began[l], got[l]) /\ NotAfter(got[l], Now)

\* elapsed() is right to the tick if no capture stamped the time while it was
\* copied.  If one did, the copy may be half of either stamp: the result is then
\* out by less than a period, and never negative (timestamp.cpp:55-71; the
\* assertion of line 66 holds).
ElapsedInRange ==
  pc["task"] = "done" =>
    /\ got["task"].count >= copy.count
    /\ result >= 0
    /\ before = after =>
         result \in Difference(called, after) .. Difference(Now, before)
    /\ before # after =>
         /\ result > Difference(called, after) - Period
         /\ result < Difference(Now, before) + Period

\* elapsed() always returns, also with a copy that is half of a later stamp and
\* lies ahead of the clock (timestamp.cpp:59-62).
ElapsedReturns == pc["task"] # "idle" ~> pc["task"] = "idle"
=============================================================================
