-------------------------- MODULE TimeStamp_proof --------------------------
(***************************************************************************)
(* What read_timer and elapsed() return, for any period and any number of  *)
(* periods.                                                                *)
(***************************************************************************)
EXTENDS TimeStamp, TLAPS

(***************************************************************************)
(* The inductive invariant.                                                *)
(***************************************************************************)

\* period_elapsed_cnt_ lags by the interrupt that is not served yet.
ClockInv == wraps = IF irq = "none" THEN count ELSE count + 1

\* A time that the clock has shown since the reading began.
Current(l) == NotAfter(began[l], got[l]) /\ NotAfter(got[l], Now)

\* What read_timer holds at each of its steps.  A register read late, after the
\* end of the period, is never accepted: the interrupt comes first.
ReadInv(l) ==
  /\ pc[l] \in {"reg", "again", "read"} => first[l] <= count /\ NotAfter(began[l], Now)
  /\ pc[l] \in {"again", "read"} => got[l].count = first[l]
  /\ pc[l] = "again" /\ irq # "due" /\ count = first[l] => Current(l)
  /\ pc[l] = "read" => Current(l)

\* Stamps are times of the past and follow each other.
StampInv ==
  /\ stamp.count <= count /\ NotAfter(stamp, Now)
  /\ pc["capture"] \in {"reg", "again", "read"} => NotAfter(stamp, began["capture"])

\* The copy is made of the stamps before and after the copying.
Copied ==
  \/ copy.reg = before.reg /\ copy.count = after.count
  \/ copy.count = before.count /\ copy.reg = after.reg

CopyInv ==
  /\ pc["task"] # "idle" =>
       NotAfter(called, Now) /\ before.count <= count /\ NotAfter(before, Now)
  /\ pc["task"] \in {"copycount", "copyreg"} => NotAfter(before, stamp)
  /\ pc["task"] = "copycount" => copy.reg = before.reg
  /\ pc["task"] = "copyreg" => copy.count = before.count
  /\ pc["task"] \in {"count", "reg", "again", "read", "done"} =>
       /\ Copied /\ after.count <= count /\ NotAfter(before, after)
  /\ pc["task"] \in {"reg", "again", "read"} =>
       NotAfter(called, began["task"]) /\ copy.count <= first["task"]
  /\ pc["task"] = "done" =>
       /\ NotAfter(called, got["task"]) /\ NotAfter(got["task"], Now)
       /\ NotAfter(copy, got["task"])
       /\ result = Difference(got["task"], copy)

Inv == TypeOK /\ ClockInv /\ (\A l \in Levels : ReadInv(l)) /\ StampInv /\ CopyInv

(***************************************************************************)
(* Lemmas about the order of times.                                        *)
(***************************************************************************)

\* The order is reflexive and transitive.
LEMMA NotAfterReflexive == \A s \in Time : NotAfter(s, s)
BY DEF NotAfter, Time, Ticks

LEMMA NotAfterTransitive ==
  \A s, t, u \in Time : NotAfter(s, t) /\ NotAfter(t, u) => NotAfter(s, u)
BY TimerAssumption DEF NotAfter, Time, Ticks

\* A time as a number of ticks.
Abs(t) == Period * t.count + t.reg

\* A product with the period is a natural number and grows with its factor.
LEMMA PeriodTimes ==
  \A m, n \in Nat :
    /\ Period * m \in Nat
    /\ m <= n => Period * m <= Period * n
    /\ m < n => Period * m + Period <= Period * n
<1> SUFFICES ASSUME NEW m \in Nat, NEW n \in Nat
             PROVE  /\ Period * m \in Nat
                    /\ m <= n => Period * m <= Period * n
                    /\ m < n => Period * m + Period <= Period * n
  OBVIOUS
<1>1. Period \in Nat /\ Period > 0
  BY TimerAssumption
<1>2. Period * m \in Nat
  BY <1>1
<1>3. \A d \in Nat : Period * (m + d) = Period * m + Period * d /\ Period * d \in Nat
  BY <1>1
<1>4. ASSUME m <= n PROVE Period * m <= Period * n
  <2>1. PICK d \in Nat : n = m + d
    <3>1. n - m \in Nat /\ n = m + (n - m)
      BY <1>4
    <3> QED BY <3>1
  <2>2. Period * n = Period * m + Period * d /\ Period * d \in Nat
    BY <2>1, <1>3
  <2> DEFINE pm == Period * m
             pd == Period * d
  <2>3. \A x, y \in Nat : x <= x + y
    OBVIOUS
  <2>4. pm <= pm + pd
    <3>1. pm \in Nat /\ pd \in Nat
      BY <2>2, <1>2
    <3> HIDE DEF pm, pd
    <3> QED BY <2>3, <3>1
  <2> QED BY <2>2, <2>4
<1>5. ASSUME m < n PROVE Period * m + Period <= Period * n
  <2>1. PICK d \in Nat : n = m + (1 + d)
    <3>1. n - m - 1 \in Nat /\ n = m + (1 + (n - m - 1))
      BY <1>5
    <3> QED BY <3>1
  <2>2. Period * (1 + d) = Period + Period * d
    BY <1>1, <2>1
  <2>3. 1 + d \in Nat
    BY <2>1
  <2>4. Period * n = Period * m + Period * (1 + d)
    BY <2>1, <2>3, <1>3
  <2>5. Period * d \in Nat
    BY <1>3, <2>1
  <2> QED BY <2>2, <2>4, <2>5, <1>1, <1>2
<1> QED BY <1>2, <1>4, <1>5

\* The two cases of elapsed() compute the same difference.
LEMMA DifferenceIsAbs ==
  \A now, then \in Time : Difference(now, then) = Abs(now) - Abs(then)
<1> SUFFICES ASSUME NEW now \in Time, NEW then \in Time
             PROVE  Difference(now, then) = Abs(now) - Abs(then)
  OBVIOUS
<1> DEFINE m == then.count
           n == now.count
<1>1. m \in Nat /\ n \in Nat /\ now.reg \in Int /\ then.reg \in Int /\ Period \in Nat
  BY TimerAssumption DEF Time, Ticks
<1>2. CASE n = m
  BY <1>1, <1>2, PeriodTimes DEF Difference, Abs
<1>3. CASE n # m
  <2>1. Period * (n - m - 1) = Period * n - Period * m - Period
    BY <1>1
  <2>2. Period * n \in Nat /\ Period * m \in Nat
    BY <1>1, PeriodTimes
  <2> QED BY <1>1, <1>3, <2>1, <2>2 DEF Difference, Abs
<1> QED BY <1>2, <1>3

\* Later times are larger numbers.
LEMMA AbsMonotone ==
  \A s, t \in Time : Abs(s) \in Nat /\ (NotAfter(s, t) => Abs(s) <= Abs(t))
<1> SUFFICES ASSUME NEW s \in Time, NEW t \in Time
             PROVE  Abs(s) \in Nat /\ (NotAfter(s, t) => Abs(s) <= Abs(t))
  OBVIOUS
<1>1. /\ s.count \in Nat /\ t.count \in Nat /\ Period \in Nat
      /\ s.reg \in Nat /\ t.reg \in Nat /\ s.reg < Period
  BY TimerAssumption DEF Time, Ticks
<1>2. /\ Period * s.count \in Nat /\ Period * t.count \in Nat
      /\ s.count < t.count => Period * s.count + Period <= Period * t.count
  BY <1>1, PeriodTimes
<1> QED BY <1>1, <1>2 DEF Abs, NotAfter

\* A copy made of two stamps is less than a period out on either side.
LEMMA TornCopy ==
  ASSUME copy \in Time, before \in Time, after \in Time, NotAfter(before, after), Copied
  PROVE  Abs(copy) > Abs(before) - Period /\ Abs(copy) < Abs(after) + Period
<1>1. /\ copy.count \in Nat /\ before.count \in Nat /\ after.count \in Nat
      /\ copy.reg \in Nat /\ before.reg \in Nat /\ after.reg \in Nat
      /\ copy.reg < Period /\ before.reg < Period /\ after.reg < Period
      /\ Period \in Nat
  BY TimerAssumption DEF Time, Ticks
<1>2. /\ Period * before.count \in Nat /\ Period * after.count \in Nat
      /\ Period * before.count <= Period * after.count
  <2>1. before.count <= after.count
    BY <1>1 DEF NotAfter
  <2> QED BY <1>1, <2>1, PeriodTimes
<1>3. \/ copy.reg = before.reg /\ Period * copy.count = Period * after.count
      \/ copy.reg = after.reg /\ Period * copy.count = Period * before.count
  BY DEF Copied
<1> QED BY <1>1, <1>2, <1>3 DEF Abs

(***************************************************************************)
(* The invariant holds.                                                    *)
(***************************************************************************)

LEMMA InitInv == Init => Inv
BY TimerAssumption DEF Init, Inv, TypeOK, ClockInv, ReadInv, StampInv, CopyInv, Start, Now,
   Time, Ticks, Levels, NotAfter

\* The clock goes on: what was not after Now is not after it.
LEMMA TickInv == Inv /\ Tick => Inv'
<1> SUFFICES ASSUME Inv, Tick PROVE Inv'
  OBVIOUS
<1> USE TimerAssumption DEF Inv, Tick
<1>1. TypeOK'
  BY DEF TypeOK, Ticks, timer, reading, stamps
<1>2. ClockInv' 
  BY DEF TypeOK, ClockInv
<1>3. Now \in Time /\ Now' \in Time /\ NotAfter(Now, Now')
  BY DEF TypeOK, Now, Time, Ticks, NotAfter
<1>4. \A t \in Time : NotAfter(t, Now) => NotAfter(t, Now')
  BY <1>3, NotAfterTransitive
<1>5. UNCHANGED <<pc, first, got, began, stamp, copy, result, called, before, after, count>>
  BY DEF reading, stamps
<1>6. irq' # "due" => irq # "due"
  BY DEF TypeOK
<1>7. ASSUME NEW l \in Levels PROVE ReadInv(l)'
  <2>1. ReadInv(l) /\ got[l] \in Time /\ began[l] \in Time
    BY DEF TypeOK
  <2> QED BY <2>1, <1>4, <1>5, <1>6 DEF ReadInv, Current, NotAfter
<1>8. StampInv'
  BY <1>4, <1>5 DEF StampInv, TypeOK, NotAfter
<1>9. CopyInv'
  <2>1. called \in Time /\ before \in Time /\ got["task"] \in Time
    BY DEF TypeOK, Levels
  <2> QED BY <2>1, <1>4, <1>5 DEF CopyInv, Copied, NotAfter, Difference
<1> QED BY <1>1, <1>2, <1>7, <1>8, <1>9

\* The interrupt counts: a reading that is under way sees another count.
LEMMA PeriodElapsedInv == Inv /\ PeriodElapsed => Inv'
<1> SUFFICES ASSUME Inv, PeriodElapsed PROVE Inv'
  OBVIOUS
<1> USE DEF Inv, PeriodElapsed
<1>1. UNCHANGED <<reg, wraps, pc, first, got, began, stamp, copy, result, called, before, after>>
  BY DEF reading, stamps
<1>2. TypeOK'
  BY <1>1 DEF TypeOK
<1>3. count' = count + 1 /\ count \in Nat /\ Now' = Now
  BY <1>1 DEF TypeOK, Now
<1>4. ClockInv'
  BY <1>1 DEF ClockInv, TypeOK
<1>5. ASSUME NEW l \in Levels PROVE ReadInv(l)'
  <2>1. ReadInv(l) /\ first[l] \in Nat
    BY DEF TypeOK
  <2> QED BY <2>1, <1>1, <1>3 DEF ReadInv, Current, NotAfter
<1>6. StampInv' /\ CopyInv'
  <2>1. /\ stamp.count \in Nat /\ before.count \in Nat /\ after.count \in Nat
        /\ StampInv /\ CopyInv
    BY DEF TypeOK, Time
  <2> QED BY <2>1, <1>1, <1>3 DEF StampInv, CopyInv, Copied, NotAfter, Difference
<1> QED BY <1>2, <1>4, <1>5, <1>6

\* Level l reads the count.
LEMMA ReadCountInv == Inv /\ (\E l \in Levels : ReadCount(l)) => Inv'
<1> SUFFICES ASSUME Inv, NEW l \in Levels, ReadCount(l) PROVE Inv'
  OBVIOUS
<1> USE DEF Inv, ReadCount, Runs, Goes
<1>1. UNCHANGED <<reg, wraps, count, got, stamp, copy, result, called, before, after>>
  BY DEF stamps
<1>2. Now \in Time /\ Now' = Now /\ NotAfter(Now, Now)
  BY <1>1, NotAfterReflexive DEF Now, TypeOK, Time
<1>3. TypeOK'
  BY <1>1, <1>2 DEF TypeOK, Levels
<1>4. ClockInv'
  BY <1>1 DEF ClockInv, TypeOK
<1>5. ASSUME NEW k \in Levels PROVE ReadInv(k)'
  <2>1. ReadInv(k) /\ count \in Nat
    BY DEF TypeOK
  <2>2. CASE k = l
    BY <2>1, <2>2, <1>1, <1>2 DEF ReadInv, TypeOK
  <2>3. CASE k # l
    BY <2>1, <2>3, <1>1, <1>2 DEF ReadInv, Current, NotAfter, TypeOK
  <2> QED BY <2>2, <2>3
<1>6. StampInv'
  BY <1>1, <1>2 DEF StampInv, NotAfter, TypeOK, Levels
<1>7. CopyInv'
  <2>1. CASE l = "task"
    BY <2>1, <1>1, <1>2 DEF CopyInv, Copied, NotAfter, TypeOK, Levels, Difference, Time
  <2>2. CASE l = "capture"
    BY <2>2, <1>1, <1>2 DEF CopyInv, Copied, NotAfter, TypeOK, Levels, Difference
  <2> QED BY <2>1, <2>2 DEF Levels
<1> QED BY <1>3, <1>4, <1>5, <1>6, <1>7

\* Level l reads the register: the current time, unless the period has ended
\* and the interrupt is due.
LEMMA ReadRegInv == Inv /\ (\E l \in Levels : ReadReg(l)) => Inv'
<1> SUFFICES ASSUME Inv, NEW l \in Levels, ReadReg(l) PROVE Inv'
  OBVIOUS
<1> USE DEF Inv, ReadReg, Runs, Goes
<1>1. UNCHANGED <<reg, wraps, count, first, began, stamp, copy, result, called, before, after>>
  BY DEF stamps
<1>2. Now \in Time /\ Now' = Now /\ NotAfter(Now, Now)
  BY <1>1, NotAfterReflexive DEF Now, TypeOK, Time
<1>3. TypeOK'
  BY <1>1 DEF TypeOK, Levels, Time
<1>4. ClockInv'
  BY <1>1 DEF ClockInv, TypeOK
<1>5. ASSUME NEW k \in Levels PROVE ReadInv(k)'
  <2>1. ReadInv(k) /\ ReadInv(l)
    OBVIOUS
  <2>2. CASE k = l
    <3>1. got'[l] = [count |-> first[l], reg |-> reg] /\ pc'[l] = "again"
      BY <2>2 DEF TypeOK
    <3>2. irq' # "due" /\ count = first[l] => got'[l] = Now
      BY <3>1 DEF TypeOK, ClockInv, Now
    <3> QED BY <2>1, <2>2, <3>1, <3>2, <1>1, <1>2 DEF ReadInv, Current
  <2>3. CASE k # l
    BY <2>1, <2>3, <1>1, <1>2 DEF ReadInv, Current, NotAfter, TypeOK
  <2> QED BY <2>2, <2>3
<1>6. StampInv'
  BY <1>1, <1>2 DEF StampInv, NotAfter, TypeOK, Levels
<1>7. CopyInv'
  BY <1>1, <1>2 DEF CopyInv, Copied, NotAfter, TypeOK, Levels, Difference
<1> QED BY <1>3, <1>4, <1>5, <1>6, <1>7

\* Level l reads the count again and takes the time or starts over.
LEMMA ReadAgainInv == Inv /\ (\E l \in Levels : ReadAgain(l)) => Inv'
<1> SUFFICES ASSUME Inv, NEW l \in Levels, ReadAgain(l) PROVE Inv'
  OBVIOUS
<1> USE DEF Inv, ReadAgain, Runs, Goes
<1>1. UNCHANGED <<reg, wraps, count, first, got, began, stamp, copy, result, called, before, after>>
  BY DEF stamps, reading
<1>2. Now' = Now
  BY <1>1 DEF Now
<1>3. TypeOK'
  BY <1>1 DEF TypeOK, Levels
<1>4. ClockInv'
  BY <1>1 DEF ClockInv, TypeOK
<1>5. ASSUME NEW k \in Levels PROVE ReadInv(k)'
  <2>1. ReadInv(k)
    OBVIOUS
  <2> QED BY <2>1, <1>1, <1>2 DEF ReadInv, Current, NotAfter, TypeOK
<1>6. StampInv'
  BY <1>1, <1>2 DEF StampInv, NotAfter, TypeOK, Levels
<1>7. CopyInv'
  BY <1>1, <1>2 DEF CopyInv, Copied, NotAfter, TypeOK, Levels, Difference
<1> QED BY <1>3, <1>4, <1>5, <1>6, <1>7

\* The capture interrupt begins, and ends with a later stamp.
LEMMA CaptureInv == Inv /\ (Capture \/ SetStamp) => Inv'
<1> SUFFICES ASSUME Inv, Capture \/ SetStamp PROVE Inv'
  OBVIOUS
<1> USE DEF Inv, Runs, Goes
<1>1. CASE Capture
  <2>1. UNCHANGED <<reg, wraps, count, first, got, began, stamp, copy, result, called, before, after>>
    BY <1>1 DEF stamps, reading, Capture
  <2>2. TypeOK' /\ ClockInv' /\ Now' = Now
    BY <1>1, <2>1 DEF TypeOK, ClockInv, Capture, Levels, Now
  <2>3. ASSUME NEW k \in Levels PROVE ReadInv(k)'
    <3>1. ReadInv(k)
      OBVIOUS
    <3> QED BY <3>1, <1>1, <2>1, <2>2 DEF ReadInv, Current, NotAfter, TypeOK, Capture
  <2>4. StampInv' /\ CopyInv'
    BY <1>1, <2>1, <2>2 DEF StampInv, CopyInv, Copied, NotAfter, TypeOK, Levels, Difference, Capture
  <2> QED BY <2>2, <2>3, <2>4
<1>2. CASE SetStamp
  <2> USE <1>2 DEF SetStamp, Forgets
  <2>1. UNCHANGED <<reg, wraps, count, copy, result, called, before, after>>
    OBVIOUS
  <2>2. /\ stamp' = got["capture"] /\ pc' = [pc EXCEPT !["capture"] = "idle"]
        /\ got'["task"] = got["task"] /\ first'["task"] = first["task"]
        /\ began'["task"] = began["task"] /\ pc["capture"] = "read"
    BY DEF TypeOK, Levels
  <2>3. TypeOK'
    BY <2>1, TimerAssumption DEF TypeOK, Levels, Start, Time, Ticks
  <2>4. ClockInv' /\ Now' = Now
    BY <2>1 DEF ClockInv, TypeOK, Now
  <2>5. ASSUME NEW k \in Levels PROVE ReadInv(k)'
    <3>1. ReadInv(k)
      OBVIOUS
    <3>2. CASE k = "capture"
      BY <3>2, <2>2 DEF ReadInv, TypeOK, Levels
    <3>3. CASE k = "task"
      BY <3>1, <3>3, <2>1, <2>2, <2>4 DEF ReadInv, Current, NotAfter, TypeOK, Levels
    <3> QED BY <3>2, <3>3 DEF Levels
  <2>6. /\ ReadInv("capture") /\ got["capture"] \in Time /\ began["capture"] \in Time
        /\ stamp \in Time /\ before \in Time
    BY DEF TypeOK, Levels
  <2>7. NotAfter(stamp, stamp') /\ NotAfter(stamp', Now) /\ stamp'.count <= count
    BY <2>2, <2>6, NotAfterTransitive DEF ReadInv, Current, StampInv
  <2>8. StampInv'
    BY <2>1, <2>2, <2>4, <2>7 DEF StampInv, NotAfter, TypeOK, Levels
  <2>9. pc["task"] \in {"copycount", "copyreg"} => NotAfter(before, stamp')
    BY <2>2, <2>6, <2>7, NotAfterTransitive DEF CopyInv
  <2>10. CopyInv'
    BY <2>1, <2>2, <2>4, <2>9 DEF CopyInv, Copied, NotAfter, TypeOK, Levels, Difference
  <2> QED BY <2>3, <2>4, <2>5, <2>8, <2>10
<1> QED BY <1>1, <1>2

\* The task copies one field and then the other.
LEMMA CopyFirstInv == Inv /\ CopyFirst => Inv'
<1> SUFFICES ASSUME Inv, CopyFirst PROVE Inv'
  OBVIOUS
<1> USE DEF Inv, CopyFirst, Runs, Goes
<1>1. UNCHANGED <<reg, wraps, count, first, got, began, stamp, result, after>>
  BY DEF reading
<1>2. Now \in Time /\ Now' = Now /\ NotAfter(Now, Now) /\ NotAfter(stamp, stamp)
  BY <1>1, NotAfterReflexive DEF Now, TypeOK, Time
<1>3. TypeOK'
  BY <1>1, <1>2 DEF TypeOK, Levels, Time
<1>4. ClockInv'
  BY <1>1 DEF ClockInv, TypeOK
<1>5. ASSUME NEW k \in Levels PROVE ReadInv(k)'
  <2>1. ReadInv(k)
    OBVIOUS
  <2> QED BY <2>1, <1>1, <1>2 DEF ReadInv, Current, NotAfter, TypeOK
<1>6. StampInv'
  BY <1>1, <1>2 DEF StampInv, NotAfter, TypeOK, Levels
<1>7. CopyInv'
  <2>1. /\ called' = Now /\ before' = stamp /\ pc'["task"] \in {"copycount", "copyreg"}
        /\ pc'["task"] = "copycount" => copy'.reg = stamp.reg
        /\ pc'["task"] = "copyreg" => copy'.count = stamp.count
    BY DEF TypeOK, Levels, Time
  <2> QED BY <2>1, <1>1, <1>2 DEF CopyInv, StampInv
<1> QED BY <1>3, <1>4, <1>5, <1>6, <1>7

LEMMA CopySecondInv == Inv /\ CopySecond => Inv'
<1> SUFFICES ASSUME Inv, CopySecond PROVE Inv'
  OBVIOUS
<1> USE DEF Inv, CopySecond, Runs, Goes
<1>1. UNCHANGED <<reg, wraps, count, first, got, began, stamp, result, called, before>>
  BY DEF reading
<1>2. Now' = Now
  BY <1>1 DEF Now
<1>3. TypeOK'
  BY <1>1 DEF TypeOK, Levels, Time
<1>4. ClockInv'
  BY <1>1 DEF ClockInv, TypeOK
<1>5. ASSUME NEW k \in Levels PROVE ReadInv(k)'
  <2>1. ReadInv(k)
    OBVIOUS
  <2> QED BY <2>1, <1>1, <1>2 DEF ReadInv, Current, NotAfter, TypeOK
<1>6. StampInv'
  BY <1>1, <1>2 DEF StampInv, NotAfter, TypeOK, Levels
<1>7. CopyInv'
  <2>1. pc'["task"] = "count" /\ after' = stamp /\ NotAfter(before, stamp)
    BY DEF TypeOK, Levels, CopyInv
  <2>2. Copied'
    BY <1>1 DEF Copied, CopyInv, TypeOK, Time
  <2> QED BY <2>1, <2>2, <1>1, <1>2 DEF CopyInv, StampInv, NotAfter
<1> QED BY <1>3, <1>4, <1>5, <1>6, <1>7

\* elapsed() has its result, or reads again.
LEMMA ElapsedInv == Inv /\ Elapsed => Inv'
<1> SUFFICES ASSUME Inv, Elapsed PROVE Inv'
  OBVIOUS
<1> USE DEF Inv, Elapsed, Runs, Goes
<1>1. UNCHANGED <<reg, wraps, count, first, got, began, stamp, copy, called, before, after>>
  BY DEF reading
<1>2. Now' = Now
  BY <1>1 DEF Now
<1>3. Difference(got["task"], copy) \in Int
  BY TimerAssumption DEF TypeOK, Difference, Levels, Time, Ticks
<1>4. TypeOK'
  BY <1>1, <1>3 DEF TypeOK, Levels
<1>5. ClockInv'
  BY <1>1 DEF ClockInv, TypeOK
<1>6. ASSUME NEW k \in Levels PROVE ReadInv(k)'
  <2>1. ReadInv(k)
    OBVIOUS
  <2> QED BY <2>1, <1>1, <1>2 DEF ReadInv, Current, NotAfter, TypeOK
<1>7. StampInv'
  BY <1>1, <1>2 DEF StampInv, NotAfter, TypeOK, Levels
<1>8. CopyInv'
  <2>1. ReadInv("task") /\ CopyInv /\ pc["task"] = "read"
    BY DEF Levels
  <2>2. /\ got["task"] \in Time /\ copy \in Time /\ called \in Time
        /\ began["task"] \in Time
    BY DEF TypeOK, Levels
  <2>3. /\ got["task"].count >= copy.count /\ NotAfter(got["task"], Now)
        /\ NotAfter(called, got["task"])
    BY <2>1, <2>2, NotAfterTransitive DEF ReadInv, CopyInv, Current
  <2>4. CASE pc'["task"] = "done"
    <3>1. result' = Difference(got["task"], copy) /\ NotAfter(copy, got["task"])
      BY <2>2, <2>3, <2>4 DEF TypeOK, Levels, NotAfter, Time, Ticks
    <3> QED BY <3>1, <2>1, <2>3, <2>4, <1>1, <1>2 DEF CopyInv, Copied, NotAfter, Difference
  <2>5. CASE pc'["task"] = "count"
    BY <2>1, <2>5, <1>1, <1>2 DEF CopyInv, Copied, NotAfter
  <2> QED BY <2>4, <2>5 DEF TypeOK, Levels
<1> QED BY <1>4, <1>5, <1>6, <1>7, <1>8

LEMMA ReturnInv == Inv /\ Return => Inv'
<1> SUFFICES ASSUME Inv, Return PROVE Inv'
  OBVIOUS
<1> USE DEF Inv, Return, Runs, Goes, Forgets
<1>1. UNCHANGED <<reg, wraps, count, stamp>> /\ Now' = Now
  BY DEF Now
<1>2. /\ pc'["task"] = "idle" /\ pc'["capture"] = pc["capture"]
      /\ first'["capture"] = first["capture"] /\ got'["capture"] = got["capture"]
      /\ began'["capture"] = began["capture"]
  BY DEF TypeOK, Levels
<1>3. TypeOK'
  BY <1>1, TimerAssumption DEF TypeOK, Levels, Start, Time, Ticks
<1>4. ClockInv'
  BY <1>1 DEF ClockInv, TypeOK
<1>5. ASSUME NEW k \in Levels PROVE ReadInv(k)'
  <2>1. ReadInv(k)
    OBVIOUS
  <2>2. CASE k = "task"
    BY <2>2, <1>2 DEF ReadInv
  <2>3. CASE k = "capture"
    BY <2>1, <2>3, <1>1, <1>2 DEF ReadInv, Current, NotAfter, TypeOK
  <2> QED BY <2>2, <2>3 DEF Levels
<1>6. StampInv' /\ CopyInv'
  BY <1>1, <1>2 DEF StampInv, CopyInv, NotAfter
<1> QED BY <1>3, <1>4, <1>5, <1>6

\* The inductive invariant of the clock, its two readers and the stamp.
THEOREM InvCorrect == Spec => []Inv
<1>1. Inv /\ UNCHANGED vars => Inv'
  BY DEF Inv, vars, timer, reading, stamps, TypeOK, ClockInv, ReadInv, StampInv, CopyInv,
     Copied, Current, NotAfter, Now, Difference
<1>2. Inv /\ Next => Inv'
  BY TickInv, PeriodElapsedInv, ReadCountInv, ReadRegInv, ReadAgainInv, CaptureInv,
     CopyFirstInv, CopySecondInv, ElapsedInv, ReturnInv
     DEF Next, CaptureStep, TaskStep, ReadTimer, Levels
<1> QED BY InitInv, <1>1, <1>2, PTL DEF Spec

\* Every variable of the clock stays in its type.
THEOREM TypeCorrect == Spec => []TypeOK
BY InvCorrect, PTL DEF Inv

\* read_timer returns a time that the clock has shown while it was read, at
\* either level (timestamp.cpp:43-53).
THEOREM ReadingCorrect == Spec => []ReadingIsCurrent
<1>1. Inv => ReadingIsCurrent
  BY DEF Inv, ReadInv, Current, ReadingIsCurrent
<1> QED BY <1>1, InvCorrect, PTL

\* elapsed() is exact for a whole stamp, out by less than a period for a stamp
\* that was written while it was copied, and never negative
\* (timestamp.cpp:55-71).
THEOREM ElapsedCorrect == Spec => []ElapsedInRange
<1>1. ASSUME Inv, pc["task"] = "done"
      PROVE  /\ got["task"].count >= copy.count
             /\ result >= 0
             /\ before = after =>
                  result \in Difference(called, after) .. Difference(Now, before)
             /\ before # after =>
                  /\ result > Difference(called, after) - Period
                  /\ result < Difference(Now, before) + Period
  <2>1. /\ got["task"] \in Time /\ copy \in Time /\ called \in Time
        /\ before \in Time /\ after \in Time /\ Now \in Time
    BY <1>1 DEF Inv, TypeOK, Levels, Now, Time
  <2>2. /\ Copied /\ NotAfter(before, after) /\ NotAfter(called, got["task"])
        /\ NotAfter(got["task"], Now) /\ NotAfter(copy, got["task"])
        /\ result = Difference(got["task"], copy)
        /\ NotAfter(before, Now)
    BY <1>1 DEF Inv, CopyInv
  <2>3. got["task"].count >= copy.count
    BY <2>1, <2>2 DEF NotAfter, Time
  <2>4. /\ result = Abs(got["task"]) - Abs(copy)
        /\ Difference(called, after) = Abs(called) - Abs(after)
        /\ Difference(Now, before) = Abs(Now) - Abs(before)
    BY <2>1, <2>2, DifferenceIsAbs
  <2>5. /\ Abs(called) <= Abs(got["task"]) /\ Abs(got["task"]) <= Abs(Now)
        /\ Abs(copy) <= Abs(got["task"])
    BY <2>1, <2>2, AbsMonotone
  <2>6. /\ Abs(called) \in Nat /\ Abs(got["task"]) \in Nat /\ Abs(Now) \in Nat
        /\ Abs(copy) \in Nat /\ Abs(before) \in Nat /\ Abs(after) \in Nat
        /\ Period \in Nat
    BY <2>1, AbsMonotone, TimerAssumption
  <2>7. ASSUME before = after
        PROVE  result \in Difference(called, after) .. Difference(Now, before)
    <3>1. Abs(copy) = Abs(before)
      BY <2>2, <2>7 DEF Copied, Abs
    <3> HIDE DEF Abs
    <3> QED BY <3>1, <2>4, <2>5, <2>6, <2>7
  <2>8. Abs(copy) > Abs(before) - Period /\ Abs(copy) < Abs(after) + Period
    BY <2>1, <2>2, TornCopy
  <2>9. /\ result >= 0
        /\ result > Difference(called, after) - Period
        /\ result < Difference(Now, before) + Period
    BY <2>4, <2>5, <2>6, <2>8
  <2> QED BY <2>3, <2>7, <2>9
<1> QED BY <1>1, InvCorrect, PTL DEF ElapsedInRange
=============================================================================
