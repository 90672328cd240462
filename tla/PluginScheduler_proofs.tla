----------------------- MODULE PluginScheduler_proofs -----------------------
(***************************************************************************)
(* Proofs about PluginScheduler: a slot runs at most once and runs do not  *)
(* overlap, for every number of instances and every interval, ttl, timeout *)
(* and retry policy, provided that instances are not too late; and about   *)
(* the registry of definitions, SchedulerRegistry.                         *)
(***************************************************************************)
EXTENDS PluginScheduler, SchedulerRegistry, TLAPS

\* The ttl of a slot lock covers the skew of the clocks and the lag of firing.
LagCovered == MaxLag + MaxSkew < SlotTTL

\* runLockSlack covers the delay of a call.
DelayCovered == MaxDelay < Slack

\* The next slot is on the grid and not in the past.
LEMMA NextSlotOnGrid ==
    ASSUME NEW t \in 0 .. MaxTime + MaxSkew
    PROVE  NextSlot(t) \in Slots /\ NextSlot(t) >= t
<1> DEFINE q == t \div Interval
<1>1. Interval \in Nat \ {0} /\ t \in Nat /\ MaxTime \in Nat /\ MaxSkew \in Nat
  BY SchedulerAssumption
<1>2. q \in Nat /\ t = Interval * q + (t % Interval) /\ t % Interval \in 0 .. Interval - 1
  BY <1>1
<1>3. q <= Interval * q
  BY <1>1, <1>2
<1>4. (q + 1) * Interval = Interval * q + Interval
  BY <1>1, <1>2
<1>5. q + 1 \in 1 .. MaxTime + MaxSkew + 1
  BY <1>1, <1>2, <1>3
<1> QED BY <1>1, <1>2, <1>4, <1>5 DEF NextSlot, Slots

\* A run that asks for its slot is in time; one that has the run lock has it for
\* long enough.
RunOK(i, s) ==
    /\ run[i][s].pc = "fired" => s <= Clock(i) /\ Clock(i) <= s + MaxLag
    /\ run[i][s].pc = "ready" =>
         /\ runLock.by = <<i, s>>
         /\ now <= run[i][s].at + MaxDelay
         /\ run[i][s].at + Timeout + Slack <= runLock.until
    /\ run[i][s].pc = "call" =>
         /\ runLock.by = <<i, s>>
         /\ now <= run[i][s].at + Timeout
         /\ run[i][s].at + Timeout + Slack <= runLock.until + MaxDelay
    /\ run[i][s].pc = "sleep" =>
         /\ runLock.by = <<i, s>>
         /\ now <= run[i][s].at + RetryDelay + MaxDelay
         /\ run[i][s].at + RetryDelay + Timeout + Slack <= runLock.until
    /\ run[i][s].pc = "sleep" => run[i][s].attempt < MaxRetries

RunsOK == \A i \in Instances : \A s \in Slots : RunOK(i, s)

\* A slot that has come is fired in time.
ArmedOK ==
    \A i \in Instances : nextAt[i] # 0 /\ up[i] => Clock(i) <= nextAt[i] + MaxLag

\* The lock of a slot that was won lasts until nobody asks for it any more.
WinsOK ==
    \A s \in Slots :
        /\ wins[s] <= 1
        /\ wins[s] = 1 => s + SlotTTL <= slotUntil[s] + MaxSkew

Inv == TypeOK /\ RunsOK /\ ArmedOK /\ WinsOK

\* The run lock is needed by the run of instance i for slot s.
Needs(i, s) == run[i][s].pc \in {"ready", "call", "sleep"}

\* Slots are times.
LEMMA SlotsAreNat == Slots \subseteq Nat \ {0}
BY SchedulerAssumption DEF Slots

\* Types of the constants, one by one.
LEMMA ConstNat ==
    /\ Interval \in Nat /\ SlotTTL \in Nat /\ Timeout \in Nat /\ Slack \in Nat
    /\ RetryDelay \in Nat /\ MaxRetries \in Nat /\ MaxSkew \in Nat /\ MaxLag \in Nat
    /\ MaxDelay \in Nat /\ MaxFaults \in Nat /\ MaxTime \in Nat /\ None \notin Instances
    /\ Timeout > 0
BY SchedulerAssumption

\* Init establishes the invariant.
LEMMA InitInv == Init => Inv
<1> SUFFICES ASSUME Init PROVE Inv
  OBVIOUS
<1> USE ConstNat, SlotsAreNat DEF Init, NoRun, Free
<1>1. TypeOK
  BY DEF TypeOK, Runs
<1>2. RunsOK
  BY DEF RunsOK, RunOK
<1>3. ArmedOK /\ WinsOK
  BY DEF ArmedOK, WinsOK
<1> QED BY <1>1, <1>2, <1>3 DEF Inv

\* A run that needs the run lock has it, and it has not expired.
LEMMA NeederHolds ==
    ASSUME DelayCovered, Inv, NEW i \in Instances, NEW s \in Slots, Needs(i, s)
    PROVE  runLock.by = <<i, s>> /\ now < runLock.until
<1>1. RunOK(i, s) /\ run[i][s] \in Runs /\ now \in Nat /\ runLock.until \in Nat
  BY DEF Inv, RunsOK, TypeOK
<1> QED BY <1>1, ConstNat DEF DelayCovered, Needs, RunOK, Runs

\* One run changes to r; runs that need the run lock keep it.
LEMMA RunStep ==
    ASSUME Inv, NEW i \in Instances, NEW s \in Slots, NEW r \in Runs,
           run' = [run EXCEPT ![i][s] = r],
           UNCHANGED clockVars,
           \A j \in Instances : \A t \in Slots :
               <<j, t>> # <<i, s>> /\ Needs(j, t) => runLock' = runLock,
           RunOK(i, s)'
    PROVE  RunsOK' /\ run' \in [Instances -> [Slots -> Runs]] /\ run'[i][s] = r
<1>1. run \in [Instances -> [Slots -> Runs]]
  BY DEF Inv, TypeOK
<1>2. run' \in [Instances -> [Slots -> Runs]] /\ run'[i][s] = r
  BY <1>1
<1>3. ASSUME NEW j \in Instances, NEW t \in Slots PROVE RunOK(j, t)'
  <2>1. CASE j = i /\ t = s
    BY <2>1
  <2>2. CASE ~(j = i /\ t = s)
    <3>1. run'[j][t] = run[j][t] /\ Clock(j)' = Clock(j) /\ now' = now
      BY <2>2, <1>1 DEF Clock, clockVars
    <3>2. RunOK(j, t)
      BY DEF Inv, RunsOK
    <3>3. CASE Needs(j, t)
      <4>1. runLock' = runLock
        BY <2>2, <3>3
      <4> QED BY <3>1, <3>2, <4>1 DEF RunOK
    <3>4. CASE ~Needs(j, t)
      BY <3>1, <3>2, <3>4 DEF RunOK, Needs
    <3> QED BY <3>3, <3>4
  <2> QED BY <2>1, <2>2
<1> QED BY <1>2, <1>3 DEF RunsOK

\* A run that ends leaves the run lock to those that need it.
LEMMA EndStep ==
    ASSUME DelayCovered, Inv, NEW i \in Instances, NEW s \in Slots,
           End(i, s), UNCHANGED clockVars
    PROVE  /\ RunsOK'
           /\ run' \in [Instances -> [Slots -> Runs]]
           /\ running' \in [Instances -> BOOLEAN]
           /\ runLock' \in [by : (Instances \cup {None}) \X (Slots \cup {0}), until : Nat]
<1>1. NoRun \in Runs
  BY ConstNat DEF NoRun, Runs
<1>2. run' = [run EXCEPT ![i][s] = NoRun]
  BY DEF End
<1>3. RunOK(i, s)'
  BY <1>2 DEF RunOK, NoRun, Inv, TypeOK
<1>4. \A j \in Instances : \A t \in Slots :
          <<j, t>> # <<i, s>> /\ Needs(j, t) => runLock' = runLock
  BY NeederHolds DEF End
<1>5. RunsOK' /\ run' \in [Instances -> [Slots -> Runs]]
  BY <1>1, <1>2, <1>3, <1>4, RunStep
<1> QED BY <1>5 DEF End, Free, Inv, TypeOK

\* The run goes on at p and nobody touches the locks.
LEMMA GotoStep ==
    ASSUME Inv, NEW i \in Instances, NEW s \in Slots,
           NEW p \in {"won", "ready", "call", "failed", "sleep"},
           Goto(i, s, p), UNCHANGED clockVars,
           \A j \in Instances : \A t \in Slots :
               <<j, t>> # <<i, s>> /\ Needs(j, t) => runLock' = runLock,
           p = "ready" => /\ runLock'.by = <<i, s>>
                          /\ now + Timeout + Slack <= runLock'.until,
           p = "call" => /\ runLock'.by = <<i, s>>
                         /\ now + Timeout + Slack <= runLock'.until + MaxDelay,
           p = "sleep" => /\ runLock'.by = <<i, s>>
                          /\ now + RetryDelay + Timeout + Slack <= runLock'.until
                          /\ run[i][s].attempt < MaxRetries
    PROVE  RunsOK' /\ run' \in [Instances -> [Slots -> Runs]]
<1> DEFINE r == [pc |-> p, attempt |-> run[i][s].attempt,
                 at |-> IF p \in {"ready", "call", "sleep"} THEN now ELSE 0]
<1>1. run \in [Instances -> [Slots -> Runs]] /\ now \in Nat /\ run[i][s] \in Runs
  BY ConstNat DEF Inv, TypeOK
<1>2. r \in Runs
  BY <1>1 DEF Runs
<1>3. run' = [run EXCEPT ![i][s] = r]
  BY DEF Goto
<1>4. run'[i][s] = r /\ now' = now
  BY <1>1, <1>3 DEF clockVars
<1>5. RunOK(i, s)'
  BY <1>1, <1>4, ConstNat DEF RunOK
<1> QED BY <1>2, <1>3, <1>5, RunStep

\* The next slot of an instance is on the grid and not in the past.
LEMMA NextSlotOfClock ==
    ASSUME Inv, NEW i \in Instances
    PROVE  NextSlot(Clock(i)) \in Slots /\ Clock(i) <= NextSlot(Clock(i))
<1>1. Clock(i) \in 0 .. MaxTime + MaxSkew
  BY ConstNat DEF Inv, TypeOK, Clock
<1> QED BY <1>1, NextSlotOnGrid, SlotsAreNat

\* Nothing an instance does within its run disturbs what is said of the clock,
\* the registry and the locks of the slots.
LEMMA Frame ==
    ASSUME Inv,
           UNCHANGED <<clockVars, up, nextAt, slotUntil, wins, faults>>,
           RunsOK', run' \in [Instances -> [Slots -> Runs]],
           running' \in [Instances -> BOOLEAN],
           enabled' \in [Instances -> BOOLEAN],
           runLock' \in [by : (Instances \cup {None}) \X (Slots \cup {0}), until : Nat]
    PROVE  Inv'
<1>1. TypeOK'
  BY DEF Inv, TypeOK, clockVars
<1>2. ArmedOK' /\ WinsOK'
  BY DEF Inv, ArmedOK, WinsOK, clockVars, Clock
<1> QED BY <1>1, <1>2 DEF Inv

\* Every step of a run preserves the invariant.
LEMMA RunTaskInv ==
    ASSUME LagCovered, DelayCovered, Inv, NEW i \in Instances, NEW s \in Slots,
           RunTask(i, s)
    PROVE  Inv'
<1>0. /\ run[i][s] \in Runs /\ RunOK(i, s) /\ now \in Nat /\ runLock.until \in Nat
      /\ skew[i] \in 0 .. MaxSkew /\ slotUntil \in [Slots -> Nat]
      /\ wins \in [Slots -> Nat] /\ s \in Nat
      /\ running \in [Instances -> BOOLEAN] /\ enabled \in [Instances -> BOOLEAN]
      /\ runLock \in [by : (Instances \cup {None}) \X (Slots \cup {0}), until : Nat]
  BY SlotsAreNat, ConstNat DEF Inv, TypeOK, RunsOK
<1>1. CASE Skip(i, s)
  BY <1>1, <1>0, EndStep, Frame DEF Skip
<1>2. CASE AcquireSlot(i, s)
  <2>1. CASE slotUntil[s] > now
    BY <1>2, <2>1, <1>0, EndStep, Frame DEF AcquireSlot
  <2>2. CASE ~(slotUntil[s] > now)
    <3>1. /\ slotUntil' = [slotUntil EXCEPT ![s] = now + SlotTTL]
          /\ wins' = [wins EXCEPT ![s] = wins[s] + 1]
          /\ Goto(i, s, "won")
          /\ UNCHANGED <<clockVars, localVars, runLock, faults>>
      BY <1>2, <2>2 DEF AcquireSlot
    <3>2. RunsOK' /\ run' \in [Instances -> [Slots -> Runs]]
      BY <3>1, GotoStep
    <3>3. s <= now + skew[i] /\ now + skew[i] <= s + MaxLag
      BY <1>0, <1>2 DEF AcquireSlot, RunOK, Clock
    <3>4. wins[s] = 0
      BY <2>2, <3>3, <1>0, ConstNat DEF LagCovered, Inv, WinsOK
    <3>5. WinsOK'
      <4>1. ASSUME NEW t \in Slots
            PROVE  wins'[t] <= 1 /\ (wins'[t] = 1 => t + SlotTTL <= slotUntil'[t] + MaxSkew)
        <5>1. CASE t = s
          BY <5>1, <3>1, <3>3, <3>4, <1>0, ConstNat
        <5>2. CASE t # s
          BY <5>2, <3>1, <1>0 DEF Inv, WinsOK
        <5> QED BY <5>1, <5>2
      <4> QED BY <4>1 DEF WinsOK
    <3>6. wins' \in [Slots -> Nat] /\ slotUntil' \in [Slots -> Nat]
      BY <3>1, <1>0, ConstNat
    <3>7. TypeOK'
      BY <3>1, <3>2, <3>6 DEF Inv, TypeOK, clockVars, localVars
    <3>8. ArmedOK'
      BY <3>1 DEF Inv, ArmedOK, clockVars, localVars, Clock
    <3> QED BY <3>2, <3>5, <3>7, <3>8 DEF Inv
  <2> QED BY <2>1, <2>2
<1>3. CASE AcquireRunLock(i, s)
  <2>1. CASE runLock.until > now
    BY <1>3, <2>1, <1>0, EndStep, Frame DEF AcquireRunLock
  <2>2. CASE ~(runLock.until > now)
    <3>1. /\ runLock' = [by |-> <<i, s>>, until |-> now + Timeout + Slack]
          /\ Goto(i, s, "ready")
          /\ UNCHANGED <<clockVars, localVars, slotUntil, wins, faults>>
      BY <1>3, <2>2 DEF AcquireRunLock
    <3>2. \A j \in Instances : \A t \in Slots : ~Needs(j, t)
      BY <2>2, <1>0, NeederHolds
    <3>3. RunsOK' /\ run' \in [Instances -> [Slots -> Runs]]
      BY <3>1, <3>2, <1>0, ConstNat, GotoStep
    <3>4. runLock' \in [by : (Instances \cup {None}) \X (Slots \cup {0}), until : Nat]
      BY <3>1, <1>0, ConstNat
    <3> QED BY <3>1, <3>3, <3>4, <1>0, Frame DEF localVars
  <2> QED BY <2>1, <2>2
<1>4. CASE Invoke(i, s)
  <2>1. Goto(i, s, IF enabled[i] THEN "call" ELSE "failed")
        /\ UNCHANGED <<clockVars, localVars, lockVars, faults>> /\ run[i][s].pc = "ready"
    BY <1>4 DEF Invoke
  <2>2. /\ runLock'.by = <<i, s>>
        /\ now + Timeout + Slack <= runLock'.until + MaxDelay
    BY <2>1, <1>0, ConstNat DEF RunOK, lockVars, Runs
  <2>3. RunsOK' /\ run' \in [Instances -> [Slots -> Runs]]
    <3>1. CASE enabled[i]
      BY <3>1, <2>1, <2>2, GotoStep DEF lockVars
    <3>2. CASE ~enabled[i]
      BY <3>2, <2>1, <2>2, GotoStep DEF lockVars
    <3> QED BY <3>1, <3>2
  <2> QED BY <2>1, <2>3, <1>0, Frame DEF localVars, lockVars
<1>5. CASE CallSucceeds(i, s)
  BY <1>5, <1>0, EndStep, Frame DEF CallSucceeds
<1>6. CASE CallFails(i, s) \/ CallTimesOut(i, s)
  <2>1. /\ Goto(i, s, "failed")
        /\ UNCHANGED <<clockVars, up, nextAt, running, lockVars, faults>>
        /\ enabled' \in [Instances -> BOOLEAN]
    BY <1>6, <1>0 DEF CallFails, CallTimesOut, localVars
  <2>2. RunsOK' /\ run' \in [Instances -> [Slots -> Runs]]
    BY <2>1, GotoStep DEF lockVars
  <2> QED BY <2>1, <2>2, <1>0, Frame DEF lockVars
<1>7. CASE Retry(i, s)
  <2>1. CASE /\ run[i][s].attempt < MaxRetries
             /\ runLock.by = <<i, s>>
             /\ runLock.until > now
    <3>1. /\ runLock' = [runLock EXCEPT !.until = now + RetryDelay + Timeout + Slack]
          /\ Goto(i, s, "sleep")
          /\ UNCHANGED <<clockVars, localVars, slotUntil, wins, faults>>
      BY <1>7, <2>1 DEF Retry
    <3>2. \A j \in Instances : \A t \in Slots :
              <<j, t>> # <<i, s>> /\ Needs(j, t) => runLock' = runLock
      BY <2>1, NeederHolds
    <3>3. runLock' = [by |-> <<i, s>>, until |-> now + RetryDelay + Timeout + Slack]
      BY <3>1, <2>1, <1>0
    <3>4. RunsOK' /\ run' \in [Instances -> [Slots -> Runs]]
      BY <2>1, <3>1, <3>2, <3>3, <1>0, ConstNat, GotoStep
    <3>5. runLock' \in [by : (Instances \cup {None}) \X (Slots \cup {0}), until : Nat]
      BY <3>3, <1>0, ConstNat
    <3> QED BY <3>1, <3>4, <3>5, <1>0, Frame DEF localVars
  <2>2. CASE ~(/\ run[i][s].attempt < MaxRetries
               /\ runLock.by = <<i, s>>
               /\ runLock.until > now)
    BY <1>7, <2>2, <1>0, EndStep, Frame DEF Retry
  <2> QED BY <2>1, <2>2
<1>8. CASE Wake(i, s)
  <2> DEFINE r == [pc |-> "ready", attempt |-> run[i][s].attempt + 1,
                   at |-> run[i][s].at + RetryDelay]
  <2>1. /\ run[i][s].pc = "sleep"
        /\ run' = [run EXCEPT ![i][s] = r]
        /\ UNCHANGED <<clockVars, localVars, lockVars, faults>>
    BY <1>8 DEF Wake
  <2>2. r \in Runs
    BY <2>1, <1>0, ConstNat DEF Runs, RunOK
  <2>3. run'[i][s] = r
    BY <2>1 DEF Inv, TypeOK
  <2>4. RunOK(i, s)'
    BY <2>1, <2>3, <1>0, ConstNat DEF RunOK, Runs, clockVars, lockVars
  <2>5. RunsOK' /\ run' \in [Instances -> [Slots -> Runs]]
    BY <2>1, <2>2, <2>4, RunStep DEF lockVars
  <2> QED BY <2>1, <2>5, <1>0, Frame DEF localVars, lockVars
<1>9. CASE Cancelled(i, s)
  BY <1>9, <1>0, EndStep, Frame DEF Cancelled
<1> QED
  BY <1>1, <1>2, <1>3, <1>4, <1>5, <1>6, <1>7, <1>8, <1>9 DEF RunTask

\* Every step preserves the invariant.
LEMMA NextInv ==
    ASSUME LagCovered, DelayCovered, Inv, [Next]_vars
    PROVE  Inv'
<1>0. /\ TypeOK /\ RunsOK /\ ArmedOK /\ WinsOK
      /\ now \in Nat /\ skew \in [Instances -> Nat]
  BY ConstNat DEF Inv, TypeOK
<1>1. CASE Tick
  <2>1. now' = now + 1 /\ now < MaxTime /\ Timely
        /\ UNCHANGED <<skew, localVars, run, lockVars, faults>>
    BY <1>1 DEF Tick
  <2>2. TypeOK'
    BY <2>1, <1>0, ConstNat DEF TypeOK, localVars, lockVars
  <2>3. ASSUME NEW i \in Instances, NEW s \in Slots PROVE RunOK(i, s)'
    <3>1. run[i][s] \in Runs /\ s \in Nat /\ skew[i] \in Nat
      BY <1>0, SlotsAreNat DEF TypeOK
    <3>2. RunOK(i, s)
      BY <1>0 DEF RunsOK
    <3>3. LET r == run[i][s] IN
             /\ r.pc = "fired" => Clock(i) < s + MaxLag
             /\ r.pc = "call" => now < r.at + Timeout
             /\ r.pc = "ready" => now < r.at + MaxDelay
             /\ r.pc = "sleep" => now < r.at + RetryDelay + MaxDelay
      BY <2>1 DEF Timely
    <3> QED
      BY <2>1, <3>1, <3>2, <3>3, <1>0, ConstNat DEF RunOK, Runs, Clock, lockVars
  <2>4. ASSUME NEW i \in Instances, nextAt'[i] # 0, up'[i]
        PROVE  Clock(i)' <= nextAt'[i] + MaxLag
    <3>0. nextAt[i] \in Slots \cup {0} /\ skew[i] \in Nat
      BY <1>0 DEF TypeOK
    <3>1. nextAt[i] \in Nat /\ skew[i] \in Nat
      BY <3>0, SlotsAreNat
    <3>2. Clock(i) < nextAt[i] + MaxLag
      BY <2>1, <2>4 DEF Timely, localVars
    <3> QED BY <2>1, <3>1, <3>2, <1>0, ConstNat DEF Clock, localVars
  <2>5. WinsOK'
    BY <2>1, <1>0 DEF WinsOK, lockVars
  <2> QED BY <2>2, <2>3, <2>4, <2>5 DEF Inv, RunsOK, ArmedOK
<1>2. ASSUME NEW i \in Instances, Arm(i) \/ Disarm(i)
      PROVE  Inv'
  <2>1. /\ nextAt' = [nextAt EXCEPT ![i] = NextSlot(Clock(i))]
           \/ nextAt' = [nextAt EXCEPT ![i] = 0]
        /\ running' \in [Instances -> BOOLEAN]
        /\ UNCHANGED <<clockVars, up, enabled, run, lockVars, faults>>
    BY <1>2, <1>0 DEF Arm, Disarm, TypeOK
  <2>2. TypeOK'
    <3>1. NextSlot(Clock(i)) \in Slots
      BY NextSlotOfClock
    <3>2. nextAt' \in [Instances -> Slots \cup {0}]
      BY <3>1, <2>1, <1>0 DEF TypeOK
    <3> QED BY <2>1, <3>2, <1>0 DEF TypeOK, clockVars, lockVars
  <2>3. RunsOK'
    BY <2>1, <1>0 DEF RunsOK, RunOK, Clock, clockVars, lockVars
  <2>4. ASSUME NEW j \in Instances, nextAt'[j] # 0, up'[j]
        PROVE  Clock(j)' <= nextAt'[j] + MaxLag
    <3>1. nextAt \in [Instances -> Slots \cup {0}] /\ Clock(j)' = Clock(j) /\ up' = up
          /\ Clock(j) \in Nat
      BY <2>1, <1>0 DEF TypeOK, Clock, clockVars
    <3>2. CASE nextAt'[j] = nextAt[j]
      BY <3>1, <3>2, <2>4, <1>0 DEF ArmedOK
    <3>3. CASE nextAt'[j] # nextAt[j]
      <4>1. j = i /\ nextAt'[j] = NextSlot(Clock(i))
        BY <3>3, <3>1, <2>1, <2>4
      <4>2. NextSlot(Clock(i)) \in Nat /\ Clock(i) <= NextSlot(Clock(i))
        BY NextSlotOfClock, SlotsAreNat
      <4> QED BY <4>1, <4>2, <3>1, ConstNat
    <3> QED BY <3>2, <3>3
  <2>5. WinsOK'
    BY <2>1, <1>0 DEF WinsOK, lockVars
  <2> QED BY <2>2, <2>3, <2>4, <2>5 DEF Inv, ArmedOK
<1>3. ASSUME NEW i \in Instances, FireDue(i)
      PROVE  Inv'
  <2> DEFINE r == [pc |-> "fired", attempt |-> 0, at |-> 0]
  <2>0. PICK s \in Slots : s = nextAt[i]
    BY <1>3, <1>0 DEF FireDue, TypeOK
  <2>1. /\ up[i] /\ s # 0 /\ s <= Clock(i)
        /\ nextAt' = [nextAt EXCEPT ![i] = NextSlot(Clock(i))]
        /\ running' = [running EXCEPT ![i] = TRUE]
        /\ run' = IF running[i] THEN run ELSE [run EXCEPT ![i][s] = r]
        /\ UNCHANGED <<clockVars, up, enabled, lockVars, faults>>
    BY <1>3, <2>0 DEF FireDue
  <2>2. Clock(i) <= s + MaxLag /\ Clock(i)' = Clock(i)
    BY <2>0, <2>1, <1>0 DEF TypeOK, ArmedOK, Clock, clockVars
  <2>3. RunsOK' /\ run' \in [Instances -> [Slots -> Runs]]
    <3>1. CASE running[i]
      BY <3>1, <2>1, <1>0 DEF RunsOK, RunOK, Clock, clockVars, lockVars, TypeOK
    <3>2. CASE ~running[i]
      <4>1. run' = [run EXCEPT ![i][s] = r] /\ r \in Runs
        BY <3>2, <2>1, ConstNat DEF Runs
      <4>2. run'[i][s] = r
        BY <4>1, <1>0 DEF TypeOK
      <4>3. RunOK(i, s)'
        BY <4>2, <2>1, <2>2 DEF RunOK
      <4> QED BY <4>1, <4>3, <2>1, RunStep DEF lockVars
    <3> QED BY <3>1, <3>2
  <2>4. TypeOK'
    BY <2>1, <2>3, <1>0, NextSlotOfClock DEF TypeOK, clockVars, lockVars
  <2>5. ASSUME NEW j \in Instances, nextAt'[j] # 0, up'[j]
        PROVE  Clock(j)' <= nextAt'[j] + MaxLag
    <3>1. nextAt \in [Instances -> Slots \cup {0}] /\ Clock(j)' = Clock(j) /\ up' = up
          /\ Clock(j) \in Nat
      BY <2>1, <1>0 DEF TypeOK, Clock, clockVars
    <3>2. CASE j # i
      BY <3>1, <3>2, <2>1, <2>5, <1>0 DEF ArmedOK
    <3>3. CASE j = i
      <4>1. NextSlot(Clock(i)) \in Nat /\ Clock(i) <= NextSlot(Clock(i))
        BY NextSlotOfClock, SlotsAreNat
      <4> QED BY <4>1, <3>1, <3>3, <2>1, ConstNat
    <3> QED BY <3>2, <3>3
  <2>6. WinsOK'
    BY <2>1, <1>0 DEF WinsOK, lockVars
  <2> QED BY <2>3, <2>4, <2>5, <2>6 DEF Inv, ArmedOK
<1>4. ASSUME NEW i \in Instances, Stop(i) \/ ReloadPlugin(i)
      PROVE  Inv'
  <2>1. /\ faults < MaxFaults /\ faults' = faults + 1
        /\ up' = up \/ up' = [up EXCEPT ![i] = FALSE]
        /\ up' \in [Instances -> BOOLEAN] /\ enabled' \in [Instances -> BOOLEAN]
        /\ UNCHANGED <<clockVars, nextAt, running, run, lockVars>>
    BY <1>4, <1>0 DEF Stop, ReloadPlugin, TypeOK
  <2>2. TypeOK'
    BY <2>1, <1>0, ConstNat DEF TypeOK, clockVars, lockVars
  <2>3. RunsOK'
    BY <2>1, <1>0 DEF RunsOK, RunOK, Clock, clockVars, lockVars
  <2>4. \A j \in Instances : up'[j] => up[j]
    BY <2>1, <1>0 DEF TypeOK
  <2>5. ArmedOK'
    BY <2>1, <2>4, <1>0 DEF ArmedOK, Clock, clockVars
  <2>6. WinsOK'
    BY <2>1, <1>0 DEF WinsOK, lockVars
  <2> QED BY <2>2, <2>3, <2>5, <2>6 DEF Inv
<1>5. ASSUME NEW i \in Instances, Restart(i)
      PROVE  Inv'
  <2>1. /\ faults < MaxFaults /\ faults' = faults + 1
        /\ up' = [up EXCEPT ![i] = TRUE]
        /\ enabled' = [enabled EXCEPT ![i] = TRUE]
        /\ nextAt' = [nextAt EXCEPT ![i] = 0]
        /\ running' = [running EXCEPT ![i] = FALSE]
        /\ run' = [run EXCEPT ![i] = [s \in Slots |-> NoRun]]
        /\ UNCHANGED <<clockVars, lockVars>>
    BY <1>5 DEF Restart
  <2>2. NoRun \in Runs
    BY ConstNat DEF NoRun, Runs
  <2>3. TypeOK'
    BY <2>1, <2>2, <1>0, ConstNat DEF TypeOK, clockVars, lockVars
  <2>4. ASSUME NEW j \in Instances, NEW s \in Slots PROVE RunOK(j, s)'
    <3>1. run'[j][s] = run[j][s] \/ run'[j][s] = NoRun
      BY <2>1, <1>0 DEF TypeOK
    <3>2. RunOK(j, s) /\ Clock(j)' = Clock(j) /\ now' = now /\ runLock' = runLock
      BY <2>1, <1>0 DEF RunsOK, Clock, clockVars, lockVars
    <3> QED BY <3>1, <3>2 DEF RunOK, NoRun
  <2>5. ArmedOK'
    BY <2>1, <1>0 DEF ArmedOK, Clock, clockVars, TypeOK
  <2>6. WinsOK'
    BY <2>1, <1>0 DEF WinsOK, lockVars
  <2> QED BY <2>3, <2>4, <2>5, <2>6 DEF Inv, RunsOK
<1>6. CASE UNCHANGED vars
  BY <1>6, <1>0 DEF Inv, TypeOK, RunsOK, RunOK, ArmedOK, WinsOK, Clock, vars,
                    clockVars, localVars, lockVars
<1> QED
  BY <1>1, <1>2, <1>3, <1>4, <1>5, <1>6, RunTaskInv DEF Next

\* The invariant always holds.
LEMMA SpecInv == ASSUME LagCovered, DelayCovered PROVE Spec => []Inv
<1>1. Inv /\ [Next]_vars => Inv'
  BY NextInv
<1> QED BY <1>1, InitInv, PTL DEF Spec

\* Slots, runs, locks and clocks of the scheduler keep to their types.
THEOREM TypeCorrect ==
    ASSUME LagCovered, DelayCovered PROVE Spec => []TypeOK
<1>1. Inv => TypeOK
  BY DEF Inv
<1> QED BY <1>1, SpecInv, PTL

\* acquireSlot: whatever the clocks, the crashes and the reloads, no slot is run
\* twice, as long as no instance is later than the ttl of the lock allows.
THEOREM SlotOnce ==
    ASSUME LagCovered, DelayCovered PROVE Spec => []SlotRunsOnce
<1>1. Inv => SlotRunsOnce
  BY DEF Inv, WinsOK, SlotRunsOnce
<1> QED BY <1>1, SpecInv, PTL

\* acquireRunLock and its refresh in runAttempts keep calls apart, although the
\* running flag does not and a lock is only as good as its ttl.
THEOREM NoOverlap ==
    ASSUME LagCovered, DelayCovered PROVE Spec => []RunsDoNotOverlap
<1>1. Inv => RunsDoNotOverlap
  BY DEF Inv, RunsOK, RunOK, RunsDoNotOverlap
<1> QED BY <1>1, SpecInv, PTL
-----------------------------------------------------------------------------
(* The registry of definitions, for any instances, tasks and definitions *)

\* What reload has read is the table as long as nothing has changed since; it is
\* what makes the property inductive.
SnapIsFresh ==
    \A i \in Panels : ~dirty[i] /\ snap[i] # NoTask => snap[i] = db

RegistryInv == RegistryTypeOK /\ SnapIsFresh /\ StaleOnlySinceRead

\* Init establishes the invariant.
LEMMA RegistryInitInv == RegistryInit => RegistryInv
BY RegistryAssumption DEF RegistryInit, RegistryInv, RegistryTypeOK, SnapIsFresh,
       StaleOnlySinceRead, Tables, Empty, Removals

\* A table without some names is a table.
LEMMA WithoutIsTable ==
    ASSUME NEW t \in Tables, NEW names
    PROVE  Without(t, names) \in Tables
BY DEF Tables, Without

\* A step that marks every registry as stale says nothing of them.
LEMMA AllDirty ==
    ASSUME RegistryTypeOK', dirty' = [j \in Panels |-> TRUE]
    PROVE  RegistryInv'
BY DEF RegistryInv, SnapIsFresh, StaleOnlySinceRead

\* Every step preserves the invariant.
LEMMA RegistryNextInv ==
    ASSUME RegistryInv, [RegistryNext]_registryVars
    PROVE  RegistryInv'
<1>0. /\ RegistryTypeOK /\ SnapIsFresh /\ StaleOnlySinceRead
      /\ MaxOps \in Nat /\ MaxLosses \in Nat
  BY RegistryAssumption DEF RegistryInv
<1>1. ASSUME NEW i \in Panels, NEW n \in Names, NEW d \in Defs,
             AddTask(i, n, d) \/ AddTaskLost(i, n, d)
      PROVE  RegistryInv'
  <2>1. /\ [db EXCEPT ![n] = d] \in Tables
        /\ [reg EXCEPT ![i][n] = d] \in [Panels -> Tables]
    BY <1>0 DEF RegistryTypeOK, Tables
  <2>2. CASE AddTask(i, n, d)
    <3>1. RegistryTypeOK'
      BY <1>0, <2>1, <2>2 DEF AddTask, RegistryTypeOK
    <3> QED BY <2>2, <3>1, AllDirty DEF AddTask
  <2>3. CASE AddTaskLost(i, n, d)
    <3>1. RegistryTypeOK'
      BY <1>0, <2>1, <2>3 DEF AddTaskLost, RegistryTypeOK
    <3> QED BY <2>3, <3>1, AllDirty DEF AddTaskLost
  <2> QED BY <1>1, <2>2, <2>3
<1>2. ASSUME NEW i \in Panels, NEW names \in Removals,
             DeleteRows(i, names) \/ DeleteRowsLost(i, names)
      PROVE  RegistryInv'
  <2>1. db' \in Tables
    BY <1>0, <1>2, WithoutIsTable DEF DeleteRows, DeleteRowsLost,
           RegistryTypeOK
  <2>2. CASE DeleteRows(i, names)
    <3>1. RegistryTypeOK'
      BY <1>0, <2>1, <2>2 DEF DeleteRows, RegistryTypeOK
    <3> QED BY <2>2, <3>1, AllDirty DEF DeleteRows
  <2>3. CASE DeleteRowsLost(i, names)
    <3>1. RegistryTypeOK'
      BY <1>0, <2>1, <2>3 DEF DeleteRowsLost, RegistryTypeOK
    <3> QED BY <2>3, <3>1, AllDirty DEF DeleteRowsLost
  <2> QED BY <1>2, <2>2, <2>3
<1>3. ASSUME NEW i \in Panels, NEW names \in Removals,
             DropEntries(i, names)
      PROVE  RegistryInv'
  <2>1. Without(reg[i], names) \in Tables
    BY <1>0, WithoutIsTable DEF RegistryTypeOK
  <2>2. RegistryTypeOK'
    BY <1>0, <1>3, <2>1 DEF DropEntries, RegistryTypeOK
  <2>3. SnapIsFresh' /\ StaleOnlySinceRead'
    BY <1>0, <1>3 DEF DropEntries, RegistryTypeOK, SnapIsFresh,
           StaleOnlySinceRead
  <2> QED BY <2>2, <2>3 DEF RegistryInv
<1>4. ASSUME NEW i \in Panels, Read(i)
      PROVE  RegistryInv'
  <2>1. RegistryTypeOK'
    BY <1>0, <1>4 DEF Read, RegistryTypeOK
  <2>2. db # NoTask
    BY <1>0, RegistryAssumption DEF RegistryTypeOK, Tables
  <2>3. SnapIsFresh' /\ StaleOnlySinceRead'
    BY <1>0, <1>4, <2>2 DEF Read, RegistryTypeOK, SnapIsFresh,
           StaleOnlySinceRead
  <2> QED BY <2>1, <2>3 DEF RegistryInv
<1>5. ASSUME NEW i \in Panels, Merge(i)
      PROVE  RegistryInv'
  <2>1. RegistryTypeOK'
    BY <1>0, <1>5 DEF Merge, RegistryTypeOK
  <2>2. SnapIsFresh' /\ StaleOnlySinceRead'
    BY <1>0, <1>5 DEF Merge, RegistryTypeOK, SnapIsFresh,
           StaleOnlySinceRead
  <2> QED BY <2>1, <2>2 DEF RegistryInv
<1>6. ASSUME NEW i \in Panels, Crash(i)
      PROVE  RegistryInv'
  <2>1. Empty \in Tables
    BY DEF Empty, Tables
  <2>2. RegistryTypeOK'
    BY <1>0, <1>6, <2>1 DEF Crash, RegistryTypeOK
  <2>3. SnapIsFresh' /\ StaleOnlySinceRead'
    BY <1>0, <1>6 DEF Crash, RegistryTypeOK, SnapIsFresh,
           StaleOnlySinceRead
  <2> QED BY <2>2, <2>3 DEF RegistryInv
<1>7. CASE UNCHANGED registryVars
  BY <1>0, <1>7 DEF registryVars, RegistryInv, RegistryTypeOK, SnapIsFresh,
         StaleOnlySinceRead
<1> QED BY <1>1, <1>2, <1>3, <1>4, <1>5, <1>6, <1>7 DEF RegistryNext

\* reload: after one refresh nothing older than its read is left in a registry.
THEOREM OneRefreshIsEnough == RegistrySpec => []StaleOnlySinceRead
<1>1. RegistryInv /\ [RegistryNext]_registryVars => RegistryInv'
  BY RegistryNextInv
<1>2. RegistryInv => StaleOnlySinceRead
  BY DEF RegistryInv
<1> QED BY <1>1, <1>2, RegistryInitInv, PTL DEF RegistrySpec
=============================================================================
