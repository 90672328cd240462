-------------------------- MODULE PluginScheduler --------------------------
(***************************************************************************)
(* The runs of one scheduled plugin task on several panel instances        *)
(* (internal/services/pluginscheduler/scheduler.go). Every instance fires  *)
(* on the same grid of slots; the lock of a slot, which is never released, *)
(* picks the instance that runs it, and the run lock keeps runs apart.     *)
(* Locks behave as module Lease says. How definitions reach the registry   *)
(* of an instance is the subject of SchedulerRegistry: here they appear    *)
(* and disappear at any time.                                              *)
(***************************************************************************)
EXTENDS Integers

CONSTANTS
    Instances,      \* panel instances
    None,           \* "nobody"
    Interval,       \* the interval of the task, in ticks
    SlotTTL,        \* ttl of the lock of a slot (acquireSlot clamps the interval)
    Timeout,        \* callTimeout
    Slack,          \* runLockSlack
    RetryDelay,     \* delay before a retry, jitter included
    MaxRetries,     \* task.MaxRetries; 0 stands for the ignore policy
    MaxSkew,        \* bound: how far the clock of an instance is ahead
    MaxLag,         \* bound: from a slot until an instance asks for its lock
    MaxDelay,       \* bound: from the run lock (or a wake-up) until the call
    MaxFaults,      \* bound: crashes, stops and plugin reloads
    MaxTime         \* bound: time

ASSUME SchedulerAssumption ==
    /\ None \notin Instances
    /\ {Interval, Timeout, SlotTTL} \subseteq Nat \ {0}
    /\ {Slack, RetryDelay, MaxRetries, MaxSkew, MaxLag, MaxDelay, MaxFaults, MaxTime}
         \subseteq Nat

\* The grid: the multiples of the interval.
Slots == {k * Interval : k \in 1 .. MaxTime + MaxSkew + 1}

VARIABLES
    now,        \* the time
    skew,       \* how far every instance's clock is ahead
    up,         \* FALSE for an instance whose Stop is waiting for its runs
    enabled,    \* the plugin is loaded and enabled on the instance
    nextAt,     \* taskState.nextAt, 0 when the registry lacks the task
    running,    \* taskState.running
    run,        \* the run goroutine of every instance for every slot
    slotUntil,  \* end of the lock of every slot, 0 when it was never taken
    runLock,    \* the run lock: who has it and until when
    wins,       \* history: how often the lock of the slot was won
    faults      \* faults so far

clockVars == <<now, skew>>
localVars == <<up, enabled, nextAt, running>>
lockVars  == <<slotUntil, runLock, wins>>
vars == <<clockVars, localVars, run, lockVars, faults>>

NoRun == [pc |-> "none", attempt |-> 0, at |-> 0]
Free == [by |-> <<None, 0>>, until |-> 0]

Init ==
    /\ now = 0
    /\ skew \in [Instances -> 0 .. MaxSkew]
    /\ up = [i \in Instances |-> TRUE]
    /\ enabled = [i \in Instances |-> TRUE]
    /\ nextAt = [i \in Instances |-> 0]
    /\ running = [i \in Instances |-> FALSE]
    /\ run = [i \in Instances |-> [s \in Slots |-> NoRun]]
    /\ slotUntil = [s \in Slots |-> 0]
    /\ runLock = Free
    /\ wins = [s \in Slots |-> 0]
    /\ faults = 0

Clock(i) == now + skew[i]

\* Mutant: one interval from now, whatever the grid.
NextSlot_OffGrid(t) == t + Interval

\* nextSlot: the first multiple of the interval strictly after t.
NextSlot(t) == (t \div Interval + 1) * Interval
----------------------------------------------------------------------------
(* The registry of an instance *)

\* AddTask, or a reload that finds a new task: armed for its next slot. A task
\* that is already there keeps its running flag.
Arm(i) ==
    /\ up[i]
    /\ nextAt[i] # NextSlot(Clock(i))
    /\ nextAt' = [nextAt EXCEPT ![i] = NextSlot(Clock(i))]
    /\ running' = [running EXCEPT ![i] = nextAt[i] # 0 /\ running[i]]
    /\ UNCHANGED <<clockVars, up, enabled, run, lockVars, faults>>

\* RemoveTask, RemovePluginTasks, or a reload that misses the task.
Disarm(i) ==
    /\ nextAt[i] # 0
    /\ nextAt' = [nextAt EXCEPT ![i] = 0]
    /\ running' = [running EXCEPT ![i] = FALSE]
    /\ UNCHANGED <<clockVars, up, enabled, run, lockVars, faults>>

\* fireDue: the slot has come. It is skipped while a run is known to be going on
\* here, else a goroutine is started for it.
FireDue(i) ==
    LET s == nextAt[i] IN
    /\ up[i]
    /\ nextAt[i] # 0
    /\ nextAt[i] <= Clock(i)
    /\ nextAt' = [nextAt EXCEPT ![i] = NextSlot(Clock(i))]
    /\ running' = [running EXCEPT ![i] = TRUE]
    /\ run' = IF running[i] THEN run
              ELSE [run EXCEPT ![i][s] = [pc |-> "fired", attempt |-> 0, at |-> 0]]
    /\ UNCHANGED <<clockVars, up, enabled, lockVars, faults>>
----------------------------------------------------------------------------
(* A run: instance i, slot s *)

\* The run goes on at p; the time matters where a timer or a deadline starts.
Goto(i, s, p) ==
    run' = [run EXCEPT ![i][s] =
              [pc |-> p, attempt |-> run[i][s].attempt,
               at |-> IF p \in {"ready", "call", "sleep"} THEN now ELSE 0]]

\* runTask returns: the run lock is released if it is still this run's, and
\* clearRunning clears the flag of whatever task has the key now.
End(i, s) ==
    /\ run' = [run EXCEPT ![i][s] = NoRun]
    /\ runLock' = IF runLock.by = <<i, s>> THEN Free ELSE runLock
    /\ running' = [running EXCEPT ![i] = FALSE]

\* resolveRunnable fails, or Acquire returns an error: the slot is left to others.
Skip(i, s) ==
    /\ run[i][s].pc \in {"fired", "won"}
    /\ End(i, s)
    /\ UNCHANGED <<clockVars, up, enabled, nextAt, slotUntil, wins, faults>>

\* Mutant: ErrLocked is not looked at.
AcquireSlot_NoLock(i, s) ==
    /\ run[i][s].pc = "fired"
    /\ enabled[i]
    /\ slotUntil' = [slotUntil EXCEPT ![s] = now + SlotTTL]
    /\ wins' = [wins EXCEPT ![s] = @ + 1]
    /\ Goto(i, s, "won")
    /\ UNCHANGED <<clockVars, localVars, runLock, faults>>

\* acquireSlot: the first to ask gets the slot, for SlotTTL.
AcquireSlot(i, s) ==
    /\ run[i][s].pc = "fired"
    /\ enabled[i]
    /\ IF slotUntil[s] > now
       THEN /\ End(i, s)
            /\ UNCHANGED <<up, enabled, nextAt, slotUntil, wins>>
       ELSE /\ slotUntil' = [slotUntil EXCEPT ![s] = now + SlotTTL]
            /\ wins' = [wins EXCEPT ![s] = @ + 1]
            /\ Goto(i, s, "won")
            /\ UNCHANGED <<localVars, runLock>>
    /\ UNCHANGED <<clockVars, faults>>

\* acquireRunLock: skipped while another run has the lock.
AcquireRunLock(i, s) ==
    /\ run[i][s].pc = "won"
    /\ IF runLock.until > now
       THEN /\ End(i, s)
            /\ UNCHANGED <<up, enabled, nextAt>>
       ELSE /\ runLock' = [by |-> <<i, s>>, until |-> now + Timeout + Slack]
            /\ Goto(i, s, "ready")
            /\ UNCHANGED localVars
    /\ UNCHANGED <<clockVars, slotUntil, wins, faults>>

\* invoke: the guest is entered, unless the plugin was disabled meanwhile.
Invoke(i, s) ==
    /\ run[i][s].pc = "ready"
    /\ Goto(i, s, IF enabled[i] THEN "call" ELSE "failed")
    /\ UNCHANGED <<clockVars, localVars, lockVars, faults>>

CallSucceeds(i, s) ==
    /\ run[i][s].pc = "call"
    /\ End(i, s)
    /\ UNCHANGED <<clockVars, up, enabled, nextAt, slotUntil, wins, faults>>

CallFails(i, s) ==
    /\ run[i][s].pc = "call"
    /\ Goto(i, s, "failed")
    /\ UNCHANGED <<clockVars, localVars, lockVars, faults>>

\* The guest ate its whole budget: the plugin is disabled until it is reloaded.
CallTimesOut(i, s) ==
    /\ run[i][s].pc = "call"
    /\ now = run[i][s].at + Timeout
    /\ up[i]
    /\ enabled' = [enabled EXCEPT ![i] = FALSE]
    /\ Goto(i, s, "failed")
    /\ UNCHANGED <<clockVars, up, nextAt, running, lockVars, faults>>

\* Mutant: the retry does not refresh the run lock.
Retry_NoRefresh(i, s) ==
    /\ run[i][s].pc = "failed"
    /\ run[i][s].attempt < MaxRetries
    /\ Goto(i, s, "sleep")
    /\ UNCHANGED <<clockVars, localVars, lockVars, faults>>

\* runAttempts after a failure: give up, or refresh the run lock for the delay
\* and one more call. A lost lock ends the run.
Retry(i, s) ==
    /\ run[i][s].pc = "failed"
    /\ IF /\ run[i][s].attempt < MaxRetries
          /\ runLock.by = <<i, s>>
          /\ runLock.until > now
       THEN /\ runLock' = [runLock EXCEPT !.until = now + RetryDelay + Timeout + Slack]
            /\ Goto(i, s, "sleep")
            /\ UNCHANGED localVars
       ELSE /\ End(i, s)
            /\ UNCHANGED <<up, enabled, nextAt>>
    /\ UNCHANGED <<clockVars, slotUntil, wins, faults>>

Wake(i, s) ==
    /\ run[i][s].pc = "sleep"
    /\ now >= run[i][s].at + RetryDelay
    /\ run' = [run EXCEPT ![i][s] =
                 [pc |-> "ready", attempt |-> run[i][s].attempt + 1,
                  at |-> run[i][s].at + RetryDelay]]
    /\ UNCHANGED <<clockVars, localVars, lockVars, faults>>

\* The context of the scheduler is done: no further call.
Cancelled(i, s) ==
    /\ ~up[i]
    /\ run[i][s].pc \in {"ready", "sleep"}
    /\ End(i, s)
    /\ UNCHANGED <<clockVars, up, enabled, nextAt, slotUntil, wins, faults>>
----------------------------------------------------------------------------
(* Faults and time *)

Stop(i) ==
    /\ up[i]
    /\ faults < MaxFaults
    /\ faults' = faults + 1
    /\ up' = [up EXCEPT ![i] = FALSE]
    /\ UNCHANGED <<clockVars, enabled, nextAt, running, run, lockVars>>

\* The process ends, at any time, and starts again; its locks stay behind.
Restart(i) ==
    /\ faults < MaxFaults
    /\ faults' = faults + 1
    /\ up' = [up EXCEPT ![i] = TRUE]
    /\ enabled' = [enabled EXCEPT ![i] = TRUE]
    /\ nextAt' = [nextAt EXCEPT ![i] = 0]
    /\ running' = [running EXCEPT ![i] = FALSE]
    /\ run' = [run EXCEPT ![i] = [s \in Slots |-> NoRun]]
    /\ UNCHANGED <<clockVars, lockVars>>

\* external: the plugin is reloaded and thereby enabled.
ReloadPlugin(i) ==
    /\ ~enabled[i]
    /\ faults < MaxFaults
    /\ faults' = faults + 1
    /\ enabled' = [enabled EXCEPT ![i] = TRUE]
    /\ UNCHANGED <<clockVars, up, nextAt, running, run, lockVars>>

\* What the code's timers and deadlines guarantee before time may pass: a due
\* slot is fired and its lock asked for within MaxLag, a call ends by its
\* deadline, and a run that has the lock calls within MaxDelay.
Timely ==
    \A i \in Instances :
        /\ nextAt[i] # 0 /\ up[i] => Clock(i) < nextAt[i] + MaxLag
        /\ \A s \in Slots :
             LET r == run[i][s] IN
             /\ r.pc = "fired" => Clock(i) < s + MaxLag
             /\ r.pc = "call" => now < r.at + Timeout
             /\ r.pc = "ready" => now < r.at + MaxDelay
             /\ r.pc = "sleep" => now < r.at + RetryDelay + MaxDelay

Tick ==
    /\ now < MaxTime
    /\ Timely
    /\ now' = now + 1
    /\ UNCHANGED <<skew, localVars, run, lockVars, faults>>
----------------------------------------------------------------------------
RunTask(i, s) ==
    \/ Skip(i, s) \/ AcquireSlot(i, s) \/ AcquireRunLock(i, s)
    \/ Invoke(i, s) \/ CallSucceeds(i, s) \/ CallFails(i, s) \/ CallTimesOut(i, s)
    \/ Retry(i, s) \/ Wake(i, s) \/ Cancelled(i, s)

Next ==
    \/ Tick
    \/ \E i \in Instances :
          \/ Arm(i) \/ Disarm(i) \/ FireDue(i)
          \/ Stop(i) \/ Restart(i) \/ ReloadPlugin(i)
          \/ \E s \in Slots : RunTask(i, s)

Spec == Init /\ [][Next]_vars
----------------------------------------------------------------------------
(* Properties *)

Runs == [pc : {"none", "fired", "won", "ready", "call", "failed", "sleep"},
         attempt : 0 .. MaxRetries, at : Nat]

TypeOK ==
    /\ now \in 0 .. MaxTime
    /\ skew \in [Instances -> 0 .. MaxSkew]
    /\ up \in [Instances -> BOOLEAN]
    /\ enabled \in [Instances -> BOOLEAN]
    /\ nextAt \in [Instances -> Slots \cup {0}]
    /\ running \in [Instances -> BOOLEAN]
    /\ run \in [Instances -> [Slots -> Runs]]
    /\ slotUntil \in [Slots -> Nat]
    /\ runLock \in [by : (Instances \cup {None}) \X (Slots \cup {0}), until : Nat]
    /\ wins \in [Slots -> Nat]
    /\ faults \in 0 .. MaxFaults

\* Each slot is run at most once (pkg/plugin/README.md: "each slot is executed by
\* exactly one instance"), although the lock of the slot expires, clocks differ,
\* instances fire late, crash and come back.
SlotRunsOnce == \A s \in Slots : wins[s] <= 1

\* Runs of the task never overlap, on no two instances and not on one either,
\* whatever becomes of the running flag when the task is removed and added
\* again, across retries, timeouts and crashes.
RunsDoNotOverlap ==
    \A i, j \in Instances : \A s, t \in Slots :
        run[i][s].pc = "call" /\ run[j][t].pc = "call" => i = j /\ s = t
=============================================================================
