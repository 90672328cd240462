------------------------- MODULE SchedulerRegistry -------------------------
(***************************************************************************)
(* The definitions of a plugin's scheduled tasks: the database table and   *)
(* the registry every panel instance keeps of it (AddTask, RemoveTask and  *)
(* RemovePluginTasks of internal/services/pluginscheduler/api.go, reload   *)
(* of scheduler.go). The registry is guarded by a mutex; reload reads the  *)
(* table outside of it and RemoveTask deletes the row before it takes it.  *)
(***************************************************************************)
EXTENDS FiniteSets, Naturals

CONSTANTS
    Panels,     \* panel instances
    Names,      \* task names of the plugin
    Defs,       \* valid definitions (interval, policy, timeout)
    NoTask,     \* no definition, no snapshot
    Limit,      \* MaxTasksPerPlugin
    MaxOps,     \* bound: registrations and removals
    MaxLosses   \* bound: crashes and lost answers of the database

ASSUME RegistryAssumption ==
    /\ NoTask \notin Defs \cup [Names -> Defs \cup {NoTask}]
    /\ {Limit, MaxOps, MaxLosses} \subseteq Nat

VARIABLES
    db,         \* the table
    started,    \* Start has returned: plugins are loaded and may register
    reg,        \* Service.tasks of every instance
    snap,       \* what reload has read and not yet merged
    removing,   \* removals between their delete and the mutex
    dirty,      \* history: something changed since the last read of reload
    ops,        \* registrations and removals so far
    losses      \* crashes and lost answers so far

registryVars == <<db, started, reg, snap, removing, dirty, ops, losses>>

Tables == [Names -> Defs \cup {NoTask}]
Empty == [n \in Names |-> NoTask]
Registered(table) == {n \in Names : table[n] # NoTask}
Without(table, names) == [n \in Names |-> IF n \in names THEN NoTask ELSE table[n]]

\* RemoveTask removes one name, RemovePluginTasks all of them.
Removals == {{n} : n \in Names} \cup {Names}

RegistryInit ==
    /\ db = Empty
    /\ started = [i \in Panels |-> FALSE]
    /\ reg = [i \in Panels |-> Empty]
    /\ snap = [i \in Panels |-> NoTask]
    /\ removing = [i \in Panels |-> {}]
    /\ dirty = [i \in Panels |-> TRUE]
    /\ ops = 0
    /\ losses = 0
----------------------------------------------------------------------------
\* The cap, counted in the registry of the instance.
MayRegister(i, n) == reg[i][n] # NoTask \/ Cardinality(Registered(reg[i])) < Limit

\* AddTask: check, upsert and arming are one step under the mutex.
AddTask(i, n, d) ==
    /\ started[i]
    /\ ops < MaxOps
    /\ MayRegister(i, n)
    /\ ops' = ops + 1
    /\ db' = [db EXCEPT ![n] = d]
    /\ reg' = [reg EXCEPT ![i][n] = d]
    /\ dirty' = [j \in Panels |-> TRUE]
    /\ UNCHANGED <<started, snap, removing, losses>>

\* The upsert reports an error although it took effect: nothing is armed.
AddTaskLost(i, n, d) ==
    /\ started[i]
    /\ losses < MaxLosses
    /\ MayRegister(i, n)
    /\ losses' = losses + 1
    /\ db' = [db EXCEPT ![n] = d]
    /\ dirty' = [j \in Panels |-> TRUE]
    /\ UNCHANGED <<started, reg, snap, removing, ops>>

\* RemoveTask, RemovePluginTasks: the rows are deleted first.
DeleteRows(i, names) ==
    /\ started[i]
    /\ ops < MaxOps
    /\ ops' = ops + 1
    /\ db' = Without(db, names)
    /\ dirty' = [j \in Panels |-> TRUE]
    /\ removing' = [removing EXCEPT ![i] = @ \cup {names}]
    /\ UNCHANGED <<started, reg, snap, losses>>

\* The delete reports an error although it took effect: the call returns.
DeleteRowsLost(i, names) ==
    /\ started[i]
    /\ losses < MaxLosses
    /\ losses' = losses + 1
    /\ db' = Without(db, names)
    /\ dirty' = [j \in Panels |-> TRUE]
    /\ UNCHANGED <<started, reg, snap, removing, ops>>

\* ... and then, under the mutex, the entries.
DropEntries(i, names) ==
    /\ names \in removing[i]
    /\ removing' = [removing EXCEPT ![i] = @ \ {names}]
    /\ reg' = [reg EXCEPT ![i] = Without(@, names)]
    /\ dirty' = [dirty EXCEPT ![i] = TRUE]
    /\ UNCHANGED <<db, started, snap, ops, losses>>

\* reload reads the table.
Read(i) ==
    /\ snap[i] = NoTask
    /\ snap' = [snap EXCEPT ![i] = db]
    /\ dirty' = [dirty EXCEPT ![i] = FALSE]
    /\ UNCHANGED <<db, started, reg, removing, ops, losses>>

\* Mutant: entries whose row is gone are kept.
Merge_KeepsRemoved(i) ==
    /\ snap[i] # NoTask
    /\ started' = [started EXCEPT ![i] = TRUE]
    /\ reg' = [reg EXCEPT ![i] =
                 [n \in Names |-> IF snap[i][n] # NoTask THEN snap[i][n] ELSE @[n]]]
    /\ snap' = [snap EXCEPT ![i] = NoTask]
    /\ UNCHANGED <<db, removing, dirty, ops, losses>>

\* Mutant: an entry that exists is left as it is.
Merge_AddsOnly(i) ==
    /\ snap[i] # NoTask
    /\ started' = [started EXCEPT ![i] = TRUE]
    /\ reg' = [reg EXCEPT ![i] =
                 [n \in Names |-> IF @[n] # NoTask /\ snap[i][n] # NoTask THEN @[n]
                                  ELSE snap[i][n]]]
    /\ snap' = [snap EXCEPT ![i] = NoTask]
    /\ UNCHANGED <<db, removing, dirty, ops, losses>>

\* reload merges what it has read: it adds, changes and drops entries. The first
\* reload of a process is the one of Start, and plugins are loaded after it.
Merge(i) ==
    /\ snap[i] # NoTask
    /\ started' = [started EXCEPT ![i] = TRUE]
    /\ reg' = [reg EXCEPT ![i] = snap[i]]
    /\ snap' = [snap EXCEPT ![i] = NoTask]
    /\ UNCHANGED <<db, removing, dirty, ops, losses>>

\* The process ends and starts anew.
Crash(i) ==
    /\ losses < MaxLosses
    /\ losses' = losses + 1
    /\ started' = [started EXCEPT ![i] = FALSE]
    /\ reg' = [reg EXCEPT ![i] = Empty]
    /\ snap' = [snap EXCEPT ![i] = NoTask]
    /\ removing' = [removing EXCEPT ![i] = {}]
    /\ dirty' = [dirty EXCEPT ![i] = TRUE]
    /\ UNCHANGED <<db, ops>>
----------------------------------------------------------------------------
RegistryNext ==
    \E i \in Panels :
        \/ \E n \in Names, d \in Defs : AddTask(i, n, d) \/ AddTaskLost(i, n, d)
        \/ \E names \in Removals :
              DeleteRows(i, names) \/ DeleteRowsLost(i, names) \/ DropEntries(i, names)
        \/ Read(i) \/ Merge(i)
        \/ Crash(i)

RegistrySpec == RegistryInit /\ [][RegistryNext]_registryVars

\* The loop of every instance refreshes again and again, a read of the table
\* does not fail for ever, and goroutines that wait for the mutex get it.
Fairness ==
    \A i \in Panels :
        /\ WF_registryVars(Read(i))
        /\ WF_registryVars(Merge(i))
        /\ \A names \in Removals : WF_registryVars(DropEntries(i, names))

FairSpec == RegistrySpec /\ Fairness
----------------------------------------------------------------------------
RegistryTypeOK ==
    /\ db \in Tables
    /\ started \in [Panels -> BOOLEAN]
    /\ reg \in [Panels -> Tables]
    /\ snap \in [Panels -> Tables \cup {NoTask}]
    /\ removing \in [Panels -> SUBSET Removals]
    /\ dirty \in [Panels -> BOOLEAN]
    /\ ops \in 0 .. MaxOps
    /\ losses \in 0 .. MaxLosses

\* One refresh is enough: a registry that differs from the table differs by
\* something that happened after reload last read the table, whatever the reads,
\* the merges, the mutex and the writes of all instances did before.
StaleOnlySinceRead ==
    \A i \in Panels : ~dirty[i] /\ snap[i] = NoTask => reg[i] = db

\* "Other instances pick the removal up on their next refresh" (api.go:140):
\* once plugins stop registering, every registry becomes the table and stays so,
\* although a stale merge may first have dropped or revived entries.
Converges == <>[](\A i \in Panels : reg[i] = db)
=============================================================================
