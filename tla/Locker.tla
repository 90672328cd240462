------------------------------- MODULE Locker -------------------------------
(***************************************************************************)
(* The backends of internal/locker for one key: the process-local map      *)
(* (inmemory.go), Redis (redis.go) and the kv_store table (db.go) with the *)
(* conditional upsert of SQLite and PostgreSQL or the two statements of    *)
(* MySQL. Every handle is one call of Acquire and the Lock it returned.    *)
(*                                                                         *)
(* Between reading its clock and the execution of its statement a call may *)
(* be delayed for any time. Panel instances have clocks that differ by at  *)
(* most MaxSkew. The expires_at column of MySQL is a TIMESTAMP without     *)
(* fraction: it rounds to a multiple of Resolution ticks.                  *)
(***************************************************************************)
EXTENDS Integers

CONSTANTS
    Handles,        \* calls of Acquire
    None,           \* "no row"
    TTL,            \* the ttl of Acquire and of Refresh, in ticks
    Resolution,     \* ticks between two values of the expires_at column
    MaxSkew,        \* bound: how far a clock may be ahead
    Margin,         \* how long before the end of its ttl a careful holder stops
    MaxTime         \* bound: time

Backends == {"memory", "redis", "sql", "mysql"}

ASSUME LockerAssumption ==
    /\ None \notin Handles
    /\ TTL \in Nat \ {0}
    /\ Resolution \in Nat \ {0}
    /\ MaxSkew \in Nat
    /\ Margin \in Nat
    /\ MaxTime \in Nat

VARIABLES
    backend,    \* the backend this panel is configured with
    skew,       \* how far the clock of every caller is ahead
    now,        \* the time; the clock of Redis and of a single process
    row,        \* the entry of the key: the token in it and when it expires
    pc,         \* where every call is
    start,      \* the clock value a call in progress has read
    promised    \* end of the ttl a holder was given, by its own clock

setup == <<backend, skew>>
vars == <<setup, now, row, pc, start, promised>>

NoRow == [tok |-> None, exp |-> 0]

Init ==
    /\ backend \in Backends
    /\ now = 0
    /\ skew \in [Handles -> 0 .. MaxSkew]
    /\ row = NoRow
    /\ pc = [h \in Handles |-> "idle"]
    /\ start = [h \in Handles |-> 0]
    /\ promised = [h \in Handles |-> 0]

\* One process has one clock.
Clock(h) == IF backend \in {"memory", "redis"} THEN now ELSE now + skew[h]

\* Mutant: the expiry is stored as NULL.
StoredAs_Null(x) == {None}

\* timeArg and the column: what the database stores for the instant x. MySQL
\* rounds to the nearest multiple of Resolution, halves up.
StoredAs(x) ==
    IF backend = "mysql"
    THEN {e \in 0 .. x + Resolution :
            e % Resolution = 0 /\ 2 * e <= 2 * x + Resolution
                               /\ 2 * x < 2 * e + Resolution}
    ELSE {x}
-----------------------------------------------------------------------------
(* Acquire *)

\* The call reads the clock: start is "now", start + TTL is "expiresAt".
AcquireBegin(h) ==
    /\ backend # "memory"
    /\ pc[h] = "idle"
    /\ pc' = [pc EXCEPT ![h] = "try"]
    /\ start' = [start EXCEPT ![h] = Clock(h)]
    /\ UNCHANGED <<setup, now, row, promised>>

\* The call put its token into the entry and returns the Lock.
Take(h, e) ==
    /\ row' = [tok |-> h, exp |-> e]
    /\ pc' = [pc EXCEPT ![h] = "held"]
    /\ promised' = [promised EXCEPT ![h] = start[h] + TTL]
    /\ UNCHANGED <<setup, now, start>>

\* The call goes on at p, or returns ErrLocked ("failed").
Step(h, p) ==
    /\ pc' = [pc EXCEPT ![h] = p]
    /\ UNCHANGED <<setup, now, row, start, promised>>

\* maybeCleanupExpired: at most once a minute a call first deletes what had
\* expired by the clock value it read.
CleanupExpired(h) ==
    /\ backend \in {"sql", "mysql"}
    /\ pc[h] = "try"
    /\ row.tok # None
    /\ row.exp < start[h]
    /\ row' = NoRow
    /\ UNCHANGED <<setup, now, pc, start, promised>>

\* InMemoryLocker.Acquire: the clock is read under the mutex.
AcquireMemory(h) ==
    /\ backend = "memory"
    /\ pc[h] = "idle"
    /\ IF row.tok # None /\ row.exp > now
       THEN Step(h, "failed")
       ELSE /\ row' = [tok |-> h, exp |-> now + TTL]
            /\ pc' = [pc EXCEPT ![h] = "held"]
            /\ promised' = [promised EXCEPT ![h] = now + TTL]
            /\ UNCHANGED <<setup, now, start>>

\* SET NX PX: Redis counts the ttl from the execution of the command.
AcquireRedis(h) ==
    /\ backend = "redis"
    /\ pc[h] = "try"
    /\ IF row.tok # None /\ row.exp > now
       THEN Step(h, "failed")
       ELSE Take(h, now + TTL)

\* tryAcquire: one conditional upsert.
TryAcquire(h) ==
    /\ backend = "sql"
    /\ pc[h] = "try"
    /\ IF row.tok # None /\ ~(row.exp < start[h])
       THEN Step(h, "failed")
       ELSE Take(h, start[h] + TTL)

\* tryAcquireMySQL: the UPDATE takes over an expired row ...
StealMySQL(h) ==
    /\ backend = "mysql"
    /\ pc[h] = "try"
    /\ \/ /\ row.tok # None
          /\ row.exp < start[h]
          /\ \E e \in StoredAs(start[h] + TTL) : Take(h, e)
       \/ /\ row.tok = None \/ ~(row.exp < start[h])
          /\ Step(h, "insert")

\* Mutant: an upsert instead of INSERT IGNORE.
InsertMySQL_Replace(h) ==
    /\ backend = "mysql"
    /\ pc[h] = "insert"
    /\ \E e \in StoredAs(start[h] + TTL) : Take(h, e)

\* ... and INSERT IGNORE takes a free key.
InsertMySQL(h) ==
    /\ backend = "mysql"
    /\ pc[h] = "insert"
    /\ \/ /\ row.tok = None
          /\ \E e \in StoredAs(start[h] + TTL) : Take(h, e)
       \/ row.tok # None /\ Step(h, "failed")
-----------------------------------------------------------------------------
(* Release and Refresh *)

\* Mutant: the token is not compared.
Release_Blind(h) ==
    /\ pc[h] = "held"
    /\ row' = NoRow
    /\ pc' = [pc EXCEPT ![h] = "released"]
    /\ UNCHANGED <<setup, now, start, promised>>

\* Only an entry with the token of the handle is deleted. A second Release
\* returns at once.
Release(h) ==
    /\ pc[h] = "held"
    /\ row' = IF row.tok = h THEN NoRow ELSE row
    /\ pc' = [pc EXCEPT ![h] = "released"]
    /\ UNCHANGED <<setup, now, start, promised>>

RefreshBegin(h) ==
    /\ backend # "memory"
    /\ pc[h] = "held"
    /\ pc' = [pc EXCEPT ![h] = "refresh"]
    /\ start' = [start EXCEPT ![h] = Clock(h)]
    /\ UNCHANGED <<setup, now, row, promised>>

\* refresh and refreshScript: extend an entry that still has the token and has
\* not expired; otherwise ErrLockLost.
Refresh(h) ==
    /\ pc[h] = "refresh"
    /\ \/ /\ row.tok = h
          /\ row.exp > (IF backend = "redis" THEN now ELSE start[h])
          /\ IF backend = "redis"
             THEN Take(h, now + TTL)
             ELSE \E e \in StoredAs(start[h] + TTL) : Take(h, e)
       \/ /\ row.tok # h \/ ~(row.exp > (IF backend = "redis" THEN now ELSE start[h]))
          /\ Step(h, "lost")

\* memLock.Refresh
RefreshMemory(h) ==
    /\ backend = "memory"
    /\ pc[h] = "held"
    /\ IF row.tok = h /\ row.exp > now
       THEN /\ row' = [tok |-> h, exp |-> now + TTL]
            /\ promised' = [promised EXCEPT ![h] = now + TTL]
            /\ UNCHANGED <<setup, now, pc, start>>
       ELSE Step(h, "lost")

Tick ==
    /\ now < MaxTime
    /\ now' = now + 1
    /\ UNCHANGED <<setup, row, pc, start, promised>>
-----------------------------------------------------------------------------
Next ==
    \/ Tick
    \/ \E h \in Handles :
          \/ AcquireBegin(h)
          \/ CleanupExpired(h)
          \/ AcquireMemory(h) \/ AcquireRedis(h) \/ TryAcquire(h)
          \/ StealMySQL(h) \/ InsertMySQL(h)
          \/ Release(h) \/ RefreshBegin(h) \/ Refresh(h) \/ RefreshMemory(h)

Spec == Init /\ [][Next]_vars
-----------------------------------------------------------------------------
(* Properties *)

TypeOK ==
    /\ backend \in Backends
    /\ now \in 0 .. MaxTime
    /\ skew \in [Handles -> 0 .. MaxSkew]
    /\ row \in [tok : Handles \cup {None}, exp : Nat]
    /\ pc \in [Handles -> {"idle", "try", "insert", "held", "refresh",
                           "released", "lost", "failed"}]
    /\ start \in [Handles -> Nat]
    /\ promised \in [Handles -> Nat]

\* A holder that stops Margin ticks before the end of its ttl still relies on
\* the lock.
Relies(h) == pc[h] \in {"held", "refresh"} /\ now + Margin < promised[h]

\* Mutual exclusion of Acquire across instances, processes and delayed
\* statements: no two holders rely on the lock at the same time.
MutualExclusion ==
    \A g, h \in Handles : Relies(g) /\ Relies(h) => g = h

\* The lock as its holders see it.
Abstract == INSTANCE Lease
    WITH owner <- row.tok,
         until <- IF row.tok = None THEN 0 ELSE promised[row.tok] - Margin,
         gone <- {h \in Handles : pc[h] = "released"}

\* Every backend implements the promise of the Locker interface: the entry
\* changes hands only by release or when its holder no longer relies on it.
ImplementsLease == Abstract!LeaseSpec
=============================================================================
