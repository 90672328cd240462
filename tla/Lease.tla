------------------------------- MODULE Lease -------------------------------
(***************************************************************************)
(* What locker.Locker (internal/locker/contracts.go) promises for one key: *)
(* a lock has at most one owner, and it changes owner only after it was    *)
(* released or after the time it was granted for is over.                  *)
(***************************************************************************)
EXTENDS Integers

CONSTANTS
    Handles,    \* the Lock values that Acquire may return, each used once
    None        \* "no handle"

VARIABLES
    now,        \* the time
    owner,      \* the handle that owns the lock
    until,      \* what its owner may rely on: the lock is his before this time
    gone        \* the handles that were released

leaseVars == <<now, owner, until, gone>>

LeaseInit == now = 0 /\ owner = None /\ until = 0 /\ gone = {}

\* Time passes; the grant may run out by it.
Pass == now' = now + 1 /\ UNCHANGED <<owner, until, gone>>

\* Acquire: only a lock that is free, or whose grant is over.
Grant(h) ==
    /\ owner = None \/ until <= now
    /\ owner' = h
    /\ until' \in Int
    /\ UNCHANGED <<now, gone>>

\* Refresh: only by the owner, and never to an earlier time.
Extend(h) ==
    /\ owner = h
    /\ until' \in Int
    /\ until' >= until
    /\ UNCHANGED <<now, owner, gone>>

\* Release of a handle frees the lock if the handle owns it, and nothing else.
Return(h) ==
    /\ gone' = gone \cup {h}
    /\ IF owner = h
       THEN owner' = None /\ until' = 0
       ELSE UNCHANGED <<owner, until>>
    /\ UNCHANGED now

\* A grant that is over is forgotten.
Forget ==
    /\ owner # None
    /\ until <= now
    /\ owner' = None
    /\ until' = 0
    /\ UNCHANGED <<now, gone>>

LeaseNext ==
    \/ Pass
    \/ Forget
    \/ \E h \in Handles : Grant(h) \/ Extend(h) \/ Return(h)

LeaseSpec == LeaseInit /\ [][LeaseNext]_leaseVars
=============================================================================
