----------------------------- MODULE Enrollment -----------------------------
(***************************************************************************)
(* Enrollment of nodes (internal/enrollment): a daemon presents a          *)
(* credential, the panel checks it, creates the node and retires the       *)
(* credential.  A credential is the setup key of the administrator         *)
(* (setup_key.go) or a ticket issued to a plugin (setup_ticket.go).  Both  *)
(* live in the shared cache, which has no compare-and-set; calls of Enroll *)
(* run in parallel on several instances of the panel and any of their      *)
(* steps may fail or be the last one before a crash.                       *)
(*                                                                         *)
(* The lock of Claim is used through what module Lease says of a Locker:   *)
(* it has one owner until it is released or its time is over.              *)
(***************************************************************************)
EXTENDS Naturals, FiniteSets

CONSTANTS
    Enrollments,    \* calls of Service.Enroll; also names the node it creates
    Tickets,        \* tickets, each minted at most once
    Keys,           \* values of the setup key
    EnvKey,         \* what DAEMON_SETUP_KEY is, if it is set
    Blank,          \* the empty string Invalidate stores over the environment's key
    None

ASSUME EnrollmentAssumption ==
    /\ Tickets \cap Keys = {}
    /\ None \notin Enrollments \cup Tickets \cup Keys
    /\ Blank \notin Keys \cup {None}
    /\ EnvKey \in Keys

VARIABLES
    status,     \* status[t]: the cached record of ticket t
    node,       \* node[t]: NodeID of that record
    expired,    \* tickets whose ExpiresAt has passed
    lock,       \* lock[t]: who owns the claim lock of t
    env,        \* the key of the environment or None; the same all along
    setupKey,   \* the cached setup key
    keyTTL,     \* it was stored with an expiration
    pc, cred,   \* where Enroll is, the credential it was called with
    nodes,      \* nodes in the database
    \* History, read by the properties only:
    minted,     \* tickets and generated keys that exist or existed
    overran,    \* tickets whose lock expired inside a claim, before its write
    revoked,    \* tickets a plugin revoked
    spent,      \* keys an enrollment has invalidated
    live,       \* the key last handed out, until it is used, removed, expired or lost
    early,      \* calls by key that were under way when live was handed out
    reopened    \* what was cached is gone, other than by Invalidate, since the last one

tickets == <<status, node, expired>>
keys == <<setupKey, keyTTL>>
history == <<minted, overran, revoked, spent, live, early, reopened>>
vars == <<tickets, lock, env, keys, pc, cred, nodes, history>>

Steps == {"idle", "admitted", "locked", "read", "written", "claimed", "saved",
          "done", "failed", "crashed"}
Ended == {"done", "failed", "crashed"}
\* Inside Claim with the lock acquired and the record not yet written.
Claiming == {"locked", "read"}

TypeOK ==
    /\ status \in [Tickets -> {"none", "pending", "consumed"}]
    /\ node \in [Tickets -> Enrollments \cup {None}]
    /\ expired \in SUBSET Tickets
    /\ lock \in [Tickets -> Enrollments \cup {None}]
    /\ env \in {EnvKey, None}
    /\ setupKey \in Keys \cup {Blank, None}
    /\ keyTTL \in BOOLEAN
    /\ pc \in [Enrollments -> Steps]
    /\ cred \in [Enrollments -> Tickets \cup Keys \cup {None}]
    /\ nodes \in SUBSET Enrollments
    /\ minted \in SUBSET (Tickets \cup Keys)
    /\ overran \in SUBSET Tickets
    /\ revoked \in SUBSET Tickets
    /\ spent \in SUBSET Keys
    /\ live \in Keys \cup {None}
    /\ early \in SUBSET Enrollments
    /\ reopened \in BOOLEAN

Init ==
    /\ status = [t \in Tickets |-> "none"]
    /\ node = [t \in Tickets |-> None]
    /\ expired = {}
    /\ lock = [t \in Tickets |-> None]
    /\ env \in {EnvKey, None}
    /\ setupKey = None
    /\ keyTTL = FALSE
    /\ pc = [e \in Enrollments |-> "idle"]
    /\ cred = [e \in Enrollments |-> None]
    /\ nodes = {}
    /\ minted = {}
    /\ overran = {}
    /\ revoked = {}
    /\ spent = {}
    /\ live = None
    /\ early = {}
    /\ reopened = FALSE

-----------------------------------------------------------------------------
(* The setup key *)

\* SetupKeyManager.Get: the cached key before the one of the environment.
CurrentKey ==
    CASE setupKey = Blank -> None
      [] setupKey \in Keys -> setupKey
      [] OTHER -> env

\* What an administrator's change means for the history: the key it hands out
\* is live and no longer spent.
HandOut(k) ==
    /\ live' = k
    /\ early' = {e \in Enrollments : cred[e] \in Keys /\ pc[e] \notin Ended}
    /\ spent' = spent \ {k}

\* SetupKeyManager.Generate: a random key with setupKeyTTL.
GenerateKey(k) ==
    /\ k \notin minted \cup {EnvKey}
    /\ setupKey' = k
    /\ keyTTL' = TRUE
    /\ minted' = minted \cup {k}
    /\ HandOut(k)
    /\ UNCHANGED <<tickets, lock, pc, cred, nodes, overran, revoked, reopened>>

\* POST of a key of the administrator's choice: Set without expiration.
SetKey(k) ==
    /\ setupKey' = k
    /\ keyTTL' = FALSE
    /\ HandOut(k)
    /\ UNCHANGED <<tickets, lock, pc, cred, nodes, minted, overran, revoked, reopened>>

\* SetupKeyManager.Delete: of the key, and of the Blank that Invalidate stored.
DeleteKey ==
    /\ setupKey' = None
    /\ keyTTL' = FALSE
    /\ HandOut(None)
    /\ reopened' = TRUE
    /\ UNCHANGED <<tickets, lock, pc, cred, nodes, minted, overran, revoked>>

\* The cache forgets a key that was stored with an expiration.
KeyExpires ==
    /\ keyTTL
    /\ setupKey' = None
    /\ keyTTL' = FALSE
    /\ live' = IF live = setupKey THEN None ELSE live
    /\ reopened' = TRUE
    /\ UNCHANGED <<tickets, lock, pc, cred, nodes, minted, overran, revoked,
                   spent, early>>

\* Mutant: the environment's key is not burnt.
Invalidate_KeepsEnv ==
    /\ setupKey' = None
    /\ keyTTL' = FALSE

\* SetupKeyManager.Invalidate, called for whichever key is stored by now.
Invalidate ==
    /\ setupKey' = IF env # None THEN Blank ELSE None
    /\ keyTTL' = FALSE

-----------------------------------------------------------------------------
(* Tickets *)

\* Mutant: Status is left out of the record.
CreateTicket_NoStatus(t) ==
    /\ t \notin minted
    /\ status' = [status EXCEPT ![t] = ""]
    /\ minted' = minted \cup {t}
    /\ UNCHANGED <<node, expired, lock, keys, pc, cred, nodes, overran, revoked,
                   spent, live, early, reopened>>

\* TicketStore.Create.
CreateTicket(t) ==
    /\ t \notin minted
    /\ status' = [status EXCEPT ![t] = "pending"]
    /\ minted' = minted \cup {t}
    /\ UNCHANGED <<node, expired, lock, keys, pc, cred, nodes, overran, revoked,
                   spent, live, early, reopened>>

\* RevokeSetupKey: the ticket must be there, then Revoke deletes the record.
RevokeTicket(t) ==
    /\ status[t] # "none"
    /\ status' = [status EXCEPT ![t] = "none"]
    /\ node' = [node EXCEPT ![t] = None]
    /\ revoked' = revoked \cup {t}
    /\ UNCHANGED <<expired, lock, keys, pc, cred, nodes, minted, overran, spent,
                   live, early, reopened>>

\* ExpiresAt passes.
TicketExpires(t) ==
    /\ t \in minted
    /\ expired' = expired \cup {t}
    /\ UNCHANGED <<status, node, lock, keys, pc, cred, nodes, history>>

\* The cache drops a record: a pending one at ExpiresAt, a consumed one after
\* consumedTicketRetention.
Evict(t) ==
    /\ \/ status[t] = "pending" /\ t \in expired
       \/ status[t] = "consumed"
    /\ status' = [status EXCEPT ![t] = "none"]
    /\ node' = [node EXCEPT ![t] = None]
    /\ UNCHANGED <<expired, lock, keys, pc, cred, nodes, history>>

\* claimLockTTL is over, whatever its owner is doing.
LockExpires(t) ==
    /\ lock[t] # None
    /\ lock' = [lock EXCEPT ![t] = None]
    /\ overran' = IF pc[lock[t]] \in Claiming THEN overran \cup {t} ELSE overran
    /\ UNCHANGED <<tickets, keys, pc, cred, nodes, minted, revoked, spent, live,
                   early, reopened>>

\* A ticket that Resolve and Claim accept.
Usable(t) == status[t] = "pending" /\ t \notin expired

\* Release of the handle of e: nothing if its lock is somebody else's by now.
Freed(t, e) == IF lock[t] = e THEN [lock EXCEPT ![t] = None] ELSE lock

-----------------------------------------------------------------------------
(* Service.Enroll *)

Go(e, from, to) == pc[e] = from /\ pc' = [pc EXCEPT ![e] = to]

\* resolveSetupKey, then everything that can fail before a ticket is claimed.
Resolve(e, c) ==
    /\ cred' = [cred EXCEPT ![e] = c]
    /\ \/ /\ \/ c \in Keys /\ CurrentKey = c
             \/ c \in Tickets /\ Usable(c)
          /\ Go(e, "idle", "admitted")
       \/ Go(e, "idle", "failed")
    /\ UNCHANGED <<tickets, lock, keys, nodes, history>>

\* Mutant: Claim runs without the lock.
AcquireLock_Unlocked(e) ==
    /\ cred[e] \in Tickets
    /\ Go(e, "admitted", "locked")
    /\ UNCHANGED <<tickets, lock, keys, cred, nodes, history>>

\* Claim, first step: Acquire. A lock that is taken is ErrTicketConsumed.
AcquireLock(e) ==
    /\ cred[e] \in Tickets
    /\ IF lock[cred[e]] = None
       THEN /\ Go(e, "admitted", "locked")
            /\ lock' = [lock EXCEPT ![cred[e]] = e]
       ELSE Go(e, "admitted", "failed") /\ UNCHANGED lock
    /\ UNCHANGED <<tickets, keys, cred, nodes, history>>

\* Claim: the record is read again under the lock.
ReadStored(e) ==
    /\ \/ Go(e, "locked", "read") /\ Usable(cred[e]) /\ UNCHANGED lock
       \/ /\ Go(e, "locked", "failed")
          /\ ~Usable(cred[e])
          /\ lock' = Freed(cred[e], e)
    /\ UNCHANGED <<tickets, keys, cred, nodes, history>>

\* Mutant: only Consume stores the record.
WriteClaim_Forgets(e) ==
    /\ Go(e, "read", "written")
    /\ UNCHANGED <<tickets, lock, keys, cred, nodes, history>>

\* Claim: what was read is stored as consumed, also over a record that has
\* been deleted or replaced since.
WriteClaim(e) ==
    /\ Go(e, "read", "written")
    /\ status' = [status EXCEPT ![cred[e]] = "consumed"]
    /\ node' = [node EXCEPT ![cred[e]] = None]
    /\ UNCHANGED <<expired, lock, keys, cred, nodes, history>>

\* Claim: a cache error, reading or writing, ends it.
ClaimFails(e) ==
    /\ \/ Go(e, "locked", "failed")
       \/ Go(e, "read", "failed")
    /\ lock' = Freed(cred[e], e)
    /\ UNCHANGED <<tickets, keys, cred, nodes, history>>

\* Claim: the deferred Release; its error is only logged.
Release(e) ==
    /\ Go(e, "written", "claimed")
    /\ lock' \in {Freed(cred[e], e), lock}
    /\ UNCHANGED <<tickets, keys, cred, nodes, history>>

\* nodesRepo.Save: after the claim of a ticket, right away with the key.
SaveNode(e) ==
    /\ \/ Go(e, "claimed", "saved")
       \/ cred[e] \in Keys /\ Go(e, "admitted", "saved")
    /\ nodes' = nodes \cup {e}
    /\ UNCHANGED <<tickets, lock, keys, cred, history>>

\* An error before the claim, or of Save.
EnrollFails(e) ==
    /\ \/ Go(e, "admitted", "failed")
       \/ Go(e, "claimed", "failed")
    /\ UNCHANGED <<tickets, lock, keys, cred, nodes, history>>

\* consumeSetupKey with the key: Invalidate, whose error is only logged.
ConsumeKey(e) ==
    /\ cred[e] \in Keys
    /\ Go(e, "saved", "done")
    /\ \/ /\ Invalidate
          /\ spent' = spent \cup {cred[e]}
          /\ live' = IF live = cred[e] THEN None ELSE live
          /\ reopened' = FALSE
       \/ UNCHANGED <<keys, spent, live, reopened>>
    /\ UNCHANGED <<tickets, lock, cred, nodes, minted, overran, revoked, early>>

\* Mutant: Consume stores the status the caller's copy had when it was resolved.
Consume_AsResolved(e) ==
    /\ status' = [status EXCEPT ![cred[e]] = "pending"]
    /\ node' = [node EXCEPT ![cred[e]] = e]

\* Consume: the caller's copy of the ticket with the node it became, stored
\* without the lock and without another look at the record.
Consume(e) ==
    /\ status' = [status EXCEPT ![cred[e]] = "consumed"]
    /\ node' = [node EXCEPT ![cred[e]] = e]

\* Mutant: the setup key is invalidated by every enrollment.
ConsumeTicket_AndKey(e) ==
    /\ cred[e] \in Tickets
    /\ Go(e, "saved", "done")
    /\ Consume(e)
    /\ Invalidate
    /\ UNCHANGED <<expired, lock, cred, nodes, history>>

\* consumeSetupKey with a ticket: Consume; if it fails, Revoke; if that fails
\* too, both are only logged.
ConsumeTicket(e) ==
    /\ cred[e] \in Tickets
    /\ Go(e, "saved", "done")
    /\ \/ Consume(e)
       \/ /\ status' = [status EXCEPT ![cred[e]] = "none"]
          /\ node' = [node EXCEPT ![cred[e]] = None]
       \/ UNCHANGED <<status, node>>
    /\ UNCHANGED <<expired, lock, keys, cred, nodes, history>>

\* The instance that runs e stops; the cache is shared and stays.
Crash(e) ==
    /\ pc[e] \notin Ended \cup {"idle"}
    /\ pc' = [pc EXCEPT ![e] = "crashed"]
    /\ UNCHANGED <<tickets, lock, keys, cred, nodes, history>>

\* The panel of one instance stops and starts again: the cache of the default
\* driver, which is its memory, is empty, and so may the locks be.
Restart ==
    /\ pc' = [e \in Enrollments |->
                IF pc[e] \in Ended \cup {"idle"} THEN pc[e] ELSE "crashed"]
    /\ status' = [t \in Tickets |-> "none"]
    /\ node' = [t \in Tickets |-> None]
    /\ lock' \in {lock, [t \in Tickets |-> None]}
    /\ setupKey' = None
    /\ keyTTL' = FALSE
    /\ live' = None
    /\ reopened' = TRUE
    /\ UNCHANGED <<expired, cred, nodes, minted, overran, revoked, spent, early>>

Enroll(e) ==
    \/ \E c \in Tickets \cup Keys : Resolve(e, c)
    \/ AcquireLock(e) \/ ReadStored(e) \/ WriteClaim(e) \/ ClaimFails(e)
    \/ Release(e) \/ SaveNode(e) \/ EnrollFails(e)
    \/ ConsumeKey(e) \/ ConsumeTicket(e)
    \/ Crash(e)

Step ==
    \/ \E e \in Enrollments : Enroll(e)
    \/ \E t \in Tickets :
          CreateTicket(t) \/ RevokeTicket(t) \/ TicketExpires(t) \/ Evict(t)
             \/ LockExpires(t)
    \/ \E k \in Keys : GenerateKey(k) \/ SetKey(k)
    \/ DeleteKey \/ KeyExpires
    \/ Restart

Next == Step /\ UNCHANGED env

Spec == Init /\ [][Next]_vars

-----------------------------------------------------------------------------
(* Properties *)

\* A ticket makes at most one node, whichever instances its key is presented
\* to, whatever fails and whenever it is revoked or forgotten - unless a claim
\* outlived its lock (Claim, "two daemons racing with the same key can no
\* longer both pass Resolve and both enroll").
OneNodePerTicket ==
    \A e1, e2 \in nodes :
        cred[e1] = cred[e2] /\ cred[e1] \in Tickets \ overran => e1 = e2

\* A revoked ticket never becomes usable again: an enrollment that has read it
\* before Revoke brings the record back, but consumed.
RevokedStaysDead == \A t \in revoked : status[t] # "pending"

\* The node a ticket reports was created with that ticket, and the report stays
\* what it is for as long as there is one: a claim that was under way when
\* Consume stored the node does not take it back.
ReportIsFinal ==
    [][\A t \in Tickets \ overran' :
          /\ node'[t] # None => node'[t] \in nodes /\ cred[node'[t]] = t
          /\ node[t] # None => status'[t] = "none" \/ node'[t] = node[t]]_vars

\* A key that an enrollment has invalidated admits no further one, unless an
\* administrator hands it out again (Generate, Set). The environment's key is
\* the exception: only what is cached keeps it out (Get, Invalidate), so it is
\* accepted again once that is deleted, has expired or is lost in a restart.
SpentKeyRefused == CurrentKey \in spent => CurrentKey = env /\ reopened

\* The key an administrator was given works until it is used, expires, is
\* deleted or replaced, or the cache is lost. It is lost before that only to an enrollment with an
\* earlier key that was under way when it was handed out: its Invalidate does
\* not look at which key is stored.
LostKeyOverlapped ==
    live # None /\ setupKey # live => \E e \in early : pc[e] = "done"

=============================================================================
