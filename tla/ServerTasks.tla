----------------------------- MODULE ServerTasks -----------------------------
(***************************************************************************)
(* A schedule of a game server and the copy of it a daemon works from      *)
(* (services/servertaskdispatcher, api/servertasks, the server_tasks       *)
(* table).  The panel keeps the row; every change is pushed to the daemon  *)
(* as a delta with the version of the row, and a snapshot of the rows goes *)
(* out when the daemon registers or asks for one.  Requests run on several *)
(* instances side by side, each as separate statements; what they push     *)
(* goes through pub-sub and arrives in any order or not at all.            *)
(*                                                                         *)
(* The daemon is external: it does what servertask.proto asks of it.  One  *)
(* schedule is modelled: rows, deltas and the daemon's copies of different *)
(* schedules do not touch each other.  Its server stays on one node, so    *)
(* that the node_id of the row, which POST always sets and deltas go by,   *)
(* is the node of the server, which snapshots go by.                       *)
(***************************************************************************)
EXTENDS Naturals, FiniteSets

CONSTANTS
    Puts,       \* requests that change the schedule; each writes its own content
    Pausing,    \* those of them that switch it off
    Deletes,    \* requests that delete it
    Post,       \* the request that creates it
    MaxSnaps,   \* bound on snapshots
    None

ASSUME ServerTasksAssumption ==
    /\ Pausing \subseteq Puts
    /\ Puts \cap Deletes = {}
    /\ Post \notin Puts \cup Deletes
    /\ None \notin Puts \cup Deletes \cup {Post}
    /\ None \notin [val : Puts \cup {Post}, ver : Nat, deleted : BOOLEAN]
    /\ None \notin [val : Puts \cup {Post}, ver : Nat]
    /\ MaxSnaps \in Nat

Requests == Puts \cup Deletes \cup {Post}
Contents == Puts \cup {Post}

VARIABLES
    row,        \* the row: content, version, deleted_at; None before the insert
    pc, copy,   \* of a request: where it is, the row it has read
    conn,       \* the daemon has a session
    wire,       \* messages on their way to that session
    cache,      \* the daemon's copy: content and version
    snaps,      \* snapshots built so far
    \* History, read by the properties only:
    clock,      \* states of the row that a message tells of, so far
    stamp,      \* of a request: which of them it has written
    seen,       \* the newest of them the daemon has been told of
    crossed,    \* a request read the row while another was about to write it
    lost,       \* a delta was lost after the newest snapshot was built
    passed      \* a snapshot, or an upsert of what a later message has deleted,
                \* was overtaken by a message about a later state

progress == <<pc, copy>>
history == <<clock, stamp, seen, crossed, lost, passed>>
vars == <<row, progress, conn, wire, cache, snaps, history>>

Steps == {"idle", "read", "saved", "written", "ended"}
Rows == [val : Contents, ver : Nat, deleted : BOOLEAN]
Copies == [val : Contents, ver : Nat]
Messages == [kind : {"upsert", "delete", "snapshot"}, val : Contents \cup {None},
             ver : Nat, at : Nat]

TypeOK ==
    /\ row \in Rows \cup {None}
    /\ pc \in [Requests -> Steps]
    /\ copy \in [Requests -> Rows \cup {None}]
    /\ conn \in BOOLEAN
    /\ wire \subseteq Messages
    /\ cache \in Copies \cup {None}
    /\ snaps \in 0..MaxSnaps
    /\ clock \in Nat /\ seen \in Nat /\ stamp \in [Requests -> Nat]
    /\ crossed \in BOOLEAN /\ lost \in BOOLEAN /\ passed \in BOOLEAN

Init ==
    /\ row = None
    /\ pc = [r \in Requests |-> "idle"]
    /\ copy = [r \in Requests |-> None]
    /\ conn = FALSE
    /\ wire = {}
    /\ cache = None
    /\ snaps = 0
    /\ clock = 0
    /\ stamp = [r \in Requests |-> 0]
    /\ seen = 0
    /\ crossed = FALSE
    /\ lost = FALSE
    /\ passed = FALSE

-----------------------------------------------------------------------------
Go(r, from, to) == pc[r] = from /\ pc' = [pc EXCEPT ![r] = to]

\* The request ends and its copy of the row is gone.
End(r) ==
    /\ pc' = [pc EXCEPT ![r] = "ended"]
    /\ copy' = [copy EXCEPT ![r] = None]
    /\ stamp' = [stamp EXCEPT ![r] = 0]

\* r has written the state of the row that it will tell the daemon of.
Written(r) ==
    /\ clock' = clock + 1
    /\ stamp' = [stamp EXCEPT ![r] = clock + 1]
    /\ UNCHANGED <<seen, crossed, lost, passed>>

\* SendTask: an error is only logged, the daemon gets the row with the next
\* snapshot.
Send(r, kind, val) ==
    IF conn
    THEN /\ wire' = wire \cup {[kind |-> kind, val |-> val, ver |-> copy[r].ver,
                                at |-> stamp[r]]}
         /\ UNCHANGED lost
    ELSE lost' = TRUE /\ UNCHANGED wire

\* POST: Save inserts the row with version 1.
Insert ==
    /\ Go(Post, "idle", "written")
    /\ row' = [val |-> Post, ver |-> 1, deleted |-> FALSE]
    /\ copy' = [copy EXCEPT ![Post] = row']
    /\ Written(Post)
    /\ UNCHANGED <<conn, wire, cache, snaps>>

\* Mutant: deleted rows are found too, and deleted_at is not read.
Read_Deleted(r) ==
    /\ r \in Puts \cup Deletes
    /\ row # None
    /\ Go(r, "idle", "read")
    /\ copy' = [copy EXCEPT ![r] = [row EXCEPT !.deleted = FALSE]]
    /\ crossed' = (crossed \/ \E q \in Requests : pc[q] \in {"read", "saved"})
    /\ UNCHANGED <<row, conn, wire, cache, snaps, clock, stamp, seen, lost, passed>>

\* PUT and DELETE: Find, which leaves deleted rows out.
Read(r) ==
    /\ r \in Puts \cup Deletes
    /\ row # None /\ ~row.deleted
    /\ Go(r, "idle", "read")
    /\ copy' = [copy EXCEPT ![r] = row]
    /\ crossed' = (crossed \/ \E q \in Requests : pc[q] \in {"read", "saved"})
    /\ UNCHANGED <<row, conn, wire, cache, snaps, clock, stamp, seen, lost, passed>>

\* Mutant: the task built from the input has no version, so Save writes 1.
Save_Unversioned(p) ==
    /\ p \in Puts
    /\ Go(p, "read", "saved")
    /\ row' = [copy[p] EXCEPT !.val = p, !.ver = 1]
    /\ copy' = [copy EXCEPT ![p] = row']
    /\ UNCHANGED <<conn, wire, cache, snaps, history>>

\* PUT: Save writes every column of the copy, the version and deleted_at too.
Save(p) ==
    /\ p \in Puts
    /\ Go(p, "read", "saved")
    /\ row' = [copy[p] EXCEPT !.val = p]
    /\ copy' = [copy EXCEPT ![p] = row']
    /\ UNCHANGED <<conn, wire, cache, snaps, history>>

\* PUT: BumpVersion.
BumpVersion(p) ==
    /\ p \in Puts
    /\ Go(p, "saved", "written")
    /\ row' = [row EXCEPT !.ver = @ + 1]
    /\ copy' = [copy EXCEPT ![p].ver = row'.ver]
    /\ Written(p)
    /\ UNCHANGED <<conn, wire, cache, snaps>>

\* DELETE: SoftDelete; the version pushed is that of the copy, plus one.
SoftDelete(d) ==
    /\ d \in Deletes
    /\ Go(d, "read", "written")
    /\ row' = [row EXCEPT !.deleted = TRUE, !.ver = @ + 1]
    /\ copy' = [copy EXCEPT ![d].ver = @ + 1]
    /\ Written(d)
    /\ UNCHANGED <<conn, wire, cache, snaps>>

\* DispatchUpsert and DispatchDelete.
Dispatch(r) ==
    /\ pc[r] = "written"
    /\ End(r)
    /\ IF r \in Deletes THEN Send(r, "delete", None) ELSE Send(r, "upsert", copy[r].val)
    /\ UNCHANGED <<row, conn, cache, snaps, clock, seen, crossed, passed>>

\* A statement fails, or the instance stops: nothing more is done. What was
\* written and not pushed counts as a lost delta.
Fail(r) ==
    /\ pc[r] \in {"read", "saved", "written"}
    /\ End(r)
    /\ lost' = (lost \/ pc[r] # "read")
    /\ UNCHANGED <<row, conn, wire, cache, snaps, clock, seen, crossed, passed>>

-----------------------------------------------------------------------------
(* The session *)

\* Mutant: the snapshot has the deleted schedules too.
BuildSnapshot_Deleted == IF row = None \/ row.val \in Pausing THEN None ELSE row

\* BuildSnapshot: enabled schedules that are not deleted.
BuildSnapshot == IF row = None \/ row.deleted \/ row.val \in Pausing THEN None ELSE row

\* The session is registered: deltas go to it from now on, and before the
\* snapshot of the RegisterAck is built, if it can be built at all.
Connect ==
    /\ ~conn
    /\ conn' = TRUE
    /\ UNCHANGED <<row, progress, wire, cache, snaps, history>>

\* The snapshot of the RegisterAck, or the answer to ServerTaskResyncRequest.
Snapshot ==
    /\ conn
    /\ snaps < MaxSnaps
    /\ snaps' = snaps + 1
    /\ LET s == BuildSnapshot IN
       wire' = wire \cup {[kind |-> "snapshot",
                           val |-> IF s = None THEN None ELSE s.val,
                           ver |-> IF s = None THEN 0 ELSE s.ver, at |-> clock + 1]}
    /\ clock' = clock + 1
    /\ lost' = FALSE
    /\ UNCHANGED <<row, progress, conn, cache, stamp, seen, crossed, passed>>

\* The session ends: what is on its way is lost. The daemon keeps its copy.
Disconnect ==
    /\ conn
    /\ conn' = FALSE
    /\ wire' = {}
    /\ lost' = TRUE
    /\ UNCHANGED <<row, progress, cache, snaps, clock, stamp, seen, crossed, passed>>

\* Pub-sub loses a delta.
Lose(m) ==
    /\ m.kind # "snapshot"
    /\ wire' = wire \ {m}
    /\ lost' = TRUE
    /\ UNCHANGED <<row, progress, conn, cache, snaps, clock, stamp, seen, crossed, passed>>

\* The daemon drops a delta whose version is not above that of its copy, and
\* replaces its copy by a snapshot. A deletion, and a snapshot without the
\* schedule, have no content.
Receive(m) ==
    /\ wire' = wire \ {m}
    /\ cache' =
         IF m.kind # "snapshot" /\ cache # None /\ m.ver <= cache.ver THEN cache
         ELSE IF m.val = None THEN None ELSE [val |-> m.val, ver |-> m.ver]
    /\ seen' = IF m.at > seen THEN m.at ELSE seen
    /\ passed' = \/ passed
                 \/ m.at < seen /\ (m.kind = "snapshot" \/ cache = None)
    /\ UNCHANGED <<row, progress, conn, snaps, clock, stamp, crossed, lost>>

Next ==
    \/ Insert \/ Connect \/ Snapshot \/ Disconnect
    \/ \E r \in Requests :
          Read(r) \/ Save(r) \/ BumpVersion(r) \/ SoftDelete(r) \/ Dispatch(r) \/ Fail(r)
    \/ \E m \in wire : Lose(m) \/ Receive(m)

Spec == Init /\ [][Next]_vars

-----------------------------------------------------------------------------
(* Properties *)

\* What the daemon would run: nothing for a schedule that is gone or off.
Runs(c) == IF c = None \/ c.val \in Pausing THEN None ELSE c.val
Wanted == IF row = None \/ row.deleted THEN None ELSE Runs(row)

\* Nothing is on its way and no request is under way.
Quiet == wire = {} /\ \A r \in Requests : pc[r] \in {"idle", "ended"}

\* Once things are quiet the daemon runs the schedule as the row has it,
\* whatever order the deltas arrived in - unless requests overlapped, a delta
\* was lost since the last snapshot, or a message was overtaken where the
\* version cannot tell (a snapshot; an upsert after the copy was deleted).
DaemonIsCurrent ==
    Quiet /\ conn /\ ~crossed /\ ~lost /\ ~passed => Runs(cache) = Wanted

\* "version is monotonic per task_id": it goes back only when requests
\* overlapped, as Save writes the version its request has read.
VersionsGrow ==
    [][row # None => row'.ver >= row.ver \/ crossed']_vars

\* A deleted schedule does not come back: only a PUT that had read the row
\* before the deletion brings it back, with the deleted_at it has read.
DeletedStaysDeleted ==
    [][row # None /\ row.deleted => row'.deleted \/ crossed']_vars

=============================================================================
