-------------------------- MODULE ServerTasks_proofs --------------------------
(***************************************************************************)
(* Proofs about ServerTasks, for any number of requests, snapshots and     *)
(* sessions.                                                               *)
(***************************************************************************)
EXTENDS ServerTasks, TLAPS

-----------------------------------------------------------------------------
(* The row *)

\* A request between its read and its last write.
Holds(r) == pc[r] \in {"read", "saved"}

\* A request under way has a copy of the row, and the row is inserted once.
Shown ==
    /\ \A r \in Requests :
          pc[r] \in {"read", "saved", "written"} => copy[r] # None /\ row # None
    /\ row # None => pc[Post] # "idle"
    /\ pc[Post] \in {"idle", "written", "ended"}

\* As long as requests do not overlap, one at a time holds a copy, which is the row.
InStep ==
    ~crossed =>
        /\ \A r, q \in Requests : Holds(r) /\ Holds(q) => r = q
        /\ \A r \in Requests : Holds(r) => row # None /\ copy[r] = row /\ ~row.deleted

RowInv == TypeOK /\ Shown /\ InStep

\* The constants, as the proofs use them.
LEMMA Sorts ==
    /\ Post \in Requests /\ Puts \subseteq Requests /\ Deletes \subseteq Requests
    /\ Puts \subseteq Contents /\ Post \in Contents /\ None \notin Contents
    /\ None \notin Rows /\ None \notin Copies /\ None \notin Pausing
    /\ Post \notin Puts \cup Deletes
BY ServerTasksAssumption DEF Requests, Contents, Rows, Copies

\* Init.
LEMMA InitRow == Init => RowInv
<1> SUFFICES ASSUME Init PROVE RowInv
  OBVIOUS
<1>1. TypeOK
  <2>1. pc \in [Requests -> Steps] /\ copy \in [Requests -> Rows \cup {None}]
        /\ stamp \in [Requests -> Nat]
    BY DEF Init, Steps
  <2>2. snaps \in 0..MaxSnaps
    BY ServerTasksAssumption DEF Init
  <2> QED BY <2>1, <2>2 DEF Init, TypeOK
<1>2. Shown /\ InStep
  BY Sorts DEF Init, Shown, InStep, Holds
<1> QED BY <1>1, <1>2 DEF RowInv

\* A message a request may send is one.
LEMMA SendType ==
    ASSUME TypeOK, Shown, NEW r \in Requests, pc[r] = "written", NEW kind \in {"upsert", "delete"},
           NEW val \in Contents \cup {None}, Send(r, kind, val)
    PROVE  wire' \subseteq Messages /\ lost' \in BOOLEAN
<1>1. copy[r] \in Rows
  BY DEF TypeOK, Shown
<1>2. [kind |-> kind, val |-> val, ver |-> copy[r].ver, at |-> stamp[r]] \in Messages
  BY <1>1 DEF TypeOK, Messages, Rows
<1> QED BY <1>2 DEF Send, TypeOK

\* What each statement of a request writes.
LEMMA InsertWrites ==
    ASSUME TypeOK, Insert
    PROVE  /\ row' \in Rows /\ row'.val = Post /\ row'.ver = 1 /\ ~row'.deleted
           /\ copy' = [copy EXCEPT ![Post] = row'] /\ copy'[Post] = row'
           /\ clock' = clock + 1 /\ stamp' = [stamp EXCEPT ![Post] = clock + 1]
<1>1. row' = [val |-> Post, ver |-> 1, deleted |-> FALSE] /\ row' \in Rows
  BY Sorts DEF Insert, Rows
<1>2. copy' = [copy EXCEPT ![Post] = row'] /\ copy'[Post] = row'
  BY Sorts DEF Insert, TypeOK
<1> QED BY <1>1, <1>2 DEF Insert, Written

LEMMA SaveWrites ==
    ASSUME TypeOK, Shown, NEW p \in Requests, Save(p)
    PROVE  /\ copy[p] \in Rows /\ row' \in Rows
           /\ row'.val = p /\ row'.ver = copy[p].ver /\ row'.deleted = copy[p].deleted
           /\ copy' = [copy EXCEPT ![p] = row'] /\ copy'[p] = row'
<1>1. copy[p] \in Rows /\ p \in Contents
  BY Sorts DEF Save, Go, Shown, TypeOK
<1>2. row' = [copy[p] EXCEPT !.val = p]
  BY DEF Save
<1>3. row' \in Rows /\ row'.val = p /\ row'.ver = copy[p].ver /\ row'.deleted = copy[p].deleted
  BY <1>1, <1>2 DEF Rows
<1>4. copy' = [copy EXCEPT ![p] = row'] /\ copy'[p] = row'
  BY DEF Save, TypeOK
<1> QED BY <1>1, <1>3, <1>4

LEMMA BumpWrites ==
    ASSUME TypeOK, Shown, NEW p \in Requests, BumpVersion(p)
    PROVE  /\ row \in Rows /\ copy[p] \in Rows /\ row' \in Rows
           /\ row'.val = row.val /\ row'.ver = row.ver + 1 /\ row'.deleted = row.deleted
           /\ copy' = [copy EXCEPT ![p] = [copy[p] EXCEPT !.ver = row.ver + 1]]
           /\ copy'[p] \in Rows /\ copy'[p].val = copy[p].val /\ copy'[p].ver = row.ver + 1
           /\ clock' = clock + 1 /\ stamp' = [stamp EXCEPT ![p] = clock + 1]
<1>1. row \in Rows /\ copy[p] \in Rows
  BY DEF BumpVersion, Go, Shown, TypeOK
<1>2. row.ver + 1 \in Nat
  BY <1>1 DEF Rows
<1>3. row' = [row EXCEPT !.ver = row.ver + 1]
  BY DEF BumpVersion
<1>4. row' \in Rows /\ row'.val = row.val /\ row'.ver = row.ver + 1 /\ row'.deleted = row.deleted
  BY <1>1, <1>2, <1>3 DEF Rows
<1>5. copy' = [copy EXCEPT ![p] = [copy[p] EXCEPT !.ver = row.ver + 1]]
  BY <1>4 DEF BumpVersion, TypeOK
<1>6. copy'[p] = [copy[p] EXCEPT !.ver = row.ver + 1]
  BY <1>5 DEF TypeOK
<1>7. copy'[p] \in Rows /\ copy'[p].val = copy[p].val /\ copy'[p].ver = row.ver + 1
  BY <1>1, <1>2, <1>6 DEF Rows
<1>8. clock' = clock + 1 /\ stamp' = [stamp EXCEPT ![p] = clock + 1]
  BY DEF BumpVersion, Written
<1> QED BY <1>1, <1>4, <1>5, <1>7, <1>8

LEMMA DeleteWrites ==
    ASSUME TypeOK, Shown, NEW d \in Requests, SoftDelete(d)
    PROVE  /\ row \in Rows /\ copy[d] \in Rows /\ row' \in Rows
           /\ row'.deleted /\ row'.ver = row.ver + 1
           /\ copy' = [copy EXCEPT ![d] = [copy[d] EXCEPT !.ver = copy[d].ver + 1]]
           /\ copy'[d] \in Rows /\ copy'[d].ver = copy[d].ver + 1
           /\ clock' = clock + 1 /\ stamp' = [stamp EXCEPT ![d] = clock + 1]
<1>1. row \in Rows /\ copy[d] \in Rows
  BY DEF SoftDelete, Go, Shown, TypeOK
<1>2. row.ver + 1 \in Nat /\ copy[d].ver + 1 \in Nat
  BY <1>1 DEF Rows
<1>3. row' = [row EXCEPT !.deleted = TRUE, !.ver = row.ver + 1]
  BY DEF SoftDelete
<1>4. row' \in Rows /\ row'.deleted /\ row'.ver = row.ver + 1
  BY <1>1, <1>2, <1>3 DEF Rows
<1>5. copy' = [copy EXCEPT ![d] = [copy[d] EXCEPT !.ver = copy[d].ver + 1]]
  BY DEF SoftDelete, TypeOK
<1>6. copy'[d] = [copy[d] EXCEPT !.ver = copy[d].ver + 1]
  BY <1>5 DEF TypeOK
<1>7. copy'[d] \in Rows /\ copy'[d].ver = copy[d].ver + 1
  BY <1>1, <1>2, <1>6 DEF Rows
<1>8. clock' = clock + 1 /\ stamp' = [stamp EXCEPT ![d] = clock + 1]
  BY DEF SoftDelete, Written
<1> QED BY <1>1, <1>4, <1>5, <1>7, <1>8

\* Every step is type correct.
LEMMA TypeStep == ASSUME TypeOK, Shown, Next PROVE TypeOK'
<1> USE DEF TypeOK, Steps, progress, history
<1>e. ASSUME NEW r \in Requests, End(r)
      PROVE  /\ pc' \in [Requests -> Steps] /\ copy' \in [Requests -> Rows \cup {None}]
             /\ stamp' \in [Requests -> Nat]
  BY <1>e DEF End
<1>1. CASE Insert
  <2>1. pc' \in [Requests -> Steps]
    BY <1>1 DEF Insert, Go
  <2>2. copy' \in [Requests -> Rows \cup {None}] /\ stamp' \in [Requests -> Nat]
    BY <1>1, InsertWrites
  <2> QED BY <1>1, <2>1, <2>2, InsertWrites DEF Insert, Written
<1>2. ASSUME NEW r \in Requests, Read(r) PROVE TypeOK'
  <2>1. pc' \in [Requests -> Steps] /\ copy' \in [Requests -> Rows \cup {None}]
    BY <1>2 DEF Read, Go
  <2> QED BY <1>2, <2>1 DEF Read
<1>3. ASSUME NEW r \in Requests, Save(r) PROVE TypeOK'
  <2>1. pc' \in [Requests -> Steps] /\ copy' \in [Requests -> Rows \cup {None}]
    BY <1>3, SaveWrites DEF Save, Go
  <2> QED BY <1>3, <2>1, SaveWrites DEF Save
<1>4. ASSUME NEW r \in Requests, BumpVersion(r) PROVE TypeOK'
  <2>1. pc' \in [Requests -> Steps]
    BY <1>4 DEF BumpVersion, Go
  <2>2. copy' \in [Requests -> Rows \cup {None}] /\ stamp' \in [Requests -> Nat]
    BY <1>4, BumpWrites
  <2> QED BY <1>4, <2>1, <2>2, BumpWrites DEF BumpVersion, Written
<1>5. ASSUME NEW r \in Requests, SoftDelete(r) PROVE TypeOK'
  <2>1. pc' \in [Requests -> Steps]
    BY <1>5 DEF SoftDelete, Go
  <2>2. copy' \in [Requests -> Rows \cup {None}] /\ stamp' \in [Requests -> Nat]
    BY <1>5, DeleteWrites
  <2> QED BY <1>5, <2>1, <2>2, DeleteWrites DEF SoftDelete, Written
<1>6. ASSUME NEW r \in Requests, Dispatch(r) PROVE TypeOK'
  <2>0. copy[r].val \in Contents
    BY <1>6 DEF Dispatch, Shown, Rows
  <2>1. wire' \subseteq Messages /\ lost' \in BOOLEAN
    BY <1>6, <2>0, SendType DEF Dispatch
  <2> QED BY <1>6, <1>e, <2>1 DEF Dispatch
<1>7. ASSUME NEW r \in Requests, Fail(r) PROVE TypeOK'
  BY <1>7, <1>e DEF Fail
<1>8. CASE Connect \/ Disconnect
  BY <1>8 DEF Connect, Disconnect
<1>9. CASE Snapshot
  <2>1. BuildSnapshot \in Rows \cup {None}
    BY DEF BuildSnapshot
  <2>2. [kind |-> "snapshot", val |-> IF BuildSnapshot = None THEN None ELSE BuildSnapshot.val,
         ver |-> IF BuildSnapshot = None THEN 0 ELSE BuildSnapshot.ver,
         at |-> clock + 1] \in Messages
    BY <2>1 DEF Messages, Rows
  <2>3. wire' \subseteq Messages
    BY <1>9, <2>2 DEF Snapshot
  <2>4. snaps' \in 0..MaxSnaps /\ clock' \in Nat
    BY <1>9, ServerTasksAssumption DEF Snapshot
  <2> QED BY <1>9, <2>3, <2>4 DEF Snapshot
<1>10. ASSUME NEW m \in wire, Lose(m) PROVE TypeOK'
  BY <1>10 DEF Lose
<1>11. ASSUME NEW m \in wire, Receive(m) PROVE TypeOK'
  <2>1. m \in Messages
    OBVIOUS
  <2>2. cache' \in Copies \cup {None}
    <3>1. CASE cache' = cache
      BY <3>1
    <3>2. CASE cache' # cache /\ m.val = None
      BY <1>11, <3>2 DEF Receive
    <3>3. CASE cache' # cache /\ m.val # None
      <4>1. m.val \in Contents /\ m.ver \in Nat
        BY <2>1, <3>3 DEF Messages
      <4>2. cache' = [val |-> m.val, ver |-> m.ver]
        BY <1>11, <3>3 DEF Receive
      <4> QED BY <4>1, <4>2 DEF Copies
    <3> QED BY <3>1, <3>2, <3>3
  <2>3. seen' \in Nat /\ passed' \in BOOLEAN
    BY <1>11, <2>1 DEF Receive, Messages
  <2> QED BY <1>11, <2>2, <2>3 DEF Receive
<1> QED BY <1>1, <1>2, <1>3, <1>4, <1>5, <1>6, <1>7, <1>8, <1>9, <1>10, <1>11 DEF Next

\* Requests under way keep their copies.
LEMMA ShownStep == ASSUME TypeOK, Shown, Next PROVE Shown'
<1> DEFINE Goal == /\ \A r \in Requests : pc'[r] \in {"read", "saved", "written"}
                                            => copy'[r] # None /\ row' # None
                   /\ row' # None => pc'[Post] # "idle"
                   /\ pc'[Post] \in {"idle", "written", "ended"}
<1> USE DEF TypeOK
<1>s. /\ \A r \in Requests : pc[r] \in {"read", "saved", "written"} => copy[r] # None /\ row # None
      /\ row # None => pc[Post] # "idle"
      /\ pc[Post] \in {"idle", "written", "ended"}
  BY DEF Shown
<1>1. ASSUME Insert PROVE Goal
  BY <1>1, <1>s, InsertWrites, Sorts DEF Insert, Go
<1>2. ASSUME NEW r \in Requests, Read(r) PROVE Goal
  BY <1>2, <1>s, Sorts DEF Read, Go
<1>3. ASSUME NEW r \in Requests, Save(r) PROVE Goal
  <2>1. pc[r] \in {"read", "saved"} /\ pc' = [pc EXCEPT ![r] = pc'[r]] /\ r # Post
    BY <1>3, Sorts DEF Save, Go
  <2>2. row' # None /\ row # None /\ copy'[r] # None
    BY <1>3, <1>s, <2>1, SaveWrites, Sorts
  <2>3. \A q \in Requests : q # r => copy'[q] = copy[q] /\ pc'[q] = pc[q]
    BY <1>3, <2>1, SaveWrites
  <2> QED BY <1>s, <2>1, <2>2, <2>3, Sorts
<1>4. ASSUME NEW r \in Requests, BumpVersion(r) PROVE Goal
  <2>1. pc[r] \in {"read", "saved"} /\ pc' = [pc EXCEPT ![r] = pc'[r]] /\ r # Post
    BY <1>4, Sorts DEF BumpVersion, Go
  <2>2. row' # None /\ row # None /\ copy'[r] # None
    BY <1>4, <1>s, <2>1, BumpWrites, Sorts
  <2>3. \A q \in Requests : q # r => copy'[q] = copy[q] /\ pc'[q] = pc[q]
    BY <1>4, <2>1, BumpWrites
  <2> QED BY <1>s, <2>1, <2>2, <2>3, Sorts
<1>5. ASSUME NEW r \in Requests, SoftDelete(r) PROVE Goal
  BY <1>5, <1>s, DeleteWrites, Sorts DEF SoftDelete, Go
<1>6. ASSUME NEW r \in Requests, Dispatch(r) \/ Fail(r) PROVE Goal
  <2>1. End(r) /\ row' = row
    BY <1>6 DEF Dispatch, Fail
  <2> QED BY <1>s, <2>1, Sorts DEF End
<1>7. ASSUME UNCHANGED <<row, pc, copy>> PROVE Goal
  BY <1>7, <1>s
<1>8. \/ Insert \/ UNCHANGED <<row, pc, copy>>
      \/ \E r \in Requests : Read(r) \/ Save(r) \/ BumpVersion(r) \/ SoftDelete(r) \/ Dispatch(r) \/ Fail(r)
  BY DEF Next, Connect, Disconnect, Snapshot, Lose, Receive, progress
<1>9. Goal
  BY <1>1, <1>2, <1>3, <1>4, <1>5, <1>6, <1>7, <1>8
<1> QED BY <1>9 DEF Shown

\* One request at a time holds a copy, as long as none reads in between.
LEMMA InStepStep == ASSUME RowInv, Next PROVE InStep'
<1> SUFFICES ASSUME ~crossed'
             PROVE  /\ \A r, q \in Requests : Holds(r)' /\ Holds(q)' => r = q
                    /\ \A r \in Requests :
                          Holds(r)' => row' # None /\ copy'[r] = row' /\ ~row'.deleted
  BY DEF InStep
<1> DEFINE Goal == /\ \A r, q \in Requests : Holds(r)' /\ Holds(q)' => r = q
                   /\ \A r \in Requests :
                         Holds(r)' => row' # None /\ copy'[r] = row' /\ ~row'.deleted
<1> USE DEF RowInv
<1>t. TypeOK
  OBVIOUS
<1>s. /\ \A r \in Requests : pc[r] \in {"read", "saved", "written"} => copy[r] # None /\ row # None
      /\ row # None => pc[Post] # "idle"
  BY DEF Shown
<1>c. ~crossed
  BY DEF Next, Insert, Connect, Snapshot, Disconnect, Read, Save, BumpVersion, SoftDelete,
         Dispatch, Fail, Lose, Receive, Written, End, history
<1>i. /\ \A r, q \in Requests : Holds(r) /\ Holds(q) => r = q
      /\ \A r \in Requests : Holds(r) => row # None /\ copy[r] = row /\ ~row.deleted
  BY <1>c DEF InStep
<1>1. ASSUME Insert PROVE Goal
  <2>1. row = None
    BY <1>1, <1>s DEF Insert, Go
  <2>2. \A r \in Requests : ~Holds(r)'
    BY <1>1, <1>s, <1>t, <2>1 DEF Insert, Go, Holds, TypeOK
  <2> QED BY <2>2
<1>2. ASSUME NEW r \in Requests, Read(r) PROVE Goal
  <2>1. \A q \in Requests : ~Holds(q)
    BY <1>2 DEF Read, Holds
  <2>2. \A q \in Requests : Holds(q)' => q = r
    BY <1>2, <1>t, <2>1 DEF Read, Go, Holds, TypeOK
  <2>3. row' = row /\ row # None /\ ~row.deleted /\ copy'[r] = row
    BY <1>2, <1>t DEF Read, TypeOK
  <2> QED BY <2>2, <2>3
<1>3. ASSUME NEW r \in Requests, Save(r) PROVE Goal
  <2>1. Holds(r)
    BY <1>3 DEF Save, Go, Holds
  <2>2. \A q \in Requests : Holds(q)' => q = r
    BY <1>3, <1>t, <1>i, <2>1 DEF Save, Go, Holds, TypeOK
  <2>3. row' # None /\ copy'[r] = row' /\ ~row'.deleted
    BY <1>3, <1>t, <1>i, <2>1, SaveWrites, Sorts
  <2> QED BY <2>2, <2>3
<1>4. ASSUME NEW r \in Requests, BumpVersion(r) \/ SoftDelete(r) PROVE Goal
  <2>1. Holds(r)
    BY <1>4 DEF BumpVersion, SoftDelete, Go, Holds
  <2>2. pc' = [pc EXCEPT ![r] = "written"]
    BY <1>4 DEF BumpVersion, SoftDelete, Go
  <2>3. \A q \in Requests : ~Holds(q)'
    BY <1>t, <1>i, <2>1, <2>2 DEF Holds, TypeOK
  <2> QED BY <2>3
<1>5. ASSUME NEW r \in Requests, Dispatch(r) \/ Fail(r) PROVE Goal
  <2>1. End(r) /\ row' = row
    BY <1>5 DEF Dispatch, Fail
  <2>2. \A q \in Requests : Holds(q)' => Holds(q) /\ copy'[q] = copy[q]
    BY <1>t, <2>1 DEF End, Holds, TypeOK
  <2> QED BY <1>i, <2>1, <2>2
<1>6. ASSUME UNCHANGED <<row, pc, copy>> PROVE Goal
  BY <1>6, <1>i DEF Holds
<1>7. \/ Insert \/ UNCHANGED <<row, pc, copy>>
      \/ \E r \in Requests : Read(r) \/ Save(r) \/ BumpVersion(r) \/ SoftDelete(r) \/ Dispatch(r) \/ Fail(r)
  BY DEF Next, Connect, Disconnect, Snapshot, Lose, Receive, progress
<1> QED BY <1>1, <1>2, <1>3, <1>4, <1>5, <1>6, <1>7

LEMMA RowStep == ASSUME RowInv, [Next]_vars PROVE RowInv'
<1>1. CASE Next
  BY <1>1, TypeStep, ShownStep, InStepStep DEF RowInv
<1>2. CASE UNCHANGED vars
  BY <1>2 DEF RowInv, TypeOK, Shown, InStep, Holds, vars, progress, history
<1> QED BY <1>1, <1>2

\* RowInv is an invariant: in particular a request that is under way works on a
\* row, and while requests do not overlap on the row as it is.
THEOREM RowCorrect == Spec => []RowInv
BY InitRow, RowStep, PTL DEF Spec

\* VersionsGrow: no statement of a request lowers the version of the row, unless
\* requests overlapped. Save writes back the version of its copy, which InStep
\* says is still that of the row.
THEOREM VersionsKeepGrowing == Spec => VersionsGrow
<1> DEFINE Grows == row # None => row'.ver >= row.ver \/ crossed'
<1>1. ASSUME RowInv, [Next]_vars PROVE [Grows]_vars
  <2> SUFFICES ASSUME Next, row # None, ~crossed' PROVE row'.ver >= row.ver
    BY <1>1 DEF Grows
  <2>t. TypeOK /\ Shown /\ row \in Rows /\ row.ver \in Nat
    BY <1>1 DEF RowInv, TypeOK, Rows
  <2>1. CASE row' = row
    BY <2>1, <2>t
  <2>2. CASE Insert
    BY <2>2, <2>t DEF Insert, Go, Shown
  <2>3. ASSUME NEW r \in Requests, Save(r) PROVE row'.ver >= row.ver
    <3>1. ~crossed /\ Holds(r)
      BY <2>3 DEF Save, Go, Holds, history
    <3>2. copy[r] = row
      BY <1>1, <3>1 DEF RowInv, InStep
    <3> QED BY <2>3, <2>t, <3>2, SaveWrites
  <2>4. ASSUME NEW r \in Requests, BumpVersion(r) PROVE row'.ver >= row.ver
    BY <2>4, <2>t, BumpWrites
  <2>5. ASSUME NEW r \in Requests, SoftDelete(r) PROVE row'.ver >= row.ver
    BY <2>5, <2>t, DeleteWrites
  <2> QED BY <2>1, <2>2, <2>3, <2>4, <2>5
        DEF Next, Connect, Snapshot, Disconnect, Read, Dispatch, Fail, Lose, Receive
<1> QED BY <1>1, RowCorrect, PTL DEF Spec, VersionsGrow

\* DeletedStaysDeleted: no statement takes deleted_at back, unless requests
\* overlapped. A request that would has read the row before the deletion, and
\* InStep leaves no such request when a row is deleted.
THEOREM DeletedIsForGood == Spec => DeletedStaysDeleted
<1> DEFINE Stays == row # None /\ row.deleted => row'.deleted \/ crossed'
<1>1. ASSUME RowInv, [Next]_vars PROVE [Stays]_vars
  <2> SUFFICES ASSUME Next, row # None, row.deleted, ~crossed' PROVE row'.deleted
    BY <1>1 DEF Stays
  <2>t. TypeOK /\ Shown
    BY <1>1 DEF RowInv
  <2>1. CASE row' = row
    BY <2>1
  <2>2. CASE Insert
    BY <2>2, <2>t DEF Insert, Go, Shown
  <2>3. ASSUME NEW r \in Requests, Save(r) PROVE FALSE
    <3>1. ~crossed /\ Holds(r)
      BY <2>3 DEF Save, Go, Holds, history
    <3> QED BY <1>1, <3>1 DEF RowInv, InStep
  <2>4. ASSUME NEW r \in Requests, BumpVersion(r) PROVE row'.deleted
    BY <2>4, <2>t, BumpWrites
  <2>5. ASSUME NEW r \in Requests, SoftDelete(r) PROVE row'.deleted
    BY <2>5, <2>t, DeleteWrites
  <2> QED BY <2>1, <2>2, <2>3, <2>4, <2>5
        DEF Next, Connect, Snapshot, Disconnect, Read, Dispatch, Fail, Lose, Receive
<1> QED BY <1>1, RowCorrect, PTL DEF Spec, DeletedStaysDeleted

-----------------------------------------------------------------------------
(* What the daemon is told *)

Waiting(r) == pc[r] = "written"

\* The message a request is about to send.
Told(r) == [kind |-> IF r \in Deletes THEN "delete" ELSE "upsert",
            val |-> IF r \in Deletes THEN None ELSE copy[r].val,
            ver |-> copy[r].ver, at |-> stamp[r]]

\* The messages that are on their way or about to be.
Tellings == wire \cup {Told(r) : r \in {q \in Requests : Waiting(q)}}

\* No two messages tell of the same state, and none of one the daemon knows.
Distinct ==
    /\ seen <= clock
    /\ \A x \in Tellings : x.at <= clock /\ x.at # seen
    /\ \A m, n \in wire : m.at = n.at => m = n
    /\ \A m \in wire, r \in Requests : Waiting(r) => m.at # stamp[r]
    /\ \A r, q \in Requests : Waiting(r) /\ Waiting(q) /\ stamp[r] = stamp[q] => r = q

RowVersion == IF row = None THEN 0 ELSE row.ver

\* Versions are in the order of the states.
Ordered ==
    ~crossed =>
        /\ \A x \in Tellings : x.ver <= RowVersion
        /\ cache # None => cache.ver <= RowVersion
        /\ \A x, y \in Tellings : x.at < y.at =>
              /\ y.kind # "snapshot" => x.ver < y.ver
              /\ y.kind = "snapshot" /\ y.val # None => x.ver <= y.ver

\* The version of the daemon's copy tells older deltas from newer ones.
CacheOrdered ==
    ~crossed /\ ~passed /\ cache # None =>
        \A x \in Tellings : x.kind # "snapshot" =>
            (x.at < seen => x.ver <= cache.ver) /\ (x.at > seen => x.ver > cache.ver)

\* What the daemon runs after a message it does not drop.
Effect(m) == IF m.val \in Pausing THEN None ELSE m.val

\* The newest message is right, or, if the daemon has it already, its copy is.
Latest ==
    ~crossed /\ ~passed /\ ~lost /\ (\A r \in Requests : pc[r] # "saved") =>
        \/ \E y \in Tellings :
              y.at > seen /\ (\A z \in Tellings : z.at <= y.at) /\ Effect(y) = Wanted
        \/ (\A z \in Tellings : z.at < seen) /\ Runs(cache) = Wanted

Inv == RowInv /\ Distinct /\ Ordered /\ CacheOrdered /\ Latest

LEMMA TellingsType ==
    ASSUME RowInv PROVE Tellings \subseteq Messages
<1>1. wire \subseteq Messages
  BY DEF RowInv, TypeOK
<1>2. ASSUME NEW r \in Requests, Waiting(r) PROVE Told(r) \in Messages
  <2>1. copy[r] \in Rows /\ stamp[r] \in Nat
    BY <1>2 DEF RowInv, TypeOK, Shown, Waiting
  <2>2. copy[r].val \in Contents /\ copy[r].ver \in Nat
    BY <2>1 DEF Rows
  <2> QED BY <2>1, <2>2 DEF Told, Messages
<1> QED BY <1>1, <1>2 DEF Tellings

\* A request that goes on leaves what the others will tell alone.
Others(r) == \A q \in Requests : q # r => /\ pc'[q] = pc[q] /\ copy'[q] = copy[q]
                                          /\ stamp'[q] = stamp[q]

LEMMA OthersTell ==
    ASSUME NEW r \in Requests, Others(r), NEW q \in Requests, q # r
    PROVE  (Waiting(q)' <=> Waiting(q)) /\ Told(q)' = Told(q)
BY DEF Others, Waiting, Told

\* It adds the state that it has written,
LEMMA MoreToTell ==
    ASSUME NEW r \in Requests, Others(r), ~Waiting(r), Waiting(r)', wire' = wire
    PROVE  Tellings' = Tellings \cup {Told(r)'}
<1>1. \A x : x \in Tellings <=> x \in wire \/ \E q \in Requests : Waiting(q) /\ x = Told(q)
  BY DEF Tellings
<1>2. \A x : x \in Tellings' <=> x \in wire' \/ \E q \in Requests : Waiting(q)' /\ x = Told(q)'
  BY DEF Tellings
<1>3. \A q \in Requests : q # r => (Waiting(q)' <=> Waiting(q)) /\ Told(q)' = Told(q)
  BY OthersTell
<1> HIDE DEF Tellings, Waiting, Told, Others
<1> QED BY <1>1, <1>2, <1>3

\* or it tells nothing yet,
LEMMA SameToTell ==
    ASSUME NEW r \in Requests, Others(r), ~Waiting(r), ~Waiting(r)', wire' = wire
    PROVE  Tellings' = Tellings
<1>1. \A x : x \in Tellings <=> x \in wire \/ \E q \in Requests : Waiting(q) /\ x = Told(q)
  BY DEF Tellings
<1>2. \A x : x \in Tellings' <=> x \in wire' \/ \E q \in Requests : Waiting(q)' /\ x = Told(q)'
  BY DEF Tellings
<1>3. \A q \in Requests : q # r => (Waiting(q)' <=> Waiting(q)) /\ Told(q)' = Told(q)
  BY OthersTell
<1> HIDE DEF Tellings, Waiting, Told, Others
<1> QED BY <1>1, <1>2, <1>3

\* or it ends: what it has sent is on the wire, and what it has not is gone.
LEMMA NoMoreToTell ==
    ASSUME NEW r \in Requests, Others(r), ~Waiting(r)',
           wire' = wire \/ (Waiting(r) /\ wire' = wire \cup {Told(r)})
    PROVE  /\ Tellings' \subseteq Tellings
           /\ Waiting(r) /\ wire' = wire \cup {Told(r)} => Tellings' = Tellings
<1>1. \A x : x \in Tellings <=> x \in wire \/ \E q \in Requests : Waiting(q) /\ x = Told(q)
  BY DEF Tellings
<1>2. \A x : x \in Tellings' <=> x \in wire' \/ \E q \in Requests : Waiting(q)' /\ x = Told(q)'
  BY DEF Tellings
<1>3. \A q \in Requests : q # r => (Waiting(q)' <=> Waiting(q)) /\ Told(q)' = Told(q)
  BY OthersTell
<1> HIDE DEF Tellings, Waiting, Told, Others
<1> QED BY <1>1, <1>2, <1>3

\* The messages change alone.
LEMMA WireToTell ==
    ASSUME UNCHANGED <<pc, copy, stamp>>
    PROVE  /\ \A q \in Requests : (Waiting(q)' <=> Waiting(q)) /\ Told(q)' = Told(q)
           /\ Tellings' = wire' \cup {Told(r) : r \in {q \in Requests : Waiting(q)}}
<1>1. \A q \in Requests : (Waiting(q)' <=> Waiting(q)) /\ Told(q)' = Told(q)
  BY DEF Waiting, Told
<1>2. \A x : x \in Tellings' <=> x \in wire' \/ \E q \in Requests : Waiting(q)' /\ x = Told(q)'
  BY DEF Tellings
<1> HIDE DEF Tellings, Waiting, Told
<1> QED BY <1>1, <1>2


-----------------------------------------------------------------------------
(* Every step adds a message about the newest state, adds none, or is a receipt *)

\* y is about the row as it is after the step, and its version says so.
Adds(y) ==
    /\ Tellings' = Tellings \cup {y} /\ y \in Messages
    /\ y.at = clock + 1 /\ clock' = clock + 1
    /\ UNCHANGED <<seen, cache, passed, crossed>>
    /\ ~crossed =>
          /\ RowVersion <= RowVersion' /\ y.ver <= RowVersion'
          /\ y.kind # "snapshot" => RowVersion < y.ver
          /\ y.kind = "snapshot" /\ y.val # None => y.ver = RowVersion
          /\ Effect(y) = Wanted'

\* If a message is gone the step counts as a loss.
Keeps ==
    /\ Tellings' \subseteq Tellings
    /\ UNCHANGED <<clock, seen, cache, passed>>
    /\ crossed => crossed'
    /\ ~crossed' => RowVersion' = RowVersion
    /\ \/ lost' \/ \E r \in Requests : pc'[r] = "saved"
       \/ /\ Tellings' = Tellings /\ UNCHANGED <<row, lost>>
          /\ \A r \in Requests : pc[r] = "saved" => pc'[r] = "saved"

Takes(m) == Receive(m) /\ Tellings' = Tellings \ {m}

LEMMA InsertAdds == ASSUME RowInv, Insert PROVE \E y : Adds(y)
<1>t. TypeOK /\ Post \in Requests /\ Post \notin Deletes
  BY Sorts DEF RowInv
<1>1. row = None /\ ~Waiting(Post) /\ Waiting(Post)' /\ wire' = wire
  BY <1>t DEF Insert, Go, RowInv, Shown, Waiting, TypeOK
<1>2. Others(Post)
  BY <1>t, InsertWrites DEF Others, Insert, Go, TypeOK
<1>3. Tellings' = Tellings \cup {Told(Post)'}
  BY <1>t, <1>1, <1>2, MoreToTell
<1>4. Told(Post)' = [kind |-> "upsert", val |-> Post, ver |-> 1, at |-> clock + 1]
  BY <1>t, InsertWrites DEF Told, TypeOK
<1>5. Told(Post)' \in Messages
  BY <1>t, <1>4, Sorts DEF Messages, TypeOK
<1>6. RowVersion = 0 /\ RowVersion' = 1
  BY <1>t, <1>1, InsertWrites, Sorts DEF RowVersion
<1>7. Effect(Told(Post)') = Wanted'
  <2>1. Post \notin Pausing
    BY ServerTasksAssumption
  <2> QED BY <1>t, <1>4, <2>1, InsertWrites, Sorts DEF Effect, Wanted, Runs
<1>8. clock' = clock + 1 /\ UNCHANGED <<seen, cache, passed, crossed>>
  BY DEF Insert, Written
<1> HIDE DEF Told, Tellings
<1>9. Adds(Told(Post)')
  BY <1>3, <1>4, <1>5, <1>6, <1>7, <1>8 DEF Adds
<1> QED BY <1>9

LEMMA BumpAdds ==
    ASSUME RowInv, NEW p \in Requests, BumpVersion(p) PROVE \E y : Adds(y)
<1>t. TypeOK /\ Shown /\ p \notin Deletes
  BY ServerTasksAssumption DEF RowInv, BumpVersion
<1>1. ~Waiting(p) /\ Waiting(p)' /\ wire' = wire
  BY <1>t DEF BumpVersion, Go, Waiting, TypeOK
<1>2. Others(p)
  BY <1>t, BumpWrites DEF Others, BumpVersion, Go, TypeOK
<1>3. Tellings' = Tellings \cup {Told(p)'}
  BY <1>1, <1>2, MoreToTell
<1>4. Told(p)' = [kind |-> "upsert", val |-> copy[p].val, ver |-> row.ver + 1, at |-> clock + 1]
  BY <1>t, BumpWrites DEF Told, TypeOK
<1>5. Told(p)' \in Messages
  <2>1. copy[p].val \in Contents /\ row.ver + 1 \in Nat /\ clock + 1 \in Nat
    BY <1>t, BumpWrites DEF Rows, TypeOK
  <2> QED BY <1>4, <2>1 DEF Messages
<1>6. RowVersion = row.ver /\ RowVersion' = row.ver + 1 /\ row.ver \in Nat
  BY <1>t, BumpWrites, Sorts DEF RowVersion, Rows
<1>7. ASSUME ~crossed PROVE Effect(Told(p)') = Wanted'
  <2>1. Holds(p)
    BY DEF BumpVersion, Go, Holds
  <2>2. copy[p] = row /\ ~row.deleted
    BY <1>7, <2>1 DEF RowInv, InStep
  <2>3. row' # None /\ ~row'.deleted /\ row'.val = copy[p].val
    BY <1>t, <2>2, BumpWrites, Sorts
  <2> QED BY <1>4, <2>3 DEF Effect, Wanted, Runs
<1>8. clock' = clock + 1 /\ UNCHANGED <<seen, cache, passed, crossed>>
  BY DEF BumpVersion, Written
<1> HIDE DEF Told, Tellings
<1>9. Adds(Told(p)')
  BY <1>3, <1>4, <1>5, <1>6, <1>7, <1>8 DEF Adds
<1> QED BY <1>9

LEMMA DeleteAdds ==
    ASSUME RowInv, NEW d \in Requests, SoftDelete(d) PROVE \E y : Adds(y)
<1>t. TypeOK /\ Shown /\ d \in Deletes
  BY DEF RowInv, SoftDelete
<1>1. ~Waiting(d) /\ Waiting(d)' /\ wire' = wire
  BY <1>t DEF SoftDelete, Go, Waiting, TypeOK
<1>2. Others(d)
  BY <1>t, DeleteWrites DEF Others, SoftDelete, Go, TypeOK
<1>3. Tellings' = Tellings \cup {Told(d)'}
  BY <1>1, <1>2, MoreToTell
<1>4. Told(d)' = [kind |-> "delete", val |-> None, ver |-> copy[d].ver + 1, at |-> clock + 1]
  BY <1>t, DeleteWrites DEF Told, TypeOK
<1>5. Told(d)' \in Messages
  <2>1. copy[d].ver + 1 \in Nat /\ clock + 1 \in Nat
    BY <1>t, DeleteWrites DEF Rows, TypeOK
  <2> QED BY <1>4, <2>1 DEF Messages
<1>6. RowVersion = row.ver /\ RowVersion' = row.ver + 1 /\ row.ver \in Nat
  BY <1>t, DeleteWrites, Sorts DEF RowVersion, Rows
<1>7. Effect(Told(d)') = Wanted'
  BY <1>t, <1>4, DeleteWrites, Sorts DEF Effect, Wanted
<1>8. clock' = clock + 1 /\ UNCHANGED <<seen, cache, passed, crossed>>
  BY DEF SoftDelete, Written
<1>9. ~crossed => copy[d].ver = row.ver
  BY DEF SoftDelete, Go, Holds, RowInv, InStep
<1> HIDE DEF Told, Tellings
<1>10. Adds(Told(d)')
  BY <1>3, <1>4, <1>5, <1>6, <1>7, <1>8, <1>9 DEF Adds
<1> QED BY <1>10

LEMMA SnapshotAdds == ASSUME RowInv, Snapshot PROVE \E y : Adds(y)
<1> DEFINE b == BuildSnapshot
           y == [kind |-> "snapshot", val |-> IF b = None THEN None ELSE b.val,
                 ver |-> IF b = None THEN 0 ELSE b.ver, at |-> clock + 1]
<1>t. TypeOK
  BY DEF RowInv
<1>1. wire' = wire \cup {y} /\ UNCHANGED <<pc, copy, stamp, row>>
  BY DEF Snapshot, progress
<1>2. Tellings' = Tellings \cup {y}
  BY <1>1, WireToTell DEF Tellings
<1>3. y.kind = "snapshot" /\ y.at = clock + 1
  OBVIOUS
<1>4. CASE row = None \/ row.deleted \/ row.val \in Pausing
  <2>1. y = [kind |-> "snapshot", val |-> None, ver |-> 0, at |-> clock + 1]
    BY <1>4 DEF BuildSnapshot
  <2>2. RowVersion \in Nat /\ RowVersion' = RowVersion
    BY <1>t, <1>1 DEF RowVersion, TypeOK, Rows
  <2>3. Wanted' = None
    BY <1>1, <1>4 DEF Wanted, Runs
  <2>4. y \in Messages /\ Effect(y) = None
    BY <1>t, <2>1, Sorts DEF Messages, Effect, TypeOK
  <2>5. y.ver = 0 /\ y.val = None
    BY <2>1
  <2> HIDE DEF y
  <2> QED BY <1>2, <1>3, <2>2, <2>3, <2>4, <2>5 DEF Adds, Snapshot
<1>5. CASE ~(row = None \/ row.deleted \/ row.val \in Pausing)
  <2>1. row \in Rows /\ row # None
    BY <1>t, <1>5 DEF TypeOK
  <2>2. y = [kind |-> "snapshot", val |-> row.val, ver |-> row.ver, at |-> clock + 1]
    BY <1>5, <2>1 DEF BuildSnapshot
  <2>3. RowVersion \in Nat /\ RowVersion' = RowVersion /\ RowVersion = row.ver
    BY <1>1, <2>1 DEF RowVersion, Rows
  <2>4. Wanted' = row.val
    BY <1>1, <1>5 DEF Wanted, Runs
  <2>5. y \in Messages
    <3>1. row.val \in Contents /\ row.ver \in Nat /\ clock + 1 \in Nat
      BY <1>t, <2>1 DEF Rows, TypeOK
    <3> QED BY <2>2, <3>1 DEF Messages
  <2>6. Effect(y) = row.val /\ y.ver = row.ver
    BY <1>5, <2>2 DEF Effect
  <2> HIDE DEF y
  <2> QED BY <1>2, <1>3, <2>3, <2>4, <2>5, <2>6 DEF Adds, Snapshot
<1> QED BY <1>4, <1>5

\* The steps of a request before it writes what it tells, and its end.
LEMMA RequestKeeps ==
    ASSUME RowInv, NEW r \in Requests, Read(r) \/ Save(r) \/ Dispatch(r) \/ Fail(r)
    PROVE  Keeps
<1>t. TypeOK /\ Shown
  BY DEF RowInv
<1>1. CASE Read(r)
  <2>1. Others(r) /\ ~Waiting(r) /\ ~Waiting(r)' /\ wire' = wire
    BY <1>1, <1>t DEF Read, Go, Others, Waiting, TypeOK
  <2>2. Tellings' = Tellings
    BY <2>1, SameToTell
  <2>3. \A q \in Requests : pc[q] = "saved" => pc'[q] = "saved"
    BY <1>1, <1>t DEF Read, Go, TypeOK
  <2>4. (crossed => crossed') /\ UNCHANGED <<clock, seen, cache, passed, row, lost>>
    BY <1>1 DEF Read
  <2>5. RowVersion' = RowVersion
    BY <2>4 DEF RowVersion
  <2> QED BY <2>2, <2>3, <2>4, <2>5 DEF Keeps
<1>2. CASE Save(r)
  <2>1. Others(r) /\ ~Waiting(r) /\ ~Waiting(r)' /\ wire' = wire
    BY <1>2, <1>t, SaveWrites DEF Save, Go, Others, Waiting, TypeOK, history
  <2>2. Tellings' = Tellings
    BY <2>1, SameToTell
  <2>3. pc'[r] = "saved" /\ UNCHANGED <<clock, seen, cache, passed, crossed>>
    BY <1>2, <1>t DEF Save, Go, TypeOK, history
  <2>4. ~crossed => copy[r] = row /\ row # None
    BY <1>2 DEF RowInv, InStep, Save, Go, Holds
  <2>5. ~crossed' => RowVersion' = RowVersion
    BY <1>2, <1>t, <2>3, <2>4, SaveWrites, Sorts DEF RowVersion
  <2> QED BY <2>2, <2>3, <2>5 DEF Keeps
<1>3. CASE Dispatch(r)
  <2>1. Others(r) /\ Waiting(r) /\ ~Waiting(r)'
    BY <1>3, <1>t DEF Dispatch, End, Others, Waiting, TypeOK
  <2>2. UNCHANGED <<row, clock, seen, cache, passed, crossed>>
    BY <1>3 DEF Dispatch
  <2>3. \A q \in Requests : pc[q] = "saved" => pc'[q] = "saved"
    BY <1>3, <1>t DEF Dispatch, End, TypeOK
  <2>4. RowVersion' = RowVersion
    BY <2>2 DEF RowVersion
  <2>5. CASE conn
    <3>1. wire' = wire \cup {Told(r)} /\ lost' = lost
      <4>1. CASE r \in Deletes
        BY <1>3, <2>5, <4>1 DEF Dispatch, Send, Told
      <4>2. CASE r \notin Deletes
        BY <1>3, <2>5, <4>2 DEF Dispatch, Send, Told
      <4> QED BY <4>1, <4>2
    <3>2. Tellings' = Tellings
      BY <2>1, <3>1, NoMoreToTell
    <3> QED BY <2>2, <2>3, <2>4, <3>1, <3>2 DEF Keeps
  <2>6. CASE ~conn
    <3>1. wire' = wire /\ lost'
      BY <1>3, <2>6 DEF Dispatch, Send
    <3>2. Tellings' \subseteq Tellings
      BY <2>1, <3>1, NoMoreToTell
    <3> QED BY <2>2, <2>4, <3>1, <3>2 DEF Keeps
  <2> QED BY <2>5, <2>6
<1>4. CASE Fail(r)
  <2>1. Others(r) /\ ~Waiting(r)' /\ wire' = wire
    BY <1>4, <1>t DEF Fail, End, Others, Waiting, TypeOK
  <2>2. UNCHANGED <<row, clock, seen, cache, passed, crossed>>
    BY <1>4 DEF Fail
  <2>3. RowVersion' = RowVersion
    BY <2>2 DEF RowVersion
  <2>4. Tellings' \subseteq Tellings
    BY <2>1, NoMoreToTell
  <2>5. CASE pc[r] = "read"
    <3>1. lost' = lost
      BY <1>4, <1>t, <2>5 DEF Fail, TypeOK
    <3>2. Tellings' = Tellings
      BY <2>1, <2>5, SameToTell DEF Waiting
    <3>3. \A q \in Requests : pc[q] = "saved" => pc'[q] = "saved"
      BY <1>4, <1>t, <2>5 DEF Fail, End, TypeOK
    <3> QED BY <2>2, <2>3, <3>1, <3>2, <3>3 DEF Keeps
  <2>6. CASE pc[r] # "read"
    <3>1. lost'
      BY <1>4, <2>6 DEF Fail
    <3> QED BY <2>2, <2>3, <2>4, <3>1 DEF Keeps
  <2> QED BY <2>5, <2>6
<1> QED BY <1>1, <1>2, <1>3, <1>4

\* What the session loses.
LEMMA SessionKeeps ==
    ASSUME RowInv, Connect \/ Disconnect \/ \E m \in wire : Lose(m)
    PROVE  Keeps
<1>1. UNCHANGED <<row, pc, copy, stamp, clock, seen, cache, passed, crossed>>
  BY DEF Connect, Disconnect, Lose, progress, history
<1>2. wire' \subseteq wire /\ (lost' \/ (wire' = wire /\ lost' = lost))
  BY DEF Connect, Disconnect, Lose, history
<1>3. RowVersion' = RowVersion
  BY <1>1 DEF RowVersion
<1>4. Tellings' \subseteq Tellings /\ (wire' = wire => Tellings' = Tellings)
  BY <1>1, <1>2, WireToTell DEF Tellings
<1> QED BY <1>1, <1>2, <1>3, <1>4 DEF Keeps

LEMMA ReceiveTakes ==
    ASSUME RowInv, Distinct, NEW m \in wire, Receive(m) PROVE Takes(m)
<1>1. UNCHANGED <<pc, copy, stamp>> /\ wire' = wire \ {m}
  BY DEF Receive, progress
<1>2. \A r \in Requests : Waiting(r) => Told(r) # m
  BY DEF Distinct, Told
<1> HIDE DEF Told
<1>3. Tellings' = Tellings \ {m}
  BY <1>1, <1>2, WireToTell DEF Tellings
<1> QED BY <1>3 DEF Takes

LEMMA StepCases ==
    ASSUME RowInv, Distinct, Next
    PROVE  (\E y : Adds(y)) \/ Keeps \/ (\E m \in wire : Takes(m))
BY InsertAdds, BumpAdds, DeleteAdds, SnapshotAdds, RequestKeeps, SessionKeeps, ReceiveTakes
   DEF Next

-----------------------------------------------------------------------------
(* The daemon is current *)

\* A message on the wire is told apart from every other.
LEMMA Apart ==
    ASSUME Distinct, NEW m \in wire, NEW x \in Tellings, x # m PROVE x.at # m.at
<1>1. CASE x \in wire
  BY <1>1 DEF Distinct
<1>2. ASSUME NEW r \in Requests, Waiting(r), x = Told(r) PROVE x.at # m.at
  <2>1. x.at = stamp[r]
    BY <1>2 DEF Told
  <2> QED BY <1>2, <2>1 DEF Distinct
<1> QED BY <1>1, <1>2 DEF Tellings

\* Numbers stay distinct: a new one is above all there are.
LEMMA DistinctStep == ASSUME RowInv, Distinct, Next PROVE Distinct'
<1> DEFINE Bounded == seen' <= clock' /\ \A x \in Tellings' : x.at <= clock' /\ x.at # seen'
           Apart2 == /\ \A m, n \in wire' : m.at = n.at => m = n
                     /\ \A m \in wire', r \in Requests : Waiting(r)' => m.at # stamp'[r]
                     /\ \A r, q \in Requests :
                           Waiting(r)' /\ Waiting(q)' /\ stamp'[r] = stamp'[q] => r = q
<1>t. TypeOK /\ Shown /\ seen \in Nat /\ clock \in Nat /\ stamp \in [Requests -> Nat]
  BY DEF RowInv, TypeOK
<1>m. \A x \in Tellings : x.at \in Nat
  BY TellingsType DEF Messages
<1>d. seen <= clock /\ \A x \in Tellings : x.at <= clock /\ x.at # seen
  BY DEF Distinct
<1>a. /\ \A m, n \in wire : m.at = n.at => m = n
      /\ \A m \in wire, r \in Requests : Waiting(r) => m.at # stamp[r]
      /\ \A r, q \in Requests : Waiting(r) /\ Waiting(q) /\ stamp[r] = stamp[q] => r = q
  BY DEF Distinct
<1>w. \A m \in wire : m.at \in Nat /\ m.at <= clock
  BY <1>d, <1>m DEF Tellings
<1>s. \A r \in Requests : Waiting(r) => stamp[r] \in Nat /\ stamp[r] <= clock
  <2>1. \A r \in Requests : Waiting(r) => Told(r) \in Tellings /\ Told(r).at = stamp[r]
    BY DEF Tellings, Told
  <2> QED BY <1>d, <1>t, <2>1
<1>1. Bounded
  <2>1. ASSUME NEW y, Adds(y) PROVE Bounded
    BY <2>1, <1>t, <1>m, <1>d DEF Adds
  <2>2. CASE Keeps
    BY <2>2, <1>d DEF Keeps
  <2>3. ASSUME NEW m \in wire, Takes(m) PROVE Bounded
    <3>1. Tellings' = Tellings \ {m} /\ clock' = clock
          /\ seen' = IF m.at > seen THEN m.at ELSE seen
      BY <2>3 DEF Takes, Receive
    <3>2. \A x \in Tellings' : x.at # m.at /\ x.at <= clock /\ x.at # seen
      BY <1>d, <3>1, Apart
    <3> QED BY <1>t, <1>w, <1>d, <3>1, <3>2
  <2> QED BY <2>1, <2>2, <2>3, StepCases
<1>2. Apart2
  <2>1. ASSUME NEW r \in Requests, Others(r), wire' = wire, stamp'[r] = clock + 1 PROVE Apart2
    <3>1. \A q \in Requests : q # r => (Waiting(q)' <=> Waiting(q)) /\ stamp'[q] = stamp[q]
      BY <2>1, OthersTell DEF Others
    <3> QED BY <1>t, <1>a, <1>w, <1>s, <2>1, <3>1
  <2>2. ASSUME NEW r \in Requests, Others(r), ~Waiting(r)',
               wire' = wire \/ (Waiting(r) /\ wire' = wire \cup {Told(r)})
        PROVE  Apart2
    <3>1. \A q \in Requests : q # r => (Waiting(q)' <=> Waiting(q)) /\ stamp'[q] = stamp[q]
      BY <2>2, OthersTell DEF Others
    <3>2. Told(r).at = stamp[r]
      BY DEF Told
    <3>3. CASE wire' = wire
      BY <1>a, <2>2, <3>1, <3>3
    <3>4. CASE Waiting(r) /\ wire' = wire \cup {Told(r)}
      <4>1. \A m, n \in wire' : m.at = n.at => m = n
        BY <1>a, <3>2, <3>4
      <4>2. \A m \in wire', q \in Requests : Waiting(q)' => m.at # stamp'[q]
        BY <1>a, <2>2, <3>1, <3>2, <3>4
      <4>3. \A p, q \in Requests : Waiting(p)' /\ Waiting(q)' /\ stamp'[p] = stamp'[q] => p = q
        BY <1>a, <2>2, <3>1
      <4> QED BY <4>1, <4>2, <4>3
    <3> QED BY <2>2, <3>3, <3>4
  <2>3. ASSUME UNCHANGED <<pc, copy, stamp>>, wire' \subseteq wire PROVE Apart2
    BY <1>a, <2>3 DEF Waiting
  <2>4. CASE Snapshot
    <3>1. UNCHANGED <<pc, copy, stamp>>
      BY <2>4 DEF Snapshot, progress
    <3>2. \E y : wire' = wire \cup {y} /\ y.at = clock + 1
      <4> DEFINE b == BuildSnapshot
                 y == [kind |-> "snapshot", val |-> IF b = None THEN None ELSE b.val,
                       ver |-> IF b = None THEN 0 ELSE b.ver, at |-> clock + 1]
      <4>1. wire' = wire \cup {y} /\ y.at = clock + 1
        BY <2>4 DEF Snapshot
      <4> QED BY <4>1
    <3>3. \A q \in Requests : (Waiting(q)' <=> Waiting(q)) /\ stamp'[q] = stamp[q]
      BY <3>1 DEF Waiting
    <3> QED BY <1>t, <1>a, <1>w, <1>s, <3>2, <3>3
  <2>5. CASE Insert
    BY <2>1, <2>5, <1>t, Sorts, InsertWrites DEF Others, Insert, Go, TypeOK
  <2>6. ASSUME NEW r \in Requests, BumpVersion(r) PROVE Apart2
    <3>1. Others(r)
      BY <2>6, <1>t, BumpWrites DEF Others, BumpVersion, Go, TypeOK
    <3>2. wire' = wire /\ stamp'[r] = clock + 1
      BY <2>6, <1>t DEF BumpVersion, Written
    <3> QED BY <2>1, <3>1, <3>2
  <2>7. ASSUME NEW r \in Requests, SoftDelete(r) PROVE Apart2
    <3>1. Others(r)
      BY <2>7, <1>t, DeleteWrites DEF Others, SoftDelete, Go, TypeOK
    <3>2. wire' = wire /\ stamp'[r] = clock + 1
      BY <2>7, <1>t DEF SoftDelete, Written
    <3> QED BY <2>1, <3>1, <3>2
  <2>8. ASSUME NEW r \in Requests, Read(r) \/ Fail(r) PROVE Apart2
    BY <2>2, <2>8, <1>t DEF Read, Fail, End, Go, Others, Waiting, TypeOK
  <2>9. ASSUME NEW r \in Requests, Save(r) PROVE Apart2
    BY <2>2, <2>9, <1>t, SaveWrites DEF Save, Go, Others, Waiting, TypeOK, history
  <2>10. ASSUME NEW r \in Requests, Dispatch(r) PROVE Apart2
    <3>1. Others(r) /\ Waiting(r) /\ ~Waiting(r)'
      BY <2>10, <1>t DEF Dispatch, End, Others, Waiting, TypeOK
    <3>2. wire' = wire \/ wire' = wire \cup {Told(r)}
      <4>1. CASE r \in Deletes
        BY <2>10, <4>1 DEF Dispatch, Send, Told
      <4>2. CASE r \notin Deletes
        BY <2>10, <4>2 DEF Dispatch, Send, Told
      <4> QED BY <4>1, <4>2
    <3> QED BY <2>2, <3>1, <3>2
  <2>11. CASE Connect \/ Disconnect \/ \E m \in wire : Lose(m) \/ Receive(m)
    BY <2>3, <2>11 DEF Connect, Disconnect, Lose, Receive, progress, history
  <2> QED BY <2>4, <2>5, <2>6, <2>7, <2>8, <2>9, <2>10, <2>11 DEF Next
<1> QED BY <1>1, <1>2 DEF Distinct

\* The numbers that the order of messages is about.
LEMMA Numbers ==
    ASSUME RowInv
    PROVE  /\ seen \in Nat /\ clock \in Nat /\ RowVersion \in Nat
           /\ cache # None => cache \in Copies /\ cache.ver \in Nat
           /\ \A x \in Tellings : x.at \in Nat /\ x.ver \in Nat
BY TellingsType DEF RowInv, TypeOK, RowVersion, Rows, Copies, Messages

\* What the daemon does with a message about a newer state: it applies it. An
\* older one it drops, or the step counts as an overtaking.
LEMMA Applies ==
    ASSUME RowInv, Distinct, CacheOrdered, ~crossed, NEW m \in wire, Receive(m), ~passed'
    PROVE  /\ ~passed
           /\ m.at > seen => /\ seen' = m.at
                             /\ Runs(cache') = Effect(m)
                             /\ cache' # None => cache'.ver = m.ver /\ m.val # None
           /\ m.at < seen => seen' = seen /\ cache' = cache
<1>t. m \in Tellings /\ m \in Messages /\ m.at \in Nat /\ m.ver \in Nat /\ m.at # seen
  BY TellingsType DEF Tellings, Messages, Distinct
<1>n. seen \in Nat /\ (cache # None => cache.ver \in Nat)
  BY Numbers
<1>p. ~passed /\ (m.at < seen => m.kind # "snapshot" /\ cache # None)
  BY DEF Receive
<1>1. CASE m.at < seen
  <2>1. m.ver <= cache.ver
    BY <1>t, <1>p, <1>1 DEF CacheOrdered
  <2>2. cache' = cache
    <3>1. m.kind # "snapshot" /\ cache # None /\ m.ver <= cache.ver
      BY <1>p, <1>1, <2>1
    <3> QED BY <3>1 DEF Receive
  <2>3. seen' = seen /\ ~(m.at > seen)
    BY <1>1, <1>t, <1>n DEF Receive
  <2> QED BY <1>p, <2>2, <2>3
<1>2. CASE m.at > seen
  <2>1. seen' = m.at
    BY <1>2 DEF Receive
  <2>2. m.kind # "snapshot" /\ cache # None => ~(m.ver <= cache.ver)
    BY <1>t, <1>n, <1>p, <1>2 DEF CacheOrdered
  <2>3. CASE m.val = None
    <3>1. cache' = None
      BY <2>2, <2>3 DEF Receive
    <3>2. Runs(cache') = None /\ Effect(m) = None
      BY <2>3, <3>1 DEF Runs, Effect
    <3> QED BY <1>p, <1>2, <1>t, <1>n, <2>1, <3>1, <3>2
  <2>4. CASE m.val # None
    <3>1. m.val \in Contents
      BY <1>t, <2>4 DEF Messages
    <3>2. cache' = [val |-> m.val, ver |-> m.ver]
      BY <2>2, <2>4 DEF Receive
    <3>3. cache' # None /\ cache'.ver = m.ver /\ cache'.val = m.val
      BY <1>t, <3>1, <3>2, Sorts DEF Copies
    <3>4. Runs(cache') = Effect(m)
      BY <3>3 DEF Runs, Effect
    <3> QED BY <1>p, <1>2, <1>t, <1>n, <2>1, <2>4, <3>3, <3>4
  <2> QED BY <2>3, <2>4
<1> QED BY <1>t, <1>n, <1>1, <1>2

LEMMA OrderedStep == ASSUME RowInv, Distinct, Ordered, Next PROVE Ordered'
<1>n. /\ seen \in Nat /\ clock \in Nat /\ RowVersion \in Nat
      /\ cache # None => cache.ver \in Nat
      /\ \A x \in Tellings : x.at \in Nat /\ x.ver \in Nat
  BY Numbers
<1>d. \A x \in Tellings : x.at <= clock
  BY DEF Distinct
<1> SUFFICES ASSUME ~crossed'
             PROVE  /\ \A x \in Tellings' : x.ver <= RowVersion'
                    /\ cache' # None => cache'.ver <= RowVersion'
                    /\ \A x, y \in Tellings' : x.at < y.at =>
                          /\ y.kind # "snapshot" => x.ver < y.ver
                          /\ y.kind = "snapshot" /\ y.val # None => x.ver <= y.ver
  BY DEF Ordered
<1> DEFINE Goal == /\ \A x \in Tellings' : x.ver <= RowVersion'
                   /\ cache' # None => cache'.ver <= RowVersion'
                   /\ \A x, y \in Tellings' : x.at < y.at =>
                         /\ y.kind # "snapshot" => x.ver < y.ver
                         /\ y.kind = "snapshot" /\ y.val # None => x.ver <= y.ver
           Was == /\ \A x \in Tellings : x.ver <= RowVersion
                  /\ cache # None => cache.ver <= RowVersion
                  /\ \A x, y \in Tellings : x.at < y.at =>
                        /\ y.kind # "snapshot" => x.ver < y.ver
                        /\ y.kind = "snapshot" /\ y.val # None => x.ver <= y.ver
<1>r. RowVersion' \in Nat
  <2>1. RowInv'
    BY RowStep
  <2> QED BY <2>1, Numbers DEF RowVersion, RowInv, TypeOK, Rows
<1> HIDE DEF RowVersion, Tellings
<1>1. ASSUME NEW y, Adds(y) PROVE Goal
  <2>1. ~crossed /\ Was
    BY <1>1 DEF Adds, Ordered
  <2>2. /\ Tellings' = Tellings \cup {y} /\ y \in Messages /\ y.at = clock + 1 /\ cache' = cache
        /\ RowVersion <= RowVersion' /\ y.ver <= RowVersion'
        /\ y.kind # "snapshot" => RowVersion < y.ver
        /\ y.kind = "snapshot" /\ y.val # None => y.ver = RowVersion
    BY <1>1, <2>1 DEF Adds
  <2>3. y.at \in Nat /\ y.ver \in Nat
    BY <2>2 DEF Messages
  <2>4. \A x \in Tellings' : x.ver <= RowVersion'
    BY <1>n, <1>r, <2>1, <2>2, <2>3
  <2>5. cache' # None => cache'.ver <= RowVersion'
    BY <1>n, <1>r, <2>1, <2>2
  <2>6. ASSUME NEW x \in Tellings', NEW z \in Tellings', x.at < z.at
        PROVE  /\ z.kind # "snapshot" => x.ver < z.ver
               /\ z.kind = "snapshot" /\ z.val # None => x.ver <= z.ver
    <3>1. x \in Tellings
      BY <1>n, <1>d, <2>2, <2>3, <2>6
    <3>2. CASE z \in Tellings
      BY <2>1, <2>6, <3>1, <3>2
    <3>3. CASE z = y
      BY <1>n, <2>1, <2>2, <2>3, <3>1, <3>3
    <3> QED BY <2>2, <3>2, <3>3
  <2> QED BY <2>4, <2>5, <2>6
<1>2. ASSUME Keeps PROVE Goal
  <2>1. ~crossed /\ Was
    BY <1>2 DEF Keeps, Ordered
  <2>2. Tellings' \subseteq Tellings /\ RowVersion' = RowVersion /\ cache' = cache
    BY <1>2 DEF Keeps
  <2> QED BY <2>1, <2>2
<1>3. ASSUME NEW m \in wire, Takes(m) PROVE Goal
  <2>1. ~crossed /\ Was
    BY <1>3 DEF Takes, Receive, Ordered
  <2>2. Tellings' \subseteq Tellings /\ RowVersion' = RowVersion
    BY <1>3 DEF Takes, Receive, RowVersion
  <2>3. m \in Tellings
    BY DEF Tellings
  <2>4. cache' = None \/ cache' = cache \/ cache'.ver = m.ver
    BY <1>3 DEF Takes, Receive
  <2> QED BY <2>1, <2>2, <2>3, <2>4
<1> QED BY <1>1, <1>2, <1>3, StepCases

LEMMA CacheOrderedStep ==
    ASSUME RowInv, Distinct, Ordered, CacheOrdered, Next PROVE CacheOrdered'
<1>n. /\ seen \in Nat /\ clock \in Nat /\ RowVersion \in Nat
      /\ cache # None => cache.ver \in Nat
      /\ \A x \in Tellings : x.at \in Nat /\ x.ver \in Nat
  BY Numbers
<1> SUFFICES ASSUME ~crossed', ~passed', cache' # None, NEW x \in Tellings', x.kind # "snapshot"
             PROVE  (x.at < seen' => x.ver <= cache'.ver) /\ (x.at > seen' => x.ver > cache'.ver)
  BY DEF CacheOrdered
<1> DEFINE Goal == (x.at < seen' => x.ver <= cache'.ver) /\ (x.at > seen' => x.ver > cache'.ver)
<1> HIDE DEF RowVersion, Tellings
<1>1. ASSUME NEW y, Adds(y) PROVE Goal
  <2>1. /\ Tellings' = Tellings \cup {y} /\ UNCHANGED <<seen, cache, passed, crossed>>
        /\ y.at = clock + 1 /\ (y.kind # "snapshot" => RowVersion < y.ver)
    BY <1>1 DEF Adds
  <2>2. CASE x \in Tellings
    BY <2>1, <2>2 DEF CacheOrdered
  <2>3. CASE x = y
    <3>1. cache.ver <= RowVersion /\ seen <= clock
      BY <2>1 DEF Ordered, Distinct
    <3>2. y.ver \in Nat
      BY <1>1 DEF Adds, Messages
    <3>3. RowVersion < x.ver /\ ~(x.at < seen)
      BY <1>n, <2>1, <2>3, <3>1
    <3> QED BY <1>n, <2>1, <2>3, <3>1, <3>2, <3>3
  <2> QED BY <2>1, <2>2, <2>3
<1>2. ASSUME Keeps PROVE Goal
  <2>1. x \in Tellings /\ UNCHANGED <<seen, cache, passed>> /\ ~crossed
    BY <1>2 DEF Keeps
  <2> QED BY <2>1 DEF CacheOrdered
<1>3. ASSUME NEW m \in wire, Takes(m) PROVE Goal
  <2>1. Receive(m) /\ ~crossed /\ x \in Tellings /\ x # m /\ m \in Tellings
    BY <1>3 DEF Takes, Receive, Tellings
  <2>2. x.at # m.at /\ m.at # seen
    BY <2>1, Apart DEF Distinct
  <2>3. CASE m.at < seen
    <3>1. ~passed /\ seen' = seen /\ cache' = cache
      BY <2>1, <2>3, Applies
    <3> QED BY <2>1, <3>1 DEF CacheOrdered
  <2>4. CASE m.at > seen
    <3>1. seen' = m.at /\ cache'.ver = m.ver /\ m.val # None
      BY <2>1, <2>4, Applies
    <3>2. x.at < m.at => x.ver <= m.ver
      BY <1>n, <2>1, <3>1 DEF Ordered
    <3>3. x.at > m.at => x.ver > m.ver
      BY <1>n, <2>1 DEF Ordered
    <3> QED BY <3>1, <3>2, <3>3
  <2> QED BY <1>n, <2>1, <2>2, <2>3, <2>4
<1> QED BY <1>1, <1>2, <1>3, StepCases

LEMMA LatestStep ==
    ASSUME RowInv, Distinct, Ordered, CacheOrdered, Latest, Next PROVE Latest'
<1>n. /\ seen \in Nat /\ clock \in Nat
      /\ \A x \in Tellings : x.at \in Nat
  BY Numbers
<1>d. seen <= clock /\ \A x \in Tellings : x.at <= clock
  BY DEF Distinct
<1> DEFINE First == \E y \in Tellings' :
                       y.at > seen' /\ (\A z \in Tellings' : z.at <= y.at) /\ Effect(y) = Wanted'
           Second == (\A z \in Tellings' : z.at < seen') /\ Runs(cache') = Wanted'
<1> SUFFICES ASSUME ~crossed', ~passed', ~lost', \A r \in Requests : pc'[r] # "saved"
             PROVE  First \/ Second
  BY DEF Latest, Effect, Runs
<1> HIDE DEF Tellings
<1>1. ASSUME NEW y, Adds(y) PROVE First
  <2>1. /\ Tellings' = Tellings \cup {y} /\ seen' = seen /\ y.at = clock + 1
        /\ Effect(y) = Wanted'
    BY <1>1 DEF Adds
  <2>2. y.at > seen' /\ \A z \in Tellings' : z.at <= y.at
    BY <1>n, <1>d, <2>1
  <2> QED BY <2>1, <2>2
<1>2. ASSUME Keeps PROVE First \/ Second
  <2>1. /\ ~crossed /\ Tellings' = Tellings /\ UNCHANGED <<row, lost, seen, cache, passed>>
        /\ \A r \in Requests : pc[r] # "saved"
    BY <1>2 DEF Keeps
  <2>2. Wanted' = Wanted
    BY <2>1 DEF Wanted, Runs
  <2>3. \/ \E y \in Tellings : y.at > seen /\ (\A z \in Tellings : z.at <= y.at) /\ Effect(y) = Wanted
        \/ (\A z \in Tellings : z.at < seen) /\ Runs(cache) = Wanted
    BY <2>1 DEF Latest
  <2> HIDE DEF Effect, Wanted, Runs
  <2> QED BY <2>1, <2>2, <2>3
<1>3. ASSUME NEW m \in wire, Takes(m) PROVE First \/ Second
  <2>1. /\ Receive(m) /\ ~crossed /\ ~lost /\ m \in Tellings /\ Tellings' = Tellings \ {m}
        /\ \A r \in Requests : pc[r] # "saved"
    BY <1>3 DEF Takes, Receive, Tellings, progress
  <2>2. m.at # seen /\ \A x \in Tellings' : x.at # m.at
    BY <2>1, Apart DEF Distinct
  <2>3. Wanted' = Wanted
    BY <2>1 DEF Wanted, Runs, Receive
  <2>4. /\ ~passed
        /\ m.at > seen => seen' = m.at /\ Runs(cache') = Effect(m)
        /\ m.at < seen => seen' = seen /\ cache' = cache
    BY <2>1, Applies
  <2>5. \/ \E y \in Tellings : y.at > seen /\ (\A z \in Tellings : z.at <= y.at) /\ Effect(y) = Wanted
        \/ (\A z \in Tellings : z.at < seen) /\ Runs(cache) = Wanted
    BY <2>1, <2>4 DEF Latest
  <2> HIDE DEF Effect, Wanted, Runs
  <2>6. ASSUME NEW y \in Tellings, y.at > seen, \A z \in Tellings : z.at <= y.at, Effect(y) = Wanted
        PROVE  First \/ Second
    <3>1. CASE y = m
      <4>1. seen' = m.at /\ Runs(cache') = Wanted'
        BY <2>3, <2>4, <2>6, <3>1
      <4>2. \A z \in Tellings' : z.at < seen'
        BY <1>n, <2>1, <2>2, <2>6, <3>1, <4>1
      <4> QED BY <4>1, <4>2
    <3>2. CASE y # m
      <4>1. y \in Tellings' /\ m.at < y.at
        BY <1>n, <2>1, <2>2, <2>6, <3>2
      <4>2. seen' < y.at
        BY <1>n, <2>1, <2>2, <2>4, <2>6, <4>1
      <4>3. \A z \in Tellings' : z.at <= y.at
        BY <2>1, <2>6
      <4> QED BY <1>n, <2>3, <2>6, <4>1, <4>2, <4>3
    <3> QED BY <3>1, <3>2
  <2>7. CASE (\A z \in Tellings : z.at < seen) /\ Runs(cache) = Wanted
    BY <2>1, <2>3, <2>4, <2>7
  <2> QED BY <2>5, <2>6, <2>7
<1> QED BY <1>1, <1>2, <1>3, StepCases

\* Init: nothing is told, and the daemon has nothing of a row that is not there.
LEMMA InitInv == Init => Inv
<1> SUFFICES ASSUME Init PROVE Inv
  OBVIOUS
<1>1. \A r \in Requests : ~Waiting(r)
  BY DEF Init, Waiting
<1>2. Tellings = {}
  BY <1>1 DEF Init, Tellings
<1>3. Distinct
  BY <1>1, <1>2 DEF Init, Distinct
<1>4. Ordered /\ CacheOrdered
  BY <1>2 DEF Init, Ordered, CacheOrdered
<1>5. Latest
  BY <1>2 DEF Init, Latest, Runs, Wanted
<1> QED BY <1>3, <1>4, <1>5, InitRow DEF Inv

LEMMA InvStep == ASSUME Inv, [Next]_vars PROVE Inv'
<1>1. CASE Next
  BY <1>1, RowStep, DistinctStep, OrderedStep, CacheOrderedStep, LatestStep DEF Inv
<1>2. CASE UNCHANGED vars
  <2>1. UNCHANGED <<row, pc, copy, conn, wire, cache, clock, stamp, seen, crossed, lost, passed>>
    BY <1>2 DEF vars, progress, history
  <2>2. RowInv'
    BY <1>2, RowStep DEF Inv
  <2>3. Tellings' = Tellings /\ RowVersion' = RowVersion /\ Wanted' = Wanted
        /\ Runs(cache)' = Runs(cache) /\ \A r \in Requests : Waiting(r)' <=> Waiting(r)
    BY <2>1 DEF Tellings, RowVersion, Wanted, Runs, Waiting, Told
  <2> HIDE DEF Tellings, RowVersion, Wanted, Runs, Waiting
  <2>4. Distinct'
    BY <2>1, <2>3 DEF Inv, Distinct
  <2>5. Ordered' /\ CacheOrdered'
    BY <2>1, <2>3 DEF Inv, Ordered, CacheOrdered
  <2>6. Latest'
    BY <2>1, <2>3 DEF Inv, Latest, Effect
  <2> QED BY <2>2, <2>4, <2>5, <2>6 DEF Inv
<1> QED BY <1>1, <1>2

\* DaemonIsCurrent: once nothing is on its way the daemon runs the schedule as
\* the row has it, in whatever order the messages came, unless requests
\* overlapped, a delta was lost since the last snapshot or a message was
\* overtaken where versions cannot tell.
THEOREM DaemonFollows == Spec => []DaemonIsCurrent
<1>1. Inv => DaemonIsCurrent
  <2> SUFFICES ASSUME Inv, Quiet, ~crossed, ~lost, ~passed PROVE Runs(cache) = Wanted
    BY DEF DaemonIsCurrent
  <2>1. Tellings = {}
    BY DEF Quiet, Tellings, Waiting
  <2>2. \A r \in Requests : pc[r] # "saved"
    BY DEF Quiet
  <2> QED BY <2>1, <2>2 DEF Inv, Latest
<1> QED BY <1>1, InitInv, InvStep, PTL DEF Spec

=============================================================================
