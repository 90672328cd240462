------------------------------- MODULE Upload -------------------------------
(***************************************************************************)
(* One chunked upload (internal/upload): the client creates a session,     *)
(* puts its chunks, and completes it; the panel then assembles the file,   *)
(* has the daemon fetch it and cleans up.  The session is a handful of     *)
(* files in a storage that all instances share.  Nothing locks it: calls   *)
(* of WriteChunk, Complete and Abort, the janitor and the clean-up of an   *)
(* earlier Complete work on the same files side by side, and any of them   *)
(* may meet a storage error or be cut off by a crash.                      *)
(*                                                                         *)
(* The storage is an object store (S3FileManager; a file appears whole) or *)
(* a directory (LocalFileManager; a file is truncated and filled in        *)
(* place).  What the daemon does with its task is external code.           *)
(***************************************************************************)
EXTENDS Naturals, Sequences, FiniteSets

CONSTANTS
    TotalChunks,    \* chunks of the session
    Writers,        \* calls of WriteChunk
    Completes,      \* calls of Complete
    Removals,       \* calls of Abort and sweeps of the janitor
    Stores,         \* the kinds of storage considered
    MaxFaults,      \* bound on storage errors and crashes
    None

ASSUME UploadAssumption ==
    /\ TotalChunks \in Nat \ {0}
    /\ MaxFaults \in Nat
    /\ Stores \subseteq {"object", "local"}
    /\ Writers \cap Completes = {} /\ Removals \cap Completes = {}
    /\ None \notin {"part", "good", "bad"}
    /\ None \notin [1..TotalChunks -> {"part", "good", "bad"}]

Chunks == 1..TotalChunks
\* What a chunk holds: the announced bytes, others of the same length, or an
\* incomplete or overlong write.
Content == {"part", "good", "bad"}
\* The files of the session, numbered in the order of their names (chunks/...,
\* data, done, upload.json).
DataFile == TotalChunks + 1
DoneFile == TotalChunks + 2
MetaFile == TotalChunks + 3
Files == 1..MetaFile
Removers == Removals \cup Completes

VARIABLES
    store,      \* the kind of storage; the same all along
    age,        \* of the session: not created, live, at ExpiresAt, past it
    meta, done, \* upload.json and done exist
    chunk,      \* chunk[i]: the file of chunk i
    data,       \* the assembled file, chunk by chunk
    fd,         \* calls whose open file is the one its path names (local)
    wpc, index, \* WriteChunk: where it is, its chunk
    pc, got,    \* Complete: where it is, what it has read
    task,       \* the daemon's upload task of a Complete: sent with or without
                \* the checksum, then carried out
    node,       \* the file on the node
    todo,       \* what a DeleteByPrefix still has to delete
    faults,
    \* History, read by the properties only:
    acked,      \* chunks last answered with success
    clash,      \* chunks that two calls of WriteChunk wrote side by side
    unchecked,  \* a task was sent without a checksum
    mixed,      \* a Complete assembled while the task of another was open
    raced       \* a removal went on beside a WriteChunk or a Complete

session == <<age, meta, done>>
contents == <<chunk, data, fd>>
writing == <<wpc, index>>
completing == <<pc, got>>
remote == <<task, node>>
history == <<acked, clash, unchecked, mixed, raced>>
vars == <<store, session, contents, writing, completing, remote, todo, faults,
          history>>

WriteSteps == {"idle", "checked", "open", "undo", "ended"}
CompleteSteps == {"idle", "checked", "reading", "stored", "assembled",
                  "sent", "delivered", "undo", "ok", "failed"}
Ended == {"idle", "ended", "ok", "failed"}

TypeOK ==
    /\ store \in Stores
    /\ age \in {"new", "live", "due", "expired"}
    /\ meta \in BOOLEAN /\ done \in BOOLEAN
    /\ chunk \in [Chunks -> Content \cup {None}]
    /\ data \in [Chunks -> Content] \cup {None}
    /\ fd \subseteq Writers \cup Completes
    /\ wpc \in [Writers -> WriteSteps]
    /\ index \in [Writers -> Chunks]
    /\ pc \in [Completes -> CompleteSteps]
    /\ got \in [Completes -> Seq(Content)]
    /\ task \in [Completes -> {"none", "direct", "relayed", "wrote", "answered",
                                 "refused"}]
    /\ node \in {"good", "bad", None}
    /\ todo \in [Removers -> SUBSET Files]
    /\ faults \in 0..MaxFaults
    /\ acked \subseteq Chunks
    /\ clash \subseteq Chunks
    /\ unchecked \in BOOLEAN /\ mixed \in BOOLEAN /\ raced \in BOOLEAN

Init ==
    /\ store \in Stores
    /\ age = "new"
    /\ meta = FALSE /\ done = FALSE
    /\ chunk = [i \in Chunks |-> None]
    /\ data = None
    /\ fd = {}
    /\ wpc = [w \in Writers |-> "idle"]
    /\ index = [w \in Writers |-> 1]
    /\ pc = [c \in Completes |-> "idle"]
    /\ got = [c \in Completes |-> <<>>]
    /\ task = [c \in Completes |-> "none"]
    /\ node = None
    /\ todo = [r \in Removers |-> {}]
    /\ faults = 0
    /\ acked = {}
    /\ clash = {}
    /\ unchecked = FALSE
    /\ mixed = FALSE
    /\ raced = FALSE

-----------------------------------------------------------------------------
Fault == faults < MaxFaults /\ faults' = faults + 1

\* load and verifyAccess: upload.json is there and ExpiresAt is not past.
Loads == meta /\ age \in {"live", "due"}

\* Calls that may still add a file to the session.
Busy == (\E w \in Writers : wpc[w] \notin Ended) \/ (\E c \in Completes : pc[c] \notin Ended)
Removing == \E r \in Removals : todo[r] # {}

\* Create.
Create ==
    /\ age = "new"
    /\ age' = "live"
    /\ meta' = TRUE
    /\ UNCHANGED <<done, contents, writing, completing, remote, todo, faults,
                   history>>

\* The clock reaches ExpiresAt, and passes it.
Tick ==
    /\ \/ age = "live" /\ age' = "due"
       \/ age = "due" /\ age' = "expired"
    /\ UNCHANGED <<meta, done, contents, writing, completing, remote, todo,
                   faults, history>>

-----------------------------------------------------------------------------
(* WriteChunk *)

WGo(w, from, to) == wpc[w] = from /\ wpc' = [wpc EXCEPT ![w] = to]

\* load, verifyAccess, the check of done, and the index. A storage error looks
\* like a session, or a done, that is not there.
WriteBegin(w, i) ==
    /\ \/ WGo(w, "idle", "ended") /\ (IF Loads /\ ~done THEN Fault ELSE UNCHANGED faults)
       \/ WGo(w, "idle", "checked") /\ Loads /\ (IF done THEN Fault ELSE UNCHANGED faults)
    /\ index' = [index EXCEPT ![w] = i]
    /\ clash' = IF \E v \in Writers : wpc[v] \notin Ended /\ index[v] = i
                THEN clash \cup {i} ELSE clash
    /\ raced' = (raced \/ Removing)
    /\ UNCHANGED <<session, contents, completing, remote, todo, unchecked,
                   acked, mixed>>

\* LocalFileManager.WriteStream: open and truncate.
WriteOpen(w) ==
    /\ store = "local"
    /\ WGo(w, "checked", "open")
    /\ chunk' = [chunk EXCEPT ![index[w]] = "part"]
    /\ fd' = fd \cup {w}
    /\ UNCHANGED <<session, data, index, completing, remote, todo, faults,
                   history>>

\* The body is all in: an object appears whole, a file in place unless it was
\* deleted meanwhile; beside another writer the bytes of both may be in it.
Stored(w, v) ==
    LET i == index[w] IN
    IF store = "object"
    THEN wpc[w] = "checked" /\ chunk' = [chunk EXCEPT ![i] = v]
    ELSE /\ wpc[w] = "open"
         /\ IF w \in fd
            THEN \E u \in {v} \cup (IF i \in clash THEN {"part", "bad"} ELSE {}) :
                    chunk' = [chunk EXCEPT ![i] = u]
            ELSE UNCHANGED chunk

\* The size is the expected one.
WriteEnd(w, v) ==
    /\ Stored(w, v)
    /\ wpc' = [wpc EXCEPT ![w] = "ended"]
    /\ fd' = fd \ {w}
    /\ acked' = acked \cup {index[w]}
    /\ UNCHANGED <<session, data, index, completing, remote, todo, faults,
                   unchecked, clash, mixed, raced>>

\* It is not, and what came has been stored; or WriteStream ends with an error.
WriteWrong(w) ==
    /\ \/ Stored(w, "part")
       \/ wpc[w] \in {"checked", "open"} /\ UNCHANGED chunk
    /\ wpc' = [wpc EXCEPT ![w] = "undo"]
    /\ fd' = fd \ {w}
    /\ UNCHANGED <<session, data, index, completing, remote, todo, faults,
                   history>>

\* Delete of the chunk, whoever wrote it, then the error. Its own error is
\* ignored.
WriteUndo(w) ==
    LET i == index[w] IN
    /\ WGo(w, "undo", "ended")
    /\ \/ /\ chunk' = [chunk EXCEPT ![i] = None]
          /\ fd' = fd \ {v \in Writers : index[v] = i}
          /\ UNCHANGED faults
       \/ Fault /\ UNCHANGED <<chunk, fd>>
    /\ acked' = acked \ {i}
    /\ UNCHANGED <<session, data, index, completing, remote, todo, unchecked,
                   clash, mixed, raced>>

-----------------------------------------------------------------------------
(* Complete *)

Go(c, from, to) == pc[c] = from /\ pc' = [pc EXCEPT ![c] = to]

\* load, verifyAccess and the check of the node; an upload that is done is
\* answered with success.
CompleteBegin(c) ==
    /\ \/ Go(c, "idle", "failed") /\ (IF Loads THEN Fault ELSE UNCHANGED faults)
       \/ Go(c, "idle", "ok") /\ Loads /\ done /\ UNCHANGED faults
       \/ Go(c, "idle", "checked") /\ Loads /\ (IF done THEN Fault ELSE UNCHANGED faults)
    /\ raced' = (raced \/ Removing)
    /\ UNCHANGED <<session, contents, writing, got, remote, todo, acked,
                   clash, unchecked, mixed>>

\* receivedChunks; then WriteStream starts. A file is truncated.
CompleteList(c) ==
    /\ \/ /\ \E i \in Chunks : chunk[i] = None
          /\ Go(c, "checked", "failed")
          /\ UNCHANGED <<data, fd, mixed>>
       \/ /\ \A i \in Chunks : chunk[i] # None
          /\ Go(c, "checked", "reading")
          /\ IF store = "local"
             THEN data' = [i \in Chunks |-> "part"] /\ fd' = fd \cup {c}
             ELSE UNCHANGED <<data, fd>>
          /\ mixed' = (mixed \/ \E d \in Completes \ {c} :
                          pc[d] \in {"reading", "stored", "assembled", "sent", "undo"}
                             \/ task[d] \in {"direct", "relayed"})
    /\ UNCHANGED <<session, chunk, writing, got, remote, todo, faults,
                   unchecked, acked, clash, raced>>

\* lazyChunkReader: the next chunk is opened and read when its turn comes.
ReadChunk(c) ==
    LET i == Len(got[c]) + 1 IN
    /\ i \in Chunks
    /\ \/ /\ pc[c] = "reading" /\ chunk[i] # None
          /\ got' = [got EXCEPT ![c] = Append(@, chunk[i])]
          /\ data' = IF c \in fd THEN [data EXCEPT ![i] = chunk[i]] ELSE data
          /\ UNCHANGED <<pc, faults>>
       \/ /\ Go(c, "reading", "undo") /\ chunk[i] = None
          /\ UNCHANGED <<got, data, faults>>
       \/ /\ Go(c, "reading", "undo") /\ Fault
          /\ UNCHANGED <<got, data>>
    /\ fd' = IF pc'[c] = "undo" THEN fd \ {c} ELSE fd
    /\ UNCHANGED <<session, chunk, writing, remote, todo, history>>

\* WriteStream is over: only now is there an object.
StoreData(c) ==
    /\ Len(got[c]) = TotalChunks
    /\ Go(c, "reading", "stored")
    /\ data' = IF store = "object" THEN got[c] ELSE data
    /\ fd' = fd \ {c}
    /\ UNCHANGED <<session, chunk, writing, got, remote, todo, faults,
                   history>>

\* Mutant: the assembled checksum is not compared.
CheckSum_Trusting(c) ==
    /\ Go(c, "stored", "assembled")
    /\ got' = [got EXCEPT ![c] = <<>>]
    /\ UNCHANGED <<session, contents, writing, remote, todo, faults, history>>

\* The checksum is that of what was read, not of what data holds by now.
CheckSum(c) ==
    /\ pc[c] = "stored"
    /\ IF \A i \in Chunks : got[c][i] = "good"
       THEN Go(c, "stored", "assembled")
       ELSE Go(c, "stored", "undo")
    /\ got' = [got EXCEPT ![c] = <<>>]
    /\ UNCHANGED <<session, contents, writing, remote, todo, faults, history>>

\* UploadStreamPrepared: a daemon connected here gets the checksum with its
\* task; through another instance the task goes without one.
Dispatch(c) ==
    /\ \/ \E how \in {"direct", "relayed"} :
             /\ Go(c, "assembled", "sent")
             /\ task' = [task EXCEPT ![c] = how]
             /\ unchecked' = (unchecked \/ how = "relayed")
       \/ Go(c, "assembled", "undo") /\ UNCHANGED <<task, unchecked>>
    /\ UNCHANGED <<session, contents, writing, got, node, todo, faults, acked,
                   clash, mixed, raced>>

\* How a task ended matters while Complete waits for it.
Ends(c, how) == task' = [task EXCEPT ![c] = IF pc[c] = "sent" THEN how ELSE "none"]

\* The daemon takes the file from DownloadFile, whether or not Complete is
\* still waiting, and puts it in place if the checksum it was given agrees.
Fetch(c) ==
    /\ task[c] \in {"direct", "relayed"}
    /\ LET good == data # None /\ \A i \in Chunks : data[i] = "good" IN
       IF data = None \/ (task[c] = "direct" /\ ~good)
       THEN Ends(c, "refused") /\ UNCHANGED node
       ELSE /\ IF task[c] = "relayed"
               THEN task' = [task EXCEPT ![c] = "wrote"]
               ELSE Ends(c, "answered")
            /\ node' = IF good THEN "good" ELSE "bad"
    /\ UNCHANGED <<session, contents, writing, completing, todo, faults,
                   history>>

\* execUploadTask: the other instance deletes the data it has delivered, then
\* answers.
RelayDelete(c) ==
    /\ task[c] = "wrote"
    /\ Ends(c, "answered")
    /\ \/ data' = None /\ fd' = fd \ Completes /\ UNCHANGED faults
       \/ Fault /\ UNCHANGED <<data, fd>>
    /\ UNCHANGED <<session, chunk, writing, completing, node, todo, history>>

\* The response of the daemon, here or through the other instance.
Answer(c) ==
    /\ \/ task[c] = "answered" /\ Go(c, "sent", "delivered")
       \/ task[c] = "refused" /\ Go(c, "sent", "undo")
    /\ task' = [task EXCEPT ![c] = "none"]
    /\ UNCHANGED <<session, contents, writing, got, node, todo, faults,
                   history>>

\* DaemonDispatchTimeout, a cancelled request, a session that closes: the task
\* goes on without Complete.
Timeout(c) ==
    /\ Go(c, "sent", "undo")
    /\ task' = [task EXCEPT ![c] = IF @ \in {"answered", "refused"} THEN "none" ELSE @]
    /\ UNCHANGED <<session, contents, writing, got, node, todo, faults,
                   history>>

\* Mutant: a failed Complete cleans up like one that succeeded.
CompleteUndo_All(c) ==
    /\ Go(c, "undo", "failed")
    /\ data' = None
    /\ chunk' = [i \in Chunks |-> None]
    /\ UNCHANGED <<session, fd, writing, got, remote, todo, faults, history>>

\* Every error after the check of the chunks ends with a Delete of data.
CompleteUndo(c) ==
    /\ Go(c, "undo", "failed")
    /\ \/ data' = None /\ fd' = fd \ Completes /\ UNCHANGED faults
       \/ Fault /\ UNCHANGED <<data, fd>>
    /\ UNCHANGED <<session, chunk, writing, got, remote, todo, history>>

-----------------------------------------------------------------------------
(* Deletion by prefix *)

Present == {i \in Chunks : chunk[i] # None}
              \cup (IF data # None THEN {DataFile} ELSE {})
              \cup (IF done THEN {DoneFile} ELSE {})
              \cup (IF meta THEN {MetaFile} ELSE {})

\* What DeleteByPrefix finds of the files fs. LocalFileManager takes the prefix
\* "transfers/<id>/" or ".../chunks/" apart with Dir and Base, which drop the
\* slash, and so looks in the directory itself for names that start with the
\* directory's own: there are none.
Found(fs) == IF store = "local" THEN {} ELSE fs \cap Present

\* Mutant: the order of the names is reversed.
NextFile_Reversed(fs) == CHOOSE f \in fs : \A g \in fs : g <= f

\* A bucket is listed by name, and deleted from in that order.
NextFile(fs) == CHOOSE f \in fs : \A g \in fs : f <= g

\* Write of done, whose error is only logged, then the clean-up in a goroutine
\* of its own: DeleteByPrefix(chunks/), Delete(data).
Finish(c) ==
    /\ Go(c, "delivered", "ok")
    /\ \/ done' = TRUE /\ UNCHANGED faults
       \/ Fault /\ UNCHANGED done
    /\ todo' = [todo EXCEPT ![c] = Found(Chunks) \cup {DataFile}]
    /\ UNCHANGED <<age, meta, contents, writing, got, remote, history>>

StartRemoval(r) ==
    /\ todo[r] = {}
    /\ todo' = [todo EXCEPT ![r] = Found(Files)]
    /\ raced' = (raced \/ Busy)
    /\ acked' = {}
    /\ UNCHANGED <<session, contents, writing, completing, remote, faults,
                   unchecked, clash, mixed>>

\* Abort.
Abort(r) == r \in Removals /\ Loads /\ StartRemoval(r)

\* Sweep and maybeRemove: a session without upload.json is left alone.
Sweep(r) == r \in Removals /\ meta /\ age \in {"due", "expired"} /\ StartRemoval(r)

\* One object is removed, or an error ends the deletion (a clean-up goes on
\* to Delete data).
RemoveOne(r) ==
    /\ todo[r] # {}
    /\ \/ LET f == NextFile(todo[r]) IN
          /\ todo' = [todo EXCEPT ![r] = @ \ {f}]
          /\ meta' = (meta /\ f # MetaFile)
          /\ done' = (done /\ f # DoneFile)
          /\ data' = IF f = DataFile THEN None ELSE data
          /\ chunk' = [i \in Chunks |-> IF i = f THEN None ELSE chunk[i]]
          /\ fd' = IF f = DataFile THEN fd \ Completes ELSE fd
          /\ UNCHANGED faults
       \/ /\ Fault
          /\ todo' = [todo EXCEPT ![r] =
                         IF r \in Completes /\ @ # {DataFile} THEN {DataFile} ELSE {}]
          /\ UNCHANGED <<meta, done, contents>>
    /\ UNCHANGED <<age, writing, completing, remote, history>>

\* The instance that runs a call stops.
Crash ==
    /\ Fault
    /\ \/ /\ \E w \in Writers : /\ wpc[w] \notin Ended
                                /\ wpc' = [wpc EXCEPT ![w] = "ended"]
                                /\ fd' = fd \ {w}
          /\ UNCHANGED <<pc, todo>>
       \/ /\ \E c \in Completes : /\ pc[c] \notin Ended
                                  /\ pc' = [pc EXCEPT ![c] = "failed"]
                                  /\ fd' = fd \ {c}
          /\ UNCHANGED <<wpc, todo>>
       \/ /\ \E r \in Removers : /\ todo[r] # {}
                                 /\ todo' = [todo EXCEPT ![r] = {}]
          /\ UNCHANGED <<wpc, pc, fd>>
    /\ UNCHANGED <<session, chunk, data, index, got, remote, history>>

WriteChunk(w) ==
    \/ \E i \in Chunks : WriteBegin(w, i)
    \/ WriteOpen(w)
    \/ \E v \in {"good", "bad"} : WriteEnd(w, v)
    \/ WriteWrong(w) \/ WriteUndo(w)

Complete(c) ==
    \/ CompleteBegin(c) \/ CompleteList(c) \/ ReadChunk(c)
    \/ StoreData(c) \/ CheckSum(c) \/ Dispatch(c) \/ Answer(c) \/ Timeout(c)
    \/ CompleteUndo(c) \/ Finish(c)
    \/ Fetch(c) \/ RelayDelete(c)

Remove(r) == Abort(r) \/ Sweep(r) \/ RemoveOne(r)

Step ==
    \/ Create \/ Tick \/ Crash
    \/ \E w \in Writers : WriteChunk(w)
    \/ \E c \in Completes : Complete(c)
    \/ \E r \in Removers : Remove(r)

Next == Step /\ UNCHANGED store

\* The janitor's ticker does not stop, and a deletion goes on; nobody has to
\* upload, complete or abort anything.
Fairness ==
    \A r \in Removers : /\ WF_vars(Sweep(r) /\ UNCHANGED store)
                        /\ WF_vars(RemoveOne(r) /\ UNCHANGED store)

Spec == Init /\ [][Next]_vars /\ Fairness

-----------------------------------------------------------------------------
(* Properties *)

\* The daemon never puts another content in place than the announced one,
\* whatever is written, retried or removed meanwhile - unless a Complete
\* assembled beside another one and the task went without its checksum.
DeliveredIsAnnounced ==
    node = "bad" => mixed /\ unchecked

\* A chunk the client was told is stored stays stored until the file is on the
\* node, Abort or the janitor remove the session, or a later write of the same
\* chunk fails: a Complete that fails can be tried again. Two writes of one
\* chunk side by side, and a write beside a removal, are the exceptions.
AcceptedChunkIsKept ==
    ~raced => \A i \in acked \ clash : chunk[i] # None \/ node # None

\* No file outlives upload.json, by which the janitor finds it, however the
\* removal is interrupted - except what a call that was under way beside the
\* removal has stored.
NoOrphans ==
    ~meta /\ ~raced => Present = {}

\* The janitor "removes the whole transfer prefix for sessions whose ExpiresAt
\* has passed": nothing is left in the end, unless a call was under way beside
\* a removal. In a directory everything is left.
ExpiredIsRemoved == age = "expired" ~> Present = {} \/ raced

=============================================================================
