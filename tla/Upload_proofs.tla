---------------------------- MODULE Upload_proofs ----------------------------
(***************************************************************************)
(* Proofs about Upload, for any number of chunks, calls, removals and      *)
(* faults, and for both kinds of storage.                                  *)
(***************************************************************************)
EXTENDS Upload, WellFoundedInduction, TLAPS

\* The file a Complete has open is there.
FdOK == \A c \in Completes : c \in fd => data # None

Base == TypeOK /\ FdOK

-----------------------------------------------------------------------------
(* What is delivered *)

Engaged(c) == \/ pc[c] \in {"reading", "stored", "assembled", "sent", "undo"}
              \/ task[c] \in {"direct", "relayed"}

\* A Complete sends its task once, after it has assembled the file.
TaskOK ==
    \A c \in Completes :
        /\ pc[c] \in {"idle", "checked"} => got[c] = <<>>
        /\ pc[c] \in {"idle", "checked", "reading", "stored", "assembled"} => task[c] = "none"
        /\ task[c] = "relayed" => unchecked

\* As long as no Complete assembles beside another, one at a time uses the data.
OneUses == ~mixed => \A c, d \in Completes : Engaged(c) /\ Engaged(d) => c = d

AllGood == \A i \in Chunks : data[i] = "good"

\* The data is gone, or it is what the Complete has read so far, then what it has
\* read, and after the check of the sum it is the announced file.
DataFor(c) ==
    /\ pc[c] = "reading" /\ store = "local" =>
          IF c \in fd THEN data # None /\ \A i \in 1..Len(got[c]) : data[i] = got[c][i]
          ELSE data = None
    /\ pc[c] = "stored" => data = None \/ \A i \in Chunks : data[i] = got[c][i]
    /\ pc[c] \in {"assembled", "sent"} \/ task[c] \in {"direct", "relayed"} =>
          data = None \/ AllGood

DataOK == ~mixed => \A c \in Completes : DataFor(c)

DeliverInv == Base /\ TaskOK /\ OneUses /\ DataOK /\ DeliveredIsAnnounced

-----------------------------------------------------------------------------
(* What is kept and what is removed *)

Active(w) == wpc[w] \notin Ended

\* Calls that write the same chunk side by side are known, and only they can
\* lose their open file.
WritersOK ==
    /\ \A v, w \in Writers :
          v # w /\ Active(v) /\ Active(w) /\ index[v] = index[w] => index[v] \in clash
    /\ \A w \in Writers : wpc[w] = "open" => w \in fd \/ index[w] \in clash

\* What a deletion may still delete. A clean-up deletes after the file has
\* reached the node; in a directory no deletion by prefix finds anything.
TodoOK ==
    /\ \A c \in Completes : /\ todo[c] \subseteq Chunks \cup {DataFile}
                            /\ \/ task[c] \in {"wrote", "answered"} \/ pc[c] = "delivered"
                               \/ todo[c] # {}
                               => node # None
    /\ store = "local" => \A r \in Removers : todo[r] \subseteq {DataFile}
    /\ age = "new" => ~Removing

\* Beside a removal, and without upload.json, no call is under way, and the
\* removal has all there is on its list.
RemovalOK ==
    ~raced =>
        /\ Removing \/ ~meta => ~Busy
        /\ Removing => acked = {}
        /\ \A r \in Removals : todo[r] # {} => Present \subseteq todo[r]

KeepInv == /\ Base /\ WritersOK /\ TodoOK /\ RemovalOK
           /\ AcceptedChunkIsKept /\ NoOrphans

-----------------------------------------------------------------------------
(* Types *)

\* The constants, as the proofs use them.
LEMMA Sorts ==
    /\ None \notin Content /\ None \notin [Chunks -> Content] /\ TotalChunks \in Nat \ {0} /\ MaxFaults \in Nat
    /\ Chunks \subseteq Files /\ DataFile \in Files /\ DoneFile \in Files /\ MetaFile \in Files
    /\ DataFile \notin Chunks /\ MetaFile \notin Chunks /\ DoneFile \notin Chunks
    /\ DataFile # MetaFile /\ DataFile # DoneFile /\ DoneFile # MetaFile
    /\ Completes \subseteq Removers /\ Removals \subseteq Removers
BY UploadAssumption DEF Content, Chunks, Files, DataFile, DoneFile, MetaFile, Removers

LEMMA FaultType == ASSUME faults \in 0..MaxFaults, Fault PROVE faults' \in 0..MaxFaults
BY Sorts DEF Fault

\* Init.
LEMMA InitType == Init => TypeOK
<1> SUFFICES ASSUME Init PROVE TypeOK
  OBVIOUS
<1>1. chunk \in [Chunks -> Content \cup {None}] /\ data \in [Chunks -> Content] \cup {None}
  BY DEF Init
<1>2. wpc \in [Writers -> WriteSteps] /\ pc \in [Completes -> CompleteSteps]
  BY DEF Init, WriteSteps, CompleteSteps
<1>3. index \in [Writers -> Chunks]
  BY Sorts DEF Init, Chunks
<1>4. got \in [Completes -> Seq(Content)]
  BY DEF Init
<1>5. /\ task \in [Completes -> {"none", "direct", "relayed", "wrote", "answered", "refused"}]
      /\ todo \in [Removers -> SUBSET Files] /\ faults \in 0..MaxFaults
  BY Sorts DEF Init
<1> QED BY <1>1, <1>2, <1>3, <1>4, <1>5 DEF Init, TypeOK

\* The body is in the chunk, unless the open file was deleted.
LEMMA StoredEffect ==
    ASSUME NEW w, NEW v \in Content, Stored(w, v)
    PROVE  \/ chunk' = chunk /\ wpc[w] = "open" /\ w \notin fd
           \/ \E u \in Content : chunk' = [chunk EXCEPT ![index[w]] = u]
<1>1. CASE store = "object"
  BY <1>1 DEF Stored
<1>2. CASE store # "object" /\ w \notin fd
  BY <1>2 DEF Stored
<1>3. CASE store # "object" /\ w \in fd
  <2>1. PICK u \in {v} \cup (IF index[w] \in clash THEN {"part", "bad"} ELSE {}) :
               chunk' = [chunk EXCEPT ![index[w]] = u]
    BY <1>3 DEF Stored
  <2>2. u \in Content
    BY DEF Content
  <2> QED BY <2>1, <2>2
<1> QED BY <1>1, <1>2, <1>3

\* WriteChunk keeps the types.
LEMMA WriteType == ASSUME TypeOK, NEW w \in Writers, WriteChunk(w), UNCHANGED store PROVE TypeOK'
<1> USE DEF TypeOK, session, contents, writing, completing, remote, history
<1>c. "part" \in Content /\ "good" \in Content /\ "bad" \in Content
  BY DEF Content
<1>s. "checked" \in WriteSteps /\ "open" \in WriteSteps /\ "undo" \in WriteSteps /\ "ended" \in WriteSteps
  BY DEF WriteSteps
<1>i. index[w] \in Chunks
  OBVIOUS
<1>t. ASSUME NEW v \in Content, Stored(w, v) PROVE chunk' \in [Chunks -> Content \cup {None}]
  BY <1>i, <1>t, StoredEffect
<1>1. ASSUME NEW i \in Chunks, WriteBegin(w, i) PROVE TypeOK'
  <2>1. wpc' \in [Writers -> WriteSteps] /\ index' \in [Writers -> Chunks]
    BY <1>1, <1>s DEF WriteBegin, WGo
  <2>2. clash' \subseteq Chunks /\ raced' \in BOOLEAN
    BY <1>1 DEF WriteBegin
  <2>3. faults' \in 0..MaxFaults
    BY <1>1, FaultType DEF WriteBegin
  <2> QED BY <1>1, <2>1, <2>2, <2>3 DEF WriteBegin
<1>2. CASE WriteOpen(w)
  <2>1. wpc' \in [Writers -> WriteSteps] /\ chunk' \in [Chunks -> Content \cup {None}]
        /\ fd' \subseteq Writers \cup Completes
    BY <1>2, <1>s, <1>c, <1>i DEF WriteOpen, WGo
  <2> QED BY <1>2, <2>1 DEF WriteOpen
<1>3. ASSUME NEW v \in {"good", "bad"}, WriteEnd(w, v) PROVE TypeOK'
  <2>1. chunk' \in [Chunks -> Content \cup {None}]
    BY <1>3, <1>c, <1>t DEF WriteEnd
  <2>2. wpc' \in [Writers -> WriteSteps] /\ fd' \subseteq Writers \cup Completes /\ acked' \subseteq Chunks
    BY <1>3, <1>s, <1>i DEF WriteEnd
  <2> QED BY <1>3, <2>1, <2>2 DEF WriteEnd
<1>4. CASE WriteWrong(w)
  <2>1. chunk' \in [Chunks -> Content \cup {None}]
    BY <1>4, <1>c, <1>t DEF WriteWrong
  <2>2. wpc' \in [Writers -> WriteSteps] /\ fd' \subseteq Writers \cup Completes
    BY <1>4, <1>s DEF WriteWrong
  <2> QED BY <1>4, <2>1, <2>2 DEF WriteWrong
<1>5. CASE WriteUndo(w)
  <2>1. wpc' \in [Writers -> WriteSteps] /\ acked' \subseteq Chunks
    BY <1>5, <1>s DEF WriteUndo, WGo
  <2>2. chunk' \in [Chunks -> Content \cup {None}] /\ fd' \subseteq Writers \cup Completes
    BY <1>5, <1>i DEF WriteUndo
  <2>3. faults' \in 0..MaxFaults
    BY <1>5, FaultType DEF WriteUndo
  <2> QED BY <1>5, <2>1, <2>2, <2>3 DEF WriteUndo
<1> QED BY <1>1, <1>2, <1>3, <1>4, <1>5 DEF WriteChunk

\* Complete and its task keep the types.
LEMMA CompleteType ==
    ASSUME TypeOK, FdOK, NEW c \in Completes, Complete(c), UNCHANGED store PROVE TypeOK'
<1> DEFINE Tasks == {"none", "direct", "relayed", "wrote", "answered", "refused"}
<1> USE DEF TypeOK, session, contents, writing, completing, remote, history
<1>s. /\ "checked" \in CompleteSteps /\ "reading" \in CompleteSteps /\ "stored" \in CompleteSteps
      /\ "assembled" \in CompleteSteps /\ "sent" \in CompleteSteps /\ "delivered" \in CompleteSteps
      /\ "undo" \in CompleteSteps /\ "ok" \in CompleteSteps /\ "failed" \in CompleteSteps
  BY DEF CompleteSteps
<1>g. ASSUME NEW from, NEW to \in CompleteSteps, Go(c, from, to)
      PROVE  pc' \in [Completes -> CompleteSteps]
  BY <1>g DEF Go
<1>1. CASE CompleteBegin(c)
  <2>1. pc' \in [Completes -> CompleteSteps]
    BY <1>1, <1>s, <1>g DEF CompleteBegin
  <2>2. faults' \in 0..MaxFaults /\ raced' \in BOOLEAN
    BY <1>1, FaultType DEF CompleteBegin
  <2> QED BY <1>1, <2>1, <2>2 DEF CompleteBegin
<1>2. CASE CompleteList(c)
  <2>1. pc' \in [Completes -> CompleteSteps]
    BY <1>2, <1>s, <1>g DEF CompleteList
  <2>2. [i \in Chunks |-> "part"] \in [Chunks -> Content]
    BY DEF Content
  <2>3. data' \in [Chunks -> Content] \cup {None} /\ fd' \subseteq Writers \cup Completes
    BY <1>2, <2>2 DEF CompleteList
  <2>4. mixed' \in BOOLEAN
    BY <1>2 DEF CompleteList
  <2> QED BY <1>2, <2>1, <2>3, <2>4 DEF CompleteList
<1>3. CASE ReadChunk(c)
  <2> DEFINE i == Len(got[c]) + 1
  <2>1. pc' \in [Completes -> CompleteSteps]
    BY <1>3, <1>s, <1>g DEF ReadChunk
  <2>2. i \in Chunks /\ (chunk[i] # None => chunk[i] \in Content)
    BY <1>3 DEF ReadChunk
  <2>3. got' \in [Completes -> Seq(Content)]
    <3>1. chunk[i] \in Content => Append(got[c], chunk[i]) \in Seq(Content)
      OBVIOUS
    <3> QED BY <1>3, <2>2, <3>1 DEF ReadChunk
  <2>4. data' \in [Chunks -> Content] \cup {None}
    <3>1. CASE data' = data
      BY <3>1
    <3>2. CASE chunk[i] # None /\ c \in fd /\ data' = [data EXCEPT ![i] = chunk[i]]
      <4>1. data \in [Chunks -> Content]
        BY <3>2 DEF FdOK
      <4> QED BY <2>2, <3>2, <4>1
    <3> QED BY <1>3, <3>1, <3>2 DEF ReadChunk
  <2>5. faults' \in 0..MaxFaults
    BY <1>3, FaultType DEF ReadChunk
  <2>6. fd' \subseteq Writers \cup Completes
    BY <1>3 DEF ReadChunk
  <2> QED BY <1>3, <2>1, <2>3, <2>4, <2>5, <2>6 DEF ReadChunk

<1>4. CASE StoreData(c)
  <2>1. pc' \in [Completes -> CompleteSteps]
    BY <1>4, <1>s, <1>g DEF StoreData
  <2>2. got[c] \in [Chunks -> Content]
    <3>1. got[c] \in Seq(Content) /\ Len(got[c]) = TotalChunks
      BY <1>4 DEF StoreData
    <3> QED BY <3>1 DEF Chunks
  <2>3. data' \in [Chunks -> Content] \cup {None} /\ fd' \subseteq Writers \cup Completes
    BY <1>4, <2>2 DEF StoreData
  <2> QED BY <1>4, <2>1, <2>3 DEF StoreData
<1>5. CASE CheckSum(c)
  <2>1. pc' \in [Completes -> CompleteSteps]
    BY <1>5, <1>s, <1>g DEF CheckSum
  <2>2. got' \in [Completes -> Seq(Content)]
    <3>1. <<>> \in Seq(Content)
      OBVIOUS
    <3> QED BY <1>5, <3>1 DEF CheckSum
  <2> QED BY <1>5, <2>1, <2>2 DEF CheckSum
<1>6. CASE Dispatch(c)
  <2>1. pc' \in [Completes -> CompleteSteps]
    BY <1>6, <1>s, <1>g DEF Dispatch
  <2>2. task' \in [Completes -> Tasks] /\ unchecked' \in BOOLEAN
    BY <1>6 DEF Dispatch
  <2> QED BY <1>6, <2>1, <2>2 DEF Dispatch
<1>7. CASE Answer(c) \/ Timeout(c)
  <2>1. pc' \in [Completes -> CompleteSteps]
    BY <1>7, <1>s, <1>g DEF Answer, Timeout
  <2>2. task' \in [Completes -> Tasks]
    BY <1>7 DEF Answer, Timeout
  <2> QED BY <1>7, <2>1, <2>2 DEF Answer, Timeout
<1>8. CASE CompleteUndo(c)
  <2>1. pc' \in [Completes -> CompleteSteps]
    BY <1>8, <1>s, <1>g DEF CompleteUndo
  <2>2. data' \in [Chunks -> Content] \cup {None} /\ fd' \subseteq Writers \cup Completes
    BY <1>8 DEF CompleteUndo
  <2>3. faults' \in 0..MaxFaults
    BY <1>8, FaultType DEF CompleteUndo
  <2> QED BY <1>8, <2>1, <2>2, <2>3 DEF CompleteUndo
<1>9. CASE Finish(c)
  <2>1. pc' \in [Completes -> CompleteSteps]
    BY <1>9, <1>s, <1>g DEF Finish
  <2>2. Found(Chunks) \cup {DataFile} \in SUBSET Files
    BY Sorts DEF Found
  <2>3. todo' \in [Removers -> SUBSET Files]
    BY <1>9, <2>2, Sorts DEF Finish
  <2>4. faults' \in 0..MaxFaults /\ done' \in BOOLEAN
    BY <1>9, FaultType DEF Finish
  <2> QED BY <1>9, <2>1, <2>3, <2>4 DEF Finish
<1>10. CASE Fetch(c)
  <2>1. task' \in [Completes -> Tasks]
    BY <1>10 DEF Fetch, Ends
  <2>2. node' \in {"good", "bad", None}
    BY <1>10 DEF Fetch
  <2> QED BY <1>10, <2>1, <2>2 DEF Fetch
<1>11. CASE RelayDelete(c)
  <2>1. task' \in [Completes -> Tasks]
    BY <1>11 DEF RelayDelete, Ends
  <2>2. data' \in [Chunks -> Content] \cup {None} /\ fd' \subseteq Writers \cup Completes
    BY <1>11 DEF RelayDelete
  <2>3. faults' \in 0..MaxFaults
    BY <1>11, FaultType DEF RelayDelete
  <2> QED BY <1>11, <2>1, <2>2, <2>3 DEF RelayDelete
<1> QED BY <1>1, <1>2, <1>3, <1>4, <1>5, <1>6, <1>7, <1>8, <1>9, <1>10, <1>11 DEF Complete

\* Deletions and crashes keep the types.
LEMMA RemoveType ==
    ASSUME TypeOK, NEW r \in Removers, Remove(r), UNCHANGED store PROVE TypeOK'
<1> USE DEF TypeOK, session, contents, writing, completing, remote, history
<1>1. CASE Abort(r) \/ Sweep(r)
  <2>0. StartRemoval(r)
    BY <1>1 DEF Abort, Sweep
  <2>1. Found(Files) \in SUBSET Files
    BY DEF Found
  <2>2. todo' \in [Removers -> SUBSET Files] /\ raced' \in BOOLEAN /\ acked' \subseteq Chunks
    BY <2>0, <2>1 DEF StartRemoval
  <2> QED BY <2>0, <2>2 DEF StartRemoval
<1>2. CASE RemoveOne(r)
  <2>1. todo' \in [Removers -> SUBSET Files]
    <3>1. todo[r] \in SUBSET Files /\ {DataFile} \in SUBSET Files
      BY Sorts
    <3>2. \E fs \in SUBSET Files : todo' = [todo EXCEPT ![r] = fs]
      BY <1>2, <3>1 DEF RemoveOne
    <3> QED BY <3>2
  <2>2. meta' \in BOOLEAN /\ done' \in BOOLEAN
    BY <1>2 DEF RemoveOne
  <2>3. chunk' \in [Chunks -> Content \cup {None}]
    BY <1>2 DEF RemoveOne
  <2>4. data' \in [Chunks -> Content] \cup {None} /\ fd' \subseteq Writers \cup Completes
    BY <1>2 DEF RemoveOne
  <2>5. faults' \in 0..MaxFaults
    BY <1>2, FaultType DEF RemoveOne
  <2> QED BY <1>2, <2>1, <2>2, <2>3, <2>4, <2>5 DEF RemoveOne
<1> QED BY <1>1, <1>2 DEF Remove

LEMMA CrashType == ASSUME TypeOK, Crash, UNCHANGED store PROVE TypeOK'
<1> USE DEF TypeOK, session, contents, writing, completing, remote, history
<1>1. wpc' \in [Writers -> WriteSteps] /\ pc' \in [Completes -> CompleteSteps]
  BY DEF Crash, WriteSteps, CompleteSteps
<1>2. todo' \in [Removers -> SUBSET Files] /\ fd' \subseteq Writers \cup Completes
  BY DEF Crash
<1>3. faults' \in 0..MaxFaults
  BY FaultType DEF Crash
<1> QED BY <1>1, <1>2, <1>3 DEF Crash

\* The open file of a Complete is there until it is deleted.
LEMMA FdStep == ASSUME TypeOK, FdOK, Next PROVE FdOK'
<1>1. CASE data' = data /\ \A c \in Completes : c \in fd' => c \in fd
  BY <1>1 DEF FdOK
<1>2. CASE fd' \cap Completes = {}
  BY <1>2 DEF FdOK
<1>3. CASE data' # None
  BY <1>3 DEF FdOK
<1> USE DEF session, contents, writing, completing, remote, history
<1>4. CASE Create \/ Tick \/ Crash
  BY <1>1, <1>4 DEF Create, Tick, Crash
<1>5. ASSUME NEW w \in Writers, WriteChunk(w) PROVE FdOK'
  <2>1. w \notin Completes
    BY UploadAssumption
  <2> QED BY <1>1, <1>5, <2>1 DEF WriteChunk, WriteBegin, WriteOpen, WriteEnd, WriteWrong, WriteUndo
<1>6. ASSUME NEW c \in Completes, Complete(c) PROVE FdOK'
  <2>1. CASE CompleteList(c)
    <3>1. [i \in Chunks |-> "part"] \in [Chunks -> Content]
      BY DEF Content
    <3> QED BY <1>1, <1>3, <2>1, <3>1, Sorts DEF CompleteList
  <2>2. CASE ReadChunk(c)
    <3>1. fd' \subseteq fd /\ (data' = data \/ (c \in fd /\ \E i \in Chunks :
             chunk[i] # None /\ data' = [data EXCEPT ![i] = chunk[i]]))
      BY <2>2 DEF ReadChunk
    <3>2. CASE data' = data
      BY <1>1, <3>1, <3>2
    <3>3. ASSUME NEW i \in Chunks, chunk[i] # None, c \in fd, data' = [data EXCEPT ![i] = chunk[i]]
          PROVE  FdOK'
      <4>1. data \in [Chunks -> Content] /\ chunk[i] \in Content
        BY <3>3 DEF TypeOK, FdOK
      <4>2. data' \in [Chunks -> Content]
        BY <3>3, <4>1
      <4> QED BY <1>3, <4>2, Sorts
    <3> QED BY <3>1, <3>2, <3>3
  <2>3. CASE StoreData(c)
    <3>1. CASE store = "object"
      <4>1. got[c] \in Seq(Content) /\ Len(got[c]) = TotalChunks
        BY <2>3 DEF StoreData, TypeOK
      <4>2. got[c] \in [Chunks -> Content]
        BY <4>1 DEF Chunks
      <4> QED BY <1>3, <2>3, <3>1, <4>2, Sorts DEF StoreData
    <3>2. CASE store # "object"
      BY <1>1, <2>3, <3>2 DEF StoreData
    <3> QED BY <3>1, <3>2
  <2>4. CASE RelayDelete(c) \/ CompleteUndo(c)
    BY <1>1, <1>2, <2>4 DEF RelayDelete, CompleteUndo
  <2>5. CASE UNCHANGED <<data, fd>>
    BY <1>1, <2>5
  <2> QED BY <1>6, <2>1, <2>2, <2>3, <2>4, <2>5
        DEF Complete, CompleteBegin, CheckSum, Dispatch, Answer, Timeout, Finish, Fetch
<1>7. ASSUME NEW r \in Removers, Remove(r) PROVE FdOK'
  BY <1>1, <1>2, <1>7 DEF Remove, Abort, Sweep, StartRemoval, RemoveOne
<1> QED BY <1>4, <1>5, <1>6, <1>7 DEF Next, Step

LEMMA BaseStep == ASSUME Base, Next PROVE Base'
<1>1. TypeOK'
  <2>1. CASE Create \/ Tick
    BY <2>1 DEF Next, Base, Create, Tick, TypeOK, session, contents, writing, completing, remote, history
  <2> QED BY <2>1, WriteType, CompleteType, RemoveType, CrashType DEF Next, Step, Base
<1> QED BY <1>1, FdStep DEF Base

-----------------------------------------------------------------------------
(* What is delivered is what was announced *)

\* The steps that leave every Complete and its task where they are.
LEMMA Elsewhere ==
    ASSUME Next
    PROVE  \/ UNCHANGED <<pc, got, task, node, unchecked, mixed>>
           \/ \E c \in Completes : Complete(c)
           \/ \E c \in Completes : /\ pc' = [pc EXCEPT ![c] = "failed"] /\ fd' = fd \ {c}
                                    /\ UNCHANGED <<got, task, node, unchecked, mixed, data>>
<1> USE DEF session, contents, writing, completing, remote, history
<1>1. CASE Crash
  BY <1>1 DEF Crash
<1>2. CASE Create \/ Tick
  BY <1>2 DEF Create, Tick
<1>3. ASSUME NEW w \in Writers, WriteChunk(w)
      PROVE  UNCHANGED <<pc, got, task, node, unchecked, mixed>>
  BY <1>3 DEF WriteChunk, WriteBegin, WriteOpen, WriteEnd, WriteWrong, WriteUndo
<1>4. ASSUME NEW r \in Removers, Remove(r)
      PROVE  UNCHANGED <<pc, got, task, node, unchecked, mixed>>
  BY <1>4 DEF Remove, Abort, Sweep, StartRemoval, RemoveOne
<1> QED BY <1>1, <1>2, <1>3, <1>4 DEF Next, Step

LEMMA TaskStep == ASSUME TypeOK, TaskOK, Next PROVE TaskOK'
<1> USE DEF TypeOK, TaskOK, session, contents, writing, completing, remote, history
<1>1. CASE UNCHANGED <<pc, got, task, unchecked>>
  BY <1>1
<1>2. ASSUME NEW c \in Completes, pc' = [pc EXCEPT ![c] = "failed"], UNCHANGED <<got, task, unchecked>>
      PROVE  TaskOK'
  BY <1>2
<1>3. ASSUME NEW c \in Completes, Complete(c) PROVE TaskOK'
  <2>1. CASE CompleteBegin(c) \/ CompleteList(c)
    BY <2>1 DEF CompleteBegin, CompleteList, Go
  <2>2. CASE ReadChunk(c)
    BY <2>2 DEF ReadChunk, Go
  <2>3. CASE StoreData(c) \/ CheckSum(c)
    BY <2>3 DEF StoreData, CheckSum, Go
  <2>4. CASE Dispatch(c)
    <3>1. unchecked => unchecked'
      BY <2>4 DEF Dispatch
    <3>2. task'[c] = "relayed" => unchecked'
      BY <2>4 DEF Dispatch, Go
    <3>3. pc'[c] \in {"sent", "undo"} /\ got' = got
      BY <2>4 DEF Dispatch, Go
    <3>4. \A d \in Completes : d # c => pc'[d] = pc[d] /\ task'[d] = task[d]
      BY <2>4 DEF Dispatch, Go
    <3> QED BY <3>1, <3>2, <3>3, <3>4
  <2>5. CASE Answer(c) \/ Timeout(c)
    BY <2>5 DEF Answer, Timeout, Go
  <2>6. CASE CompleteUndo(c) \/ Finish(c)
    BY <2>6 DEF CompleteUndo, Finish, Go
  <2>7. CASE Fetch(c)
    <3>1. task[c] # "none" /\ UNCHANGED <<pc, got, unchecked>> /\ task'[c] # "relayed"
      BY <2>7 DEF Fetch, Ends
    <3>2. \A d \in Completes : d # c => task'[d] = task[d]
      BY <2>7 DEF Fetch, Ends
    <3> QED BY <3>1, <3>2
  <2>8. CASE RelayDelete(c)
    <3>1. task[c] # "none" /\ UNCHANGED <<pc, got, unchecked>> /\ task'[c] # "relayed"
      BY <2>8 DEF RelayDelete, Ends
    <3>2. \A d \in Completes : d # c => task'[d] = task[d]
      BY <2>8 DEF RelayDelete, Ends
    <3> QED BY <3>1, <3>2
  <2> QED BY <1>3, <2>1, <2>2, <2>3, <2>4, <2>5, <2>6, <2>7, <2>8 DEF Complete
<1> QED BY <1>1, <1>2, <1>3, Elsewhere

\* A Complete begins to use the data when it has found all chunks; if another
\* one uses it then, the files may mix.
LEMMA UseStep ==
    ASSUME TypeOK, Next, ~mixed'
    PROVE  /\ ~mixed
           /\ \A c \in Completes : Engaged(c)' => Engaged(c) \/ CompleteList(c)
           /\ \A c, d \in Completes : CompleteList(c) /\ pc'[c] = "reading" /\ d # c => ~Engaged(d) /\ ~Engaged(d)'
<1> USE DEF TypeOK, Engaged, session, contents, writing, completing, remote, history
<1>1. ASSUME NEW c \in Completes, NEW d \in Completes, CompleteList(c), pc'[c] = "reading", d # c
      PROVE  ~Engaged(d) /\ ~Engaged(d)'
  <2>1. ~Engaged(d)
    BY <1>1 DEF CompleteList, Go
  <2>2. pc'[d] = pc[d] /\ task' = task
    BY <1>1 DEF CompleteList, Go
  <2> QED BY <2>1, <2>2
<1>2. ASSUME NEW c \in Completes, Complete(c)
      PROVE  /\ ~mixed
             /\ \A d \in Completes : Engaged(d)' => Engaged(d) \/ CompleteList(d)
  <2>1. CASE CompleteBegin(c)
    BY <2>1 DEF CompleteBegin, Go
  <2>2. CASE CompleteList(c)
    BY <2>2 DEF CompleteList, Go
  <2>3. CASE ReadChunk(c)
    BY <2>3 DEF ReadChunk, Go
  <2>4. CASE StoreData(c) \/ CheckSum(c)
    BY <2>4 DEF StoreData, CheckSum, Go
  <2>5. CASE Dispatch(c)
    BY <2>5 DEF Dispatch, Go
  <2>6. CASE Answer(c) \/ Timeout(c)
    BY <2>6 DEF Answer, Timeout, Go
  <2>7. CASE CompleteUndo(c) \/ Finish(c)
    BY <2>7 DEF CompleteUndo, Finish, Go
  <2>8. CASE Fetch(c)
    BY <2>8 DEF Fetch, Ends
  <2>9. CASE RelayDelete(c)
    BY <2>9 DEF RelayDelete, Ends
  <2> QED BY <1>2, <2>1, <2>2, <2>3, <2>4, <2>5, <2>6, <2>7, <2>8, <2>9 DEF Complete
<1>3. ASSUME NEW c \in Completes, pc' = [pc EXCEPT ![c] = "failed"], task' = task, mixed' = mixed
      PROVE  ~mixed /\ \A d \in Completes : Engaged(d)' => Engaged(d)
  BY <1>3
<1>4. ASSUME UNCHANGED <<pc, task, mixed>>
      PROVE  ~mixed /\ \A d \in Completes : Engaged(d)' => Engaged(d)
  BY <1>4
<1> HIDE DEF Engaged
<1> QED BY <1>1, <1>2, <1>3, <1>4, Elsewhere

LEMMA OneUsesStep == ASSUME TypeOK, OneUses, Next PROVE OneUses'
<1> SUFFICES ASSUME ~mixed', NEW c \in Completes, NEW d \in Completes,
                    Engaged(c)', Engaged(d)', c # d
             PROVE  FALSE
  BY DEF OneUses
<1>1. ~mixed /\ (Engaged(c) \/ CompleteList(c)) /\ (Engaged(d) \/ CompleteList(d))
  BY UseStep
<1>2. CASE Engaged(c) /\ Engaged(d)
  BY <1>1, <1>2 DEF OneUses
<1>3. ASSUME NEW e \in Completes, CompleteList(e), Engaged(e)', ~Engaged(e)
      PROVE  pc'[e] = "reading"
  BY <1>3 DEF CompleteList, Go, Engaged, TypeOK, remote
<1>4. CASE ~Engaged(c)
  BY <1>1, <1>3, <1>4, UseStep
<1>5. CASE ~Engaged(d)
  BY <1>1, <1>3, <1>5, UseStep
<1> QED BY <1>2, <1>4, <1>5

\* Data that is deleted is right for everyone,
LEMMA DataGone ==
    ASSUME data' = None, fd' \cap Completes = {}, NEW c \in Completes PROVE DataFor(c)'
BY DEF DataFor

\* and data that stays is right for whom it was.
LEMMA DataStays ==
    ASSUME NEW c \in Completes, DataFor(c), UNCHANGED <<data, store>>, c \in fd' <=> c \in fd,
           pc'[c] = pc[c], got'[c] = got[c], task'[c] = task[c]
    PROVE  DataFor(c)'
BY DEF DataFor, AllGood

\* It does not matter to who does not use it.
LEMMA DataUnused == ASSUME NEW c \in Completes, ~Engaged(c) PROVE DataFor(c)
BY DEF Engaged, DataFor

\* What the other calls do to the data.
LEMMA DataElsewhere ==
    ASSUME TypeOK, Next, UNCHANGED <<pc, got, task>>
    PROVE  \/ data' = data /\ \A c \in Completes : c \in fd' <=> c \in fd
           \/ data' = None /\ fd' \cap Completes = {}
           \/ \E c \in Completes : Complete(c)
<1> USE DEF session, contents, writing, completing, remote, history
<1>1. CASE Crash
  <2>1. ASSUME NEW w \in Writers, fd' = fd \ {w} PROVE \A c \in Completes : c \in fd' <=> c \in fd
    BY <2>1, UploadAssumption
  <2>2. ASSUME NEW c \in Completes, pc[c] \notin Ended, pc' = [pc EXCEPT ![c] = "failed"]
        PROVE  pc' # pc
    BY <2>2 DEF Ended, TypeOK
  <2> QED BY <1>1, <2>1, <2>2 DEF Crash
<1>2. CASE Create \/ Tick
  BY <1>2 DEF Create, Tick
<1>3. ASSUME NEW w \in Writers, WriteChunk(w)
      PROVE  data' = data /\ \A c \in Completes : c \in fd' <=> c \in fd
  <2>1. w \notin Completes /\ \A v \in Writers : v \notin Completes
    BY UploadAssumption
  <2> QED BY <1>3, <2>1 DEF WriteChunk, WriteBegin, WriteOpen, WriteEnd, WriteWrong, WriteUndo
<1>4. ASSUME NEW r \in Removers, Remove(r)
      PROVE  \/ data' = data /\ \A c \in Completes : c \in fd' <=> c \in fd
             \/ data' = None /\ fd' \cap Completes = {}
  BY <1>4 DEF Remove, Abort, Sweep, StartRemoval, RemoveOne
<1> QED BY <1>1, <1>2, <1>3, <1>4 DEF Next, Step

LEMMA DataStep == ASSUME Base, TaskOK, OneUses, DataOK, Next PROVE DataOK'
<1> SUFFICES ASSUME ~mixed', NEW c \in Completes PROVE DataFor(c)'
  BY DEF DataOK
<1>t. TypeOK /\ FdOK /\ store' = store
  BY DEF Base, Next
<1>m. ~mixed /\ DataFor(c) /\ \A d \in Completes : DataFor(d)
  BY UseStep, <1>t DEF DataOK
<1> USE DEF session, contents, writing, completing, remote, history
<1>1. CASE UNCHANGED <<pc, got, task>> /\ ~\E d \in Completes : Complete(d)
  BY <1>1, <1>t, <1>m, DataElsewhere, DataGone, DataStays
<1>2. ASSUME NEW d \in Completes, pc' = [pc EXCEPT ![d] = "failed"], fd' = fd \ {d},
             UNCHANGED <<got, task, data>>
      PROVE  DataFor(c)'
  <2>1. CASE d # c
    BY <1>2, <1>t, <1>m, <2>1, DataStays DEF TypeOK
  <2>2. CASE d = c
    BY <1>2, <1>t, <1>m, <2>2 DEF DataFor, AllGood, TypeOK
  <2> QED BY <2>1, <2>2
<1>3. ASSUME NEW d \in Completes, Complete(d) PROVE DataFor(c)'
  <2>o. ASSUME d # c, Engaged(d), pc'[c] = pc[c], task'[c] = task[c] PROVE DataFor(c)'
    <3>1. ~Engaged(c)
      BY <1>m, <2>o DEF OneUses
    <3> QED BY <2>o, <3>1 DEF Engaged, DataFor
  <2>1. CASE CompleteBegin(d)
    <3>1. CASE d # c
      BY <1>t, <1>m, <2>1, <3>1, DataStays DEF CompleteBegin, Go, TypeOK
    <3>2. CASE d = c
      <4>1. pc'[c] \in {"failed", "ok", "checked"} /\ task'[c] = "none"
        BY <1>t, <2>1, <3>2 DEF CompleteBegin, Go, TypeOK, TaskOK
      <4> QED BY <4>1 DEF DataFor
    <3> QED BY <3>1, <3>2
  <2>2. CASE CompleteList(d)
    <3>1. CASE pc'[d] = "reading" /\ d # c
      <4>1. ~Engaged(c)'
        BY <1>t, <2>2, <3>1, UseStep
      <4> QED BY <4>1 DEF Engaged, DataFor
    <3>2. CASE pc'[d] = "reading" /\ d = c
      <4>1. got'[c] = <<>> /\ task'[c] = "none"
        BY <1>t, <2>2, <3>2 DEF CompleteList, Go, TaskOK, TypeOK
      <4>2. store = "local" => data' = [i \in Chunks |-> "part"] /\ c \in fd'
        BY <1>t, <2>2, <3>2 DEF CompleteList, Go, TypeOK
      <4>3. [i \in Chunks |-> "part"] # None
        <5>1. [i \in Chunks |-> "part"] \in [Chunks -> Content]
          BY DEF Content
        <5> QED BY <5>1, Sorts
      <4>4. 1..Len(got'[c]) = {}
        BY <4>1
      <4> QED BY <1>t, <3>2, <4>1, <4>2, <4>3, <4>4 DEF DataFor
    <3>3. CASE pc'[d] # "reading"
      <4>1. UNCHANGED <<data, fd, got, task>> /\ pc' = [pc EXCEPT ![d] = "failed"] /\ pc[d] = "checked"
        BY <1>t, <2>2, <3>3 DEF CompleteList, Go, TypeOK
      <4>2. CASE d # c
        BY <1>t, <1>m, <4>1, <4>2, DataStays DEF TypeOK
      <4>3. CASE d = c
        BY <1>t, <4>1, <4>3 DEF TypeOK, TaskOK, DataFor
      <4> QED BY <4>2, <4>3
    <3> QED BY <3>1, <3>2, <3>3
  <2>3. CASE ReadChunk(d)
    <3>1. Engaged(d)
      BY <2>3 DEF ReadChunk, Go, Engaged
    <3>2. CASE d # c
      <4>1. pc'[c] = pc[c] /\ task'[c] = task[c]
        BY <1>t, <2>3, <3>2 DEF ReadChunk, Go, TypeOK
      <4> QED BY <2>o, <3>1, <3>2, <4>1
    <3>3. CASE d = c /\ pc'[c] = "undo"
      <4>1. task'[c] = "none"
        BY <1>t, <2>3, <3>3 DEF ReadChunk, Go, TaskOK, TypeOK
      <4> QED BY <3>3, <4>1 DEF DataFor
    <3>4. CASE d = c /\ pc'[c] # "undo"
      <4> DEFINE n == Len(got[c]) + 1
      <4>1. /\ pc[c] = "reading" /\ pc' = pc /\ n \in Chunks /\ chunk[n] # None
            /\ got' = [got EXCEPT ![c] = Append(got[c], chunk[n])]
            /\ data' = (IF c \in fd THEN [data EXCEPT ![n] = chunk[n]] ELSE data)
            /\ fd' = fd /\ task' = task
        BY <1>t, <2>3, <3>4 DEF ReadChunk, Go, TypeOK
      <4>2. task[c] = "none"
        BY <4>1 DEF TaskOK
      <4>3. CASE store = "local" /\ c \in fd
        <5>1. data \in [Chunks -> Content] /\ chunk[n] \in Content
          BY <1>t, <4>1, <4>3 DEF TypeOK, FdOK
        <5>2. data' = [data EXCEPT ![n] = chunk[n]] /\ data' \in [Chunks -> Content]
          BY <4>1, <4>3, <5>1
        <5>3. \A i \in 1..Len(got[c]) : data[i] = got[c][i]
          BY <1>m, <4>1, <4>3 DEF DataFor
        <5>4. got[c] \in Seq(Content) /\ got'[c] = Append(got[c], chunk[n])
          BY <1>t, <4>1 DEF TypeOK
        <5>5. Len(got'[c]) = n /\ got'[c][n] = chunk[n] /\ \A i \in 1..Len(got[c]) : got'[c][i] = got[c][i]
          BY <5>1, <5>4
        <5>6. \A i \in 1..Len(got'[c]) : data'[i] = got'[c][i]
          <6>1. n \in Nat /\ Len(got[c]) \in Nat /\ n <= TotalChunks /\ TotalChunks \in Nat
            BY <4>1, <5>4, Sorts DEF Chunks
          <6>2. \A i \in 1..Len(got[c]) : i \in Chunks /\ i # n
            BY <6>1 DEF Chunks
          <6>3. \A i \in 1..Len(got[c]) : data'[i] = got'[c][i]
            BY <5>1, <5>2, <5>3, <5>5, <6>2
          <6>4. data'[n] = got'[c][n]
            BY <4>1, <5>1, <5>2, <5>5
          <6>5. \A i \in 1..Len(got'[c]) : i = n \/ i \in 1..Len(got[c])
            BY <5>5, <6>1
          <6> QED BY <6>3, <6>4, <6>5
        <5> QED BY <4>1, <4>2, <4>3, <5>2, <5>6, Sorts DEF DataFor
      <4>4. CASE store = "local" /\ c \notin fd
        BY <1>t, <1>m, <4>1, <4>2, <4>4 DEF DataFor
      <4>5. CASE store # "local"
        BY <1>t, <4>1, <4>2, <4>5 DEF DataFor
      <4> QED BY <4>3, <4>4, <4>5
    <3> QED BY <3>2, <3>3, <3>4
  <2>4. CASE StoreData(d)
    <3>1. Engaged(d)
      BY <2>4 DEF StoreData, Go, Engaged
    <3>2. CASE d # c
      <4>1. pc'[c] = pc[c] /\ task'[c] = task[c]
        BY <1>t, <2>4, <3>2 DEF StoreData, Go, TypeOK
      <4> QED BY <2>o, <3>1, <3>2, <4>1
    <3>3. CASE d = c
      <4>1. /\ pc[c] = "reading" /\ pc'[c] = "stored" /\ got' = got /\ task' = task
            /\ 1..Len(got[c]) = Chunks /\ data' = (IF store = "object" THEN got[c] ELSE data)
        BY <1>t, <2>4, <3>3 DEF StoreData, Go, TypeOK, Chunks
      <4>2. task[c] = "none" /\ store \in {"object", "local"}
        BY <1>t, <4>1, UploadAssumption DEF TaskOK, TypeOK
      <4>3. data' = None \/ \A i \in Chunks : data'[i] = got[c][i]
        BY <1>m, <4>1, <4>2 DEF DataFor
      <4> QED BY <4>1, <4>2, <4>3 DEF DataFor
    <3> QED BY <3>2, <3>3
  <2>5. CASE CheckSum(d)
    <3>1. Engaged(d)
      BY <2>5 DEF CheckSum, Engaged
    <3>2. CASE d # c
      <4>1. pc'[c] = pc[c] /\ task'[c] = task[c]
        BY <1>t, <2>5, <3>2 DEF CheckSum, Go, TypeOK
      <4> QED BY <2>o, <3>1, <3>2, <4>1
    <3>3. CASE d = c
      <4>1. /\ pc[c] = "stored" /\ data' = data /\ task' = task
            /\ pc'[c] = (IF \A i \in Chunks : got[c][i] = "good" THEN "assembled" ELSE "undo")
        BY <1>t, <2>5, <3>3 DEF CheckSum, Go, TypeOK
      <4>2. task[c] = "none" /\ (data = None \/ \A i \in Chunks : data[i] = got[c][i])
        BY <1>m, <4>1 DEF TaskOK, DataFor
      <4> QED BY <4>1, <4>2 DEF DataFor, AllGood
    <3> QED BY <3>2, <3>3
  <2>6. CASE Dispatch(d) \/ Answer(d) \/ Timeout(d)
    <3>1. Engaged(d)
      BY <2>6 DEF Dispatch, Answer, Timeout, Go, Engaged
    <3>2. CASE d # c
      <4>1. pc'[c] = pc[c] /\ task'[c] = task[c]
        BY <1>t, <2>6, <3>2 DEF Dispatch, Answer, Timeout, Go, TypeOK
      <4> QED BY <2>o, <3>1, <3>2, <4>1
    <3>3. CASE d = c
      <4>1. /\ pc[c] \in {"assembled", "sent"} /\ data' = data
            /\ pc'[c] \in {"sent", "undo", "delivered"}
        BY <1>t, <2>6, <3>3 DEF Dispatch, Answer, Timeout, Go, TypeOK
      <4> QED BY <1>m, <4>1 DEF DataFor, AllGood
    <3> QED BY <3>2, <3>3
  <2>7. CASE CompleteUndo(d) \/ RelayDelete(d)
    <3>1. CASE data' = None /\ fd' = fd \ Completes
      BY <3>1, DataGone
    <3>2. CASE UNCHANGED <<data, fd>>
      <4>1. CASE d # c
        BY <1>t, <1>m, <2>7, <3>2, <4>1, DataStays DEF CompleteUndo, RelayDelete, Go, Ends, TypeOK
      <4>2. CASE d = c
        <5>1. /\ pc'[c] \notin {"reading", "stored", "assembled"}
              /\ pc'[c] = "sent" => pc[c] = "sent"
              /\ task'[c] \in {"direct", "relayed"} => task'[c] = task[c]
          BY <1>t, <2>7, <4>2 DEF CompleteUndo, RelayDelete, Go, Ends, TypeOK, TaskOK
        <5> QED BY <1>m, <3>2, <5>1 DEF DataFor, AllGood
      <4> QED BY <4>1, <4>2
    <3> QED BY <2>7, <3>1, <3>2 DEF CompleteUndo, RelayDelete
  <2>8. CASE Finish(d) \/ Fetch(d)
    <3>1. UNCHANGED <<data, fd, got>>
      BY <2>8 DEF Finish, Fetch
    <3>2. CASE d # c
      <4>1. pc'[c] = pc[c] /\ task'[c] = task[c]
        BY <1>t, <2>8, <3>2 DEF Finish, Fetch, Ends, Go, TypeOK
      <4> QED BY <1>t, <1>m, <3>1, <4>1, DataStays
    <3>3. CASE d = c
      <4>1. /\ pc'[c] \notin {"reading", "stored", "assembled"}
            /\ pc'[c] = "sent" => pc[c] = "sent"
            /\ task'[c] \in {"direct", "relayed"} => task'[c] = task[c]
        BY <1>t, <2>8, <3>3 DEF Finish, Fetch, Ends, Go, TypeOK, TaskOK
      <4> QED BY <1>m, <3>1, <4>1 DEF DataFor, AllGood
    <3> QED BY <3>2, <3>3
  <2> QED BY <1>3, <2>1, <2>2, <2>3, <2>4, <2>5, <2>6, <2>7, <2>8 DEF Complete
<1> QED BY <1>1, <1>2, <1>3, Elsewhere

\* The daemon writes only what it fetches: a wrong file passes only without a
\* checksum, and is there to fetch only if two Completes have mixed.
LEMMA DeliveredStep ==
    ASSUME Base, TaskOK, DataOK, DeliveredIsAnnounced, Next PROVE DeliveredIsAnnounced'
<1> USE DEF session, contents, writing, completing, remote, history
<1>t. TypeOK
  BY DEF Base
<1>1. CASE UNCHANGED <<node, unchecked, mixed>>
  BY <1>1 DEF DeliveredIsAnnounced
<1>2. ASSUME NEW c \in Completes, Complete(c) PROVE DeliveredIsAnnounced'
  <2>1. CASE Dispatch(c)
    BY <2>1 DEF Dispatch, DeliveredIsAnnounced
  <2>2. CASE CompleteList(c)
    BY <2>2 DEF CompleteList, DeliveredIsAnnounced
  <2>3. CASE Fetch(c)
    <3> SUFFICES ASSUME node' = "bad", node # "bad" PROVE mixed /\ unchecked
      BY <2>3 DEF Fetch, DeliveredIsAnnounced
    <3>1. task[c] = "relayed" /\ data # None /\ ~AllGood
      BY <2>3 DEF Fetch, AllGood
    <3> QED BY <3>1 DEF TaskOK, DataOK, DataFor
  <2> QED BY <1>1, <1>2, <2>1, <2>2, <2>3
        DEF Complete, CompleteBegin, ReadChunk, StoreData, CheckSum, Answer, Timeout,
            CompleteUndo, Finish, RelayDelete
<1> QED BY <1>1, <1>2, Elsewhere

LEMMA DeliverInit == Init => DeliverInv
<1> SUFFICES ASSUME Init PROVE DeliverInv
  OBVIOUS
<1>1. Base
  BY InitType DEF Base, FdOK, Init
<1>2. TaskOK /\ OneUses
  BY DEF TaskOK, OneUses, Engaged, Init
<1>3. DataOK
  BY DEF DataOK, DataFor, Init
<1>4. DeliveredIsAnnounced
  BY UploadAssumption DEF DeliveredIsAnnounced, Init
<1> QED BY <1>1, <1>2, <1>3, <1>4 DEF DeliverInv

LEMMA DeliverStep == DeliverInv /\ [Next]_vars => DeliverInv'
<1> SUFFICES ASSUME DeliverInv, [Next]_vars PROVE DeliverInv'
  OBVIOUS
<1>1. CASE Next
  BY <1>1, BaseStep, TaskStep, OneUsesStep, DataStep, DeliveredStep DEF DeliverInv, Base
<1>2. CASE UNCHANGED vars
  <2>1. UNCHANGED <<store, age, meta, done, chunk, data, fd, wpc, index, pc, got, task, node, todo,
                    faults, acked, clash, unchecked, mixed, raced>>
    BY <1>2 DEF vars, session, contents, writing, completing, remote, history
  <2>2. Base'
    BY <2>1 DEF DeliverInv, Base, TypeOK, FdOK
  <2>3. TaskOK' /\ OneUses' /\ DeliveredIsAnnounced'
    BY <2>1 DEF DeliverInv, TaskOK, OneUses, Engaged, DeliveredIsAnnounced
  <2>4. DataOK'
    BY <2>1 DEF DeliverInv, DataOK, DataFor, AllGood
  <2> QED BY <2>2, <2>3, <2>4 DEF DeliverInv
<1> QED BY <1>1, <1>2

\* The daemon never puts another file in place than the announced one, whatever
\* WriteChunk, Complete, Abort, the janitor and crashes do meanwhile, unless one
\* Complete assembled beside another and a task was relayed without its checksum.
THEOREM DeliversTheAnnounced == Spec => []DeliveredIsAnnounced
<1>1. DeliverInv => DeliveredIsAnnounced
  BY DEF DeliverInv
<1> QED BY DeliverInit, DeliverStep, <1>1, PTL DEF Spec

-----------------------------------------------------------------------------
(* What is kept and what is removed *)

\* A set of files has a first one.
LEMMA FirstFile ==
    ASSUME NEW fs, fs \subseteq Nat, fs # {}
    PROVE  NextFile(fs) \in fs /\ \A g \in fs : NextFile(fs) <= g
<1> DEFINE R == OpToRel(<, Nat)
<1>1. IsWellFoundedOn(R, Nat)
  BY NatLessThanWellFounded, Zenon
<1>2. \A x, y \in Nat : <<y, x>> \notin R => x <= y
  BY DEF OpToRel
<1> HIDE DEF R
<1>3. PICK f \in fs : \A g \in fs : <<g, f>> \notin R
  BY <1>1, WFMin
<1>4. \A g \in fs : f <= g
  BY <1>2, <1>3
<1> QED BY <1>4 DEF NextFile

\* upload.json comes last.
LEMMA MetaIsLast ==
    ASSUME NEW fs, fs \subseteq Files, fs # {}, NextFile(fs) = MetaFile PROVE fs = {MetaFile}
<1>1. fs \subseteq Nat /\ MetaFile \in Nat /\ \A g \in fs : g \in Nat /\ g <= MetaFile
  BY Sorts DEF Files, MetaFile
<1>2. MetaFile \in fs /\ \A g \in fs : MetaFile <= g
  BY <1>1, FirstFile
<1>3. \A g \in fs : g = MetaFile
  BY <1>1, <1>2
<1> QED BY <1>2, <1>3

\* The fields a WriteChunk works with, and who touches them.
LEMMA WritersElsewhere ==
    ASSUME Next
    PROVE  \/ \E w \in Writers : WriteChunk(w)
           \/ /\ UNCHANGED <<wpc, index, clash>>
              /\ \A w \in Writers : w \in fd' <=> w \in fd
           \/ \E w \in Writers : /\ Active(w) /\ wpc' = [wpc EXCEPT ![w] = "ended"]
                                 /\ fd' = fd \ {w} /\ UNCHANGED <<index, clash>>
<1> USE DEF session, contents, writing, completing, remote, history
<1>d. \A w \in Writers : w \notin Completes
  BY UploadAssumption
<1>1. CASE Crash
  BY <1>1, <1>d DEF Crash, Active
<1>2. CASE Create \/ Tick
  BY <1>2 DEF Create, Tick
<1>3. ASSUME NEW c \in Completes, Complete(c)
      PROVE  UNCHANGED <<wpc, index, clash>> /\ \A w \in Writers : w \in fd' <=> w \in fd
  <2>1. UNCHANGED <<wpc, index, clash>>
    BY <1>3 DEF Complete, CompleteBegin, CompleteList, ReadChunk, StoreData, CheckSum, Dispatch, Answer,
                Timeout, CompleteUndo, Finish, Fetch, RelayDelete
  <2>2. fd' \in {fd, fd \cup {c}, fd \ {c}, fd \ Completes}
    BY <1>3 DEF Complete, CompleteBegin, CompleteList, ReadChunk, StoreData, CheckSum, Dispatch, Answer,
                Timeout, CompleteUndo, Finish, Fetch, RelayDelete
  <2> QED BY <1>d, <2>1, <2>2
<1>4. ASSUME NEW r \in Removers, Remove(r)
      PROVE  UNCHANGED <<wpc, index, clash>> /\ \A w \in Writers : w \in fd' <=> w \in fd
  BY <1>4, <1>d DEF Remove, Abort, Sweep, StartRemoval, RemoveOne
<1> QED BY <1>1, <1>2, <1>3, <1>4 DEF Next, Step

\* A second call for a chunk marks it when it begins.
LEMMA WritersStep == ASSUME TypeOK, WritersOK, Next PROVE WritersOK'
<1> USE DEF TypeOK, WritersOK, Active, Ended, session, contents, writing, completing, remote, history
<1>1. CASE UNCHANGED <<wpc, index, clash>> /\ \A w \in Writers : w \in fd' <=> w \in fd
  BY <1>1
<1>2. ASSUME NEW w \in Writers, wpc' = [wpc EXCEPT ![w] = "ended"], fd' = fd \ {w},
             UNCHANGED <<index, clash>>
      PROVE  WritersOK'
  BY <1>2
<1>3. ASSUME NEW w \in Writers, WriteChunk(w) PROVE WritersOK'
  <2>1. ASSUME NEW i \in Chunks, WriteBegin(w, i) PROVE WritersOK'
    <3>1. /\ wpc[w] = "idle" /\ wpc'[w] # "open" /\ index'[w] = i /\ clash \subseteq clash' /\ fd' = fd
          /\ \A v \in Writers : v # w => wpc'[v] = wpc[v] /\ index'[v] = index[v]
          /\ \A v \in Writers : Active(v) /\ index[v] = i => i \in clash'
      BY <2>1 DEF WriteBegin, WGo
    <3>2. ASSUME NEW u \in Writers, NEW v \in Writers, u # v, Active(u)', Active(v)', index'[u] = index'[v]
          PROVE  index'[u] \in clash'
      <4>1. CASE u # w /\ v # w
        BY <3>1, <3>2, <4>1
      <4>2. CASE u = w
        BY <3>1, <3>2, <4>2
      <4>3. CASE v = w
        BY <3>1, <3>2, <4>3
      <4> QED BY <4>1, <4>2, <4>3
    <3>3. ASSUME NEW v \in Writers, wpc'[v] = "open" PROVE v \in fd' \/ index'[v] \in clash'
      BY <3>1, <3>3
    <3> QED BY <3>2, <3>3
  <2>2. CASE WriteOpen(w)
    BY <2>2 DEF WriteOpen, WGo
  <2>3. ASSUME NEW v \in {"good", "bad"}, WriteEnd(w, v) PROVE WritersOK'
    <3>1. wpc' = [wpc EXCEPT ![w] = "ended"] /\ fd' = fd \ {w} /\ UNCHANGED <<index, clash>>
      BY <2>3 DEF WriteEnd
    <3> QED BY <1>2, <3>1
  <2>4. CASE WriteWrong(w)
    <3>1. /\ wpc' = [wpc EXCEPT ![w] = "undo"] /\ fd' = fd \ {w} /\ UNCHANGED <<index, clash>>
          /\ wpc[w] \in {"checked", "open"}
      BY <2>4 DEF WriteWrong, Stored
    <3> QED BY <3>1
  <2>5. CASE WriteUndo(w)
    <3>1. /\ wpc[w] = "undo" /\ wpc' = [wpc EXCEPT ![w] = "ended"] /\ UNCHANGED <<index, clash>>
          /\ fd' \in {fd, fd \ {v \in Writers : index[v] = index[w]}}
      BY <2>5 DEF WriteUndo, WGo
    <3> QED BY <3>1
  <2> QED BY <1>3, <2>1, <2>2, <2>3, <2>4, <2>5 DEF WriteChunk
<1> HIDE DEF WritersOK
<1> QED BY <1>1, <1>2, <1>3, WritersElsewhere

\* Once a file is on the node there always is one.
LEMMA NodeStays == ASSUME Next, node # None PROVE node' # None
<1> USE DEF session, contents, writing, completing, remote, history
<1>1. ASSUME NEW c \in Completes, Complete(c) PROVE node' \in {node, "good", "bad"}
  BY <1>1 DEF Complete, CompleteBegin, CompleteList, ReadChunk, StoreData, CheckSum, Dispatch, Answer,
              Timeout, CompleteUndo, Finish, Fetch, RelayDelete
<1> QED BY <1>1, Elsewhere, UploadAssumption

\* A task that has delivered, and the clean-up of a Complete that was told so.
Told(c) == task[c] \in {"wrote", "answered"} \/ pc[c] = "delivered" \/ todo[c] # {}

\* They begin with the file on the node.
LEMMA ToldStep ==
    ASSUME TypeOK, TodoOK, Next, NEW c \in Completes, Told(c)' PROVE node' # None
<1> USE DEF TypeOK, session, contents, writing, completing, remote, history
<1>n. c \in Removers
  BY Sorts
<1>1. CASE Told(c)
  BY <1>1, NodeStays DEF Told, TodoOK
<1>2. CASE node' \in {"good", "bad"}
  BY <1>2, UploadAssumption
<1>3. CASE Crash
  <2>1. todo'[c] \in {todo[c], {}} /\ task' = task /\ pc'[c] \in {pc[c], "failed"}
    BY <1>3, <1>n DEF Crash
  <2> QED BY <1>1, <2>1 DEF Told
<1>4. CASE Create \/ Tick
  BY <1>1, <1>4 DEF Create, Tick, Told
<1>5. ASSUME NEW w \in Writers, WriteChunk(w) PROVE node' # None
  BY <1>1, <1>5 DEF WriteChunk, WriteBegin, WriteOpen, WriteEnd, WriteWrong, WriteUndo, Told
<1>6. ASSUME NEW d \in Completes, Complete(d) PROVE node' # None
  <2>1. CASE d # c
    <3>1. pc'[c] = pc[c] /\ task'[c] = task[c] /\ todo'[c] = todo[c]
      <4>1. pc'[c] = pc[c]
        BY <1>6, <2>1 DEF Complete, CompleteBegin, CompleteList, ReadChunk, StoreData, CheckSum, Dispatch,
                          Answer, Timeout, CompleteUndo, Finish, Fetch, RelayDelete, Go
      <4>2. task'[c] = task[c]
        BY <1>6, <2>1 DEF Complete, CompleteBegin, CompleteList, ReadChunk, StoreData, CheckSum, Dispatch,
                          Answer, Timeout, CompleteUndo, Finish, Fetch, RelayDelete, Ends
      <4>3. todo'[c] = todo[c]
        BY <1>6, <1>n, <2>1 DEF Complete, CompleteBegin, CompleteList, ReadChunk, StoreData, CheckSum, Dispatch,
                          Answer, Timeout, CompleteUndo, Finish, Fetch, RelayDelete
      <4> QED BY <4>1, <4>2, <4>3
    <3> QED BY <1>1, <3>1 DEF Told
  <2>2. CASE d = c
    <3>1. CASE CompleteBegin(c) \/ CompleteList(c) \/ StoreData(c) \/ CheckSum(c) \/ CompleteUndo(c)
      BY <1>1, <3>1 DEF CompleteBegin, CompleteList, StoreData, CheckSum, CompleteUndo, Go, Told
    <3>2. CASE ReadChunk(c)
      BY <1>1, <3>2 DEF ReadChunk, Go, Told
    <3>3. CASE Dispatch(c)
      BY <1>1, <3>3 DEF Dispatch, Go, Told
    <3>4. CASE Answer(c) \/ Timeout(c)
      BY <1>1, <3>4 DEF Answer, Timeout, Go, Told
    <3>5. CASE Finish(c)
      BY <1>1, <3>5 DEF Finish, Go, Told
    <3>6. CASE Fetch(c)
      BY <1>1, <1>2, <3>6 DEF Fetch, Ends, Told
    <3>7. CASE RelayDelete(c)
      BY <1>1, <3>7 DEF RelayDelete, Ends, Told
    <3> QED BY <1>6, <2>2, <3>1, <3>2, <3>3, <3>4, <3>5, <3>6, <3>7 DEF Complete
  <2> QED BY <2>1, <2>2
<1>7. ASSUME NEW r \in Removers, Remove(r) PROVE node' # None
  <2>1. CASE Abort(r) \/ Sweep(r)
    <3>1. r # c /\ StartRemoval(r)
      BY <2>1, UploadAssumption DEF Abort, Sweep
    <3>2. todo'[c] = todo[c] /\ UNCHANGED <<task, pc>>
      BY <1>n, <3>1 DEF StartRemoval
    <3> QED BY <1>1, <3>2 DEF Told
  <2>2. CASE RemoveOne(r)
    <3>1. UNCHANGED <<task, pc>> /\ (r # c => todo'[c] = todo[c]) /\ (r = c => todo[c] # {})
      BY <1>n, <2>2 DEF RemoveOne
    <3> QED BY <1>1, <3>1 DEF Told
  <2> QED BY <1>7, <2>1, <2>2 DEF Remove
<1> QED BY <1>3, <1>4, <1>5, <1>6, <1>7 DEF Next, Step

\* The lists of files grow only when a deletion starts.
LEMMA TodoChange ==
    ASSUME TypeOK, Next, NEW r \in Removers
    PROVE  \/ todo'[r] \subseteq todo[r]
           \/ r \in Completes /\ todo[r] # {} /\ todo'[r] = {DataFile}
           \/ r \in Completes /\ todo'[r] = Found(Chunks) \cup {DataFile}
           \/ r \in Removals /\ age # "new" /\ todo'[r] = Found(Files)
<1> USE DEF TypeOK, session, contents, writing, completing, remote, history
<1>1. CASE Crash
  BY <1>1 DEF Crash
<1>2. CASE Create \/ Tick
  BY <1>2 DEF Create, Tick
<1>3. ASSUME NEW w \in Writers, WriteChunk(w) PROVE todo' = todo
  BY <1>3 DEF WriteChunk, WriteBegin, WriteOpen, WriteEnd, WriteWrong, WriteUndo
<1>4. ASSUME NEW d \in Completes, Complete(d)
      PROVE  todo' = todo \/ todo' = [todo EXCEPT ![d] = Found(Chunks) \cup {DataFile}]
  BY <1>4 DEF Complete, CompleteBegin, CompleteList, ReadChunk, StoreData, CheckSum, Dispatch,
              Answer, Timeout, CompleteUndo, Finish, Fetch, RelayDelete
<1>5. ASSUME NEW q \in Removers, Abort(q) \/ Sweep(q)
      PROVE  q \in Removals /\ age # "new" /\ todo' = [todo EXCEPT ![q] = Found(Files)]
  BY <1>5 DEF Abort, Sweep, Loads, StartRemoval
<1>6. ASSUME NEW q \in Removers, RemoveOne(q)
      PROVE  \/ \E f : todo' = [todo EXCEPT ![q] = todo[q] \ {f}]
             \/ q \in Completes /\ todo[q] # {} /\ todo' = [todo EXCEPT ![q] = {DataFile}]
             \/ todo' = [todo EXCEPT ![q] = {}]
  BY <1>6 DEF RemoveOne
<1>7. ASSUME NEW q \in Removers, Remove(q)
      PROVE  \/ todo'[r] \subseteq todo[r]
             \/ r \in Completes /\ todo[r] # {} /\ todo'[r] = {DataFile}
             \/ r \in Removals /\ age # "new" /\ todo'[r] = Found(Files)
  BY <1>5, <1>6, <1>7 DEF Remove
<1> QED BY <1>1, <1>2, <1>3, <1>4, <1>7 DEF Next, Step

LEMMA TodoStep == ASSUME TypeOK, TodoOK, Next PROVE TodoOK'
<1>1. \A c \in Completes : todo'[c] \subseteq Chunks \cup {DataFile}
  <2> TAKE c \in Completes
  <2>1. c \in Removers /\ c \notin Removals /\ todo[c] \subseteq Chunks \cup {DataFile}
    BY Sorts, UploadAssumption DEF TodoOK
  <2>2. Found(Chunks) \subseteq Chunks
    BY DEF Found
  <2> QED BY <2>1, <2>2, TodoChange
<1>2. \A c \in Completes : Told(c)' => node' # None
  BY ToldStep
<1>3. store' = "local" => \A r \in Removers : todo'[r] \subseteq {DataFile}
  <2> SUFFICES ASSUME store = "local", NEW r \in Removers PROVE todo'[r] \subseteq {DataFile}
    BY DEF Next
  <2>1. todo[r] \subseteq {DataFile} /\ Found(Chunks) = {} /\ Found(Files) = {}
    BY DEF TodoOK, Found
  <2> QED BY <2>1, TodoChange
<1>4. age' = "new" => ~Removing'
  <2>1. age' = "new" => age = "new"
    BY DEF Next, Step, Create, Tick, Crash, WriteChunk, WriteBegin, WriteOpen, WriteEnd, WriteWrong, WriteUndo,
           Complete, CompleteBegin, CompleteList, ReadChunk, StoreData, CheckSum, Dispatch, Answer, Timeout,
           CompleteUndo, Finish, Fetch, RelayDelete, Remove, Abort, Sweep, StartRemoval, RemoveOne, session
  <2>2. ASSUME age = "new", NEW r \in Removals PROVE todo'[r] = {}
    <3>1. r \in Removers /\ r \notin Completes /\ todo[r] = {}
      BY <2>2, Sorts, UploadAssumption DEF TodoOK, Removing
    <3> QED BY <2>2, <3>1, TodoChange
  <2> QED BY <2>1, <2>2 DEF Removing
<1> QED BY <1>1, <1>2, <1>3, <1>4 DEF TodoOK, Told

\* A call that is under way.
BusyWriter(w) == \/ WriteOpen(w) \/ (\E v \in {"good", "bad"} : WriteEnd(w, v))
                 \/ WriteWrong(w) \/ WriteUndo(w)
BusyComplete(c) == \/ CompleteList(c) \/ ReadChunk(c) \/ StoreData(c) \/ CheckSum(c) \/ Dispatch(c)
                   \/ Answer(c) \/ Timeout(c) \/ CompleteUndo(c) \/ Finish(c)

LEMMA BusyActs ==
    /\ \A w \in Writers : BusyWriter(w) => Busy
    /\ \A c \in Completes : BusyComplete(c) => Busy
<1>1. ASSUME NEW w \in Writers, BusyWriter(w) PROVE wpc[w] \notin Ended
  BY <1>1 DEF BusyWriter, WriteOpen, WriteEnd, WriteWrong, WriteUndo, Stored, WGo, Ended
<1>2. ASSUME NEW c \in Completes, BusyComplete(c) PROVE pc[c] \notin Ended
  BY <1>2 DEF BusyComplete, CompleteList, ReadChunk, StoreData, CheckSum, Dispatch, Answer, Timeout,
              CompleteUndo, Finish, Go, Ended
<1> QED BY <1>1, <1>2 DEF Busy

\* It leaves upload.json and the removals alone.
LEMMA BusyEffect ==
    ASSUME TypeOK, (\E w \in Writers : BusyWriter(w)) \/ (\E c \in Completes : BusyComplete(c))
    PROVE  UNCHANGED <<meta, raced>> /\ \A r \in Removals : todo'[r] = todo[r]
<1> USE DEF session, contents, writing, completing, remote, history
<1>1. ASSUME NEW w \in Writers, BusyWriter(w) PROVE UNCHANGED <<meta, raced, todo>>
  BY <1>1 DEF BusyWriter, WriteOpen, WriteEnd, WriteWrong, WriteUndo
<1>2. ASSUME NEW c \in Completes, BusyComplete(c)
      PROVE  UNCHANGED <<meta, raced>> /\ \A r \in Removals : todo'[r] = todo[r]
  <2>1. UNCHANGED <<meta, raced>> /\ (todo' = todo \/ \E fs : todo' = [todo EXCEPT ![c] = fs])
    BY <1>2 DEF BusyComplete, CompleteList, ReadChunk, StoreData, CheckSum, Dispatch, Answer, Timeout,
                CompleteUndo, Finish
  <2>2. \A r \in Removals : r \in Removers /\ r # c
    BY Sorts, UploadAssumption
  <2> QED BY <2>1, <2>2 DEF TypeOK
<1> QED BY <1>1, <1>2

\* What the other steps do to the files, the calls and the removals.
Quiet == /\ UNCHANGED <<meta, raced, acked>> /\ Present' \subseteq Present /\ (Busy' => Busy)
         /\ \A r \in Removals : todo'[r] \in {todo[r], {}}

LEMMA QuietSteps ==
    ASSUME TypeOK, Tick \/ Crash \/ (\E c \in Completes : Fetch(c) \/ RelayDelete(c)) PROVE Quiet
<1> USE DEF TypeOK, session, contents, writing, completing, remote, history
<1>r. Removals \subseteq Removers
  BY Sorts
<1>1. CASE Tick
  BY <1>1 DEF Tick, Quiet, Present, Busy
<1>2. CASE Crash
  <2>1. UNCHANGED <<meta, raced, acked>> /\ Present' = Present
    BY <1>2 DEF Crash, Present
  <2>2. Busy' => Busy
    <3>1. \A w \in Writers : wpc'[w] \in {wpc[w], "ended"}
      BY <1>2 DEF Crash
    <3>2. \A c \in Completes : pc'[c] \in {pc[c], "failed"}
      BY <1>2 DEF Crash
    <3> QED BY <3>1, <3>2 DEF Busy, Ended
  <2>3. \A r \in Removals : todo'[r] \in {todo[r], {}}
    BY <1>2, <1>r DEF Crash
  <2> QED BY <2>1, <2>2, <2>3 DEF Quiet
<1>3. ASSUME NEW c \in Completes, Fetch(c) \/ RelayDelete(c) PROVE Quiet
  <2>1. UNCHANGED <<meta, done, chunk, raced, acked, wpc, pc, todo>> /\ data' \in {data, None}
    BY <1>3 DEF Fetch, RelayDelete
  <2>2. Present' \subseteq Present
    BY <2>1 DEF Present
  <2>3. Busy' = Busy
    BY <2>1 DEF Busy
  <2> QED BY <2>1, <2>2, <2>3 DEF Quiet
<1> QED BY <1>1, <1>2, <1>3

\* Every step is one of these.
LEMMA StepKinds ==
    ASSUME TypeOK, Next
    PROVE  \/ (\E w \in Writers : BusyWriter(w)) \/ (\E c \in Completes : BusyComplete(c))
           \/ Quiet \/ Create
           \/ (\E w \in Writers, i \in Chunks : WriteBegin(w, i))
           \/ (\E c \in Completes : CompleteBegin(c))
           \/ (\E r \in Removals : StartRemoval(r) /\ meta /\ age # "new")
           \/ (\E r \in Removers : RemoveOne(r))
<1>1. CASE Tick \/ Crash \/ Create
  BY <1>1, QuietSteps
<1>2. ASSUME NEW w \in Writers, WriteChunk(w) PROVE BusyWriter(w) \/ \E i \in Chunks : WriteBegin(w, i)
  BY <1>2 DEF WriteChunk, BusyWriter
<1>3. ASSUME NEW c \in Completes, Complete(c) PROVE BusyComplete(c) \/ CompleteBegin(c) \/ Quiet
  BY <1>3, QuietSteps DEF Complete, BusyComplete
<1>4. ASSUME NEW r \in Removers, Remove(r)
      PROVE  RemoveOne(r) \/ (r \in Removals /\ StartRemoval(r) /\ meta /\ age # "new")
  BY <1>4 DEF Remove, Abort, Sweep, Loads
<1> QED BY <1>1, <1>2, <1>3, <1>4 DEF Next, Step

\* Deleting one file.
LEMMA RemoveEffect ==
    ASSUME TypeOK, NEW r \in Removers, RemoveOne(r)
    PROVE  /\ UNCHANGED <<raced, acked, clash, wpc, pc, node>>
           /\ \A q \in Removers : q # r => todo'[q] = todo[q]
           /\ \/ /\ todo'[r] = todo[r] \ {NextFile(todo[r])}
                 /\ Present' = Present \ {NextFile(todo[r])}
                 /\ meta' = (meta /\ NextFile(todo[r]) # MetaFile)
              \/ /\ UNCHANGED <<meta, done, chunk, data>>
                 /\ r \in Completes \/ todo'[r] = {}
<1> USE DEF TypeOK, session, contents, writing, completing, remote, history
<1>1. UNCHANGED <<raced, acked, clash, wpc, pc, node>>
  BY DEF RemoveOne
<1>2. \A q \in Removers : q # r => todo'[q] = todo[q]
  BY DEF RemoveOne
<1>3. CASE Fault
  BY <1>1, <1>2, <1>3 DEF RemoveOne, Fault
<1>4. CASE UNCHANGED faults
  <2> DEFINE f == NextFile(todo[r])
  <2>1. /\ todo' = [todo EXCEPT ![r] = @ \ {f}]
        /\ meta' = (meta /\ f # MetaFile) /\ done' = (done /\ f # DoneFile)
        /\ data' = (IF f = DataFile THEN None ELSE data)
        /\ chunk' = [i \in Chunks |-> IF i = f THEN None ELSE chunk[i]]
    BY <1>4 DEF RemoveOne, Fault
  <2> HIDE DEF f
  <2>2. todo'[r] = todo[r] \ {f}
    BY <2>1
  <2>3. {i \in Chunks : chunk'[i] # None} = {i \in Chunks : chunk[i] # None} \ {f}
    BY <2>1
  <2>4. Present' = Present \ {f}
    BY <2>1, <2>3, Sorts DEF Present
  <2> QED BY <1>1, <1>2, <2>1, <2>2, <2>4 DEF f
<1> QED BY <1>3, <1>4 DEF RemoveOne

\* A removal finds everything there is, and what is under way beside it is told.
LEMMA RemovalStep == ASSUME TypeOK, TodoOK, RemovalOK, Next PROVE RemovalOK'
<1> USE DEF TypeOK, session, contents, writing, completing, remote, history
<1>r. \A r \in Removals : r \in Removers /\ r \notin Completes
  BY Sorts, UploadAssumption
<1>1. CASE (\E w \in Writers : BusyWriter(w)) \/ (\E c \in Completes : BusyComplete(c))
  <2>1. Busy /\ UNCHANGED <<meta, raced>> /\ \A r \in Removals : todo'[r] = todo[r]
    BY <1>1, BusyActs, BusyEffect
  <2> QED BY <2>1 DEF RemovalOK, Removing
<1>2. CASE Quiet
  BY <1>2 DEF Quiet, RemovalOK, Removing
<1>3. CASE Create
  <2>1. ~Removing /\ meta' /\ todo' = todo
    BY <1>3 DEF Create, TodoOK
  <2> QED BY <2>1 DEF RemovalOK, Removing
<1>4. ASSUME NEW w \in Writers, NEW i \in Chunks, WriteBegin(w, i) PROVE RemovalOK'
  <2>1. todo' = todo /\ raced' = (raced \/ Removing) /\ meta' = meta
    BY <1>4 DEF WriteBegin
  <2>2. meta \/ (Busy' => Busy)
    <3>1. CASE Loads
      BY <3>1 DEF Loads
    <3>2. CASE ~Loads
      <4>1. wpc' = [wpc EXCEPT ![w] = "ended"] /\ pc' = pc
        BY <1>4, <3>2 DEF WriteBegin, WGo
      <4> QED BY <4>1 DEF Busy, Ended
    <3> QED BY <3>1, <3>2
  <2> QED BY <2>1, <2>2 DEF RemovalOK, Removing
<1>5. ASSUME NEW c \in Completes, CompleteBegin(c) PROVE RemovalOK'
  <2>1. todo' = todo /\ raced' = (raced \/ Removing) /\ meta' = meta
    BY <1>5 DEF CompleteBegin
  <2>2. meta \/ (Busy' => Busy)
    <3>1. CASE Loads
      BY <3>1 DEF Loads
    <3>2. CASE ~Loads
      <4>1. pc' = [pc EXCEPT ![c] = "failed"] /\ wpc' = wpc
        BY <1>5, <3>2 DEF CompleteBegin, Go
      <4> QED BY <4>1 DEF Busy, Ended
    <3> QED BY <3>1, <3>2
  <2> QED BY <2>1, <2>2 DEF RemovalOK, Removing
<1>6. ASSUME NEW r \in Removals, StartRemoval(r) PROVE RemovalOK'
  <2>1. /\ todo' = [todo EXCEPT ![r] = Found(Files)] /\ raced' = (raced \/ Busy) /\ acked' = {}
        /\ UNCHANGED <<meta, done, chunk, data, wpc, pc>>
    BY <1>6 DEF StartRemoval
  <2>2. Present' = Present /\ Busy' = Busy
    BY <2>1 DEF Present, Busy
  <2>3. Present \subseteq Files
    BY Sorts DEF Present
  <2>4. Found(Files) # {} => Present \subseteq Found(Files)
    BY <2>3 DEF Found
  <2>5. \A q \in Removals : todo'[q] = IF q = r THEN Found(Files) ELSE todo[q]
    BY <1>r, <2>1
  <2> QED BY <2>1, <2>2, <2>4, <2>5 DEF RemovalOK
<1>7. ASSUME NEW r \in Removers, RemoveOne(r) PROVE RemovalOK'
  <2>1. /\ UNCHANGED <<raced, acked, wpc, pc>>
        /\ \A q \in Removers : q # r => todo'[q] = todo[q]
        /\ \/ /\ todo'[r] = todo[r] \ {NextFile(todo[r])}
              /\ Present' = Present \ {NextFile(todo[r])}
              /\ meta' = (meta /\ NextFile(todo[r]) # MetaFile)
           \/ /\ UNCHANGED <<meta, done, chunk, data>>
              /\ r \in Completes \/ todo'[r] = {}
    BY <1>7, RemoveEffect
  <2>2. Busy' = Busy
    BY <2>1 DEF Busy
  <2>3. Present' \subseteq Present
    BY <2>1 DEF Present
  <2>4. \A q \in Removals : \/ todo'[q] \in {todo[q], {}}
                            \/ todo[q] # {} /\ todo'[q] = todo[q] \ {NextFile(todo[q])}
                               /\ Present' = Present \ {NextFile(todo[q])}
    BY <1>r, <1>7, <2>1 DEF RemoveOne
  <2>5. Removing' => Removing
    BY <2>4 DEF Removing
  <2>6. ~meta' => ~meta \/ Removing
    <3> SUFFICES ASSUME ~meta', meta PROVE Removing
      OBVIOUS
    <3>1. NextFile(todo[r]) = MetaFile
      BY <2>1
    <3>2. todo[r] # {} /\ todo[r] \subseteq Files
      BY <1>7 DEF RemoveOne
    <3>3. todo[r] = {MetaFile}
      BY <3>1, <3>2, MetaIsLast
    <3>4. r \in Removals
      BY <3>3, Sorts DEF TodoOK, Removers
    <3> QED BY <3>2, <3>4 DEF Removing
  <2> QED BY <2>1, <2>2, <2>3, <2>4, <2>5, <2>6 DEF RemovalOK
<1> QED BY <1>1, <1>2, <1>3, <1>4, <1>5, <1>6, <1>7, StepKinds

\* upload.json is deleted last, when nothing else is left.
LEMMA OrphansStep == ASSUME TypeOK, TodoOK, RemovalOK, NoOrphans, Next PROVE NoOrphans'
<1> USE DEF TypeOK, session, contents, writing, completing, remote, history
<1>1. CASE (\E w \in Writers : BusyWriter(w)) \/ (\E c \in Completes : BusyComplete(c))
  <2>1. Busy /\ UNCHANGED <<meta, raced>>
    BY <1>1, BusyActs, BusyEffect
  <2> QED BY <2>1 DEF RemovalOK, NoOrphans
<1>2. CASE Quiet
  BY <1>2 DEF Quiet, NoOrphans
<1>3. CASE Create
  BY <1>3 DEF Create, NoOrphans
<1>4. CASE UNCHANGED <<meta, done, chunk, data>> /\ (raced => raced')
  <2>1. Present' = Present
    BY <1>4 DEF Present
  <2> QED BY <1>4, <2>1 DEF NoOrphans
<1>5. ASSUME NEW w \in Writers, NEW i \in Chunks, WriteBegin(w, i) PROVE NoOrphans'
  BY <1>4, <1>5 DEF WriteBegin
<1>6. ASSUME NEW c \in Completes, CompleteBegin(c) PROVE NoOrphans'
  BY <1>4, <1>6 DEF CompleteBegin
<1>7. ASSUME NEW r \in Removals, StartRemoval(r) PROVE NoOrphans'
  BY <1>4, <1>7 DEF StartRemoval
<1>8. ASSUME NEW r \in Removers, RemoveOne(r) PROVE NoOrphans'
  <2> SUFFICES ASSUME ~meta', ~raced' PROVE Present' = {}
    BY DEF NoOrphans
  <2>1. CASE UNCHANGED <<meta, done, chunk, data>>
    BY <1>4, <1>8, <2>1, RemoveEffect DEF NoOrphans
  <2>2. CASE /\ Present' = Present \ {NextFile(todo[r])}
             /\ meta' = (meta /\ NextFile(todo[r]) # MetaFile)
    <3>1. ~raced
      BY <1>8, RemoveEffect
    <3>2. CASE ~meta
      BY <2>2, <3>1, <3>2 DEF NoOrphans
    <3>3. CASE meta
      <4>1. NextFile(todo[r]) = MetaFile /\ todo[r] # {} /\ todo[r] \subseteq Files
        BY <1>8, <2>2, <3>3 DEF RemoveOne
      <4>2. todo[r] = {MetaFile}
        BY <4>1, MetaIsLast
      <4>3. r \in Removals
        BY <4>2, Sorts DEF TodoOK, Removers
      <4>4. Present \subseteq {MetaFile}
        BY <3>1, <4>2, <4>3 DEF RemovalOK
      <4> QED BY <2>2, <4>1, <4>4
    <3> QED BY <3>2, <3>3
  <2> QED BY <1>8, <2>1, <2>2, RemoveEffect
<1> QED BY <1>1, <1>2, <1>3, <1>5, <1>6, <1>7, <1>8, StepKinds

\* Who can lose a chunk: a failed write its own, a clean-up after the delivery,
\* a removal what nobody relies on any more.
LEMMA KeptStep ==
    ASSUME Base, WritersOK, TodoOK, RemovalOK, AcceptedChunkIsKept, Next PROVE AcceptedChunkIsKept'
<1> USE DEF session, contents, writing, completing, remote, history
<1>t. TypeOK
  BY DEF Base
<1>k. ASSUME raced => raced', acked' \ clash' \subseteq acked \ clash, node # None => node' # None,
             \A i \in acked' \ clash' : chunk[i] # None => chunk'[i] # None
      PROVE  AcceptedChunkIsKept'
  BY <1>k DEF AcceptedChunkIsKept
<1>n. node # None => node' # None
  BY NodeStays
<1>1. CASE Create \/ Tick \/ Crash
  BY <1>n, <1>k, <1>1 DEF Create, Tick, Crash
<1>2. ASSUME NEW c \in Completes, Complete(c) PROVE AcceptedChunkIsKept'
  <2>1. UNCHANGED <<chunk, acked, clash>>
    BY <1>2 DEF Complete, CompleteBegin, CompleteList, ReadChunk, StoreData, CheckSum, Dispatch, Answer,
                Timeout, CompleteUndo, Finish, Fetch, RelayDelete
  <2>2. CompleteBegin(c) \/ raced' = raced
    BY <1>2 DEF Complete, CompleteList, ReadChunk, StoreData, CheckSum, Dispatch, Answer, Timeout,
                CompleteUndo, Finish, Fetch, RelayDelete
  <2>3. raced => raced'
    BY <2>2 DEF CompleteBegin
  <2> QED BY <1>n, <1>k, <2>1, <2>3
<1>3. ASSUME NEW r \in Removers, Remove(r) PROVE AcceptedChunkIsKept'
  <2>1. CASE Abort(r) \/ Sweep(r)
    BY <2>1 DEF Abort, Sweep, StartRemoval, AcceptedChunkIsKept
  <2>2. CASE RemoveOne(r)
    <3>1. UNCHANGED <<acked, clash, raced, node>> /\ todo[r] # {}
      BY <2>2 DEF RemoveOne
    <3>2. CASE r \in Completes
      BY <3>1, <3>2 DEF TodoOK, AcceptedChunkIsKept
    <3>3. CASE r \in Removals
      BY <3>1, <3>3 DEF RemovalOK, Removing, AcceptedChunkIsKept
    <3> QED BY <3>2, <3>3 DEF Removers
  <2> QED BY <1>3, <2>1, <2>2 DEF Remove
<1>4. ASSUME NEW w \in Writers, WriteChunk(w) PROVE AcceptedChunkIsKept'
  <2>i. index[w] \in Chunks /\ chunk \in [Chunks -> Content \cup {None}] /\ acked \subseteq Chunks /\ None \notin Content
    BY <1>t, Sorts DEF TypeOK
  <2>c. "part" \in Content /\ "good" \in Content /\ "bad" \in Content
    BY DEF Content
  <2>s. ASSUME NEW u \in Content, chunk' = [chunk EXCEPT ![index[w]] = u]
        PROVE  chunk'[index[w]] # None /\ \A i \in Chunks : chunk[i] # None => chunk'[i] # None
    BY <2>i, <2>s
  <2>1. ASSUME NEW i \in Chunks, WriteBegin(w, i) PROVE AcceptedChunkIsKept'
    BY <1>n, <1>k, <2>1 DEF WriteBegin
  <2>2. CASE WriteOpen(w)
    <3>1. \A i \in Chunks : chunk[i] # None => chunk'[i] # None
      BY <2>2, <2>c, <2>s DEF WriteOpen
    <3> QED BY <1>n, <1>k, <2>2, <2>i, <3>1 DEF WriteOpen
  <2>3. ASSUME NEW v \in {"good", "bad"}, WriteEnd(w, v) PROVE AcceptedChunkIsKept'
    <3>1. /\ acked' = acked \cup {index[w]} /\ UNCHANGED <<clash, raced, node>> /\ Stored(w, v)
      BY <2>3 DEF WriteEnd
    <3>2. CASE chunk' = chunk /\ wpc[w] = "open" /\ w \notin fd
      <4>1. index[w] \in clash
        BY <3>2 DEF WritersOK
      <4> QED BY <1>n, <1>k, <3>1, <3>2, <4>1
    <3>3. ASSUME NEW u \in Content, chunk' = [chunk EXCEPT ![index[w]] = u] PROVE AcceptedChunkIsKept'
      <4>1. chunk'[index[w]] # None /\ \A i \in Chunks : chunk[i] # None => chunk'[i] # None
        BY <2>s, <3>3
      <4> QED BY <2>i, <3>1, <4>1 DEF AcceptedChunkIsKept
    <3> QED BY <2>c, <3>1, <3>2, <3>3, StoredEffect
  <2>4. CASE WriteWrong(w)
    <3>1. UNCHANGED <<acked, clash, raced, node>> /\ (Stored(w, "part") \/ chunk' = chunk)
      BY <2>4 DEF WriteWrong
    <3>2. \A i \in Chunks : chunk[i] # None => chunk'[i] # None
      BY <2>c, <2>s, <3>1, StoredEffect
    <3> QED BY <1>n, <1>k, <2>i, <3>1, <3>2
  <2>5. CASE WriteUndo(w)
    <3>1. /\ acked' = acked \ {index[w]} /\ UNCHANGED <<clash, raced, node>>
          /\ chunk' \in {chunk, [chunk EXCEPT ![index[w]] = None]}
      BY <2>5 DEF WriteUndo
    <3>2. \A i \in Chunks : i # index[w] => chunk'[i] = chunk[i]
      BY <2>i, <3>1
    <3> QED BY <1>n, <1>k, <2>i, <3>1, <3>2
  <2> QED BY <1>4, <2>1, <2>2, <2>3, <2>4, <2>5 DEF WriteChunk
<1> QED BY <1>1, <1>2, <1>3, <1>4 DEF Next, Step

LEMMA KeepInit == Init => KeepInv
<1> SUFFICES ASSUME Init PROVE KeepInv
  OBVIOUS
<1>1. Base
  BY InitType DEF Base, FdOK, Init
<1>2. WritersOK
  BY DEF WritersOK, Active, Ended, Init
<1>3. ~Removing /\ ~Busy /\ Present = {}
  BY Sorts DEF Removing, Busy, Ended, Present, Init
<1>4. \A r \in Removers : todo[r] = {}
  BY DEF Init
<1>5. TodoOK
  BY <1>3, <1>4, Sorts DEF TodoOK, Init
<1>6. RemovalOK
  BY <1>3, <1>4, Sorts DEF RemovalOK
<1>7. AcceptedChunkIsKept /\ NoOrphans
  BY <1>3 DEF AcceptedChunkIsKept, NoOrphans, Init
<1> QED BY <1>1, <1>2, <1>5, <1>6, <1>7 DEF KeepInv

LEMMA KeepStep == KeepInv /\ [Next]_vars => KeepInv'
<1> SUFFICES ASSUME KeepInv, [Next]_vars PROVE KeepInv'
  OBVIOUS
<1>1. CASE Next
  BY <1>1, BaseStep, WritersStep, TodoStep, RemovalStep, OrphansStep, KeptStep DEF KeepInv, Base
<1>2. CASE UNCHANGED vars
  <2>1. UNCHANGED <<store, age, meta, done, chunk, data, fd, wpc, index, pc, got, task, node, todo,
                    faults, acked, clash, unchecked, mixed, raced>>
    BY <1>2 DEF vars, session, contents, writing, completing, remote, history
  <2>2. Base'
    BY <2>1 DEF KeepInv, Base, TypeOK, FdOK
  <2>3. WritersOK' /\ TodoOK'
    BY <2>1 DEF KeepInv, WritersOK, Active, TodoOK, Removing
  <2>4. Present' = Present /\ Busy' = Busy /\ Removing' = Removing
    BY <2>1 DEF Present, Busy, Removing
  <2>5. RemovalOK' /\ NoOrphans' /\ AcceptedChunkIsKept'
    BY <2>1, <2>4 DEF KeepInv, RemovalOK, NoOrphans, AcceptedChunkIsKept
  <2> QED BY <2>2, <2>3, <2>5 DEF KeepInv
<1> QED BY <1>1, <1>2

\* A chunk that WriteChunk has answered with success stays until the file is on
\* the node, the session is removed or a later write of the chunk fails, whatever
\* fails or crashes; writes of one chunk side by side and calls beside a removal
\* are the exceptions.
THEOREM AcceptedStays == Spec => []AcceptedChunkIsKept
<1>1. KeepInv => AcceptedChunkIsKept
  BY DEF KeepInv
<1> QED BY KeepInit, KeepStep, <1>1, PTL DEF Spec

\* A deletion by prefix that is cut off anywhere leaves upload.json as long as it
\* leaves anything: the janitor finds what is left.
THEOREM NothingOutlivesMeta == Spec => []NoOrphans
<1>1. KeepInv => NoOrphans
  BY DEF KeepInv
<1> QED BY KeepInit, KeepStep, <1>1, PTL DEF Spec

=============================================================================
