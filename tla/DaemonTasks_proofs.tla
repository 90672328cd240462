------------------------ MODULE DaemonTasks_proofs ------------------------
(***************************************************************************)
(* What DaemonTasks guarantees for every set of tasks and every bound on   *)
(* streams, faults and output.                                             *)
(*                                                                         *)
(* Inv0 is the type invariant with the fact that a goroutine about to save *)
(* holds a task. On top of it:                                             *)
(*   Inv1        every outcome on its way was reported     (success)       *)
(*   Inv2        whoever saves error appended the reason   (failure)       *)
(*   Settlement, Link, FlushSent, Coverage                 (delivery)      *)
(* Each has an Init lemma and a Step lemma with one step per action.       *)
(***************************************************************************)
EXTENDS DaemonTasks, SequenceTheorems, TLAPS

\* A goroutine about to save holds a task.
CursorOK ==
    /\ \A c \in Conns : flush[c].pc = "save" => flush[c].cur \in Tasks
    /\ \A p \in Reconcilers : recon[p].pc = "save" => recon[p].cur \in Tasks

\* The typed states of the panel, the link and the daemon.
Inv0 == TypeOK /\ CursorOK

\* Replacing the state of one FlushPending goroutine keeps their type.
LEMMA FlushUpdate ==
    ASSUME Inv0, NEW c, NEW v \in FlushStates, v.pc = "save" => v.cur \in Tasks,
           flush' = [flush EXCEPT ![c] = v]
    PROVE  /\ flush' \in [Conns -> FlushStates]
           /\ \A d \in Conns : flush'[d].pc = "save" => flush'[d].cur \in Tasks
BY DEF Inv0, TypeOK, CursorOK

\* Replacing the state of one reconciliation keeps their type.
LEMMA ReconUpdate ==
    ASSUME Inv0, NEW p, NEW v \in ReconStates, v.pc = "save" => v.cur \in Tasks,
           recon' = [recon EXCEPT ![p] = v]
    PROVE  /\ recon' \in [Reconcilers -> ReconStates]
           /\ \A q \in Reconcilers : recon'[q].pc = "save" => recon'[q].cur \in Tasks
BY DEF Inv0, TypeOK, CursorOK

\* The panel starts with an empty table and no session.
LEMMA TypeInit == Init => Inv0
BY ConstantsAssumption
   DEF Init, Inv0, TypeOK, CursorOK, Messages, Updates, FlushStates, ReconStates, NoFlush,
         NoRecon, Conns, Reconcilers, Statuses, Terminal

\* Every step of a goroutine, of the daemon or of a fault keeps the types.
LEMMA TypeStep == Inv0 /\ [Next]_vars => Inv0'
<1> SUFFICES ASSUME Inv0, [Next]_vars PROVE Inv0'
  OBVIOUS
<1> USE ConstantsAssumption
    DEF Inv0, TypeOK, CursorOK, Messages, Updates, FlushStates, ReconStates, NoFlush,
         NoRecon, Conns, Reconcilers, Statuses, Terminal
<1> USE DEF rowVars, effectVars, linkVars, daemonVars
<1>1. ASSUME NEW t \in Tasks, DispatchSave(t)
      PROVE  Inv0'
  BY <1>1 DEF DispatchSave, Save
<1>2. ASSUME NEW t \in Tasks, DispatchSend(t)
      PROVE  Inv0'
  <2>1. toDaemon' \subseteq Tasks
    BY <1>2 DEF DispatchSend, SendTo
  <2>2. bus' \subseteq Tasks
    BY <1>2 DEF DispatchSend
  <2>3. \E x \in {"sent", "done"} : dispatch' = [dispatch EXCEPT ![t] = x]
    BY <1>2 DEF DispatchSend
  <2>4. dispatch' \in [Tasks -> {"idle", "saved", "sent", "done"}]
    BY <2>3
  <2> QED
    BY <1>2, <2>1, <2>2, <2>4 DEF DispatchSend
<1>3. ASSUME NEW t \in Tasks, DispatchResave(t)
      PROVE  Inv0'
  BY <1>3 DEF DispatchResave, Save
<1>4. ASSUME NEW t \in Tasks, BusDeliver(t)
      PROVE  Inv0'
  BY <1>4 DEF BusDeliver, SendTo
<1>5. ASSUME NEW t \in Tasks, CancelFind(t)
      PROVE  Inv0'
  BY <1>5 DEF CancelFind
<1>6. ASSUME NEW t \in Tasks, CancelSave(t)
      PROVE  Inv0'
  BY <1>6 DEF CancelSave, Save
<1>7. ASSUME NEW t \in Tasks, DaemonReceive(t)
      PROVE  Inv0'
  BY <1>7 DEF DaemonReceive
<1>8. ASSUME NEW t \in Tasks, DaemonStart(t)
      PROVE  Inv0'
  BY <1>8 DEF DaemonStart, Tell
<1>9. ASSUME NEW t \in Tasks, DaemonOutput(t)
      PROVE  Inv0'
  <2>1. [task |-> t, kind |-> "chunk"] \in Messages
    OBVIOUS
  <2>2. toPanel' \in Seq(Messages)
    BY <1>9, <2>1, AppendProperties DEF DaemonOutput, Tell
  <2> QED
    BY <1>9, <2>2 DEF DaemonOutput
<1>10. ASSUME NEW t \in Tasks, DaemonRedeliver(t)
      PROVE  Inv0'
  BY <1>10 DEF DaemonRedeliver, Tell
<1>11. ASSUME NEW t \in Tasks, NEW s \in {"success", "error"}, DaemonFinish(t, s)
      PROVE  Inv0'
  BY <1>11 DEF DaemonFinish, Tell
<1>12. ASSUME NEW c \in Conns, FlushFind(c)
      PROVE  Inv0'
  BY <1>12 DEF FlushFind, FindByStatus, FlushLoop
<1>13. ASSUME NEW c \in Conns, NEW t \in Tasks, FlushSend(c, t)
      PROVE  Inv0'
  <2>1. toDaemon' \subseteq Tasks
    BY <1>13 DEF FlushSend, SendTo
  <2> DEFINE v == [pc |-> "save", todo |-> flush[c].todo \ {t},
                   sess |-> flush[c].sess, cur |-> t]
  <2>2. v \in FlushStates /\ v.cur \in Tasks
    OBVIOUS
  <2>3. NoFlush \in FlushStates /\ NoFlush.pc # "save"
    OBVIOUS
  <2>4. flush' = [flush EXCEPT ![c] = v] \/ flush' = [flush EXCEPT ![c] = NoFlush]
    BY <1>13 DEF FlushSend
  <2> HIDE DEF v, NoFlush
  <2>5. /\ flush' \in [Conns -> FlushStates]
        /\ \A d \in Conns : flush'[d].pc = "save" => flush'[d].cur \in Tasks
    <3>1. CASE flush' = [flush EXCEPT ![c] = v]
      BY <2>2, <3>1, FlushUpdate
    <3>2. CASE flush' = [flush EXCEPT ![c] = NoFlush]
      BY <2>3, <3>2, FlushUpdate
    <3> QED
      BY <2>4, <3>1, <3>2
  <2> QED
    BY <1>13, <2>1, <2>5 DEF FlushSend
<1>14. ASSUME NEW c \in Conns, FlushSave(c)
      PROVE  Inv0'
  <2> DEFINE v == FlushLoop(flush[c].todo, flush[c].sess)
  <2>1. v \in FlushStates /\ v.pc # "save"
    BY DEF FlushLoop
  <2>2. flush' = [flush EXCEPT ![c] = v]
    BY <1>14 DEF FlushSave
  <2> HIDE DEF v
  <2>3. /\ flush' \in [Conns -> FlushStates]
        /\ \A d \in Conns : flush'[d].pc = "save" => flush'[d].cur \in Tasks
    BY <2>1, <2>2, FlushUpdate
  <2>4. row' \in [Tasks -> Statuses \cup {"none"}] /\ settled' \subseteq Tasks
    BY <1>14 DEF FlushSave, Save
  <2>5. late' \subseteq Tasks
    BY <1>14 DEF FlushSave
  <2> QED
    BY <1>14, <2>3, <2>4, <2>5 DEF FlushSave, Save
<1>15. CASE UpdateFind
  <2>1. Head(toPanel) \in Messages /\ Tail(toPanel) \in Seq(Messages)
    BY <1>15, HeadTailProperties DEF UpdateFind, Receiving
  <2>2. upd' \in Updates
    BY <1>15, <2>1 DEF UpdateFind
  <2> QED
    BY <1>15, <2>1, <2>2 DEF UpdateFind
<1>16. CASE UpdateSave
  <2>1. upd \in Updates
    BY <1>16 DEF UpdateSave
  <2>2. installed' \in {"not_installed", "in_progress", "installed"}
    BY <1>16 DEF UpdateSave, InstalledAfter
  <2>3. completions' \in [Tasks -> Nat]
    <3>1. CASE EmitCompletion(upd.task)
      BY <2>1, <3>1 DEF EmitCompletion
    <3>2. CASE UNCHANGED completions
      BY <3>2
    <3> QED
      BY <1>16, <3>1, <3>2 DEF UpdateSave
  <2>4. row' \in [Tasks -> Statuses \cup {"none"}] /\ settled' \subseteq Tasks
    BY <1>16, <2>1 DEF UpdateSave, Save
  <2> QED
    BY <1>16, <2>1, <2>2, <2>3, <2>4 DEF UpdateSave, Save
<1>17. CASE UpdateFail
  BY <1>17 DEF UpdateFail
<1>18. CASE HandleTaskOutput
  <2>1. Head(toPanel) \in Messages /\ Tail(toPanel) \in Seq(Messages)
    BY <1>18, HeadTailProperties DEF HandleTaskOutput, Receiving
  <2>2. output' \in [Tasks -> Seq({"chunk", "abandoned"})]
    <3>1. Head(toPanel).task \in Tasks
      BY <2>1
    <3>2. Append(output[Head(toPanel).task], "chunk") \in Seq({"chunk", "abandoned"})
      BY <3>1, AppendProperties
    <3> QED
      BY <1>18, <3>1, <3>2 DEF HandleTaskOutput, AppendOutput
  <2> QED
    BY <1>18, <2>1, <2>2 DEF HandleTaskOutput, AppendOutput
<1>19. ASSUME NEW p \in Reconcilers, ReconcileFind(p)
      PROVE  Inv0'
  <2> DEFINE v == MarkLoop(p, FindByStatus("working") \
                                 (IF p = "register" THEN inFlight ELSE {}))
  <2>1. v \in ReconStates /\ v.pc # "save"
    BY DEF MarkLoop, FindByStatus
  <2>2. recon' = [recon EXCEPT ![p] = v]
    BY <1>19 DEF ReconcileFind
  <2> HIDE DEF v
  <2>3. /\ recon' \in [Reconcilers -> ReconStates]
        /\ \A q \in Reconcilers : recon'[q].pc = "save" => recon'[q].cur \in Tasks
    BY <2>1, <2>2, ReconUpdate
  <2> QED
    BY <1>19, <2>3 DEF ReconcileFind
<1>20. ASSUME NEW p \in Reconcilers, NEW t \in Tasks, MarkAppend(p, t)
      PROVE  Inv0'
  BY <1>20 DEF MarkAppend, AppendOutput
<1>21. ASSUME NEW p \in Reconcilers, MarkSave(p)
      PROVE  Inv0'
  BY <1>21 DEF MarkSave, Save, InstalledAfter, EmitCompletion, MarkLoop
<1>22. CASE SweepFind
  BY <1>22 DEF SweepFind
<1>23. CASE DaemonConnect
  BY <1>23 DEF DaemonConnect, Held
<1>24. CASE Register
  BY <1>24 DEF Register
<1>25. CASE SendAck
  <2>1. toDaemon' \subseteq Tasks
    BY <1>25 DEF SendAck, FindByStatus
  <2>2. flush' \in [Conns -> FlushStates] /\ CursorOK'
    <3> DEFINE v == [pc |-> "find", todo |-> {}, sess |-> 0, cur |-> None]
    <3>1. v \in FlushStates /\ v.pc # "save"
      OBVIOUS
    <3> HIDE DEF v
    <3> QED
      BY <1>25, <3>1, FlushUpdate DEF SendAck, v
  <2> QED
    BY <1>25, <2>1, <2>2 DEF SendAck
<1>26. CASE ConnectFail
  BY <1>26 DEF ConnectFail
<1>27. CASE Unregister
  BY <1>27 DEF Unregister
<1>28. CASE StreamBreak
  <2>1. toPanel' \in Seq(Messages)
    <3>1. <<>> \in Seq(Messages)
      OBVIOUS
    <3> QED
      BY <1>28, <3>1 DEF StreamBreak
  <2> QED
    BY <1>28, <2>1 DEF StreamBreak
<1>29. CASE DaemonRestart
  BY <1>29 DEF DaemonRestart
<1>30. CASE PanelCrash
  <2>1. toPanel' \in Seq(Messages)
    <3>1. <<>> \in Seq(Messages)
      OBVIOUS
    <3> QED
      BY <1>30, <3>1 DEF PanelCrash
  <2>2. flush' \in [Conns -> FlushStates] /\ recon' \in [Reconcilers -> ReconStates]
    BY <1>30 DEF PanelCrash
  <2> QED
    BY <1>30, <2>1, <2>2 DEF PanelCrash
<1>31. CASE UNCHANGED vars
  BY <1>31 DEF vars
<1> HIDE DEF Inv0
<1> QED
  BY <1>1, <1>2, <1>3, <1>4, <1>5, <1>6, <1>7, <1>8, <1>9, <1>10, <1>11,
     <1>12, <1>13, <1>14, <1>15, <1>16, <1>17, <1>18, <1>19, <1>20, <1>21, <1>22,
     <1>23, <1>24, <1>25, <1>26, <1>27, <1>28, <1>29, <1>30, <1>31
     DEF Next, FlushPending, HandleTaskStatusUpdate, ReconcileWorkingTasks, Connect

\* Rows, outputs, program counters and messages always have their types.
THEOREM TypeCorrect == Spec => []TypeOK
<1>1. Inv0 => TypeOK
  BY DEF Inv0
<1> QED
  BY TypeInit, TypeStep, <1>1, PTL DEF Spec
----------------------------------------------------------------------------
\* The statuses that end an execution.
Outcomes == {"success", "error"}

\* What the daemon remembers, has under way, or is being handled, it reported.
Honest ==
    /\ \A t \in Tasks : doing[t] \in Outcomes => doing[t] \in reported[t]
    /\ \A i \in 1 .. Len(toPanel) :
         toPanel[i].kind \in Outcomes => toPanel[i].kind \in reported[toPanel[i].task]
    /\ upd # None /\ upd.status \in Outcomes => upd.status \in reported[upd.task]

\* Outcomes on their way and outcomes stored were reported.
Inv1 == Honest /\ SuccessIsReported

\* handleMessages takes the first message and leaves the others in order.
LEMMA TailMessages ==
    ASSUME Inv0, toPanel # <<>>, toPanel' = Tail(toPanel)
    PROVE  \A i \in 1 .. Len(toPanel') :
             i + 1 \in 1 .. Len(toPanel) /\ toPanel'[i] = toPanel[i + 1]
BY HeadTailProperties DEF Inv0, TypeOK

\* A message of the daemon is added to those under way.
LEMMA TellMessages ==
    ASSUME Inv0, NEW t \in Tasks, NEW k \in {"working", "success", "error", "chunk"},
           Tell(t, k)
    PROVE  \A i \in 1 .. Len(toPanel') :
             \/ i \in 1 .. Len(toPanel) /\ toPanel'[i] = toPanel[i]
             \/ toPanel'[i] = [task |-> t, kind |-> k]
<1> DEFINE m == [task |-> t, kind |-> k]
<1>1. m \in Messages
  BY DEF Messages
<1> HIDE DEF m
<1>2. toPanel \in Seq(Messages) /\ toPanel' = Append(toPanel, m)
  BY DEF Inv0, TypeOK, Tell, m
<1>3. /\ Len(toPanel') = Len(toPanel) + 1
      /\ \A i \in 1 .. Len(toPanel) : toPanel'[i] = toPanel[i]
      /\ toPanel'[Len(toPanel) + 1] = m
      /\ Len(toPanel) \in Nat
  BY <1>1, <1>2, AppendProperties
<1> QED
  BY <1>3 DEF m

\* A message the daemon sends with a status it reported keeps the stream honest.
LEMMA TellHonest ==
    ASSUME Inv0, Honest, NEW t \in Tasks,
           NEW k \in {"working", "success", "error", "chunk"}, Tell(t, k),
           \A u \in Tasks : reported[u] \subseteq reported'[u],
           k \in Outcomes => k \in reported'[t]
    PROVE  \A i \in 1 .. Len(toPanel') :
             toPanel'[i].kind \in Outcomes
                 => toPanel'[i].kind \in reported'[toPanel'[i].task]
<1> SUFFICES ASSUME NEW i \in 1 .. Len(toPanel'), toPanel'[i].kind \in Outcomes
             PROVE  toPanel'[i].kind \in reported'[toPanel'[i].task]
  OBVIOUS
<1>1. CASE i \in 1 .. Len(toPanel) /\ toPanel'[i] = toPanel[i]
  <2>1. toPanel[i] \in Messages
    BY <1>1, ElementOfSeq DEF Inv0, TypeOK
  <2> QED
    BY <1>1, <2>1 DEF Honest, Messages
<1>2. CASE toPanel'[i] = [task |-> t, kind |-> k]
  BY <1>2
<1> QED
  BY <1>1, <1>2, TellMessages

\* Nothing is reported at the start.
LEMMA HonestInit == Init => Inv1
BY DEF Init, Inv1, Honest, SuccessIsReported, Outcomes

\* No writer of rows, and no fault, turns anything into an unreported outcome.
LEMMA HonestStep == Inv0 /\ Inv1 /\ [Next]_vars => Inv1'
<1> SUFFICES ASSUME Inv0, Inv1, [Next]_vars PROVE Inv1'
  OBVIOUS
<1> USE ConstantsAssumption
    DEF Inv1, Honest, SuccessIsReported, Outcomes
<1> USE DEF rowVars, effectVars, linkVars, daemonVars
<1>1. ASSUME NEW t \in Tasks, DispatchSave(t)
      PROVE  Inv1'
  BY <1>1 DEF DispatchSave, Save, Inv0, TypeOK
<1>2. ASSUME NEW t \in Tasks, DispatchSend(t)
      PROVE  Inv1'
  BY <1>2 DEF DispatchSend, SendTo
<1>3. ASSUME NEW t \in Tasks, DispatchResave(t)
      PROVE  Inv1'
  BY <1>3 DEF DispatchResave, Save, Inv0, TypeOK
<1>4. ASSUME NEW t \in Tasks, BusDeliver(t)
      PROVE  Inv1'
  BY <1>4 DEF BusDeliver, SendTo
<1>5. ASSUME NEW t \in Tasks, CancelFind(t)
      PROVE  Inv1'
  BY <1>5 DEF CancelFind
<1>6. ASSUME NEW t \in Tasks, CancelSave(t)
      PROVE  Inv1'
  BY <1>6 DEF CancelSave, Save, Inv0, TypeOK
<1>7. ASSUME NEW t \in Tasks, DaemonReceive(t)
      PROVE  Inv1'
  BY <1>7 DEF DaemonReceive, Inv0, TypeOK
<1>8. ASSUME NEW t \in Tasks, DaemonStart(t)
      PROVE  Inv1'
  <2>1. \A u \in Tasks : reported[u] \subseteq reported'[u]
    BY <1>8 DEF DaemonStart, Inv0, TypeOK
  <2>2. Tell(t, "working") /\ ("working" \in Outcomes => "working" \in reported'[t])
    BY <1>8 DEF DaemonStart, Inv0, TypeOK
  <2>3. \A i \in 1 .. Len(toPanel') :
          toPanel'[i].kind \in Outcomes
              => toPanel'[i].kind \in reported'[toPanel'[i].task]
    BY <2>1, <2>2, TellHonest
  <2>4. \A u \in Tasks : doing'[u] \in Outcomes => doing'[u] \in reported'[u]
    BY <1>8 DEF DaemonStart, Inv0, TypeOK
  <2>5. upd' # None /\ upd'.status \in Outcomes => upd'.status \in reported'[upd'.task]
    BY <1>8, <2>1 DEF DaemonStart, Inv0, TypeOK, Updates
  <2>6. SuccessIsReported'
    BY <1>8, <2>1 DEF DaemonStart
  <2> QED
    BY <2>3, <2>4, <2>5, <2>6
<1>9. ASSUME NEW t \in Tasks, DaemonOutput(t)
      PROVE  Inv1'
  <2>1. \A u \in Tasks : reported[u] \subseteq reported'[u]
    BY <1>9 DEF DaemonOutput, Inv0, TypeOK
  <2>2. Tell(t, "chunk") /\ ("chunk" \in Outcomes => "chunk" \in reported'[t])
    BY <1>9 DEF DaemonOutput, Inv0, TypeOK
  <2>3. \A i \in 1 .. Len(toPanel') :
          toPanel'[i].kind \in Outcomes
              => toPanel'[i].kind \in reported'[toPanel'[i].task]
    BY <2>1, <2>2, TellHonest
  <2>4. \A u \in Tasks : doing'[u] \in Outcomes => doing'[u] \in reported'[u]
    BY <1>9 DEF DaemonOutput, Inv0, TypeOK
  <2>5. upd' # None /\ upd'.status \in Outcomes => upd'.status \in reported'[upd'.task]
    BY <1>9, <2>1 DEF DaemonOutput, Inv0, TypeOK, Updates
  <2>6. SuccessIsReported'
    BY <1>9, <2>1 DEF DaemonOutput
  <2> QED
    BY <2>3, <2>4, <2>5, <2>6
<1>10. ASSUME NEW t \in Tasks, DaemonRedeliver(t)
      PROVE  Inv1'
  <2> DEFINE k == IF doing[t] = "running" THEN "working" ELSE doing[t]
  <2>1. \A u \in Tasks : reported[u] \subseteq reported'[u]
    BY <1>10 DEF DaemonRedeliver
  <2>2. k \in {"working", "success", "error"} /\ (k \in Outcomes => k \in reported'[t])
    BY <1>10 DEF DaemonRedeliver
  <2>3. Tell(t, k)
    BY <1>10 DEF DaemonRedeliver
  <2> HIDE DEF k
  <2>4. \A i \in 1 .. Len(toPanel') :
          toPanel'[i].kind \in Outcomes
              => toPanel'[i].kind \in reported'[toPanel'[i].task]
    BY <2>1, <2>2, <2>3, TellHonest
  <2> QED
    BY <1>10, <2>4 DEF DaemonRedeliver
<1>11. ASSUME NEW t \in Tasks, NEW s \in {"success", "error"}, DaemonFinish(t, s)
      PROVE  Inv1'
  <2>1. \A u \in Tasks : reported[u] \subseteq reported'[u]
    BY <1>11 DEF DaemonFinish, Inv0, TypeOK
  <2>2. Tell(t, s) /\ (s \in Outcomes => s \in reported'[t])
    BY <1>11 DEF DaemonFinish, Inv0, TypeOK
  <2>3. \A i \in 1 .. Len(toPanel') :
          toPanel'[i].kind \in Outcomes
              => toPanel'[i].kind \in reported'[toPanel'[i].task]
    BY <2>1, <2>2, TellHonest
  <2>4. \A u \in Tasks : doing'[u] \in Outcomes => doing'[u] \in reported'[u]
    BY <1>11 DEF DaemonFinish, Inv0, TypeOK
  <2>5. upd' # None /\ upd'.status \in Outcomes => upd'.status \in reported'[upd'.task]
    BY <1>11, <2>1 DEF DaemonFinish, Inv0, TypeOK, Updates
  <2>6. SuccessIsReported'
    BY <1>11, <2>1 DEF DaemonFinish
  <2> QED
    BY <2>3, <2>4, <2>5, <2>6
<1>12. ASSUME NEW c \in Conns, FlushFind(c)
      PROVE  Inv1'
  BY <1>12 DEF FlushFind, FindByStatus, FlushLoop
<1>13. ASSUME NEW c \in Conns, NEW t \in Tasks, FlushSend(c, t)
      PROVE  Inv1'
  BY <1>13 DEF FlushSend, SendTo
<1>14. ASSUME NEW c \in Conns, FlushSave(c)
      PROVE  Inv1'
  BY <1>14 DEF FlushSave, Save, Inv0, TypeOK
<1>15. CASE UpdateFind
  <2>1. Head(toPanel) = toPanel[1] /\ 1 \in 1 .. Len(toPanel)
    BY <1>15 DEF UpdateFind, Receiving, Inv0, TypeOK
  <2>2. upd' # None /\ upd'.status \in Outcomes => upd'.status \in reported'[upd'.task]
    BY <1>15, <2>1 DEF UpdateFind
  <2>3. \A i \in 1 .. Len(toPanel') :
          toPanel'[i].kind \in Outcomes
              => toPanel'[i].kind \in reported'[toPanel'[i].task]
    BY <1>15, TailMessages DEF UpdateFind, Receiving
  <2> QED
    BY <1>15, <2>2, <2>3 DEF UpdateFind
<1>16. CASE UpdateSave
  BY <1>16 DEF UpdateSave, Save, InstalledAfter, Inv0, TypeOK, Updates
<1>17. CASE UpdateFail
  BY <1>17 DEF UpdateFail
<1>18. CASE HandleTaskOutput
  BY <1>18, TailMessages DEF HandleTaskOutput, Receiving, AppendOutput
<1>19. ASSUME NEW p \in Reconcilers, ReconcileFind(p)
      PROVE  Inv1'
  BY <1>19 DEF ReconcileFind, FindByStatus, MarkLoop
<1>20. ASSUME NEW p \in Reconcilers, NEW t \in Tasks, MarkAppend(p, t)
      PROVE  Inv1'
  BY <1>20 DEF MarkAppend, AppendOutput
<1>21. ASSUME NEW p \in Reconcilers, MarkSave(p)
      PROVE  Inv1'
  BY <1>21 DEF MarkSave, Save, InstalledAfter, Inv0, TypeOK
<1>22. CASE SweepFind
  BY <1>22 DEF SweepFind
<1>23. CASE DaemonConnect
  BY <1>23 DEF DaemonConnect, Held
<1>24. CASE Register
  BY <1>24 DEF Register
<1>25. CASE SendAck
  BY <1>25 DEF SendAck, FindByStatus
<1>26. CASE ConnectFail
  BY <1>26 DEF ConnectFail
<1>27. CASE Unregister
  BY <1>27 DEF Unregister
<1>28. CASE StreamBreak
  BY <1>28 DEF StreamBreak, Inv0, TypeOK
<1>29. CASE DaemonRestart
  BY <1>29 DEF DaemonRestart
<1>30. CASE PanelCrash
  BY <1>30 DEF PanelCrash
<1>31. CASE UNCHANGED vars
  BY <1>31 DEF vars
<1> HIDE DEF Inv1
<1> QED
  BY <1>1, <1>2, <1>3, <1>4, <1>5, <1>6, <1>7, <1>8, <1>9, <1>10, <1>11,
     <1>12, <1>13, <1>14, <1>15, <1>16, <1>17, <1>18, <1>19, <1>20, <1>21, <1>22,
     <1>23, <1>24, <1>25, <1>26, <1>27, <1>28, <1>29, <1>30, <1>31
     DEF Next, FlushPending, HandleTaskStatusUpdate, ReconcileWorkingTasks, Connect

\* A row says success, and the server is installed, only if the daemon reported
\* it, whatever order Dispatch, FlushPending, HandleTaskStatusUpdate,
\* reconciliation and cancel save their copies in.
THEOREM SuccessReported == Spec => []SuccessIsReported
<1>1. Inv1 => SuccessIsReported
  BY DEF Inv1
<1> QED
  BY TypeInit, TypeStep, HonestInit, HonestStep, <1>1, PTL DEF Spec
----------------------------------------------------------------------------
\* The output of t holds AbandonedTaskMessage.
Abandoned(t) == \E i \in 1 .. Len(output[t]) : output[t][i] = "abandoned"

\* A reconciliation about to save error has appended the explanation.
Inv2 ==
    /\ \A p \in Reconcilers : recon[p].pc = "save" => Abandoned(recon[p].cur)
    /\ FailureIsExplained

\* An append keeps what the output says and adds the item.
LEMMA AppendKeeps ==
    ASSUME Inv0, NEW t \in Tasks, NEW item \in {"chunk", "abandoned"},
           output' = [output EXCEPT ![t] = Append(@, item)]
    PROVE  /\ \A u \in Tasks : Abandoned(u) => Abandoned(u)'
           /\ item = "abandoned" => Abandoned(t)'
<1>1. output[t] \in Seq({"chunk", "abandoned"}) /\ output'[t] = Append(output[t], item)
  BY DEF Inv0, TypeOK
<1>2. /\ Len(output'[t]) = Len(output[t]) + 1
      /\ \A i \in 1 .. Len(output[t]) : output'[t][i] = output[t][i]
      /\ output'[t][Len(output[t]) + 1] = item
      /\ Len(output[t]) \in Nat
  BY <1>1, AppendProperties
<1>3. \A u \in Tasks \ {t} : output'[u] = output[u]
  BY DEF Inv0, TypeOK
<1>4. Abandoned(t) => Abandoned(t)'
  BY <1>2 DEF Abandoned
<1>5. item = "abandoned" => Abandoned(t)'
  BY <1>2 DEF Abandoned
<1> QED
  BY <1>3, <1>4, <1>5 DEF Abandoned

\* No row says error at the start.
LEMMA ExplainedInit == Init => Inv2
BY DEF Init, Inv2, FailureIsExplained, NoRecon, Reconcilers

\* Only UpdateSave and MarkSave write error, and MarkAppend comes before MarkSave.
LEMMA ExplainedStep == Inv0 /\ Inv1 /\ Inv2 /\ [Next]_vars => Inv2'
<1> SUFFICES ASSUME Inv0, Inv1, Inv2, [Next]_vars PROVE Inv2'
  OBVIOUS
<1> USE DEF Inv2, FailureIsExplained, Abandoned
<1> USE DEF rowVars, effectVars, linkVars, daemonVars
<1>1. ASSUME NEW t \in Tasks, DispatchSave(t)
      PROVE  Inv2'
  BY <1>1 DEF DispatchSave, Save, Inv0, TypeOK
<1>2. ASSUME NEW t \in Tasks, DispatchSend(t)
      PROVE  Inv2'
  BY <1>2 DEF DispatchSend, SendTo
<1>3. ASSUME NEW t \in Tasks, DispatchResave(t)
      PROVE  Inv2'
  BY <1>3 DEF DispatchResave, Save, Inv0, TypeOK
<1>4. ASSUME NEW t \in Tasks, BusDeliver(t)
      PROVE  Inv2'
  BY <1>4 DEF BusDeliver, SendTo
<1>5. ASSUME NEW t \in Tasks, CancelFind(t)
      PROVE  Inv2'
  BY <1>5 DEF CancelFind
<1>6. ASSUME NEW t \in Tasks, CancelSave(t)
      PROVE  Inv2'
  BY <1>6 DEF CancelSave, Save, Inv0, TypeOK
<1>7. ASSUME NEW t \in Tasks, DaemonReceive(t)
      PROVE  Inv2'
  BY <1>7 DEF DaemonReceive
<1>8. ASSUME NEW t \in Tasks, DaemonStart(t)
      PROVE  Inv2'
  BY <1>8 DEF DaemonStart, Inv0, TypeOK
<1>9. ASSUME NEW t \in Tasks, DaemonOutput(t)
      PROVE  Inv2'
  BY <1>9 DEF DaemonOutput, Tell
<1>10. ASSUME NEW t \in Tasks, DaemonRedeliver(t)
      PROVE  Inv2'
  BY <1>10 DEF DaemonRedeliver, Tell
<1>11. ASSUME NEW t \in Tasks, NEW s \in {"success", "error"}, DaemonFinish(t, s)
      PROVE  Inv2'
  BY <1>11 DEF DaemonFinish, Inv0, TypeOK
<1>12. ASSUME NEW c \in Conns, FlushFind(c)
      PROVE  Inv2'
  BY <1>12 DEF FlushFind, FindByStatus, FlushLoop
<1>13. ASSUME NEW c \in Conns, NEW t \in Tasks, FlushSend(c, t)
      PROVE  Inv2'
  BY <1>13 DEF FlushSend, SendTo
<1>14. ASSUME NEW c \in Conns, FlushSave(c)
      PROVE  Inv2'
  BY <1>14 DEF FlushSave, Save, Inv0, TypeOK
<1>15. CASE UpdateFind
  BY <1>15 DEF UpdateFind, Receiving
<1>16. CASE UpdateSave
  BY <1>16 DEF UpdateSave, Save, Inv0, TypeOK, Inv1, Honest, Outcomes, Updates
<1>17. CASE UpdateFail
  BY <1>17 DEF UpdateFail
<1>18. CASE HandleTaskOutput
  <2>1. Head(toPanel) \in Messages
    BY <1>18, HeadTailProperties DEF HandleTaskOutput, Receiving, Inv0, TypeOK
  <2>2. \A u \in Tasks : Abandoned(u) => Abandoned(u)'
    BY <1>18, <2>1, AppendKeeps DEF HandleTaskOutput, AppendOutput, Messages
  <2> HIDE DEF Abandoned
  <2> QED
    BY <1>18, <2>2 DEF HandleTaskOutput, AppendOutput, Inv0, CursorOK, Abandoned
<1>19. ASSUME NEW p \in Reconcilers, ReconcileFind(p)
      PROVE  Inv2'
  <2>1. \A q \in Reconcilers :
          recon'[q].pc = "save" => recon[q].pc = "save" /\ recon'[q] = recon[q]
    BY <1>19 DEF ReconcileFind, MarkLoop, NoRecon, Inv0, TypeOK, Reconcilers
  <2> QED
    BY <1>19, <2>1 DEF ReconcileFind
<1>20. ASSUME NEW p \in Reconcilers, NEW t \in Tasks, MarkAppend(p, t)
      PROVE  Inv2'
  <2>1. /\ \A u \in Tasks : Abandoned(u) => Abandoned(u)'
        /\ Abandoned(t)'
    BY <1>20, AppendKeeps DEF MarkAppend, AppendOutput
  <2>2. FailureIsExplained'
    BY <1>20, <2>1 DEF MarkAppend, AppendOutput
  <2>3. \A q \in Reconcilers : recon'[q].pc = "save" => Abandoned(recon[q].cur)'
    <3> HIDE DEF Abandoned
    <3> SUFFICES ASSUME NEW q \in Reconcilers, recon'[q].pc = "save"
                 PROVE  Abandoned(recon[q].cur)'
      OBVIOUS
    <3>1. CASE q = p
      <4>1. recon'[q].cur = t
        BY <1>20, <3>1 DEF MarkAppend, Inv0, TypeOK
      <4> QED
        BY <4>1, <2>1 DEF Abandoned
    <3>2. CASE q # p
      <4>1. recon'[q] = recon[q] /\ recon[q].cur \in Tasks
        BY <1>20, <3>2 DEF MarkAppend, Inv0, TypeOK, CursorOK
      <4> QED
        BY <4>1, <2>1 DEF Abandoned
    <3> QED
      BY <3>1, <3>2
  <2> QED
    BY <2>2, <2>3
<1>21. ASSUME NEW p \in Reconcilers, MarkSave(p)
      PROVE  Inv2'
  <2>1. recon[p].cur \in Tasks /\ Abandoned(recon[p].cur)
    BY <1>21 DEF MarkSave, Inv0, CursorOK
  <2>2. FailureIsExplained'
    BY <1>21, <2>1 DEF MarkSave, Save, Inv0, TypeOK
  <2>3. \A q \in Reconcilers :
          recon'[q].pc = "save" => recon[q].pc = "save" /\ recon'[q] = recon[q]
    BY <1>21 DEF MarkSave, MarkLoop, NoRecon, Inv0, TypeOK, Reconcilers
  <2> QED
    BY <1>21, <2>2, <2>3 DEF MarkSave, Save
<1>22. CASE SweepFind
  <2>1. \A q \in Reconcilers :
          recon'[q].pc = "save" => recon[q].pc = "save" /\ recon'[q] = recon[q]
    BY <1>22 DEF SweepFind, Inv0, TypeOK, Reconcilers
  <2> QED
    BY <1>22, <2>1 DEF SweepFind
<1>23. CASE DaemonConnect
  <2>1. \A q \in Reconcilers :
          recon'[q].pc = "save" => recon[q].pc = "save" /\ recon'[q] = recon[q]
    BY <1>23 DEF DaemonConnect, Inv0, TypeOK, Reconcilers
  <2> QED
    BY <1>23, <2>1 DEF DaemonConnect
<1>24. CASE Register
  <2>1. \A q \in Reconcilers :
          recon'[q].pc = "save" => recon[q].pc = "save" /\ recon'[q] = recon[q]
    BY <1>24 DEF Register, NoRecon, Inv0, TypeOK, Reconcilers
  <2> QED
    BY <1>24, <2>1 DEF Register
<1>25. CASE SendAck
  BY <1>25 DEF SendAck, FindByStatus
<1>26. CASE ConnectFail
  <2>1. \A q \in Reconcilers :
          recon'[q].pc = "save" => recon[q].pc = "save" /\ recon'[q] = recon[q]
    BY <1>26 DEF ConnectFail, NoRecon, Inv0, TypeOK, Reconcilers
  <2> QED
    BY <1>26, <2>1 DEF ConnectFail
<1>27. CASE Unregister
  BY <1>27 DEF Unregister
<1>28. CASE StreamBreak
  BY <1>28 DEF StreamBreak
<1>29. CASE DaemonRestart
  BY <1>29 DEF DaemonRestart
<1>30. CASE PanelCrash
  <2>1. \A q \in Reconcilers :
          recon'[q].pc = "save" => recon[q].pc = "save" /\ recon'[q] = recon[q]
    BY <1>30 DEF PanelCrash, NoRecon, Inv0, TypeOK, Reconcilers
  <2> QED
    BY <1>30, <2>1 DEF PanelCrash
<1>31. CASE UNCHANGED vars
  BY <1>31 DEF vars
<1> HIDE DEF Inv2
<1> QED
  BY <1>1, <1>2, <1>3, <1>4, <1>5, <1>6, <1>7, <1>8, <1>9, <1>10, <1>11,
     <1>12, <1>13, <1>14, <1>15, <1>16, <1>17, <1>18, <1>19, <1>20, <1>21, <1>22,
     <1>23, <1>24, <1>25, <1>26, <1>27, <1>28, <1>29, <1>30, <1>31
     DEF Next, FlushPending, HandleTaskStatusUpdate, ReconcileWorkingTasks, Connect

\* A row says error only if the daemon reported it or the output explains that the
\* task was abandoned, even if the panel crashes inside markTaskAbandoned.
THEOREM FailureExplained == Spec => []FailureIsExplained
<1>1. Inv2 => FailureIsExplained
  BY DEF Inv2
<1> QED
  BY TypeInit, TypeStep, HonestInit, HonestStep, ExplainedInit, ExplainedStep,
     <1>1, PTL DEF Spec
----------------------------------------------------------------------------
\* What the daemon knows of, and what was terminal, is settled; Dispatch has a row.
Settlement ==
    /\ \A t \in Tasks : dispatch[t] # "idle" => row[t] # "none"
    /\ \A t \in Tasks : doing[t] # "unknown" => t \in settled
    /\ \A t \in Tasks : row[t] \in Terminal => t \in settled
    /\ \A i \in 1 .. Len(toPanel) : toPanel[i].task \in settled
    /\ upd # None => upd.task \in settled
    /\ inFlight \subseteq settled

\* The daemon only speaks of tasks it received.
LEMMA TellSettled ==
    ASSUME Inv0, Settlement, NEW t \in settled,
           NEW k \in {"working", "success", "error", "chunk"}, Tell(t, k)
    PROVE  \A i \in 1 .. Len(toPanel') : toPanel'[i].task \in settled
<1> SUFFICES ASSUME NEW i \in 1 .. Len(toPanel')
             PROVE  toPanel'[i].task \in settled
  OBVIOUS
<1>1. t \in Tasks
  BY DEF Inv0, TypeOK
<1>2. CASE i \in 1 .. Len(toPanel) /\ toPanel'[i] = toPanel[i]
  BY <1>2 DEF Settlement
<1>3. CASE toPanel'[i] = [task |-> t, kind |-> k]
  BY <1>3
<1> QED
  BY <1>1, <1>2, <1>3, TellMessages

\* No task is known at the start.
LEMMA SettlementInit == Init => Settlement
BY DEF Init, Settlement, Terminal

\* Save with a terminal status and the receipt of a task settle it for good.
LEMMA SettlementStep == Inv0 /\ Settlement /\ [Next]_vars => Settlement'
<1> SUFFICES ASSUME Inv0, Settlement, [Next]_vars PROVE Settlement'
  OBVIOUS
<1> USE DEF Settlement, Terminal
<1> USE DEF rowVars, effectVars, linkVars, daemonVars
<1>1. ASSUME NEW t \in Tasks, DispatchSave(t)
      PROVE  Settlement'
  BY <1>1 DEF DispatchSave, Save, Inv0, TypeOK
<1>2. ASSUME NEW t \in Tasks, DispatchSend(t)
      PROVE  Settlement'
  <2>1. \E x \in {"sent", "done"} : dispatch' = [dispatch EXCEPT ![t] = x]
    BY <1>2 DEF DispatchSend
  <2>2. \A u \in Tasks : dispatch'[u] # "idle" => row'[u] # "none"
    BY <1>2, <2>1 DEF DispatchSend, Inv0, TypeOK
  <2> QED
    BY <1>2, <2>2 DEF DispatchSend
<1>3. ASSUME NEW t \in Tasks, DispatchResave(t)
      PROVE  Settlement'
  BY <1>3 DEF DispatchResave, Save, Inv0, TypeOK
<1>4. ASSUME NEW t \in Tasks, BusDeliver(t)
      PROVE  Settlement'
  BY <1>4 DEF BusDeliver, SendTo
<1>5. ASSUME NEW t \in Tasks, CancelFind(t)
      PROVE  Settlement'
  BY <1>5 DEF CancelFind
<1>6. ASSUME NEW t \in Tasks, CancelSave(t)
      PROVE  Settlement'
  BY <1>6 DEF CancelSave, Save, Inv0, TypeOK
<1>7. ASSUME NEW t \in Tasks, DaemonReceive(t)
      PROVE  Settlement'
  BY <1>7 DEF DaemonReceive, Inv0, TypeOK
<1>8. ASSUME NEW t \in Tasks, DaemonStart(t)
      PROVE  Settlement'
  <2>1. Tell(t, "working") /\ t \in settled
    BY <1>8 DEF DaemonStart, Inv0, TypeOK
  <2>2. \A i \in 1 .. Len(toPanel') : toPanel'[i].task \in settled
    BY <2>1, TellSettled
  <2> QED
    BY <1>8, <2>1, <2>2 DEF DaemonStart, Inv0, TypeOK
<1>9. ASSUME NEW t \in Tasks, DaemonOutput(t)
      PROVE  Settlement'
  <2>1. Tell(t, "chunk") /\ t \in settled
    BY <1>9 DEF DaemonOutput, Inv0, TypeOK
  <2>2. \A i \in 1 .. Len(toPanel') : toPanel'[i].task \in settled
    BY <2>1, TellSettled
  <2> QED
    BY <1>9, <2>1, <2>2 DEF DaemonOutput, Inv0, TypeOK
<1>10. ASSUME NEW t \in Tasks, DaemonRedeliver(t)
      PROVE  Settlement'
  <2> DEFINE k == IF doing[t] = "running" THEN "working" ELSE doing[t]
  <2>1. Tell(t, k) /\ t \in settled /\ k \in {"working", "success", "error"}
    BY <1>10 DEF DaemonRedeliver, Inv0, TypeOK
  <2> HIDE DEF k
  <2>2. \A i \in 1 .. Len(toPanel') : toPanel'[i].task \in settled
    BY <2>1, TellSettled
  <2> QED
    BY <1>10, <2>2 DEF DaemonRedeliver
<1>11. ASSUME NEW t \in Tasks, NEW s \in {"success", "error"}, DaemonFinish(t, s)
      PROVE  Settlement'
  <2>1. Tell(t, s) /\ t \in settled
    BY <1>11 DEF DaemonFinish, Inv0, TypeOK
  <2>2. \A i \in 1 .. Len(toPanel') : toPanel'[i].task \in settled
    BY <2>1, TellSettled
  <2> QED
    BY <1>11, <2>1, <2>2 DEF DaemonFinish, Inv0, TypeOK
<1>12. ASSUME NEW c \in Conns, FlushFind(c)
      PROVE  Settlement'
  BY <1>12 DEF FlushFind, FindByStatus, FlushLoop
<1>13. ASSUME NEW c \in Conns, NEW t \in Tasks, FlushSend(c, t)
      PROVE  Settlement'
  BY <1>13 DEF FlushSend, SendTo
<1>14. ASSUME NEW c \in Conns, FlushSave(c)
      PROVE  Settlement'
  BY <1>14 DEF FlushSave, Save, Inv0, TypeOK
<1>15. CASE UpdateFind
  <2>1. Head(toPanel) = toPanel[1] /\ 1 \in 1 .. Len(toPanel)
    BY <1>15 DEF UpdateFind, Receiving, Inv0, TypeOK
  <2>2. upd'.task \in settled
    BY <1>15, <2>1 DEF UpdateFind
  <2>3. \A i \in 1 .. Len(toPanel') : toPanel'[i].task \in settled
    BY <1>15, TailMessages DEF UpdateFind, Receiving
  <2> QED
    BY <1>15, <2>2, <2>3 DEF UpdateFind
<1>16. CASE UpdateSave
  BY <1>16 DEF UpdateSave, Save, Inv0, TypeOK, Updates
<1>17. CASE UpdateFail
  BY <1>17 DEF UpdateFail
<1>18. CASE HandleTaskOutput
  BY <1>18, TailMessages DEF HandleTaskOutput, Receiving, AppendOutput
<1>19. ASSUME NEW p \in Reconcilers, ReconcileFind(p)
      PROVE  Settlement'
  BY <1>19 DEF ReconcileFind, FindByStatus, MarkLoop
<1>20. ASSUME NEW p \in Reconcilers, NEW t \in Tasks, MarkAppend(p, t)
      PROVE  Settlement'
  BY <1>20 DEF MarkAppend, AppendOutput
<1>21. ASSUME NEW p \in Reconcilers, MarkSave(p)
      PROVE  Settlement'
  BY <1>21 DEF MarkSave, Save, Inv0, TypeOK
<1>22. CASE SweepFind
  BY <1>22 DEF SweepFind
<1>23. CASE DaemonConnect
  BY <1>23 DEF DaemonConnect, Held
<1>24. CASE Register
  BY <1>24 DEF Register
<1>25. CASE SendAck
  BY <1>25 DEF SendAck, FindByStatus
<1>26. CASE ConnectFail
  BY <1>26 DEF ConnectFail
<1>27. CASE Unregister
  BY <1>27 DEF Unregister
<1>28. CASE StreamBreak
  BY <1>28 DEF StreamBreak, Inv0, TypeOK
<1>29. CASE DaemonRestart
  BY <1>29 DEF DaemonRestart
<1>30. CASE PanelCrash
  BY <1>30 DEF PanelCrash
<1>31. CASE UNCHANGED vars
  BY <1>31 DEF vars
<1> HIDE DEF Settlement
<1> QED
  BY <1>1, <1>2, <1>3, <1>4, <1>5, <1>6, <1>7, <1>8, <1>9, <1>10, <1>11,
     <1>12, <1>13, <1>14, <1>15, <1>16, <1>17, <1>18, <1>19, <1>20, <1>21, <1>22,
     <1>23, <1>24, <1>25, <1>26, <1>27, <1>28, <1>29, <1>30, <1>31
     DEF Next, FlushPending, HandleTaskStatusUpdate, ReconcileWorkingTasks, Connect

\* Streams are numbered as they are opened; after its registration the live
\* stream is the registered session; a FlushPending uses a session that has been
\* registered, hence not the one whose registration still reconciles.
Link ==
    /\ stream \in {0, used}
    /\ conn <= used
    /\ stream # 0 /\ reg # "reconcile" => conn = stream
    /\ reg = "reconcile" => conn < used
    /\ reg = "ack" => conn = used /\ used > 0
    /\ \A c \in Conns :
         /\ flush[c].sess <= used
         /\ flush[c].pc \in {"send", "save"} => flush[c].sess # 0
         /\ reg = "reconcile" => flush[c].sess < used

\* No stream is open at the start.
LEMMA LinkInit == Init => Link
BY ConstantsAssumption DEF Init, Link, NoFlush, Conns

\* Connect, Unregister, FlushPending and faults keep sessions and streams in step.
LEMMA LinkStep == Inv0 /\ Link /\ [Next]_vars => Link'
<1> SUFFICES ASSUME Inv0, Link, [Next]_vars PROVE Link'
  OBVIOUS
<1> USE ConstantsAssumption DEF Link, Inv0, TypeOK, FlushStates, NoFlush
<1> USE DEF rowVars, effectVars, linkVars, daemonVars
<1>1. ASSUME NEW t \in Tasks, DispatchSave(t)
      PROVE  Link'
  BY <1>1 DEF DispatchSave, Save
<1>2. ASSUME NEW t \in Tasks, DispatchSend(t)
      PROVE  Link'
  BY <1>2 DEF DispatchSend, SendTo
<1>3. ASSUME NEW t \in Tasks, DispatchResave(t)
      PROVE  Link'
  BY <1>3 DEF DispatchResave, Save
<1>4. ASSUME NEW t \in Tasks, BusDeliver(t)
      PROVE  Link'
  BY <1>4 DEF BusDeliver, SendTo
<1>5. ASSUME NEW t \in Tasks, CancelFind(t)
      PROVE  Link'
  BY <1>5 DEF CancelFind
<1>6. ASSUME NEW t \in Tasks, CancelSave(t)
      PROVE  Link'
  BY <1>6 DEF CancelSave, Save
<1>7. ASSUME NEW t \in Tasks, DaemonReceive(t)
      PROVE  Link'
  BY <1>7 DEF DaemonReceive
<1>8. ASSUME NEW t \in Tasks, DaemonStart(t)
      PROVE  Link'
  BY <1>8 DEF DaemonStart, Tell
<1>9. ASSUME NEW t \in Tasks, DaemonOutput(t)
      PROVE  Link'
  BY <1>9 DEF DaemonOutput, Tell
<1>10. ASSUME NEW t \in Tasks, DaemonRedeliver(t)
      PROVE  Link'
  BY <1>10 DEF DaemonRedeliver, Tell
<1>11. ASSUME NEW t \in Tasks, NEW s \in {"success", "error"}, DaemonFinish(t, s)
      PROVE  Link'
  BY <1>11 DEF DaemonFinish, Tell
<1>12. ASSUME NEW c \in Conns, FlushFind(c)
      PROVE  Link'
  BY <1>12 DEF FlushFind, FindByStatus, FlushLoop
<1>13. ASSUME NEW c \in Conns, NEW t \in Tasks, FlushSend(c, t)
      PROVE  Link'
  <2>1. CASE /\ SendTo(flush[c].sess, t)
             /\ flush' = [flush EXCEPT ![c] =
                            [pc |-> "save", todo |-> flush[c].todo \ {t},
                             sess |-> flush[c].sess, cur |-> t]]
    <3>1. /\ flush'[c].pc = "save" /\ flush'[c].cur = t
          /\ flush'[c].sess = flush[c].sess
          /\ \A d \in Conns \ {c} : flush'[d] = flush[d]
      BY <2>1
    <3> QED
      BY <1>13, <2>1, <3>1 DEF FlushSend, SendTo
  <2>2. CASE flush' = [flush EXCEPT ![c] = NoFlush] /\ UNCHANGED toDaemon
    <3>1. /\ flush'[c] = NoFlush
          /\ \A d \in Conns \ {c} : flush'[d] = flush[d]
      BY <2>2
    <3> QED
      BY <1>13, <2>2, <3>1 DEF FlushSend
  <2> QED
    BY <1>13, <2>1, <2>2 DEF FlushSend
<1>14. ASSUME NEW c \in Conns, FlushSave(c)
      PROVE  Link'
  BY <1>14 DEF FlushSave, Save, FlushLoop
<1>15. CASE UpdateFind
  BY <1>15 DEF UpdateFind, Receiving
<1>16. CASE UpdateSave
  BY <1>16 DEF UpdateSave, Save, InstalledAfter, EmitCompletion
<1>17. CASE UpdateFail
  BY <1>17 DEF UpdateFail
<1>18. CASE HandleTaskOutput
  BY <1>18 DEF HandleTaskOutput, Receiving, AppendOutput
<1>19. ASSUME NEW p \in Reconcilers, ReconcileFind(p)
      PROVE  Link'
  BY <1>19 DEF ReconcileFind, FindByStatus, MarkLoop
<1>20. ASSUME NEW p \in Reconcilers, NEW t \in Tasks, MarkAppend(p, t)
      PROVE  Link'
  BY <1>20 DEF MarkAppend, AppendOutput
<1>21. ASSUME NEW p \in Reconcilers, MarkSave(p)
      PROVE  Link'
  BY <1>21 DEF MarkSave, Save, InstalledAfter, EmitCompletion, MarkLoop
<1>22. CASE SweepFind
  BY <1>22 DEF SweepFind
<1>23. CASE DaemonConnect
  BY <1>23 DEF DaemonConnect, Held
<1>24. CASE Register
  BY <1>24 DEF Register
<1>25. CASE SendAck
  BY <1>25 DEF SendAck, FindByStatus
<1>26. CASE ConnectFail
  BY <1>26 DEF ConnectFail
<1>27. CASE Unregister
  BY <1>27 DEF Unregister
<1>28. CASE StreamBreak
  BY <1>28 DEF StreamBreak
<1>29. CASE DaemonRestart
  BY <1>29 DEF DaemonRestart
<1>30. CASE PanelCrash
  BY <1>30 DEF PanelCrash
<1>31. CASE UNCHANGED vars
  BY <1>31 DEF vars
<1> HIDE DEF Link
<1> QED
  BY <1>1, <1>2, <1>3, <1>4, <1>5, <1>6, <1>7, <1>8, <1>9, <1>10, <1>11,
     <1>12, <1>13, <1>14, <1>15, <1>16, <1>17, <1>18, <1>19, <1>20, <1>21, <1>22,
     <1>23, <1>24, <1>25, <1>26, <1>27, <1>28, <1>29, <1>30, <1>31
     DEF Next, FlushPending, HandleTaskStatusUpdate, ReconcileWorkingTasks, Connect

\* A task a FlushPending is about to save as working, having sent it on the
\* stream that is still live, is on that stream or was received.
FlushSent ==
    \A c \in Conns :
        flush[c].pc = "save" /\ flush[c].sess = stream
            => flush[c].cur \in toDaemon \cup settled

\* No FlushPending runs at the start.
LEMMA FlushSentInit == Init => FlushSent
BY DEF Init, FlushSent, NoFlush

\* FlushPending sends before it saves, and only a break of the stream loses a task.
LEMMA FlushSentStep == Inv0 /\ Link /\ FlushSent /\ [Next]_vars => FlushSent'
<1> SUFFICES ASSUME Inv0, Link, FlushSent, [Next]_vars PROVE FlushSent'
  OBVIOUS
<1> USE ConstantsAssumption DEF FlushSent, Inv0, TypeOK, FlushStates, NoFlush
<1> USE DEF rowVars, effectVars, linkVars, daemonVars
<1>1. ASSUME NEW t \in Tasks, DispatchSave(t)
      PROVE  FlushSent'
  BY <1>1 DEF DispatchSave, Save
<1>2. ASSUME NEW t \in Tasks, DispatchSend(t)
      PROVE  FlushSent'
  BY <1>2 DEF DispatchSend, SendTo
<1>3. ASSUME NEW t \in Tasks, DispatchResave(t)
      PROVE  FlushSent'
  BY <1>3 DEF DispatchResave, Save
<1>4. ASSUME NEW t \in Tasks, BusDeliver(t)
      PROVE  FlushSent'
  BY <1>4 DEF BusDeliver, SendTo
<1>5. ASSUME NEW t \in Tasks, CancelFind(t)
      PROVE  FlushSent'
  BY <1>5 DEF CancelFind
<1>6. ASSUME NEW t \in Tasks, CancelSave(t)
      PROVE  FlushSent'
  BY <1>6 DEF CancelSave, Save
<1>7. ASSUME NEW t \in Tasks, DaemonReceive(t)
      PROVE  FlushSent'
  BY <1>7 DEF DaemonReceive
<1>8. ASSUME NEW t \in Tasks, DaemonStart(t)
      PROVE  FlushSent'
  BY <1>8 DEF DaemonStart, Tell
<1>9. ASSUME NEW t \in Tasks, DaemonOutput(t)
      PROVE  FlushSent'
  BY <1>9 DEF DaemonOutput, Tell
<1>10. ASSUME NEW t \in Tasks, DaemonRedeliver(t)
      PROVE  FlushSent'
  BY <1>10 DEF DaemonRedeliver, Tell
<1>11. ASSUME NEW t \in Tasks, NEW s \in {"success", "error"}, DaemonFinish(t, s)
      PROVE  FlushSent'
  BY <1>11 DEF DaemonFinish, Tell
<1>12. ASSUME NEW c \in Conns, FlushFind(c)
      PROVE  FlushSent'
  BY <1>12 DEF FlushFind, FindByStatus, FlushLoop
<1>13. ASSUME NEW c \in Conns, NEW t \in Tasks, FlushSend(c, t)
      PROVE  FlushSent'
  <2>1. CASE /\ SendTo(flush[c].sess, t)
             /\ flush' = [flush EXCEPT ![c] =
                            [pc |-> "save", todo |-> flush[c].todo \ {t},
                             sess |-> flush[c].sess, cur |-> t]]
    <3>1. /\ flush'[c].pc = "save" /\ flush'[c].cur = t
          /\ flush'[c].sess = flush[c].sess
          /\ \A d \in Conns \ {c} : flush'[d] = flush[d]
      BY <2>1
    <3> QED
      BY <1>13, <2>1, <3>1 DEF FlushSend, SendTo
  <2>2. CASE flush' = [flush EXCEPT ![c] = NoFlush] /\ UNCHANGED toDaemon
    <3>1. /\ flush'[c] = NoFlush
          /\ \A d \in Conns \ {c} : flush'[d] = flush[d]
      BY <2>2
    <3> QED
      BY <1>13, <2>2, <3>1 DEF FlushSend
  <2> QED
    BY <1>13, <2>1, <2>2 DEF FlushSend
<1>14. ASSUME NEW c \in Conns, FlushSave(c)
      PROVE  FlushSent'
  BY <1>14 DEF FlushSave, Save, FlushLoop
<1>15. CASE UpdateFind
  BY <1>15 DEF UpdateFind, Receiving
<1>16. CASE UpdateSave
  BY <1>16 DEF UpdateSave, Save, InstalledAfter, EmitCompletion
<1>17. CASE UpdateFail
  BY <1>17 DEF UpdateFail
<1>18. CASE HandleTaskOutput
  BY <1>18 DEF HandleTaskOutput, Receiving, AppendOutput
<1>19. ASSUME NEW p \in Reconcilers, ReconcileFind(p)
      PROVE  FlushSent'
  BY <1>19 DEF ReconcileFind, FindByStatus, MarkLoop
<1>20. ASSUME NEW p \in Reconcilers, NEW t \in Tasks, MarkAppend(p, t)
      PROVE  FlushSent'
  BY <1>20 DEF MarkAppend, AppendOutput
<1>21. ASSUME NEW p \in Reconcilers, MarkSave(p)
      PROVE  FlushSent'
  BY <1>21 DEF MarkSave, Save, InstalledAfter, EmitCompletion, MarkLoop
<1>22. CASE SweepFind
  BY <1>22 DEF SweepFind
<1>23. CASE DaemonConnect
  BY <1>23 DEF DaemonConnect, Link
<1>24. CASE Register
  BY <1>24 DEF Register
<1>25. CASE SendAck
  BY <1>25 DEF SendAck, FindByStatus
<1>26. CASE ConnectFail
  BY <1>26 DEF ConnectFail
<1>27. CASE Unregister
  BY <1>27 DEF Unregister
<1>28. CASE StreamBreak
  BY <1>28 DEF StreamBreak, Link
<1>29. CASE DaemonRestart
  BY <1>29 DEF DaemonRestart, Link
<1>30. CASE PanelCrash
  BY <1>30 DEF PanelCrash
<1>31. CASE UNCHANGED vars
  BY <1>31 DEF vars
<1> HIDE DEF FlushSent
<1> QED
  BY <1>1, <1>2, <1>3, <1>4, <1>5, <1>6, <1>7, <1>8, <1>9, <1>10, <1>11,
     <1>12, <1>13, <1>14, <1>15, <1>16, <1>17, <1>18, <1>19, <1>20, <1>21, <1>22,
     <1>23, <1>24, <1>25, <1>26, <1>27, <1>28, <1>29, <1>30, <1>31
     DEF Next, FlushPending, HandleTaskStatusUpdate, ReconcileWorkingTasks, Connect

\* Where an unsettled task waits for delivery while a stream is up: it is seen by
\* the reconciliation of the registration or still waiting for its ack; after
\* the ack it is on the stream or Dispatch is about to send it.
Covered(t) ==
    /\ reg = "reconcile" =>
         \/ row[t] = "waiting"
         \/ recon["register"].pc = "find"
         \/ t \in recon["register"].todo
         \/ recon["register"].pc = "save" /\ recon["register"].cur = t
    /\ reg = "ack" =>
         row[t] = "waiting" \/ t \in toDaemon \/ dispatch[t] = "saved"
    /\ reg = "idle" => t \in toDaemon \/ dispatch[t] = "saved"

\* While a stream is up, somebody is responsible for every unsettled task.
Coverage ==
    stream # 0 =>
        \A t \in Tasks : row[t] # "none" /\ t \notin settled \cup late => Covered(t)

\* There are no tasks at the start.
LEMMA CoverageInit == Init => Coverage
BY DEF Init, Coverage

\* Responsibility passes from Dispatch, reconciliation and ack to the stream.
LEMMA CoverageStep ==
    Inv0 /\ Settlement /\ Link /\ FlushSent /\ Coverage /\ [Next]_vars => Coverage'
<1> SUFFICES ASSUME Inv0, Settlement, Link, FlushSent, Coverage, [Next]_vars
             PROVE  Coverage'
  OBVIOUS
<1> USE ConstantsAssumption DEF Coverage, Covered, Inv0, TypeOK
<1> USE DEF rowVars, effectVars, linkVars, daemonVars
<1>1. ASSUME NEW t \in Tasks, DispatchSave(t)
      PROVE  Coverage'
  BY <1>1 DEF DispatchSave, Save, Terminal
<1>2. ASSUME NEW t \in Tasks, DispatchSend(t)
      PROVE  Coverage'
  BY <1>2 DEF DispatchSend, SendTo, Link
<1>3. ASSUME NEW t \in Tasks, DispatchResave(t)
      PROVE  Coverage'
  BY <1>3 DEF DispatchResave, Save, Settlement, Terminal
<1>4. ASSUME NEW t \in Tasks, BusDeliver(t)
      PROVE  Coverage'
  BY <1>4 DEF BusDeliver, SendTo
<1>5. ASSUME NEW t \in Tasks, CancelFind(t)
      PROVE  Coverage'
  BY <1>5 DEF CancelFind
<1>6. ASSUME NEW t \in Tasks, CancelSave(t)
      PROVE  Coverage'
  BY <1>6 DEF CancelSave, Save, Terminal
<1>7. ASSUME NEW t \in Tasks, DaemonReceive(t)
      PROVE  Coverage'
  BY <1>7 DEF DaemonReceive
<1>8. ASSUME NEW t \in Tasks, DaemonStart(t)
      PROVE  Coverage'
  BY <1>8 DEF DaemonStart, Tell
<1>9. ASSUME NEW t \in Tasks, DaemonOutput(t)
      PROVE  Coverage'
  BY <1>9 DEF DaemonOutput, Tell
<1>10. ASSUME NEW t \in Tasks, DaemonRedeliver(t)
      PROVE  Coverage'
  BY <1>10 DEF DaemonRedeliver, Tell
<1>11. ASSUME NEW t \in Tasks, NEW s \in {"success", "error"}, DaemonFinish(t, s)
      PROVE  Coverage'
  BY <1>11 DEF DaemonFinish, Tell
<1>12. ASSUME NEW c \in Conns, FlushFind(c)
      PROVE  Coverage'
  BY <1>12 DEF FlushFind, FindByStatus, FlushLoop
<1>13. ASSUME NEW c \in Conns, NEW t \in Tasks, FlushSend(c, t)
      PROVE  Coverage'
  BY <1>13 DEF FlushSend, SendTo
<1>14. ASSUME NEW c \in Conns, FlushSave(c)
      PROVE  Coverage'
  BY <1>14 DEF FlushSave, FlushLoop, Save, Link, FlushSent, CursorOK, FlushStates, Terminal
<1>15. CASE UpdateFind
  BY <1>15 DEF UpdateFind, Receiving
<1>16. CASE UpdateSave
  BY <1>16 DEF UpdateSave, Save, Settlement, Updates
<1>17. CASE UpdateFail
  BY <1>17 DEF UpdateFail
<1>18. CASE HandleTaskOutput
  BY <1>18 DEF HandleTaskOutput, Receiving, AppendOutput
<1>19. ASSUME NEW p \in Reconcilers, ReconcileFind(p)
      PROVE  Coverage'
  BY <1>19 DEF ReconcileFind, MarkLoop, FindByStatus, Settlement, Statuses, Terminal, Reconcilers
<1>20. ASSUME NEW p \in Reconcilers, NEW t \in Tasks, MarkAppend(p, t)
      PROVE  Coverage'
  BY <1>20 DEF MarkAppend, AppendOutput, Reconcilers
<1>21. ASSUME NEW p \in Reconcilers, MarkSave(p)
      PROVE  Coverage'
  BY <1>21 DEF MarkSave, MarkLoop, NoRecon, Save, CursorOK, Terminal, Reconcilers
<1>22. CASE SweepFind
  BY <1>22 DEF SweepFind
<1>23. CASE DaemonConnect
  BY <1>23 DEF DaemonConnect, Reconcilers
<1>24. CASE Register
  BY <1>24 DEF Register
<1>25. CASE SendAck
  BY <1>25 DEF SendAck, FindByStatus, Link, Statuses, Terminal
<1>26. CASE ConnectFail
  BY <1>26 DEF ConnectFail, Link
<1>27. CASE Unregister
  BY <1>27 DEF Unregister
<1>28. CASE StreamBreak
  BY <1>28 DEF StreamBreak
<1>29. CASE DaemonRestart
  BY <1>29 DEF DaemonRestart
<1>30. CASE PanelCrash
  BY <1>30 DEF PanelCrash
<1>31. CASE UNCHANGED vars
  BY <1>31 DEF vars
<1> HIDE DEF Coverage
<1> QED
  BY <1>1, <1>2, <1>3, <1>4, <1>5, <1>6, <1>7, <1>8, <1>9, <1>10, <1>11,
     <1>12, <1>13, <1>14, <1>15, <1>16, <1>17, <1>18, <1>19, <1>20, <1>21, <1>22,
     <1>23, <1>24, <1>25, <1>26, <1>27, <1>28, <1>29, <1>30, <1>31
     DEF Next, FlushPending, HandleTaskStatusUpdate, ReconcileWorkingTasks, Connect

\* The output of a task never shrinks and never changes where it was written:
\* every Save keeps it (COALESCE) and AppendOutput extends it.
THEOREM OutputOnlyGrows == Spec => OutputGrows
<1> DEFINE Grows ==
      \A t \in Tasks :
         /\ Len(output'[t]) >= Len(output[t])
         /\ SubSeq(output'[t], 1, Len(output[t])) = output[t]
<1>1. ASSUME Inv0, UNCHANGED output
      PROVE  Grows
  <2> SUFFICES ASSUME NEW t \in Tasks
               PROVE  /\ Len(output[t]) >= Len(output[t])
                      /\ SubSeq(output[t], 1, Len(output[t])) = output[t]
    BY <1>1
  <2>1. output[t] \in Seq({"chunk", "abandoned"})
    BY <1>1 DEF Inv0, TypeOK
  <2> QED
    BY <2>1, SubSeqFull
<1>2. ASSUME Inv0, NEW t \in Tasks, NEW item \in {"chunk", "abandoned"},
             AppendOutput(t, item)
      PROVE  Grows
  <2>1. output[t] \in Seq({"chunk", "abandoned"}) /\ output'[t] = Append(output[t], item)
    BY <1>2 DEF Inv0, TypeOK, AppendOutput
  <2>2. /\ Len(output'[t]) >= Len(output[t])
        /\ SubSeq(output'[t], 1, Len(output[t])) = output[t]
    BY <2>1
  <2>3. ASSUME NEW u \in Tasks \ {t}
        PROVE  /\ Len(output'[u]) >= Len(output[u])
               /\ SubSeq(output'[u], 1, Len(output[u])) = output[u]
    <3>1. output'[u] = output[u] /\ output[u] \in Seq({"chunk", "abandoned"})
      BY <1>2 DEF Inv0, TypeOK, AppendOutput
    <3> QED
      BY <3>1, SubSeqFull
  <2> QED
    BY <2>2, <2>3
<1>3. Inv0 /\ [Next]_vars => [Grows]_vars
  <2> SUFFICES ASSUME Inv0, Next PROVE Grows
    OBVIOUS
  <2>1. \/ UNCHANGED output
        \/ \E t \in Tasks, item \in {"chunk", "abandoned"} : AppendOutput(t, item)
    <3>1. CASE HandleTaskOutput
      <4>1. Head(toPanel) \in Messages
        BY <3>1, HeadTailProperties DEF HandleTaskOutput, Receiving, Inv0, TypeOK
      <4> QED
        BY <3>1, <4>1 DEF HandleTaskOutput, Messages
    <3>2. CASE \E p \in Reconcilers, t \in Tasks : MarkAppend(p, t)
      BY <3>2 DEF MarkAppend
    <3>3. CASE ~HandleTaskOutput /\ ~(\E p \in Reconcilers, t \in Tasks : MarkAppend(p, t))
      BY <3>3 DEF Next, DispatchSave, DispatchSend, DispatchResave, BusDeliver,
           CancelFind, CancelSave, DaemonReceive, DaemonStart, DaemonOutput,
           DaemonRedeliver, DaemonFinish, FlushPending, FlushFind, FlushSend,
           FlushSave, HandleTaskStatusUpdate, UpdateFind, UpdateSave,
           UpdateFail, ReconcileWorkingTasks, ReconcileFind, MarkSave, SweepFind,
           DaemonConnect, Connect, Register, SendAck, ConnectFail,
           Unregister, StreamBreak, DaemonRestart, PanelCrash, Save, rowVars
    <3> QED
      BY <3>1, <3>2, <3>3
  <2> QED
    BY <1>1, <1>2, <2>1
<1> QED
  BY TypeInit, TypeStep, <1>3, PTL DEF Spec, OutputGrows

\* Dispatch, which saves and then looks for a session, and Connect, which registers
\* a session and then looks for waiting tasks, never both miss a task: in a quiet
\* connected system a task is unknown to the daemon only if it has ended, or if a
\* FlushPending that outlived its stream saved it as working.
THEOREM NothingElseForgets == Spec => []ForgottenOnlyByLateFlush
<1>1. Coverage => ForgottenOnlyByLateFlush
  BY DEF Coverage, Covered, ForgottenOnlyByLateFlush, Quiet
<1> QED
  BY TypeInit, TypeStep, SettlementInit, SettlementStep, LinkInit, LinkStep,
     FlushSentInit, FlushSentStep, CoverageInit, CoverageStep, <1>1, PTL
     DEF Spec
============================================================================
