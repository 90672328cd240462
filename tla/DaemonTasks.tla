---------------------------- MODULE DaemonTasks ----------------------------
(***************************************************************************)
(* The life of daemon tasks in one GameAP panel: the daemon_tasks rows of  *)
(* one node, the goroutines of the panel that write them, and the daemon   *)
(* that executes them behind one gRPC stream.                              *)
(*                                                                         *)
(* Writers of a row, none of which shares a lock or a transaction with     *)
(* another one (each reads the row, later saves its own copy of it):       *)
(*   Dispatch       services/taskdispatcher/dispatcher.go                  *)
(*   FlushPending   services/taskdispatcher/dispatcher.go, one per connect *)
(*   HandleTaskStatusUpdate, HandleTaskOutput, ReconcileWorkingTasks       *)
(*                  grpc/handlers/task_handler.go                          *)
(*   Sweep          services/taskreaper/reaper.go                          *)
(*   cancel         api/daemontasks/canceldaemontask/handler.go            *)
(*                                                                         *)
(* The daemon is not part of the repository: its actions state what the    *)
(* panel's code relies on (in-memory queue, processedTasks idempotency,    *)
(* InFlightTasks at registration, re-delivery of updates).                 *)
(***************************************************************************)
EXTENDS Naturals, Sequences

CONSTANTS
    Tasks,          \* the tasks of the node
    InstallTasks,   \* those of type gsinst, all of one game server
    DeleteTasks,    \* those of type gsdel, of the same game server
    None,           \* "no task", "no update"
    MaxConns,       \* bound: streams the daemon opens; the last one is stable
    MaxFaults,      \* bound: panel crashes, daemon restarts, re-deliveries
    MaxChunks       \* bound: output chunks of a task

ASSUME ConstantsAssumption ==
    /\ InstallTasks \subseteq Tasks
    /\ DeleteTasks \subseteq Tasks
    /\ InstallTasks \cap DeleteTasks = {}
    /\ None \notin Tasks
    /\ MaxConns \in Nat
    /\ MaxFaults \in Nat
    /\ MaxChunks \in Nat

Statuses == {"waiting", "working", "error", "success", "canceled"}

\* isTerminalStatus
Terminal == {"error", "success", "canceled"}

Conns == 1 .. MaxConns

Reconcilers == {"register", "reaper"}

VARIABLES
    row,         \* status column of every task, "none" before the insert
    output,      \* output column: a sequence of "chunk" and "abandoned"
    installed,   \* installed column of the game server
    completions, \* DAEMON_TASK_COMPLETED / _FAILED events given to plugins
    conn,        \* the session in Registry.localSessions, 0 when none
    bus,         \* task dispatches published on pub-sub, not yet delivered
    dispatch,    \* program counter of Dispatch of every task
    cancel,      \* program counter of the cancel request of every task
    flush,       \* FlushPending of every connection
    upd,         \* the HandleTaskStatusUpdate that holds statusMu
    recon,       \* ReconcileWorkingTasks of a registration and of the reaper
    reg,         \* program counter of the Connect call being registered
    inFlight,    \* RegisterRequest.InFlightTasks of that call
    stream,      \* the stream the daemon uses, 0 when it has none
    used,        \* streams opened so far
    toDaemon,    \* task messages on the stream
    toPanel,     \* messages the daemon has yet to deliver, in order
    doing,       \* what the daemon's memory says of every task
    reported,    \* history: statuses the daemon reported for the task
    settled,     \* history: tasks once received by the daemon, or once terminal
    late,        \* history: tasks FlushPending saved after its stream had died
    faults       \* faults so far

rowVars    == <<row, output, settled>>
effectVars == <<installed, completions, late>>
linkVars   == <<stream, used, toDaemon, toPanel>>
daemonVars == <<doing, reported, faults>>
vars == <<rowVars, effectVars, conn, bus, dispatch, cancel, flush, upd, recon,
          reg, inFlight, linkVars, daemonVars>>

NoFlush == [pc |-> "idle", todo |-> {}, sess |-> 0, cur |-> None]
NoRecon == [pc |-> "idle", todo |-> {}, cur |-> None]

\* external: the tasks in the daemon's in-memory queue
Held == {t \in Tasks : doing[t] \in {"queued", "running"}}

\* Find with a status filter
FindByStatus(s) == {t \in Tasks : row[t] = s}

Init ==
    /\ row = [t \in Tasks |-> "none"]
    /\ output = [t \in Tasks |-> <<>>]
    /\ settled = {}
    /\ installed = "not_installed"
    /\ completions = [t \in Tasks |-> 0]
    /\ late = {}
    /\ conn = 0
    /\ bus = {}
    /\ dispatch = [t \in Tasks |-> "idle"]
    /\ cancel = [t \in Tasks |-> "idle"]
    /\ flush = [c \in Conns |-> NoFlush]
    /\ upd = None
    /\ recon = [p \in Reconcilers |-> NoRecon]
    /\ reg = "idle"
    /\ inFlight = {}
    /\ stream = 0
    /\ used = 0
    /\ toDaemon = {}
    /\ toPanel = <<>>
    /\ doing = [t \in Tasks |-> "unknown"]
    /\ reported = [t \in Tasks |-> {}]
    /\ faults = 0
----------------------------------------------------------------------------
(* The repository and the session *)

\* Mutant: a failed installation also counts as an installation.
InstalledAfter_AnyEnd(t, s) ==
    IF t \in InstallTasks
    THEN IF s = "working" THEN "in_progress" ELSE "installed"
    ELSE installed

\* resolveInstalledStatus and updateServerInstalledStatus: the installed
\* column after task t reached status s.
InstalledAfter(t, s) ==
    IF t \in InstallTasks
    THEN IF s = "working" THEN "in_progress"
         ELSE IF s = "success" THEN "installed"
         ELSE IF s \in {"error", "canceled"} THEN "not_installed"
         ELSE installed
    ELSE IF t \in DeleteTasks /\ s = "success" THEN "not_installed"
         ELSE installed

\* Mutant: the upsert also writes the output of the copy, which is empty.
Save_WipesOutput(t, s) ==
    /\ row' = [row EXCEPT ![t] = s]
    /\ output' = [output EXCEPT ![t] = <<>>]
    /\ settled' = IF s \in Terminal THEN settled \cup {t} ELSE settled

\* DaemonTaskRepository.Save of a copy with status s and no output: the
\* upsert replaces every column but the output, which COALESCE keeps.
Save(t, s) ==
    /\ row' = [row EXCEPT ![t] = s]
    /\ output' = output
    /\ settled' = IF s \in Terminal THEN settled \cup {t} ELSE settled

\* Mutant: no COALESCE, so that NULL || chunk is NULL.
AppendOutput_Null(t, item) ==
    /\ output' = [output EXCEPT ![t] = IF @ = <<>> THEN None ELSE Append(@, item)]
    /\ UNCHANGED <<row, settled>>

\* DaemonTaskRepository.AppendOutput: one UPDATE of the output.
AppendOutput(t, item) ==
    /\ output' = [output EXCEPT ![t] = Append(@, item)]
    /\ UNCHANGED <<row, settled>>

\* dispatchPluginTaskEvent with a terminal status
EmitCompletion(t) == completions' = [completions EXCEPT ![t] = @ + 1]

\* Session.Send on session c: a write to a dead stream may still succeed.
SendTo(c, t) ==
    toDaemon' = IF c = stream THEN toDaemon \cup {t} ELSE toDaemon
----------------------------------------------------------------------------
(* Dispatch *)

\* The insert; the DAEMON_TASK_CREATED event and the server config follow.
DispatchSave(t) ==
    /\ dispatch[t] = "idle"
    /\ Save(t, "waiting")
    /\ dispatch' = [dispatch EXCEPT ![t] = "saved"]
    /\ UNCHANGED <<effectVars, conn, bus, cancel, flush, upd, recon, reg,
                   inFlight, linkVars, daemonVars>>

\* Registry.SendTask: the local session if there is one, else pub-sub,
\* where Publish succeeds whether or not anybody holds the session.
DispatchSend(t) ==
    /\ dispatch[t] = "saved"
    /\ \/ /\ conn # 0
          /\ SendTo(conn, t)
          /\ dispatch' = [dispatch EXCEPT ![t] = "sent"]
          /\ UNCHANGED bus
       \/ /\ conn \notin {0, stream}
          /\ dispatch' = [dispatch EXCEPT ![t] = "done"]
          /\ UNCHANGED <<bus, toDaemon>>
       \/ /\ conn = 0
          /\ bus' = bus \cup {t}
          /\ dispatch' = [dispatch EXCEPT ![t] = "sent"]
          /\ UNCHANGED toDaemon
    /\ UNCHANGED <<rowVars, effectVars, conn, cancel, flush, upd, recon, reg,
                   inFlight, stream, used, toPanel, daemonVars>>

\* After a successful send the copy that was inserted is saved once more.
DispatchResave(t) ==
    /\ dispatch[t] = "sent"
    /\ Save(t, "waiting")
    /\ dispatch' = [dispatch EXCEPT ![t] = "done"]
    /\ UNCHANGED <<effectVars, conn, bus, cancel, flush, upd, recon, reg,
                   inFlight, linkVars, daemonVars>>

\* handleTaskDispatch: enqueued on the local session; dropped when there is
\* none or when the outbound queue refuses it.
BusDeliver(t) ==
    /\ t \in bus
    /\ bus' = bus \ {t}
    /\ \/ conn # 0 /\ SendTo(conn, t)
       \/ UNCHANGED toDaemon
    /\ UNCHANGED <<rowVars, effectVars, conn, dispatch, cancel, flush, upd,
                   recon, reg, inFlight, stream, used, toPanel, daemonVars>>
----------------------------------------------------------------------------
(* FlushPending: one goroutine per connection c *)

\* The loop over the tasks found, on session sess; it returns when none is left.
FlushLoop(todo, sess) ==
    IF todo = {} THEN NoFlush
    ELSE [pc |-> "send", todo |-> todo, sess |-> sess, cur |-> None]

FlushFind(c) ==
    /\ flush[c].pc = "find"
    /\ flush' = [flush EXCEPT ![c] =
                   IF conn = 0 THEN NoFlush
                   ELSE FlushLoop(FindByStatus("waiting"), conn)]
    /\ UNCHANGED <<rowVars, effectVars, conn, bus, dispatch, cancel, upd, recon,
                   reg, inFlight, linkVars, daemonVars>>

\* A failed send ends the goroutine and leaves the other tasks unsent.
FlushSend(c, t) ==
    /\ flush[c].pc = "send"
    /\ t \in flush[c].todo
    /\ \/ /\ SendTo(flush[c].sess, t)
          /\ flush' = [flush EXCEPT ![c] =
                         [pc |-> "save", todo |-> flush[c].todo \ {t},
                          sess |-> flush[c].sess, cur |-> t]]
       \/ /\ flush[c].sess # stream
          /\ flush' = [flush EXCEPT ![c] = NoFlush]
          /\ UNCHANGED toDaemon
    /\ UNCHANGED <<rowVars, effectVars, conn, bus, dispatch, cancel, upd, recon,
                   reg, inFlight, stream, used, toPanel, daemonVars>>

FlushSave(c) ==
    /\ flush[c].pc = "save"
    /\ Save(flush[c].cur, "working")
    /\ flush' = [flush EXCEPT ![c] = FlushLoop(flush[c].todo, flush[c].sess)]
    /\ late' = IF flush[c].sess = stream THEN late
               ELSE late \cup {flush[c].cur}
    /\ UNCHANGED <<installed, completions, conn, bus, dispatch, cancel, upd, recon, reg,
                   inFlight, linkVars, daemonVars>>

----------------------------------------------------------------------------
(* Messages of the daemon, handled in order by the Connect call of the stream *)

Receiving ==
    /\ reg = "idle"
    /\ stream # 0
    /\ conn = stream
    /\ toPanel # <<>>

\* HandleTaskStatusUpdate takes statusMu and reads the row.
UpdateFind ==
    /\ Receiving
    /\ Head(toPanel).kind # "chunk"
    /\ upd = None
    /\ upd' = [task |-> Head(toPanel).task, status |-> Head(toPanel).kind,
               prev |-> row[Head(toPanel).task]]
    /\ toPanel' = Tail(toPanel)
    /\ UNCHANGED <<rowVars, effectVars, conn, bus, dispatch, cancel, flush,
                   recon, reg, inFlight, stream, used, toDaemon, daemonVars>>

\* It saves its copy, updates the server, publishes and tells the plugins.
UpdateSave ==
    /\ upd # None
    /\ Save(upd.task, upd.status)
    /\ installed' = InstalledAfter(upd.task, upd.status)
    /\ IF upd.prev # upd.status /\ upd.status \in Terminal
       THEN EmitCompletion(upd.task)
       ELSE UNCHANGED completions
    /\ upd' = None
    /\ UNCHANGED <<late, conn, bus, dispatch, cancel, flush, recon, reg, inFlight,
                   linkVars, daemonVars>>

\* The context of a dead stream is cancelled: Save fails, the update is lost.
UpdateFail ==
    /\ upd # None
    /\ conn = 0 \/ conn # stream
    /\ upd' = None
    /\ UNCHANGED <<rowVars, effectVars, conn, bus, dispatch, cancel, flush,
                   recon, reg, inFlight, linkVars, daemonVars>>

HandleTaskOutput ==
    /\ Receiving
    /\ Head(toPanel).kind = "chunk"
    /\ upd = None
    /\ AppendOutput(Head(toPanel).task, "chunk")
    /\ toPanel' = Tail(toPanel)
    /\ UNCHANGED <<effectVars, conn, bus, dispatch, cancel, flush, upd, recon,
                   reg, inFlight, stream, used, toDaemon, daemonVars>>
----------------------------------------------------------------------------
(* ReconcileWorkingTasks: called by Connect before the session is registered, *)
(* and by the reaper. It does not take statusMu.                              *)

\* The loop over the abandoned tasks; a sweep ends with it, a registration goes on
\* with Register.
MarkLoop(p, todo) ==
    IF p = "reaper" /\ todo = {} THEN NoRecon
    ELSE [pc |-> "mark", todo |-> todo, cur |-> None]

\* Sweep: the node is away and one of its working tasks has an updated_at older
\* than StaleThreshold. Time is not modelled: any working task may be that old.
SweepFind ==
    /\ recon["reaper"].pc = "idle"
    /\ conn = 0
    /\ FindByStatus("working") # {}
    /\ recon' = [recon EXCEPT !["reaper"] =
                   [pc |-> "find", todo |-> {}, cur |-> None]]
    /\ UNCHANGED <<rowVars, effectVars, conn, bus, dispatch, cancel, flush, upd,
                   reg, inFlight, linkVars, daemonVars>>

\* Mutant: the membership test of inFlight is inverted.
ReconcileFind_Inverted(p) ==
    /\ recon[p].pc = "find"
    /\ recon' = [recon EXCEPT ![p] =
                   MarkLoop(p, FindByStatus("working") \cap inFlight)]
    /\ UNCHANGED <<rowVars, effectVars, conn, bus, dispatch, cancel, flush, upd,
                   reg, inFlight, linkVars, daemonVars>>

\* Every working task of the node that the daemon does not claim to hold.
ReconcileFind(p) ==
    /\ recon[p].pc = "find"
    /\ recon' = [recon EXCEPT ![p] =
                   MarkLoop(p, FindByStatus("working") \
                                 (IF p = "register" THEN inFlight ELSE {}))]
    /\ UNCHANGED <<rowVars, effectVars, conn, bus, dispatch, cancel, flush, upd,
                   reg, inFlight, linkVars, daemonVars>>

\* Mutant: the status is saved before the explanation is appended.
MarkAppend_SaveFirst(p, t) ==
    /\ recon[p].pc = "mark"
    /\ t \in recon[p].todo
    /\ Save(t, "error")
    /\ recon' = [recon EXCEPT ![p] =
                   [pc |-> "save", todo |-> recon[p].todo \ {t}, cur |-> t]]
    /\ UNCHANGED <<effectVars, conn, bus, dispatch, cancel, flush, upd, reg,
                   inFlight, linkVars, daemonVars>>

\* markTaskAbandoned, first half: AbandonedTaskMessage is appended.
MarkAppend(p, t) ==
    /\ recon[p].pc = "mark"
    /\ t \in recon[p].todo
    /\ AppendOutput(t, "abandoned")
    /\ recon' = [recon EXCEPT ![p] =
                   [pc |-> "save", todo |-> recon[p].todo \ {t}, cur |-> t]]
    /\ UNCHANGED <<effectVars, conn, bus, dispatch, cancel, flush, upd, reg,
                   inFlight, linkVars, daemonVars>>

\* Second half: the copy is saved as error and the failure is announced.
MarkSave(p) ==
    /\ recon[p].pc = "save"
    /\ Save(recon[p].cur, "error")
    /\ installed' = InstalledAfter(recon[p].cur, "error")
    /\ EmitCompletion(recon[p].cur)
    /\ recon' = [recon EXCEPT ![p] = MarkLoop(p, recon[p].todo)]
    /\ UNCHANGED <<late, conn, bus, dispatch, cancel, flush, upd, reg, inFlight,
                   linkVars, daemonVars>>

----------------------------------------------------------------------------
(* Connect *)

\* external: the daemon opens a stream and sends RegisterRequest.
DaemonConnect ==
    /\ stream = 0
    /\ reg = "idle"
    /\ used < MaxConns
    /\ used' = used + 1
    /\ stream' = used + 1
    /\ inFlight' = Held
    /\ reg' = "reconcile"
    /\ recon' = [recon EXCEPT !["register"] =
                   [pc |-> "find", todo |-> {}, cur |-> None]]
    /\ UNCHANGED <<rowVars, effectVars, conn, bus, dispatch, cancel, flush, upd,
                   toDaemon, toPanel, daemonVars>>

\* Registry.Register: an older session is cancelled and replaced.
Register ==
    /\ reg = "reconcile"
    /\ recon["register"].pc = "mark"
    /\ recon["register"].todo = {}
    /\ conn' = used
    /\ reg' = "ack"
    /\ recon' = [recon EXCEPT !["register"] = NoRecon]
    /\ inFlight' = {}
    /\ UNCHANGED <<rowVars, effectVars, bus, dispatch, cancel, flush, upd,
                   linkVars, daemonVars>>

\* Mutant: the ack carries no tasks and no FlushPending is started.
SendAck_NoPending ==
    /\ reg = "ack"
    /\ reg' = "idle"
    /\ UNCHANGED <<rowVars, effectVars, conn, bus, dispatch, cancel, flush, upd,
                   recon, inFlight, linkVars, daemonVars>>

\* buildRegisterAck and stream.Send: the ack carries every waiting task; then
\* flushPendingTasksAsync starts FlushPending and handleMessages begins.
SendAck ==
    /\ reg = "ack"
    /\ toDaemon' = IF used = stream
                   THEN toDaemon \cup FindByStatus("waiting") ELSE toDaemon
    /\ flush' = [flush EXCEPT ![used] =
                   [pc |-> "find", todo |-> {}, sess |-> 0, cur |-> None]]
    /\ reg' = "idle"
    /\ UNCHANGED <<rowVars, effectVars, conn, bus, dispatch, cancel, upd, recon,
                   inFlight, stream, used, toPanel, daemonVars>>

\* The ack was not built or not sent: Connect returns and cleans up. The stream
\* is over by then, broken before or by that return (StreamBreak).
ConnectFail ==
    /\ reg # "idle"
    /\ used # stream
    /\ reg' = "idle"
    /\ recon' = [recon EXCEPT !["register"] = NoRecon]
    /\ conn' = IF conn = used THEN 0 ELSE conn
    /\ inFlight' = {}
    /\ UNCHANGED <<rowVars, effectVars, bus, dispatch, cancel, flush, upd,
                   linkVars, daemonVars>>

\* The Connect call of a dead stream returns: UnregisterSession removes the
\* session, unless a newer one has replaced it.
Unregister ==
    /\ reg # "ack"
    /\ conn \notin {0, stream}
    /\ conn' = 0
    /\ UNCHANGED <<rowVars, effectVars, bus, dispatch, cancel, flush, upd, recon,
                   reg, inFlight, linkVars, daemonVars>>
----------------------------------------------------------------------------
(* The cancel request of the API *)

CancelFind(t) ==
    /\ cancel[t] = "idle"
    /\ row[t] = "waiting"
    /\ cancel' = [cancel EXCEPT ![t] = "checked"]
    /\ UNCHANGED <<rowVars, effectVars, conn, bus, dispatch, flush, upd, recon,
                   reg, inFlight, linkVars, daemonVars>>

\* Nothing is sent to the daemon, neither plugins nor the server are told.
CancelSave(t) ==
    /\ cancel[t] = "checked"
    /\ Save(t, "canceled")
    /\ cancel' = [cancel EXCEPT ![t] = "done"]
    /\ UNCHANGED <<effectVars, conn, bus, dispatch, flush, upd, recon, reg,
                   inFlight, linkVars, daemonVars>>
----------------------------------------------------------------------------
(* external: the daemon *)

Tell(t, k) == toPanel' = Append(toPanel, [task |-> t, kind |-> k])

\* A task already in processedTasks is ignored.
DaemonReceive(t) ==
    /\ t \in toDaemon
    /\ toDaemon' = toDaemon \ {t}
    /\ doing' = [doing EXCEPT ![t] = IF @ = "unknown" THEN "queued" ELSE @]
    /\ settled' = settled \cup {t}
    /\ UNCHANGED <<row, output, effectVars, conn, bus, dispatch, cancel,
                   flush, upd, recon, reg, inFlight, stream, used, toPanel,
                   reported, faults>>

DaemonStart(t) ==
    /\ doing[t] = "queued"
    /\ doing' = [doing EXCEPT ![t] = "running"]
    /\ reported' = [reported EXCEPT ![t] = @ \cup {"working"}]
    /\ Tell(t, "working")
    /\ UNCHANGED <<rowVars, effectVars, conn, bus, dispatch, cancel, flush, upd,
                   recon, reg, inFlight, stream, used, toDaemon, faults>>

DaemonOutput(t) ==
    /\ doing[t] = "running"
    /\ Len(output[t]) < MaxChunks
    /\ [task |-> t, kind |-> "chunk"] \notin
         {toPanel[i] : i \in 1 .. Len(toPanel)}
    /\ Tell(t, "chunk")
    /\ UNCHANGED <<rowVars, effectVars, conn, bus, dispatch, cancel, flush, upd,
                   recon, reg, inFlight, stream, used, toDaemon, daemonVars>>

DaemonFinish(t, s) ==
    /\ doing[t] = "running"
    /\ doing' = [doing EXCEPT ![t] = s]
    /\ reported' = [reported EXCEPT ![t] = @ \cup {s}]
    /\ Tell(t, s)
    /\ UNCHANGED <<rowVars, effectVars, conn, bus, dispatch, cancel, flush, upd,
                   recon, reg, inFlight, stream, used, toDaemon, faults>>

\* "The daemon may re-deliver an update (retry, reconnect replay)".
DaemonRedeliver(t) ==
    /\ doing[t] \in {"running", "success", "error"}
    /\ faults < MaxFaults
    /\ faults' = faults + 1
    /\ Tell(t, IF doing[t] = "running" THEN "working" ELSE doing[t])
    /\ UNCHANGED <<rowVars, effectVars, conn, bus, dispatch, cancel, flush, upd,
                   recon, reg, inFlight, stream, used, toDaemon, doing,
                   reported>>
----------------------------------------------------------------------------
(* Faults *)

\* The stream breaks; the daemon replays what it had not delivered, or not.
StreamBreak ==
    /\ stream # 0
    /\ used < MaxConns
    /\ stream' = 0
    /\ toDaemon' = {}
    /\ toPanel' \in {toPanel, <<>>}
    /\ UNCHANGED <<rowVars, effectVars, conn, bus, dispatch, cancel, flush, upd,
                   recon, reg, inFlight, used, daemonVars>>

\* The daemon restarts and forgets its queue and processedTasks.
DaemonRestart ==
    /\ used < MaxConns
    /\ faults < MaxFaults
    /\ faults' = faults + 1
    /\ stream' = 0
    /\ toDaemon' = {}
    /\ toPanel' = <<>>
    /\ doing' = [t \in Tasks |-> "unknown"]
    /\ UNCHANGED <<rowVars, effectVars, conn, bus, dispatch, cancel, flush, upd,
                   recon, reg, inFlight, used, reported>>

\* The panel process dies: every goroutine and the registry are gone.
PanelCrash ==
    /\ used < MaxConns
    /\ faults < MaxFaults
    /\ faults' = faults + 1
    /\ conn' = 0
    /\ bus' = {}
    /\ dispatch' = [t \in Tasks |->
                      IF dispatch[t] = "idle" THEN "idle" ELSE "done"]
    /\ cancel' = [t \in Tasks |-> IF cancel[t] = "idle" THEN "idle" ELSE "done"]
    /\ flush' = [c \in Conns |-> NoFlush]
    /\ upd' = None
    /\ recon' = [p \in Reconcilers |-> NoRecon]
    /\ reg' = "idle"
    /\ inFlight' = {}
    /\ stream' = 0
    /\ toDaemon' = {}
    /\ toPanel' \in {toPanel, <<>>}
    /\ UNCHANGED <<rowVars, effectVars, used, doing, reported>>
----------------------------------------------------------------------------
FlushPending(c) ==
    FlushFind(c) \/ (\E t \in Tasks : FlushSend(c, t)) \/ FlushSave(c)

HandleTaskStatusUpdate == UpdateFind \/ UpdateSave \/ UpdateFail

ReconcileWorkingTasks(p) ==
    ReconcileFind(p) \/ (\E t \in Tasks : MarkAppend(p, t)) \/ MarkSave(p)

Connect == Register \/ SendAck \/ ConnectFail \/ Unregister

Next ==
    \/ \E t \in Tasks :
          \/ DispatchSave(t) \/ DispatchSend(t) \/ DispatchResave(t)
          \/ BusDeliver(t)
          \/ CancelFind(t) \/ CancelSave(t)
          \/ DaemonReceive(t) \/ DaemonStart(t) \/ DaemonOutput(t)
          \/ DaemonRedeliver(t)
          \/ \E s \in {"success", "error"} : DaemonFinish(t, s)
    \/ \E c \in Conns : FlushPending(c)
    \/ HandleTaskStatusUpdate \/ HandleTaskOutput
    \/ \E p \in Reconcilers : ReconcileWorkingTasks(p)
    \/ SweepFind
    \/ DaemonConnect \/ Connect
    \/ StreamBreak \/ DaemonRestart \/ PanelCrash

Spec == Init /\ [][Next]_vars

\* A goroutine that can take its next step takes it; the daemon reconnects
\* and reads its stream. Nothing is assumed of users, of execution or faults.
Fairness ==
    /\ \A t \in Tasks : WF_vars(DispatchSend(t)) /\ WF_vars(DaemonReceive(t))
    /\ \A c \in Conns : WF_vars(FlushPending(c))
    /\ \A p \in Reconcilers : WF_vars(ReconcileWorkingTasks(p))
    /\ WF_vars(DaemonConnect)
    /\ WF_vars(Connect)

FairSpec == Spec /\ Fairness
----------------------------------------------------------------------------
(* Properties *)

Messages == [task : Tasks, kind : {"working", "success", "error", "chunk"}]
Updates == [task : Tasks, status : {"working", "success", "error"},
            prev : Statuses \cup {"none"}]
FlushStates == [pc : {"idle", "find", "send", "save"}, todo : SUBSET Tasks,
                sess : 0 .. MaxConns, cur : Tasks \cup {None}]
ReconStates == [pc : {"idle", "find", "mark", "save"}, todo : SUBSET Tasks,
                cur : Tasks \cup {None}]

TypeOK ==
    /\ row \in [Tasks -> Statuses \cup {"none"}]
    /\ output \in [Tasks -> Seq({"chunk", "abandoned"})]
    /\ settled \subseteq Tasks
    /\ installed \in {"not_installed", "in_progress", "installed"}
    /\ completions \in [Tasks -> Nat]
    /\ late \subseteq Tasks
    /\ conn \in 0 .. MaxConns
    /\ bus \subseteq Tasks
    /\ dispatch \in [Tasks -> {"idle", "saved", "sent", "done"}]
    /\ cancel \in [Tasks -> {"idle", "checked", "done"}]
    /\ flush \in [Conns -> FlushStates]
    /\ upd \in Updates \cup {None}
    /\ recon \in [Reconcilers -> ReconStates]
    /\ reg \in {"idle", "reconcile", "ack"}
    /\ inFlight \subseteq Tasks
    /\ stream \in 0 .. MaxConns
    /\ used \in 0 .. MaxConns
    /\ toDaemon \subseteq Tasks
    /\ toPanel \in Seq(Messages)
    /\ doing \in [Tasks -> {"unknown", "queued", "running", "success", "error"}]
    /\ reported \in [Tasks -> SUBSET {"working", "success", "error"}]
    /\ faults \in 0 .. MaxFaults

\* A row says success only if the daemon reported success for that task, and
\* no task makes the server installed but an install the daemon reported success
\* for (PUT of the server and plugins write servers.installed too): no stale copy saved by Dispatch, FlushPending, reconciliation or cancel, in
\* any order and across crashes, turns into a success nobody reported.
SuccessIsReported ==
    /\ \A t \in Tasks : row[t] = "success" => "success" \in reported[t]
    /\ installed = "installed" =>
         \E t \in InstallTasks : "success" \in reported[t]

\* A row says error only if the daemon reported an error or the output tells
\* the operator that the task was abandoned: markTaskAbandoned appends before
\* it saves, so not even a crash between the two leaves a failure unexplained,
\* and no later Save loses the explanation.
FailureIsExplained ==
    \A t \in Tasks :
        row[t] = "error" =>
            \/ "error" \in reported[t]
            \/ \E i \in 1 .. Len(output[t]) : output[t][i] = "abandoned"

\* The daemon is connected, has read everything sent to it, and no Dispatch is
\* about to send.
Quiet ==
    /\ stream # 0
    /\ conn = stream
    /\ reg = "idle"
    /\ toDaemon = {}
    /\ \A t \in Tasks : dispatch[t] # "saved"

\* Whenever the connected system is quiet, every task created so far was
\* received by the daemon or has been terminal, but for those a FlushPending
\* that outlived its stream saved as working. The race is Dispatch, which saves
\* and then looks for a session, against Connect, which registers the session
\* and then looks for waiting tasks, with streams that break under both.
ForgottenOnlyByLateFlush ==
    Quiet => \A t \in Tasks : row[t] # "none" => t \in settled \cup late

\* The output of a task only ever grows: Save keeps the stored output although
\* Find hands out copies without it.
OutputGrows ==
    [][\A t \in Tasks :
         /\ Len(output'[t]) >= Len(output[t])
         /\ SubSeq(output'[t], 1, Len(output[t])) = output[t]]_vars

\* Every dispatched task is at last received by the daemon or terminal, but for
\* late flushes, if the daemon reconnects after every break and breaks are
\* finitely many.
EveryTaskIsDelivered ==
    \A t \in Tasks : row[t] = "waiting" ~> t \in settled \cup late
=============================================================================
