---------------------------- MODULE ServerControl ----------------------------
(***************************************************************************)
(* The requests that act on one game server (services/servercontrol and    *)
(* api/servers/deleteserver) and the daemon tasks they create.  A request  *)
(* looks for unfinished tasks of its kind, saves a task and sends it;      *)
(* these are separate statements, and requests run side by side.  Only     *)
(* Reinstall runs in a transaction: its rows are hidden from all others    *)
(* until it commits, but its messages reach the daemon at once.            *)
(*                                                                         *)
(* The rows are also written by FlushPending, by reconciliation, by the    *)
(* cancel request and by the handler of the daemon's updates, which save   *)
(* what they read before, whatever the row says by then.  DaemonTasks has  *)
(* these writers in full; here each has the copies it has yet to save.     *)
(* The daemon is external; its tasks always succeed.                       *)
(***************************************************************************)
EXTENDS Naturals, Sequences, FiniteSets

CONSTANTS
    Requests,
    Ops,        \* of a request, the operations it may be for
    MaxInbox,   \* bound on updates under way when the daemon makes one
    MaxFaults   \* bound on failing statements, lost sends, reconnects, sweeps,
                \* repeated updates and cancel requests

\* deleteserver is "remove" with the files, "drop" without them.
Operations == {"start", "stop", "restart", "update", "install", "reinstall", "remove", "drop"}

ASSUME ServerControlAssumption ==
    /\ MaxFaults \in Nat /\ MaxInbox \in Nat
    /\ Ops \in [Requests -> SUBSET Operations]

Types == {"start", "stop", "restart", "update", "install", "delete"}
Tasks == Requests \X Types
Steps == {"idle", "setting", "flag", "checkall", "check", "save", "send", "resave",
          "close", "ended"}
Statuses == {"none", "waiting", "working", "success", "error", "canceled"}

VARIABLES
    server,     \* the row of the server: there, or deleted
    auto,       \* the setting autostart_current
    op, pc,     \* of a request: what it does, and where it is
    todo,       \* of a request: the tasks it has yet to create
    tx,         \* requests with an open transaction
    rows,       \* status of every task, "none" without a row
    queue, running, known,   \* the daemon's tasks; known: those it will not do again
    inbox,      \* the daemon's updates the panel has yet to handle
    files,      \* the files of the server are in place
    joining,    \* Connect calls that have yet to send the ack
    flushes,    \* FlushPending goroutines that have yet to look for tasks
    late,       \* copies of rows that are yet to be saved: the task, the status and
                \* who saves it; "found": FlushPending has yet to send it
    faults,     \* also the number of the Connect call, sweep or cancel request
    \* History, read by the properties only:
    over,       \* pairs of requests that were under way at the same time
    cut,        \* requests that ended early, and why
    resent,     \* deletions sent by a reconnect
    revived,    \* tasks that had ended and were saved as working after that
    enabled,    \* requests that found the setting autostart on
    wanted      \* autostart_current as the accepted requests want it

requestVars == <<op, pc, todo, tx>>
daemonVars == <<queue, running, known, inbox, files>>
copyVars == <<joining, flushes, late>>
history == <<over, cut, resent, revived, enabled, wanted>>
vars == <<server, auto, requestVars, rows, daemonVars, copyVars, faults, history>>

TypeOK ==
    /\ server \in BOOLEAN
    /\ auto \in BOOLEAN
    /\ op \in [Requests -> Operations \cup {"none"}]
    /\ pc \in [Requests -> Steps]
    /\ todo \in [Requests -> Seq(Types)]
    /\ tx \subseteq Requests
    /\ rows \in [Tasks -> Statuses]
    /\ queue \subseteq Tasks /\ running \subseteq Tasks /\ known \subseteq Tasks
    /\ inbox \subseteq Tasks \X {"working", "success"}
    /\ files \in BOOLEAN
    /\ joining \subseteq 1..MaxFaults /\ flushes \subseteq 1..MaxFaults
    /\ late \subseteq Tasks \X {"found", "working", "error", "canceled"} \X (1..MaxFaults)
    /\ faults \in 0..MaxFaults
    /\ over \subseteq Requests \X Requests
    /\ cut \in [Requests -> {"no", "refused", "rolledback", "fault"}]
    /\ resent \subseteq Tasks /\ revived \subseteq Tasks
    /\ enabled \subseteq Requests
    /\ wanted \in BOOLEAN

Init ==
    /\ server = TRUE
    /\ auto = FALSE
    /\ op = [r \in Requests |-> "none"]
    /\ pc = [r \in Requests |-> "idle"]
    /\ todo = [r \in Requests |-> <<>>]
    /\ tx = {}
    /\ rows = [t \in Tasks |-> "none"]
    /\ queue = {} /\ running = {} /\ known = {} /\ inbox = {}
    /\ files = TRUE
    /\ joining = {} /\ flushes = {} /\ late = {}
    /\ faults = 0
    /\ over = {}
    /\ cut = [r \in Requests |-> "no"]
    /\ resent = {} /\ revived = {} /\ enabled = {}
    /\ wanted = FALSE

-----------------------------------------------------------------------------
(* Requests *)

Active(r) == pc[r] \notin {"idle", "ended"}

Fault == faults < MaxFaults /\ faults' = faults + 1

\* workingTasksExist, of what r can see: the unfinished tasks.
Unfinished(r, types) ==
    {t \in Tasks : /\ rows[t] \in {"waiting", "working"}
                   /\ t[2] \in types
                   /\ t[1] = r \/ t[1] \notin tx}

\* The types the addServer functions look for.
Rivals(type) == IF type \in {"update", "install"} THEN {"update", "install"} ELSE {type}

\* Mutant: the files are deleted last.
Chains_Swapped(k) ==
    CASE k = "reinstall" -> {<<"stop", "install", "delete">>}
      [] k = "remove" -> {<<"delete">>, <<"stop", "delete">>}
      [] k = "drop" -> {<<>>}
      [] OTHER -> {<<k>>}

\* The tasks of an operation; removal stops the server only if it is online.
Chains(k) ==
    CASE k = "reinstall" -> {<<"stop", "delete", "install">>}
      [] k = "remove" -> {<<"delete">>, <<"stop", "delete">>}
      [] k = "drop" -> {<<>>}
      [] OTHER -> {<<k>>}

\* Mutant: a server that is dropped is deleted without a look at its tasks.
First_DropUnchecked(k) ==
    CASE k \in {"start", "restart", "stop"} -> "setting"
      [] k = "reinstall" -> "checkall"
      [] k = "remove" -> "save"
      [] k = "drop" -> "close"
      [] OTHER -> "check"

\* Where an operation starts, after the plugins have let it pass.
First(k) ==
    CASE k \in {"start", "restart", "stop"} -> "setting"
      [] k \in {"reinstall", "drop"} -> "checkall"
      [] k = "remove" -> "save"
      [] OTHER -> "check"

\* The handler finds the server.
Begin(r, k) ==
    /\ pc[r] = "idle"
    /\ server
    /\ op' = [op EXCEPT ![r] = k]
    /\ pc' = [pc EXCEPT ![r] = First(k)]
    /\ \E chain \in Chains(k) : todo' = [todo EXCEPT ![r] = chain]
    /\ over' = over \cup {p \in Requests \X Requests :
                             r \in {p[1], p[2]} /\ \E q \in Requests :
                                Active(q) /\ q \in {p[1], p[2]} /\ q # r}
    /\ UNCHANGED <<server, auto, tx, rows, daemonVars, copyVars, faults, cut, resent,
                   revived, enabled, wanted>>

\* updateAutostartCurrentIfEnabled reads the setting autostart, which clients
\* may change at any time: it is on or off. updateAutostartCurrent, of a stop,
\* does not read it.
Setting(r, on) ==
    /\ pc[r] = "setting"
    /\ on => op[r] # "stop"
    /\ pc' = [pc EXCEPT ![r] = IF on \/ op[r] = "stop" THEN "flag" ELSE "check"]
    /\ enabled' = IF on THEN enabled \cup {r} ELSE enabled
    /\ UNCHANGED <<server, auto, op, todo, tx, rows, daemonVars, copyVars, faults,
                   over, cut, resent, revived, wanted>>

\* Mutant: a stop leaves autostart_current alone.
Flag_NoStop(r) ==
    /\ pc[r] = "flag"
    /\ auto' = (auto \/ op[r] # "stop")
    /\ pc' = [pc EXCEPT ![r] = "check"]
    /\ UNCHANGED <<server, op, todo, tx, rows, daemonVars, copyVars, faults, history>>

\* updateAutostartCurrent saves the setting, before the task is known to be
\* accepted.
Flag(r) ==
    /\ pc[r] = "flag"
    /\ auto' = (op[r] # "stop")
    /\ pc' = [pc EXCEPT ![r] = "check"]
    /\ UNCHANGED <<server, op, todo, tx, rows, daemonVars, copyVars, faults, history>>

\* The request ends with an error, and its transaction is rolled back.
Abandon(r, why) ==
    /\ pc' = [pc EXCEPT ![r] = "ended"]
    /\ todo' = [todo EXCEPT ![r] = <<>>]
    /\ cut' = [cut EXCEPT ![r] = IF why = "refused" /\ r \in tx THEN "rolledback" ELSE why]
    /\ rows' = [t \in Tasks |-> IF t[1] = r /\ r \in tx THEN "none" ELSE rows[t]]
    /\ tx' = tx \ {r}
    /\ UNCHANGED <<server, auto, op, daemonVars, copyVars, over, resent, revived,
                   enabled, wanted>>

\* Mutant: Reinstall does not look for stop tasks.
CheckAll_Partial(r) ==
    /\ pc[r] = "checkall"
    /\ IF Unfinished(r, IF op[r] = "drop" THEN Types ELSE Types \ {"stop"}) # {}
       THEN Abandon(r, "refused")
       ELSE /\ pc' = [pc EXCEPT ![r] = IF op[r] = "drop" THEN "close" ELSE "check"]
            /\ tx' = IF op[r] = "reinstall" THEN tx \cup {r} ELSE tx
            /\ UNCHANGED <<server, auto, op, todo, rows, daemonVars, copyVars, history>>
    /\ UNCHANGED faults

\* Reinstall and deleteWithoutFiles look for any unfinished task; the
\* transaction of Reinstall begins after that.
CheckAll(r) ==
    /\ pc[r] = "checkall"
    /\ IF Unfinished(r, Types) # {}
       THEN Abandon(r, "refused")
       ELSE /\ pc' = [pc EXCEPT ![r] = IF op[r] = "drop" THEN "close" ELSE "check"]
            /\ tx' = IF op[r] = "reinstall" THEN tx \cup {r} ELSE tx
            /\ UNCHANGED <<server, auto, op, todo, rows, daemonVars, copyVars, history>>
    /\ UNCHANGED faults

\* Mutant: tasks the daemon works on do not count.
Check_Waiting(r) ==
    /\ pc[r] = "check"
    /\ IF \E t \in Unfinished(r, Rivals(Head(todo[r]))) : rows[t] = "waiting"
       THEN Abandon(r, "refused")
       ELSE /\ pc' = [pc EXCEPT ![r] = "save"]
            /\ UNCHANGED <<server, auto, op, todo, tx, rows, daemonVars, copyVars, history>>
    /\ UNCHANGED faults

\* addServerStart, ...: look for unfinished tasks of the type.
Check(r) ==
    /\ pc[r] = "check"
    /\ IF Unfinished(r, Rivals(Head(todo[r]))) # {}
       THEN Abandon(r, "refused")
       ELSE /\ pc' = [pc EXCEPT ![r] = "save"]
            /\ UNCHANGED <<server, auto, op, todo, tx, rows, daemonVars, copyVars, history>>
    /\ UNCHANGED faults

\* serverCommandCorrectOrFail: the server has no start command; or it is
\* online and deleteWithoutFiles gives up.
Refuse(r) ==
    /\ \/ pc[r] = "save" /\ Head(todo[r]) \in {"start", "restart"}
       \/ pc[r] = "checkall" /\ op[r] = "drop"
    /\ Abandon(r, "refused")
    /\ UNCHANGED faults

Task(r) == <<r, Head(todo[r])>>

\* Dispatch: the row is saved.
Save(r) ==
    /\ pc[r] = "save"
    /\ rows' = [rows EXCEPT ![Task(r)] = "waiting"]
    /\ pc' = [pc EXCEPT ![r] = "send"]
    /\ UNCHANGED <<server, auto, op, todo, tx, daemonVars, copyVars, faults, history>>

\* The rest of the operation, once Dispatch of a task has returned.
Go(r) ==
    LET left == Tail(todo[r]) IN
    /\ todo' = [todo EXCEPT ![r] = left]
    /\ pc' = [pc EXCEPT ![r] = CASE left = <<>> -> "close"
                                 [] left # <<>> /\ op[r] = "remove" -> "save"
                                 [] OTHER -> "check"]

\* The daemon gets tasks: it takes those it does not know.
Arrive(tasks) ==
    /\ queue' = queue \cup (tasks \ known)
    /\ known' = known \cup tasks

\* Dispatch: SendTask. What goes to a dead stream, or is published while no
\* instance has the session, counts as sent and is lost.
Send(r) ==
    /\ pc[r] = "send"
    /\ pc' = [pc EXCEPT ![r] = "resave"]
    /\ \/ Arrive({Task(r)}) /\ UNCHANGED faults
       \/ Fault /\ UNCHANGED <<queue, known>>
    /\ UNCHANGED <<server, auto, op, todo, tx, rows, running, inbox, files, copyVars, history>>

\* Dispatch: the task cannot be sent, a reconnect will send it; or it cannot
\* be saved again. Both are only logged.
SendFail(r) ==
    /\ pc[r] \in {"send", "resave"}
    /\ Fault
    /\ Go(r)
    /\ UNCHANGED <<server, auto, op, tx, rows, daemonVars, copyVars, history>>

\* Dispatch: the row is saved again, as it was created.
Resave(r) ==
    /\ pc[r] = "resave"
    /\ rows' = [rows EXCEPT ![Task(r)] = "waiting"]
    /\ Go(r)
    /\ UNCHANGED <<server, auto, op, tx, daemonVars, copyVars, faults, history>>

\* The request ends: the transaction commits, a deleted server is gone.
Close(r) ==
    /\ pc[r] = "close"
    /\ pc' = [pc EXCEPT ![r] = "ended"]
    /\ tx' = tx \ {r}
    /\ server' = (server /\ op[r] \notin {"remove", "drop"})
    /\ wanted' = (op[r] # "stop" /\ (wanted \/ r \in enabled))
    /\ UNCHANGED <<auto, op, todo, rows, daemonVars, copyVars, faults, over, cut, resent,
                   revived, enabled>>

\* A statement fails, or the instance stops.
Fail(r) ==
    /\ Active(r)
    /\ Fault
    /\ Abandon(r, "fault")

-----------------------------------------------------------------------------
(* The daemon, and what the panel does with what it says *)

Pending == {t \in Tasks : rows[t] \in {"waiting", "working"}}

\* What the panel's statements outside of a transaction find.
Visible == {t \in Tasks : rows[t] # "none" /\ t[1] \notin tx}

\* A row is saved with status s, whatever it says.
SaveAs(t, s) ==
    /\ rows' = [rows EXCEPT ![t] = s]
    /\ revived' = IF s = "working" /\ t \notin Pending THEN revived \cup {t} ELSE revived

\* An update for a row that is not found is dropped, any other is saved. The
\* row that was found can change but not vanish until it is.
HandleTaskStatusUpdate(t, s) ==
    /\ s = "success" => <<t, "working">> \notin inbox
    /\ inbox' = inbox \ {<<t, s>>}
    /\ IF t \in Visible THEN SaveAs(t, s) ELSE UNCHANGED <<rows, revived>>
    /\ UNCHANGED <<server, auto, requestVars, queue, running, known, files, copyVars,
                   faults, over, cut, resent, enabled, wanted>>

\* "The daemon may re-deliver an update (retry, reconnect replay)".
Redeliver(t, s) ==
    /\ t \in known \ queue
    /\ s = "working" \/ (s = "success" /\ t \notin running)
    /\ Fault
    /\ inbox' = inbox \cup {<<t, s>>}
    /\ UNCHANGED <<server, auto, requestVars, rows, queue, running, known, files,
                   copyVars, history>>

\* The task that run_aft_id names.
RunAfter(t) ==
    CASE t[2] = "delete" -> <<t[1], "stop">>
      [] t[2] = "install" -> <<t[1], "delete">>
      [] OTHER -> t

\* A task waits while the daemon has the one it is to run after.
DaemonStart(t) ==
    /\ t \in queue
    /\ Cardinality(inbox) < MaxInbox
    /\ RunAfter(t) = t \/ RunAfter(t) \notin queue \cup running
    /\ queue' = queue \ {t}
    /\ running' = running \cup {t}
    /\ inbox' = inbox \cup {<<t, "working">>}
    /\ UNCHANGED <<server, auto, requestVars, rows, known, files, copyVars, faults, history>>

DaemonFinish(t) ==
    /\ t \in running
    /\ Cardinality(inbox) < MaxInbox
    /\ running' = running \ {t}
    /\ files' = IF t[2] = "delete" THEN FALSE ELSE files \/ t[2] = "install"
    /\ inbox' = inbox \cup {<<t, "success">>}
    /\ UNCHANGED <<server, auto, requestVars, rows, queue, known, copyVars, faults, history>>

\* The copies ReconcileWorkingTasks will save as error: of working rows the
\* daemon does not have.
Abandoned(held) ==
    {t \in Visible \ held : rows[t] = "working"} \X {"error"} \X {faults'}

\* The daemon connects again, perhaps after a restart that forgets its tasks.
\* Updates that were under way are replayed, or lost.
Reconnect(restart) ==
    /\ Fault
    /\ late' = late \cup Abandoned(IF restart THEN {} ELSE queue \cup running)
    /\ joining' = joining \cup {faults'}
    /\ queue' = IF restart THEN {} ELSE queue
    /\ running' = IF restart THEN {} ELSE running
    /\ known' = IF restart THEN {} ELSE known
    /\ inbox' \in IF restart THEN {{}} ELSE {{}, inbox}
    /\ UNCHANGED <<server, auto, requestVars, rows, files, flushes, history>>

\* Sweep: the daemon has been away for long.
Sweep ==
    /\ Fault
    /\ late' = late \cup Abandoned({})
    /\ UNCHANGED <<server, auto, requestVars, rows, daemonVars, joining, flushes, history>>

\* After that the ack carries the waiting tasks, and FlushPending is started.
SendAck(c) ==
    /\ \A t \in Tasks : <<t, "error", c>> \notin late
    /\ joining' = joining \ {c}
    /\ flushes' = flushes \cup {c}
    /\ LET waiting == {t \in Visible : rows[t] = "waiting"} IN
       /\ Arrive(waiting)
       /\ resent' = resent \cup {t \in waiting : t[2] = "delete"}
    /\ UNCHANGED <<server, auto, requestVars, rows, running, inbox, files, late, faults,
                   over, cut, revived, enabled, wanted>>

\* FlushPending looks for waiting tasks.
FlushFind(c) ==
    /\ flushes' = flushes \ {c}
    /\ late' = late \cup ({t \in Visible : rows[t] = "waiting"} \X {"found"} \X {c})
    /\ UNCHANGED <<server, auto, requestVars, rows, daemonVars, joining, faults, history>>

\* It sends one after the other, to a stream that may be dead by then.
FlushSend(t, c) ==
    /\ <<t, "found", c>> \in late
    /\ \A u \in Tasks : <<u, "working", c>> \notin late
    /\ late' = (late \ {<<t, "found", c>>}) \cup {<<t, "working", c>>}
    /\ \/ /\ Arrive({t})
          /\ resent' = IF t[2] = "delete" THEN resent \cup {t} ELSE resent
       \/ UNCHANGED <<queue, known, resent>>
    /\ UNCHANGED <<server, auto, requestVars, rows, running, inbox, files, joining,
                   flushes, faults, over, cut, revived, enabled, wanted>>

\* The cancel request finds the task waiting.
CancelFind(t) ==
    /\ t \in Visible /\ rows[t] = "waiting"
    /\ Fault
    /\ late' = late \cup {<<t, "canceled", faults'>>}
    /\ UNCHANGED <<server, auto, requestVars, rows, daemonVars, joining, flushes, history>>

\* FlushPending, markTaskAbandoned and the cancel request save their copies, or
\* fail to.
SaveLate(t, s, c) ==
    /\ s # "found"
    /\ late' = late \ {<<t, s, c>>}
    /\ SaveAs(t, s) \/ UNCHANGED <<rows, revived>>
    /\ UNCHANGED <<server, auto, requestVars, daemonVars, joining, flushes, faults, over,
                   cut, resent, enabled, wanted>>

Next ==
    \/ \E r \in Requests :
          \/ \E k \in Ops[r] : Begin(r, k)
          \/ \E on \in BOOLEAN : Setting(r, on)
          \/ Flag(r) \/ CheckAll(r) \/ Check(r) \/ Refuse(r) \/ Save(r)
          \/ Send(r) \/ SendFail(r) \/ Resave(r) \/ Close(r) \/ Fail(r)
    \/ \E t \in Tasks :
          \/ DaemonStart(t) \/ DaemonFinish(t) \/ CancelFind(t)
          \/ \E s \in {"working", "success"} : Redeliver(t, s)
    \/ \E p \in inbox : HandleTaskStatusUpdate(p[1], p[2])
    \/ \E restart \in BOOLEAN : Reconnect(restart)
    \/ Sweep
    \/ \E c \in joining : SendAck(c)
    \/ \E c \in flushes : FlushFind(c)
    \/ \E p \in late : FlushSend(p[1], p[3]) \/ SaveLate(p[1], p[2], p[3])

Spec == Init /\ [][Next]_vars

-----------------------------------------------------------------------------
(* Properties *)

Overlapped(r, q) == <<r, q>> \in over \/ <<q, r>> \in over

\* At most one unfinished task of a kind: two only if their requests were
\* under way at the same time, or the server is being removed with its files,
\* which looks for nothing - or one of them had ended and was saved as working
\* after that, by a FlushPending that found it waiting or by an update of the
\* daemon that came late or twice.
OneTaskOfAKind ==
    \A t, u \in Pending \ revived :
        t[1] # u[1] /\ t[2] \in Rivals(u[2])
        => Overlapped(t[1], u[1]) \/ "remove" \in {op[t[1]], op[u[1]]}

\* Reinstall is refused inside its transaction, with tasks already sent, only
\* because of another request that was under way with it, or of a task of
\* another request that had ended and was saved as working after that.
RollbackNeedsOverlap ==
    \A r \in Requests : cut[r] = "rolledback" =>
        \E q \in Requests \ {r} : Overlapped(r, q) \/ revived \cap ({q} \X Types) # {}

Settled ==
    /\ \A r \in Requests : ~Active(r)
    /\ queue = {} /\ running = {}
    /\ Pending = {}

\* When everything has ended the files of the server are in place, however
\* reinstallations and other requests interleaved - unless the server was
\* removed with them, a Reinstall was rolled back, its installation is shown as
\* failed or canceled, or a reconnect sent a delete task, which the daemon may
\* carry out after the installation.
FilesComeBack ==
    Settled /\ ~files =>
        \E r \in Requests :
            \/ op[r] = "remove"
            \/ op[r] = "reinstall" /\ cut[r] # "no"
            \/ rows[<<r, "install">>] \in {"error", "canceled"}
            \/ <<r, "delete">> \in resent

\* A server deleted without its files has no unfinished task, unless the
\* request for the task was under way with the deletion, or the task had ended
\* and was saved as working after that.
NoTaskLeftBehind ==
    \A r \in Requests : op[r] = "drop" /\ pc[r] = "ended" /\ cut[r] = "no" =>
        \A t \in Pending \ revived : Overlapped(r, t[1])

\* autostart_current is what the accepted requests want, each with the setting
\* it read: off after a stop, on after a start with autostart on. Excepted are
\* requests that overlapped and those refused or failed after they changed it.
AutostartAgrees ==
    /\ over = {}
    /\ \A r \in Requests : ~Active(r) /\ (op[r] \in {"start", "stop", "restart"} => cut[r] = "no")
    => auto = wanted

=============================================================================
