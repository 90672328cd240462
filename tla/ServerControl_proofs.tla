------------------------ MODULE ServerControl_proofs ------------------------
(***************************************************************************)
(* Proofs about ServerControl, for any number of requests and faults.      *)
(***************************************************************************)
EXTENDS ServerControl, TLAPS

Rest == <<"delete", "install">>
Whole == <<"stop", "delete", "install">>

\* The disjuncts of Next: the steps of a request, and those of everyone else.
Start(r) == \E k \in Ops[r] : Begin(r, k)
Reads(r) == \E on \in BOOLEAN : Setting(r, on)
Own(r) ==
    \/ Start(r) \/ Reads(r) \/ Flag(r) \/ CheckAll(r) \/ Check(r) \/ Refuse(r) \/ Save(r)
    \/ Send(r) \/ SendFail(r) \/ Resave(r) \/ Close(r) \/ Fail(r)

Daemon ==
    \/ \E t \in Tasks : DaemonStart(t) \/ DaemonFinish(t)
    \/ \E t \in Tasks, s \in {"working", "success"} : Redeliver(t, s)
    \/ \E restart \in BOOLEAN : Reconnect(restart)

Panel ==
    \/ \E t \in Tasks : CancelFind(t)
    \/ Sweep
    \/ \E c \in joining : SendAck(c)
    \/ \E c \in flushes : FlushFind(c)
    \/ \E p \in late : FlushSend(p[1], p[3])

Saves ==
    \/ \E p \in inbox : HandleTaskStatusUpdate(p[1], p[2])
    \/ \E p \in late : SaveLate(p[1], p[2], p[3])

Elsewhere == Daemon \/ Panel \/ Saves

\* Where a request can be, and which rows it can have by then.
Shape ==
    \A r \in Requests :
        /\ pc[r] = "idle" <=> op[r] = "none"
        /\ pc[r] \in {"idle", "setting", "flag", "checkall"} \/ op[r] = "drop"
              => \A y \in Types : rows[<<r, y>>] = "none" /\ <<r, y>> \notin known
        /\ op[r] = "drop" => pc[r] \in {"checkall", "close", "ended"}
        /\ pc[r] \in {"setting", "flag", "check", "save", "send", "resave"} => todo[r] # <<>>
        /\ pc[r] = "checkall" => op[r] \in {"drop", "reinstall"}
        /\ pc[r] \in {"setting", "flag"} => op[r] \in {"start", "stop", "restart"}
        /\ op[r] = "reinstall" /\ pc[r] \notin {"checkall", "ended"} => r \in tx
        /\ r \in tx => op[r] = "reinstall" /\ pc[r] \notin {"checkall", "ended"}

\* A reinstallation has the rows of the tasks before the one it is at.
Chain ==
    \A r \in Requests :
        op[r] = "reinstall" /\ pc[r] \in {"checkall", "check", "save", "send", "resave"} =>
            /\ todo[r] \in {Whole, Rest, <<"install">>}
            /\ \A y \in Types : rows[<<r, y>>] # "none" =>
                  \/ y = "stop" /\ todo[r] # Whole
                  \/ y = "delete" /\ todo[r] = <<"install">>
                  \/ y = Head(todo[r]) /\ pc[r] \in {"send", "resave"}

\* Requests under way at the same time are remembered as such.
Together ==
    \A r, q \in Requests : r # q /\ Active(r) /\ Active(q) => Overlapped(r, q)

\* The daemon has a task in one place, and speaks of those it knows only.
Placed ==
    /\ queue \subseteq known /\ running \subseteq known
    /\ queue \cap running = {}
    /\ \A p \in inbox : p[1] \in known

\* A copy that is yet to be saved is of a row that is there for all to see.
LateOK == \A p \in late : rows[p[1]] # "none" /\ p[1][1] \notin tx

\* A request that has looked for rivals of its next task has left none behind.
Checked ==
    \A r \in Requests : pc[r] \in {"save", "send", "resave"} /\ op[r] # "remove" =>
        \A u \in Pending \ revived :
            u[1] # r /\ u[2] \in Rivals(Head(todo[r]))
            => Overlapped(r, u[1]) \/ op[u[1]] = "remove"

\* The requests that have looked for any unfinished task.
Looked(r) ==
    \/ op[r] = "drop" /\ (pc[r] = "close" \/ (pc[r] = "ended" /\ cut[r] = "no"))
    \/ op[r] = "reinstall" /\ pc[r] \notin {"checkall", "ended"}

LookedOK ==
    \A r \in Requests : Looked(r) =>
        \A u \in Pending \ revived : u[1] # r => Overlapped(r, u[1])

\* Nobody begins after the server is gone.
DropOK ==
    \A r \in Requests : op[r] = "drop" /\ pc[r] = "ended" /\ cut[r] = "no" =>
        /\ ~server
        /\ \A q \in Requests \ {r} : Active(q) => Overlapped(r, q)

\* Only requests that have ended are refused.
CutOK == \A r \in Requests : cut[r] # "no" => pc[r] = "ended"

Inv == /\ TypeOK /\ Shape /\ Chain /\ Together /\ Placed /\ LateOK /\ Checked
       /\ LookedOK /\ DropOK /\ CutOK
       /\ OneTaskOfAKind /\ RollbackNeedsOverlap

\* Init establishes the invariant.
LEMMA InitInv == Init => Inv
<1> SUFFICES ASSUME Init PROVE Inv
  OBVIOUS
<1> USE ServerControlAssumption DEF Init
<1>0. <<>> \in Seq(Types)
  OBVIOUS
<1>a. todo \in [Requests -> Seq(Types)]
  BY <1>0
<1>b. /\ op \in [Requests -> Operations \cup {"none"}] /\ pc \in [Requests -> Steps]
      /\ cut \in [Requests -> {"no", "refused", "rolledback", "fault"}]
      /\ faults \in 0 .. MaxFaults
      /\ rows \in [Tasks -> Statuses]
  BY DEF Steps, Statuses
<1>1. TypeOK
  BY <1>a, <1>b DEF TypeOK
<1>2. Shape /\ Chain
  BY DEF Shape, Chain, Tasks
<1>3. Together /\ Placed /\ LateOK
  BY DEF Together, Placed, LateOK, Active
<1>4. Pending = {}
  BY DEF Pending
<1>5. Checked /\ LookedOK /\ DropOK /\ CutOK
  BY <1>4 DEF Checked, LookedOK, Looked, DropOK, CutOK, Active
<1>6. OneTaskOfAKind /\ RollbackNeedsOverlap
  BY <1>4 DEF OneTaskOfAKind, RollbackNeedsOverlap
<1> QED BY <1>1, <1>2, <1>3, <1>5, <1>6 DEF Inv

\* The disjuncts of Next, by who takes the step.
LEMMA NextSplit == ASSUME Next PROVE (\E r \in Requests : Own(r)) \/ Elsewhere
<1>1. CASE \E r \in Requests :
             \/ \E k \in Ops[r] : Begin(r, k)
             \/ \E on \in BOOLEAN : Setting(r, on)
             \/ Flag(r) \/ CheckAll(r) \/ Check(r) \/ Refuse(r) \/ Save(r)
             \/ Send(r) \/ SendFail(r) \/ Resave(r) \/ Close(r) \/ Fail(r)
  BY <1>1 DEF Own, Start, Reads
<1>2. CASE \E t \in Tasks :
             \/ DaemonStart(t) \/ DaemonFinish(t) \/ CancelFind(t)
             \/ \E s \in {"working", "success"} : Redeliver(t, s)
  BY <1>2 DEF Elsewhere, Daemon, Panel
<1>3. CASE \/ \E p \in inbox : HandleTaskStatusUpdate(p[1], p[2])
           \/ \E restart \in BOOLEAN : Reconnect(restart)
           \/ Sweep
           \/ \E c \in joining : SendAck(c)
           \/ \E c \in flushes : FlushFind(c)
           \/ \E p \in late : FlushSend(p[1], p[3]) \/ SaveLate(p[1], p[2], p[3])
  BY <1>3 DEF Elsewhere, Daemon, Panel, Saves
<1> QED BY <1>1, <1>2, <1>3 DEF Next

\* The operations of a request.
LEMMA OpType == ASSUME NEW r \in Requests, NEW k \in Ops[r] PROVE k \in Operations
BY ServerControlAssumption

\* The task a request is at.
LEMMA TaskType ==
    ASSUME TypeOK, NEW r \in Requests, todo[r] # <<>>
    PROVE  /\ Head(todo[r]) \in Types /\ Tail(todo[r]) \in Seq(Types)
           /\ Task(r) \in Tasks /\ Task(r)[1] = r /\ Task(r)[2] = Head(todo[r])
BY DEF TypeOK, Task, Tasks

\* What is yet to be saved or handled is typed.
LEMMA CopyType ==
    ASSUME TypeOK
    PROVE  /\ \A p \in late : /\ p[1] \in Tasks /\ p[3] \in 1 .. MaxFaults
                              /\ p[2] \in {"found", "working", "error", "canceled"}
           /\ \A p \in inbox : p[1] \in Tasks /\ p[2] \in {"working", "success"}
           /\ \A t \in Tasks : t[1] \in Requests /\ t[2] \in Types /\ t = <<t[1], t[2]>>
BY DEF TypeOK, Tasks

\* A count of faults is typed, and is the number of a connect call.
LEMMA FaultType ==
    ASSUME TypeOK, Fault PROVE faults' \in 0 .. MaxFaults /\ faults' \in 1 .. MaxFaults
BY ServerControlAssumption DEF TypeOK, Fault

\* What saving a row over another does.
LEMMA SaveAsEffect ==
    ASSUME TypeOK, NEW t \in Tasks, NEW s \in Statuses, SaveAs(t, s)
    PROVE  /\ rows' \in [Tasks -> Statuses] /\ rows'[t] = s
           /\ \A u \in Tasks : u # t => rows'[u] = rows[u]
           /\ revived \subseteq revived' /\ revived' \subseteq revived \cup {t}
           /\ s = "working" /\ t \notin Pending => t \in revived'
<1>1. rows' = [rows EXCEPT ![t] = s]
  BY DEF SaveAs
<1>2. rows' \in [Tasks -> Statuses] /\ rows'[t] = s
  BY <1>1 DEF TypeOK
<1>3. \A u \in Tasks : u # t => rows'[u] = rows[u]
  BY <1>1 DEF TypeOK
<1>4. CASE s = "working" /\ t \notin Pending
  BY <1>2, <1>3, <1>4 DEF SaveAs
<1>5. CASE ~(s = "working" /\ t \notin Pending)
  BY <1>2, <1>3, <1>5 DEF SaveAs
<1> QED BY <1>4, <1>5

\* A step of someone else that saves a row.
LEMMA SavesEffect ==
    ASSUME TypeOK, LateOK, Saves
    PROVE  /\ \/ UNCHANGED <<rows, revived>>
              \/ \E t \in Tasks, s \in Statuses :
                    /\ t \in Visible /\ s \in {"working", "success", "error", "canceled"}
                    /\ s = "success" => <<t, "success">> \in inbox
                    /\ SaveAs(t, s)
           /\ UNCHANGED <<server, auto, op, pc, todo, tx, queue, running, known, files, joining,
                          flushes, faults, over, cut, resent, enabled, wanted>>
           /\ inbox' \subseteq inbox /\ late' \subseteq late
<1> DEFINE Goal ==
           /\ \/ UNCHANGED <<rows, revived>>
              \/ \E t \in Tasks, s \in Statuses :
                    /\ t \in Visible /\ s \in {"working", "success", "error", "canceled"}
                    /\ s = "success" => <<t, "success">> \in inbox
                    /\ SaveAs(t, s)
           /\ UNCHANGED <<server, auto, op, pc, todo, tx, queue, running, known, files, joining,
                          flushes, faults, over, cut, resent, enabled, wanted>>
           /\ inbox' \subseteq inbox /\ late' \subseteq late
<1>1. ASSUME NEW p \in inbox, HandleTaskStatusUpdate(p[1], p[2]) PROVE Goal
  <2>0. p[1] \in Tasks /\ p[2] \in {"working", "success"} /\ p = <<p[1], p[2]>>
    BY DEF TypeOK
  <2>1. /\ UNCHANGED <<server, auto, op, pc, todo, tx, queue, running, known, files, joining,
                       flushes, faults, over, cut, resent, enabled, wanted>>
        /\ inbox' \subseteq inbox /\ late' = late
    BY <1>1 DEF HandleTaskStatusUpdate, requestVars, copyVars
  <2>2. (p[1] \in Visible /\ SaveAs(p[1], p[2])) \/ UNCHANGED <<rows, revived>>
    BY <1>1 DEF HandleTaskStatusUpdate
  <2>3. p[2] \in Statuses
    BY <2>0 DEF Statuses
  <2>4. CASE p[1] \in Visible /\ SaveAs(p[1], p[2])
    BY <2>0, <2>1, <2>3, <2>4
  <2> QED BY <2>1, <2>2, <2>4
<1>2. ASSUME NEW p \in late, SaveLate(p[1], p[2], p[3]) PROVE Goal
  <2>0. p[1] \in Tasks /\ p[2] \in {"working", "error", "canceled"}
    BY <1>2, CopyType DEF SaveLate
  <2>1. p[1] \in Visible
    BY <2>0 DEF LateOK, Visible
  <2>2. /\ UNCHANGED <<server, auto, op, pc, todo, tx, queue, running, known, files, joining,
                       flushes, faults, over, cut, resent, enabled, wanted>>
        /\ inbox' = inbox /\ late' \subseteq late
    BY <1>2 DEF SaveLate, requestVars, daemonVars
  <2>3. SaveAs(p[1], p[2]) \/ UNCHANGED <<rows, revived>>
    BY <1>2 DEF SaveLate
  <2>4. p[2] \in Statuses
    BY <2>0 DEF Statuses
  <2> QED BY <2>0, <2>1, <2>2, <2>3, <2>4
<1> HIDE DEF Goal
<1>3. Goal
  BY <1>1, <1>2 DEF Saves
<1> QED BY <1>3 DEF Goal

\* What the steps of everyone but the requests leave alone, and how far they go.
LEMMA ElsewhereEffect ==
    ASSUME TypeOK, LateOK, Elsewhere
    PROVE  /\ UNCHANGED <<server, auto, op, pc, todo, tx, over, cut, enabled, wanted>>
           /\ \A t \in Tasks :
                 \/ rows'[t] = rows[t]
                 \/ /\ t \in Visible /\ rows'[t] \in {"working", "success", "error", "canceled"}
                    /\ rows'[t] = "success" => <<t, "success">> \in inbox
                    /\ rows'[t] = "working" /\ t \notin Pending => t \in revived'
           /\ revived \subseteq revived' /\ resent \subseteq resent'
           /\ \A x \in known' : x \in known \/ x \in Visible
<1>1. CASE Saves
  <2>1. /\ UNCHANGED <<server, auto, op, pc, todo, tx, over, cut, enabled, wanted, resent, known>>
    BY <1>1, SavesEffect
  <2>2. CASE UNCHANGED <<rows, revived>>
    BY <2>1, <2>2
  <2>3. ASSUME NEW t \in Tasks, NEW s \in Statuses, t \in Visible,
               s \in {"working", "success", "error", "canceled"},
               s = "success" => <<t, "success">> \in inbox, SaveAs(t, s)
        PROVE  /\ \A u \in Tasks :
                 \/ rows'[u] = rows[u]
                 \/ /\ u \in Visible /\ rows'[u] \in {"working", "success", "error", "canceled"}
                    /\ rows'[u] = "success" => <<u, "success">> \in inbox
                    /\ rows'[u] = "working" /\ u \notin Pending => u \in revived'
               /\ revived \subseteq revived'
    BY <2>3, SaveAsEffect
  <2> QED BY <1>1, <2>1, <2>2, <2>3, SavesEffect
<1>2. CASE Daemon
  <2>1. /\ UNCHANGED <<server, auto, op, pc, todo, tx, over, cut, enabled, wanted>>
        /\ UNCHANGED <<rows, resent, revived>>
    BY <1>2 DEF Daemon, DaemonStart, DaemonFinish, Redeliver, Reconnect, requestVars, history
  <2>2. \A x \in known' : x \in known
    BY <1>2 DEF Daemon, DaemonStart, DaemonFinish, Redeliver, Reconnect
  <2> QED BY <2>1, <2>2
<1>3. CASE Panel
  <2>1. /\ UNCHANGED <<server, auto, op, pc, todo, tx, over, cut, enabled, wanted>>
        /\ UNCHANGED <<rows, revived>>
    BY <1>3 DEF Panel, CancelFind, Sweep, SendAck, FlushFind, FlushSend, requestVars, history
  <2>2. resent \subseteq resent'
    BY <1>3 DEF Panel, CancelFind, Sweep, SendAck, FlushFind, FlushSend, history
  <2>3. ASSUME \E c \in joining : SendAck(c) PROVE \A x \in known' : x \in known \/ x \in Visible
    BY <2>3 DEF SendAck, Arrive
  <2>4. ASSUME NEW p \in late, FlushSend(p[1], p[3])
        PROVE  \A x \in known' : x \in known \/ x \in Visible
    <3>1. p[1] \in Visible
      BY CopyType DEF LateOK, Visible
    <3>2. known' = known \/ known' = known \cup {p[1]}
      BY <2>4 DEF FlushSend, Arrive
    <3> QED BY <3>1, <3>2
  <2>5. ASSUME (\E t \in Tasks : CancelFind(t)) \/ Sweep \/ \E c \in flushes : FlushFind(c)
        PROVE  known' = known
    BY <2>5 DEF CancelFind, Sweep, FlushFind, daemonVars
  <2> QED BY <1>3, <2>1, <2>2, <2>3, <2>4, <2>5 DEF Panel
<1> QED BY <1>1, <1>2, <1>3 DEF Elsewhere

\* How a request ends early.
LEMMA AbandonEffect ==
    ASSUME TypeOK, NEW r \in Requests, NEW why, Abandon(r, why)
    PROVE  /\ pc' = [pc EXCEPT ![r] = "ended"]
           /\ cut' = [cut EXCEPT ![r] = IF why = "refused" /\ r \in tx THEN "rolledback" ELSE why]
           /\ tx' = tx \ {r} /\ todo' = [todo EXCEPT ![r] = <<>>]
           /\ rows' \in [Tasks -> Statuses]
           /\ \A t \in Tasks : rows'[t] = IF t[1] = r /\ r \in tx THEN "none" ELSE rows[t]
           /\ UNCHANGED <<server, auto, op, daemonVars, copyVars, over, resent, revived,
                          enabled, wanted>>
<1>1. rows' \in [Tasks -> Statuses]
  BY DEF Abandon, TypeOK, Statuses
<1> QED BY <1>1 DEF Abandon, TypeOK

\* Every step is type correct.
LEMMA TypeStep == ASSUME TypeOK, Shape, LateOK, Next PROVE TypeOK'
<1> USE ServerControlAssumption DEF requestVars, daemonVars, copyVars, history
<1>1. ASSUME NEW r \in Requests, NEW k \in Ops[r], Begin(r, k) PROVE TypeOK'
  <2>0. k \in Operations
    BY OpType
  <2>1. First(k) \in Steps
    BY DEF First, Steps
  <2>2. \A c \in Chains(k) : c \in Seq(Types)
    <3>1. /\ <<"stop", "delete", "install">> \in Seq(Types) /\ <<"delete">> \in Seq(Types)
          /\ <<"stop", "delete">> \in Seq(Types) /\ <<>> \in Seq(Types)
      BY DEF Types
    <3>2. \A y \in Types : <<y>> \in Seq(Types)
      OBVIOUS
    <3>3. k \in {"reinstall", "remove", "drop"} \cup Types
      BY <2>0 DEF Types, Operations
    <3> QED BY <3>1, <3>2, <3>3 DEF Chains, Types
  <2>3. todo' \in [Requests -> Seq(Types)]
    BY <1>1, <2>2 DEF Begin, TypeOK
  <2> QED BY <1>1, <2>0, <2>1, <2>3 DEF Begin, TypeOK
<1>2. ASSUME NEW r \in Requests, Reads(r) \/ Flag(r) PROVE TypeOK'
  <2>1. CASE Flag(r)
    BY <2>1 DEF Flag, TypeOK, Steps
  <2>2. ASSUME NEW on \in BOOLEAN, Setting(r, on) PROVE TypeOK'
    <3>1. pc' \in [Requests -> Steps]
      BY <2>2 DEF Setting, TypeOK, Steps
    <3>2. enabled' \subseteq Requests
      BY <2>2 DEF Setting, TypeOK
    <3> QED BY <2>2, <3>1, <3>2 DEF Setting, TypeOK
  <2> QED BY <1>2, <2>1, <2>2 DEF Reads
<1>3. ASSUME NEW r \in Requests, NEW why \in {"refused", "fault"}, Abandon(r, why),
             faults' \in 0 .. MaxFaults
      PROVE  TypeOK'
  <2>1. rows' \in [Tasks -> Statuses]
    BY <1>3, AbandonEffect
  <2>2. <<>> \in Seq(Types)
    OBVIOUS
  <2>3. cut' \in [Requests -> {"no", "refused", "rolledback", "fault"}]
    <3>1. CASE why = "refused" /\ r \in tx
      BY <1>3, <3>1 DEF Abandon, TypeOK
    <3>2. CASE ~(why = "refused" /\ r \in tx)
      BY <1>3, <3>2 DEF Abandon, TypeOK
    <3> QED BY <3>1, <3>2
  <2>4. todo' \in [Requests -> Seq(Types)] /\ pc' \in [Requests -> Steps]
    BY <1>3, <2>2 DEF Abandon, TypeOK, Steps
  <2> QED BY <1>3, <2>1, <2>3, <2>4 DEF Abandon, TypeOK
<1>u. faults' = faults => (TypeOK => faults' \in 0 .. MaxFaults)
  BY DEF TypeOK
<1>4. ASSUME NEW r \in Requests, CheckAll(r) PROVE TypeOK'
  <2>1. CASE Unfinished(r, Types) # {}
    BY <1>3, <1>4, <1>u, <2>1 DEF CheckAll
  <2>2. CASE Unfinished(r, Types) = {}
    <3>0. /\ pc' = [pc EXCEPT ![r] = IF op[r] = "drop" THEN "close" ELSE "check"]
          /\ tx' = tx \/ tx' = tx \cup {r}
      BY <1>4, <2>2 DEF CheckAll
    <3>1. pc' \in [Requests -> Steps] /\ tx' \subseteq Requests
      BY <3>0 DEF TypeOK, Steps
    <3> QED BY <1>4, <2>2, <3>1 DEF CheckAll, TypeOK
  <2> QED BY <2>1, <2>2
<1>5. ASSUME NEW r \in Requests, Check(r) PROVE TypeOK'
  <2>1. CASE Unfinished(r, Rivals(Head(todo[r]))) # {}
    BY <1>3, <1>5, <1>u, <2>1 DEF Check
  <2>2. CASE Unfinished(r, Rivals(Head(todo[r]))) = {}
    BY <1>5, <2>2 DEF Check, TypeOK, Steps
  <2> QED BY <2>1, <2>2
<1>6. ASSUME NEW r \in Requests, Refuse(r) \/ Fail(r) PROVE TypeOK'
  <2>1. faults' \in 0 .. MaxFaults
    BY <1>6, <1>u, FaultType DEF Refuse, Fail
  <2>2. Abandon(r, "refused") \/ Abandon(r, "fault")
    BY <1>6 DEF Refuse, Fail
  <2> QED BY <1>3, <2>1, <2>2
<1>7. ASSUME NEW r \in Requests, pc[r] \in {"send", "resave"}, Go(r)
      PROVE  todo' \in [Requests -> Seq(Types)] /\ pc' \in [Requests -> Steps]
  <2>1. Tail(todo[r]) \in Seq(Types)
    BY <1>7, TaskType DEF Shape
  <2> QED BY <1>7, <2>1 DEF Go, TypeOK, Steps
<1>8. ASSUME NEW r \in Requests, Save(r) PROVE TypeOK'
  <2>1. Task(r) \in Tasks
    BY <1>8, TaskType DEF Save, Shape
  <2>2. rows' \in [Tasks -> Statuses] /\ pc' \in [Requests -> Steps]
    BY <1>8, <2>1 DEF Save, TypeOK, Steps, Statuses
  <2> QED BY <1>8, <2>2 DEF Save, TypeOK
<1>9. ASSUME NEW r \in Requests, Send(r) PROVE TypeOK'
  <2>1. Task(r) \in Tasks
    BY <1>9, TaskType DEF Send, Shape
  <2>2. queue' \subseteq Tasks /\ known' \subseteq Tasks /\ faults' \in 0 .. MaxFaults
    BY <1>9, <1>u, <2>1, FaultType DEF Send, Arrive, TypeOK
  <2>3. pc' \in [Requests -> Steps]
    BY <1>9 DEF Send, TypeOK, Steps
  <2> QED BY <1>9, <2>2, <2>3 DEF Send, TypeOK
<1>10. ASSUME NEW r \in Requests, SendFail(r) PROVE TypeOK'
  BY <1>7, <1>10, FaultType DEF SendFail, TypeOK
<1>11. ASSUME NEW r \in Requests, Resave(r) PROVE TypeOK'
  <2>1. Task(r) \in Tasks
    BY <1>11, TaskType DEF Resave, Shape
  <2>2. rows' \in [Tasks -> Statuses]
    BY <1>11, <2>1 DEF Resave, TypeOK, Statuses
  <2> QED BY <1>7, <1>11, <2>2 DEF Resave, TypeOK
<1>12. ASSUME NEW r \in Requests, Close(r) PROVE TypeOK'
  BY <1>12 DEF Close, TypeOK, Steps
<1>13. ASSUME NEW t \in Tasks, DaemonStart(t) \/ DaemonFinish(t) PROVE TypeOK'
  <2>1. CASE DaemonStart(t)
    BY <2>1 DEF DaemonStart, TypeOK
  <2>2. CASE DaemonFinish(t)
    <3>1. files' \in BOOLEAN
      BY <2>2 DEF DaemonFinish, TypeOK
    <3>2. running' \subseteq Tasks /\ inbox' \subseteq Tasks \X {"working", "success"}
      BY <2>2 DEF DaemonFinish, TypeOK
    <3>3. UNCHANGED <<server, auto, op, pc, todo, tx, rows, queue, known, joining, flushes, late,
                      faults, over, cut, resent, revived, enabled, wanted>>
      BY <2>2 DEF DaemonFinish
    <3> QED BY <3>1, <3>2, <3>3 DEF TypeOK
  <2> QED BY <1>13, <2>1, <2>2
<1>14. ASSUME NEW t \in Tasks, NEW s \in {"working", "success"}, Redeliver(t, s) PROVE TypeOK'
  BY <1>14, FaultType DEF Redeliver, TypeOK
<1>v. Visible \subseteq Tasks
  BY DEF Visible
<1>h. ASSUME Fault, NEW held PROVE Abandoned(held) \subseteq Tasks \X {"error"} \X (1 .. MaxFaults)
  BY <1>h, <1>v, FaultType DEF Abandoned
<1>15. ASSUME NEW restart \in BOOLEAN, Reconnect(restart) PROVE TypeOK'
  <2>1. Fault /\ faults' \in 0 .. MaxFaults /\ faults' \in 1 .. MaxFaults
    BY <1>15, FaultType DEF Reconnect
  <2>2. late' \subseteq Tasks \X {"found", "working", "error", "canceled"} \X (1 .. MaxFaults)
    <3>1. PICK held : late' = late \cup Abandoned(held)
      BY <1>15 DEF Reconnect
    <3> QED BY <1>h, <2>1, <3>1 DEF TypeOK
  <2>3. /\ queue' \subseteq Tasks /\ running' \subseteq Tasks /\ known' \subseteq Tasks
        /\ inbox' \subseteq Tasks \X {"working", "success"}
    BY <1>15 DEF Reconnect, TypeOK
  <2> QED BY <1>15, <2>1, <2>2, <2>3 DEF Reconnect, TypeOK
<1>16. ASSUME Sweep PROVE TypeOK'
  <2>1. Fault /\ faults' \in 0 .. MaxFaults
    BY <1>16, FaultType DEF Sweep
  <2>2. late' \subseteq Tasks \X {"found", "working", "error", "canceled"} \X (1 .. MaxFaults)
    BY <1>16, <1>h, <2>1 DEF Sweep, TypeOK
  <2> QED BY <1>16, <2>1, <2>2 DEF Sweep, TypeOK
<1>17. ASSUME NEW t \in Tasks, CancelFind(t) PROVE TypeOK'
  <2>1. Fault /\ faults' \in 0 .. MaxFaults /\ faults' \in 1 .. MaxFaults
    BY <1>17, FaultType DEF CancelFind
  <2>2. late' \subseteq Tasks \X {"found", "working", "error", "canceled"} \X (1 .. MaxFaults)
    BY <1>17, <2>1 DEF CancelFind, TypeOK
  <2> QED BY <1>17, <2>1, <2>2 DEF CancelFind, TypeOK
<1>18. ASSUME NEW c \in joining, SendAck(c) PROVE TypeOK'
  <2>1. queue' \subseteq Tasks /\ known' \subseteq Tasks /\ resent' \subseteq Tasks
    BY <1>18, <1>v DEF SendAck, Arrive, TypeOK
  <2> QED BY <1>18, <2>1 DEF SendAck, TypeOK
<1>19. ASSUME NEW c \in flushes, FlushFind(c) PROVE TypeOK'
  <2>1. late' \subseteq Tasks \X {"found", "working", "error", "canceled"} \X (1 .. MaxFaults)
    BY <1>19, <1>v DEF FlushFind, TypeOK
  <2> QED BY <1>19, <2>1 DEF FlushFind, TypeOK
<1>20. ASSUME NEW p \in late, FlushSend(p[1], p[3]) PROVE TypeOK'
  <2>0. p[1] \in Tasks /\ p[3] \in 1 .. MaxFaults
    BY CopyType
  <2>1. late' \subseteq Tasks \X {"found", "working", "error", "canceled"} \X (1 .. MaxFaults)
    BY <1>20, <2>0 DEF FlushSend, TypeOK
  <2>2. queue' \subseteq Tasks /\ known' \subseteq Tasks /\ resent' \subseteq Tasks
    BY <1>20, <2>0 DEF FlushSend, Arrive, TypeOK
  <2> QED BY <1>20, <2>1, <2>2 DEF FlushSend, TypeOK
<1>21. ASSUME Saves PROVE TypeOK'
  <2>1. rows' \in [Tasks -> Statuses] /\ revived' \subseteq Tasks
    <3>1. CASE UNCHANGED <<rows, revived>>
      BY <3>1 DEF TypeOK
    <3>2. ASSUME NEW t \in Tasks, NEW s \in Statuses, SaveAs(t, s)
          PROVE  rows' \in [Tasks -> Statuses] /\ revived' \subseteq Tasks
      BY <3>2, SaveAsEffect DEF TypeOK
    <3> QED BY <1>21, <3>1, <3>2, SavesEffect
  <2> QED BY <1>21, <2>1, SavesEffect DEF TypeOK
<1>22. ASSUME Elsewhere PROVE TypeOK'
  BY <1>13, <1>14, <1>15, <1>16, <1>17, <1>18, <1>19, <1>20, <1>21, <1>22
     DEF Elsewhere, Daemon, Panel
<1> QED BY <1>1, <1>2, <1>4, <1>5, <1>6, <1>8, <1>9, <1>10, <1>11, <1>12, <1>22, NextSplit
        DEF Own, Start

\* What every step does to what is remembered: nothing is taken back, and only
\* requests that begin become active.
LEMMA Monotone ==
    ASSUME Inv, Next
    PROVE  /\ over \subseteq over' /\ revived \subseteq revived' /\ resent \subseteq resent'
           /\ \A r \in Requests : op[r] # "none" => op'[r] = op[r]
           /\ \A r \in Requests : Active(r)' => Active(r) \/ Start(r)
           /\ server' => server
<1> USE DEF Inv, TypeOK, Active, requestVars, daemonVars, copyVars, history
<1>1. ASSUME NEW r \in Requests, Start(r)
      PROVE  /\ over \subseteq over' /\ revived' = revived /\ resent' = resent
             /\ server' = server
             /\ \A q \in Requests : q # r => op'[q] = op[q]
             /\ op[r] = "none"
             /\ \A q \in Requests : Active(q)' => Active(q) \/ q = r
  BY <1>1 DEF Start, Begin, Shape
<1>2. ASSUME NEW r \in Requests, Own(r), ~Start(r)
      PROVE  /\ over' = over /\ revived' = revived /\ resent' = resent
             /\ op' = op /\ (server' => server)
             /\ \A q \in Requests : Active(q)' => Active(q)
  <2>1. /\ over' = over /\ revived' = revived /\ resent' = resent /\ op' = op
        /\ (server' => server)
    BY <1>2 DEF Own, Reads, Setting, Flag, CheckAll, Check, Refuse, Save, Send, SendFail, Resave,
                Close, Fail, Abandon
  <2>2. Active(r)
    BY <1>2 DEF Own, Reads, Setting, Flag, CheckAll, Check, Refuse, Save, Send, SendFail, Resave,
                Close, Fail
  <2>3. \A q \in Requests \ {r} : pc'[q] = pc[q]
    BY <1>2 DEF Own, Reads, Setting, Flag, CheckAll, Check, Refuse, Save, Send, SendFail, Resave,
                Close, Fail, Abandon, Go
  <2> QED BY <2>1, <2>2, <2>3
<1>3. ASSUME Elsewhere
      PROVE  /\ UNCHANGED <<over, op, pc, server>>
             /\ revived \subseteq revived' /\ resent \subseteq resent'
  BY <1>3, ElsewhereEffect
<1>4. CASE \E r \in Requests : Start(r)
  BY <1>1, <1>4
<1>5. CASE \E r \in Requests : Own(r) /\ ~Start(r)
  BY <1>2, <1>5
<1>6. CASE Elsewhere
  BY <1>3, <1>6
<1> QED BY <1>4, <1>5, <1>6, NextSplit

\* What is remembered of two requests stays.
LEMMA OverlapStays ==
    ASSUME over \subseteq over', NEW r, NEW q, Overlapped(r, q) PROVE Overlapped(r, q)'
BY DEF Overlapped

\* Requests that are under way together are remembered.
LEMMA TogetherStep == ASSUME Inv, Next, TypeOK' PROVE Together'
<1> SUFFICES ASSUME NEW r \in Requests, NEW q \in Requests, r # q, Active(r)', Active(q)'
             PROVE  Overlapped(r, q)'
  BY DEF Together
<1>1. CASE Active(r) /\ Active(q)
  BY <1>1, Monotone, OverlapStays DEF Inv, Together
<1>2. ASSUME NEW a \in Requests, NEW b \in Requests, a # b, Start(a), Active(b)
      PROVE  <<a, b>> \in over'
  BY <1>2 DEF Start, Begin
<1>3. ASSUME NEW a \in Requests, NEW b \in Requests, a # b, Start(a), Active(b)'
      PROVE  Active(b)
  BY <1>3 DEF Start, Begin, Active, Inv, TypeOK
<1> QED BY <1>1, <1>2, <1>3, Monotone DEF Overlapped

\* What a request that has found nothing unfinished does next.
LEMMA CheckAllPassed ==
    ASSUME NEW r \in Requests, CheckAll(r), Unfinished(r, Types) = {}
    PROVE  /\ pc[r] = "checkall"
           /\ pc' = [pc EXCEPT ![r] = IF op[r] = "drop" THEN "close" ELSE "check"]
           /\ tx' = IF op[r] = "reinstall" THEN tx \cup {r} ELSE tx
           /\ UNCHANGED <<server, auto, op, todo, rows, daemonVars, copyVars, faults, history>>
BY DEF CheckAll

\* The steps of a request that make no row and end none.
LEMMA RowsAlone ==
    ASSUME NEW r \in Requests,
           \/ Start(r) \/ Reads(r) \/ Flag(r) \/ Send(r) \/ SendFail(r) \/ Close(r)
    PROVE  rows' = rows /\ late' = late /\ tx' \subseteq tx
BY DEF Start, Begin, Reads, Setting, Flag, Send, SendFail, Close, copyVars

\* What a request's check does to the rows.
LEMMA CheckEffect ==
    ASSUME NEW r \in Requests, CheckAll(r) \/ Check(r) \/ Refuse(r) \/ Fail(r)
    PROVE  \/ Abandon(r, "refused") \/ Abandon(r, "fault")
           \/ rows' = rows /\ late' = late /\ (CheckAll(r) \/ tx' = tx)
BY DEF CheckAll, Check, Refuse, Fail, copyVars

\* The unfinished tasks after a step were unfinished before it, or their own
\* request has just saved them; the others had ended and are marked as such.
LEMMA PendingStep ==
    ASSUME Inv, Next, TypeOK', NEW u \in Pending' \ revived'
    PROVE  \/ u \in Pending \ revived
           \/ \E r \in Requests : (Save(r) \/ Resave(r)) /\ u = Task(r)
<1>0. u \in Tasks /\ rows'[u] \in {"waiting", "working"} /\ u \notin revived
  BY Monotone DEF Pending
<1>s. SUFFICES ASSUME ~\E r \in Requests : (Save(r) \/ Resave(r)) /\ u = Task(r)
      PROVE  rows[u] \in {"waiting", "working"}
  BY <1>0 DEF Pending
<1>1. ASSUME NEW r \in Requests, NEW why, Abandon(r, why)
      PROVE  rows[u] \in {"waiting", "working"}
  BY <1>0, <1>1, AbandonEffect DEF Inv
<1>2. ASSUME NEW r \in Requests, Save(r) \/ Resave(r)
      PROVE  rows[u] \in {"waiting", "working"}
  BY <1>0, <1>s, <1>2 DEF Save, Resave, Inv, TypeOK
<1>3. ASSUME NEW r \in Requests, Own(r) PROVE rows[u] \in {"waiting", "working"}
  BY <1>0, <1>1, <1>2, <1>3, RowsAlone, CheckEffect DEF Own
<1>4. ASSUME Elsewhere PROVE rows[u] \in {"waiting", "working"}
  BY <1>0, <1>4, ElsewhereEffect DEF Inv, Pending
<1> QED BY <1>3, <1>4, NextSplit

\* The daemon's places.
LEMMA PlacedStep == ASSUME Inv, Next, TypeOK' PROVE Placed'
<1> USE DEF Inv, TypeOK, Placed, requestVars, daemonVars, copyVars, history
<1>1. CASE UNCHANGED daemonVars
  BY <1>1
<1>a. ASSUME NEW tasks, Arrive(tasks), running' = running, inbox' = inbox PROVE Placed'
  BY <1>a DEF Arrive
<1>b. ASSUME UNCHANGED <<queue, known, running, inbox>> PROVE Placed'
  BY <1>b
<1>2. ASSUME NEW r \in Requests, Send(r) PROVE Placed'
  BY <1>2, <1>a, <1>b DEF Send
<1>3. ASSUME NEW t \in Tasks, DaemonStart(t) \/ DaemonFinish(t) PROVE Placed'
  <2>0. /\ t \in known /\ known' = known
        /\ \E s : inbox' = inbox \cup {<<t, s>>}
    BY <1>3 DEF DaemonStart, DaemonFinish
  <2>1. t \in known /\ known' = known /\ \A p \in inbox' : p[1] \in known
    BY <2>0
  <2>2. CASE DaemonStart(t)
    BY <2>1, <2>2 DEF DaemonStart
  <2>3. CASE DaemonFinish(t)
    BY <2>1, <2>3 DEF DaemonFinish
  <2> QED BY <1>3, <2>2, <2>3
<1>4. ASSUME NEW t \in Tasks, NEW s \in {"working", "success"}, Redeliver(t, s) PROVE Placed'
  BY <1>4 DEF Redeliver
<1>5. ASSUME NEW restart \in BOOLEAN, Reconnect(restart) PROVE Placed'
  <2>1. CASE restart
    BY <1>5, <2>1 DEF Reconnect
  <2>2. CASE ~restart
    BY <1>5, <2>2 DEF Reconnect
  <2> QED BY <2>1, <2>2
<1>6. ASSUME NEW c \in joining, SendAck(c) PROVE Placed'
  BY <1>6, <1>a DEF SendAck
<1>7. ASSUME NEW p \in late, FlushSend(p[1], p[3]) PROVE Placed'
  BY <1>7, <1>a, <1>b DEF FlushSend
<1>8. ASSUME (\E t \in Tasks : CancelFind(t)) \/ Sweep \/ \E c \in flushes : FlushFind(c)
      PROVE  UNCHANGED daemonVars
  BY <1>8 DEF CancelFind, Sweep, FlushFind
<1>9. ASSUME Saves PROVE Placed'
  BY <1>9, SavesEffect
<1>10. ASSUME NEW r \in Requests, Own(r) PROVE UNCHANGED daemonVars \/ Send(r)
  BY <1>10 DEF Own, Start, Begin, Reads, Setting, Flag, CheckAll, Check, Refuse, Save, SendFail,
               Resave, Close, Fail, Abandon
<1> HIDE DEF Inv, TypeOK, Placed, requestVars, daemonVars, copyVars, history
<1>11. CASE Elsewhere
  BY <1>1, <1>3, <1>4, <1>5, <1>6, <1>7, <1>8, <1>9, <1>11 DEF Elsewhere, Daemon, Panel
<1> QED BY <1>1, <1>2, <1>10, <1>11, NextSplit

\* No row that someone has a copy of vanishes.
LEMMA LateStep == ASSUME Inv, Next, TypeOK' PROVE LateOK'
<1> SUFFICES ASSUME NEW p \in late' PROVE rows'[p[1]] # "none" /\ p[1][1] \notin tx'
  BY DEF LateOK
<1>0. p[1] \in Tasks /\ p[1][1] \in Requests /\ p[1][2] \in Types /\ p[1] = <<p[1][1], p[1][2]>>
  BY DEF TypeOK, Tasks
<1>1. ASSUME NEW r \in Requests, Own(r) PROVE rows'[p[1]] # "none" /\ p[1][1] \notin tx'
  <2>0. p \in late
    BY <1>1 DEF Own, Start, Begin, Reads, Setting, Flag, CheckAll, Check, Refuse, Save, Send,
                SendFail, Resave, Close, Fail, Abandon, copyVars
  <2>1. rows[p[1]] # "none" /\ p[1][1] \notin tx
    BY <2>0 DEF Inv, LateOK
  <2>2. CASE Start(r) \/ Reads(r) \/ Flag(r) \/ Send(r) \/ SendFail(r) \/ Close(r)
    BY <2>1, <2>2, RowsAlone
  <2>3. ASSUME NEW why, Abandon(r, why) PROVE rows'[p[1]] # "none" /\ p[1][1] \notin tx'
    BY <1>0, <2>1, <2>3, AbandonEffect DEF Inv
  <2>4. CASE Save(r) \/ Resave(r)
    <3>1. tx' = tx
      BY <2>4 DEF Save, Resave
    <3>2. rows'[p[1]] \in {rows[p[1]], "waiting"}
      BY <1>0, <2>4 DEF Save, Resave, Inv, TypeOK
    <3> QED BY <2>1, <3>1, <3>2
  <2>5. CASE CheckAll(r)
    <3>1. p[1][1] # r
      <4>1. \A y \in Types : rows[<<r, y>>] = "none"
        BY <2>5 DEF CheckAll, Inv, Shape
      <4> QED BY <1>0, <2>1, <4>1
    <3>2. CASE Unfinished(r, Types) = {}
      <4>1. rows' = rows /\ tx' \subseteq tx \cup {r}
        BY <2>5, <3>2, CheckAllPassed
      <4> QED BY <2>1, <3>1, <4>1
    <3>3. CASE Unfinished(r, Types) # {}
      BY <2>3, <2>5, <3>3 DEF CheckAll
    <3> QED BY <3>2, <3>3
  <2>6. CASE Check(r) \/ Refuse(r) \/ Fail(r)
    BY <2>1, <2>3, <2>5, <2>6, CheckEffect
  <2> QED BY <1>1, <2>2, <2>4, <2>5, <2>6 DEF Own
<1>2. ASSUME Elsewhere PROVE rows'[p[1]] # "none" /\ p[1][1] \notin tx'
  <2>1. p[1] \in Visible => rows'[p[1]] # "none" /\ p[1][1] \notin tx'
    BY <1>0, <1>2, ElsewhereEffect DEF Inv, Visible
  <2>2. ASSUME p \in late PROVE p[1] \in Visible
    BY <1>0, <2>2 DEF Inv, LateOK, Visible
  <2>3. ASSUME NEW held, late' = late \cup Abandoned(held) PROVE p \in late \/ p[1] \in Visible
    BY <2>3 DEF Abandoned
  <2>4. ASSUME NEW restart \in BOOLEAN, Reconnect(restart) PROVE p \in late \/ p[1] \in Visible
    BY <2>3, <2>4 DEF Reconnect
  <2>5. ASSUME Sweep PROVE p \in late \/ p[1] \in Visible
    BY <2>3, <2>5 DEF Sweep
  <2>6. ASSUME NEW t \in Tasks, CancelFind(t) PROVE p \in late \/ p[1] \in Visible
    BY <2>6 DEF CancelFind
  <2>7. ASSUME NEW c \in flushes, FlushFind(c) PROVE p \in late \/ p[1] \in Visible
    BY <2>7 DEF FlushFind
  <2>8. ASSUME NEW q \in late, FlushSend(q[1], q[3]) PROVE p[1] \in Visible
    <3>1. q[1] \in Visible
      BY CopyType DEF Inv, LateOK, Visible
    <3>2. p \in late \/ p[1] = q[1]
      BY <2>8 DEF FlushSend
    <3> QED BY <2>2, <3>1, <3>2
  <2>9. ASSUME NEW c \in joining, SendAck(c) PROVE p \in late
    BY <2>9 DEF SendAck
  <2>10. ASSUME NEW t \in Tasks,
                \/ DaemonStart(t) \/ DaemonFinish(t)
                \/ \E s \in {"working", "success"} : Redeliver(t, s)
         PROVE  p \in late
    BY <2>10 DEF DaemonStart, DaemonFinish, Redeliver, copyVars
  <2>11. ASSUME Saves PROVE p \in late
    BY <2>11, SavesEffect DEF Inv
  <2> QED BY <1>2, <2>1, <2>2, <2>4, <2>5, <2>6, <2>7, <2>8, <2>9, <2>10, <2>11
          DEF Elsewhere, Daemon, Panel
<1> QED BY <1>1, <1>2, NextSplit

\* The tasks a request begins with.
LEMMA ChainType ==
    ASSUME NEW k \in Operations, NEW c \in Chains(k)
    PROVE  /\ k # "drop" => c # <<>>
           /\ k = "reinstall" => c = Whole
BY DEF Chains, Whole, Operations

\* What is in Shape of one request, for what is left of it after a step.
LEMMA ShapeStep == ASSUME Inv, Next, TypeOK' PROVE Shape'
<1> USE DEF Inv, TypeOK, requestVars, daemonVars, copyVars, history
<1>t. \A r \in Requests, y \in Types : <<r, y>> \in Tasks
  BY DEF Tasks
<1>1. ASSUME NEW r \in Requests, NEW k \in Ops[r], Begin(r, k) PROVE Shape'
  <2>0. k \in Operations
    BY OpType
  <2>1. k # "none" /\ pc[r] = "idle"
    BY <1>1, <2>0 DEF Begin, Operations
  <2>2. PICK c \in Chains(k) : todo' = [todo EXCEPT ![r] = c]
    BY <1>1 DEF Start, Begin
  <2>3. /\ First(k) \in {"setting", "checkall", "check", "save"}
        /\ k = "drop" => First(k) = "checkall"
        /\ First(k) = "checkall" => k \in {"drop", "reinstall"}
        /\ First(k) = "setting" => k \in {"start", "stop", "restart"}
        /\ k = "reinstall" => First(k) = "checkall"
    BY DEF First
  <2>4. pc' = [pc EXCEPT ![r] = First(k)] /\ op' = [op EXCEPT ![r] = k]
        /\ rows' = rows /\ known' = known /\ tx' = tx
    BY <1>1 DEF Start, Begin
  <2> QED BY <2>0, <2>1, <2>2, <2>3, <2>4, ChainType DEF Shape
<1>2. ASSUME NEW r \in Requests, Reads(r) \/ Flag(r) PROVE Shape'
  BY <1>2 DEF Reads, Setting, Flag, Shape
<1>3. ASSUME NEW r \in Requests, NEW why, Abandon(r, why), Active(r) PROVE Shape'
  <2>1. /\ pc' = [pc EXCEPT ![r] = "ended"] /\ tx' = tx \ {r}
        /\ todo' = [todo EXCEPT ![r] = <<>>] /\ op' = op /\ known' = known
    BY <1>3, AbandonEffect
  <2>2. \A q \in Requests, y \in Types : rows'[<<q, y>>] \in {"none", rows[<<q, y>>]}
    BY <1>3, <1>t, AbandonEffect
  <2> QED BY <1>3, <2>1, <2>2 DEF Shape, Active
<1>4. ASSUME NEW r \in Requests, CheckAll(r) PROVE Shape'
  <2>1. CASE Unfinished(r, Types) # {}
    BY <1>3, <1>4, <2>1 DEF CheckAll, Active
  <2>2. CASE Unfinished(r, Types) = {}
    <3>1. op[r] = "reinstall" => todo[r] # <<>>
      <4>1. Whole # <<>> /\ Rest # <<>> /\ <<"install">> # <<>>
        BY DEF Whole, Rest
      <4> QED BY <4>1, <1>4 DEF CheckAll, Chain
    <3>2. op[r] \in {"drop", "reinstall"}
      BY <1>4 DEF CheckAll, Shape
    <3>3. UNCHANGED <<op, todo, rows, known>> /\ pc[r] = "checkall"
      BY <1>4, <2>2, CheckAllPassed
    <3>4. CASE op[r] = "drop"
      <4>1. pc' = [pc EXCEPT ![r] = "close"] /\ tx' = tx
        BY <1>4, <2>2, <3>4, CheckAllPassed
      <4> QED BY <3>3, <3>4, <4>1 DEF Shape
    <3>5. CASE op[r] = "reinstall"
      <4>1. pc' = [pc EXCEPT ![r] = "check"] /\ tx' = tx \cup {r}
        BY <1>4, <2>2, <3>5, CheckAllPassed
      <4> QED BY <3>1, <3>3, <3>5, <4>1 DEF Shape
    <3> QED BY <3>2, <3>4, <3>5
  <2> QED BY <2>1, <2>2
<1>5. ASSUME NEW r \in Requests, Check(r) PROVE Shape'
  <2>1. CASE Unfinished(r, Rivals(Head(todo[r]))) # {}
    BY <1>3, <1>5, <2>1 DEF Check, Active
  <2>2. CASE Unfinished(r, Rivals(Head(todo[r]))) = {}
    BY <1>5, <2>2 DEF Check, Shape
  <2> QED BY <2>1, <2>2
<1>6. ASSUME NEW r \in Requests, Refuse(r) \/ Fail(r) PROVE Shape'
  BY <1>3, <1>6 DEF Refuse, Fail, Active
<1>7. ASSUME NEW r \in Requests, Save(r) PROVE Shape'
  BY <1>7, <1>t DEF Save, Task, Shape
<1>8. ASSUME NEW r \in Requests, Send(r) PROVE Shape'
  <2>1. /\ pc[r] = "send" /\ pc' = [pc EXCEPT ![r] = "resave"]
        /\ UNCHANGED <<op, todo, tx, rows>> /\ known' \subseteq known \cup {Task(r)}
    BY <1>8 DEF Send, Arrive
  <2>2. \A q \in Requests, y \in Types : q # r => (<<q, y>> \in known' => <<q, y>> \in known)
    BY <2>1 DEF Task
  <2> QED BY <2>1, <2>2 DEF Shape
<1>g. ASSUME NEW r \in Requests, pc[r] \in {"send", "resave"}, Go(r)
      PROVE  /\ pc'[r] \in {"close", "save", "check"} /\ (pc'[r] # "close" => todo'[r] # <<>>)
             /\ \A q \in Requests \ {r} : pc'[q] = pc[q] /\ todo'[q] = todo[q]
  BY <1>g DEF Go
<1>9. ASSUME NEW r \in Requests, SendFail(r) PROVE Shape'
  BY <1>9, <1>g DEF SendFail, Shape
<1>10. ASSUME NEW r \in Requests, Resave(r) PROVE Shape'
  BY <1>10, <1>g, <1>t DEF Resave, Task, Shape
<1>11. ASSUME NEW r \in Requests, Close(r) PROVE Shape'
  BY <1>11 DEF Close, Shape
<1>12. ASSUME UNCHANGED <<op, pc, todo, tx>>,
              \A t \in Tasks : rows[t] = "none" => rows'[t] = "none",
              \A t \in known' : t \in known \/ (t \in Tasks /\ rows[t] # "none")
       PROVE  Shape'
  BY <1>12, <1>t DEF Shape
<1>13. ASSUME Elsewhere PROVE Shape'
  <2>1. /\ \A t \in Tasks : rows[t] = "none" => rows'[t] = "none"
        /\ \A t \in known' : t \in known \/ (t \in Tasks /\ rows[t] # "none")
    BY <1>13, ElsewhereEffect DEF Visible
  <2> QED BY <1>12, <1>13, <2>1, ElsewhereEffect
<1> HIDE DEF Inv, TypeOK, requestVars, daemonVars, copyVars, history
<1> QED BY <1>1, <1>2, <1>4, <1>5, <1>6, <1>7, <1>8, <1>9, <1>10, <1>11, <1>13,
           NextSplit DEF Own, Start

\* Where the chain of a reinstallation stands.
LEMMA ChainStep == ASSUME Inv, Next, TypeOK' PROVE Chain'
<1> USE DEF Inv, TypeOK, requestVars, daemonVars, copyVars, history
<1>t. \A r \in Requests, y \in Types : <<r, y>> \in Tasks
  BY DEF Tasks
<1>d. /\ Whole # Rest /\ Whole # <<"install">> /\ Rest # <<"install">>
      /\ Tail(Whole) = Rest /\ Tail(Rest) = <<"install">> /\ Tail(<<"install">>) = <<>>
      /\ Head(Whole) = "stop" /\ Head(Rest) = "delete" /\ Head(<<"install">>) = "install"
  BY DEF Whole, Rest
<1>1. ASSUME NEW r \in Requests, NEW k \in Ops[r], Begin(r, k) PROVE Chain'
  <2>0. k \in Operations
    BY OpType
  <2>1. PICK c \in Chains(k) : todo' = [todo EXCEPT ![r] = c]
    BY <1>1 DEF Start, Begin
  <2>2. /\ pc[r] = "idle" /\ pc' = [pc EXCEPT ![r] = First(k)] /\ op' = [op EXCEPT ![r] = k]
        /\ rows' = rows
    BY <1>1 DEF Start, Begin
  <2> QED BY <2>0, <2>1, <2>2, ChainType DEF Chain, Shape
<1>2. ASSUME NEW r \in Requests, Reads(r) \/ Flag(r) PROVE Chain'
  <2>1. op[r] # "reinstall"
    BY <1>2 DEF Reads, Setting, Flag, Shape
  <2> QED BY <1>2, <2>1 DEF Reads, Setting, Flag, Chain
<1>3. ASSUME NEW r \in Requests, NEW why, Abandon(r, why) PROVE Chain'
  <2>1. /\ pc' = [pc EXCEPT ![r] = "ended"] /\ todo' = [todo EXCEPT ![r] = <<>>] /\ op' = op
    BY <1>3, AbandonEffect
  <2>2. \A q \in Requests, y \in Types : rows'[<<q, y>>] \in {"none", rows[<<q, y>>]}
    BY <1>3, <1>t, AbandonEffect
  <2> QED BY <1>3, <2>1, <2>2 DEF Chain
<1>4. ASSUME NEW r \in Requests, CheckAll(r) PROVE Chain'
  <2>1. CASE Unfinished(r, Types) # {}
    BY <1>3, <1>4, <2>1 DEF CheckAll
  <2>2. CASE Unfinished(r, Types) = {}
    BY <1>4, <2>2, CheckAllPassed DEF Chain
  <2> QED BY <2>1, <2>2
<1>5. ASSUME NEW r \in Requests, Check(r) PROVE Chain'
  <2>1. CASE Unfinished(r, Rivals(Head(todo[r]))) # {}
    BY <1>3, <1>5, <2>1 DEF Check
  <2>2. CASE Unfinished(r, Rivals(Head(todo[r]))) = {}
    BY <1>5, <2>2 DEF Check, Chain
  <2> QED BY <2>1, <2>2
<1>6. ASSUME NEW r \in Requests, Refuse(r) \/ Fail(r) PROVE Chain'
  BY <1>3, <1>6 DEF Refuse, Fail
<1>7. ASSUME NEW r \in Requests, Save(r) PROVE Chain'
  BY <1>7, <1>t DEF Save, Task, Chain
<1>8. ASSUME NEW r \in Requests, Send(r) PROVE Chain'
  BY <1>8 DEF Send, Chain
<1>9. ASSUME NEW r \in Requests, SendFail(r) \/ Resave(r) PROVE Chain'
  <2>1. /\ pc[r] \in {"send", "resave"} /\ op' = op /\ todo' = [todo EXCEPT ![r] = Tail(todo[r])]
        /\ pc' = [pc EXCEPT ![r] = CASE Tail(todo[r]) = <<>> -> "close"
                                     [] Tail(todo[r]) # <<>> /\ op[r] = "remove" -> "save"
                                     [] OTHER -> "check"]
    BY <1>9 DEF SendFail, Resave, Go
  <2>2. \A q \in Requests, y \in Types :
           rows'[<<q, y>>] # "none" => rows[<<q, y>>] # "none" \/ (q = r /\ y = Head(todo[r]))
    BY <1>9, <1>t DEF SendFail, Resave, Task
  <2> SUFFICES ASSUME NEW q \in Requests, op[q] = "reinstall",
                      pc'[q] \in {"checkall", "check", "save", "send", "resave"}
               PROVE  /\ todo'[q] \in {Whole, Rest, <<"install">>}
                      /\ \A y \in Types : rows'[<<q, y>>] # "none" =>
                            \/ y = "stop" /\ todo'[q] # Whole
                            \/ y = "delete" /\ todo'[q] = <<"install">>
                            \/ y = Head(todo'[q]) /\ pc'[q] \in {"send", "resave"}
    BY <2>1 DEF Chain
  <2>3. CASE q # r
    BY <2>1, <2>2, <2>3 DEF Chain
  <2>4. CASE q = r
    <3>1. /\ todo[r] \in {Whole, Rest, <<"install">>}
          /\ \A y \in Types : rows[<<r, y>>] # "none" =>
                \/ y = "stop" /\ todo[r] # Whole
                \/ y = "delete" /\ todo[r] = <<"install">>
                \/ y = Head(todo[r])
      BY <2>1, <2>4 DEF Chain
    <3>2. todo'[r] = Tail(todo[r]) /\ todo[r] # <<"install">>
      BY <1>d, <2>1, <2>4
    <3>3. CASE todo[r] = Whole
      BY <1>d, <2>2, <2>4, <3>1, <3>2, <3>3
    <3>4. CASE todo[r] = Rest
      <4>1. todo'[r] = <<"install">> /\ todo'[r] # Whole
        BY <1>d, <3>2, <3>4
      <4>2. \A y \in Types : rows'[<<r, y>>] # "none" => y \in {"stop", "delete"}
        BY <1>d, <2>2, <3>1, <3>4
      <4> QED BY <2>4, <4>1, <4>2
    <3> QED BY <3>1, <3>2, <3>3, <3>4
  <2> QED BY <2>3, <2>4
<1>10. ASSUME NEW r \in Requests, Close(r) PROVE Chain'
  BY <1>10 DEF Close, Chain
<1>11. ASSUME UNCHANGED <<op, pc, todo>>,
              \A t \in Tasks : rows[t] = "none" => rows'[t] = "none"
       PROVE  Chain'
  BY <1>11, <1>t DEF Chain
<1>12. ASSUME Elsewhere PROVE Chain'
  <2>1. \A t \in Tasks : rows[t] = "none" => rows'[t] = "none"
    BY <1>12, ElsewhereEffect DEF Visible
  <2> QED BY <1>11, <1>12, <2>1, ElsewhereEffect
<1> HIDE DEF Inv, TypeOK, requestVars, daemonVars, copyVars, history
<1> QED BY <1>1, <1>2, <1>4, <1>5, <1>6, <1>7, <1>8, <1>9, <1>10, <1>12,
           NextSplit DEF Own, Start

\* How one request moves on: it stays, begins, ends early, or takes its own step.
LEMMA Moves ==
    ASSUME Inv, Next, TypeOK', NEW r \in Requests
    PROVE  \/ UNCHANGED <<pc[r], cut[r], todo[r], op[r]>>
           \/ Start(r) /\ UNCHANGED cut[r]
           \/ /\ cut'[r] # "no" /\ Active(r) /\ pc'[r] = "ended" /\ todo'[r] = <<>>
              /\ UNCHANGED op[r]
              /\ cut'[r] = "rolledback"
                    => r \in tx /\ pc[r] \in {"checkall", "check", "save"}
                       /\ (CheckAll(r) \/ Check(r) \/ Refuse(r))
           \/ /\ UNCHANGED <<cut[r], op[r]>>
              /\ \/ Reads(r) \/ Flag(r) \/ Save(r) \/ Send(r) \/ SendFail(r) \/ Resave(r)
                 \/ Close(r)
                 \/ CheckAll(r) /\ Unfinished(r, Types) = {}
                 \/ Check(r) /\ Unfinished(r, Rivals(Head(todo[r]))) = {}
<1> USE DEF Inv, TypeOK, requestVars, daemonVars, copyVars, history
<1>1. ASSUME NEW q \in Requests, q # r, Own(q)
      PROVE  UNCHANGED <<pc[r], cut[r], todo[r], op[r]>>
  BY <1>1 DEF Own, Start, Begin, Reads, Setting, Flag, CheckAll, Check, Refuse, Save, Send,
              SendFail, Resave, Close, Fail, Abandon, Go
<1>2. ASSUME Elsewhere PROVE UNCHANGED <<pc[r], cut[r], todo[r], op[r]>>
  BY <1>2, ElsewhereEffect
<1>3. ASSUME NEW why \in {"refused", "fault"}, Abandon(r, why)
      PROVE  /\ cut'[r] # "no" /\ pc'[r] = "ended" /\ todo'[r] = <<>> /\ UNCHANGED op[r]
             /\ cut'[r] = "rolledback" => r \in tx /\ why = "refused"
  BY <1>3, AbandonEffect
<1>4. Start(r) => UNCHANGED cut[r]
  BY DEF Start, Begin
<1>5. Reads(r) \/ Flag(r) \/ Save(r) \/ Send(r) \/ SendFail(r) \/ Resave(r) \/ Close(r)
      => UNCHANGED <<cut[r], op[r]>>
  BY DEF Reads, Setting, Flag, Save, Send, SendFail, Resave, Close
<1>6. CheckAll(r) =>
         /\ pc[r] = "checkall"
         /\ \/ Abandon(r, "refused")
            \/ Unfinished(r, Types) = {} /\ UNCHANGED <<cut[r], op[r]>>
  BY DEF CheckAll
<1>7. Check(r) =>
         /\ pc[r] = "check"
         /\ \/ Abandon(r, "refused")
            \/ Unfinished(r, Rivals(Head(todo[r]))) = {} /\ UNCHANGED <<cut[r], op[r]>>
  BY DEF Check
<1>8. /\ Refuse(r) => Abandon(r, "refused") /\ pc[r] \in {"save", "checkall"}
      /\ Fail(r) => Abandon(r, "fault") /\ Active(r)
  BY DEF Refuse, Fail
<1>9. pc[r] \in {"save", "check", "checkall"} => Active(r)
  BY DEF Active
<1> HIDE DEF Inv, TypeOK, requestVars, daemonVars, copyVars, history
<1>10. CASE \E q \in Requests : q # r /\ Own(q)
  BY <1>1, <1>10
<1>11. CASE Start(r)
  BY <1>4, <1>11
<1>12. CASE Reads(r) \/ Flag(r) \/ Save(r) \/ Send(r) \/ SendFail(r) \/ Resave(r) \/ Close(r)
  BY <1>5, <1>12
<1>13. CASE CheckAll(r)
  BY <1>3, <1>6, <1>9, <1>13
<1>14. CASE Check(r)
  BY <1>3, <1>7, <1>9, <1>14
<1>15. CASE Refuse(r)
  BY <1>3, <1>8, <1>9, <1>15
<1>16. CASE Fail(r)
  BY <1>3, <1>8, <1>16
<1>17. CASE Elsewhere
  BY <1>2, <1>17
<1>18. Own(r) => \/ Start(r) \/ Reads(r) \/ Flag(r) \/ CheckAll(r) \/ Check(r) \/ Refuse(r)
                 \/ Save(r) \/ Send(r) \/ SendFail(r) \/ Resave(r) \/ Close(r) \/ Fail(r)
  BY DEF Own
<1> QED BY <1>10, <1>11, <1>12, <1>13, <1>14, <1>15, <1>16, <1>17, <1>18, NextSplit, Zenon

\* A row is made by its own request only.
LEMMA RowsStep ==
    ASSUME Inv, Next, TypeOK', NEW t \in Tasks, rows[t] = "none", rows'[t] # "none"
    PROVE  (Save(t[1]) \/ Resave(t[1])) /\ t = Task(t[1]) /\ t[1] \in Requests
<1>1. ASSUME NEW r \in Requests, NEW why, Abandon(r, why) PROVE FALSE
  BY <1>1, AbandonEffect DEF Inv
<1>2. ASSUME NEW r \in Requests, Save(r) \/ Resave(r)
      PROVE  t = Task(r) /\ t[1] = r
  <2>1. t = Task(r)
    BY <1>2 DEF Save, Resave, Inv, TypeOK
  <2> QED BY <2>1 DEF Task
<1>3. ASSUME NEW r \in Requests, Own(r) PROVE Save(r) \/ Resave(r)
  BY <1>1, <1>3, RowsAlone, CheckEffect DEF Own
<1>4. ASSUME Elsewhere PROVE FALSE
  BY <1>4, ElsewhereEffect DEF Inv, Visible
<1> QED BY <1>2, <1>3, <1>4, NextSplit


\* Only requests that have ended are refused.
LEMMA CutStep == ASSUME Inv, Next, TypeOK' PROVE CutOK'
<1> SUFFICES ASSUME NEW r \in Requests PROVE cut'[r] # "no" => pc'[r] = "ended"
  BY DEF CutOK
<1>0. cut[r] # "no" => pc[r] = "ended"
  BY DEF Inv, CutOK
<1>1. Start(r) => pc[r] = "idle"
  BY DEF Start, Begin
<1>2. \/ Reads(r) \/ Flag(r) \/ Save(r) \/ Send(r) \/ SendFail(r) \/ Resave(r) \/ Close(r)
      \/ CheckAll(r) \/ Check(r)
      => pc[r] # "ended"
  BY DEF Reads, Setting, Flag, Save, Send, SendFail, Resave, Close, CheckAll, Check
<1> QED BY <1>0, <1>1, <1>2, Moves

\* Nobody is with a server that is gone but those who were with its deletion.
LEMMA DropStep == ASSUME Inv, Next, TypeOK', Together' PROVE DropOK'
<1> SUFFICES ASSUME NEW r \in Requests, op'[r] = "drop", pc'[r] = "ended", cut'[r] = "no"
             PROVE  /\ ~server'
                    /\ \A q \in Requests \ {r} : Active(q)' => Overlapped(r, q)'
  BY DEF DropOK
<1>1. CASE pc[r] = "ended" /\ op[r] = "drop" /\ cut[r] = "no"
  <2>1. ~server /\ \A q \in Requests \ {r} : Active(q) => Overlapped(r, q)
    BY <1>1 DEF Inv, DropOK
  <2>2. \A q \in Requests : ~Start(q)
    BY <2>1 DEF Start, Begin
  <2> QED BY <2>1, <2>2, Monotone, OverlapStays
<1>2. CASE Close(r) /\ op[r] = "drop"
  <2>1. ~server' /\ Active(r) /\ over' = over
    BY <1>2 DEF Close, Active
  <2>2. \A q \in Requests \ {r} : Active(q)' => Active(q)
    BY <1>2 DEF Close, Active, Inv, TypeOK
  <2> QED BY <2>1, <2>2 DEF Inv, Together, Overlapped
<1>3. ASSUME Start(r) PROVE FALSE
  <2>1. \A k : First(k) # "ended"
    BY DEF First
  <2> QED BY <1>3, <2>1 DEF Start, Begin, Inv, TypeOK
<1>4. ~Reads(r) /\ ~Flag(r) /\ ~Save(r) /\ ~Send(r) /\ ~SendFail(r) /\ ~Resave(r)
  BY DEF Reads, Setting, Flag, Save, Send, SendFail, Resave, Go, Inv, TypeOK
<1>5. ~(CheckAll(r) /\ Unfinished(r, Types) = {})
  BY CheckAllPassed DEF Inv, TypeOK
<1>6. ~(Check(r) /\ Unfinished(r, Rivals(Head(todo[r]))) = {})
  BY DEF Check, Inv, TypeOK
<1>7. UNCHANGED <<pc[r], cut[r], op[r]>> \/ (Close(r) /\ UNCHANGED op[r])
  BY <1>3, <1>4, <1>5, <1>6, Moves
<1> QED BY <1>1, <1>2, <1>7

\* Whoever saves a task is under way before and after.
LEMMA SaverActive ==
    ASSUME Inv, TypeOK', NEW q \in Requests, Save(q) \/ Resave(q)
    PROVE  /\ pc[q] \in {"save", "resave"} /\ Active(q) /\ Active(q)' /\ op[q] # "none"
           /\ Task(q)[1] = q /\ Task(q)[2] = Head(todo[q]) /\ Head(todo[q]) \in Types
<1>1. pc[q] \in {"save", "resave"}
  BY DEF Save, Resave
<1>2. Active(q)'
  BY DEF Save, Resave, Go, Active, Inv, TypeOK
<1>3. todo[q] # <<>> /\ op[q] # "none"
  BY <1>1 DEF Inv, Shape
<1> QED BY <1>1, <1>2, <1>3, TaskType DEF Inv, Active

\* A task a request does not see belongs to a transaction that is under way.
LEMMA HiddenActive ==
    ASSUME Inv, NEW q \in Requests, q \in tx PROVE Active(q)
BY DEF Inv, Shape, Active

\* Which requests are about to create a task, having looked for its rivals.
LEMMA AboutTo ==
    ASSUME Inv, Next, TypeOK', NEW r \in Requests, pc'[r] \in {"save", "send", "resave"},
           op'[r] # "remove"
    PROVE  /\ todo'[r] = todo[r] /\ op'[r] = op[r]
           /\ \/ pc[r] \in {"save", "send", "resave"}
              \/ Check(r) /\ Unfinished(r, Rivals(Head(todo[r]))) = {}
<1> USE DEF Inv, TypeOK, requestVars, daemonVars, copyVars, history
<1>1. ASSUME Start(r) PROVE FALSE
  <2>1. \A k : First(k) \in {"save", "send", "resave"} => k = "remove"
    BY DEF First
  <2> QED BY <1>1, <2>1 DEF Start, Begin
<1>2. ~Reads(r) /\ ~Flag(r) /\ ~Close(r)
  BY DEF Reads, Setting, Flag, Close
<1>3. ~SendFail(r) /\ ~Resave(r)
  <2>1. ASSUME Go(r), op' = op PROVE FALSE
    BY <2>1 DEF Go
  <2> QED BY <2>1 DEF SendFail, Resave
<1>4. ~(CheckAll(r) /\ Unfinished(r, Types) = {})
  <2>1. ASSUME CheckAll(r), Unfinished(r, Types) = {} PROVE pc'[r] \in {"close", "check"}
    <3>1. pc' = [pc EXCEPT ![r] = IF op[r] = "drop" THEN "close" ELSE "check"]
      BY <2>1, CheckAllPassed
    <3> QED BY <3>1
  <2> QED BY <2>1
<1>5. Save(r) \/ Send(r) => pc[r] \in {"save", "send", "resave"} /\ todo' = todo /\ op' = op
  BY DEF Save, Send
<1>6. Check(r) /\ Unfinished(r, Rivals(Head(todo[r]))) = {} => todo' = todo /\ op' = op
  BY DEF Check
<1> HIDE DEF Inv, TypeOK, requestVars, daemonVars, copyVars, history
<1> QED BY <1>1, <1>2, <1>3, <1>4, <1>5, <1>6, Moves

\* Nothing stands in the way of a task whose request has looked.
LEMMA CheckedStep == ASSUME Inv, Next, TypeOK', Together' PROVE Checked'
<1> SUFFICES ASSUME NEW r \in Requests, pc'[r] \in {"save", "send", "resave"},
                    op'[r] # "remove", NEW u \in Pending' \ revived', u[1] # r,
                    u[2] \in Rivals(Head(todo'[r]))
             PROVE  Overlapped(r, u[1])' \/ op'[u[1]] = "remove"
  BY DEF Checked
<1>0. u \in Tasks /\ u[1] \in Requests
  BY DEF Pending, Tasks
<1>1. CASE u \in Pending \ revived
  <2>1. CASE pc[r] \in {"save", "send", "resave"}
    <3>1. Overlapped(r, u[1]) \/ op[u[1]] = "remove"
      BY <1>1, <2>1, AboutTo DEF Inv, Checked
    <3> QED BY <1>0, <3>1, Monotone, OverlapStays
  <2>2. CASE Check(r) /\ Unfinished(r, Rivals(Head(todo[r]))) = {}
    <3>1. u[1] \in tx
      BY <1>0, <1>1, <2>2, AboutTo DEF Unfinished, Pending
    <3>2. Active(u[1]) /\ Active(r)
      BY <1>0, <2>2, <3>1, HiddenActive DEF Check, Active
    <3> QED BY <1>0, <3>2, Monotone, OverlapStays DEF Inv, Together
  <2> QED BY <2>1, <2>2, AboutTo
<1>2. ASSUME NEW q \in Requests, Save(q) \/ Resave(q), u = Task(q)
      PROVE  Overlapped(r, u[1])'
  <2>1. u[1] = q /\ Active(q)'
    BY <1>2, SaverActive
  <2>2. Active(r)'
    BY DEF Active
  <2> QED BY <2>1, <2>2 DEF Together
<1> QED BY <1>1, <1>2, PendingStep

\* Which requests have looked for every task.
LEMMA LookedBefore ==
    ASSUME Inv, Next, TypeOK', NEW r \in Requests, Looked(r)'
    PROVE  Looked(r) \/ (CheckAll(r) /\ Unfinished(r, Types) = {})
<1> USE DEF Inv, TypeOK, requestVars, daemonVars, copyVars, history
<1>1. ASSUME Start(r) PROVE FALSE
  <2>1. \A k \in {"drop", "reinstall"} : First(k) = "checkall"
    BY DEF First
  <2>2. pc'[r] = First(op'[r])
    BY <1>1 DEF Start, Begin
  <2> QED BY <2>1, <2>2 DEF Looked
<1>2. ASSUME UNCHANGED op[r],
             \/ Reads(r) \/ Flag(r) \/ Save(r) \/ Send(r) \/ SendFail(r) \/ Resave(r) \/ Close(r)
             \/ Check(r)
      PROVE  Looked(r)
  <2>1. pc[r] \in {"setting", "flag", "save", "send", "resave", "close", "check"}
    BY <1>2 DEF Reads, Setting, Flag, Save, Send, SendFail, Resave, Close, Check
  <2>2. op[r] \in {"drop", "reinstall"}
    BY <1>2 DEF Looked
  <2> QED BY <2>1, <2>2 DEF Looked, Shape
<1>3. ASSUME cut'[r] # "no", pc'[r] = "ended" PROVE FALSE
  BY <1>3 DEF Looked
<1>4. ASSUME UNCHANGED <<pc[r], cut[r], todo[r], op[r]>> PROVE Looked(r)
  BY <1>4 DEF Looked
<1> HIDE DEF Inv, TypeOK, requestVars, daemonVars, copyVars, history
<1> QED BY <1>1, <1>2, <1>3, <1>4, Moves

\* No unfinished task is left but those of requests under way together.
LEMMA LookedStep == ASSUME Inv, Next, TypeOK', Together', DropOK' PROVE LookedOK'
<1> SUFFICES ASSUME NEW r \in Requests, Looked(r)', NEW u \in Pending' \ revived', u[1] # r
             PROVE  Overlapped(r, u[1])'
  BY DEF LookedOK
<1>0. u \in Tasks /\ u[1] \in Requests
  BY DEF Pending, Tasks
<1>1. CASE u \in Pending \ revived
  <2>1. CASE Looked(r)
    BY <1>1, <2>1, Monotone, OverlapStays DEF Inv, LookedOK
  <2>2. CASE CheckAll(r) /\ Unfinished(r, Types) = {}
    <3>1. u[1] \in tx
      BY <1>0, <1>1, <2>2 DEF Unfinished, Pending, Tasks
    <3>2. Active(u[1]) /\ Active(r)
      BY <1>0, <2>2, <3>1, HiddenActive DEF CheckAll, Active
    <3> QED BY <1>0, <3>2, Monotone, OverlapStays DEF Inv, Together
  <2> QED BY <2>1, <2>2, LookedBefore
<1>2. ASSUME NEW q \in Requests, Save(q) \/ Resave(q), u = Task(q)
      PROVE  Overlapped(r, u[1])'
  <2>1. u[1] = q /\ Active(q)'
    BY <1>2, SaverActive
  <2>2. CASE Active(r)'
    BY <2>1, <2>2 DEF Together
  <2>3. CASE ~Active(r)'
    <3>1. Shape'
      BY ShapeStep
    <3>2. op'[r] = "drop" /\ pc'[r] = "ended" /\ cut'[r] = "no"
      BY <2>3, <3>1 DEF Looked, Active, Shape
    <3> QED BY <2>1, <3>2 DEF DropOK
  <2> QED BY <2>2, <2>3
<1> QED BY <1>1, <1>2, PendingStep

\* Rivalry is mutual.
LEMMA RivalsSym ==
    ASSUME NEW a \in Types, NEW b \in Types, a \in Rivals(b) PROVE b \in Rivals(a)
BY DEF Rivals, Types

\* At most one task of a kind, after every step.
LEMMA OneTaskStep == ASSUME Inv, Next, TypeOK', Together' PROVE OneTaskOfAKind'
<1> SUFFICES ASSUME NEW t \in Pending' \ revived', NEW u \in Pending' \ revived', t[1] # u[1],
                    t[2] \in Rivals(u[2])
             PROVE  Overlapped(t[1], u[1])' \/ "remove" \in {op'[t[1]], op'[u[1]]}
  BY DEF OneTaskOfAKind
<1>0. /\ t \in Tasks /\ u \in Tasks /\ t[1] \in Requests /\ u[1] \in Requests
      /\ t[2] \in Types /\ u[2] \in Types
  BY DEF Pending, Tasks
<1>1. CASE t \in Pending \ revived /\ u \in Pending \ revived
  <2>1. Overlapped(t[1], u[1]) \/ "remove" \in {op[t[1]], op[u[1]]}
    BY <1>1 DEF Inv, OneTaskOfAKind
  <2> QED BY <1>0, <2>1, Monotone, OverlapStays
<1>2. ASSUME NEW q \in Requests, Save(q) \/ Resave(q), NEW v \in Tasks, v[1] # q,
             v \in Pending \ revived, v[2] \in Rivals(Head(todo[q]))
      PROVE  Overlapped(q, v[1])' \/ "remove" \in {op'[q], op'[v[1]]}
  <2>1. v[1] \in Requests
    BY DEF Tasks
  <2>2. op[q] = "remove" \/ Overlapped(q, v[1]) \/ op[v[1]] = "remove"
    BY <1>2, SaverActive DEF Inv, Checked
  <2> QED BY <2>1, <2>2, Monotone, OverlapStays
<1>3. ASSUME NEW q \in Requests, NEW p \in Requests, Save(q) \/ Resave(q),
             Save(p) \/ Resave(p), p # q
      PROVE  Overlapped(q, p)'
  BY <1>3, SaverActive DEF Together
<1>4. CASE u \in Pending \ revived
  <2>1. ASSUME NEW q \in Requests, Save(q) \/ Resave(q), t = Task(q)
        PROVE  Overlapped(t[1], u[1])' \/ "remove" \in {op'[t[1]], op'[u[1]]}
    <3>1. t[1] = q /\ t[2] = Head(todo[q])
      BY <2>1, SaverActive
    <3>2. u[2] \in Rivals(Head(todo[q]))
      BY <1>0, <3>1, RivalsSym
    <3> QED BY <1>0, <1>2, <1>4, <2>1, <3>1, <3>2
  <2> QED BY <1>1, <1>4, <2>1, PendingStep
<1>5. ASSUME NEW p \in Requests, Save(p) \/ Resave(p), u = Task(p)
      PROVE  Overlapped(t[1], u[1])' \/ "remove" \in {op'[t[1]], op'[u[1]]}
  <2>1. u[1] = p /\ u[2] = Head(todo[p])
    BY <1>5, SaverActive
  <2>2. CASE t \in Pending \ revived
    BY <1>0, <1>2, <1>5, <2>1, <2>2 DEF Overlapped
  <2>3. ASSUME NEW q \in Requests, Save(q) \/ Resave(q), t = Task(q)
        PROVE  Overlapped(t[1], u[1])'
    <3>1. t[1] = q
      BY <2>3, SaverActive
    <3> QED BY <1>3, <1>5, <2>1, <2>3, <3>1
  <2> QED BY <2>2, <2>3, PendingStep
<1> QED BY <1>4, <1>5, PendingStep

\* A reinstallation that is rolled back was under way with another request, or
\* met a task that had ended.
LEMMA RollbackStep == ASSUME Inv, Next, TypeOK' PROVE RollbackNeedsOverlap'
<1> DEFINE Met(r) == \E q \in Requests \ {r} : Overlapped(r, q) \/ revived \cap ({q} \X Types) # {}
<1> SUFFICES ASSUME NEW r \in Requests, cut'[r] = "rolledback"
             PROVE  \E q \in Requests \ {r} :
                        Overlapped(r, q)' \/ revived' \cap ({q} \X Types) # {}
  BY DEF RollbackNeedsOverlap
<1>s. SUFFICES Met(r)
  <2>1. \A q \in Requests : Overlapped(r, q) => Overlapped(r, q)'
    BY Monotone, OverlapStays
  <2> QED BY <2>1, Monotone
<1>1. CASE cut[r] = "rolledback"
  BY <1>1 DEF Inv, RollbackNeedsOverlap
<1>2. ASSUME r \in tx, CheckAll(r) \/ Check(r) \/ Refuse(r), pc'[r] = "ended",
             pc[r] \in {"checkall", "check", "save"}
      PROVE  Met(r)
  <2>1. op[r] = "reinstall" /\ pc[r] \in {"check", "save"}
    BY <1>2 DEF Inv, Shape
  <2>d. /\ Whole # Rest /\ Whole # <<"install">> /\ Rest # <<"install">>
        /\ Head(Whole) = "stop" /\ Head(Rest) = "delete" /\ Head(<<"install">>) = "install"
    BY DEF Whole, Rest
  <2>4. todo[r] \in {Whole, Rest, <<"install">>}
    BY <2>1 DEF Inv, Chain
  <2>5. ~Refuse(r)
    BY <2>1, <2>d, <2>4 DEF Refuse
  <2>6. Check(r) /\ pc[r] = "check"
    BY <1>2, <2>1, <2>5 DEF CheckAll, Check
  <2>7. PICK t \in Unfinished(r, Rivals(Head(todo[r]))) : TRUE
    <3>1. ASSUME Unfinished(r, Rivals(Head(todo[r]))) = {} PROVE FALSE
      <4>1. pc' = [pc EXCEPT ![r] = "save"]
        BY <2>6, <3>1 DEF Check
      <4> QED BY <1>2, <4>1 DEF Inv, TypeOK
    <3> QED BY <3>1
  <2>8. t \in Pending /\ t[2] \in Rivals(Head(todo[r])) /\ t[1] \in Requests /\ t[2] \in Types
        /\ t = <<t[1], t[2]>> /\ rows[t] # "none"
    BY DEF Unfinished, Pending, Tasks
  <2>9. t[1] # r
    <3> SUFFICES ASSUME t[1] = r PROVE FALSE
      OBVIOUS
    <3>1. \/ t[2] = "stop" /\ todo[r] # Whole
          \/ t[2] = "delete" /\ todo[r] = <<"install">>
      BY <2>1, <2>6, <2>8 DEF Inv, Chain
    <3>2. Rivals("delete") = {"delete"} /\ Rivals("stop") = {"stop"}
          /\ Rivals("install") = {"update", "install"}
      BY DEF Rivals
    <3> QED BY <2>d, <2>4, <2>8, <3>1, <3>2
  <2>10. Looked(r)
    BY <2>1 DEF Looked
  <2>11. CASE t \in revived
    <3>1. t \in {t[1]} \X Types
      BY <2>8
    <3>2. revived \cap ({t[1]} \X Types) # {}
      BY <2>11, <3>1
    <3> QED BY <2>8, <2>9, <3>2
  <2>12. CASE t \notin revived
    BY <2>8, <2>9, <2>10, <2>12 DEF Inv, LookedOK
  <2> QED BY <2>11, <2>12
<1>3. CASE UNCHANGED cut[r]
  BY <1>1, <1>3
<1> QED BY <1>1, <1>2, <1>3, Moves

\* Every step keeps the invariant.
LEMMA NextInv == ASSUME Inv, Next PROVE Inv'
<1>1. TypeOK'
  BY TypeStep DEF Inv
<1>2. Together'
  BY <1>1, TogetherStep
<1>3. DropOK'
  BY <1>1, <1>2, DropStep
<1>4. Shape' /\ Chain' /\ Placed' /\ LateOK' /\ CutOK'
  BY <1>1, ShapeStep, ChainStep, PlacedStep, LateStep, CutStep
<1>5. Checked' /\ LookedOK' /\ OneTaskOfAKind' /\ RollbackNeedsOverlap'
  BY <1>1, <1>2, <1>3, CheckedStep, LookedStep, OneTaskStep, RollbackStep
<1> QED BY <1>1, <1>2, <1>3, <1>4, <1>5 DEF Inv

\* Stuttering keeps the invariant.
LEMMA StutterInv == ASSUME Inv, UNCHANGED vars PROVE Inv'
<1> USE DEF vars, requestVars, daemonVars, copyVars, history
<1>1. TypeOK' /\ Shape' /\ Chain' /\ Placed' /\ LateOK' /\ CutOK'
  BY DEF Inv, TypeOK, Shape, Chain, Placed, LateOK, CutOK
<1>2. Pending' = Pending
  BY DEF Pending
<1>3. Together' /\ DropOK' /\ Checked' /\ LookedOK'
  BY <1>2 DEF Inv, Together, DropOK, Checked, LookedOK, Looked, Active, Overlapped
<1>4. OneTaskOfAKind' /\ RollbackNeedsOverlap'
  BY <1>2 DEF Inv, OneTaskOfAKind, RollbackNeedsOverlap, Overlapped
<1> QED BY <1>1, <1>3, <1>4 DEF Inv

\* The invariant holds throughout.
THEOREM SpecInv == Spec => []Inv
BY InitInv, NextInv, StutterInv, PTL DEF Spec

\* addServerStart and the others keep at most one unfinished task of a kind, up
\* to requests that overlap and tasks that a late or repeated save has marked as
\* working again (servercontrol.go, workingTasksExist and Dispatch).
THEOREM OneTask == Spec => []OneTaskOfAKind
<1>1. Inv => OneTaskOfAKind
  BY DEF Inv
<1> QED BY <1>1, SpecInv, PTL

\* Reinstall is rolled back by a refusal only when another request was under way
\* with it, or a task of another that had ended was marked as working again.
THEOREM RollbackOverlap == Spec => []RollbackNeedsOverlap
<1>1. Inv => RollbackNeedsOverlap
  BY DEF Inv
<1> QED BY <1>1, SpecInv, PTL

\* deleteWithoutFiles leaves no unfinished task, up to requests that overlap and
\* tasks that had ended and were marked as working again.
THEOREM NoneLeftBehind == Spec => []NoTaskLeftBehind
<1>1. Inv => NoTaskLeftBehind
  <2> SUFFICES ASSUME Inv, NEW r \in Requests, op[r] = "drop", pc[r] = "ended",
                      cut[r] = "no", NEW t \in Pending \ revived
               PROVE  Overlapped(r, t[1])
    BY DEF NoTaskLeftBehind
  <2>1. t[1] # r
    BY DEF Inv, Shape, Pending, Tasks
  <2> QED BY <2>1 DEF Inv, LookedOK, Looked
<1> QED BY <1>1, SpecInv, PTL

-----------------------------------------------------------------------------
(* The setting autostart_current *)

Switches == {"start", "stop", "restart"}

\* r has written the setting, or need not, and has not yet ended.
Past(r) == Active(r) /\ op[r] \in Switches /\ pc[r] \notin {"setting", "flag"}

\* What r makes of the setting when it is accepted.
Want(r) == op[r] # "stop" /\ (wanted \/ r \in enabled)

\* No two requests have overlapped, and those that write the setting have not failed.
Clean == over = {} /\ \A r \in Requests : op[r] \in Switches => cut[r] = "no"

\* Which requests have found autostart on, and which write the setting.
EnabledOK ==
    \A r \in Requests :
        /\ r \in enabled => op[r] \in {"start", "restart"} /\ pc[r] \notin {"idle", "setting"}
        /\ pc[r] = "flag" => op[r] = "stop" \/ r \in enabled

\* The setting is what the request under way asks for, or else the accepted ones.
AutoOK ==
    Clean =>
        /\ \A r \in Requests : Past(r) => auto = Want(r)
        /\ (\A r \in Requests : ~Past(r)) => auto = wanted

\* A step undoes neither.
LEMMA CleanBefore == ASSUME Inv, Next, TypeOK', Clean' PROVE Clean
<1>1. over = {}
  BY Monotone DEF Clean
<1>2. ASSUME NEW r \in Requests, op[r] \in Switches PROVE cut[r] = "no"
  <2>1. op'[r] = op[r]
    BY <1>2, Monotone DEF Switches
  <2>2. cut'[r] = "no"
    BY <1>2, <2>1 DEF Clean
  <2> QED BY <2>2, Moves
<1> QED BY <1>1, <1>2 DEF Clean

\* Requests that do not overlap are alone.
LEMMA Alone ==
    ASSUME Inv, Clean, NEW r \in Requests, NEW q \in Requests, Active(r), Active(q)
    PROVE  q = r
BY DEF Inv, Together, Overlapped, Clean

\* Where the requests that found autostart on can be.
LEMMA EnabledStep == ASSUME Inv, Next, TypeOK', EnabledOK PROVE EnabledOK'
<1> USE DEF EnabledOK
<1>1. ASSUME NEW r \in Requests, Reads(r) PROVE EnabledOK'
  <2>1. PICK on \in BOOLEAN : Setting(r, on)
    BY <1>1 DEF Reads
  <2>2. /\ pc[r] = "setting" /\ op' = op /\ (on => op[r] # "stop")
        /\ op[r] \in {"start", "stop", "restart"}
    BY <2>1 DEF Setting, Inv, Shape
  <2>3. CASE on
    <3>1. pc' = [pc EXCEPT ![r] = "flag"] /\ enabled' = enabled \cup {r}
      BY <2>1, <2>3 DEF Setting
    <3> QED BY <2>2, <2>3, <3>1 DEF Inv, TypeOK
  <2>4. CASE ~on
    <3>1. enabled' = enabled
      BY <2>1, <2>4 DEF Setting
    <3>2. CASE op[r] = "stop"
      <4>1. pc' = [pc EXCEPT ![r] = "flag"]
        BY <2>1, <3>2 DEF Setting
      <4> QED BY <2>2, <3>1, <3>2, <4>1 DEF Inv, TypeOK
    <3>3. CASE op[r] # "stop"
      <4>1. pc' = [pc EXCEPT ![r] = "check"]
        BY <2>1, <2>4, <3>3 DEF Setting
      <4> QED BY <2>2, <3>1, <3>3, <4>1 DEF Inv, TypeOK
    <3> QED BY <3>2, <3>3
  <2> QED BY <2>3, <2>4
<1>2. ASSUME NEW r \in Requests, Start(r) PROVE EnabledOK'
  <2>1. /\ pc[r] = "idle" /\ enabled' = enabled
        /\ \A q \in Requests \ {r} : pc'[q] = pc[q] /\ op'[q] = op[q]
    BY <1>2 DEF Start, Begin, Inv, TypeOK
  <2>2. \A k : First(k) # "flag"
    BY DEF First
  <2>3. pc'[r] # "flag"
    BY <1>2, <2>2 DEF Start, Begin, Inv, TypeOK
  <2> QED BY <2>1, <2>3
<1>3. ASSUME NEW r \in Requests, pc'[r] \notin {"idle", "setting", "flag"},
             UNCHANGED <<op, enabled>>, \A q \in Requests \ {r} : pc'[q] = pc[q]
      PROVE  EnabledOK'
  BY <1>3
<1>4. ASSUME NEW r \in Requests, Own(r), ~Start(r), ~Reads(r)
      PROVE  /\ pc'[r] \notin {"idle", "setting", "flag"}
             /\ UNCHANGED <<op, enabled>> /\ \A q \in Requests \ {r} : pc'[q] = pc[q]
  <2>1. UNCHANGED <<op, enabled>>
    BY <1>4 DEF Own, Flag, CheckAll, Check, Refuse, Save, Send, SendFail, Resave, Close,
                Fail, Abandon, history
  <2>2. pc'[r] \notin {"idle", "setting", "flag"} /\ \A q \in Requests \ {r} : pc'[q] = pc[q]
    BY <1>4 DEF Own, Flag, CheckAll, Check, Refuse, Save, Send, SendFail, Resave, Close,
                Fail, Abandon, Go, Inv, TypeOK
  <2> QED BY <2>1, <2>2
<1>5. ASSUME Elsewhere PROVE EnabledOK'
  BY <1>5, ElsewhereEffect DEF Inv
<1> QED BY <1>1, <1>2, <1>3, <1>4, <1>5, NextSplit

\* Every step keeps the setting in line.
LEMMA AutoStep == ASSUME Inv, Next, TypeOK', EnabledOK, AutoOK PROVE AutoOK'
<1> DEFINE Goal == /\ \A r \in Requests : Past(r)' => auto' = Want(r)'
                   /\ (\A r \in Requests : ~Past(r)') => auto' = wanted'
<1> SUFFICES ASSUME Clean' PROVE Goal
  BY DEF AutoOK
<1>c. Clean
  BY CleanBefore
<1>a. /\ \A r \in Requests : Past(r) => auto = Want(r)
      /\ (\A r \in Requests : ~Past(r)) => auto = wanted
  BY <1>c DEF AutoOK
<1>1. ASSUME UNCHANGED <<auto, wanted>>,
             \A q \in Requests : Past(q)' => Past(q) /\ (Want(q)' <=> Want(q)),
             \A q \in Requests : Past(q) => Past(q)'
      PROVE  Goal
  <2>1. ASSUME NEW q \in Requests, Past(q)' PROVE auto' = Want(q)'
    BY <1>1, <1>a, <2>1 DEF Want
  <2>2. ASSUME \A q \in Requests : ~Past(q)' PROVE auto' = wanted'
    BY <1>1, <1>a, <2>2
  <2> QED BY <2>1, <2>2
<1>2. ASSUME NEW r \in Requests, Start(r) PROVE Goal
  <2>1. /\ pc[r] = "idle" /\ UNCHANGED <<auto, wanted, enabled>>
        /\ \A q \in Requests \ {r} : pc'[q] = pc[q] /\ op'[q] = op[q]
        /\ pc'[r] = First(op'[r])
    BY <1>2 DEF Start, Begin, Inv, TypeOK
  <2>2. \A k \in Switches : First(k) = "setting"
    BY DEF First, Switches
  <2>3. ~Past(r) /\ ~Past(r)'
    BY <2>1, <2>2 DEF Past, Active
  <2>4. \A q \in Requests \ {r} : (Past(q)' <=> Past(q)) /\ (Want(q)' <=> Want(q))
    BY <2>1 DEF Past, Active, Want
  <2> QED BY <1>1, <2>1, <2>3, <2>4
<1>m. ASSUME NEW r \in Requests, Active(r), UNCHANGED <<auto, wanted, enabled, op>>,
             op[r] \in Switches => pc[r] \notin {"setting", "flag"},
             pc'[r] \notin {"idle", "setting", "flag", "ended"},
             \A q \in Requests \ {r} : pc'[q] = pc[q]
      PROVE  Goal
  <2>1. \A q \in Requests : (Past(q)' <=> Past(q)) /\ (Want(q)' <=> Want(q))
    BY <1>m DEF Past, Active, Want
  <2> QED BY <1>1, <1>m, <2>1
<1>3. ASSUME NEW r \in Requests, Active(r), op[r] \in Switches, pc[r] \in {"setting", "flag"},
             UNCHANGED <<op, wanted>>, \A q \in Requests \ {r} : pc'[q] = pc[q],
             auto' = Want(r)', pc'[r] = "check"
      PROVE  Goal
  <2>1. Past(r)'
    BY <1>3 DEF Past, Active
  <2>2. \A q \in Requests \ {r} : ~Past(q)'
    BY <1>3, <1>c, Alone DEF Past, Active
  <2> QED BY <1>3, <2>1, <2>2
<1>n. ASSUME NEW r \in Requests, Active(r), pc[r] \in {"setting", "flag"} PROVE auto = wanted
  BY <1>n, <1>c, <1>a, Alone DEF Past
<1>4. ASSUME NEW r \in Requests, Reads(r) PROVE Goal
  <2>1. PICK on \in BOOLEAN : Setting(r, on)
    BY <1>4 DEF Reads
  <2>2. /\ pc[r] = "setting" /\ op' = op /\ UNCHANGED <<auto, wanted>> /\ (on => op[r] # "stop")
        /\ op[r] \in Switches /\ Active(r)
        /\ \A q \in Requests \ {r} : pc'[q] = pc[q]
    BY <2>1 DEF Setting, Inv, Shape, Switches, Active, TypeOK
  <2>3. CASE on \/ op[r] = "stop"
    <3>1. pc'[r] = "flag"
      BY <2>1, <2>3 DEF Setting, Inv, TypeOK
    <3>2. ~Past(r) /\ ~Past(r)'
      BY <2>2, <3>1 DEF Past
    <3>3. \A q \in Requests \ {r} : ~Past(q) /\ ~Past(q)'
      BY <1>c, <2>2, Alone DEF Past, Active
    <3> QED BY <1>1, <2>2, <3>2, <3>3
  <2>4. CASE ~on /\ op[r] # "stop"
    <3>1. pc'[r] = "check" /\ enabled' = enabled
      BY <2>1, <2>4 DEF Setting, Inv, TypeOK
    <3>2. r \notin enabled
      BY <2>2 DEF EnabledOK
    <3>3. wanted \in BOOLEAN
      BY DEF Inv, TypeOK
    <3>4. auto' = Want(r)'
      BY <1>n, <2>2, <2>4, <3>1, <3>2, <3>3 DEF Want
    <3> QED BY <1>3, <2>2, <3>1, <3>4
  <2> QED BY <2>3, <2>4
<1>5. ASSUME NEW r \in Requests, Flag(r) PROVE Goal
  <2>1. /\ pc[r] = "flag" /\ UNCHANGED <<op, wanted, enabled>> /\ auto' = (op[r] # "stop")
        /\ op[r] \in Switches /\ Active(r) /\ pc'[r] = "check"
        /\ \A q \in Requests \ {r} : pc'[q] = pc[q]
    BY <1>5 DEF Flag, Inv, Shape, Switches, Active, TypeOK, history
  <2>2. op[r] # "stop" => r \in enabled
    BY <2>1 DEF EnabledOK
  <2>3. auto' = Want(r)'
    BY <2>1, <2>2 DEF Want
  <2> QED BY <1>3, <2>1, <2>3
<1>6. ASSUME NEW r \in Requests, Close(r) PROVE Goal
  <2>1. /\ pc[r] = "close" /\ pc'[r] = "ended" /\ op' = op /\ auto' = auto /\ enabled' = enabled
        /\ wanted' = Want(r) /\ Active(r)
        /\ \A q \in Requests \ {r} : pc'[q] = pc[q]
    BY <1>6 DEF Close, Inv, TypeOK, Want, Active
  <2>2. \A q \in Requests : ~Past(q)'
    BY <1>c, <2>1, Alone DEF Past, Active
  <2>3. auto = Want(r)
    <3>1. CASE op[r] \in Switches
      BY <1>a, <2>1, <3>1 DEF Past
    <3>2. CASE op[r] \notin Switches
      <4>1. \A q \in Requests : ~Past(q)
        BY <1>c, <2>1, <3>2, Alone DEF Past
      <4>2. r \notin enabled /\ op[r] # "stop" /\ wanted \in BOOLEAN
        BY <3>2 DEF EnabledOK, Switches, Inv, TypeOK
      <4> QED BY <1>a, <4>1, <4>2 DEF Want
    <3> QED BY <3>1, <3>2
  <2> QED BY <2>1, <2>2, <2>3
<1>7. ASSUME NEW r \in Requests, NEW why \in {"refused", "fault"}, Abandon(r, why) PROVE Goal
  <2>1. /\ pc'[r] = "ended" /\ op' = op /\ UNCHANGED <<auto, wanted, enabled>>
        /\ \A q \in Requests \ {r} : pc'[q] = pc[q]
    BY <1>7 DEF Abandon, Inv, TypeOK
  <2>c. cut'[r] # "no"
    BY <1>7 DEF Abandon, Inv, TypeOK
  <2>2. op[r] \notin Switches
    BY <2>1, <2>c DEF Clean
  <2>3. \A q \in Requests : (Past(q)' <=> Past(q)) /\ (Want(q)' <=> Want(q))
    BY <2>1, <2>2 DEF Past, Active, Want
  <2> QED BY <1>1, <2>1, <2>3
<1>8. ASSUME NEW r \in Requests, Save(r) \/ Send(r) PROVE Goal
  <2>1. /\ Active(r) /\ op' = op /\ UNCHANGED <<auto, wanted, enabled>>
        /\ pc[r] \notin {"setting", "flag"} /\ pc'[r] \notin {"idle", "setting", "flag", "ended"}
        /\ \A q \in Requests \ {r} : pc'[q] = pc[q]
    BY <1>8 DEF Save, Send, Inv, TypeOK, history, Active
  <2> QED BY <1>m, <2>1
<1>9. ASSUME NEW r \in Requests, SendFail(r) \/ Resave(r) PROVE Goal
  <2>1. pc[r] \in {"send", "resave"} /\ op' = op /\ UNCHANGED <<auto, wanted, enabled>> /\ Go(r)
    BY <1>9 DEF SendFail, Resave, history
  <2>2. /\ pc'[r] \in {"close", "save", "check"}
        /\ \A q \in Requests \ {r} : pc'[q] = pc[q]
    BY <2>1 DEF Go, Inv, TypeOK
  <2>3. Active(r)
    BY <2>1 DEF Active
  <2> QED BY <1>m, <2>1, <2>2, <2>3
<1>10. ASSUME NEW r \in Requests, CheckAll(r) PROVE Goal
  <2>1. CASE Unfinished(r, Types) # {}
    BY <1>7, <1>10, <2>1 DEF CheckAll
  <2>2. CASE Unfinished(r, Types) = {}
    <3>1. /\ pc[r] = "checkall" /\ op' = op /\ UNCHANGED <<auto, wanted, enabled>>
          /\ pc' = [pc EXCEPT ![r] = IF op[r] = "drop" THEN "close" ELSE "check"]
      BY <1>10, <2>2, CheckAllPassed DEF history
    <3>2. pc'[r] \in {"close", "check"} /\ \A q \in Requests \ {r} : pc'[q] = pc[q]
      BY <3>1 DEF Inv, TypeOK
    <3>3. Active(r)
      BY <3>1 DEF Active
    <3> QED BY <1>m, <3>1, <3>2, <3>3
  <2> QED BY <2>1, <2>2
<1>11. ASSUME NEW r \in Requests, Check(r) PROVE Goal
  <2>1. CASE Unfinished(r, Rivals(Head(todo[r]))) # {}
    BY <1>7, <1>11, <2>1 DEF Check
  <2>2. CASE Unfinished(r, Rivals(Head(todo[r]))) = {}
    <3>1. /\ pc[r] = "check" /\ op' = op /\ UNCHANGED <<auto, wanted, enabled>> /\ pc'[r] = "save"
          /\ \A q \in Requests \ {r} : pc'[q] = pc[q]
      BY <1>11, <2>2 DEF Check, Inv, TypeOK, history
    <3>3. Active(r)
      BY <3>1 DEF Active
    <3> QED BY <1>m, <3>1, <3>3
  <2> QED BY <2>1, <2>2
<1>12. ASSUME NEW r \in Requests, Refuse(r) \/ Fail(r) PROVE Goal
  BY <1>7, <1>12 DEF Refuse, Fail
<1>13. ASSUME Elsewhere PROVE Goal
  <2>1. UNCHANGED <<auto, wanted, enabled, op, pc>>
    BY <1>13, ElsewhereEffect DEF Inv
  <2>2. \A q \in Requests : (Past(q)' <=> Past(q)) /\ (Want(q)' <=> Want(q))
    BY <2>1 DEF Past, Active, Want
  <2> QED BY <1>1, <2>1, <2>2
<1> HIDE DEF Goal
<1> QED BY <1>2, <1>4, <1>5, <1>6, <1>8, <1>9, <1>10, <1>11, <1>12, <1>13, NextSplit DEF Own

\* updateAutostartCurrent leaves the setting as the accepted requests want it,
\* when requests do not overlap and none that writes it fails.
THEOREM AutostartFollows == Spec => []AutostartAgrees
<1>1. Init => EnabledOK /\ AutoOK
  BY DEF Init, EnabledOK, AutoOK, Past, Active
<1>2. Inv /\ TypeOK' /\ EnabledOK /\ AutoOK /\ [Next]_vars => EnabledOK' /\ AutoOK'
  <2>1. Inv /\ UNCHANGED vars /\ EnabledOK /\ AutoOK => EnabledOK' /\ AutoOK'
    BY DEF vars, requestVars, history, EnabledOK, AutoOK, Clean, Past, Active, Want
  <2> QED BY <2>1, EnabledStep, AutoStep
<1>3. AutoOK => AutostartAgrees
  BY DEF AutoOK, AutostartAgrees, Clean, Past, Switches
<1>4. Inv => TypeOK
  BY DEF Inv
<1> QED BY <1>1, <1>2, <1>3, <1>4, SpecInv, PTL DEF Spec

-----------------------------------------------------------------------------
(* The files of the server *)

\* Only a removal and a reinstallation delete files.
DeletersOK ==
    \A r \in Requests :
        /\ op[r] \notin {"remove", "reinstall"} => todo[r] \in {<<>>, <<op[r]>>}
        /\ rows[<<r, "delete">>] # "none" \/ <<r, "delete">> \in known
              => op[r] \in {"remove", "reinstall"}

\* Inside its transaction a reinstallation alone writes its rows, and the daemon
\* knows no task without a row.
TxOK ==
    \A r \in tx :
        /\ \A y \in Types :
              /\ rows[<<r, y>>] \in {"none", "waiting"}
              /\ <<r, y>> \in known => rows[<<r, y>>] = "waiting"
        /\ pc[r] \in {"send", "resave"} => rows[Task(r)] = "waiting"
        /\ pc[r] = "close" => rows[<<r, "install">>] = "waiting"

Install(r) == <<r, "install">>
Delete(r) == <<r, "delete">>

\* The installation of r is still to come, and the panel can tell.
Owes(r) ==
    /\ op[r] = "reinstall" /\ cut[r] = "no"
    /\ Install(r) \in known => Install(r) \in queue \cup running
    /\ <<Install(r), "success">> \notin inbox
    /\ Active(r) \/ rows[Install(r)] \in {"waiting", "working", "error", "canceled"}

\* The exceptions of FilesComeBack but one.
Excused(r) ==
    \/ op[r] = "remove"
    \/ op[r] = "reinstall" /\ cut[r] # "no"
    \/ Delete(r) \in resent

\* While the daemon has the deletion it has not begun with the installation.
DeleteFirst ==
    \A r \in Requests :
        Delete(r) \in queue \cup running =>
            Excused(r) \/ (Owes(r) /\ Install(r) \notin running)

FilesOK == ~files => \E r \in Requests : Excused(r) \/ Owes(r)

\* What a step can do to the row of a task: its own request saves it or rolls it
\* back, or, outside of a transaction, others save their copies.
LEMMA RowEffect ==
    ASSUME Inv, Next, TypeOK', NEW t \in Tasks
    PROVE  \/ rows'[t] = rows[t]
           \/ /\ t[1] \in Requests /\ (Save(t[1]) \/ Resave(t[1]))
              /\ t = Task(t[1]) /\ rows'[t] = "waiting"
           \/ t[1] \in tx /\ t[1] \notin tx'
           \/ t[1] \notin tx /\ rows'[t] \in {"working", "error", "canceled"}
           \/ t[1] \notin tx /\ <<t, "success">> \in inbox
<1> DEFINE Goal ==
           \/ rows'[t] = rows[t]
           \/ /\ t[1] \in Requests /\ (Save(t[1]) \/ Resave(t[1]))
              /\ t = Task(t[1]) /\ rows'[t] = "waiting"
           \/ t[1] \in tx /\ t[1] \notin tx'
           \/ t[1] \notin tx /\ rows'[t] \in {"working", "error", "canceled"}
           \/ t[1] \notin tx /\ <<t, "success">> \in inbox
<1>1. ASSUME NEW r \in Requests, NEW why, Abandon(r, why) PROVE Goal
  BY <1>1, AbandonEffect DEF Inv
<1>2. ASSUME NEW r \in Requests, Save(r) \/ Resave(r) PROVE Goal
  <2>1. Task(r)[1] = r
    BY DEF Task
  <2>2. t # Task(r) => rows'[t] = rows[t]
    BY <1>2 DEF Save, Resave, Inv, TypeOK
  <2>3. t = Task(r) => rows'[t] = "waiting"
    BY <1>2 DEF Save, Resave, Inv, TypeOK
  <2> QED BY <1>2, <2>1, <2>2, <2>3
<1>3. ASSUME NEW r \in Requests, Own(r) PROVE Goal
  <2>1. rows' = rows => Goal
    OBVIOUS
  <2> HIDE DEF Goal
  <2> QED BY <1>1, <1>2, <1>3, <2>1, RowsAlone, CheckEffect DEF Own
<1>4. ASSUME Elsewhere PROVE Goal
  BY <1>4, ElsewhereEffect DEF Inv, Visible
<1> HIDE DEF Goal
<1>5. Goal
  BY <1>3, <1>4, NextSplit
<1> QED BY <1>5 DEF Goal

\* What a step can do to the daemon's places: it gets a task from its request,
\* or from the panel when it connects.
LEMMA DaemonEffect ==
    ASSUME Inv, Next, TypeOK', NEW x \in Tasks
    PROVE  /\ x \in known' /\ x \notin known =>
                 (\E q \in Requests : Send(q) /\ x = Task(q)) \/ x \in Visible
           /\ x \in queue' \cup running' /\ x \notin queue \cup running =>
                 /\ x \notin known
                 /\ \/ \E q \in Requests : Send(q) /\ x = Task(q)
                    \/ x[2] = "delete" => x \in resent'
           /\ x \in running' /\ x \notin running =>
                 RunAfter(x) = x \/ RunAfter(x) \notin queue \cup running
           /\ x \in known' /\ x \notin queue' \cup running' =>
                 DaemonFinish(x) \/ (x \in known /\ x \notin queue \cup running)
           /\ <<x, "success">> \in inbox' /\ <<x, "success">> \notin inbox =>
                 DaemonFinish(x) \/ (x \in known /\ x \notin queue \cup running)
<1> DEFINE Goal ==
           /\ x \in known' /\ x \notin known =>
                 (\E q \in Requests : Send(q) /\ x = Task(q)) \/ x \in Visible
           /\ x \in queue' \cup running' /\ x \notin queue \cup running =>
                 /\ x \notin known
                 /\ \/ \E q \in Requests : Send(q) /\ x = Task(q)
                    \/ x[2] = "delete" => x \in resent'
           /\ x \in running' /\ x \notin running =>
                 RunAfter(x) = x \/ RunAfter(x) \notin queue \cup running
           /\ x \in known' /\ x \notin queue' \cup running' =>
                 DaemonFinish(x) \/ (x \in known /\ x \notin queue \cup running)
           /\ <<x, "success">> \in inbox' /\ <<x, "success">> \notin inbox =>
                 DaemonFinish(x) \/ (x \in known /\ x \notin queue \cup running)
<1>1. ASSUME UNCHANGED <<queue, running, known>>, inbox' \subseteq inbox PROVE Goal
  BY <1>1
<1>a. ASSUME NEW tasks, Arrive(tasks), UNCHANGED <<running, inbox>>,
             x \in tasks => (\E q \in Requests : Send(q) /\ x = Task(q))
                            \/ (x \in Visible /\ (x[2] = "delete" => x \in resent'))
      PROVE  Goal
  BY <1>a DEF Arrive
<1>2. ASSUME NEW r \in Requests, Send(r) PROVE Goal
  <2>1. UNCHANGED <<running, inbox>> /\ (Arrive({Task(r)}) \/ UNCHANGED <<queue, known>>)
    BY <1>2 DEF Send
  <2> QED BY <1>1, <1>2, <1>a, <2>1
<1>3. ASSUME NEW t \in Tasks, DaemonStart(t) PROVE Goal
  <2>1. /\ known' = known /\ inbox' = inbox \cup {<<t, "working">>}
        /\ queue' = queue \ {t} /\ running' = running \cup {t} /\ t \in queue
        /\ RunAfter(t) = t \/ RunAfter(t) \notin queue \cup running
    BY <1>3 DEF DaemonStart
  <2> QED BY <2>1
<1>4. ASSUME NEW t \in Tasks, DaemonFinish(t) PROVE Goal
  <2>1. /\ known' = known /\ queue' = queue /\ running' = running \ {t}
        /\ inbox' = inbox \cup {<<t, "success">>} /\ t \in running
    BY <1>4 DEF DaemonFinish
  <2>2. CASE t = x
    BY <1>4, <2>1, <2>2
  <2>3. CASE t # x
    BY <2>1, <2>3
  <2> QED BY <2>2, <2>3
<1>5. ASSUME NEW t \in Tasks, NEW s \in {"working", "success"}, Redeliver(t, s) PROVE Goal
  <2>1. /\ UNCHANGED <<known, queue, running>> /\ inbox' = inbox \cup {<<t, s>>}
        /\ t \in known \ queue /\ (s = "success" => t \notin running)
    BY <1>5 DEF Redeliver
  <2> QED BY <2>1
<1>6. ASSUME NEW restart \in BOOLEAN, Reconnect(restart) PROVE Goal
  <2>1. CASE restart
    BY <1>6, <2>1 DEF Reconnect
  <2>2. CASE ~restart
    BY <1>6, <2>2 DEF Reconnect
  <2> QED BY <2>1, <2>2
<1>7. ASSUME NEW c \in joining, SendAck(c) PROVE Goal
  <2> DEFINE waiting == {t \in Visible : rows[t] = "waiting"}
  <2>1. Arrive(waiting) /\ UNCHANGED <<running, inbox>>
    BY <1>7 DEF SendAck
  <2>2. x \in waiting => x \in Visible /\ (x[2] = "delete" => x \in resent')
    BY <1>7 DEF SendAck
  <2> HIDE DEF waiting
  <2> QED BY <1>a, <2>1, <2>2
<1>8. ASSUME NEW p \in late, FlushSend(p[1], p[3]) PROVE Goal
  <2>1. UNCHANGED <<running, inbox>>
    BY <1>8 DEF FlushSend
  <2>2. \/ UNCHANGED <<queue, known>>
        \/ Arrive({p[1]}) /\ (p[1][2] = "delete" => p[1] \in resent')
    BY <1>8 DEF FlushSend
  <2>3. p[1] \in Visible
    BY CopyType DEF Inv, LateOK, Visible
  <2> QED BY <1>1, <1>a, <2>1, <2>2, <2>3
<1>9. ASSUME (\E t \in Tasks : CancelFind(t)) \/ Sweep \/ \E c \in flushes : FlushFind(c)
      PROVE  UNCHANGED <<queue, running, known, inbox>>
  BY <1>9 DEF CancelFind, Sweep, FlushFind, daemonVars
<1>10. ASSUME Saves PROVE UNCHANGED <<queue, running, known>> /\ inbox' \subseteq inbox
  BY <1>10, SavesEffect DEF Inv
<1>11. ASSUME NEW r \in Requests, Own(r) PROVE UNCHANGED <<queue, running, known, inbox>> \/ Send(r)
  BY <1>11 DEF Own, Start, Begin, Reads, Setting, Flag, CheckAll, Check, Refuse, Save, SendFail,
               Resave, Close, Fail, Abandon, daemonVars
<1> HIDE DEF Goal
<1>12. ASSUME Elsewhere PROVE Goal
  BY <1>1, <1>3, <1>4, <1>5, <1>6, <1>7, <1>8, <1>9, <1>10, <1>12 DEF Elsewhere, Daemon, Panel
<1>13. Goal
  BY <1>1, <1>2, <1>11, <1>12, NextSplit
<1> QED BY <1>13 DEF Goal

\* Which requests may create a task of which type.
LEMMA DeletersStep == ASSUME Inv, Next, TypeOK', DeletersOK PROVE DeletersOK'
<1> SUFFICES ASSUME NEW r \in Requests
             PROVE  /\ op'[r] \notin {"remove", "reinstall"} => todo'[r] \in {<<>>, <<op'[r]>>}
                    /\ rows'[<<r, "delete">>] # "none" \/ <<r, "delete">> \in known'
                          => op'[r] \in {"remove", "reinstall"}
  BY DEF DeletersOK
<1>t. Delete(r) = <<r, "delete">> /\ Delete(r) \in Tasks /\ Delete(r)[1] = r
  BY DEF Delete, Tasks, Types
<1>0. /\ op[r] \notin {"remove", "reinstall"} => todo[r] \in {<<>>, <<op[r]>>}
      /\ rows[<<r, "delete">>] # "none" \/ <<r, "delete">> \in known
            => op[r] \in {"remove", "reinstall"}
  BY DEF DeletersOK
<1>1. op'[r] \notin {"remove", "reinstall"} => todo'[r] \in {<<>>, <<op'[r]>>}
  <2>1. ASSUME NEW k \in Ops[r], Begin(r, k), k \notin {"remove", "reinstall"}
        PROVE  todo'[r] \in {<<>>, <<k>>} /\ op'[r] = k
    <3>1. \A c \in Chains(k) : c \in {<<>>, <<k>>}
      BY <2>1 DEF Chains
    <3>2. PICK c \in Chains(k) : todo' = [todo EXCEPT ![r] = c]
      BY <2>1 DEF Start, Begin
    <3>3. op'[r] = k
      BY <2>1 DEF Start, Begin, Inv, TypeOK
    <3> QED BY <3>1, <3>2, <3>3 DEF Inv, TypeOK
  <2>2. ASSUME NEW k \in Ops[r], Begin(r, k) PROVE op'[r] = k
    BY <2>2 DEF Start, Begin, Inv, TypeOK
  <2>3. ASSUME NEW why, Abandon(r, why) PROVE todo'[r] = <<>>
    BY <2>3, AbandonEffect DEF Inv, TypeOK
  <2>4. Reads(r) \/ Flag(r) \/ Save(r) \/ Send(r) \/ Close(r) => todo' = todo
    BY DEF Reads, Setting, Flag, Save, Send, Close
  <2>5. CheckAll(r) /\ Unfinished(r, Types) = {} => todo' = todo
    BY CheckAllPassed
  <2>6. Check(r) /\ Unfinished(r, Rivals(Head(todo[r]))) = {} => todo' = todo
    BY DEF Check
  <2>7. ASSUME SendFail(r) \/ Resave(r), todo[r] = <<op[r]>> PROVE todo'[r] = <<>>
    <3>1. todo'[r] = Tail(todo[r])
      BY <2>7 DEF SendFail, Resave, Go, Inv, TypeOK
    <3> QED BY <2>7, <3>1
  <2>8. SendFail(r) \/ Resave(r) => todo[r] # <<>>
    BY DEF SendFail, Resave, Inv, Shape
  <2>9. Start(r) /\ op'[r] \notin {"remove", "reinstall"} => todo'[r] \in {<<>>, <<op'[r]>>}
    BY <2>1, <2>2 DEF Start
  <2> QED BY <1>0, <2>3, <2>4, <2>5, <2>6, <2>7, <2>8, <2>9, Moves
<1>2. ASSUME pc[r] \in {"save", "send", "resave"}, Task(r) = Delete(r)
      PROVE  op[r] \in {"remove", "reinstall"}
  <2>1. todo[r] # <<>> /\ Head(todo[r]) = "delete"
    BY <1>2 DEF Inv, Shape, Task, Delete
  <2>2. op[r] # "delete"
    BY DEF Inv, TypeOK, Operations
  <2> QED BY <1>0, <2>1, <2>2
<1>3. ASSUME rows'[Delete(r)] # "none" \/ Delete(r) \in known'
      PROVE  op[r] \in {"remove", "reinstall"}
  <2>1. ASSUME rows[Delete(r)] = "none", rows'[Delete(r)] # "none"
        PROVE  op[r] \in {"remove", "reinstall"}
    <3>1. (Save(r) \/ Resave(r)) /\ Delete(r) = Task(r)
      BY <1>t, <2>1, RowsStep
    <3> QED BY <1>2, <3>1 DEF Save, Resave
  <2>2. ASSUME NEW q \in Requests, Send(q), Delete(r) = Task(q)
        PROVE  op[r] \in {"remove", "reinstall"}
    <3>1. q = r
      BY <2>2 DEF Task, Delete
    <3> QED BY <1>2, <2>2, <3>1 DEF Send
  <2>3. CASE rows[Delete(r)] # "none" \/ Delete(r) \in known
    BY <1>0, <1>t, <2>3
  <2>4. Delete(r) \in Visible => rows[Delete(r)] # "none"
    BY DEF Visible
  <2> QED BY <1>3, <1>t, <2>1, <2>2, <2>3, <2>4, DaemonEffect
<1>4. op[r] \in {"remove", "reinstall"} => op'[r] = op[r]
  BY Monotone
<1> QED BY <1>1, <1>3, <1>4, <1>t

\* Inside a transaction.
LEMMA TxStep == ASSUME Inv, Next, TypeOK', TxOK PROVE TxOK'
<1> SUFFICES ASSUME NEW r \in tx'
             PROVE  /\ \A y \in Types :
                          /\ rows'[<<r, y>>] \in {"none", "waiting"}
                          /\ <<r, y>> \in known' => rows'[<<r, y>>] = "waiting"
                    /\ pc'[r] \in {"send", "resave"} => rows'[Task(r)'] = "waiting"
                    /\ pc'[r] = "close" => rows'[<<r, "install">>] = "waiting"
  BY DEF TxOK
<1>r. r \in Requests
  BY DEF TypeOK
<1>t. \A y \in Types : <<r, y>> \in Tasks /\ <<r, y>>[1] = r
  BY <1>r DEF Tasks
<1>n. \A y \in Types : <<r, y>> \in known' /\ <<r, y>> \notin known =>
         \/ Send(r) /\ <<r, y>> = Task(r)
         \/ r \notin tx
  <2>1. ASSUME NEW y \in Types, NEW q \in Requests, <<r, y>> = Task(q) PROVE q = r
    BY <2>1 DEF Task
  <2> QED BY <1>t, <2>1, DaemonEffect DEF Visible
<1>1. CASE r \in tx
  <2>0. /\ \A y \in Types :
              /\ rows[<<r, y>>] \in {"none", "waiting"}
              /\ <<r, y>> \in known => rows[<<r, y>>] = "waiting"
        /\ pc[r] \in {"send", "resave"} => rows[Task(r)] = "waiting"
        /\ pc[r] = "close" => rows[<<r, "install">>] = "waiting"
        /\ op[r] = "reinstall" /\ pc[r] \notin {"checkall", "ended"}
    BY <1>1, <1>r DEF TxOK, Inv, Shape
  <2>1. \A y \in Types :
           \/ rows'[<<r, y>>] = rows[<<r, y>>]
           \/ (Save(r) \/ Resave(r)) /\ <<r, y>> = Task(r) /\ rows'[<<r, y>>] = "waiting"
    BY <1>1, <1>t, RowEffect
  <2>2. Send(r) => pc[r] = "send"
    BY DEF Send
  <2>3. \A y \in Types :
          /\ rows'[<<r, y>>] \in {"none", "waiting"}
          /\ <<r, y>> \in known' => rows'[<<r, y>>] = "waiting"
    BY <1>1, <1>n, <2>0, <2>1, <2>2
  <2>k. \A y \in Types : rows[<<r, y>>] = "waiting" => rows'[<<r, y>>] = "waiting"
    BY <2>1
  <2>h. pc[r] \in {"save", "send", "resave"} =>
           Head(todo[r]) \in Types /\ Task(r) = <<r, Head(todo[r])>>
    BY <1>r, TaskType DEF Inv, Shape, Task
  <2>4. pc'[r] \in {"send", "resave"} => rows'[Task(r)'] = "waiting"
    <3>1. ASSUME UNCHANGED <<pc[r], todo[r]>>, pc[r] \in {"send", "resave"}
          PROVE  rows'[Task(r)'] = "waiting"
      <4>1. Task(r)' = Task(r)
        BY <3>1 DEF Task
      <4> QED BY <2>0, <2>h, <2>k, <3>1, <4>1
    <3>2. ASSUME Save(r) PROVE rows'[Task(r)'] = "waiting"
      <4>1. Task(r)' = Task(r) /\ Task(r) \in Tasks
        BY <1>r, <1>t, <2>h, <3>2 DEF Save, Task
      <4> QED BY <3>2, <4>1 DEF Save, Inv, TypeOK
    <3>3. ASSUME Send(r) PROVE rows'[Task(r)'] = "waiting"
      <4>1. Task(r)' = Task(r) /\ rows' = rows
        BY <3>3 DEF Send, Task
      <4> QED BY <2>0, <2>2, <3>3, <4>1
    <3>4. \/ UNCHANGED <<pc[r], todo[r]>> \/ Save(r) \/ Send(r)
          \/ pc'[r] \notin {"send", "resave"}
      <4>1. Start(r) => \E k \in Ops[r] : pc'[r] = First(k)
        BY <1>r DEF Start, Begin, Inv, TypeOK
      <4>2. \A k : First(k) \notin {"send", "resave"}
        BY DEF First
      <4>3. Reads(r) \/ Flag(r) \/ Close(r) => pc'[r] \in {"flag", "check", "ended"}
        BY <1>r DEF Reads, Setting, Flag, Close, Inv, TypeOK
      <4>4. SendFail(r) \/ Resave(r) => pc'[r] \in {"close", "save", "check"}
        BY <1>r DEF SendFail, Resave, Go, Inv, TypeOK
      <4>5. CheckAll(r) => pc[r] = "checkall"
        BY DEF CheckAll
      <4>6. Check(r) /\ Unfinished(r, Rivals(Head(todo[r]))) = {} => pc'[r] = "save"
        BY <1>r DEF Check, Inv, TypeOK
      <4> QED BY <1>r, <2>0, <4>1, <4>2, <4>3, <4>4, <4>5, <4>6, Moves
    <3> QED BY <3>1, <3>2, <3>3, <3>4
  <2>5. pc'[r] = "close" => rows'[<<r, "install">>] = "waiting"
    <3>i. "install" \in Types
      BY DEF Types
    <3>1. CASE pc[r] = "close"
      BY <2>0, <2>k, <3>i, <3>1
    <3>2. ASSUME SendFail(r) \/ Resave(r), pc'[r] = "close"
          PROVE  rows'[<<r, "install">>] = "waiting"
      <4>1. pc[r] \in {"send", "resave"} /\ Tail(todo[r]) = <<>>
        BY <1>r, <3>2 DEF SendFail, Resave, Go, Inv, TypeOK
      <4>2. todo[r] \in {Whole, Rest, <<"install">>}
        BY <1>r, <2>0, <4>1 DEF Inv, Chain
      <4>3. Tail(Whole) # <<>> /\ Tail(Rest) # <<>> /\ Head(<<"install">>) = "install"
        BY DEF Whole, Rest
      <4>4. Task(r) = <<r, "install">>
        BY <2>h, <4>1, <4>2, <4>3
      <4> QED BY <2>0, <2>k, <3>i, <4>1, <4>4
    <3>3. \/ UNCHANGED pc[r] \/ SendFail(r) \/ Resave(r) \/ pc'[r] # "close"
      <4>1. Start(r) => \E k \in Ops[r] : pc'[r] = First(k)
        BY <1>r DEF Start, Begin, Inv, TypeOK
      <4>2. \A k : First(k) # "close"
        BY DEF First
      <4>3. Reads(r) \/ Flag(r) \/ Close(r) \/ Save(r) \/ Send(r) => pc'[r] # "close"
        BY <1>r DEF Reads, Setting, Flag, Close, Save, Send, Inv, TypeOK
      <4>4. CheckAll(r) => pc[r] = "checkall"
        BY DEF CheckAll
      <4>5. Check(r) /\ Unfinished(r, Rivals(Head(todo[r]))) = {} => pc'[r] = "save"
        BY <1>r DEF Check, Inv, TypeOK
      <4> QED BY <1>r, <2>0, <4>1, <4>2, <4>3, <4>4, <4>5, Moves
    <3> QED BY <3>1, <3>2, <3>3
  <2> QED BY <2>3, <2>4, <2>5
<1>2. CASE r \notin tx
  <2>1. CheckAll(r) /\ Unfinished(r, Types) = {} /\ op[r] = "reinstall"
    <3>1. ASSUME NEW q \in Requests, Own(q), ~CheckAll(q) PROVE tx' \subseteq tx
      BY <3>1 DEF Own, Start, Begin, Reads, Setting, Flag, Check, Refuse, Save, Send, SendFail,
                  Resave, Close, Fail, Abandon
    <3>2. ASSUME Elsewhere PROVE tx' = tx
      BY <3>2, ElsewhereEffect DEF Inv
    <3>3. ASSUME NEW q \in Requests, CheckAll(q)
          PROVE  \/ tx' \subseteq tx
                 \/ Unfinished(q, Types) = {} /\ op[q] = "reinstall" /\ tx' = tx \cup {q}
      BY <3>3 DEF CheckAll, Abandon
    <3> QED BY <1>2, <3>1, <3>2, <3>3, NextSplit
  <2>2. /\ pc[r] = "checkall" /\ rows' = rows /\ known' = known /\ pc'[r] = "check"
    BY <1>r, <2>1, CheckAllPassed DEF Inv, TypeOK, daemonVars
  <2> QED BY <1>r, <2>2 DEF Inv, Shape
<1> QED BY <1>1, <1>2

\* What excuses the loss of the files stays.
LEMMA ExcusedStays ==
    ASSUME Inv, Next, TypeOK', NEW r \in Requests, Excused(r) PROVE Excused(r)'
<1>1. op[r] # "none" => op'[r] = op[r]
  BY Monotone
<1>2. cut[r] # "no" => cut'[r] # "no"
  BY Moves
<1>3. Delete(r) \in resent => Delete(r) \in resent'
  BY Monotone
<1> QED BY <1>1, <1>2, <1>3 DEF Excused, Delete

\* An installation is owed until it has been carried out, or its request fails.
LEMMA OwesStays ==
    ASSUME Inv, Next, TypeOK', TxOK, NEW r \in Requests, Owes(r), cut'[r] = "no",
           ~DaemonFinish(Install(r))
    PROVE  Owes(r)'
<1>t. Install(r) \in Tasks /\ Install(r)[1] = r
  BY DEF Install, Tasks, Types
<1>0. /\ op[r] = "reinstall"
      /\ Install(r) \in known => Install(r) \in queue \cup running
      /\ <<Install(r), "success">> \notin inbox
      /\ Active(r) \/ rows[Install(r)] \in {"waiting", "working", "error", "canceled"}
  BY DEF Owes
<1>1. op'[r] = "reinstall"
  BY <1>0, Monotone
<1>2. /\ Install(r) \in known' => Install(r) \in queue' \cup running'
      /\ <<Install(r), "success">> \notin inbox'
  BY <1>0, <1>t, DaemonEffect
<1>3. CASE Active(r) /\ ~Active(r)'
  <2>1. Close(r)
    <3>1. Start(r) => pc[r] = "idle"
      BY DEF Start, Begin
    <3>2. Reads(r) \/ Flag(r) \/ Save(r) \/ Send(r) => pc'[r] \in {"flag", "check", "send", "resave"}
      BY DEF Reads, Setting, Flag, Save, Send, Inv, TypeOK
    <3>3. SendFail(r) \/ Resave(r) => pc'[r] \in {"close", "save", "check"}
      BY DEF SendFail, Resave, Go, Inv, TypeOK
    <3>4. CheckAll(r) /\ Unfinished(r, Types) = {} => pc'[r] \in {"close", "check"}
      BY CheckAllPassed DEF Inv, TypeOK
    <3>5. Check(r) /\ Unfinished(r, Rivals(Head(todo[r]))) = {} => pc'[r] = "save"
      BY DEF Check, Inv, TypeOK
    <3> QED BY <1>3, <3>1, <3>2, <3>3, <3>4, <3>5, Moves DEF Active
  <2>2. r \in tx /\ pc[r] = "close" /\ rows' = rows
    BY <1>0, <2>1 DEF Close, Inv, Shape
  <2>3. rows'[Install(r)] = "waiting"
    BY <2>2 DEF TxOK, Install
  <2> QED BY <1>1, <1>2, <2>3 DEF Owes, Install
<1>4. CASE ~Active(r)
  <2>1. r \notin tx
    BY <1>4, HiddenActive
  <2>2. ~Save(r) /\ ~Resave(r)
    BY <1>4 DEF Save, Resave, Active
  <2>3. \/ rows'[Install(r)] = rows[Install(r)]
        \/ rows'[Install(r)] \in {"working", "error", "canceled"}
    BY <1>0, <1>t, <2>1, <2>2, RowEffect
  <2>4. rows'[Install(r)] \in {"waiting", "working", "error", "canceled"}
    BY <1>0, <1>4, <2>3
  <2> QED BY <1>1, <1>2, <2>4 DEF Owes, Install
<1>5. CASE Active(r)'
  BY <1>1, <1>2, <1>5 DEF Owes, Install
<1> QED BY <1>3, <1>4, <1>5

\* The daemon does not begin with an installation before the deletion is done.
LEMMA DeleteFirstStep ==
    ASSUME Inv, Next, TypeOK', DeletersOK, TxOK, DeleteFirst PROVE DeleteFirst'
<1> SUFFICES ASSUME NEW r \in Requests, Delete(r) \in queue' \cup running', ~Excused(r)'
             PROVE  Owes(r)' /\ Install(r) \notin running'
  BY DEF DeleteFirst, Delete, Install
<1>e. ~Excused(r)
  BY ExcusedStays
<1>i. /\ Install(r) \in Tasks /\ Delete(r) \in Tasks /\ Install(r) # Delete(r)
      /\ Delete(r)[2] = "delete"
      /\ RunAfter(Install(r)) = Delete(r)
  BY DEF Install, Delete, Tasks, Types, RunAfter
<1>1. CASE Delete(r) \in queue \cup running
  <2>1. Owes(r) /\ Install(r) \notin running
    BY <1>1, <1>e DEF DeleteFirst
  <2>2. Install(r) \notin running'
    BY <1>1, <1>i, <2>1, DaemonEffect
  <2>3. op'[r] = "reinstall"
    BY <2>1, Monotone DEF Owes
  <2>4. cut'[r] = "no"
    BY <2>3 DEF Excused
  <2>5. ~DaemonFinish(Install(r))
    BY <2>1 DEF DaemonFinish
  <2> QED BY <2>1, <2>2, <2>4, <2>5, OwesStays
<1>2. CASE Delete(r) \notin queue \cup running
  <2>1. Delete(r) \notin resent'
    BY DEF Excused, Delete
  <2>2. PICK q \in Requests : Send(q) /\ Delete(r) = Task(q)
    BY <1>2, <1>i, <2>1, DaemonEffect
  <2>3. q = r /\ Head(todo[r]) = "delete"
    BY <2>2 DEF Task, Delete
  <2>4. pc[r] = "send" /\ todo[r] # <<>>
    BY <2>2, <2>3 DEF Send, Inv, Shape
  <2>5. op[r] = "reinstall"
    <3>1. op[r] # "delete"
      BY DEF Inv, TypeOK, Operations
    <3>2. op[r] \in {"remove", "reinstall"}
      <4>1. op[r] \notin {"remove", "reinstall"} => todo[r] = <<op[r]>>
        BY <2>4 DEF DeletersOK
      <4>2. Head(<<op[r]>>) = op[r]
        OBVIOUS
      <4> QED BY <2>3, <3>1, <4>1, <4>2
    <3> QED BY <1>e, <3>2 DEF Excused
  <2>6. r \in tx
    BY <2>4, <2>5 DEF Inv, Shape
  <2>7. rows[Install(r)] = "none"
    <3>1. Head(<<"install">>) = "install" /\ "install" \in Types
      BY DEF Types
    <3>2. todo[r] # <<"install">>
      BY <2>3, <3>1
    <3> QED BY <2>3, <2>4, <2>5, <3>1, <3>2 DEF Inv, Chain, Install
  <2>8. Install(r) \notin known
    BY <2>6, <2>7 DEF TxOK, Install, Types
  <2>9. Install(r) \notin running /\ <<Install(r), "success">> \notin inbox
    BY <2>8 DEF Inv, Placed
  <2>10. /\ running' = running /\ inbox' = inbox /\ op' = op /\ cut' = cut
         /\ pc'[r] = "resave"
    BY <2>2, <2>3 DEF Send, Inv, TypeOK, history
  <2>k. Install(r) \notin known'
    <3>1. known' \subseteq known \cup {Delete(r)}
      BY <2>2 DEF Send, Arrive
    <3> QED BY <1>i, <2>8, <3>1
  <2>11. cut[r] = "no"
    BY <2>4 DEF Inv, CutOK
  <2> QED BY <2>5, <2>9, <2>10, <2>11, <2>k DEF Owes, Active, Install
<1> QED BY <1>1, <1>2

\* Deleted files are owed.
LEMMA FilesStep ==
    ASSUME Inv, Next, TypeOK', TxOK, DeleteFirst, FilesOK PROVE FilesOK'
<1> SUFFICES ASSUME ~files' PROVE \E r \in Requests : Excused(r)' \/ Owes(r)'
  BY DEF FilesOK
<1>1. ASSUME NEW r \in Requests, Owes(r), ~DaemonFinish(Install(r))
      PROVE  Excused(r)' \/ Owes(r)'
  <2>1. op'[r] = "reinstall"
    BY <1>1, Monotone DEF Owes
  <2>2. CASE cut'[r] = "no"
    BY <1>1, <2>2, OwesStays
  <2>3. CASE cut'[r] # "no"
    BY <2>1, <2>3 DEF Excused
  <2> QED BY <2>2, <2>3
<1>2. ASSUME NEW r \in Requests PROVE ~DaemonFinish(Install(r))
  <2>1. Install(r)[2] = "install"
    BY DEF Install
  <2> QED BY <2>1 DEF DaemonFinish
<1>3. CASE ~files
  <2>1. PICK r \in Requests : Excused(r) \/ Owes(r)
    BY <1>3 DEF FilesOK
  <2> QED BY <1>1, <1>2, <2>1, ExcusedStays
<1>4. CASE files
  <2>1. PICK t \in Tasks : DaemonFinish(t)
    <3>1. ASSUME NEW r \in Requests, Own(r) PROVE files' = files
      BY <3>1 DEF Own, Start, Begin, Reads, Setting, Flag, CheckAll, Check, Refuse, Save, Send,
                  SendFail, Resave, Close, Fail, Abandon, daemonVars
    <3>2. ASSUME Saves PROVE files' = files
      BY <3>2, SavesEffect DEF Inv
    <3>3. ASSUME Panel PROVE files' = files
      BY <3>3 DEF Panel, CancelFind, Sweep, SendAck, FlushFind, FlushSend, daemonVars
    <3>4. ASSUME Daemon PROVE files' = files \/ \E t \in Tasks : DaemonFinish(t)
      BY <3>4 DEF Daemon, DaemonStart, Redeliver, Reconnect
    <3> QED BY <1>4, <3>1, <3>2, <3>3, <3>4, NextSplit DEF Elsewhere
  <2>2. t[2] = "delete" /\ t \in running
    BY <1>4, <2>1 DEF DaemonFinish
  <2>3. t[1] \in Requests /\ t = Delete(t[1])
    BY <2>2 DEF Tasks, Delete
  <2>4. Excused(t[1]) \/ Owes(t[1])
    BY <2>2, <2>3 DEF DeleteFirst
  <2> QED BY <1>1, <1>2, <2>3, <2>4, ExcusedStays
<1> QED BY <1>3, <1>4

\* What the files need of the rest.
FilesInv == DeletersOK /\ TxOK /\ DeleteFirst /\ FilesOK

\* Reinstall and the daemon's run_aft_id bring the files back, up to the
\* exceptions the property names.
THEOREM FilesReturn == Spec => []FilesComeBack
<1>1. Init => FilesInv
  BY DEF Init, FilesInv, DeletersOK, TxOK, DeleteFirst, FilesOK, Tasks, Types
<1>2. Inv /\ TypeOK' /\ FilesInv /\ [Next]_vars => FilesInv'
  <2>1. ASSUME Inv, TypeOK', FilesInv, Next PROVE FilesInv'
    BY <2>1, DeletersStep, TxStep, DeleteFirstStep, FilesStep DEF FilesInv
  <2>2. ASSUME FilesInv, UNCHANGED vars PROVE FilesInv'
    <3> USE <2>2 DEF vars, requestVars, daemonVars, copyVars, history, FilesInv
    <3>1. DeletersOK' /\ TxOK'
      BY DEF DeletersOK, TxOK, Task
    <3>2. \A r \in Requests : Excused(r)' = Excused(r) /\ Owes(r)' = Owes(r)
      BY DEF Excused, Owes, Delete, Install, Active
    <3>3. DeleteFirst'
      BY <3>2 DEF DeleteFirst, Delete, Install
    <3>4. FilesOK'
      BY <3>2 DEF FilesOK
    <3> QED BY <3>1, <3>3, <3>4
  <2> QED BY <2>1, <2>2
<1>3. FilesInv => FilesComeBack
  <2> SUFFICES ASSUME FilesInv, Settled, ~files
               PROVE  \E r \in Requests :
                         \/ op[r] = "remove"
                         \/ op[r] = "reinstall" /\ cut[r] # "no"
                         \/ rows[<<r, "install">>] \in {"error", "canceled"}
                         \/ <<r, "delete">> \in resent
    BY DEF FilesComeBack
  <2>1. PICK r \in Requests : Excused(r) \/ Owes(r)
    BY DEF FilesInv, FilesOK
  <2>2. CASE Excused(r)
    BY <2>2 DEF Excused, Delete
  <2>3. CASE Owes(r)
    <3>1. Install(r) \in Tasks
      BY DEF Install, Tasks, Types
    <3>2. rows[Install(r)] \in {"error", "canceled"}
      BY <2>3, <3>1 DEF Owes, Settled, Pending
    <3> QED BY <3>2 DEF Install
  <2> QED BY <2>1, <2>2, <2>3
<1>4. Inv => TypeOK
  BY DEF Inv
<1> QED BY <1>1, <1>2, <1>3, <1>4, SpecInv, PTL DEF Spec
=============================================================================
