-------------------------- MODULE SessionRegistry --------------------------
(***************************************************************************)
(* Where the sessions of one daemon are (internal/grpc/session/registry.go)*)
(* on several panel instances: the sessions an instance holds, what it has *)
(* heard of those of the others by pub/sub, and the observer of the        *)
(* sessions it holds. A daemon that reconnects may have an older session,  *)
(* here or elsewhere, whose end the panel has not yet noticed. Pub/sub may *)
(* lose events, deliver them again or out of order.                        *)
(***************************************************************************)
EXTENDS FiniteSets, Integers

CONSTANTS
    Instances,      \* panel instances
    None,           \* no instance
    MaxSessions,    \* bound: sessions of the daemon
    MaxFaults       \* bound: crashes, and publications and deliveries gone wrong

ASSUME RegistryAssumption ==
    /\ None \notin Instances
    /\ MaxSessions \in Nat /\ MaxFaults \in Nat

Sessions == 1 .. MaxSessions
NoSession == 0

VARIABLES
    sess,       \* every session: its instance, its handler, whether it is cancelled,
                \* whether it replaced one here; history: whether it found another
                \* one of the node that was not yet cleaned up
    last,       \* the newest session
    local,      \* localSessions: the session of the node, on every instance
    global,     \* globalNodes: who is believed to have the node
    bus,        \* session events an instance has yet to handle
    published,  \* the number of the last event
    online,     \* history: ONLINE less OFFLINE events of the instance's observer
    faults,     \* what has gone wrong so far
    crashed,    \* history: an instance has crashed
    lost,       \* history: the types of events that some instance never gets
    delayed     \* history: the types of events that are handled, once or again,
                \* after a later one

busVars == <<bus, published, faults, lost, delayed>>
vars == <<sess, last, local, global, online, crashed, busVars>>

Unused == [at |-> None, pc |-> "unused", cancelled |-> FALSE, reconnect |-> FALSE,
           overlaps |-> FALSE]

Init ==
    /\ sess = [n \in Sessions |-> Unused]
    /\ last = 0
    /\ local = [i \in Instances |-> NoSession]
    /\ global = [i \in Instances |-> None]
    /\ bus = [i \in Instances |-> {}]
    /\ published = 0
    /\ online = [i \in Instances |-> 0]
    /\ faults = 0
    /\ crashed = FALSE
    /\ lost = {} /\ delayed = {}

Fault == faults < MaxFaults /\ faults' = faults + 1

Goto(n, p) == sess' = [sess EXCEPT ![n].pc = p]

\* Publish fails, which is only logged, or reaches some or all instances.
Publish(type, i) ==
    \E heard \in SUBSET Instances :
        /\ published' = published + 1
        /\ bus' = [j \in Instances |->
                     IF j \in heard
                     THEN bus[j] \cup {[type |-> type, by |-> i, no |-> published + 1]}
                     ELSE bus[j]]
        /\ \/ heard = Instances /\ UNCHANGED <<faults, lost>>
           \/ heard # Instances /\ Fault /\ lost' = lost \cup {type}
        /\ UNCHANGED delayed

\* Some session of the node has not been cleaned up.
Unfinished == \E k \in Sessions : sess[k].pc \notin {"unused", "done"}

\* Mutant: the node is entered before the session it replaces is looked up.
Register_Early(i) ==
    LET n == last + 1 IN
    /\ n \in Sessions
    /\ last' = n
    /\ sess' = [sess EXCEPT ![n] = [at |-> i, pc |-> "registered", cancelled |-> TRUE,
                                   reconnect |-> TRUE, overlaps |-> Unfinished]]
    /\ local' = [local EXCEPT ![i] = n]
    /\ UNCHANGED <<global, online, crashed, busVars>>

\* Register, under the mutex: the session takes the place of an older one here.
Register(i) ==
    LET n == last + 1 IN
    /\ n \in Sessions
    /\ last' = n
    /\ sess' = [k \in Sessions |->
                  IF k = n THEN [at |-> i, pc |-> "registered", cancelled |-> FALSE,
                                 reconnect |-> local[i] # NoSession,
                                 overlaps |-> Unfinished]
                  ELSE IF k = local[i] THEN [sess[k] EXCEPT !.cancelled = TRUE]
                  ELSE sess[k]]
    /\ local' = [local EXCEPT ![i] = n]
    /\ UNCHANGED <<global, online, crashed, busVars>>

\* Mutant: the observer counts a reconnect as another node.
ObserveRegistered_Always(n) ==
    /\ sess[n].pc = "registered"
    /\ online' = [online EXCEPT ![sess[n].at] = @ + 1]
    /\ Goto(n, "observed")
    /\ UNCHANGED <<last, local, global, crashed, busVars>>

\* ... after the mutex: the observer, which is told of a reconnect, ...
ObserveRegistered(n) ==
    /\ sess[n].pc = "registered"
    /\ online' = [online EXCEPT ![sess[n].at] = IF sess[n].reconnect THEN @ ELSE @ + 1]
    /\ Goto(n, "observed")
    /\ UNCHANGED <<last, local, global, crashed, busVars>>

\* ... and the announcement.
PublishConnected(n) ==
    /\ sess[n].pc = "observed"
    /\ Publish("connected", sess[n].at)
    /\ Goto(n, "serving")
    /\ UNCHANGED <<last, local, global, online, crashed>>

\* handleMessages returns: the daemon is gone, or the session is cancelled.
SessionEnds(n) ==
    /\ sess[n].pc = "serving"
    /\ Goto(n, "leaving")
    /\ UNCHANGED <<last, local, global, online, crashed, busVars>>

\* Mutant: Unregister, by node.
UnregisterSession_ByNode(n) ==
    /\ sess[n].pc = "leaving"
    /\ local' = [local EXCEPT ![sess[n].at] = NoSession]
    /\ Goto(n, "left")
    /\ UNCHANGED <<last, global, online, crashed, busVars>>

\* UnregisterSession: only the session that is still the one of the node is taken
\* out, and only its end is reported.
UnregisterSession(n) ==
    /\ sess[n].pc = "leaving"
    /\ IF local[sess[n].at] = n
       THEN /\ local' = [local EXCEPT ![sess[n].at] = NoSession]
            /\ Goto(n, "left")
       ELSE /\ Goto(n, "done")
            /\ UNCHANGED local
    /\ UNCHANGED <<last, global, online, crashed, busVars>>

\* publishSessionClosed: the observer and the announcement.
ObserveUnregistered(n) ==
    /\ sess[n].pc = "left"
    /\ online' = [online EXCEPT ![sess[n].at] = @ - 1]
    /\ Goto(n, "closing")
    /\ UNCHANGED <<last, local, global, crashed, busVars>>

PublishClosed(n) ==
    /\ sess[n].pc = "closing"
    /\ Publish("closed", sess[n].at)
    /\ Goto(n, "done")
    /\ UNCHANGED <<last, local, global, online, crashed>>

\* Mutant: the end of a session on another instance is not looked at.
Heard_NoClosed(i, e) ==
    IF e.type = "connected" /\ e.by # i THEN e.by ELSE global[i]

\* Mutant: the comparison with the own instance is the wrong way round.
Heard_OwnOnly(i, e) ==
    CASE e.type = "connected" /\ e.by = i -> e.by
      [] e.type = "connected" /\ e.by # i -> global[i]
      [] e.type = "closed"                -> None

\* What an instance believes after an event: its own connections are left out,
\* and the end of a session is the end of the node, whoever held it.
Heard(i, e) ==
    CASE e.type = "connected" /\ e.by # i -> e.by
      [] e.type = "connected" /\ e.by = i -> global[i]
      [] e.type = "closed"                -> None

\* Events come in any order, and may come again.
HandleSessionEvent(i, e, again) ==
    /\ e \in bus[i]
    /\ global' = [global EXCEPT ![i] = Heard(i, e)]
    /\ bus' = [bus EXCEPT ![i] = IF again THEN @ ELSE @ \ {e}]
    /\ LET overtaken == {x \in bus[i] : x.no < e.no} IN
       /\ delayed' = delayed \cup {x.type : x \in overtaken}
       /\ IF again \/ overtaken # {} THEN Fault ELSE UNCHANGED faults
    /\ UNCHANGED <<sess, last, local, online, crashed, published, lost>>

\* The process of an instance ends and starts anew: nobody announces the end of
\* its sessions, and it learns nothing of the sessions of the others.
Crash(i) ==
    /\ Fault
    /\ crashed' = TRUE
    /\ sess' = [n \in Sessions |->
                  IF sess[n].at = i THEN [sess[n] EXCEPT !.pc = "done"] ELSE sess[n]]
    /\ local' = [local EXCEPT ![i] = NoSession]
    /\ global' = [global EXCEPT ![i] = None]
    /\ bus' = [bus EXCEPT ![i] = {}]
    /\ online' = [online EXCEPT ![i] = 0]
    /\ UNCHANGED <<last, published, lost, delayed>>
----------------------------------------------------------------------------
Handler(n) ==
    \/ ObserveRegistered(n) \/ PublishConnected(n) \/ SessionEnds(n)
    \/ UnregisterSession(n) \/ ObserveUnregistered(n) \/ PublishClosed(n)

Next ==
    \/ \E i \in Instances :
          \/ Register(i) \/ Crash(i)
          \/ \E e \in bus[i], again \in BOOLEAN : HandleSessionEvent(i, e, again)
    \/ \E n \in Sessions : Handler(n)

Spec == Init /\ [][Next]_vars
----------------------------------------------------------------------------
(* Properties *)

Types == {"connected", "closed"}
Events == [type : Types, by : Instances, no : Nat]

SessionRecords ==
    [at : Instances \cup {None},
     pc : {"unused", "registered", "observed", "serving", "leaving", "left", "closing",
           "done"},
     cancelled : BOOLEAN, reconnect : BOOLEAN, overlaps : BOOLEAN]

BusTypeOK ==
    /\ bus \in [Instances -> SUBSET Events]
    /\ published \in Nat
    /\ faults \in 0 .. MaxFaults
    /\ lost \subseteq Types /\ delayed \subseteq Types

TypeOK ==
    /\ sess \in [Sessions -> SessionRecords]
    /\ last \in 0 .. MaxSessions
    /\ local \in [Instances -> 0 .. MaxSessions]
    /\ global \in [Instances -> Instances \cup {None}]
    /\ online \in [Instances -> Int]
    /\ crashed \in BOOLEAN
    /\ BusTypeOK

Live(n) == sess[n].pc \in {"registered", "observed", "serving"} /\ ~sess[n].cancelled

\* A session that is being served, and that no newer one has replaced, can be
\* found: the late cleanup of an older session does not evict it
\* (UnregisterSession, registry.go:174).
LiveIsRegistered == \A n \in Sessions : Live(n) => local[sess[n].at] = n

\* A session the registry hands out has not been replaced, and its handler has not
\* passed its cleanup: at most one handler of the node goes on.
RegisteredIsLive ==
    \A i \in Instances :
        local[i] # NoSession =>
            /\ sess[local[i]].at = i
            /\ ~sess[local[i]].cancelled
            /\ sess[local[i]].pc \in {"registered", "observed", "serving", "leaving"}

\* "every transition is observed exactly once cluster-wide" (registry.go:38):
\* when all calls of the observer have been made, what they add up to is whether
\* the instance has a session of the node, whatever order they were made in.
ObservedOnce ==
    \A i \in Instances :
        (\A n \in Sessions : sess[n].at = i => sess[n].pc \notin {"registered", "left"})
        => online[i] = IF local[i] = NoSession THEN 0 ELSE 1

Quiet ==
    /\ \A i \in Instances : bus[i] = {}
    /\ \A n \in Sessions : sess[n].pc \in {"unused", "serving", "done"}

Connected == \E i \in Instances : local[i] # NoSession
IsConnectedAnywhere(i) == local[i] # NoSession \/ global[i] # None

\* When all has been announced and heard, a connected node is seen as such by
\* every instance: the reaper of any of them would fail the node's tasks
\* (reaper.go:19: "no daemon session exists for the node").
ConnectedIsSeen == Quiet /\ Connected => \A i \in Instances : IsConnectedAnywhere(i)

\* Nothing but an overlap of sessions, a crash, a connected event that was lost
\* or a closed event that came late makes a connected node invisible to an
\* instance. Closed events may be lost and connected events come late or twice.
SeenUnlessOverlap ==
    /\ ~crashed
    /\ \A n \in Sessions : ~sess[n].overlaps
    /\ "connected" \notin lost /\ "closed" \notin delayed
    => ConnectedIsSeen

\* Nothing but a crash, a closed event that was lost, a connected event that came
\* late, or a session that was replaced on its own instance and announced after
\* the end of its successor, leaves a node that is gone connected in a view, which
\* the reaper then skips for ever. Overlapping sessions on different instances do
\* not, nor do connected events that are lost or closed events that come late.
GoneUnlessReplaced ==
    /\ ~crashed
    /\ \A n \in Sessions : ~sess[n].reconnect
    /\ "closed" \notin lost /\ "connected" \notin delayed
    /\ Quiet /\ ~Connected
    => \A i \in Instances : ~IsConnectedAnywhere(i)
=============================================================================
