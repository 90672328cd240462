----------------------- MODULE SessionRegistry_proofs -----------------------
(***************************************************************************)
(* Proofs about SessionRegistry, for any number of instances, sessions and *)
(* faults, overlapping sessions included, and about GatewaySession, one of *)
(* these sessions from within.                                             *)
(***************************************************************************)
EXTENDS SessionRegistry, GatewaySession, FiniteSetTheorems, TLAPS

\* The sessions up to the last one have an instance; the others are unused.
Used ==
    \A n \in Sessions :
        IF n <= last THEN sess[n].at \in Instances
        ELSE sess[n].pc = "unused" /\ sess[n].at = None

\* Events are numbered in the order of their publication.
Numbered ==
    \A i \in Instances : \A e \in bus[i] :
        e.no <= published /\ \A x \in bus[i] : x.no = e.no => x = e

Inv == TypeOK /\ Used /\ LiveIsRegistered /\ RegisteredIsLive /\ Numbered

\* Init establishes the invariant.
LEMMA InitInv == Init => Inv
<1> SUFFICES ASSUME Init PROVE Inv
  OBVIOUS
<1> USE RegistryAssumption DEF Init, Unused, NoSession, Sessions
<1>0. Unused \in SessionRecords /\ BusTypeOK
  BY DEF SessionRecords, BusTypeOK
<1>1. TypeOK
  <2>1. crashed \in BOOLEAN
    OBVIOUS
  <2>2. sess \in [Sessions -> SessionRecords] /\ online \in [Instances -> Int]
    BY <1>0
  <2> QED BY <1>0, <2>1, <2>2 DEF TypeOK
<1>2. Used /\ LiveIsRegistered /\ RegisteredIsLive /\ Numbered
  BY DEF Used, LiveIsRegistered, RegisteredIsLive, Live, Numbered
<1> QED BY <1>1, <1>2 DEF Inv

\* What is not published, and a fault, in terms of the types.
LEMMA FaultType == ASSUME BusTypeOK, Fault PROVE faults' \in 0 .. MaxFaults
BY RegistryAssumption DEF BusTypeOK, Fault

LEMMA BusUnchanged ==
    ASSUME BusTypeOK, Numbered, UNCHANGED busVars PROVE BusTypeOK' /\ Numbered'
BY DEF busVars, BusTypeOK, Numbered

\* What is published is an event, the last one of every instance that gets it;
\* all get it unless an event of the type is known to be lost.
LEMMA PublishBus ==
    ASSUME Inv, NEW i \in Instances, NEW type \in Types, Publish(type, i)
    PROVE  /\ BusTypeOK' /\ Numbered'
           /\ UNCHANGED delayed /\ lost \subseteq lost'
           /\ \A j \in Instances : bus[j] \subseteq bus'[j]
           /\ \A j \in Instances : \A e \in bus'[j] \ bus[j] :
                 e = [type |-> type, by |-> i, no |-> published + 1]
           /\ type \notin lost' => \A j \in Instances :
                 [type |-> type, by |-> i, no |-> published + 1] \in bus'[j]
<1> DEFINE new == [type |-> type, by |-> i, no |-> published + 1]
<1>0. /\ bus \in [Instances -> SUBSET Events] /\ published \in Nat
      /\ lost \subseteq Types /\ delayed \subseteq Types /\ BusTypeOK /\ Numbered
  BY DEF Inv, TypeOK, BusTypeOK
<1>1. PICK heard \in SUBSET Instances :
        /\ published' = published + 1
        /\ bus' = [j \in Instances |-> IF j \in heard THEN bus[j] \cup {new} ELSE bus[j]]
        /\ \/ heard = Instances /\ UNCHANGED <<faults, lost>>
           \/ heard # Instances /\ Fault /\ lost' = lost \cup {type}
        /\ UNCHANGED delayed
  BY DEF Publish
<1>2. new \in Events /\ new.no = published + 1
  BY <1>0 DEF Events
<1> HIDE DEF new
<1>3. \A j \in Instances : bus'[j] \in SUBSET Events
  BY <1>0, <1>1, <1>2
<1>4. bus' \in [Instances -> SUBSET Events]
  BY <1>1, <1>3
<1>5. faults' \in 0 .. MaxFaults /\ lost' \subseteq Types /\ lost \subseteq lost'
  BY <1>0, <1>1, FaultType DEF BusTypeOK
<1>6. BusTypeOK'
  BY <1>0, <1>1, <1>4, <1>5 DEF BusTypeOK
<1>7. \A j \in Instances : \A e \in bus'[j] : e \in bus[j] \/ e = new
  BY <1>1
<1>8. \A j \in Instances : \A e \in bus[j] : e.no \in Nat /\ e.no <= published
  BY <1>0 DEF Numbered, Events
<1>9. Numbered'
  BY <1>0, <1>1, <1>2, <1>7, <1>8 DEF Numbered
<1>10. /\ \A j \in Instances : bus[j] \subseteq bus'[j]
       /\ \A j \in Instances : \A e \in bus'[j] \ bus[j] : e = new
  BY <1>1, <1>7
<1>11. type \notin lost' => \A j \in Instances : new \in bus'[j]
  BY <1>1
<1> QED BY <1>1, <1>5, <1>6, <1>9, <1>10, <1>11 DEF new

\* A handler that goes on without touching the registry.
LEMMA GotoInv ==
    ASSUME Inv, NEW n \in Sessions,
           NEW p \in {"observed", "serving", "leaving", "closing", "done"},
           Goto(n, p),
           sess[n].pc \in {"registered", "observed", "serving", "left", "closing"},
           p \in {"observed", "serving"} =>
               sess[n].pc \in {"registered", "observed", "serving"},
           p = "leaving" => sess[n].pc = "serving",
           p \in {"closing", "done"} => sess[n].pc \in {"left", "closing"},
           UNCHANGED <<last, local, global, crashed>>,
           online' \in [Instances -> Int],
           BusTypeOK', Numbered'
    PROVE  Inv'
<1>0. [sess[n] EXCEPT !.pc = p] \in SessionRecords
  <2>1. sess[n] \in SessionRecords
    BY DEF Inv, TypeOK
  <2> QED BY <2>1 DEF SessionRecords
<1>1. /\ sess' = [sess EXCEPT ![n].pc = p]
      /\ sess' \in [Sessions -> SessionRecords]
  BY <1>0 DEF Goto, Inv, TypeOK
<1>2. TypeOK'
  BY <1>1 DEF Inv, TypeOK
<1>3. \A k \in Sessions :
         /\ sess'[k].at = sess[k].at /\ sess'[k].cancelled = sess[k].cancelled
         /\ k # n => sess'[k].pc = sess[k].pc
         /\ k = n => sess'[k].pc = p
  BY <1>1 DEF Inv, TypeOK, SessionRecords
<1>4. Used'
  BY <1>3 DEF Inv, Used
<1>5. LiveIsRegistered'
  BY <1>3 DEF Inv, LiveIsRegistered, Live
<1>6. RegisteredIsLive'
  <2> SUFFICES ASSUME NEW i \in Instances, local[i] # NoSession
               PROVE  /\ sess'[local[i]].at = i
                      /\ ~sess'[local[i]].cancelled
                      /\ sess'[local[i]].pc \in {"registered", "observed", "serving",
                                                 "leaving"}
    BY DEF RegisteredIsLive
  <2>1. local[i] \in Sessions
    BY RegistryAssumption DEF Inv, TypeOK, Sessions, NoSession
  <2>2. /\ sess[local[i]].at = i
        /\ ~sess[local[i]].cancelled
        /\ sess[local[i]].pc \in {"registered", "observed", "serving", "leaving"}
    BY DEF Inv, RegisteredIsLive
  <2> QED BY <2>1, <2>2, <1>3
<1> QED BY <1>2, <1>4, <1>5, <1>6 DEF Inv

\* Register preserves the invariant.
LEMMA RegisterInv == ASSUME Inv, NEW i \in Instances, Register(i) PROVE Inv'
<1> DEFINE n == last + 1
<1>0. n \in Sessions /\ last \in Nat /\ MaxSessions \in Nat
  BY RegistryAssumption DEF Register, Inv, TypeOK, Sessions
<1>1. /\ last' = n
      /\ local' = [local EXCEPT ![i] = n]
      /\ sess' = [k \in Sessions |->
                  IF k = n THEN [at |-> i, pc |-> "registered", cancelled |-> FALSE,
                                 reconnect |-> local[i] # NoSession,
                                 overlaps |-> Unfinished]
                  ELSE IF k = local[i] THEN [sess[k] EXCEPT !.cancelled = TRUE]
                  ELSE sess[k]]
      /\ UNCHANGED <<global, online, crashed, busVars>>
  BY DEF Register
<1>b. BusTypeOK' /\ Numbered'
  BY <1>1, BusUnchanged DEF Inv, TypeOK
<1>2. TypeOK'
  <2>1. last' \in 0 .. MaxSessions /\ local' \in [Instances -> 0 .. MaxSessions]
    BY <1>0, <1>1 DEF Inv, TypeOK, Sessions
  <2>2. (local[i] # NoSession) \in BOOLEAN /\ Unfinished \in BOOLEAN
    BY DEF Unfinished
  <2>3. \A k \in Sessions : sess'[k] \in SessionRecords
    <3> SUFFICES ASSUME NEW k \in Sessions PROVE sess'[k] \in SessionRecords
      OBVIOUS
    <3>1. sess[k] \in SessionRecords
      BY DEF Inv, TypeOK
    <3>2. [sess[k] EXCEPT !.cancelled = TRUE] \in SessionRecords
      BY <3>1 DEF SessionRecords
    <3>3. [at |-> i, pc |-> "registered", cancelled |-> FALSE,
           reconnect |-> local[i] # NoSession, overlaps |-> Unfinished]
             \in SessionRecords
      BY <2>2 DEF SessionRecords
    <3> QED BY <1>1, <3>1, <3>2, <3>3
  <2>4. sess' \in [Sessions -> SessionRecords]
    BY <1>1, <2>3
  <2> QED BY <1>1, <1>b, <2>1, <2>4 DEF Inv, TypeOK
<1>3. /\ sess'[n].at = i /\ sess'[n].pc = "registered" /\ sess'[n].cancelled = FALSE
      /\ \A k \in Sessions \ {n} :
            /\ sess'[k].at = sess[k].at /\ sess'[k].pc = sess[k].pc
            /\ k # local[i] => sess'[k].cancelled = sess[k].cancelled
            /\ k = local[i] => sess'[k].cancelled
  BY <1>0, <1>1 DEF Inv, TypeOK, SessionRecords
<1>4. Used'
  <2> SUFFICES ASSUME NEW k \in Sessions
               PROVE  IF k <= n THEN sess'[k].at \in Instances
                      ELSE sess'[k].pc = "unused" /\ sess'[k].at = None
    BY <1>1 DEF Used
  <2>1. CASE k = n
    BY <2>1, <1>3, <1>0
  <2>2. CASE k # n
    BY <2>2, <1>3, <1>0 DEF Inv, Used, Sessions
  <2> QED BY <2>1, <2>2
<1>5. LiveIsRegistered'
  <2> SUFFICES ASSUME NEW k \in Sessions, Live(k)'
               PROVE  local'[sess'[k].at] = k
    BY DEF LiveIsRegistered
  <2>0. local \in [Instances -> 0 .. MaxSessions]
    BY DEF Inv, TypeOK
  <2>1. CASE k = n
    BY <2>1, <2>0, <1>1, <1>3
  <2>2. CASE k # n
    <3>1. Live(k) /\ k # local[i] /\ sess'[k].at = sess[k].at
      BY <2>2, <1>3 DEF Live
    <3>2. local[sess[k].at] = k /\ sess[k].at # i
      BY <3>1 DEF Inv, LiveIsRegistered
    <3> QED BY <3>1, <3>2, <2>0, <1>1
  <2> QED BY <2>1, <2>2
<1>6. RegisteredIsLive'
  <2> SUFFICES ASSUME NEW j \in Instances, local'[j] # NoSession
               PROVE  /\ sess'[local'[j]].at = j
                      /\ ~sess'[local'[j]].cancelled
                      /\ sess'[local'[j]].pc \in {"registered", "observed", "serving",
                                                  "leaving"}
    BY DEF RegisteredIsLive
  <2>0. local \in [Instances -> 0 .. MaxSessions]
    BY DEF Inv, TypeOK
  <2>1. CASE j = i
    BY <2>1, <2>0, <1>1, <1>3
  <2>2. CASE j # i
    <3>1. local'[j] = local[j] /\ local[j] \in Sessions
      BY <2>0, <2>2, <1>0, <1>1 DEF Sessions, NoSession
    <3>2. /\ sess[local[j]].at = j /\ ~sess[local[j]].cancelled
          /\ sess[local[j]].pc \in {"registered", "observed", "serving", "leaving"}
      BY <3>1 DEF Inv, RegisteredIsLive
    <3>3. local[j] # n
      BY <3>1, <3>2, <1>0 DEF Inv, Used
    <3>4. local[j] # local[i]
      BY <3>1, <3>2, <2>2 DEF Inv, RegisteredIsLive
    <3> QED BY <3>1, <3>2, <3>3, <3>4, <1>3
  <2> QED BY <2>1, <2>2
<1> QED BY <1>b, <1>2, <1>4, <1>5, <1>6 DEF Inv

\* UnregisterSession preserves the invariant: the session it takes out is its own.
LEMMA UnregisterInv ==
    ASSUME Inv, NEW n \in Sessions, UnregisterSession(n)
    PROVE  Inv'
<1> DEFINE i == sess[n].at
<1>0. i \in Instances /\ local \in [Instances -> 0 .. MaxSessions]
  BY RegistryAssumption DEF Inv, TypeOK, Used, UnregisterSession
<1>1. PICK p \in {"left", "done"} :
        /\ Goto(n, p)
        /\ local' = IF local[i] = n THEN [local EXCEPT ![i] = NoSession] ELSE local
        /\ sess[n].pc = "leaving"
        /\ UNCHANGED <<last, global, online, crashed, busVars>>
  BY DEF UnregisterSession
<1>2. \A k \in Sessions :
         /\ sess'[k].at = sess[k].at /\ sess'[k].cancelled = sess[k].cancelled
         /\ k # n => sess'[k].pc = sess[k].pc
         /\ k = n => sess'[k].pc = p
  BY <1>1 DEF Goto, Inv, TypeOK, SessionRecords
<1>b. BusTypeOK' /\ Numbered'
  BY <1>1, BusUnchanged DEF Inv, TypeOK
<1>3. TypeOK'
  <2>0. [sess[n] EXCEPT !.pc = p] \in SessionRecords
    BY DEF Inv, TypeOK, SessionRecords
  <2>1. sess' \in [Sessions -> SessionRecords]
    BY <1>1, <2>0 DEF Goto, Inv, TypeOK
  <2>2. local' \in [Instances -> 0 .. MaxSessions]
    BY <1>0, <1>1, RegistryAssumption DEF NoSession
  <2> QED BY <1>1, <1>b, <2>1, <2>2 DEF Inv, TypeOK
<1>4. Used'
  BY <1>1, <1>2 DEF Inv, Used
<1>5. LiveIsRegistered'
  <2> SUFFICES ASSUME NEW k \in Sessions, Live(k)'
               PROVE  local'[sess'[k].at] = k
    BY DEF LiveIsRegistered
  <2>1. k # n /\ Live(k)
    BY <1>1, <1>2 DEF Live
  <2>2. local[sess[k].at] = k
    BY <2>1 DEF Inv, LiveIsRegistered
  <2>3. sess[k].at \in Instances
    BY <2>1 DEF Inv, Used, Live
  <2> QED BY <2>1, <2>2, <2>3, <1>0, <1>1, <1>2
<1>6. RegisteredIsLive'
  <2> SUFFICES ASSUME NEW j \in Instances, local'[j] # NoSession
               PROVE  /\ sess'[local'[j]].at = j
                      /\ ~sess'[local'[j]].cancelled
                      /\ sess'[local'[j]].pc \in {"registered", "observed", "serving",
                                                  "leaving"}
    BY DEF RegisteredIsLive
  <2>1. local'[j] = local[j] /\ local[j] # NoSession
    BY <1>0, <1>1
  <2>2. local[j] \in Sessions
    BY <2>1, <1>0, RegistryAssumption DEF Sessions, NoSession
  <2>3. /\ sess[local[j]].at = j /\ ~sess[local[j]].cancelled
        /\ sess[local[j]].pc \in {"registered", "observed", "serving", "leaving"}
    BY <2>1 DEF Inv, RegisteredIsLive
  <2>4. local[j] # n
    BY <2>1, <2>3, <1>0, <1>1
  <2> QED BY <2>1, <2>2, <2>3, <2>4, <1>2
<1> QED BY <1>b, <1>3, <1>4, <1>5, <1>6 DEF Inv

\* A crash takes the sessions of one instance and leaves those of the others.
LEMMA CrashInv == ASSUME Inv, NEW i \in Instances, Crash(i) PROVE Inv'
<1>0. local \in [Instances -> 0 .. MaxSessions] /\ MaxSessions \in Nat
  BY RegistryAssumption DEF Inv, TypeOK
<1>1. /\ Fault /\ crashed' = TRUE
      /\ sess' = [n \in Sessions |->
                    IF sess[n].at = i THEN [sess[n] EXCEPT !.pc = "done"] ELSE sess[n]]
      /\ local' = [local EXCEPT ![i] = NoSession]
      /\ global' = [global EXCEPT ![i] = None]
      /\ bus' = [bus EXCEPT ![i] = {}]
      /\ online' = [online EXCEPT ![i] = 0]
      /\ UNCHANGED <<last, published, lost, delayed>>
  BY DEF Crash
<1>b. BusTypeOK' /\ Numbered'
  <2>1. BusTypeOK /\ Numbered
    BY DEF Inv, TypeOK
  <2>2. faults' \in 0 .. MaxFaults
    BY <1>1, <2>1, FaultType
  <2> QED BY <1>1, <2>1, <2>2 DEF BusTypeOK, Numbered
<1>2. TypeOK'
  <2>1. \A n \in Sessions : sess'[n] \in SessionRecords
    <3> SUFFICES ASSUME NEW n \in Sessions PROVE sess'[n] \in SessionRecords
      OBVIOUS
    <3>1. sess[n] \in SessionRecords
      BY DEF Inv, TypeOK
    <3>2. [sess[n] EXCEPT !.pc = "done"] \in SessionRecords
      BY <3>1 DEF SessionRecords
    <3> QED BY <1>1, <3>1, <3>2
  <2>2. sess' \in [Sessions -> SessionRecords]
    BY <1>1, <2>1
  <2>4. online' \in [Instances -> Int] /\ global' \in [Instances -> Instances \cup {None}]
    BY <1>1 DEF Inv, TypeOK
  <2>5. local' \in [Instances -> 0 .. MaxSessions]
    BY <1>0, <1>1 DEF NoSession
  <2> QED BY <1>1, <1>b, <2>2, <2>4, <2>5, RegistryAssumption DEF Inv, TypeOK
<1>3. \A k \in Sessions :
         /\ sess'[k].at = sess[k].at /\ sess'[k].cancelled = sess[k].cancelled
         /\ sess[k].at # i => sess'[k].pc = sess[k].pc
         /\ sess[k].at = i => sess'[k].pc = "done"
  BY <1>1 DEF Inv, TypeOK, SessionRecords
<1>4. Used'
  <2> SUFFICES ASSUME NEW k \in Sessions
               PROVE  IF k <= last THEN sess'[k].at \in Instances
                      ELSE sess'[k].pc = "unused" /\ sess'[k].at = None
    BY <1>1 DEF Used
  <2> QED BY <1>3, RegistryAssumption DEF Inv, Used
<1>5. LiveIsRegistered'
  BY <1>0, <1>1, <1>3 DEF Inv, LiveIsRegistered, Live
<1>6. RegisteredIsLive'
  <2> SUFFICES ASSUME NEW j \in Instances, local'[j] # NoSession
               PROVE  /\ sess'[local'[j]].at = j
                      /\ ~sess'[local'[j]].cancelled
                      /\ sess'[local'[j]].pc \in {"registered", "observed", "serving",
                                                  "leaving"}
    BY DEF RegisteredIsLive
  <2>1. j # i /\ local'[j] = local[j] /\ local[j] \in Sessions
    BY <1>0, <1>1 DEF Sessions, NoSession
  <2> QED BY <2>1, <1>3 DEF Inv, RegisteredIsLive
<1> QED BY <1>b, <1>2, <1>4, <1>5, <1>6 DEF Inv

\* Every step of a handler preserves the invariant.
LEMMA HandlerInv == ASSUME Inv, NEW n \in Sessions, Handler(n) PROVE Inv'
<1>0. /\ sess[n].pc # "unused" => sess[n].at \in Instances
      /\ online \in [Instances -> Int]
      /\ TypeOK /\ BusTypeOK /\ Numbered
  BY DEF Inv, Used, TypeOK
<1>1. CASE ObserveRegistered(n)
  <2>1. online' \in [Instances -> Int]
    BY <1>0, <1>1 DEF ObserveRegistered
  <2> QED BY <1>0, <1>1, <2>1, GotoInv, BusUnchanged DEF ObserveRegistered
<1>2. CASE PublishConnected(n)
  <2>1. BusTypeOK' /\ Numbered'
    BY <1>0, <1>2, PublishBus DEF PublishConnected, Types
  <2> QED BY <1>0, <1>2, <2>1, GotoInv DEF PublishConnected
<1>3. CASE SessionEnds(n)
  BY <1>0, <1>3, GotoInv, BusUnchanged DEF SessionEnds
<1>4. CASE UnregisterSession(n)
  BY <1>4, UnregisterInv
<1>5. CASE ObserveUnregistered(n)
  <2>1. online' \in [Instances -> Int]
    BY <1>0, <1>5 DEF ObserveUnregistered
  <2> QED BY <1>0, <1>5, <2>1, GotoInv, BusUnchanged DEF ObserveUnregistered
<1>6. CASE PublishClosed(n)
  <2>1. BusTypeOK' /\ Numbered'
    BY <1>0, <1>6, PublishBus DEF PublishClosed, Types
  <2> QED BY <1>0, <1>6, <2>1, GotoInv DEF PublishClosed
<1> QED BY <1>1, <1>2, <1>3, <1>4, <1>5, <1>6 DEF Handler

\* Events change what is believed of the others only.
LEMMA EventInv ==
    ASSUME Inv, NEW i \in Instances, NEW e \in bus[i], NEW again \in BOOLEAN,
           HandleSessionEvent(i, e, again)
    PROVE  Inv'
<1>0. BusTypeOK /\ Numbered /\ bus \in [Instances -> SUBSET Events] /\ e \in Events
  BY DEF Inv, TypeOK, BusTypeOK
<1>1. /\ bus' = [bus EXCEPT ![i] = IF again THEN bus[i] ELSE bus[i] \ {e}]
      /\ delayed' = delayed \cup {x.type : x \in {y \in bus[i] : y.no < e.no}}
      /\ UNCHANGED <<sess, last, local, online, crashed, published, lost>>
      /\ Fault \/ UNCHANGED faults
      /\ global' = [global EXCEPT ![i] = Heard(i, e)]
  BY DEF HandleSessionEvent
<1>2. Heard(i, e) \in Instances \cup {None}
  BY <1>0 DEF Heard, Events, Types, Inv, TypeOK
<1>3. \A j \in Instances : bus'[j] \subseteq bus[j]
  BY <1>0, <1>1
<1>4. delayed' \subseteq Types
  <2>1. \A x \in bus[i] : x.type \in Types
    BY <1>0 DEF Events
  <2> QED BY <1>0, <1>1, <2>1 DEF BusTypeOK
<1>5. faults' \in 0 .. MaxFaults
  BY <1>0, <1>1, FaultType DEF BusTypeOK
<1>6. BusTypeOK'
  <2>1. bus' \in [Instances -> SUBSET Events]
    BY <1>0, <1>1
  <2> QED BY <1>0, <1>1, <1>4, <1>5, <2>1 DEF BusTypeOK
<1>7. Numbered'
  BY <1>0, <1>1, <1>3 DEF Numbered
<1>8. TypeOK'
  BY <1>1, <1>2, <1>6 DEF Inv, TypeOK
<1>9. Used' /\ LiveIsRegistered' /\ RegisteredIsLive'
  BY <1>1 DEF Inv, Used, LiveIsRegistered, RegisteredIsLive, Live
<1> QED BY <1>7, <1>8, <1>9 DEF Inv

\* The invariant always holds.
LEMMA SpecInv == Spec => []Inv
<1>1. ASSUME Inv, [Next]_vars PROVE Inv'
  <2>1. CASE UNCHANGED vars
    <3>1. BusTypeOK' /\ Numbered'
      BY <1>1, <2>1, BusUnchanged DEF vars, Inv, TypeOK
    <3>2. UNCHANGED <<sess, last, local, global, online, crashed>>
      BY <2>1 DEF vars
    <3> QED BY <1>1, <3>1, <3>2 DEF Inv, TypeOK, Used, LiveIsRegistered, RegisteredIsLive, Live
  <2> QED BY <1>1, <2>1, RegisterInv, EventInv, CrashInv, HandlerInv DEF Next
<1> QED BY <1>1, InitInv, PTL DEF Spec

\* The cleanup of a superseded session never evicts its successor.
THEOREM NoEviction == Spec => []LiveIsRegistered
<1>1. Inv => LiveIsRegistered
  BY DEF Inv
<1> QED BY <1>1, SpecInv, PTL

\* GetSession never hands out a session that was replaced or cleaned up.
THEOREM NoStaleSession == Spec => []RegisteredIsLive
<1>1. Inv => RegisteredIsLive
  BY DEF Inv
<1> QED BY <1>1, SpecInv, PTL

\* Sessions of instance i whose registration, or whose end, the observer has not
\* been told of.
Ups(i) == {n \in Sessions : sess[n].at = i /\ sess[n].pc = "registered" /\ ~sess[n].reconnect}
Downs(i) == {n \in Sessions : sess[n].at = i /\ sess[n].pc = "left"}

\* Told and untold calls of the observer add up to what the registry holds.
Balance ==
    \A i \in Instances :
        online[i] + Cardinality(Ups(i)) - Cardinality(Downs(i))
           = IF local[i] = NoSession THEN 0 ELSE 1

\* The sessions that are counted are finitely many.
LEMMA Counted ==
    ASSUME NEW i \in Instances
    PROVE  /\ IsFiniteSet(Ups(i)) /\ Cardinality(Ups(i)) \in Nat
           /\ IsFiniteSet(Downs(i)) /\ Cardinality(Downs(i)) \in Nat
<1>1. IsFiniteSet(Sessions)
  BY FS_Interval, RegistryAssumption DEF Sessions
<1>2. Ups(i) \subseteq Sessions /\ Downs(i) \subseteq Sessions
  BY DEF Ups, Downs
<1> QED BY <1>1, <1>2, FS_Subset, FS_CardinalityType

\* What a step that moves the handler of one session does to the counted sets.
LEMMA GotoCount ==
    ASSUME Inv, NEW n \in Sessions, NEW p, Goto(n, p), NEW i \in Instances
    PROVE  /\ Ups(i)' = {k \in Sessions : /\ sess[k].at = i /\ ~sess[k].reconnect
                                           /\ (IF k = n THEN p ELSE sess[k].pc) = "registered"}
           /\ Downs(i)' = {k \in Sessions : /\ sess[k].at = i
                                             /\ (IF k = n THEN p ELSE sess[k].pc) = "left"}
<1>1. \A k \in Sessions :
         /\ sess'[k].at = sess[k].at /\ sess'[k].reconnect = sess[k].reconnect
         /\ sess'[k].pc = IF k = n THEN p ELSE sess[k].pc
  BY DEF Goto, Inv, TypeOK, SessionRecords
<1> QED BY <1>1 DEF Ups, Downs

\* Handlers keep the balance.
LEMMA HandlerBalance ==
    ASSUME Inv, Balance, NEW n \in Sessions, Handler(n) PROVE Balance'
<1> SUFFICES ASSUME NEW i \in Instances
             PROVE  online'[i] + Cardinality(Ups(i)') - Cardinality(Downs(i)')
                       = IF local'[i] = NoSession THEN 0 ELSE 1
  BY DEF Balance
<1>0. /\ online[i] + Cardinality(Ups(i)) - Cardinality(Downs(i))
            = IF local[i] = NoSession THEN 0 ELSE 1
      /\ online \in [Instances -> Int] /\ local \in [Instances -> 0 .. MaxSessions]
      /\ sess[n].pc # "unused" => sess[n].at \in Instances
  BY DEF Balance, Inv, TypeOK, Used
<1>c. /\ IsFiniteSet(Ups(i)) /\ Cardinality(Ups(i)) \in Nat
      /\ IsFiniteSet(Downs(i)) /\ Cardinality(Downs(i)) \in Nat
  BY Counted
<1>1. CASE ObserveRegistered(n)
  <2>1. Ups(i)' = Ups(i) \ {n} /\ Downs(i)' = Downs(i)
    BY <1>1, GotoCount DEF ObserveRegistered, Ups, Downs
  <2>2. CASE n \in Ups(i)
    <3>1. Cardinality(Ups(i)') = Cardinality(Ups(i)) - 1
      BY <2>1, <2>2, <1>c, FS_RemoveElement
    <3>2. online'[i] = online[i] + 1 /\ local' = local
      BY <1>0, <1>1, <2>2 DEF ObserveRegistered, Ups
    <3> QED BY <1>0, <1>c, <2>1, <3>1, <3>2
  <2>3. CASE n \notin Ups(i)
    <3>1. Ups(i)' = Ups(i)
      BY <2>1, <2>3
    <3>2. online'[i] = online[i] /\ local' = local
      BY <1>0, <1>1, <2>3 DEF ObserveRegistered, Ups
    <3> QED BY <1>0, <2>1, <3>1, <3>2
  <2> QED BY <2>2, <2>3
<1>2. CASE PublishConnected(n) \/ SessionEnds(n) \/ PublishClosed(n)
  <2>1. Ups(i)' = Ups(i) /\ Downs(i)' = Downs(i)
    BY <1>2, GotoCount DEF PublishConnected, SessionEnds, PublishClosed, Ups, Downs
  <2>2. online' = online /\ local' = local
    BY <1>2 DEF PublishConnected, SessionEnds, PublishClosed
  <2> QED BY <1>0, <2>1, <2>2
<1>3. CASE UnregisterSession(n)
  <2>1. CASE local[sess[n].at] = n /\ sess[n].at = i
    <3>1. Ups(i)' = Ups(i) /\ Downs(i)' = Downs(i) \cup {n} /\ n \notin Downs(i)
      BY <1>3, <2>1, GotoCount DEF UnregisterSession, Ups, Downs
    <3>2. Cardinality(Downs(i)') = Cardinality(Downs(i)) + 1
      BY <3>1, <1>c, FS_AddElement
    <3>3. online' = online /\ local'[i] = NoSession /\ local[i] # NoSession
      BY <1>0, <1>3, <2>1 DEF UnregisterSession, NoSession, Sessions
    <3> QED BY <1>0, <1>c, <3>1, <3>2, <3>3
  <2>2. CASE ~(local[sess[n].at] = n /\ sess[n].at = i)
    <3>1. Ups(i)' = Ups(i) /\ Downs(i)' = Downs(i)
      BY <1>3, <2>2, GotoCount DEF UnregisterSession, Ups, Downs
    <3>2. online' = online /\ local'[i] = local[i]
      BY <1>0, <1>3, <2>2 DEF UnregisterSession
    <3> QED BY <1>0, <3>1, <3>2
  <2> QED BY <2>1, <2>2
<1>4. CASE ObserveUnregistered(n)
  <2>1. Ups(i)' = Ups(i) /\ Downs(i)' = Downs(i) \ {n}
    BY <1>4, GotoCount DEF ObserveUnregistered, Ups, Downs
  <2>2. CASE sess[n].at = i
    <3>1. Cardinality(Downs(i)') = Cardinality(Downs(i)) - 1
      BY <1>4, <2>1, <2>2, <1>c, FS_RemoveElement DEF Downs, ObserveUnregistered
    <3>2. online'[i] = online[i] - 1 /\ local' = local
      BY <1>0, <1>4, <2>2 DEF ObserveUnregistered
    <3> QED BY <1>0, <1>c, <2>1, <3>1, <3>2
  <2>3. CASE sess[n].at # i
    <3>1. Downs(i)' = Downs(i)
      BY <2>1, <2>3 DEF Downs
    <3>2. online'[i] = online[i] /\ local' = local
      BY <1>0, <1>4, <2>3 DEF ObserveUnregistered
    <3> QED BY <1>0, <2>1, <3>1, <3>2
  <2> QED BY <2>2, <2>3
<1> QED BY <1>1, <1>2, <1>3, <1>4 DEF Handler

\* Registration keeps the balance: the first session of the node here is to be
\* told, one that replaces another is not.
LEMMA RegisterBalance ==
    ASSUME Inv, Balance, NEW j \in Instances, Register(j) PROVE Balance'
<1> DEFINE n == last + 1
<1> SUFFICES ASSUME NEW i \in Instances
             PROVE  online'[i] + Cardinality(Ups(i)') - Cardinality(Downs(i)')
                       = IF local'[i] = NoSession THEN 0 ELSE 1
  BY DEF Balance
<1>0. /\ online[i] + Cardinality(Ups(i)) - Cardinality(Downs(i))
            = IF local[i] = NoSession THEN 0 ELSE 1
      /\ online \in [Instances -> Int] /\ local \in [Instances -> 0 .. MaxSessions]
      /\ last \in Nat /\ n \in Sessions
  BY RegistryAssumption DEF Balance, Inv, TypeOK, Register
<1>c. /\ IsFiniteSet(Ups(i)) /\ Cardinality(Ups(i)) \in Nat
      /\ IsFiniteSet(Downs(i)) /\ Cardinality(Downs(i)) \in Nat
  BY Counted
<1>1. sess[n].at = None
  BY <1>0 DEF Inv, Used
<1>2. /\ sess'[n].at = j /\ sess'[n].pc = "registered"
      /\ sess'[n].reconnect = (local[j] # NoSession)
      /\ \A k \in Sessions \ {n} :
            /\ sess'[k].at = sess[k].at /\ sess'[k].pc = sess[k].pc
            /\ sess'[k].reconnect = sess[k].reconnect
  BY <1>0 DEF Register, Inv, TypeOK, SessionRecords
<1>3. online' = online /\ local' = [local EXCEPT ![j] = n]
  BY DEF Register
<1>4. Downs(i)' = Downs(i)
  BY <1>1, <1>2, RegistryAssumption DEF Downs
<1>5. CASE i = j /\ local[j] = NoSession
  <2>0. n \notin Ups(i) /\ n \in Ups(i)'
    BY <1>0, <1>1, <1>2, <1>5, RegistryAssumption DEF Ups
  <2>a. \A k \in Sessions \ {n} : k \in Ups(i)' <=> k \in Ups(i)
    BY <1>2 DEF Ups
  <2>b. Ups(i)' \subseteq Sessions /\ Ups(i) \subseteq Sessions
    BY DEF Ups
  <2>1. Ups(i)' = Ups(i) \cup {n}
    BY <2>0, <2>a, <2>b
  <2>2. Cardinality(Ups(i)') = Cardinality(Ups(i)) + 1
    BY <2>0, <2>1, <1>c, FS_AddElement
  <2>3. local'[i] # NoSession
    BY <1>0, <1>3, <1>5 DEF NoSession, Sessions
  <2> QED BY <1>0, <1>c, <1>3, <1>4, <1>5, <2>2, <2>3
<1>6. CASE ~(i = j /\ local[j] = NoSession)
  <2>1. Ups(i)' = Ups(i)
    BY <1>0, <1>1, <1>2, <1>6, RegistryAssumption DEF Ups
  <2>2. (local'[i] = NoSession) = (local[i] = NoSession)
    BY <1>0, <1>3, <1>6 DEF NoSession, Sessions
  <2> QED BY <1>0, <1>3, <1>4, <2>1, <2>2
<1> QED BY <1>5, <1>6

\* Nothing is left to tell on an instance that starts anew.
LEMMA CrashBalance ==
    ASSUME Inv, Balance, NEW j \in Instances, Crash(j) PROVE Balance'
<1> SUFFICES ASSUME NEW i \in Instances
             PROVE  online'[i] + Cardinality(Ups(i)') - Cardinality(Downs(i)')
                       = IF local'[i] = NoSession THEN 0 ELSE 1
  BY DEF Balance
<1>0. /\ online[i] + Cardinality(Ups(i)) - Cardinality(Downs(i))
            = IF local[i] = NoSession THEN 0 ELSE 1
      /\ online \in [Instances -> Int] /\ local \in [Instances -> 0 .. MaxSessions]
  BY DEF Balance, Inv, TypeOK
<1>1. \A k \in Sessions :
         /\ sess'[k].at = sess[k].at /\ sess'[k].reconnect = sess[k].reconnect
         /\ sess'[k].pc = IF sess[k].at = j THEN "done" ELSE sess[k].pc
  BY DEF Crash, Inv, TypeOK, SessionRecords
<1>2. CASE i = j
  <2>1. Ups(i)' = {} /\ Downs(i)' = {}
    BY <1>1, <1>2 DEF Ups, Downs
  <2>2. online'[i] = 0 /\ local'[i] = NoSession
    BY <1>0, <1>2 DEF Crash
  <2> QED BY <2>1, <2>2, FS_EmptySet
<1>3. CASE i # j
  <2>1. Ups(i)' = Ups(i) /\ Downs(i)' = Downs(i)
    BY <1>1, <1>3 DEF Ups, Downs
  <2>2. online'[i] = online[i] /\ local'[i] = local[i]
    BY <1>0, <1>3 DEF Crash
  <2> QED BY <1>0, <2>1, <2>2
<1> QED BY <1>2, <1>3

\* Every transition of the node is observed once: when all calls of the observer
\* of an instance have been made, they add up to what its registry holds.
THEOREM ObserverAgrees == Spec => []ObservedOnce
<1>1. Init => Balance
  <2> SUFFICES ASSUME Init, NEW i \in Instances
               PROVE  online[i] + Cardinality(Ups(i)) - Cardinality(Downs(i))
                         = IF local[i] = NoSession THEN 0 ELSE 1
    BY DEF Balance
  <2>1. Ups(i) = {} /\ Downs(i) = {}
    BY DEF Init, Unused, Ups, Downs
  <2> QED BY <2>1, FS_EmptySet DEF Init
<1>2. ASSUME Inv, Balance, [Next]_vars PROVE Balance'
  <2>1. CASE UNCHANGED <<sess, local, online>>
    BY <1>2, <2>1 DEF Balance, Ups, Downs
  <2>2. ASSUME NEW i \in Instances, NEW e, NEW again, HandleSessionEvent(i, e, again)
        PROVE  Balance'
    BY <2>1, <2>2 DEF HandleSessionEvent
  <2>3. ASSUME UNCHANGED vars PROVE Balance'
    BY <2>1, <2>3 DEF vars
  <2> QED BY <1>2, <2>2, <2>3, HandlerBalance, RegisterBalance, CrashBalance DEF Next
<1>3. ASSUME Inv, Balance PROVE ObservedOnce
  <2> SUFFICES ASSUME NEW i \in Instances,
                      \A n \in Sessions :
                         sess[n].at = i => sess[n].pc \notin {"registered", "left"}
               PROVE  online[i] = IF local[i] = NoSession THEN 0 ELSE 1
    BY DEF ObservedOnce
  <2>1. Ups(i) = {} /\ Downs(i) = {}
    BY DEF Ups, Downs
  <2>2. online[i] \in Int
    BY <1>3 DEF Inv, TypeOK
  <2> QED BY <1>3, <2>1, <2>2, FS_EmptySet DEF Balance
<1> QED BY <1>1, <1>2, <1>3, SpecInv, PTL DEF Spec

-----------------------------------------------------------------------------
(* What the other instances believe, and what their events will make of it. *)

\* A session is announced and its end is not.
Announced(n) == sess[n].pc \in {"serving", "leaving", "left", "closing"}

NoClosed(i) == \A x \in bus[i] : x.type # "closed"

\* Instance i is to hear of a connection that no closed event follows.
Ahead(i, e) ==
    e.type = "connected" /\ \A x \in bus[i] : x.type = "closed" => x.no < e.no

\* If events come in order, instance i will believe that the node is connected.
WillBelieve(i) ==
    \/ global[i] # None /\ NoClosed(i)
    \/ \E e \in bus[i] : Ahead(i, e) /\ e.by # i

\* Sessions that follow each other, no crash, and events that are in order as far
\* as it matters to those who look for a connected node.
Orderly ==
    /\ ~crashed
    /\ \A n \in Sessions : ~sess[n].overlaps
    /\ "connected" \notin lost /\ "closed" \notin delayed

\* Then there is one session at a time, and everyone else believes in it or will.
OneAtATime ==
    Orderly =>
        /\ \A n, k \in Sessions :
              sess[n].pc \notin {"unused", "done"} /\ sess[k].pc \notin {"unused", "done"}
              => n = k
        /\ \A n \in Sessions : Announced(n) =>
              \A i \in Instances \ {sess[n].at} : WillBelieve(i)

\* Nobody was replaced on his own instance, no crash, and events are in order as
\* far as it matters to those who look for a node that is gone.
Unreplaced ==
    /\ ~crashed
    /\ \A n \in Sessions : ~sess[n].reconnect
    /\ "closed" \notin lost /\ "connected" \notin delayed

\* Then a session is registered until its end is announced, and whoever believes in
\* one, or will, has been told of one that has not yet announced its end.
Grounded ==
    /\ \A n \in Sessions : sess[n].pc = "unused" => ~sess[n].reconnect
    /\ Unreplaced =>
        /\ \A n \in Sessions :
              /\ ~sess[n].cancelled
              /\ sess[n].pc \in {"registered", "observed", "serving", "leaving"}
                    => local[sess[n].at] = n
        /\ (\E i \in Instances : WillBelieve(i)) => \E n \in Sessions : Announced(n)

\* What a handler's step leaves of the sessions.
LEMMA GotoFields ==
    ASSUME Inv, NEW n \in Sessions, NEW p, Goto(n, p)
    PROVE  \A k \in Sessions :
              /\ sess'[k].at = sess[k].at /\ sess'[k].cancelled = sess[k].cancelled
              /\ sess'[k].reconnect = sess[k].reconnect
              /\ sess'[k].overlaps = sess[k].overlaps
              /\ sess'[k].pc = IF k = n THEN p ELSE sess[k].pc
BY DEF Goto, Inv, TypeOK, SessionRecords

\* Registration, field by field.
LEMMA RegisterFields ==
    ASSUME Inv, NEW i \in Instances, Register(i)
    PROVE  /\ last + 1 \in Sessions /\ sess[last + 1].pc = "unused"
           /\ sess'[last + 1].at = i /\ sess'[last + 1].pc = "registered"
           /\ ~sess'[last + 1].cancelled
           /\ sess'[last + 1].reconnect = (local[i] # NoSession)
           /\ sess'[last + 1].overlaps = Unfinished
           /\ \A k \in Sessions \ {last + 1} :
                 /\ sess'[k].at = sess[k].at /\ sess'[k].pc = sess[k].pc
                 /\ sess'[k].reconnect = sess[k].reconnect
                 /\ sess'[k].overlaps = sess[k].overlaps
                 /\ k # local[i] => sess'[k].cancelled = sess[k].cancelled
           /\ local' = [local EXCEPT ![i] = last + 1]
           /\ UNCHANGED <<global, bus, crashed, lost, delayed>>
<1>1. last + 1 \in Sessions /\ last \in Nat
  BY RegistryAssumption DEF Register, Inv, TypeOK
<1>2. sess[last + 1].pc = "unused"
  BY <1>1 DEF Inv, Used
<1> QED BY <1>1, <1>2 DEF Register, busVars, Inv, TypeOK, SessionRecords

\* The bus, after an event is handled.
LEMMA EventFields ==
    ASSUME Inv, NEW j \in Instances, NEW x \in bus[j], NEW again \in BOOLEAN,
           HandleSessionEvent(j, x, again)
    PROVE  /\ UNCHANGED <<sess, local, crashed, lost>> /\ delayed \subseteq delayed'
           /\ \A i \in Instances \ {j} : bus'[i] = bus[i] /\ global'[i] = global[i]
           /\ global'[j] = Heard(j, x)
           /\ bus'[j] \subseteq bus[j] /\ bus[j] \ {x} \subseteq bus'[j]
           /\ \A y \in bus[j] : y.type \in Types /\ y.no \in Nat /\ y.by \in Instances
           /\ \A y \in bus[j] : y.no < x.no => y.type \in delayed'
<1>1. bus \in [Instances -> SUBSET Events] /\ global \in [Instances -> Instances \cup {None}]
  BY DEF Inv, TypeOK, BusTypeOK
<1>2. /\ global' = [global EXCEPT ![j] = Heard(j, x)]
      /\ bus' = [bus EXCEPT ![j] = IF again THEN bus[j] ELSE bus[j] \ {x}]
      /\ delayed' = delayed \cup {y.type : y \in {z \in bus[j] : z.no < x.no}}
      /\ UNCHANGED <<sess, local, crashed, lost>>
  BY DEF HandleSessionEvent
<1>3. \A y \in bus[j] : y.type \in Types /\ y.no \in Nat /\ y.by \in Instances
  BY <1>1 DEF Events
<1>4. \A y \in bus[j] : y.no < x.no => y.type \in delayed'
  BY <1>2
<1>5. delayed \subseteq delayed'
  BY <1>2
<1>6. bus'[j] = IF again THEN bus[j] ELSE bus[j] \ {x}
  BY <1>1, <1>2
<1> QED BY <1>1, <1>2, <1>3, <1>4, <1>5, <1>6

\* Handlers keep sessions one at a time.
LEMMA HandlerOne ==
    ASSUME Inv, OneAtATime, NEW n \in Sessions, Handler(n) PROVE OneAtATime'
<1> SUFFICES ASSUME Orderly'
             PROVE  /\ \A m, k \in Sessions :
                          sess'[m].pc \notin {"unused", "done"}
                             /\ sess'[k].pc \notin {"unused", "done"} => m = k
                    /\ \A m \in Sessions : Announced(m)' =>
                          \A i \in Instances \ {sess'[m].at} : WillBelieve(i)'
  BY DEF OneAtATime
<1>a. PublishConnected(n) \/ PublishClosed(n) \/ UNCHANGED <<bus, global, lost, delayed>>
  BY DEF Handler, ObserveRegistered, SessionEnds, UnregisterSession, ObserveUnregistered,
         busVars
<1>0. sess[n].pc \notin {"unused", "done"} /\ sess[n].at \in Instances /\ crashed' = crashed
  BY DEF Handler, ObserveRegistered, PublishConnected, SessionEnds, UnregisterSession,
         ObserveUnregistered, PublishClosed, Inv, Used
<1>1. PICK p : Goto(n, p)
  BY DEF Handler, ObserveRegistered, PublishConnected, SessionEnds, UnregisterSession,
         ObserveUnregistered, PublishClosed
<1>2. \A k \in Sessions :
         /\ sess'[k].at = sess[k].at /\ sess'[k].overlaps = sess[k].overlaps
         /\ sess'[k].pc = IF k = n THEN p ELSE sess[k].pc
  BY <1>1, GotoFields
<1>b. lost \subseteq lost' /\ delayed' = delayed
  <2>1. CASE PublishConnected(n)
    BY <1>0, <2>1, PublishBus DEF PublishConnected, Types
  <2>2. CASE PublishClosed(n)
    BY <1>0, <2>2, PublishBus DEF PublishClosed, Types
  <2> QED BY <1>a, <2>1, <2>2
<1>3. Orderly
  BY <1>0, <1>b, <1>2 DEF Orderly
<1>4. \A k \in Sessions : sess[k].pc \notin {"unused", "done"} => k = n
  BY <1>0, <1>3 DEF OneAtATime
<1>5. \A m \in Sessions : sess'[m].pc \notin {"unused", "done"} => m = n
  BY <1>2, <1>4
<1>6. ASSUME Announced(n)', NEW i \in Instances \ {sess[n].at}
      PROVE  WillBelieve(i)'
  <2>1. CASE PublishConnected(n)
    <3> DEFINE e == [type |-> "connected", by |-> sess[n].at, no |-> published + 1]
    <3>1. Publish("connected", sess[n].at) /\ "connected" \in Types
      BY <2>1 DEF PublishConnected, Types
    <3>2. e \in bus'[i]
      BY <1>0, <3>1, PublishBus DEF Orderly
    <3>3. \A x \in bus'[i] : x = e \/ x \in bus[i]
      BY <1>0, <3>1, PublishBus
    <3>4. \A x \in bus[i] : x.no <= published /\ x.no \in Nat
      BY DEF Inv, Numbered, TypeOK, BusTypeOK, Events
    <3>5. published \in Nat
      BY DEF Inv, TypeOK, BusTypeOK
    <3>6. e.no = published + 1 /\ e.type = "connected" /\ e.by = sess[n].at
      OBVIOUS
    <3> HIDE DEF e
    <3>7. \A x \in bus'[i] : x.type = "closed" => x.no < e.no
      BY <3>3, <3>4, <3>5, <3>6
    <3> QED BY <3>2, <3>6, <3>7 DEF WillBelieve, Ahead
  <2>2. CASE ~PublishConnected(n)
    <3>1. UNCHANGED <<bus, global>>
      <4>1. ~PublishClosed(n)
        BY <1>6, <1>2, <1>1, GotoFields DEF PublishClosed, Announced
      <4> QED BY <1>a, <2>2, <4>1
    <3>2. Announced(n)
      <4>1. ASSUME ObserveRegistered(n) PROVE FALSE
        <5>1. Goto(n, "observed")
          BY <4>1 DEF ObserveRegistered
        <5> QED BY <1>6, <5>1, GotoFields DEF Announced
      <4> QED BY <2>2, <4>1 DEF Handler, SessionEnds, UnregisterSession,
                                ObserveUnregistered, PublishClosed, Announced
    <3>3. WillBelieve(i)
      BY <1>3, <3>2 DEF OneAtATime
    <3> QED BY <3>1, <3>3 DEF WillBelieve, NoClosed, Ahead
  <2> QED BY <2>1, <2>2
<1>7. \A m \in Sessions : Announced(m)' => m = n
  BY <1>5 DEF Announced
<1> QED BY <1>2, <1>5, <1>6, <1>7

\* So does the registration of another session, if the last one has ended.
LEMMA RegisterOne ==
    ASSUME Inv, OneAtATime, NEW j \in Instances, Register(j) PROVE OneAtATime'
<1> DEFINE n == last + 1
<1> SUFFICES ASSUME Orderly'
             PROVE  /\ \A m, k \in Sessions :
                          sess'[m].pc \notin {"unused", "done"}
                             /\ sess'[k].pc \notin {"unused", "done"} => m = k
                    /\ \A m \in Sessions : Announced(m)' =>
                          \A i \in Instances \ {sess'[m].at} : WillBelieve(i)'
  BY DEF OneAtATime
<1>1. n \in Sessions /\ ~Unfinished
  BY RegisterFields DEF Orderly
<1>2. \A k \in Sessions : sess[k].pc \in {"unused", "done"}
  BY <1>1 DEF Unfinished
<1>3. \A k \in Sessions : sess'[k].pc \notin {"unused", "done"} => k = n /\ sess'[k].pc = "registered"
  BY <1>2, RegisterFields
<1> QED BY <1>3 DEF Announced

\* So do the events.
LEMMA EventOne ==
    ASSUME Inv, OneAtATime, NEW j \in Instances, NEW x \in bus[j], NEW again \in BOOLEAN,
           HandleSessionEvent(j, x, again)
    PROVE  OneAtATime'
<1>0. UNCHANGED <<sess, crashed, lost>> /\ delayed \subseteq delayed'
  BY EventFields
<1> SUFFICES ASSUME Orderly', NEW n \in Sessions, Announced(n), NEW i \in Instances \ {sess[n].at}
             PROVE  WillBelieve(i)'
  BY <1>0 DEF OneAtATime, Orderly, Announced
<1>1. WillBelieve(i)
  BY <1>0 DEF OneAtATime, Orderly
<1>2. CASE i # j
  BY <1>1, <1>2, EventFields DEF WillBelieve, NoClosed, Ahead
<1>3. CASE i = j
  <2>0. /\ global'[i] = Heard(i, x) /\ bus'[i] \subseteq bus[i] /\ bus[i] \ {x} \subseteq bus'[i]
        /\ \A y \in bus[i] : y.type \in Types /\ y.no \in Nat /\ y.by \in Instances
        /\ \A y \in bus[i] : y.no < x.no => y.type # "closed"
        /\ x \in bus[i] /\ None \notin Instances
    BY <1>3, EventFields, RegistryAssumption DEF Orderly
  <2>1. CASE global[i] # None /\ NoClosed(i)
    <3>1. x.type = "connected"
      BY <2>0, <2>1 DEF NoClosed, Types
    <3>2. global'[i] # None
      BY <2>0, <2>1, <3>1 DEF Heard
    <3> QED BY <2>0, <2>1, <3>2 DEF WillBelieve, NoClosed
  <2>2. ASSUME NEW e \in bus[i], Ahead(i, e), e.by # i PROVE WillBelieve(i)'
    <3>1. CASE e = x
      <4>1. global'[i] = e.by /\ e.by # None
        BY <2>0, <2>2, <3>1 DEF Heard, Ahead
      <4>2. \A y \in bus'[i] : y.type # "closed"
        BY <2>0, <2>2, <3>1 DEF Ahead
      <4> QED BY <4>1, <4>2 DEF WillBelieve, NoClosed
    <3>2. CASE e # x
      BY <2>0, <2>2, <3>2 DEF WillBelieve, Ahead
    <3> QED BY <3>1, <3>2
  <2> QED BY <1>1, <2>1, <2>2 DEF WillBelieve
<1> QED BY <1>2, <1>3

\* However sessions that follow each other are announced and heard of, a connected
\* node is seen by every instance (IsConnectedAnywhere, which the reaper asks before
\* it fails the tasks of a node), unless a connected event is lost or a closed event
\* comes late.
THEOREM ConnectedSeen == Spec => []SeenUnlessOverlap
<1>1. Init => OneAtATime
  BY DEF Init, OneAtATime, Unused, Announced
<1>2. ASSUME Inv, OneAtATime, [Next]_vars PROVE OneAtATime'
  <2>1. ASSUME UNCHANGED vars PROVE OneAtATime'
    BY <1>2, <2>1 DEF vars, busVars, OneAtATime, Orderly, Announced, WillBelieve, NoClosed, Ahead
  <2>2. ASSUME NEW i \in Instances, Crash(i) PROVE OneAtATime'
    BY <2>2 DEF Crash, OneAtATime, Orderly
  <2> QED BY <1>2, <2>1, <2>2, HandlerOne, RegisterOne, EventOne DEF Next
<1>3. ASSUME Inv, OneAtATime PROVE SeenUnlessOverlap
  <2> SUFFICES ASSUME Orderly, Quiet, NEW j \in Instances, local[j] # NoSession,
                      NEW i \in Instances
               PROVE  IsConnectedAnywhere(i)
    BY DEF SeenUnlessOverlap, ConnectedIsSeen, Connected, Orderly
  <2>1. local[j] \in Sessions
    BY <1>3, RegistryAssumption DEF Inv, TypeOK, Sessions, NoSession
  <2>2. sess[local[j]].at = j /\ sess[local[j]].pc = "serving"
    BY <1>3, <2>1 DEF Inv, RegisteredIsLive, Quiet
  <2>3. CASE i = j
    BY <2>3 DEF IsConnectedAnywhere
  <2>4. CASE i # j
    <3>1. WillBelieve(i)
      BY <1>3, <2>1, <2>2, <2>4 DEF OneAtATime, Announced
    <3>2. global[i] # None
      BY <3>1 DEF WillBelieve, Quiet
    <3> QED BY <3>2 DEF IsConnectedAnywhere
  <2> QED BY <2>3, <2>4
<1> QED BY <1>1, <1>2, <1>3, SpecInv, PTL DEF Spec

\* Handlers keep beliefs grounded.
LEMMA HandlerGrounded ==
    ASSUME Inv, Grounded, NEW n \in Sessions, Handler(n) PROVE Grounded'
<1>u. \A k \in Sessions : sess'[k].pc = "unused" => ~sess'[k].reconnect
  <2>1. PICK p \in {"observed", "serving", "leaving", "left", "closing", "done"} : Goto(n, p)
    BY DEF Handler, ObserveRegistered, PublishConnected, SessionEnds, UnregisterSession,
           ObserveUnregistered, PublishClosed
  <2> QED BY <2>1, GotoFields DEF Grounded
<1> SUFFICES ASSUME Unreplaced'
             PROVE  /\ \A k \in Sessions :
                          /\ ~sess'[k].cancelled
                          /\ sess'[k].pc \in {"registered", "observed", "serving", "leaving"}
                                => local'[sess'[k].at] = k
                    /\ (\E i \in Instances : WillBelieve(i)') => \E k \in Sessions : Announced(k)'
  BY <1>u DEF Grounded
<1>0. sess[n].pc \notin {"unused", "done"} /\ sess[n].at \in Instances /\ crashed' = crashed
  BY DEF Handler, ObserveRegistered, PublishConnected, SessionEnds, UnregisterSession,
         ObserveUnregistered, PublishClosed, Inv, Used
<1>1. PICK p : Goto(n, p)
  BY DEF Handler, ObserveRegistered, PublishConnected, SessionEnds, UnregisterSession,
         ObserveUnregistered, PublishClosed
<1>2. \A k \in Sessions :
         /\ sess'[k].at = sess[k].at /\ sess'[k].cancelled = sess[k].cancelled
         /\ sess'[k].reconnect = sess[k].reconnect
         /\ sess'[k].pc = IF k = n THEN p ELSE sess[k].pc
  BY <1>1, GotoFields
<1>a. PublishConnected(n) \/ PublishClosed(n) \/ UNCHANGED <<bus, global, lost, delayed>>
  BY DEF Handler, ObserveRegistered, SessionEnds, UnregisterSession, ObserveUnregistered,
         busVars
<1>b. lost \subseteq lost' /\ delayed' = delayed
  <2>1. CASE PublishConnected(n)
    BY <1>0, <2>1, PublishBus DEF PublishConnected, Types
  <2>2. CASE PublishClosed(n)
    BY <1>0, <2>2, PublishBus DEF PublishClosed, Types
  <2> QED BY <1>a, <2>1, <2>2
<1>3. Unreplaced
  BY <1>0, <1>b, <1>2 DEF Unreplaced
<1>4. \A k \in Sessions :
         /\ ~sess[k].cancelled
         /\ sess[k].pc \in {"registered", "observed", "serving", "leaving"}
               => local[sess[k].at] = k
  BY <1>3 DEF Grounded
<1>5. (\E i \in Instances : WillBelieve(i)) => \E k \in Sessions : Announced(k)
  BY <1>3 DEF Grounded
<1>c. ASSUME UNCHANGED <<bus, global>> PROVE \A i \in Instances : WillBelieve(i)' => WillBelieve(i)
  BY <1>c DEF WillBelieve, NoClosed, Ahead
<1>6. CASE PublishConnected(n)
  <2>1. p = "serving" /\ sess'[n].pc = "serving"
    <3>1. Goto(n, "serving")
      BY <1>6 DEF PublishConnected
    <3>2. sess'[n].pc = "serving"
      BY <3>1, GotoFields
    <3> QED BY <3>2, <1>2
  <2>2. local' = local /\ sess[n].pc = "observed"
    BY <1>6 DEF PublishConnected
  <2>3. Announced(n)'
    BY <2>1 DEF Announced
  <2> QED BY <1>2, <1>4, <2>1, <2>2, <2>3
<1>7. CASE PublishClosed(n)
  <2>1. sess'[n].pc = "done"
    BY <1>7, GotoFields DEF PublishClosed
  <2>2. ASSUME NEW i \in Instances PROVE ~WillBelieve(i)'
    <3> DEFINE e == [type |-> "closed", by |-> sess[n].at, no |-> published + 1]
    <3>1. Publish("closed", sess[n].at) /\ "closed" \in Types
      BY <1>7 DEF PublishClosed, Types
    <3>2. e \in bus'[i]
      BY <1>0, <3>1, PublishBus DEF Unreplaced
    <3>3. \A x \in bus'[i] : x = e \/ x \in bus[i]
      BY <1>0, <3>1, PublishBus
    <3>4. \A x \in bus[i] : x.no <= published /\ x.no \in Nat
      BY DEF Inv, Numbered, TypeOK, BusTypeOK, Events
    <3>5. published \in Nat
      BY DEF Inv, TypeOK, BusTypeOK
    <3>6. e.no = published + 1 /\ e.type = "closed"
      OBVIOUS
    <3> HIDE DEF e
    <3>7. \A x \in bus'[i] : x.type = "connected" => ~(e.no < x.no)
      BY <3>3, <3>4, <3>5, <3>6
    <3> QED BY <3>2, <3>6, <3>7 DEF WillBelieve, NoClosed, Ahead
  <2>3. local' = local
    BY <1>7 DEF PublishClosed
  <2> QED BY <1>2, <1>4, <2>1, <2>2, <2>3
<1>8. CASE ObserveRegistered(n) \/ SessionEnds(n) \/ ObserveUnregistered(n)
  <2>1. UNCHANGED <<local, bus, global>>
    BY <1>8 DEF ObserveRegistered, SessionEnds, ObserveUnregistered, busVars
  <2>2. /\ sess'[n].pc \in {"registered", "observed", "serving", "leaving"}
           => sess[n].pc \in {"registered", "observed", "serving", "leaving"}
        /\ Announced(n) => Announced(n)'
    <3>1. \/ sess[n].pc = "registered" /\ Goto(n, "observed")
          \/ sess[n].pc = "serving" /\ Goto(n, "leaving")
          \/ sess[n].pc = "left" /\ Goto(n, "closing")
      BY <1>8 DEF ObserveRegistered, SessionEnds, ObserveUnregistered
    <3>2. \/ sess[n].pc = "registered" /\ sess'[n].pc = "observed"
          \/ sess[n].pc = "serving" /\ sess'[n].pc = "leaving"
          \/ sess[n].pc = "left" /\ sess'[n].pc = "closing"
      BY <3>1, GotoFields
    <3> QED BY <3>2 DEF Announced
  <2>3. \A k \in Sessions : Announced(k) => Announced(k)'
    BY <1>2, <2>2 DEF Announced
  <2> QED BY <1>2, <1>4, <1>5, <1>c, <2>1, <2>2, <2>3
<1>9. CASE UnregisterSession(n)
  <2>1. sess[n].pc = "leaving" /\ local[sess[n].at] = n
    BY <1>4, <1>9 DEF UnregisterSession
  <2>2. /\ Goto(n, "left") /\ local' = [local EXCEPT ![sess[n].at] = NoSession]
        /\ UNCHANGED <<bus, global>>
    BY <1>9, <2>1 DEF UnregisterSession, busVars
  <2>3. sess'[n].pc = "left"
    BY <2>2, GotoFields
  <2>4. \A k \in Sessions \ {n} :
           sess[k].pc \in {"registered", "observed", "serving", "leaving"}
           => sess[k].at # sess[n].at /\ sess[k].at \in Instances
    BY <1>4, <2>1 DEF Inv, Used
  <2>5. Announced(n)'
    BY <2>3 DEF Announced
  <2>6. local \in [Instances -> 0 .. MaxSessions]
    BY DEF Inv, TypeOK
  <2> QED BY <1>0, <1>2, <1>4, <2>2, <2>3, <2>4, <2>5, <2>6
<1> QED BY <1>6, <1>7, <1>8, <1>9 DEF Handler

\* So does a registration that replaces nobody.
LEMMA RegisterGrounded ==
    ASSUME Inv, Grounded, NEW j \in Instances, Register(j) PROVE Grounded'
<1> DEFINE n == last + 1
<1>u. \A k \in Sessions : sess'[k].pc = "unused" => ~sess'[k].reconnect
  BY RegisterFields DEF Grounded
<1> SUFFICES ASSUME Unreplaced'
             PROVE  /\ \A k \in Sessions :
                          /\ ~sess'[k].cancelled
                          /\ sess'[k].pc \in {"registered", "observed", "serving", "leaving"}
                                => local'[sess'[k].at] = k
                    /\ (\E i \in Instances : WillBelieve(i)') => \E k \in Sessions : Announced(k)'
  BY <1>u DEF Grounded
<1>1. n \in Sessions /\ local[j] = NoSession
  BY RegisterFields DEF Unreplaced
<1>2. NoSession \notin Sessions
  BY DEF NoSession, Sessions
<1>2a. ~sess[n].reconnect
  <2>1. sess[n].pc = "unused"
    BY RegisterFields
  <2> QED BY <1>1, <2>1 DEF Grounded
<1>3. Unreplaced
  BY <1>1, <1>2a, RegisterFields DEF Unreplaced
<1>4. \A k \in Sessions \ {n} :
         /\ sess'[k].at = sess[k].at /\ sess'[k].pc = sess[k].pc
         /\ ~sess'[k].cancelled
  BY <1>1, <1>2, <1>3, RegisterFields DEF Grounded
<1>5. \A k \in Sessions \ {n} :
         sess[k].pc \in {"registered", "observed", "serving", "leaving"}
         => local[sess[k].at] = k /\ sess[k].at \in Instances /\ sess[k].at # j
  BY <1>1, <1>2, <1>3 DEF Grounded, Inv, Used
<1>6. local \in [Instances -> 0 .. MaxSessions]
  BY DEF Inv, TypeOK
<1>7. \A k \in Sessions : Announced(k) => Announced(k)'
  BY <1>4, RegisterFields DEF Announced
<1>8. \A i \in Instances : WillBelieve(i)' => WillBelieve(i)
  BY RegisterFields DEF WillBelieve, NoClosed, Ahead
<1>9. (\E i \in Instances : WillBelieve(i)') => \E k \in Sessions : Announced(k)'
  BY <1>3, <1>7, <1>8 DEF Grounded
<1> QED BY <1>1, <1>4, <1>5, <1>6, <1>9, RegisterFields

\* So do the events.
LEMMA EventGrounded ==
    ASSUME Inv, Grounded, NEW j \in Instances, NEW x \in bus[j], NEW again \in BOOLEAN,
           HandleSessionEvent(j, x, again)
    PROVE  Grounded'
<1>0. UNCHANGED <<sess, local, crashed, lost>> /\ delayed \subseteq delayed'
  BY EventFields
<1> SUFFICES ASSUME Unreplaced', NEW i \in Instances, WillBelieve(i)'
             PROVE  WillBelieve(i)
  BY <1>0 DEF Grounded, Unreplaced, Announced
<1>1. CASE i # j
  BY <1>1, EventFields DEF WillBelieve, NoClosed, Ahead
<1>2. CASE i = j
  <2>0. /\ global'[i] = Heard(i, x) /\ bus'[i] \subseteq bus[i] /\ bus[i] \ {x} \subseteq bus'[i]
        /\ \A y \in bus[i] : y.type \in Types /\ y.no \in Nat /\ y.by \in Instances
        /\ \A y \in bus[i] : y.no < x.no => y.type # "connected"
        /\ x \in bus[i]
    BY <1>2, EventFields DEF Unreplaced
  <2>1. ASSUME global'[i] # None, \A y \in bus'[i] : y.type # "closed" PROVE WillBelieve(i)
    <3>1. x.type = "connected"
      BY <2>0, <2>1 DEF Heard, Types
    <3>2. \A y \in bus[i] : y.type # "closed"
      BY <2>0, <2>1, <3>1
    <3>3. CASE x.by = i
      BY <2>0, <2>1, <3>1, <3>2, <3>3 DEF Heard, WillBelieve, NoClosed
    <3>4. CASE x.by # i
      BY <2>0, <3>1, <3>2, <3>4 DEF WillBelieve, Ahead
    <3> QED BY <3>3, <3>4
  <2>2. ASSUME NEW e \in bus'[i], e.type = "connected", e.by # i,
               \A y \in bus'[i] : y.type = "closed" => y.no < e.no
        PROVE  WillBelieve(i)
    <3>1. e \in bus[i] /\ ~(e.no < x.no) /\ e.no \in Nat /\ x.no \in Nat
      BY <2>0, <2>2
    <3>2. x.type = "closed" => x.no < e.no \/ x.no = e.no
      BY <3>1
    <3>3. x.no = e.no => x = e
      BY <2>0, <3>1 DEF Inv, Numbered
    <3>4. \A y \in bus[i] : y.type = "closed" => y.no < e.no
      BY <2>0, <2>2, <3>2, <3>3
    <3> QED BY <2>2, <3>1, <3>4 DEF WillBelieve, Ahead
  <2> QED BY <2>1, <2>2 DEF WillBelieve, NoClosed, Ahead
<1> QED BY <1>1, <1>2

\* A node that is gone is not believed to be connected for ever, unless one of its
\* sessions was replaced on its own instance, an instance crashed, a closed event is
\* lost or a connected event comes late.
THEOREM GoneUnseen == Spec => []GoneUnlessReplaced
<1>1. Init => Grounded
  BY DEF Init, Grounded, Unused, WillBelieve
<1>2. ASSUME Inv, Grounded, [Next]_vars PROVE Grounded'
  <2>1. ASSUME UNCHANGED vars PROVE Grounded'
    BY <1>2, <2>1 DEF vars, busVars, Grounded, Unreplaced, Announced, WillBelieve, NoClosed, Ahead
  <2>2. ASSUME NEW i \in Instances, Crash(i) PROVE Grounded'
    <3>1. crashed'
      BY <2>2 DEF Crash
    <3>2. \A k \in Sessions : /\ sess'[k].reconnect = sess[k].reconnect
                              /\ sess'[k].pc \in {"done", sess[k].pc}
      BY <1>2, <2>2 DEF Crash, Inv, TypeOK, SessionRecords
    <3> QED BY <1>2, <3>1, <3>2 DEF Grounded, Unreplaced
  <2> QED BY <1>2, <2>1, <2>2, HandlerGrounded, RegisterGrounded, EventGrounded DEF Next
<1>3. ASSUME Inv, Grounded PROVE GoneUnlessReplaced
  <2> SUFFICES ASSUME Unreplaced, Quiet, ~Connected, NEW i \in Instances
               PROVE  ~IsConnectedAnywhere(i)
    BY DEF GoneUnlessReplaced, Unreplaced
  <2>1. \A n \in Sessions : ~Announced(n)
    <3> SUFFICES ASSUME NEW n \in Sessions, Announced(n) PROVE FALSE
      OBVIOUS
    <3>1. sess[n].pc = "serving"
      BY DEF Announced, Quiet
    <3>2. local[sess[n].at] = n /\ sess[n].at \in Instances
      BY <1>3, <3>1 DEF Grounded, Inv, Used
    <3>3. n # NoSession
      BY DEF NoSession, Sessions
    <3> QED BY <3>2, <3>3 DEF Connected
  <2>2. bus[i] = {}
    BY DEF Quiet
  <2>3. global[i] = None
    BY <1>3, <2>1, <2>2 DEF Grounded, WillBelieve, NoClosed
  <2> QED BY <2>3 DEF IsConnectedAnywhere, Connected
<1> QED BY <1>1, <1>2, <1>3, SpecInv, PTL DEF Spec

-----------------------------------------------------------------------------
(* GatewaySession: one session, for any number of requests and pushes and any *)
(* size of the outbound queue *)

\* Whoever takes a channel out of the map, or empties the map, closes it: an
\* entry, and a channel that is being resolved, is open and was never closed.
ChannelsOK ==
    \A r \in Requests :
        /\ r \in pending => chan[r] = "open"
        /\ resolving = r => chan[r] = "open" /\ r \notin pending
        /\ chan[r] # "closed" => closes[r] = 0
        /\ closes[r] <= 1
        /\ req[r] \in {"idle", "found"} => chan[r] = "none"

\* An open channel can still be found, and after failPendingRequests only by
\* those who registered later.
WaitersFound ==
    /\ resolving # Nobody => conn = "serving"
    /\ \A r \in Requests :
         /\ chan[r] = "open" => r \in pending \/ resolving = r
         /\ conn \in {"failed", "returned"} /\ r \in pending => r \in late

SessionInv == SessionTypeOK /\ ChannelsOK /\ WaitersFound

\* SessionInit establishes the invariant.
LEMMA SessionInitInv == SessionInit => SessionInv
<1> SUFFICES ASSUME SessionInit PROVE SessionInv
  OBVIOUS
<1> USE SessionAssumption DEF SessionInit
<1>0. outbound \in Seq(Pushes) /\ worker \in [pc : {"none"}, msg : {Nobody}]
  OBVIOUS
<1>1. SessionTypeOK
  BY <1>0 DEF SessionTypeOK
<1>2. ChannelsOK /\ WaitersFound
  BY DEF ChannelsOK, WaitersFound
<1> QED BY <1>1, <1>2 DEF SessionInv

\* Connect preserves the invariant.
LEMMA ConnectInv == ASSUME SessionInv, Connect \/ Break PROVE SessionInv'
<1> USE SessionAssumption DEF SessionInv, connVars, sendVars, reqVars, pushVars
<1>1. CASE AckBegin
  BY <1>1 DEF AckBegin, SessionTypeOK, ChannelsOK, WaitersFound
<1>2. CASE AckEnd
  BY <1>2 DEF AckEnd, SessionTypeOK, ChannelsOK, WaitersFound
<1>3. CASE ConnectEnds \/ LeaveRegistry
  <2>1. SessionTypeOK'
    BY <1>3 DEF ConnectEnds, LeaveRegistry, SessionTypeOK
  <2>2. ChannelsOK'
    BY <1>3 DEF ConnectEnds, LeaveRegistry, ChannelsOK
  <2>3. WaitersFound'
    BY <1>3 DEF ConnectEnds, LeaveRegistry, WaitersFound
  <2> QED BY <2>1, <2>2, <2>3
<1>4. CASE Superseded \/ Break
  <2>1. SessionTypeOK'
    <3>1. CASE Superseded
      <4>1. listed' \in BOOLEAN
        BY <3>1 DEF Superseded
      <4>2. UNCHANGED <<conn, broken, closed, done, sendMu, received, req, pending, chan,
                        closes, resolving, late, push, outbound, worker>>
        BY <3>1 DEF Superseded
      <4> QED BY <4>1, <4>2 DEF SessionTypeOK
    <3>2. CASE Break
      BY <3>2 DEF Break, SessionTypeOK
    <3> QED BY <1>4, <3>1, <3>2
  <2>2. ChannelsOK'
    BY <1>4 DEF Superseded, Break, ChannelsOK
  <2>3. WaitersFound'
    BY <1>4 DEF Superseded, Break, WaitersFound
  <2> QED BY <2>1, <2>2, <2>3
<1>5. CASE CloseFlag \/ CloseDone
  <2>1. SessionTypeOK'
    BY <1>5 DEF CloseFlag, CloseDone, SessionTypeOK
  <2>2. ChannelsOK'
    BY <1>5 DEF CloseFlag, CloseDone, ChannelsOK
  <2>3. WaitersFound'
    BY <1>5 DEF CloseFlag, CloseDone, WaitersFound
  <2> QED BY <2>1, <2>2, <2>3
<1>6. CASE FailPending
  <2>1. SessionTypeOK'
    BY <1>6 DEF FailPending, SessionTypeOK
  <2>2. ChannelsOK'
    BY <1>6 DEF FailPending, SessionTypeOK, ChannelsOK, WaitersFound
  <2>3. WaitersFound'
    BY <1>6 DEF FailPending, SessionTypeOK, ChannelsOK, WaitersFound
  <2> QED BY <2>1, <2>2, <2>3
<1>7. CASE ConnectReturns
  BY <1>7 DEF ConnectReturns, SessionTypeOK, ChannelsOK, WaitersFound
<1> QED BY <1>1, <1>2, <1>3, <1>4, <1>5, <1>6, <1>7 DEF Connect

\* Every step of a request preserves the invariant.
LEMMA RequestInv == ASSUME SessionInv, NEW r \in Requests, Request(r) PROVE SessionInv'
<1> USE SessionAssumption DEF SessionInv, connVars, sendVars, reqVars, pushVars
<1>1. CASE GetSession(r)
  BY <1>1 DEF GetSession, SessionTypeOK, ChannelsOK, WaitersFound
<1>2. CASE RegisterPendingRequest(r)
  <2>1. SessionTypeOK'
    BY <1>2 DEF RegisterPendingRequest, SessionTypeOK
  <2>2. ChannelsOK'
    BY <1>2 DEF RegisterPendingRequest, SessionTypeOK, ChannelsOK
  <2>3. WaitersFound'
    BY <1>2 DEF RegisterPendingRequest, SessionTypeOK, WaitersFound
  <2> QED BY <2>1, <2>2, <2>3
<1>3. CASE RequestSend(r)
  BY <1>3 DEF RequestSend, Enter, SessionTypeOK, ChannelsOK, WaitersFound
<1>4. CASE RequestSent(r)
  <2>1. SessionTypeOK'
    <3>1. /\ sendMu' \in Requests \cup {Worker, Nobody}
          /\ received' \subseteq Requests
      BY <1>4 DEF RequestSent, Leave, SessionTypeOK
    <3>2. req' \in [Requests -> {"idle", "found", "unsent", "sending", "waiting", "ending", "ended"}]
      <4>1. req \in [Requests -> {"idle", "found", "unsent", "sending", "waiting", "ending", "ended"}]
        BY DEF SessionTypeOK
      <4>2. req' = [req EXCEPT ![r] = "waiting"] \/ req' = [req EXCEPT ![r] = "ending"]
        BY <1>4 DEF RequestSent
      <4> QED BY <4>1, <4>2
    <3> QED BY <1>4, <3>1, <3>2 DEF RequestSent, SessionTypeOK
  <2>2. ChannelsOK'
    BY <1>4 DEF RequestSent, SessionTypeOK, ChannelsOK
  <2>3. WaitersFound'
    BY <1>4 DEF RequestSent, WaitersFound
  <2> QED BY <2>1, <2>2, <2>3
<1>5. CASE RequestWakes(r) \/ RequestGivesUp(r)
  <2>1. SessionTypeOK'
    <3>1. req' = [req EXCEPT ![r] = "ending"]
      BY <1>5 DEF RequestWakes, RequestGivesUp
    <3>2. req' \in [Requests -> {"idle", "found", "unsent", "sending", "waiting", "ending", "ended"}]
      BY <3>1 DEF SessionTypeOK
    <3>3. UNCHANGED <<conn, listed, broken, closed, done, sendMu, received, pending, chan,
                      closes, resolving, late, push, outbound, worker>>
      BY <1>5 DEF RequestWakes, RequestGivesUp
    <3> QED BY <3>2, <3>3 DEF SessionTypeOK
  <2>2. ChannelsOK'
    BY <1>5 DEF RequestWakes, RequestGivesUp, SessionTypeOK, ChannelsOK
  <2>3. WaitersFound'
    BY <1>5 DEF RequestWakes, RequestGivesUp, WaitersFound
  <2> QED BY <2>1, <2>2, <2>3
<1>6. CASE CancelPendingRequest(r)
  <2>1. SessionTypeOK'
    BY <1>6 DEF CancelPendingRequest, SessionTypeOK
  <2>2. ChannelsOK'
    BY <1>6 DEF CancelPendingRequest, SessionTypeOK, ChannelsOK
  <2>3. WaitersFound'
    BY <1>6 DEF CancelPendingRequest, SessionTypeOK, WaitersFound
  <2> QED BY <2>1, <2>2, <2>3
<1>7. CASE Take(r)
  <2>1. SessionTypeOK'
    BY <1>7 DEF Take, SessionTypeOK
  <2>2. ChannelsOK'
    BY <1>7 DEF Take, SessionTypeOK, ChannelsOK
  <2>3. WaitersFound'
    BY <1>7 DEF Take, SessionTypeOK, WaitersFound
  <2> QED BY <2>1, <2>2, <2>3
<1> QED BY <1>1, <1>2, <1>3, <1>4, <1>5, <1>6, <1>7 DEF Request

\* So does the end of ResolvePendingRequest.
LEMMA ResolveInv == ASSUME SessionInv, Resolve PROVE SessionInv'
<1> USE SessionAssumption DEF SessionInv, Resolve, connVars, sendVars, pushVars
<1>1. SessionTypeOK'
  BY DEF SessionTypeOK
<1>2. ChannelsOK'
  BY DEF SessionTypeOK, ChannelsOK
<1>3. WaitersFound'
  BY DEF SessionTypeOK, WaitersFound, ChannelsOK
<1> QED BY <1>1, <1>2, <1>3

\* The outbound queue and its worker touch no request.
LEMMA QueueInv ==
    ASSUME SessionInv,
           DispatchLoop \/ \E m \in Pushes : EnqueueCheck(m) \/ EnqueuePut(m)
    PROVE  SessionInv'
<1> USE SessionAssumption DEF SessionInv, connVars, sendVars, reqVars, pushVars
<1>1. ASSUME NEW m \in Pushes, EnqueueCheck(m) PROVE SessionInv'
  <2>1. SessionTypeOK'
    <3>1. push' \in [Pushes -> {"idle", "checked", "queued", "refused", "sent"}]
      BY <1>1 DEF EnqueueCheck, SessionTypeOK
    <3>2. worker' \in [pc : {"none", "idle", "holding", "sending", "gone"}, msg : Pushes \cup {Nobody}]
      BY <1>1 DEF EnqueueCheck, SessionTypeOK
    <3>3. UNCHANGED <<conn, listed, broken, closed, done, sendMu, received, req, pending, chan,
                      closes, resolving, late, outbound>>
      BY <1>1 DEF EnqueueCheck
    <3> QED BY <3>1, <3>2, <3>3 DEF SessionTypeOK
  <2>2. ChannelsOK'
    BY <1>1 DEF EnqueueCheck, ChannelsOK
  <2>3. WaitersFound'
    BY <1>1 DEF EnqueueCheck, WaitersFound
  <2> QED BY <2>1, <2>2, <2>3
<1>2. ASSUME NEW m \in Pushes, EnqueuePut(m) PROVE SessionInv'
  <2>0. Append(outbound, m) \in Seq(Pushes)
    BY DEF SessionTypeOK
  <2>1. SessionTypeOK'
    <3>1. outbound' \in Seq(Pushes)
      BY <1>2, <2>0 DEF EnqueuePut, SessionTypeOK
    <3>2. push' \in [Pushes -> {"idle", "checked", "queued", "refused", "sent"}]
      BY <1>2 DEF EnqueuePut, SessionTypeOK
    <3> QED BY <1>2, <3>1, <3>2 DEF EnqueuePut, SessionTypeOK
  <2>2. ChannelsOK'
    BY <1>2 DEF EnqueuePut, ChannelsOK
  <2>3. WaitersFound'
    BY <1>2 DEF EnqueuePut, WaitersFound
  <2> QED BY <2>1, <2>2, <2>3
<1>3. CASE WorkerTakes
  <2>1. Head(outbound) \in Pushes /\ Tail(outbound) \in Seq(Pushes)
    BY <1>3 DEF WorkerTakes, SessionTypeOK
  <2> QED
    BY <1>3, <2>1 DEF WorkerTakes, SessionTypeOK, ChannelsOK, WaitersFound
<1>4. CASE WorkerSend
  BY <1>4 DEF WorkerSend, Enter, SessionTypeOK, ChannelsOK, WaitersFound
<1>5. CASE WorkerSent
  BY <1>5 DEF WorkerSent, Leave, SessionTypeOK, ChannelsOK, WaitersFound
<1>6. CASE WorkerStops
  BY <1>6 DEF WorkerStops, SessionTypeOK, ChannelsOK, WaitersFound
<1> QED BY <1>1, <1>2, <1>3, <1>4, <1>5, <1>6 DEF DispatchLoop

\* The invariant always holds.
LEMMA SessionSpecInv == SessionSpec => []SessionInv
<1>1. ASSUME SessionInv, [SessionNext]_sessionVars PROVE SessionInv'
  <2>1. CASE UNCHANGED sessionVars
    <3> USE DEF sessionVars, connVars, sendVars, reqVars, pushVars
    <3>1. SessionTypeOK'
      BY <1>1, <2>1 DEF SessionInv, SessionTypeOK
    <3>2. ChannelsOK' /\ WaitersFound'
      BY <1>1, <2>1 DEF SessionInv, ChannelsOK, WaitersFound
    <3> QED BY <3>1, <3>2 DEF SessionInv
  <2> QED BY <1>1, <2>1, ConnectInv, RequestInv, ResolveInv, QueueInv DEF SessionNext
<1> QED BY <1>1, SessionInitInv, PTL DEF SessionSpec

\* ResolvePendingRequest, CancelPendingRequest and failPendingRequests never
\* close a channel twice between them.
THEOREM NoDoubleClose == SessionSpec => []ClosedOnce
<1>1. SessionInv => ClosedOnce
  BY DEF SessionInv, ChannelsOK, ClosedOnce
<1> QED BY <1>1, SessionSpecInv, PTL

\* Close wakes every request that was registered before it.
THEOREM CloseWakes == SessionSpec => []OnlyLateRequestsHang
<1>1. SessionInv => OnlyLateRequestsHang
  BY SessionAssumption DEF SessionInv, WaitersFound, OnlyLateRequestsHang, Hangs
<1> QED BY <1>1, SessionSpecInv, PTL

=============================================================================
