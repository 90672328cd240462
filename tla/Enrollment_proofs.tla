-------------------------- MODULE Enrollment_proofs --------------------------
(***************************************************************************)
(* Proofs about Enrollment, for any enrollments, tickets and keys.         *)
(***************************************************************************)
EXTENDS Enrollment, TLAPS

\* e has written its claim of a ticket, or has made a node with it.
Past(e) ==
    /\ cred[e] \in Tickets
    /\ pc[e] \in {"written", "claimed", "saved", "done"} \/ e \in nodes

\* A node is there from Save on, and only its Enroll made it.
NodesOK ==
    /\ \A e \in nodes : pc[e] \in {"saved", "done", "crashed"}
    /\ \A e \in Enrollments : pc[e] \in {"saved", "done"} => e \in nodes
    /\ \A e \in Enrollments :
          pc[e] \in {"locked", "read", "written", "claimed"} => cred[e] \in Tickets

\* Tickets that are stored, used or revoked were minted.
MintedOK ==
    /\ \A t \in Tickets : status[t] # "none" => t \in minted
    /\ \A e \in Enrollments :
          cred[e] \in Tickets /\ (pc[e] \notin {"idle", "failed"} \/ e \in nodes)
          => cred[e] \in minted
    /\ revoked \subseteq minted

\* Who is inside Claim owns the lock, unless it has run out.
ClaimOwns ==
    \A e \in Enrollments :
        pc[e] \in Claiming /\ cred[e] \notin overran => lock[cred[e]] = e

\* A claimed ticket is never pending again.
PastNotPending == \A e \in Enrollments : Past(e) => status[cred[e]] # "pending"

\* Nobody has claimed what a claim has just read as pending.
ReadersAlone ==
    \A e, f \in Enrollments :
        pc[e] = "read" /\ Past(f) /\ cred[f] = cred[e] => cred[e] \in overran

\* One claim per ticket.
OnePast ==
    \A e, f \in Enrollments :
        Past(e) /\ Past(f) /\ cred[e] = cred[f] /\ cred[e] \notin overran => e = f

\* The node of a record was made with its ticket.
ReportOK == \A t \in Tickets : node[t] # None => node[t] \in nodes /\ cred[node[t]] = t

\* A cached key is not spent, and without one the environment's key is spent
\* only if what was cached went away by itself.
SetupOK ==
    /\ setupKey \notin spent
    /\ setupKey = None /\ env \in spent => reopened

\* Who holds another key than the live one was early, or the live one is lost.
EarlyOK ==
    \A e \in Enrollments :
        /\ live # None /\ pc[e] \in {"admitted", "saved"}
        /\ cred[e] \in Keys /\ cred[e] # live
        => e \in early \/ \E d \in early : pc[d] = "done"

Claims == NodesOK /\ MintedOK /\ ClaimOwns /\ PastNotPending /\ ReadersAlone /\ OnePast
Inv == TypeOK /\ Claims /\ ReportOK /\ RevokedStaysDead /\ SetupOK /\ EarlyOK
         /\ LostKeyOverlapped

\* Init establishes the invariant.
LEMMA InitInv == Init => Inv
<1> SUFFICES ASSUME Init PROVE Inv
  OBVIOUS
<1> USE EnrollmentAssumption DEF Init
<1>1. TypeOK
  BY DEF TypeOK, Steps
<1>2. Claims
  BY DEF Claims, NodesOK, MintedOK, ClaimOwns, PastNotPending, ReadersAlone, OnePast,
         Past, Claiming
<1>3. ReportOK /\ RevokedStaysDead /\ SetupOK /\ EarlyOK /\ LostKeyOverlapped
  BY DEF ReportOK, RevokedStaysDead, SetupOK, EarlyOK, LostKeyOverlapped
<1> QED BY <1>1, <1>2, <1>3 DEF Inv

\* Every step is type correct.
LEMMA TypeStep == ASSUME TypeOK, Next PROVE TypeOK'
<1> USE EnrollmentAssumption DEF TypeOK, Steps, tickets, keys, history, Go, Freed
<1>0. env' = env
  BY DEF Next
<1>1. ASSUME NEW e \in Enrollments, Enroll(e) PROVE TypeOK'
  <2>1. ASSUME NEW c \in Tickets \cup Keys, Resolve(e, c) PROVE TypeOK'
    BY <2>1, <1>0 DEF Resolve
  <2>2. CASE AcquireLock(e)
    BY <2>2, <1>0 DEF AcquireLock
  <2>3. CASE ReadStored(e)
    BY <2>3, <1>0 DEF ReadStored
  <2>4. CASE WriteClaim(e)
    BY <2>4, <1>0 DEF WriteClaim
  <2>5. CASE ClaimFails(e)
    BY <2>5, <1>0 DEF ClaimFails
  <2>6. CASE Release(e)
    BY <2>6, <1>0 DEF Release
  <2>7. CASE SaveNode(e)
    BY <2>7, <1>0 DEF SaveNode
  <2>8. CASE EnrollFails(e)
    BY <2>8, <1>0 DEF EnrollFails
  <2>9. CASE ConsumeKey(e)
    BY <2>9, <1>0 DEF ConsumeKey, Invalidate
  <2>10. CASE ConsumeTicket(e)
    BY <2>10, <1>0 DEF ConsumeTicket, Consume
  <2>11. CASE Crash(e)
    BY <2>11, <1>0 DEF Crash
  <2> QED BY <1>1, <2>1, <2>2, <2>3, <2>4, <2>5, <2>6, <2>7, <2>8, <2>9, <2>10, <2>11
             DEF Enroll
<1>2. ASSUME NEW t \in Tickets,
             CreateTicket(t) \/ RevokeTicket(t) \/ TicketExpires(t) \/ Evict(t)
               \/ LockExpires(t)
      PROVE  TypeOK'
  BY <1>2, <1>0 DEF CreateTicket, RevokeTicket, TicketExpires, Evict, LockExpires
<1>3. ASSUME NEW k \in Keys, GenerateKey(k) \/ SetKey(k) PROVE TypeOK'
  <2>1. live' = k /\ spent' = spent \ {k} /\ UNCHANGED reopened /\ early' \subseteq Enrollments
    BY <1>3 DEF GenerateKey, SetKey, HandOut
  <2>2. setupKey' = k /\ keyTTL' \in BOOLEAN /\ minted' \in {minted, minted \cup {k}}
    BY <1>3 DEF GenerateKey, SetKey
  <2>3. UNCHANGED <<tickets, lock, pc, cred, nodes, overran, revoked>>
    BY <1>3 DEF GenerateKey, SetKey
  <2> QED BY <2>1, <2>2, <2>3, <1>0
<1>4. CASE DeleteKey \/ KeyExpires
  <2>1. live' \in Keys \cup {None} /\ spent' \subseteq spent /\ early' \subseteq Enrollments
    BY <1>4 DEF DeleteKey, KeyExpires, HandOut
  <2>2. setupKey' = None /\ keyTTL' = FALSE /\ reopened' = TRUE
    BY <1>4 DEF DeleteKey, KeyExpires
  <2>3. UNCHANGED <<tickets, lock, pc, cred, nodes, minted, overran, revoked>>
    BY <1>4 DEF DeleteKey, KeyExpires
  <2> QED BY <2>1, <2>2, <2>3, <1>0
<1>5. CASE Restart
  BY <1>5, <1>0 DEF Restart, Ended
<1> QED BY <1>1, <1>2, <1>3, <1>4, <1>5 DEF Next, Step

\* What a step of Enroll does to the claims.
LEMMA EnrollClaims ==
    ASSUME Inv, Next, TypeOK', NEW x \in Enrollments, Enroll(x) PROVE Claims'
<1> USE EnrollmentAssumption
<1> USE DEF Inv, TypeOK, Claims, tickets, keys, history, Go, Claiming, Past
<1>1. ASSUME NEW c \in Tickets \cup Keys, Resolve(x, c) PROVE Claims'
  <2>1. x \notin nodes /\ pc[x] = "idle"
    BY <1>1 DEF Resolve, NodesOK
  <2>2. NodesOK' /\ MintedOK'
    BY <1>1, <2>1 DEF Resolve, NodesOK, MintedOK, Usable
  <2>3. \A e \in Enrollments : Past(e)' => e # x /\ Past(e) /\ cred'[e] = cred[e]
    BY <1>1, <2>1 DEF Resolve
  <2>4. ClaimOwns' /\ PastNotPending'
    BY <1>1, <2>1, <2>3 DEF Resolve, ClaimOwns, PastNotPending
  <2>5. ReadersAlone' /\ OnePast'
    BY <1>1, <2>1, <2>3 DEF Resolve, ReadersAlone, OnePast
  <2> QED BY <2>2, <2>4, <2>5
<1>2. CASE AcquireLock(x)
  <2>1. NodesOK' /\ MintedOK' /\ PastNotPending'
    BY <1>2 DEF AcquireLock, NodesOK, MintedOK, PastNotPending
  <2>2. ClaimOwns'
    BY <1>2 DEF AcquireLock, ClaimOwns, NodesOK
  <2>3. ReadersAlone' /\ OnePast'
    BY <1>2 DEF AcquireLock, ReadersAlone, OnePast
  <2> QED BY <2>1, <2>2, <2>3
<1>3. CASE ReadStored(x)
  <2>1. NodesOK' /\ MintedOK' /\ PastNotPending'
    BY <1>3 DEF ReadStored, NodesOK, MintedOK, PastNotPending
  <2>2. ClaimOwns'
    BY <1>3 DEF ReadStored, ClaimOwns, NodesOK, Freed
  <2>3. ReadersAlone' /\ OnePast'
    BY <1>3 DEF ReadStored, ReadersAlone, OnePast, PastNotPending, Usable, NodesOK
  <2> QED BY <2>1, <2>2, <2>3
<1>4. CASE WriteClaim(x)
  <2>1. NodesOK' /\ MintedOK' /\ PastNotPending'
    BY <1>4 DEF WriteClaim, NodesOK, MintedOK, PastNotPending
  <2>2. ClaimOwns'
    BY <1>4 DEF WriteClaim, ClaimOwns
  <2>3. \A e \in Enrollments : Past(e)' => e = x \/ Past(e)
    BY <1>4 DEF WriteClaim
  <2>4. ReadersAlone'
    BY <1>4, <2>3 DEF WriteClaim, ReadersAlone, ClaimOwns, NodesOK
  <2>5. OnePast'
    BY <1>4, <2>3 DEF WriteClaim, ReadersAlone, OnePast
  <2> QED BY <2>1, <2>2, <2>4, <2>5
<1>5. CASE ClaimFails(x)
  <2>1. NodesOK' /\ MintedOK' /\ PastNotPending'
    BY <1>5 DEF ClaimFails, NodesOK, MintedOK, PastNotPending
  <2>2. ClaimOwns'
    BY <1>5 DEF ClaimFails, ClaimOwns, NodesOK, Freed
  <2>3. ReadersAlone' /\ OnePast'
    BY <1>5 DEF ClaimFails, ReadersAlone, OnePast
  <2> QED BY <2>1, <2>2, <2>3
<1>6. CASE Release(x)
  <2>1. NodesOK' /\ MintedOK' /\ PastNotPending'
    BY <1>6 DEF Release, NodesOK, MintedOK, PastNotPending
  <2>2. ClaimOwns'
    BY <1>6 DEF Release, ClaimOwns, NodesOK, Freed
  <2>3. ReadersAlone' /\ OnePast'
    BY <1>6 DEF Release, ReadersAlone, OnePast
  <2> QED BY <2>1, <2>2, <2>3
<1>7. CASE SaveNode(x)
  <2>0. \A e \in Enrollments : Past(e)' => Past(e)
    BY <1>7 DEF SaveNode
  <2>1. NodesOK' /\ MintedOK' /\ PastNotPending'
    BY <1>7, <2>0 DEF SaveNode, NodesOK, MintedOK, PastNotPending
  <2>2. ClaimOwns'
    BY <1>7 DEF SaveNode, ClaimOwns
  <2>3. ReadersAlone' /\ OnePast'
    BY <1>7, <2>0 DEF SaveNode, ReadersAlone, OnePast
  <2> QED BY <2>1, <2>2, <2>3
<1>8. CASE EnrollFails(x) \/ Crash(x)
  <2>0. \A e \in Enrollments : Past(e)' => Past(e)
    BY <1>8 DEF EnrollFails, Crash
  <2>1. NodesOK' /\ MintedOK' /\ PastNotPending'
    BY <1>8, <2>0 DEF EnrollFails, Crash, Ended, NodesOK, MintedOK, PastNotPending
  <2>2. ClaimOwns'
    BY <1>8 DEF EnrollFails, Crash, ClaimOwns
  <2>3. ReadersAlone' /\ OnePast'
    BY <1>8, <2>0 DEF EnrollFails, Crash, ReadersAlone, OnePast
  <2> QED BY <2>1, <2>2, <2>3
<1>9. CASE ConsumeKey(x)
  <2>1. NodesOK' /\ MintedOK' /\ PastNotPending'
    BY <1>9 DEF ConsumeKey, NodesOK, MintedOK, PastNotPending
  <2>2. ClaimOwns'
    BY <1>9 DEF ConsumeKey, ClaimOwns
  <2>3. ReadersAlone' /\ OnePast'
    BY <1>9 DEF ConsumeKey, ReadersAlone, OnePast
  <2> QED BY <2>1, <2>2, <2>3
<1>10. CASE ConsumeTicket(x)
  <2>0. \A e \in Enrollments : Past(e)' => Past(e)
    BY <1>10 DEF ConsumeTicket
  <2>1. NodesOK' /\ MintedOK' /\ PastNotPending'
    BY <1>10, <2>0 DEF ConsumeTicket, Consume, NodesOK, MintedOK, PastNotPending
  <2>2. ClaimOwns'
    BY <1>10 DEF ConsumeTicket, ClaimOwns
  <2>3. ReadersAlone' /\ OnePast'
    BY <1>10, <2>0 DEF ConsumeTicket, ReadersAlone, OnePast
  <2> QED BY <2>1, <2>2, <2>3
<1> QED BY <1>1, <1>2, <1>3, <1>4, <1>5, <1>6, <1>7, <1>8, <1>9, <1>10 DEF Enroll

\* What the steps outside of Enroll do to the claims.
LEMMA OtherClaims ==
    ASSUME Inv, Next, TypeOK',
           \/ \E t \in Tickets : \/ CreateTicket(t) \/ RevokeTicket(t) \/ TicketExpires(t)
                                 \/ Evict(t) \/ LockExpires(t)
           \/ \E k \in Keys : GenerateKey(k) \/ SetKey(k)
           \/ DeleteKey \/ KeyExpires \/ Restart
    PROVE  Claims'
<1> USE EnrollmentAssumption
<1> USE DEF Inv, TypeOK, Claims, tickets, keys, history, Claiming, Past
<1>1. ASSUME NEW t \in Tickets, CreateTicket(t) PROVE Claims'
  <2>1. NodesOK' /\ MintedOK' /\ ClaimOwns'
    BY <1>1 DEF CreateTicket, NodesOK, MintedOK, ClaimOwns
  <2>2. PastNotPending'
    BY <1>1 DEF CreateTicket, PastNotPending, MintedOK
  <2>3. ReadersAlone' /\ OnePast'
    BY <1>1 DEF CreateTicket, ReadersAlone, OnePast
  <2> QED BY <2>1, <2>2, <2>3
<1>2. ASSUME NEW t \in Tickets, RevokeTicket(t) \/ Evict(t) PROVE Claims'
  <2>1. NodesOK' /\ ClaimOwns' /\ ReadersAlone' /\ OnePast'
    BY <1>2 DEF RevokeTicket, Evict, NodesOK, ClaimOwns, ReadersAlone, OnePast
  <2>2. MintedOK' /\ PastNotPending'
    BY <1>2 DEF RevokeTicket, Evict, MintedOK, PastNotPending
  <2> QED BY <2>1, <2>2
<1>3. ASSUME NEW t \in Tickets, TicketExpires(t) PROVE Claims'
  BY <1>3 DEF TicketExpires, NodesOK, MintedOK, ClaimOwns, PastNotPending, ReadersAlone,
              OnePast
<1>4. ASSUME NEW t \in Tickets, LockExpires(t) PROVE Claims'
  <2>1. NodesOK' /\ MintedOK' /\ PastNotPending'
    BY <1>4 DEF LockExpires, NodesOK, MintedOK, PastNotPending
  <2>2. ClaimOwns'
    BY <1>4 DEF LockExpires, ClaimOwns, NodesOK
  <2>3. ReadersAlone' /\ OnePast'
    BY <1>4 DEF LockExpires, ReadersAlone, OnePast
  <2> QED BY <2>1, <2>2, <2>3
<1>5. CASE (\E k \in Keys : GenerateKey(k) \/ SetKey(k)) \/ DeleteKey \/ KeyExpires
  <2>1. UNCHANGED <<tickets, lock, pc, cred, nodes, overran, revoked>>
    BY <1>5 DEF GenerateKey, SetKey, DeleteKey, KeyExpires
  <2>2. minted \subseteq minted'
    BY <1>5 DEF GenerateKey, SetKey, DeleteKey, KeyExpires
  <2>3. NodesOK' /\ ClaimOwns' /\ PastNotPending' /\ ReadersAlone' /\ OnePast'
    BY <2>1 DEF NodesOK, ClaimOwns, PastNotPending, ReadersAlone, OnePast
  <2>4. MintedOK'
    BY <2>1, <2>2 DEF MintedOK
  <2> QED BY <2>3, <2>4
<1>6. CASE Restart
  <2>1. \A e \in Enrollments : pc'[e] = pc[e] \/ pc'[e] = "crashed"
    BY <1>6 DEF Restart
  <2>2. \A e \in Enrollments : pc'[e] \in Ended \cup {"idle"}
    BY <1>6 DEF Restart, Ended
  <2>3. UNCHANGED <<cred, nodes, minted, overran, revoked>>
    BY <1>6 DEF Restart
  <2>4. \A t \in Tickets : status'[t] = "none"
    BY <1>6 DEF Restart
  <2>5. NodesOK'
    BY <2>1, <2>2, <2>3 DEF NodesOK, Ended
  <2>6. \A e \in Enrollments : pc[e] = "idle" => pc'[e] = "idle"
    BY <1>6 DEF Restart, Ended
  <2>7. \A e \in Enrollments : pc[e] = "failed" => pc'[e] = "failed"
    BY <1>6 DEF Restart, Ended
  <2>8. MintedOK'
    BY <2>3, <2>4, <2>6, <2>7 DEF MintedOK
  <2>9. ClaimOwns' /\ PastNotPending' /\ ReadersAlone'
    BY <2>2, <2>3, <2>4 DEF ClaimOwns, PastNotPending, ReadersAlone, Ended
  <2>10. OnePast'
    BY <2>1, <2>3 DEF OnePast
  <2> QED BY <2>5, <2>8, <2>9, <2>10
<1> QED BY <1>1, <1>2, <1>3, <1>4, <1>5, <1>6

\* The records: who made the node they name, and that what is revoked stays so.
LEMMA RecordStep ==
    ASSUME Inv, Next, TypeOK' PROVE ReportOK' /\ RevokedStaysDead'
<1> USE EnrollmentAssumption
<1> USE DEF Inv, TypeOK, Claims, tickets, keys, history, Go, ReportOK, RevokedStaysDead
<1>1. ASSUME NEW e \in Enrollments, NEW c \in Tickets \cup Keys, Resolve(e, c)
      PROVE  ReportOK' /\ RevokedStaysDead'
  BY <1>1 DEF Resolve, NodesOK
<1>2. ASSUME NEW e \in Enrollments,
             \/ AcquireLock(e) \/ ReadStored(e) \/ ClaimFails(e) \/ Release(e)
             \/ SaveNode(e) \/ EnrollFails(e) \/ ConsumeKey(e) \/ Crash(e)
      PROVE  ReportOK' /\ RevokedStaysDead'
  <2>1. UNCHANGED <<status, node, cred, revoked>> /\ nodes \subseteq nodes'
    BY <1>2 DEF AcquireLock, ReadStored, ClaimFails, Release, SaveNode, EnrollFails,
                ConsumeKey, Crash
  <2> QED BY <2>1
<1>3. ASSUME NEW e \in Enrollments, WriteClaim(e) PROVE ReportOK' /\ RevokedStaysDead'
  BY <1>3 DEF WriteClaim
<1>4. ASSUME NEW e \in Enrollments, ConsumeTicket(e) PROVE ReportOK' /\ RevokedStaysDead'
  BY <1>4 DEF ConsumeTicket, Consume, NodesOK
<1>5. ASSUME NEW t \in Tickets, CreateTicket(t) PROVE ReportOK' /\ RevokedStaysDead'
  BY <1>5 DEF CreateTicket, MintedOK
<1>6. ASSUME NEW t \in Tickets,
             RevokeTicket(t) \/ TicketExpires(t) \/ Evict(t) \/ LockExpires(t)
      PROVE  ReportOK' /\ RevokedStaysDead'
  BY <1>6 DEF RevokeTicket, TicketExpires, Evict, LockExpires
<1>7. CASE (\E k \in Keys : GenerateKey(k) \/ SetKey(k)) \/ DeleteKey \/ KeyExpires
  <2>1. UNCHANGED <<status, node, cred, revoked, nodes>>
    BY <1>7 DEF GenerateKey, SetKey, DeleteKey, KeyExpires
  <2> QED BY <2>1
<1>8. CASE Restart
  BY <1>8 DEF Restart
<1> QED BY <1>1, <1>2, <1>3, <1>4, <1>5, <1>6, <1>7, <1>8 DEF Next, Step, Enroll

\* The setup key: what the cache and the history say of it.
LEMMA KeyStep ==
    ASSUME Inv, Next, TypeOK' PROVE SetupOK' /\ EarlyOK' /\ LostKeyOverlapped'
<1> USE EnrollmentAssumption
<1> USE DEF Inv, TypeOK, tickets, keys, history, Go
<1>0. env' = env
  BY DEF Next
<1>1. ASSUME NEW e \in Enrollments, NEW c \in Tickets \cup Keys, Resolve(e, c)
      PROVE  SetupOK' /\ EarlyOK' /\ LostKeyOverlapped'
  <2>1. SetupOK'
    BY <1>0, <1>1 DEF Resolve, SetupOK
  <2>2. LostKeyOverlapped'
    BY <1>1 DEF Resolve, LostKeyOverlapped
  <2>3. pc'[e] = "admitted" /\ c \in Keys => c = CurrentKey
    BY <1>1 DEF Resolve
  <2>4. CurrentKey # live /\ live # None => setupKey # live
    BY DEF CurrentKey
  <2>5. EarlyOK'
    BY <1>1, <2>2, <2>3, <2>4 DEF Resolve, EarlyOK, LostKeyOverlapped
  <2> QED BY <2>1, <2>2, <2>5
<1>2. ASSUME NEW e \in Enrollments,
             \/ AcquireLock(e) \/ ReadStored(e) \/ WriteClaim(e) \/ ClaimFails(e)
             \/ Release(e) \/ SaveNode(e) \/ EnrollFails(e) \/ ConsumeTicket(e)
             \/ Crash(e)
      PROVE  SetupOK' /\ EarlyOK' /\ LostKeyOverlapped'
  <2>1. UNCHANGED <<setupKey, spent, live, early, reopened, cred>>
    BY <1>2 DEF AcquireLock, ReadStored, WriteClaim, ClaimFails, Release, SaveNode,
                EnrollFails, ConsumeTicket, Crash
  <2>2. \A d \in Enrollments : pc[d] = "done" => pc'[d] = "done"
    BY <1>2 DEF AcquireLock, ReadStored, WriteClaim, ClaimFails, Release, SaveNode,
                EnrollFails, ConsumeTicket, Crash, Ended
  <2>3. \A d \in Enrollments :
           pc'[d] \in {"admitted", "saved"} /\ cred[d] \in Keys
           => pc[d] \in {"admitted", "saved"}
    BY <1>2 DEF AcquireLock, ReadStored, WriteClaim, ClaimFails, Release, SaveNode,
                EnrollFails, ConsumeTicket, Crash, Claims, NodesOK
  <2> QED BY <1>0, <2>1, <2>2, <2>3 DEF SetupOK, EarlyOK, LostKeyOverlapped
<1>3. ASSUME NEW e \in Enrollments, ConsumeKey(e)
      PROVE  SetupOK' /\ EarlyOK' /\ LostKeyOverlapped'
  <2>1. SetupOK'
    BY <1>0, <1>3 DEF ConsumeKey, Invalidate, SetupOK
  <2>2. EarlyOK'
    BY <1>3 DEF ConsumeKey, EarlyOK
  <2>3. LostKeyOverlapped'
    BY <1>3 DEF ConsumeKey, Invalidate, EarlyOK, LostKeyOverlapped
  <2> QED BY <2>1, <2>2, <2>3
<1>4. ASSUME NEW t \in Tickets,
             \/ CreateTicket(t) \/ RevokeTicket(t) \/ TicketExpires(t)
             \/ Evict(t) \/ LockExpires(t)
      PROVE  SetupOK' /\ EarlyOK' /\ LostKeyOverlapped'
  <2>1. UNCHANGED <<setupKey, spent, live, early, reopened, cred, pc>>
    BY <1>4 DEF CreateTicket, RevokeTicket, TicketExpires, Evict, LockExpires
  <2> QED BY <1>0, <2>1 DEF SetupOK, EarlyOK, LostKeyOverlapped
<1>5. ASSUME NEW k \in Keys \cup {None}, HandOut(k), setupKey' = k, UNCHANGED <<pc, cred>>,
             k \in Keys \/ reopened'
      PROVE  SetupOK' /\ EarlyOK' /\ LostKeyOverlapped'
  <2>1. SetupOK'
    BY <1>0, <1>5 DEF HandOut, SetupOK
  <2>2. EarlyOK' /\ LostKeyOverlapped'
    BY <1>5 DEF HandOut, EarlyOK, LostKeyOverlapped, Ended
  <2> QED BY <2>1, <2>2
<1>6. CASE (\E k \in Keys : GenerateKey(k) \/ SetKey(k)) \/ DeleteKey
  BY <1>5, <1>6 DEF GenerateKey, SetKey, DeleteKey
<1>7. CASE KeyExpires
  BY <1>0, <1>7 DEF KeyExpires, SetupOK, EarlyOK, LostKeyOverlapped
<1>8. CASE Restart
  BY <1>0, <1>8 DEF Restart, SetupOK, EarlyOK, LostKeyOverlapped
<1> QED BY <1>1, <1>2, <1>3, <1>4, <1>6, <1>7, <1>8 DEF Next, Step, Enroll

\* Inv is an invariant.
LEMMA SpecInv == Spec => []Inv
<1>1. Inv /\ Next => Inv'
  <2> SUFFICES ASSUME Inv, Next PROVE Inv'
    OBVIOUS
  <2>1. TypeOK'
    BY TypeStep DEF Inv
  <2>2. Claims'
    BY <2>1, EnrollClaims, OtherClaims DEF Next, Step
  <2> QED BY <2>1, <2>2, RecordStep, KeyStep DEF Inv
<1>2. Inv /\ UNCHANGED vars => Inv'
  BY DEF Inv, TypeOK, Claims, NodesOK, MintedOK, ClaimOwns, PastNotPending, ReadersAlone,
         OnePast, Past, ReportOK, RevokedStaysDead, SetupOK, EarlyOK, LostKeyOverlapped,
         vars, tickets, keys, history
<1> QED BY <1>1, <1>2, InitInv, PTL DEF Spec

\* Every variable of the enrollment keeps to its type.
THEOREM TypeCorrect == Spec => []TypeOK
<1>1. Inv => TypeOK
  BY DEF Inv
<1> QED BY <1>1, SpecInv, PTL

\* A ticket makes at most one node, for any number of instances and calls of
\* Enroll, unless a claim outlived its lock.
THEOREM OneNode == Spec => []OneNodePerTicket
<1>1. Inv => OneNodePerTicket
  BY DEF Inv, TypeOK, Claims, OnePast, Past, OneNodePerTicket
<1> QED BY <1>1, SpecInv, PTL

\* A ticket that a plugin has revoked never becomes usable again.
THEOREM RevokedIsDead == Spec => []RevokedStaysDead
<1>1. Inv => RevokedStaysDead
  BY DEF Inv
<1> QED BY <1>1, SpecInv, PTL

\* A setup key that an enrollment has invalidated admits no further one until
\* it is handed out again, or is the environment's and what was cached over it
\* was deleted, expired or lost in a restart.
THEOREM SpentRefused == Spec => []SpentKeyRefused
<1>1. Inv => SpentKeyRefused
  BY EnrollmentAssumption DEF Inv, TypeOK, SetupOK, SpentKeyRefused, CurrentKey
<1> QED BY <1>1, SpecInv, PTL

\* A key that was handed out is lost only to an enrollment that was under way
\* with an earlier one.
THEOREM LostOverlapped == Spec => []LostKeyOverlapped
<1>1. Inv => LostKeyOverlapped
  BY DEF Inv
<1> QED BY <1>1, SpecInv, PTL

\* The node a ticket reports was made with it, and the report is not changed.
THEOREM ReportFinal == Spec => ReportIsFinal
<1> DEFINE Final == \A t \in Tickets \ overran' :
              /\ node'[t] # None => node'[t] \in nodes /\ cred[node'[t]] = t
              /\ node[t] # None => status'[t] = "none" \/ node'[t] = node[t]
<1>1. Inv /\ Next => Final
  <2> SUFFICES ASSUME Inv, Next PROVE Final
    OBVIOUS
  <2> USE EnrollmentAssumption DEF Inv, TypeOK, Claims, ReportOK, tickets, keys, history, Go
  <2>1. ASSUME UNCHANGED node PROVE Final
    BY <2>1
  <2>2. ASSUME NEW e \in Enrollments, WriteClaim(e) PROVE Final
    BY <2>2 DEF WriteClaim, ReadersAlone, Past
  <2>3. ASSUME NEW e \in Enrollments, ConsumeTicket(e) PROVE Final
    BY <2>3 DEF ConsumeTicket, Consume, OnePast, Past, NodesOK
  <2>4. ASSUME NEW t \in Tickets, RevokeTicket(t) \/ Evict(t) PROVE Final
    BY <2>4 DEF RevokeTicket, Evict
  <2>5. CASE Restart
    BY <2>5 DEF Restart
  <2>6. \/ UNCHANGED node
        \/ Restart
        \/ \E e \in Enrollments : WriteClaim(e) \/ ConsumeTicket(e)
        \/ \E t \in Tickets : RevokeTicket(t) \/ Evict(t)
    BY DEF Next, Step, Enroll, Resolve, AcquireLock, ReadStored, ClaimFails, Release, SaveNode,
           EnrollFails, ConsumeKey, Crash, CreateTicket, TicketExpires, LockExpires,
           GenerateKey, SetKey, DeleteKey, KeyExpires
  <2> QED BY <2>1, <2>2, <2>3, <2>4, <2>5, <2>6
<1>2. Inv /\ UNCHANGED vars => Final
  BY DEF Inv, ReportOK, vars, tickets, history
<1> QED BY <1>1, <1>2, SpecInv, PTL DEF Spec, ReportIsFinal
=============================================================================
