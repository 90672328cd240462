--------------------------- MODULE Locker_proofs ---------------------------
(***************************************************************************)
(* Proofs about Locker: mutual exclusion of the locks of every backend and *)
(* that every backend implements Lease, for all numbers of callers, all    *)
(* ttls, delays and clocks, provided that a holder stops early enough for  *)
(* the skew of the clocks and the rounding of the expires_at column.       *)
(***************************************************************************)
EXTENDS Locker, TLAPS

\* The margin covers the clock skew and the rounding of expires_at.
MarginSuffices == 2 * MaxSkew + Resolution <= 2 * Margin + 1

\* A call in progress read its clock in the past.
StartRead ==
    \A h \in Handles :
        pc[h] \in {"try", "insert", "refresh"} => start[h] <= Clock(h)

\* A refresh promises no less than what was promised before.
PromiseGrows ==
    \A h \in Handles :
        /\ pc[h] = "held" => promised[h] <= Clock(h) + TTL
        /\ pc[h] = "refresh" => promised[h] <= start[h] + TTL

\* The entry lasts as long as promised, but for the rounding.
RowBacked ==
    row.tok # None => 2 * promised[row.tok] <= 2 * row.exp + Resolution - 1

\* Whoever relies on the lock has its token in the entry.
RelierOwns == \A h \in Handles : Relies(h) => row.tok = h

Inv == TypeOK /\ StartRead /\ PromiseGrows /\ RowBacked /\ RelierOwns

\* What the database stores is at most half a Resolution early.
LEMMA StoredIsClose ==
    ASSUME NEW x \in Nat, NEW e \in StoredAs(x)
    PROVE  e \in Nat /\ 2 * x <= 2 * e + Resolution - 1
BY LockerAssumption DEF StoredAs

\* Init establishes the invariant.
LEMMA InitInv == Init => Inv
BY LockerAssumption
   DEF Init, Inv, TypeOK, StartRead, PromiseGrows, RowBacked, RelierOwns, Relies, NoRow,
       Backends

\* An entry that the clock of some caller calls expired is relied on by nobody.
LEMMA ExpiredIsFree ==
    ASSUME MarginSuffices, Inv, row.tok # None,
           NEW c \in Nat, c <= now + MaxSkew, row.exp < c \/ row.exp <= now
    PROVE  promised[row.tok] - Margin <= now /\ \A h \in Handles : ~Relies(h)
<1>1. row.tok \in Handles /\ row.exp \in Nat /\ promised[row.tok] \in Nat /\ now \in Nat
  BY DEF Inv, TypeOK
<1>2. 2 * promised[row.tok] <= 2 * row.exp + Resolution - 1
  BY DEF Inv, RowBacked
<1>3. row.exp <= now + MaxSkew - 1 \/ row.exp <= now
  BY <1>1, LockerAssumption
<1>4. promised[row.tok] <= now + Margin
  BY <1>1, <1>2, <1>3, LockerAssumption DEF MarginSuffices
<1>5. \A h \in Handles : Relies(h) => h = row.tok
  BY DEF Inv, RelierOwns
<1>6. ~Relies(row.tok)
  BY <1>4, <1>1, LockerAssumption DEF Relies
<1> QED
  BY <1>1, <1>4, <1>5, <1>6, LockerAssumption

\* Taking an entry that nobody else relies on keeps the invariant.
LEMMA TakeInv ==
    ASSUME Inv, NEW h \in Handles, NEW e \in Nat,
           pc[h] \in {"try", "insert", "refresh"},
           2 * (start[h] + TTL) <= 2 * e + Resolution - 1,
           \A g \in Handles : Relies(g) => g = h,
           Take(h, e)
    PROVE  Inv'
<1> USE LockerAssumption DEF Take, setup
<1>1. TypeOK'
  BY DEF Inv, TypeOK
<1>2. StartRead'
  BY DEF Inv, TypeOK, StartRead, Clock
<1>3. PromiseGrows'
  <2> SUFFICES ASSUME NEW g \in Handles
               PROVE  /\ pc'[g] = "held" => promised'[g] <= Clock(g)' + TTL
                      /\ pc'[g] = "refresh" => promised'[g] <= start'[g] + TTL
    BY DEF PromiseGrows
  <2>1. CASE g = h
    BY <2>1 DEF Inv, TypeOK, StartRead, Clock
  <2>2. CASE g # h
    BY <2>2 DEF Inv, TypeOK, PromiseGrows, Clock
  <2> QED BY <2>1, <2>2
<1>4. RowBacked'
  BY DEF Inv, TypeOK, RowBacked
<1>5. RelierOwns'
  BY DEF Inv, TypeOK, RelierOwns, Relies
<1> QED BY <1>1, <1>2, <1>3, <1>4, <1>5 DEF Inv

\* A call that only changes its own place keeps the invariant.
LEMMA StepInv ==
    ASSUME Inv, NEW h \in Handles, NEW p \in {"insert", "lost", "failed"},
           pc[h] \in {"idle", "try", "insert", "held", "refresh"},
           p = "insert" => pc[h] = "try",
           Step(h, p)
    PROVE  Inv'
<1> USE LockerAssumption DEF Step, setup
<1>1. TypeOK'
  BY DEF Inv, TypeOK
<1>2. StartRead'
  BY DEF Inv, TypeOK, StartRead, Clock
<1>3. PromiseGrows'
  BY DEF Inv, TypeOK, PromiseGrows, Clock
<1>4. RowBacked'
  BY DEF Inv, RowBacked
<1>5. RelierOwns'
  BY DEF Inv, TypeOK, RelierOwns, Relies
<1> QED BY <1>1, <1>2, <1>3, <1>4, <1>5 DEF Inv

\* The clock a statement was given is not ahead by more than the skew.
LEMMA StartBound ==
    ASSUME Inv, NEW h \in Handles, pc[h] \in {"try", "insert", "refresh"}
    PROVE  start[h] \in Nat /\ start[h] <= now + MaxSkew
BY LockerAssumption DEF Inv, TypeOK, StartRead, Clock

\* Every step keeps the invariant.
LEMMA NextInv == ASSUME MarginSuffices, Inv, [Next]_vars PROVE Inv'
<1> USE LockerAssumption
<1>1. CASE UNCHANGED vars
  BY <1>1 DEF vars, setup, Inv, TypeOK, StartRead, PromiseGrows, RowBacked, RelierOwns,
              Relies, Clock
<1>2. CASE Tick
  <2>1. TypeOK'
    BY <1>2 DEF Tick, setup, Inv, TypeOK
  <2>2. StartRead' /\ PromiseGrows'
    BY <1>2 DEF Tick, setup, Inv, TypeOK, StartRead, PromiseGrows, Clock
  <2>3. RowBacked' /\ RelierOwns'
    BY <1>2 DEF Tick, setup, Inv, TypeOK, RowBacked, RelierOwns, Relies
  <2> QED BY <2>1, <2>2, <2>3 DEF Inv
<1>3. ASSUME NEW h \in Handles, AcquireBegin(h) PROVE Inv'
  <2>1. TypeOK'
    BY <1>3 DEF AcquireBegin, setup, Inv, TypeOK, Clock
  <2>2. StartRead' /\ PromiseGrows'
    BY <1>3 DEF AcquireBegin, setup, Inv, TypeOK, StartRead, PromiseGrows, Clock
  <2>3. RowBacked' /\ RelierOwns'
    BY <1>3 DEF AcquireBegin, setup, Inv, TypeOK, RowBacked, RelierOwns, Relies
  <2> QED BY <2>1, <2>2, <2>3 DEF Inv
<1>4. ASSUME NEW h \in Handles, CleanupExpired(h) PROVE Inv'
  <2>1. \A g \in Handles : ~Relies(g)
    BY <1>4, StartBound, ExpiredIsFree DEF CleanupExpired
  <2>2. TypeOK'
    BY <1>4 DEF CleanupExpired, setup, Inv, TypeOK, NoRow
  <2>3. StartRead' /\ PromiseGrows'
    BY <1>4 DEF CleanupExpired, setup, Inv, StartRead, PromiseGrows, Clock
  <2>4. RowBacked' /\ RelierOwns'
    BY <1>4, <2>1 DEF CleanupExpired, setup, Inv, TypeOK, RowBacked, RelierOwns, Relies, NoRow
  <2> QED BY <2>2, <2>3, <2>4 DEF Inv
<1>5. ASSUME NEW h \in Handles, AcquireMemory(h) PROVE Inv'
  <2>1. CASE row.tok # None /\ row.exp > now
    BY <1>5, <2>1, StepInv DEF AcquireMemory
  <2>2. CASE ~(row.tok # None /\ row.exp > now)
    <3>1. \A g \in Handles : ~Relies(g)
      <4>1. CASE row.tok = None
        BY <4>1 DEF Inv, RelierOwns
      <4>2. CASE row.tok # None
        <5>1. now \in Nat /\ now <= now + MaxSkew /\ row.exp <= now
          BY <2>2, <4>2 DEF Inv, TypeOK
        <5> QED BY <5>1, <4>2, ExpiredIsFree
      <4> QED BY <4>1, <4>2
    <3>2. TypeOK'
      BY <1>5, <2>2 DEF AcquireMemory, setup, Inv, TypeOK
    <3>3. StartRead' /\ PromiseGrows'
      BY <1>5, <2>2 DEF AcquireMemory, setup, Inv, TypeOK, StartRead, PromiseGrows, Clock
    <3>4. RowBacked' /\ RelierOwns'
      BY <1>5, <2>2, <3>1 DEF AcquireMemory, setup, Inv, TypeOK, RowBacked, RelierOwns, Relies
    <3> QED BY <3>2, <3>3, <3>4 DEF Inv
  <2> QED BY <2>1, <2>2
<1>6. ASSUME NEW h \in Handles, AcquireRedis(h) PROVE Inv'
  <2>1. CASE row.tok # None /\ row.exp > now
    BY <1>6, <2>1, StepInv DEF AcquireRedis
  <2>2. CASE ~(row.tok # None /\ row.exp > now)
    <3>1. \A g \in Handles : ~Relies(g)
      <4>1. CASE row.tok = None
        BY <4>1 DEF Inv, RelierOwns
      <4>2. CASE row.tok # None
        <5>1. now \in Nat /\ now <= now + MaxSkew /\ row.exp <= now
          BY <2>2, <4>2 DEF Inv, TypeOK
        <5> QED BY <5>1, <4>2, ExpiredIsFree
      <4> QED BY <4>1, <4>2
    <3>2. now + TTL \in Nat /\ 2 * (start[h] + TTL) <= 2 * (now + TTL) + Resolution - 1
      BY <1>6 DEF AcquireRedis, Inv, TypeOK, StartRead, Clock
    <3>3. Take(h, now + TTL) /\ pc[h] = "try"
      BY <1>6, <2>2 DEF AcquireRedis
    <3> QED BY <3>1, <3>2, <3>3, TakeInv
  <2> QED BY <2>1, <2>2
<1>7. ASSUME NEW h \in Handles, TryAcquire(h) PROVE Inv'
  <2>1. CASE row.tok # None /\ ~(row.exp < start[h])
    BY <1>7, <2>1, StepInv DEF TryAcquire
  <2>2. CASE ~(row.tok # None /\ ~(row.exp < start[h]))
    <3>1. pc[h] = "try" /\ Take(h, start[h] + TTL)
      BY <1>7, <2>2 DEF TryAcquire
    <3>2. \A g \in Handles : ~Relies(g)
      <4>1. CASE row.tok = None
        BY <4>1 DEF Inv, RelierOwns
      <4>2. CASE row.tok # None
        BY <4>2, <2>2, <3>1, StartBound, ExpiredIsFree
      <4> QED BY <4>1, <4>2
    <3>3. start[h] + TTL \in Nat
           /\ 2 * (start[h] + TTL) <= 2 * (start[h] + TTL) + Resolution - 1
      BY DEF Inv, TypeOK
    <3> QED BY <3>1, <3>2, <3>3, TakeInv
  <2> QED BY <2>1, <2>2
<1>8. ASSUME NEW h \in Handles, StealMySQL(h) PROVE Inv'
  <2>1. CASE Step(h, "insert")
    BY <1>8, <2>1, StepInv DEF StealMySQL
  <2>2. CASE /\ row.tok # None
             /\ row.exp < start[h]
             /\ \E e \in StoredAs(start[h] + TTL) : Take(h, e)
    <3>1. pc[h] = "try"
      BY <1>8 DEF StealMySQL
    <3>2. \A g \in Handles : ~Relies(g)
      BY <2>2, <3>1, StartBound, ExpiredIsFree
    <3>3. start[h] + TTL \in Nat
      BY DEF Inv, TypeOK
    <3>4. PICK e \in StoredAs(start[h] + TTL) : Take(h, e)
      BY <2>2
    <3>5. e \in Nat /\ 2 * (start[h] + TTL) <= 2 * e + Resolution - 1
      BY <3>3, StoredIsClose
    <3> QED BY <3>1, <3>2, <3>4, <3>5, TakeInv
  <2> QED BY <1>8, <2>1, <2>2 DEF StealMySQL
<1>9. ASSUME NEW h \in Handles, InsertMySQL(h) PROVE Inv'
  <2>1. CASE Step(h, "failed")
    BY <1>9, <2>1, StepInv DEF InsertMySQL
  <2>2. CASE row.tok = None /\ \E e \in StoredAs(start[h] + TTL) : Take(h, e)
    <3>1. pc[h] = "insert"
      BY <1>9 DEF InsertMySQL
    <3>2. \A g \in Handles : ~Relies(g)
      BY <2>2 DEF Inv, RelierOwns
    <3>3. start[h] + TTL \in Nat
      BY DEF Inv, TypeOK
    <3>4. PICK e \in StoredAs(start[h] + TTL) : Take(h, e)
      BY <2>2
    <3>5. e \in Nat /\ 2 * (start[h] + TTL) <= 2 * e + Resolution - 1
      BY <3>3, StoredIsClose
    <3> QED BY <3>1, <3>2, <3>4, <3>5, TakeInv
  <2> QED BY <1>9, <2>1, <2>2 DEF InsertMySQL
<1>10. ASSUME NEW h \in Handles, Release(h) PROVE Inv'
  <2>1. TypeOK'
    BY <1>10 DEF Release, setup, Inv, TypeOK, NoRow
  <2>2. StartRead' /\ PromiseGrows'
    BY <1>10 DEF Release, setup, Inv, TypeOK, StartRead, PromiseGrows, Clock
  <2>3. RowBacked' /\ RelierOwns'
    BY <1>10 DEF Release, setup, Inv, TypeOK, RowBacked, RelierOwns, Relies, NoRow
  <2> QED BY <2>1, <2>2, <2>3 DEF Inv
<1>11. ASSUME NEW h \in Handles, RefreshBegin(h) PROVE Inv'
  <2>1. TypeOK'
    BY <1>11 DEF RefreshBegin, setup, Inv, TypeOK, Clock
  <2>2. StartRead' /\ PromiseGrows'
    BY <1>11 DEF RefreshBegin, setup, Inv, TypeOK, StartRead, PromiseGrows, Clock
  <2>3. RowBacked' /\ RelierOwns'
    BY <1>11 DEF RefreshBegin, setup, Inv, TypeOK, RowBacked, RelierOwns, Relies
  <2> QED BY <2>1, <2>2, <2>3 DEF Inv
<1>12. ASSUME NEW h \in Handles, Refresh(h) PROVE Inv'
  <2>1. CASE Step(h, "lost")
    BY <1>12, <2>1, StepInv DEF Refresh
  <2>2. CASE ~Step(h, "lost")
    <3>1. pc[h] = "refresh" /\ row.tok = h
      BY <1>12, <2>2 DEF Refresh
    <3>2. \A g \in Handles : Relies(g) => g = h
      BY <3>1 DEF Inv, RelierOwns
    <3>3. start[h] + TTL \in Nat /\ now + TTL \in Nat
      BY DEF Inv, TypeOK
    <3>4. CASE backend = "redis"
      <4>1. Take(h, now + TTL)
        BY <1>12, <2>2, <3>4 DEF Refresh
      <4>2. 2 * (start[h] + TTL) <= 2 * (now + TTL) + Resolution - 1
        BY <3>1, <3>4 DEF Inv, TypeOK, StartRead, Clock
      <4> QED BY <3>1, <3>2, <3>3, <4>1, <4>2, TakeInv
    <3>5. CASE backend # "redis"
      <4>1. PICK e \in StoredAs(start[h] + TTL) : Take(h, e)
        BY <1>12, <2>2, <3>5 DEF Refresh
      <4>2. e \in Nat /\ 2 * (start[h] + TTL) <= 2 * e + Resolution - 1
        BY <3>3, StoredIsClose
      <4> QED BY <3>1, <3>2, <4>1, <4>2, TakeInv
    <3> QED BY <3>4, <3>5
  <2> QED BY <2>1, <2>2
<1>13. ASSUME NEW h \in Handles, RefreshMemory(h) PROVE Inv'
  <2>1. CASE row.tok = h /\ row.exp > now
    <3>1. TypeOK'
      BY <1>13, <2>1 DEF RefreshMemory, setup, Inv, TypeOK
    <3>2. StartRead' /\ PromiseGrows'
      BY <1>13, <2>1 DEF RefreshMemory, setup, Inv, TypeOK, StartRead, PromiseGrows, Clock
    <3>3. RowBacked' /\ RelierOwns'
      BY <1>13, <2>1 DEF RefreshMemory, setup, Inv, TypeOK, RowBacked, RelierOwns, Relies
    <3> QED BY <3>1, <3>2, <3>3 DEF Inv
  <2>2. CASE ~(row.tok = h /\ row.exp > now)
    BY <1>13, <2>2, StepInv DEF RefreshMemory
  <2> QED BY <2>1, <2>2
<1> QED
  BY <1>1, <1>2, <1>3, <1>4, <1>5, <1>6, <1>7, <1>8, <1>9, <1>10, <1>11, <1>12, <1>13 DEF Next

\* The invariant holds in every reachable state.
LEMMA SpecInv == ASSUME MarginSuffices PROVE Spec => []Inv
<1>1. Init => Inv
  BY InitInv
<1>2. Inv /\ [Next]_vars => Inv'
  BY NextInv
<1> QED BY <1>1, <1>2, PTL DEF Spec

\* Every call, entry and promise of a lock keeps to its type.
THEOREM TypeCorrect == ASSUME MarginSuffices PROVE Spec => []TypeOK
<1>1. Inv => TypeOK
  BY DEF Inv
<1> QED BY <1>1, SpecInv, PTL

\* No two holders rely on the lock at the same time, whatever the backend, the
\* number of callers, their delays and the ttl.
THEOREM Exclusive == ASSUME MarginSuffices PROVE Spec => []MutualExclusion
<1>1. Inv => MutualExclusion
  BY DEF Inv, RelierOwns, MutualExclusion
<1> QED BY <1>1, SpecInv, PTL

\* The value the holder relies on, as Lease sees it.
Until == IF row.tok = None THEN 0 ELSE promised[row.tok] - Margin

\* The released handles, as Lease sees them.
Gone == {h \in Handles : pc[h] = "released"}

\* Taking an entry that is free or no longer relied on is a Grant.
LEMMA TakeIsGrant ==
    ASSUME Inv, NEW h \in Handles, NEW e \in Nat, Take(h, e), pc[h] # "released",
           row.tok = None \/ Until <= now
    PROVE  Abstract!Grant(h)
<1>1. row'.tok = h /\ promised'[h] = start[h] + TTL /\ now' = now /\ h # None
  BY LockerAssumption DEF Take, setup, Inv, TypeOK
<1>2. Until' \in Int
  BY <1>1, LockerAssumption DEF Until, Inv, TypeOK
<1>3. Gone' = Gone
  BY DEF Take, Gone, Inv, TypeOK
<1> QED BY <1>1, <1>2, <1>3 DEF Abstract!Grant, Until, Gone

\* Steps that leave the entry alone, and the promise of its owner, are invisible.
LEMMA SameEntry ==
    ASSUME row' = row, now' = now, promised' = promised, Gone' = Gone
    PROVE  UNCHANGED Abstract!leaseVars
BY DEF Abstract!leaseVars, Gone

\* An entry that a caller's clock calls expired is over for its owner too.
LEMMA ExpiredIsOver ==
    ASSUME MarginSuffices, Inv, row.tok # None,
           NEW c \in Nat, c <= now + MaxSkew, row.exp < c \/ row.exp <= now
    PROVE  Until <= now
BY ExpiredIsFree DEF Until

\* Every step of a backend is a step of Lease, or invisible to it.
LEMMA StepSimulation ==
    ASSUME MarginSuffices, Inv, [Next]_vars
    PROVE  [Abstract!LeaseNext]_(Abstract!leaseVars)
<1> USE LockerAssumption
<1>1. CASE UNCHANGED vars
  BY <1>1, SameEntry DEF vars, Gone
<1>2. CASE Tick
  <2>1. Abstract!Pass
    BY <1>2 DEF Tick, Abstract!Pass
  <2> QED BY <2>1 DEF Abstract!LeaseNext
<1>3. ASSUME NEW h \in Handles, AcquireBegin(h) \/ RefreshBegin(h)
      PROVE  UNCHANGED Abstract!leaseVars
  BY <1>3, SameEntry DEF AcquireBegin, RefreshBegin, Gone, Inv, TypeOK
<1>4. ASSUME NEW h \in Handles, NEW p, p # "released", pc[h] # "released", Step(h, p)
      PROVE  UNCHANGED Abstract!leaseVars
  BY <1>4, SameEntry DEF Step, Gone, Inv, TypeOK
<1>5. ASSUME NEW h \in Handles, CleanupExpired(h) PROVE Abstract!Forget
  <2>1. Until <= now
    BY <1>5, StartBound, ExpiredIsOver DEF CleanupExpired
  <2> QED BY <1>5, <2>1 DEF CleanupExpired, Abstract!Forget, Until, NoRow, Gone
<1>6. ASSUME NEW h \in Handles, AcquireMemory(h)
      PROVE  Abstract!Grant(h) \/ UNCHANGED Abstract!leaseVars
  <2>1. CASE row.tok # None /\ row.exp > now
    BY <1>6, <2>1, <1>4 DEF AcquireMemory
  <2>2. CASE ~(row.tok # None /\ row.exp > now)
    <3>1. row.tok = None \/ Until <= now
      <4>1. now \in Nat /\ now <= now + MaxSkew /\ row.exp \in Nat
        BY DEF Inv, TypeOK
      <4> QED BY <4>1, <2>2, ExpiredIsOver
    <3>2. row'.tok = h /\ promised'[h] = now + TTL /\ now' = now /\ h # None
      BY <1>6, <2>2 DEF AcquireMemory, Inv, TypeOK
    <3>3. Until' \in Int
      BY <3>2 DEF Until, Inv, TypeOK
    <3>4. Gone' = Gone
      BY <1>6, <2>2 DEF AcquireMemory, Gone, Inv, TypeOK
    <3> QED BY <3>1, <3>2, <3>3, <3>4 DEF Abstract!Grant, Until, Gone
  <2> QED BY <2>1, <2>2
<1>7. ASSUME NEW h \in Handles, AcquireRedis(h)
      PROVE  Abstract!Grant(h) \/ UNCHANGED Abstract!leaseVars
  <2>1. CASE row.tok # None /\ row.exp > now
    BY <1>7, <2>1, <1>4 DEF AcquireRedis
  <2>2. CASE ~(row.tok # None /\ row.exp > now)
    <3>1. now \in Nat /\ now <= now + MaxSkew /\ row.exp \in Nat /\ now + TTL \in Nat
      BY DEF Inv, TypeOK
    <3>2. row.tok = None \/ Until <= now
      BY <3>1, <2>2, ExpiredIsOver
    <3> QED BY <1>7, <2>2, <3>1, <3>2, TakeIsGrant DEF AcquireRedis
  <2> QED BY <2>1, <2>2
<1>8. ASSUME NEW h \in Handles, TryAcquire(h)
      PROVE  Abstract!Grant(h) \/ UNCHANGED Abstract!leaseVars
  <2>1. CASE row.tok # None /\ ~(row.exp < start[h])
    BY <1>8, <2>1, <1>4 DEF TryAcquire
  <2>2. CASE ~(row.tok # None /\ ~(row.exp < start[h]))
    <3>1. start[h] + TTL \in Nat /\ pc[h] = "try"
      BY <1>8 DEF TryAcquire, Inv, TypeOK
    <3>2. row.tok = None \/ Until <= now
      BY <2>2, <3>1, StartBound, ExpiredIsOver
    <3> QED BY <1>8, <2>2, <3>1, <3>2, TakeIsGrant DEF TryAcquire
  <2> QED BY <2>1, <2>2
<1>9. ASSUME NEW h \in Handles, StealMySQL(h) \/ InsertMySQL(h)
      PROVE  Abstract!Grant(h) \/ UNCHANGED Abstract!leaseVars
  <2> pc[h] # "released"
    BY <1>9 DEF StealMySQL, InsertMySQL
  <2>1. CASE Step(h, "insert") \/ Step(h, "failed")
    BY <2>1, <1>4
  <2>2. CASE \E e \in StoredAs(start[h] + TTL) :
                 Take(h, e) /\ (row.tok = None \/ (pc[h] = "try" /\ row.exp < start[h]))
    <3>1. PICK e \in StoredAs(start[h] + TTL) :
                 Take(h, e) /\ (row.tok = None \/ (pc[h] = "try" /\ row.exp < start[h]))
      BY <2>2
    <3>2. start[h] + TTL \in Nat
      BY DEF Inv, TypeOK
    <3>3. e \in Nat
      BY <3>2, StoredIsClose
    <3>4. row.tok = None \/ Until <= now
      BY <3>1, StartBound, ExpiredIsOver
    <3> QED BY <3>1, <3>3, <3>4, TakeIsGrant
  <2> QED BY <1>9, <2>1, <2>2 DEF StealMySQL, InsertMySQL
<1>10. ASSUME NEW h \in Handles, Release(h)
       PROVE  Abstract!Return(h)
  <2>1. Gone' = Gone \cup {h}
    BY <1>10 DEF Release, Gone, Inv, TypeOK
  <2>2. CASE row.tok = h
    BY <1>10, <2>1, <2>2 DEF Release, Abstract!Return, NoRow, Gone
  <2>3. CASE row.tok # h
    BY <1>10, <2>1, <2>3 DEF Release, Abstract!Return, Gone
  <2> QED BY <2>2, <2>3
<1>11. ASSUME NEW h \in Handles, NEW e \in Nat, row.tok = h, pc[h] = "refresh", Take(h, e)
       PROVE  Abstract!Extend(h)
  <2>1. row'.tok = h /\ promised'[h] = start[h] + TTL /\ now' = now /\ h # None
    BY <1>11 DEF Take, Inv, TypeOK
  <2>2. promised[h] <= start[h] + TTL
    BY <1>11 DEF Inv, PromiseGrows
  <2>3. Until' \in Int /\ Until' >= Until
    BY <1>11, <2>1, <2>2 DEF Until, Inv, TypeOK
  <2>4. Gone' = Gone
    BY <1>11 DEF Take, Gone, Inv, TypeOK
  <2> QED BY <1>11, <2>1, <2>3, <2>4 DEF Abstract!Extend, Until, Gone
<1>12. ASSUME NEW h \in Handles, Refresh(h)
       PROVE  Abstract!Extend(h) \/ UNCHANGED Abstract!leaseVars
  <2>1. CASE Step(h, "lost")
    BY <1>12, <2>1, <1>4 DEF Refresh
  <2>2. CASE ~Step(h, "lost")
    <3>1. pc[h] = "refresh" /\ row.tok = h
      BY <1>12, <2>2 DEF Refresh
    <3>2. start[h] + TTL \in Nat /\ now + TTL \in Nat
      BY DEF Inv, TypeOK
    <3>3. Take(h, now + TTL) \/ \E e \in StoredAs(start[h] + TTL) : Take(h, e)
      BY <1>12, <2>2 DEF Refresh
    <3>4. CASE Take(h, now + TTL)
      BY <1>11, <3>1, <3>2, <3>4
    <3>5. CASE \E e \in StoredAs(start[h] + TTL) : Take(h, e)
      BY <1>11, <3>1, <3>2, <3>5, StoredIsClose
    <3> QED BY <3>3, <3>4, <3>5
  <2> QED BY <2>1, <2>2
<1>13. ASSUME NEW h \in Handles, RefreshMemory(h)
       PROVE  Abstract!Extend(h) \/ UNCHANGED Abstract!leaseVars
  <2>1. CASE row.tok = h /\ row.exp > now
    <3>1. row'.tok = h /\ promised'[h] = now + TTL /\ now' = now /\ h # None
      BY <1>13, <2>1 DEF RefreshMemory, Inv, TypeOK
    <3>2. promised[h] <= now + TTL
      BY <1>13 DEF RefreshMemory, Inv, PromiseGrows, Clock
    <3>3. Until' \in Int /\ Until' >= Until
      BY <2>1, <3>1, <3>2 DEF Until, Inv, TypeOK
    <3>4. Gone' = Gone
      BY <1>13, <2>1 DEF RefreshMemory, Gone
    <3> QED BY <2>1, <3>1, <3>3, <3>4 DEF Abstract!Extend, Until, Gone
  <2>2. CASE ~(row.tok = h /\ row.exp > now)
    BY <1>13, <2>2, <1>4 DEF RefreshMemory
  <2> QED BY <2>1, <2>2
<1>14. CASE Next
  BY <1>14, <1>2, <1>3, <1>5, <1>6, <1>7, <1>8, <1>9, <1>10, <1>12, <1>13
     DEF Next, Abstract!LeaseNext
<1> QED BY <1>1, <1>14

\* Every backend of the locker implements the promise of its interface: a lock
\* changes hands only by Release or when its holder no longer relies on it.
THEOREM Implements == ASSUME MarginSuffices PROVE Spec => ImplementsLease
<1>1. Init => Abstract!LeaseInit
  BY DEF Init, NoRow, Abstract!LeaseInit, Gone
<1>2. Inv /\ [Next]_vars => [Abstract!LeaseNext]_(Abstract!leaseVars)
  BY StepSimulation
<1> QED BY <1>1, <1>2, SpecInv, PTL DEF Spec, ImplementsLease, Abstract!LeaseSpec
=============================================================================
