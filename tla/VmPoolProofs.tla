---------------------------- MODULE VmPoolProofs ----------------------------
(***************************************************************************)
(* Proofs about the warm VM pool, for any set of callers, any cap, any     *)
(* target sizes and any number of calls.  The inductive invariant is IInv: *)
(* the checked invariants and three facts about the state between two      *)
(* critical sections that they rest on.                                    *)
(***************************************************************************)
EXTENDS VmPool, FiniteSetTheorems, TLAPS

\* Every queued VM has a ticket that was given out.
TicketsGiven == \A k \in DOMAIN ready : k \in 1 .. Arrivals

\* While VMs are being created, their ids are the last ones allocated.
BatchIsLast == pc[Replenisher] = "filling" => batch.first + batch.count = nextId

\* Only the replenisher creates VMs or ends; a caller in a wait holds no VM.
CallersCall == \A c \in Callers : pc[c] \in {"run", "parked", "woken"}
WaitersHoldNothing == \A c \in Callers : pc[c] # "run" => held[c] = NoVm

IInv ==
    /\ TypeOK /\ WithinCap /\ OwnedOnce /\ StatsExact /\ ParkedOnlyIfEmpty
    /\ TicketsGiven /\ BatchIsLast /\ CallersCall /\ WaitersHoldNothing

PcStates == {"run", "parked", "woken", "filling", "done"}

-----------------------------------------------------------------------------
\* The condition variable: a notification changes nothing but parked threads,
\* which become woken.
LEMMA NotifyFacts ==
    ASSUME NEW p \in [Threads -> PcStates], NEW q,
           q \in NotifyOne(p) \/ q = NotifyAll(p)
    PROVE  /\ q \in [Threads -> PcStates]
           /\ \A t \in Threads : q[t] = p[t] \/ (p[t] = "parked" /\ q[t] = "woken")
BY Zenon DEF NotifyOne, NotifyAll, Parked, PcStates

\* The queue's size is a natural number.
LEMMA SizeType ==
    ASSUME NEW q, IsFiniteSet(DOMAIN q)
    PROVE  Size(q) \in Nat
BY Zenon, FS_CardinalityType DEF Size

\* The tickets of a batch of n VMs, and the size of a queue they join.
LEMMA IntervalSize ==
    ASSUME NEW a \in Nat, NEW n \in Nat
    PROVE  IsFiniteSet(a + 1 .. a + n) /\ Cardinality(a + 1 .. a + n) = n
<1>1. a + 1 \in Int /\ a + n \in Int
  OBVIOUS
<1>2. /\ IsFiniteSet(a + 1 .. a + n)
      /\ Cardinality(a + 1 .. a + n) = IF a + 1 > a + n THEN 0 ELSE a + n - (a + 1) + 1
  BY <1>1, FS_Interval
<1> QED
  BY <1>2

(* The VMs of two disjoint sets are counted separately.                    *)
LEMMA DisjointUnion ==
    ASSUME NEW S, NEW T, IsFiniteSet(S), IsFiniteSet(T), S \cap T = {}
    PROVE  /\ IsFiniteSet(S \cup T)
           /\ Cardinality(S \cup T) = Cardinality(S) + Cardinality(T)
<1>1. /\ IsFiniteSet(S \cup T)
      /\ Cardinality(S \cup T) = Cardinality(S) + Cardinality(T) - Cardinality(S \cap T)
  BY Zenon, FS_Union, Zenon
<1>2. Cardinality(S \cap T) = 0
  BY Zenon, FS_EmptySet
<1>3. Cardinality(S) \in Nat /\ Cardinality(T) \in Nat
  BY Zenon, FS_CardinalityType
<1> QED
  BY <1>1, <1>2, <1>3

\* The call counter stays within its bound.
LEMMA CallBound ==
    ASSUME calls \in 0 .. MaxCalls, Call \/ calls' = calls
    PROVE  calls' \in 0 .. MaxCalls
BY PoolAssumption DEF Call

\* The initial state.
LEMMA InitIInv == Init => IInv
<1> SUFFICES ASSUME Init PROVE IInv
  BY Zenon
<1> USE PoolAssumption
<1>1. DOMAIN ready = {}
  BY Zenon DEF Init
<1>2. Size(ready) = 0 /\ IsFiniteSet(DOMAIN ready)
  BY Zenon, <1>1, FS_EmptySet DEF Size
<1>3. TypeOK
  BY <1>1, <1>2 DEF Init, TypeOK, NoVm, Threads
<1>4. WithinCap /\ StatsExact
  BY <1>2 DEF Init, WithinCap, StatsExact
<1>5. OwnedOnce /\ ParkedOnlyIfEmpty /\ TicketsGiven
  BY Zenon, <1>1 DEF Init, OwnedOnce, ParkedOnlyIfEmpty, TicketsGiven, NoVm, Threads
<1>6. BatchIsLast /\ CallersCall /\ WaitersHoldNothing
  BY Zenon DEF Init, BatchIsLast, CallersCall, WaitersHoldNothing, Threads
<1> QED
  BY Zenon, <1>3, <1>4, <1>5, <1>6 DEF IInv

-----------------------------------------------------------------------------
\* Handing out the front VM keeps the invariant, whatever the thread was doing
\* before (acquire, acquire_timeout, and its two ways out of the wait).
LEMMA TakeFrontIInv ==
    ASSUME IInv, NEW c \in Callers, NEW p \in [Threads -> PcStates],
           p = pc \/ p = [pc EXCEPT ![c] = "run"],
           p[c] = "run",
           held[c] = NoVm,
           TakeFront(c, p), calls' \in 0 .. MaxCalls,
           UNCHANGED <<nextId, targetSize, phase, batch, agedBelow, returned>>
    PROVE  IInv'
<1> USE PoolAssumption
<1>1. PICK k \in DOMAIN ready :
          /\ ready' = [j \in DOMAIN ready \ {k} |-> ready[j]]
          /\ held' = [held EXCEPT ![c] = ready[k]]
          /\ stats' = [stats EXCEPT !.total_assigned = @ + 1,
                                    !.ready_count = Size(ready) - 1]
          /\ pc' \in NotifyOne(p)
  BY Zenon DEF TakeFront, WithoutFront
<1>2. /\ IsFiniteSet(DOMAIN ready')
      /\ Size(ready') = Size(ready) - 1
      /\ Size(ready) \in Nat /\ Size(ready') \in Nat
      /\ DOMAIN ready' = DOMAIN ready \ {k}
  BY Zenon, <1>1, FS_RemoveElement, SizeType, FS_CardinalityType DEF Size, IInv, TypeOK
<1>3. pc' \in [Threads -> PcStates]
      /\ \A t \in Threads : pc'[t] = p[t] \/ (p[t] = "parked" /\ pc'[t] = "woken")
  BY Zenon, <1>1, NotifyFacts
<1>4. Replenisher \in Threads /\ c \in Threads /\ c # Replenisher /\ Callers \subseteq Threads
  BY Zenon DEF Threads
<1>5. /\ pc'[Replenisher] = "filling" => pc[Replenisher] = "filling"
      /\ \A d \in Callers : pc'[d] = "parked" => pc[d] = "parked"
  BY Zenon, <1>3, <1>4 DEF IInv, TypeOK
<1>6. TypeOK'
  <2>1. /\ DOMAIN ready' \subseteq Nat
        /\ ready' \in [DOMAIN ready' -> 1 .. nextId' - 1]
        /\ held' \in [Callers -> 0 .. nextId' - 1]
    BY <1>1, <1>2 DEF IInv, TypeOK
  <2>2. stats' \in [ready_count : Nat, total_assigned : Nat, total_created : Nat,
                    total_expired : Nat, pool_misses : Nat]
    <3>1. Size(ready) - 1 \in Nat /\ stats.total_assigned + 1 \in Nat
      BY <1>2 DEF IInv, TypeOK
    <3> QED
      BY Zenon, <1>1, <3>1 DEF IInv, TypeOK
  <2>3. pc' \in [Threads -> {"run", "parked", "woken", "filling", "done"}]
    BY Zenon, <1>3 DEF PcStates
  <2> QED
    BY Zenon, <1>2, <2>1, <2>2, <2>3 DEF IInv, TypeOK
<1>7. WithinCap' /\ StatsExact'
  BY <1>1, <1>2 DEF IInv, WithinCap, StatsExact, TypeOK
<1>8. OwnedOnce'
  BY <1>1, <1>2, <1>5 DEF IInv, OwnedOnce, TypeOK, NoVm
<1>9. ParkedOnlyIfEmpty'
  BY Zenon, <1>1, <1>2, <1>5 DEF IInv, ParkedOnlyIfEmpty
<1>10. TicketsGiven'
  BY Zenon, <1>1, <1>2 DEF IInv, TicketsGiven, Arrivals, TypeOK
<1>11. BatchIsLast'
  BY Zenon, <1>5 DEF IInv, BatchIsLast
<1>12. CallersCall' /\ WaitersHoldNothing'
  BY <1>1, <1>3, <1>4 DEF IInv, CallersCall, WaitersHoldNothing, TypeOK
<1> QED
  BY Zenon, <1>6, <1>7, <1>8, <1>9, <1>10, <1>11, <1>12 DEF IInv

\* A step that leaves the queue, the VMs' owners and the counters alone and
\* parks or releases only callers of an empty pool keeps the invariant.
LEMMA IdleIInv ==
    ASSUME IInv, UNCHANGED <<ready, held, nextId, batch, returned>>,
           stats' \in [ready_count : Nat, total_assigned : Nat, total_created : Nat,
                       total_expired : Nat, pool_misses : Nat],
           stats'.ready_count = stats.ready_count,
           stats'.total_assigned = stats.total_assigned,
           stats'.total_created = stats.total_created,
           stats'.total_expired = stats.total_expired,
           targetSize' \in Nat, phase' \in {"open", "joining", "closed"},
           agedBelow' \in Nat, calls' \in 0 .. MaxCalls,
           pc' \in [Threads -> PcStates],
           pc'[Replenisher] = "filling" => pc[Replenisher] = "filling",
           \A d \in Callers : /\ pc'[d] \in {"run", "parked", "woken"}
                              /\ pc'[d] = "parked" => pc[d] = "parked" \/ DOMAIN ready = {}
                              /\ pc'[d] # "run" => pc[d] # "run" \/ held[d] = NoVm
    PROVE  IInv'
<1>1. TypeOK'
  BY Zenon DEF IInv, TypeOK, PcStates
<1>2. WithinCap' /\ StatsExact'
  BY Zenon DEF IInv, WithinCap, StatsExact
<1>3. OwnedOnce'
  BY DEF IInv, OwnedOnce
<1>4. ParkedOnlyIfEmpty'
  BY Zenon DEF IInv, ParkedOnlyIfEmpty
<1>5. TicketsGiven' /\ BatchIsLast' /\ CallersCall' /\ WaitersHoldNothing'
  BY Zenon DEF IInv, TicketsGiven, Arrivals, BatchIsLast, CallersCall, WaitersHoldNothing
<1> QED
  BY Zenon, <1>1, <1>2, <1>3, <1>4, <1>5 DEF IInv

\* An empty pool: the miss is counted.
LEMMA MissIInv ==
    ASSUME IInv, NEW c \in Callers,
           NEW p \in [Threads -> PcStates],
           p = pc \/ p = [pc EXCEPT ![c] = "run"],
           Miss(c, p), calls' \in 0 .. MaxCalls,
           UNCHANGED <<nextId, targetSize, phase, batch, agedBelow, returned>>
    PROVE  IInv'
<1> USE PoolAssumption
<1>1. Replenisher \in Threads /\ c \in Threads /\ c # Replenisher /\ Callers \subseteq Threads
  BY Zenon DEF Threads
<1>2. pc' = p /\ UNCHANGED <<ready, held>>
      /\ stats' = [stats EXCEPT !.pool_misses = @ + 1]
  BY Zenon DEF Miss
<1>3. pc \in [Threads -> PcStates]
  BY Zenon DEF IInv, TypeOK, PcStates
<1>4. pc'[Replenisher] = pc[Replenisher]
  BY Zenon, <1>1, <1>2, <1>3
<1>5. \A d \in Callers : /\ pc'[d] \in {"run", "parked", "woken"}
                         /\ pc'[d] = "parked" => pc[d] = "parked"
                         /\ pc'[d] # "run" => pc[d] # "run"
  BY Zenon, <1>1, <1>2, <1>3 DEF IInv, CallersCall
<1>6. /\ stats' \in [ready_count : Nat, total_assigned : Nat, total_created : Nat,
                     total_expired : Nat, pool_misses : Nat]
      /\ stats'.ready_count = stats.ready_count
      /\ stats'.total_assigned = stats.total_assigned
      /\ stats'.total_created = stats.total_created
      /\ stats'.total_expired = stats.total_expired
  BY <1>2 DEF IInv, TypeOK
<1>7. targetSize' \in Nat /\ phase' \in {"open", "joining", "closed"} /\ agedBelow' \in Nat
  BY Zenon DEF IInv, TypeOK
<1> QED
  BY Zenon, <1>2, <1>4, <1>5, <1>6, <1>7, IdleIInv

\* A caller of an empty open pool parks.
LEMMA ParkIInv ==
    ASSUME IInv, NEW c \in Callers, held[c] = NoVm, DOMAIN ready = {}, calls' \in 0 .. MaxCalls,
           pc' = [pc EXCEPT ![c] = "parked"],
           UNCHANGED <<ready, held, stats, nextId, targetSize, phase, batch,
                       agedBelow, returned>>
    PROVE  IInv'
<1> USE PoolAssumption
<1>1. Replenisher \in Threads /\ c \in Threads /\ c # Replenisher /\ Callers \subseteq Threads
  BY Zenon DEF Threads
<1>2. pc' \in [Threads -> PcStates] /\ pc'[Replenisher] = pc[Replenisher]
  BY Zenon, <1>1 DEF IInv, TypeOK, PcStates
<1>3. \A d \in Callers : /\ pc'[d] \in {"run", "parked", "woken"}
                         /\ pc'[d] = "parked" => pc[d] = "parked" \/ DOMAIN ready = {}
                         /\ pc'[d] # "run" => pc[d] # "run" \/ held[d] = NoVm
  BY Zenon, <1>1 DEF IInv, CallersCall, TypeOK
<1>4. stats' \in [ready_count : Nat, total_assigned : Nat, total_created : Nat,
                  total_expired : Nat, pool_misses : Nat]
  BY Zenon DEF IInv, TypeOK
<1>5. targetSize' \in Nat /\ phase' \in {"open", "joining", "closed"} /\ agedBelow' \in Nat
  BY Zenon DEF IInv, TypeOK
<1> QED
  BY Zenon, <1>2, <1>3, <1>4, <1>5, IdleIInv

\* acquire, acquire_timeout and the two ways out of its wait.
LEMMA AcquireIInv ==
    ASSUME IInv, NEW c \in Callers,
           Acquire(c) \/ AcquireTimeout(c) \/ AcquireWake(c) \/ AcquireExpire(c)
    PROVE  IInv'
<1> DEFINE p == [pc EXCEPT ![c] = "run"]
<1>1. c \in Threads
  BY Zenon DEF Threads
<1>2. pc \in [Threads -> PcStates] /\ p \in [Threads -> PcStates]
  BY Zenon, <1>1 DEF IInv, TypeOK, PcStates
<1>3. calls' \in 0 .. MaxCalls
  <2>1. Call \/ calls' = calls
    BY Zenon DEF Acquire, AcquireTimeout, AcquireWake, AcquireExpire
  <2> QED
    BY Zenon, <2>1, CallBound DEF IInv, TypeOK
<1>4. UNCHANGED <<nextId, targetSize, phase, batch, agedBelow, returned>>
  BY Zenon DEF Acquire, AcquireTimeout, AcquireWake, AcquireExpire
<1>5. held[c] = NoVm
  BY Zenon DEF IInv, WaitersHoldNothing, Acquire, AcquireTimeout, AcquireWake, AcquireExpire
<1>6. \/ TakeFront(c, pc) /\ pc[c] = "run"
      \/ TakeFront(c, p) \/ Miss(c, pc) \/ Miss(c, p)
      \/ /\ DOMAIN ready = {} /\ pc' = [pc EXCEPT ![c] = "parked"]
         /\ UNCHANGED <<ready, held, stats>>
  BY Zenon DEF Acquire, AcquireTimeout, AcquireWake, AcquireExpire, MayCall
<1>7. CASE (TakeFront(c, pc) /\ pc[c] = "run") \/ TakeFront(c, p)
  BY Zenon, <1>1, <1>2, <1>3, <1>4, <1>5, <1>7, TakeFrontIInv
<1>8. CASE Miss(c, pc) \/ Miss(c, p)
  BY Zenon, <1>2, <1>3, <1>4, <1>8, MissIInv
<1>9. CASE /\ DOMAIN ready = {} /\ pc' = [pc EXCEPT ![c] = "parked"]
           /\ UNCHANGED <<ready, held, stats>>
  BY Zenon, <1>3, <1>4, <1>5, <1>9, ParkIInv
<1> QED
  BY Zenon, <1>6, <1>7, <1>8, <1>9

\* release(): a VM that fits goes to the back under a fresh ticket.
LEMMA ReleaseIInv ==
    ASSUME IInv, NEW c \in Callers, Release(c)
    PROVE  IInv'
<1> USE PoolAssumption
<1>1. /\ pc[c] = "run" /\ held[c] # NoVm
      /\ held' = [held EXCEPT ![c] = NoVm]
      /\ UNCHANGED <<nextId, targetSize, phase, pc, batch, agedBelow>>
  BY Zenon DEF Release, MayCall
<1>2. calls' \in 0 .. MaxCalls
  BY Zenon, CallBound DEF Release, IInv, TypeOK
<1>3. held' \in [Callers -> 0 .. nextId' - 1]
  BY <1>1 DEF IInv, TypeOK, NoVm
<1>4. BatchIsLast' /\ CallersCall' /\ WaitersHoldNothing'
  BY Zenon, <1>1 DEF IInv, BatchIsLast, CallersCall, WaitersHoldNothing, TypeOK
<1>5. CASE ~HasRoom(ready)
  <2>1. UNCHANGED <<ready, stats, returned>>
    BY Zenon, <1>5 DEF Release
  <2>2. TypeOK' /\ WithinCap' /\ StatsExact'
    BY Zenon, <1>1, <1>2, <1>3, <2>1 DEF IInv, TypeOK, WithinCap, StatsExact
  <2>3. OwnedOnce' /\ ParkedOnlyIfEmpty' /\ TicketsGiven'
    BY <1>1, <2>1
    DEF IInv, OwnedOnce, ParkedOnlyIfEmpty, TicketsGiven, Arrivals, TypeOK, NoVm
  <2> QED
    BY Zenon, <1>4, <2>2, <2>3 DEF IInv
<1>6. CASE HasRoom(ready)
  <2> DEFINE a == Arrivals + 1
  <2>1. /\ ready' = [k \in DOMAIN ready \cup {a} |->
                        IF k \in DOMAIN ready THEN ready[k] ELSE held[c]]
        /\ stats' = [stats EXCEPT !.ready_count = Size(ready) + 1]
        /\ returned' = returned + 1
    BY Zenon, <1>6 DEF Release, PushBack
  <2>2. a \in Nat /\ a \notin DOMAIN ready
    BY DEF IInv, TypeOK, TicketsGiven, Arrivals
  <2>3. /\ DOMAIN ready' = DOMAIN ready \cup {a}
        /\ IsFiniteSet(DOMAIN ready')
        /\ Size(ready) \in Nat
        /\ Size(ready') = Size(ready) + 1
    BY Zenon, <2>1, <2>2, FS_AddElement, SizeType DEF Size, IInv, TypeOK
  <2>4. /\ stats' \in [ready_count : Nat, total_assigned : Nat, total_created : Nat,
                       total_expired : Nat, pool_misses : Nat]
        /\ stats'.ready_count = Size(ready')
        /\ stats'.total_created = stats.total_created
        /\ stats'.total_assigned = stats.total_assigned
        /\ stats'.total_expired = stats.total_expired
    BY <2>1, <2>3 DEF IInv, TypeOK
  <2>5. ready' \in [DOMAIN ready' -> 1 .. nextId' - 1]
    BY <1>1, <2>1, <2>3 DEF IInv, TypeOK, NoVm
  <2>6. TypeOK'
    BY <1>1, <1>2, <1>3, <2>1, <2>2, <2>3, <2>4, <2>5 DEF IInv, TypeOK
  <2>7. WithinCap'
    BY <1>6, <2>3 DEF WithinCap, HasRoom
  <2>8. StatsExact'
    BY <2>1, <2>3, <2>4 DEF IInv, StatsExact, TypeOK
  <2>9. OwnedOnce'
    BY <1>1, <2>1, <2>2, <2>3 DEF IInv, OwnedOnce, TypeOK, NoVm
  <2>10. ParkedOnlyIfEmpty'
    BY <2>1 DEF IInv, ParkedOnlyIfEmpty, TypeOK
  <2>11. TicketsGiven'
    BY <2>1, <2>3, <2>4 DEF IInv, TicketsGiven, Arrivals, TypeOK
  <2> QED
    BY Zenon, <1>4, <2>6, <2>7, <2>8, <2>9, <2>10, <2>11 DEF IInv
<1> QED
  BY Zenon, <1>5, <1>6

\* The caller keeps its VM for good.
LEMMA ConsumeIInv ==
    ASSUME IInv, NEW c \in Callers, Consume(c)
    PROVE  IInv'
<1>1. TypeOK' /\ WithinCap' /\ StatsExact'
  BY DEF Consume, IInv, TypeOK, WithinCap, StatsExact, NoVm
<1>2. OwnedOnce'
  BY DEF Consume, IInv, OwnedOnce, TypeOK, NoVm
<1>3. ParkedOnlyIfEmpty' /\ TicketsGiven' /\ BatchIsLast' /\ CallersCall' /\ WaitersHoldNothing'
  BY Zenon DEF Consume, IInv, ParkedOnlyIfEmpty, TicketsGiven, Arrivals, BatchIsLast,
         CallersCall, WaitersHoldNothing, TypeOK
<1> QED
  BY Zenon, <1>1, <1>2, <1>3 DEF IInv

-----------------------------------------------------------------------------
\* The replenisher expires idle VMs and allocates ids.
LEMMA PlanIInv ==
    ASSUME IInv, ReplenishPlan
    PROVE  IInv'
<1> USE PoolAssumption
<1> DEFINE kept == Retained(ready)
           needed == Needed(Size(kept))
<1>1. /\ ready' = kept
      /\ stats' = [stats EXCEPT !.total_expired = @ + (Size(ready) - Size(kept)),
                                !.ready_count = Size(kept)]
      /\ batch' = [first |-> nextId, count |-> needed]
      /\ nextId' = nextId + needed
      /\ pc' = [NotifyAll(pc) EXCEPT
                    ![Replenisher] = IF needed = 0 THEN "run" ELSE "filling"]
      /\ UNCHANGED <<targetSize, phase, held, agedBelow, returned, calls>>
  BY Zenon DEF ReplenishPlan
<1>2. /\ DOMAIN kept \subseteq DOMAIN ready
      /\ \A k \in DOMAIN kept : kept[k] = ready[k]
  BY Zenon DEF Retained
<1>3. /\ IsFiniteSet(DOMAIN kept)
      /\ Size(kept) \in Nat /\ Size(ready) \in Nat
      /\ Size(kept) <= Size(ready)
  BY Zenon, <1>2, FS_Subset, SizeType DEF Size, IInv, TypeOK
<1>4. needed \in Nat /\ nextId \in Nat \ {0} /\ nextId' \in Nat \ {0} /\ nextId <= nextId'
  BY <1>1, <1>3 DEF Needed, Goal, IInv, TypeOK
<1>5. Replenisher \in Threads /\ Callers \subseteq Threads /\ Replenisher \notin Callers
  BY Zenon DEF Threads
<1>6. /\ pc' \in [Threads -> PcStates]
      /\ \A c \in Callers : pc'[c] = pc[c] \/ (pc[c] = "parked" /\ pc'[c] = "woken")
      /\ \A c \in Callers : pc'[c] # "parked"
  BY Zenon, <1>1, <1>5 DEF NotifyAll, IInv, TypeOK, PcStates
<1>7. stats' \in [ready_count : Nat, total_assigned : Nat, total_created : Nat,
                  total_expired : Nat, pool_misses : Nat]
  <2>1. stats.total_expired + (Size(ready) - Size(kept)) \in Nat
    BY <1>3 DEF IInv, TypeOK
  <2> QED
    BY Zenon, <1>1, <1>3, <2>1 DEF IInv, TypeOK
<1>8. TypeOK'
  <2>1. ready' \in [DOMAIN ready' -> 1 .. nextId' - 1] /\ DOMAIN ready' \subseteq Nat
    <3>1. ready' = [k \in {j \in DOMAIN ready : ready[j] >= agedBelow} |-> ready[k]]
      BY Zenon, <1>1 DEF Retained
    <3> QED
      BY <1>4, <3>1 DEF IInv, TypeOK
  <2>2. held' \in [Callers -> 0 .. nextId' - 1] /\ batch' \in [first : Nat \ {0}, count : Nat]
    BY <1>1, <1>4 DEF IInv, TypeOK
  <2>3. IsFiniteSet(DOMAIN ready')
    BY Zenon, <1>1, <1>3
  <2>4. pc' \in [Threads -> {"run", "parked", "woken", "filling", "done"}]
    BY Zenon, <1>6 DEF PcStates
  <2> QED
    BY Zenon, <1>1, <1>4, <1>7, <2>1, <2>2, <2>3, <2>4 DEF IInv, TypeOK
<1>9. WithinCap'
  BY <1>1, <1>3 DEF IInv, WithinCap
<1>10. StatsExact'
  BY <1>1, <1>3, <1>7 DEF IInv, StatsExact, TypeOK
<1>11. OwnedOnce'
  BY <1>1, <1>2 DEF IInv, OwnedOnce, TypeOK
<1>12. ParkedOnlyIfEmpty' /\ CallersCall' /\ WaitersHoldNothing'
  BY Zenon, <1>1, <1>6 DEF IInv, ParkedOnlyIfEmpty, CallersCall, WaitersHoldNothing
<1>13. TicketsGiven'
  <2>1. stats'.total_created = stats.total_created
    BY Zenon, <1>1 DEF IInv, TypeOK
  <2> QED
    BY Zenon, <1>1, <1>2, <2>1 DEF IInv, TicketsGiven, Arrivals
<1>14. BatchIsLast'
  BY Zenon, <1>1, <1>4 DEF BatchIsLast
<1> QED
  BY Zenon, <1>8, <1>9, <1>10, <1>11, <1>12, <1>13, <1>14 DEF IInv

\* The replenisher pushes what it created, while there is room.
LEMMA PushIInv ==
    ASSUME IInv, ReplenishPush
    PROVE  IInv'
<1> USE PoolAssumption
<1> DEFINE a == Arrivals
           n == Accepted
           new == a + 1 .. a + n
<1>1. /\ pc[Replenisher] = "filling"
      /\ ready' = [k \in DOMAIN ready \cup new |->
                      IF k \in DOMAIN ready THEN ready[k] ELSE batch.first + (k - a - 1)]
      /\ stats' = [stats EXCEPT !.total_created = @ + n,
                                !.ready_count = Size(ready) + n]
      /\ batch' = [batch EXCEPT !.count = 0]
      /\ pc' = [NotifyAll(pc) EXCEPT ![Replenisher] = "run"]
      /\ UNCHANGED <<nextId, targetSize, phase, held, agedBelow, returned, calls>>
  BY Zenon DEF ReplenishPush, Created, PushWakes
<1>2. Size(ready) \in Nat /\ a \in Nat
  BY SizeType DEF IInv, TypeOK, Arrivals
<1>3. n \in Nat /\ n <= batch.count /\ Size(ready) + n <= MaxPoolSize
  BY <1>2 DEF Accepted, HasRoom, IInv, TypeOK, WithinCap
<1>4. new \subseteq Nat /\ new \cap DOMAIN ready = {}
  BY <1>2, <1>3 DEF IInv, TicketsGiven, TypeOK
<1>5. /\ DOMAIN ready' = DOMAIN ready \cup new
      /\ IsFiniteSet(DOMAIN ready')
      /\ Size(ready') = Size(ready) + n
  <2>1. IsFiniteSet(new) /\ Cardinality(new) = n
    BY Zenon, <1>2, <1>3, IntervalSize
  <2>2. IsFiniteSet(DOMAIN ready) /\ DOMAIN ready \cap new = {}
    BY Zenon, <1>4 DEF IInv, TypeOK
  <2>3. /\ IsFiniteSet(DOMAIN ready \cup new)
        /\ Cardinality(DOMAIN ready \cup new) = Cardinality(DOMAIN ready) + n
    BY Zenon, <2>1, <2>2, DisjointUnion
  <2>4. DOMAIN ready' = DOMAIN ready \cup new
    BY Zenon, <1>1
  <2> QED
    BY Zenon, <2>3, <2>4 DEF Size
<1>6. batch.first + batch.count = nextId /\ batch.first \in Nat \ {0} /\ batch.count \in Nat
  BY Zenon, <1>1 DEF IInv, BatchIsLast, TypeOK
<1>7. \A k \in new : batch.first + (k - a - 1) \in batch.first .. nextId - 1
  BY <1>2, <1>3, <1>6 DEF IInv, TypeOK
<1>8. Replenisher \in Threads /\ Callers \subseteq Threads /\ Replenisher \notin Callers
  BY Zenon DEF Threads
<1>9. /\ pc' \in [Threads -> PcStates] /\ pc'[Replenisher] = "run"
      /\ \A c \in Callers : pc'[c] = pc[c] \/ (pc[c] = "parked" /\ pc'[c] = "woken")
      /\ \A c \in Callers : pc'[c] # "parked"
  BY Zenon, <1>1, <1>8 DEF NotifyAll, IInv, TypeOK, PcStates
<1>10. /\ stats' \in [ready_count : Nat, total_assigned : Nat, total_created : Nat,
                      total_expired : Nat, pool_misses : Nat]
       /\ stats'.ready_count = Size(ready) + n
       /\ stats'.total_created = stats.total_created + n
       /\ stats'.total_assigned = stats.total_assigned
       /\ stats'.total_expired = stats.total_expired
  <2>1. stats.total_created + n \in Nat /\ Size(ready) + n \in Nat
    BY <1>2, <1>3 DEF IInv, TypeOK
  <2> QED
    BY Zenon, <1>1, <2>1 DEF IInv, TypeOK
<1>11. TypeOK'
  <2>1. ready' \in [DOMAIN ready' -> 1 .. nextId' - 1] /\ DOMAIN ready' \subseteq Nat
    <3>1. \A k \in DOMAIN ready : ready[k] \in 1 .. nextId - 1
      BY Zenon DEF IInv, TypeOK
    <3>2. \A k \in DOMAIN ready \cup new :
            (IF k \in DOMAIN ready THEN ready[k] ELSE batch.first + (k - a - 1)) \in 1 .. nextId - 1
      BY <1>6, <1>7, <3>1
    <3> QED
      BY Zenon, <1>1, <1>4, <1>5, <3>2 DEF IInv, TypeOK
  <2>2. batch' \in [first : Nat \ {0}, count : Nat]
    BY Zenon, <1>1 DEF IInv, TypeOK
  <2>3. pc' \in [Threads -> {"run", "parked", "woken", "filling", "done"}]
    BY Zenon, <1>9 DEF PcStates
  <2> QED
    BY Zenon, <1>1, <1>5, <1>10, <2>1, <2>2, <2>3 DEF IInv, TypeOK
<1>12. WithinCap'
  BY Zenon, <1>3, <1>5 DEF WithinCap
<1>13. StatsExact'
  BY <1>1, <1>2, <1>3, <1>5, <1>10 DEF IInv, StatsExact, TypeOK
<1>14. OwnedOnce'
  <2>1. \A k \in DOMAIN ready : ready[k] < batch.first
    BY Zenon, <1>1 DEF IInv, OwnedOnce
  <2>2. \A c \in Callers : held[c] < batch.first
    BY Zenon, <1>1 DEF IInv, OwnedOnce
  <2>3. \A k \in DOMAIN ready : ready[k] \in Int
    BY DEF IInv, TypeOK
  <2>4. \A j, k \in DOMAIN ready' : ready'[j] = ready'[k] => j = k
    <3> SUFFICES ASSUME NEW j \in DOMAIN ready', NEW k \in DOMAIN ready', ready'[j] = ready'[k]
                 PROVE  j = k
      BY Zenon
    <3>1. CASE j \in DOMAIN ready /\ k \in DOMAIN ready
      BY Zenon, <1>1, <3>1 DEF IInv, OwnedOnce
    <3>2. CASE j \in new /\ k \in new
      <4>1. j \in Int /\ k \in Int /\ j \notin DOMAIN ready /\ k \notin DOMAIN ready
        BY <1>4, <3>2
      <4>2. batch.first + (j - a - 1) = batch.first + (k - a - 1)
        BY Zenon, <1>1, <1>5, <4>1
      <4> QED
        BY <1>2, <1>6, <4>1, <4>2
    <3>3. CASE j \in DOMAIN ready /\ k \in new
      BY <1>1, <1>4, <1>6, <1>7, <2>1, <2>3, <3>3
    <3>4. CASE j \in new /\ k \in DOMAIN ready
      BY <1>1, <1>4, <1>6, <1>7, <2>1, <2>3, <3>4
    <3> QED
      BY Zenon, <1>5, <3>1, <3>2, <3>3, <3>4
  <2>5. \A c \in Callers, k \in DOMAIN ready' : ready'[k] # held'[c]
    <3> SUFFICES ASSUME NEW c \in Callers, NEW k \in DOMAIN ready'
                 PROVE  ready'[k] # held[c]
      BY Zenon, <1>1
    <3>1. CASE k \in DOMAIN ready
      BY Zenon, <1>1, <3>1 DEF IInv, OwnedOnce
    <3>2. CASE k \in new
      <4>1. held[c] \in Int
        BY DEF IInv, TypeOK
      <4> QED
        BY <1>1, <1>4, <1>6, <1>7, <2>2, <3>2, <4>1
    <3> QED
      BY Zenon, <1>5, <3>1, <3>2
  <2> QED
    BY Zenon, <1>1, <1>9, <2>4, <2>5 DEF IInv, OwnedOnce
<1>15. ParkedOnlyIfEmpty' /\ CallersCall' /\ WaitersHoldNothing' /\ BatchIsLast'
  BY Zenon, <1>1, <1>9 DEF IInv, ParkedOnlyIfEmpty, CallersCall, WaitersHoldNothing, BatchIsLast
<1>16. TicketsGiven'
  BY <1>1, <1>2, <1>3, <1>5, <1>10 DEF IInv, TicketsGiven, Arrivals, TypeOK
<1> QED
  BY Zenon, <1>11, <1>12, <1>13, <1>14, <1>15, <1>16 DEF IInv

\* The steps that only move threads, the target, the clock or the phase.
LEMMA QuietIInv ==
    ASSUME IInv,
           \/ ReplenishPark \/ ReplenishBreak \/ Age \/ BeginShutdown
           \/ JoinReplenisher \/ \E m \in TargetSizes : SetTargetSize(m)
    PROVE  IInv'
<1> USE PoolAssumption
<1>1. Replenisher \in Threads /\ Callers \subseteq Threads /\ Replenisher \notin Callers
  BY Zenon DEF Threads
<1>2. pc \in [Threads -> PcStates]
  BY Zenon DEF IInv, TypeOK, PcStates
<1>3. UNCHANGED <<ready, held, nextId, batch, returned, stats>>
  BY Zenon DEF ReplenishPark, ReplenishBreak, Age, BeginShutdown, JoinReplenisher, SetTargetSize
<1>4. calls' \in 0 .. MaxCalls
  <2>1. Call \/ calls' = calls
    BY Zenon DEF ReplenishPark, ReplenishBreak, Age, BeginShutdown, JoinReplenisher, SetTargetSize
  <2> QED
    BY Zenon, <2>1, CallBound DEF IInv, TypeOK
<1>5. targetSize' \in Nat /\ phase' \in {"open", "joining", "closed"} /\ agedBelow' \in Nat
  BY DEF IInv, TypeOK, ReplenishPark, ReplenishBreak, Age, BeginShutdown,
         JoinReplenisher, SetTargetSize
<1>6. \/ pc' = pc \/ pc' = NotifyAll(pc) \/ pc' \in NotifyOne(pc)
      \/ pc' = [pc EXCEPT ![Replenisher] = "parked"]
      \/ pc' = [pc EXCEPT ![Replenisher] = "done"]
  BY Zenon DEF ReplenishPark, ReplenishBreak, Age, BeginShutdown, JoinReplenisher, SetTargetSize
<1>7. /\ pc' \in [Threads -> PcStates]
      /\ pc'[Replenisher] = "filling" => pc[Replenisher] = "filling"
      /\ \A d \in Callers : pc'[d] = pc[d] \/ (pc[d] = "parked" /\ pc'[d] = "woken")
  <2>1. CASE pc' = NotifyAll(pc) \/ pc' \in NotifyOne(pc)
    BY Zenon, <1>1, <1>2, <2>1, NotifyFacts
  <2>2. CASE \/ pc' = pc
             \/ pc' = [pc EXCEPT ![Replenisher] = "parked"]
             \/ pc' = [pc EXCEPT ![Replenisher] = "done"]
    BY Zenon, <1>1, <1>2, <2>2 DEF PcStates
  <2> QED
    BY Zenon, <1>6, <2>1, <2>2
<1>8. \A d \in Callers : /\ pc'[d] \in {"run", "parked", "woken"}
                         /\ pc'[d] = "parked" => pc[d] = "parked"
                         /\ pc'[d] # "run" => pc[d] # "run"
  BY Zenon, <1>7 DEF IInv, CallersCall
<1>9. stats' \in [ready_count : Nat, total_assigned : Nat, total_created : Nat,
                  total_expired : Nat, pool_misses : Nat]
  BY Zenon, <1>3 DEF IInv, TypeOK
<1> QED
  BY Zenon, <1>3, <1>4, <1>5, <1>7, <1>8, <1>9, IdleIInv

-----------------------------------------------------------------------------
\* IInv is inductive.
LEMMA NextIInv == IInv /\ [Next]_vars => IInv'
<1> SUFFICES ASSUME IInv, [Next]_vars PROVE IInv'
  BY Zenon
<1>1. ASSUME NEW c \in Callers,
             Acquire(c) \/ AcquireTimeout(c) \/ AcquireWake(c) \/ AcquireExpire(c)
      PROVE  IInv'
  BY Zenon, <1>1, AcquireIInv
<1>2. ASSUME NEW c \in Callers, Release(c) PROVE IInv'
  BY Zenon, <1>2, ReleaseIInv
<1>3. ASSUME NEW c \in Callers, Consume(c) PROVE IInv'
  BY Zenon, <1>3, ConsumeIInv
<1>4. CASE \/ ReplenishPark \/ ReplenishBreak \/ Age \/ BeginShutdown
           \/ JoinReplenisher \/ \E m \in TargetSizes : SetTargetSize(m)
  BY Zenon, <1>4, QuietIInv
<1>5. CASE ReplenishPlan
  BY Zenon, <1>5, PlanIInv
<1>6. CASE ReplenishPush
  BY Zenon, <1>6, PushIInv
<1>7. CASE UNCHANGED vars
  BY Zenon, <1>7 DEF vars, IInv, TypeOK, WithinCap, OwnedOnce, StatsExact, ParkedOnlyIfEmpty,
              TicketsGiven, Arrivals, BatchIsLast, CallersCall, WaitersHoldNothing
<1> QED
  BY Zenon, <1>1, <1>2, <1>3, <1>4, <1>5, <1>6, <1>7 DEF Next

\* Every reachable state of the pool satisfies the inductive invariant.
LEMMA PoolInvariant == Spec => []IInv
<1>1. Init => IInv
  BY Zenon, InitIInv
<1>2. IInv /\ [Next]_vars => IInv'
  BY Zenon, NextIInv
<1> QED
  BY <1>1, <1>2, PTL DEF Spec

\* The state keeps its types: counters never go below zero, ids stay positive.
THEOREM PoolTypes == Spec => []TypeOK
<1>1. IInv => TypeOK
  BY Zenon DEF IInv
<1> QED
  BY <1>1, PoolInvariant, PTL

\* The queue never exceeds max_pool_size, however VMs in creation and VMs given
\* back meet.
THEOREM PoolCap == Spec => []WithinCap
<1>1. IInv => WithinCap
  BY Zenon DEF IInv
<1> QED
  BY <1>1, PoolInvariant, PTL

\* A VM is in one place at a time: two callers never receive the same VM.
THEOREM PoolOwnership == Spec => []OwnedOnce
<1>1. IInv => OwnedOnce
  BY Zenon DEF IInv
<1> QED
  BY <1>1, PoolInvariant, PTL

\* ready_count and the totals agree with the queue between critical sections.
THEOREM PoolStats == Spec => []StatsExact
<1>1. IInv => StatsExact
  BY Zenon DEF IInv
<1> QED
  BY <1>1, PoolInvariant, PTL

\* A VM that the replenisher pushes leaves no caller of acquire_timeout parked.
THEOREM PoolWakesWaiters == Spec => []ParkedOnlyIfEmpty
<1>1. IInv => ParkedOnlyIfEmpty
  BY Zenon DEF IInv
<1> QED
  BY <1>1, PoolInvariant, PTL
=============================================================================
