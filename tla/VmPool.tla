------------------------------- MODULE VmPool -------------------------------
(***************************************************************************)
(* The L4 pool of pre-warmed VMs (crates/nova-runtime/src/pool.rs): one    *)
(* mutex, one condition variable shared by the replenisher thread and by   *)
(* the callers of acquire_timeout, and a replenisher that creates VMs with *)
(* the mutex released.                                                     *)
(*                                                                         *)
(* Every critical section is one action.  A thread blocked in              *)
(* wait_timeout_while is "parked"; a notification makes it "woken", after  *)
(* which it evaluates its wait condition again; a timeout is a step of its *)
(* own, possible at any time while it is parked.                           *)
(***************************************************************************)
EXTENDS Integers, FiniteSets

CONSTANTS
    Callers,          \* threads that use the pool
    Replenisher,      \* the background thread running replenish_loop
    MaxPoolSize,      \* PoolConfig.max_pool_size
    TargetPoolSize,   \* PoolConfig.target_pool_size
    TargetSizes,      \* the arguments set_target_size is called with
    MaxCalls          \* bound: calls (and idle expiries) in a behaviour

ASSUME PoolAssumption ==
    /\ Replenisher \notin Callers
    /\ MaxPoolSize \in Nat
    /\ TargetPoolSize \in Nat \ {0}
    /\ TargetPoolSize <= MaxPoolSize      \* PoolConfig::validate
    /\ TargetSizes \subseteq Nat
    /\ MaxCalls \in Nat

VARIABLES
    ready,        \* PoolInner.ready: arrival ticket -> VM id, oldest ticket in front
    stats,        \* PoolInner.stats
    nextId,       \* PoolInner.next_id
    targetSize,   \* PoolInner.target_size
    phase,        \* "open"; "joining": shutdown set, join pending; "closed"
    pc,           \* what each thread is doing
    held,         \* the VM each caller holds, NoVm if none
    batch,        \* the ids the replenisher is creating VMs for
    agedBelow,    \* VMs with a smaller id have outlived max_idle_time
    returned,     \* history: VMs that release() put back
    calls         \* bound: calls made so far

vars == <<ready, stats, nextId, targetSize, phase, pc, held, batch, agedBelow,
          returned, calls>>

Threads == Callers \cup {Replenisher}
NoVm == 0                                   \* ids start at 1
Shutdown == phase # "open"                  \* PoolInner.shutdown

\* Every variable holds a value of its kind; the VMs in the queue and in the
\* callers' hands are ones whose ids were given out.
TypeOK ==
    /\ DOMAIN ready \subseteq Nat
    /\ IsFiniteSet(DOMAIN ready)
    /\ ready \in [DOMAIN ready -> 1 .. nextId - 1]
    /\ stats \in [ready_count : Nat, total_assigned : Nat, total_created : Nat,
                  total_expired : Nat, pool_misses : Nat]
    /\ nextId \in Nat \ {0}
    /\ targetSize \in Nat
    /\ phase \in {"open", "joining", "closed"}
    /\ pc \in [Threads -> {"run", "parked", "woken", "filling", "done"}]
    /\ held \in [Callers -> 0 .. nextId - 1]
    /\ batch \in [first : Nat \ {0}, count : Nat]
    /\ agedBelow \in Nat
    /\ returned \in Nat
    /\ calls \in 0 .. MaxCalls

-----------------------------------------------------------------------------
Size(q) == Cardinality(DOMAIN q)

\* `ready.len() < max_pool_size`, checked before a push; mutant: off by one.
HasRoomOffByOne(q) == Size(q) <= MaxPoolSize
HasRoom(q) == Size(q) < MaxPoolSize

\* The next arrival ticket: every push so far was a creation or a return.
Arrivals == stats.total_created + returned

PushBack(q, vm) == [k \in DOMAIN q \cup {Arrivals + 1} |->
                        IF k \in DOMAIN q THEN q[k] ELSE vm]

\* Condvar::notify_all and the possible outcomes of Condvar::notify_one.
Parked(p) == {t \in Threads : p[t] = "parked"}
NotifyAll(p) == [t \in Threads |-> IF p[t] = "parked" THEN "woken" ELSE p[t]]
NotifyOne(p) == IF Parked(p) = {} THEN {p}
                ELSE {[p EXCEPT ![t] = "woken"] : t \in Parked(p)}

-----------------------------------------------------------------------------
Init ==
    /\ ready = [k \in {} |-> NoVm]
    /\ stats = [ready_count |-> 0, total_assigned |-> 0, total_created |-> 0,
                total_expired |-> 0, pool_misses |-> 0]
    /\ nextId = 1
    /\ targetSize = TargetPoolSize
    /\ phase = "open"
    /\ pc = [t \in Threads |-> "run"]
    /\ held = [c \in Callers |-> NoVm]
    /\ batch = [first |-> 1, count |-> 0]
    /\ agedBelow = 1
    /\ returned = 0
    /\ calls = 0

\* shutdown() takes &mut self: no other call overlaps it.
MayCall(c) == pc[c] = "run" /\ phase # "joining"

Call == calls < MaxCalls /\ calls' = calls + 1

\* The queue after pop_front took ticket k; mutant: the VM stays queued.
LeaveFront(q, k) == q
WithoutFront(q, k) == [j \in DOMAIN q \ {k} |-> q[j]]

\* pop_front, the two counters, notify_one; `p` is pc with c back to "run".
TakeFront(c, p) ==
    \E k \in DOMAIN ready :
        /\ \A j \in DOMAIN ready : k <= j
        /\ ready' = WithoutFront(ready, k)
        /\ held' = [held EXCEPT ![c] = ready[k]]
        /\ stats' = [stats EXCEPT !.total_assigned = @ + 1,
                                  !.ready_count = Size(ready) - 1]
        /\ pc' \in NotifyOne(p)

Miss(c, p) ==
    /\ DOMAIN ready = {}
    /\ stats' = [stats EXCEPT !.pool_misses = @ + 1]
    /\ pc' = p
    /\ UNCHANGED <<ready, held>>

\* acquire(): the front VM, or a miss.
Acquire(c) ==
    /\ MayCall(c) /\ held[c] = NoVm /\ Call
    /\ TakeFront(c, pc) \/ Miss(c, pc)
    /\ UNCHANGED <<nextId, targetSize, phase, batch, agedBelow, returned>>

\* acquire_timeout(): as acquire, but an empty open pool parks the caller.
AcquireTimeout(c) ==
    /\ MayCall(c) /\ held[c] = NoVm /\ Call
    /\ \/ TakeFront(c, pc)
       \/ Shutdown /\ Miss(c, pc)
       \/ /\ DOMAIN ready = {} /\ ~Shutdown
          /\ pc' = [pc EXCEPT ![c] = "parked"]
          /\ UNCHANGED <<ready, held, stats>>
    /\ UNCHANGED <<nextId, targetSize, phase, batch, agedBelow, returned>>

\* A notified caller finds a VM, or the pool still empty and waits on.
AcquireWake(c) ==
    /\ pc[c] = "woken"
    /\ \/ TakeFront(c, [pc EXCEPT ![c] = "run"])
       \/ /\ DOMAIN ready = {}
          /\ pc' = [pc EXCEPT ![c] = "parked"]
          /\ UNCHANGED <<ready, held, stats>>
    /\ UNCHANGED <<nextId, targetSize, phase, batch, agedBelow, returned, calls>>

\* The wait times out: the queue is looked at once more.
AcquireExpire(c) ==
    /\ pc[c] = "parked"
    /\ LET p == [pc EXCEPT ![c] = "run"] IN TakeFront(c, p) \/ Miss(c, p)
    /\ UNCHANGED <<nextId, targetSize, phase, batch, agedBelow, returned, calls>>

\* release(): back into the queue if there is room, else dropped; no notification.
Release(c) ==
    /\ MayCall(c) /\ held[c] # NoVm /\ Call
    /\ held' = [held EXCEPT ![c] = NoVm]
    /\ IF HasRoom(ready)
       THEN /\ ready' = PushBack(ready, held[c])
            /\ stats' = [stats EXCEPT !.ready_count = Size(ready) + 1]
            /\ returned' = returned + 1
       ELSE UNCHANGED <<ready, stats, returned>>
    /\ UNCHANGED <<nextId, targetSize, phase, pc, batch, agedBelow>>

\* The caller keeps the VM for good (take_payload).
Consume(c) ==
    /\ pc[c] = "run" /\ held[c] # NoVm
    /\ held' = [held EXCEPT ![c] = NoVm]
    /\ UNCHANGED <<ready, stats, nextId, targetSize, phase, pc, batch, agedBelow,
                   returned, calls>>

SetTargetSize(n) ==
    /\ phase # "joining" /\ Call
    /\ targetSize' = n
    /\ pc' \in NotifyOne(pc)
    /\ UNCHANGED <<ready, stats, nextId, phase, held, batch, agedBelow, returned>>

-----------------------------------------------------------------------------
\* The condition under which the replenisher stays in wait_timeout_while.
StayInWait == ~Shutdown /\ Size(ready) >= targetSize

ReplenishPark ==
    /\ pc[Replenisher] \in {"run", "woken"}
    /\ StayInWait
    /\ pc' = [pc EXCEPT ![Replenisher] = "parked"]
    /\ UNCHANGED <<ready, stats, nextId, targetSize, phase, held, batch, agedBelow,
                   returned, calls>>

\* Out of the wait: the condition is false, or the interval has passed.
WaitOver == \/ pc[Replenisher] \in {"run", "woken"} /\ ~StayInWait
            \/ pc[Replenisher] = "parked"

\* `if state.shutdown { break }`; mutant: the flag is not looked at.
NeverBreaks == FALSE
Breaks == Shutdown

ReplenishBreak ==
    /\ WaitOver /\ Breaks
    /\ pc' = [pc EXCEPT ![Replenisher] = "done"]
    /\ UNCHANGED <<ready, stats, nextId, targetSize, phase, held, batch, agedBelow,
                   returned, calls>>

Retained(q) == [k \in {j \in DOMAIN q : q[j] >= agedBelow} |-> q[k]]

\* target_size.min(max_pool_size).saturating_sub(current); mutants: one
\* short, and a subtraction that does not saturate.
Goal == IF targetSize <= MaxPoolSize THEN targetSize ELSE MaxPoolSize
NeededUnsaturated(n) == Goal - n
NeededOneShort(n) == IF n + 1 < Goal THEN Goal - n - 1 ELSE 0
Needed(n) == IF n < Goal THEN Goal - n ELSE 0

\* Expire idle VMs, allocate the ids of the missing ones, notify everybody.
ReplenishPlan ==
    /\ WaitOver /\ ~Breaks
    /\ LET kept == Retained(ready)
           needed == Needed(Size(kept))
       IN  /\ ready' = kept
           /\ stats' = [stats EXCEPT
                            !.total_expired = @ + (Size(ready) - Size(kept)),
                            !.ready_count = Size(kept)]
           /\ batch' = [first |-> nextId, count |-> needed]
           /\ nextId' = nextId + needed
           /\ pc' = [NotifyAll(pc) EXCEPT
                        ![Replenisher] = IF needed = 0 THEN "run" ELSE "filling"]
    /\ UNCHANGED <<targetSize, phase, held, agedBelow, returned, calls>>

\* How many VMs of the batch are pushed before the queue is full.
Accepted == LET room == IF HasRoom(ready) THEN MaxPoolSize - Size(ready) ELSE 0
            IN  IF batch.count <= room THEN batch.count ELSE room

\* What total_created grows by; mutant: VMs dropped for lack of room count too.
CreatedAll == batch.count
Created == Accepted

\* The notification after the push; mutant: nobody is told.
PushWakesNobody(p) == p
PushWakes(p) == NotifyAll(p)

\* The VMs exist: push them in id order while there is room, notify everybody.
ReplenishPush ==
    /\ pc[Replenisher] = "filling"
    /\ ready' = [k \in DOMAIN ready \cup (Arrivals + 1 .. Arrivals + Accepted) |->
                    IF k \in DOMAIN ready THEN ready[k]
                    ELSE batch.first + (k - Arrivals - 1)]
    /\ stats' = [stats EXCEPT !.total_created = @ + Created,
                              !.ready_count = Size(ready) + Accepted]
    /\ batch' = [batch EXCEPT !.count = 0]
    /\ pc' = [PushWakes(pc) EXCEPT ![Replenisher] = "run"]
    /\ UNCHANGED <<nextId, targetSize, phase, held, agedBelow, returned, calls>>

\* Time passes: the VMs warmed before some id outlive max_idle_time.  VMs are
\* warmed in id order; the last one of a batch in creation is not warm yet.
Age ==
    /\ Call
    /\ agedBelow' \in agedBelow + 1 ..
           IF pc[Replenisher] = "filling" THEN nextId - 1 ELSE nextId
    /\ UNCHANGED <<ready, stats, nextId, targetSize, phase, pc, held, batch, returned>>

\* shutdown(): set the flag, notify everybody, then join the replenisher.
BeginShutdown ==
    /\ phase = "open"
    /\ \A c \in Callers : pc[c] = "run"
    /\ phase' = "joining"
    /\ pc' = NotifyAll(pc)
    /\ UNCHANGED <<ready, stats, nextId, targetSize, held, batch, agedBelow,
                   returned, calls>>

JoinReplenisher ==
    /\ phase = "joining" /\ pc[Replenisher] = "done"
    /\ phase' = "closed"
    /\ UNCHANGED <<ready, stats, nextId, targetSize, pc, held, batch, agedBelow,
                   returned, calls>>

-----------------------------------------------------------------------------
Next ==
    \/ \E c \in Callers : \/ Acquire(c) \/ AcquireTimeout(c) \/ AcquireWake(c)
                          \/ AcquireExpire(c) \/ Release(c) \/ Consume(c)
    \/ \E n \in TargetSizes : SetTargetSize(n)
    \/ ReplenishPark \/ ReplenishBreak \/ ReplenishPlan \/ ReplenishPush
    \/ Age \/ BeginShutdown \/ JoinReplenisher

Spec == Init /\ [][Next]_vars

\* The replenisher and a thread in join() keep being scheduled, and a blocked
\* thread's timeout passes; nothing is assumed of the callers.
Fairness ==
    /\ WF_vars(ReplenishPlan \/ ReplenishBreak) /\ WF_vars(ReplenishPush)
    /\ WF_vars(JoinReplenisher)
    /\ \A c \in Callers : WF_vars(AcquireWake(c)) /\ WF_vars(AcquireExpire(c))

FairSpec == Spec /\ Fairness

-----------------------------------------------------------------------------
\* The hard cap (PoolConfig.max_pool_size) holds although VMs are created with
\* the mutex released and callers give VMs back meanwhile.
WithinCap == Size(ready) <= MaxPoolSize

\* No VM is in two places: twice in the queue, in the queue and in a caller's
\* hands, with two callers, or still in creation while already handed out.
OwnedOnce ==
    /\ \A j, k \in DOMAIN ready : ready[j] = ready[k] => j = k
    /\ \A c \in Callers, k \in DOMAIN ready : ready[k] # held[c]
    /\ \A c, d \in Callers : held[c] = held[d] /\ held[c] # NoVm => c = d
    /\ \A k \in DOMAIN ready : pc[Replenisher] = "filling" => ready[k] < batch.first
    /\ \A c \in Callers : pc[Replenisher] = "filling" => held[c] < batch.first

\* The counters tell the truth between critical sections: ready_count is the
\* queue's length, and what came in is what went out plus what is there.
StatsExact ==
    /\ stats.ready_count = Size(ready)
    /\ stats.total_created + returned
           = Size(ready) + stats.total_assigned + stats.total_expired

\* A caller stays parked beside a ready VM only if release() put one back: a VM
\* that the replenisher pushes always wakes the waiters.
ParkedOnlyIfEmpty ==
    \A c \in Callers : pc[c] = "parked" /\ DOMAIN ready # {} => returned > 0

\* Once the callers pause, an open pool is refilled to its target.
RefillsToTarget == []<>(phase # "open" \/ Size(ready) >= Goal)

\* shutdown() returns: the replenisher always notices the flag, whether parked,
\* creating VMs or looping.
ShutdownCompletes == (phase = "joining") ~> (phase = "closed")

=============================================================================
