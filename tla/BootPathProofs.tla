--------------------------- MODULE BootPathProofs ---------------------------
(***************************************************************************)
(* The theorems about BootPath, for every finite set of threads and every  *)
(* workload.  The invariant follows a snapshot through the threads that    *)
(* use it: while nobody has opened its memory file under somebody else     *)
(* (key \notin clobbered), whoever relies on it finds one complete save,   *)
(* and whoever writes it is alone with its key.                            *)
(*                                                                         *)
(* What a build puts into guest memory is a matter of arithmetic: every    *)
(* part of the image has a range of addresses of its own, the kernel's by  *)
(* induction over its segments.  A second invariant (LayoutInv) carries    *)
(* this to the threads, whose images are builds of their configurations.   *)
(***************************************************************************)
EXTENDS BootPath, TLAPS

\* Records as the code builds them.
IsVm(v) == v \in [via : {v.via}, regs : {v.regs}, mem : {v.mem}, key : {v.key}, whole : {v.whole}]
IsThread(x) == x \in [pc : {x.pc}, cfg : {x.cfg}, vm : {x.vm}, writes : {x.writes},
                      save : {x.save}, read : {x.read}, next : {x.next},
                      applied : {x.applied}]
IsDir(d) == d \in [mem : {d.mem}, full : {d.full}, state : {d.state}]
IsSeq(s) == s \in Seq({s[i] : i \in 1 .. Len(s)})

\* What the proofs use of numbers and of finite sets, a hypothesis of the lemmas
\* that need it.  LeastNumber and ThreadsCounted, below, prove it.
LeastNumbers == \A T \in SUBSET Nat : T # {} => \E n \in T : \A k \in T : n <= k
Counting ==
  /\ Cardinality({}) = 0 /\ \A S \in SUBSET Threads : Cardinality(S) \in Nat
  /\ \A S \in SUBSET Threads, t \in Threads :
       t \notin S => Cardinality(S \cup {t}) = Cardinality(S) + 1

-----------------------------------------------------------------------------
(* The inductive invariant.                                                *)

\* The key a thread computes from its configuration.
Key(x) == CacheKey(x.cfg[1])

\* What was saved was saved by a thread whose key that is.
BootedFor(saved, key) ==
  saved # None => /\ saved[1] \in Threads
                  /\ th[saved[1]].cfg # None
                  /\ Key(th[saved[1]]) = key

\* The snapshot in a directory is of one save, and all of it is there.
Complete(key) ==
  /\ key \in DOMAIN dir
  /\ dir[key].full /\ dir[key].state # None /\ dir[key].state = dir[key].mem

Valid(key) == key \in DOMAIN cache /\ cache[key]

\* Threads that write a snapshot, and threads that rely on one.
Saves(x) == x.pc \in Saving
Relies(x) == \/ x.pc \in {"insert", "read", "map", "pool"}
             \/ x.pc \in {"setup", "masquerade"} /\ x.next = "pool"

NotNetworked == {"create", "created", "acquire", "lookup", "read", "map", "invalidate",
                 "build", "setup", "masquerade"}
Restores(vm) == vm.via \in {"l3", "pool"}
VmWhole(vm) == Restores(vm) /\ vm.key[1] \notin clobbered => vm.whole /\ vm.regs = vm.mem

\* A thread's configuration is made once and its progress fits it.
Configured(x) ==
  /\ IsThread(x) /\ IsVm(x.vm)
  /\ (x.cfg = None) = (x.pc = "create")
  /\ x.pc \in {"create", "created"} => x.vm = NoVm /\ x.read = None
  /\ x.applied \in BOOLEAN
  /\ x.pc \in NotNetworked => ~x.applied
  /\ x.pc \in {"setup", "masquerade"} =>
       /\ x.next \in {"run", "boot", "pool"}
       /\ x.next = "pool" => x.vm.key = <<Key(x)>>

\* Whose state a thread has read and whose VM it runs.
ReadsOwn(x) ==
  /\ BootedFor(x.read, Key(x))
  /\ x.vm.via = "l3" => /\ x.vm.regs # None /\ BootedFor(x.vm.regs, Key(x))
                        /\ x.vm.mem # None /\ BootedFor(x.vm.mem, Key(x))

\* What holds of the snapshot a thread is busy with, clobbered or not ...
Busy(x) ==
  /\ x.pc = "map" => x.read # None /\ Key(x) \in DOMAIN dir
  /\ Saves(x) => Key(x) \in DOMAIN dir

\* ... and while nobody has rewritten it under somebody else.
Undisturbed(t, x) ==
  Key(x) \notin clobbered =>
    /\ Relies(x) => Complete(Key(x)) /\ (x.pc = "map" => x.read = dir[Key(x)].state)
    /\ Saves(x) => /\ dir[Key(x)].mem = <<t>>
                   /\ x.pc # "dumping" => dir[Key(x)].full
                   /\ ~Valid(Key(x))
                   /\ pool # None => pool[1].key # Key(x)

Alive(x) == x.pc \notin {"create", "created", "done"}

ThreadOK(t, x) ==
  /\ Configured(x) /\ ReadsOwn(x) /\ Busy(x)
  /\ Saves(x) \/ Relies(x) => Undisturbed(t, x)
  /\ Alive(x) => VmWhole(x.vm)

\* A saver is alone with its key.
Alone(t, u) ==
  t # u /\ Saves(th[t]) /\ Key(th[t]) \notin clobbered /\ (Saves(th[u]) \/ Relies(th[u]))
    => Key(th[u]) # Key(th[t])

\* The files, the index and the pool.
StoreOK ==
  /\ dir = [k \in DOMAIN dir |-> dir[k]]
  /\ \A k \in DOMAIN dir : /\ IsDir(dir[k])
                           /\ BootedFor(dir[k].mem, k) /\ BootedFor(dir[k].state, k)
  /\ cache = [k \in DOMAIN cache |-> cache[k]]
  /\ index = cache
  /\ \A k \in DOMAIN cache : Valid(k) /\ k \notin clobbered => Complete(k)

PoolOK ==
  /\ IsSeq(warm)
  /\ \A i \in 1 .. Len(warm) : /\ IsVm(warm[i]) /\ warm[i].via \in {"pool", "none"}
                               /\ VmWhole(warm[i])
  /\ pool # None /\ pool[1].key \notin clobbered => Complete(pool[1].key)
  /\ filling # None =>
       /\ pool # None /\ filling = <<filling[1]>> /\ IsVm(filling[1])
       /\ filling[1].via \in {"none", "reading"} /\ filling[1].key = None
       /\ filling[1].via = "reading" /\ pool[1].key \notin clobbered =>
            filling[1].regs = dir[pool[1].key].state

HostOK == host \in [tap : BOOLEAN, nat : Nat, stale : Nat]

IInv ==
  /\ th = [t \in Threads |-> th[t]] /\ \A t \in Threads : ThreadOK(t, th[t])
  /\ \A t, u \in Threads : Alone(t, u)
  /\ StoreOK /\ PoolOK /\ HostOK /\ NoStrayNat

-----------------------------------------------------------------------------
(* Threads.                                                                *)

\* A thread's record is replaced; the others keep theirs.
Moves(t) == th' = [th EXCEPT ![t] = th'[t]]

\* What Goto changes.
LEMMA GotoMoves ==
  ASSUME IInv, NEW t \in Threads, NEW p, Goto(t, p)
  PROVE  /\ Moves(t) /\ IsThread(th'[t]) /\ th'[t].pc = p
         /\ th'[t].cfg = th[t].cfg /\ th'[t].vm = th[t].vm /\ th'[t].writes = th[t].writes
         /\ th'[t].save = th[t].save /\ th'[t].read = th[t].read /\ th'[t].next = th[t].next
         /\ th'[t].applied = th[t].applied
<1>1. IsThread(th[t]) /\ th = [u \in Threads |-> th[u]]
  BY DEF IInv, ThreadOK, Configured
<1>2. th' = [th EXCEPT ![t] = [th[t] EXCEPT !.pc = p]]
  BY DEF Goto, Set
<1>. QED BY <1>1, <1>2 DEF Moves, IsThread

\* A configuration is made once.
LEMMA CfgKept ==
  ASSUME IInv, NEW t \in Threads, Moves(t), th[t].pc # "create" => th'[t].cfg = th[t].cfg
  PROVE  \A u \in Threads : th[u].cfg # None => th'[u].cfg = th[u].cfg
<1>1. th[t].cfg # None => th'[t].cfg = th[t].cfg
  BY DEF IInv, ThreadOK, Configured
<1>2. th = [u \in Threads |-> th[u]]
  BY DEF IInv
<1>. QED BY <1>1, <1>2 DEF Moves

\* So what was saved stays that of its saver.
LEMMA BootedKept ==
  ASSUME IInv, NEW t \in Threads, Moves(t), th[t].pc # "create" => th'[t].cfg = th[t].cfg,
         NEW s, NEW k, BootedFor(s, k)
  PROVE  BootedFor(s, k)'
BY CfgKept, Zenon DEF BootedFor, Key

\* What the savers other than t rely on: no index entry and no pool has their key.
Spared(t) ==
  \A u \in Threads \ {t} : Saves(th[u]) /\ Key(th[u]) \notin clobbered =>
     ~Valid(Key(th[u])) /\ (pool # None => pool[1].key # Key(th[u]))

\* A step of one thread that leaves the files alone.
LEMMA ThreadStep ==
  ASSUME IInv, NEW t \in Threads, Moves(t), UNCHANGED <<dir, clobbered>>, Spared(t)',
         th[t].pc # "create" => th'[t].cfg = th[t].cfg,
         ThreadOK(t, th[t])',
         Saves(th[t])' => Saves(th[t]),
         ASSUME NEW u \in Threads, u # t, Relies(th[t])', ~Relies(th[t]), Saves(th[u]),
                Key(th[u]) \notin clobbered
         PROVE  Key(th'[t]) # Key(th[u])
  PROVE  /\ th' = [u \in Threads |-> th'[u]] /\ \A u \in Threads : ThreadOK(u, th[u])'
         /\ \A u, v \in Threads : Alone(u, v)'
<1>. USE Zenon
<1>1. th = [u \in Threads |-> th[u]] /\ \A u \in Threads : ThreadOK(u, th[u])
  BY SMT DEF IInv
<1>2. th' = [u \in Threads |-> th'[u]] /\ \A u \in Threads \ {t} : th'[u] = th[u]
  BY <1>1, SMT DEF Moves
<1>3. ASSUME NEW s, NEW k, BootedFor(s, k) PROVE BootedFor(s, k)'
  BY <1>3, BootedKept
<1>4. dir' = dir /\ clobbered' = clobbered
  BY SMT
<1>5. ASSUME NEW u \in Threads, u # t PROVE ThreadOK(u, th[u])'
  <2>1. ThreadOK(u, th[u]) /\ th'[u] = th[u]
    BY <1>1, <1>2, <1>5, SMT
  <2>2. ReadsOwn(th[u])'
    BY <2>1, <1>3 DEF ThreadOK, ReadsOwn
  <2>3. Configured(th[u])' /\ (Alive(th[u]) => VmWhole(th[u].vm))'
    BY <2>1, <1>4 DEF ThreadOK, Configured, VmWhole, Alive, Key
  <2>4. Busy(th[u])'
    BY <2>1, <1>4 DEF ThreadOK, Busy, Key, Saves
  <2>5. (Saves(th[u]) \/ Relies(th[u]) => Undisturbed(u, th[u]))'
    <3>1. SUFFICES ASSUME Saves(th[u]) \/ Relies(th[u]), Key(th[u]) \notin clobbered
                   PROVE  Undisturbed(u, th[u])'
      BY <2>1, <1>4 DEF Saves, Relies, Undisturbed, Key
    <3>2. Undisturbed(u, th[u])
      BY <3>1, <2>1 DEF ThreadOK
    <3>3. Saves(th[u]) => (~Valid(Key(th[u])) /\ (pool # None => pool[1].key # Key(th[u])))'
      BY <3>1, <2>1, <1>4, <1>5 DEF Spared, Saves, Key
    <3>4. Complete(Key(th[u])) => Complete(Key(th[u]))'
      BY <2>1, <1>4 DEF Complete, Key
    <3>. QED BY <3>1, <3>2, <3>3, <3>4, <2>1, <1>4 DEF Undisturbed, Saves, Relies, Key
  <2>. QED BY <2>2, <2>3, <2>4, <2>5 DEF ThreadOK
<1>6. \A u \in Threads : ThreadOK(u, th[u])'
  BY <1>5
<1>7. ASSUME NEW u \in Threads, NEW v \in Threads PROVE Alone(u, v)'
  <2>1. SUFFICES ASSUME u # v, Saves(th'[u]), Key(th'[u]) \notin clobbered,
                        Saves(th'[v]) \/ Relies(th'[v])
                 PROVE  Key(th'[v]) # Key(th'[u])
    BY <1>4 DEF Alone, Saves, Relies, Key
  <2>2. Saves(th[u]) /\ Key(th[u]) = Key(th'[u])
    <3>1. CASE u = t
      <4>1. th[t].pc # "create"
        BY <3>1, <2>1, SMT DEF Saves, Saving
      <4>. QED BY <3>1, <2>1, <4>1, SMT DEF Key, Saves
    <3>. QED BY <3>1, <2>1, <1>2
  <2>3. CASE v # t
    <3>1. th'[v] = th[v]
      BY <2>3, <1>2, SMT
    <3>. QED BY <3>1, <2>1, <2>2 DEF IInv, Alone
  <2>4. CASE v = t /\ (Saves(th[t]) \/ Relies(th[t]))
    <3>1. th[t].pc # "create"
      BY <2>4, SMT DEF Saves, Saving, Relies
    <3>2. Key(th'[v]) = Key(th[v])
      BY <2>4, <3>1, SMT DEF Key
    <3>. QED BY <3>2, <2>4, <2>1, <2>2 DEF IInv, Alone
  <2>5. CASE v = t /\ ~(Saves(th[t]) \/ Relies(th[t]))
    <3>1. Relies(th[t])'
      BY <2>5, <2>1 DEF Saves, Relies
    <3>2. u # t
      BY <2>5, <2>1, SMT
    <3>. QED BY <3>1, <3>2, <2>5, <2>2, <2>1
  <2>. QED BY <2>3, <2>4, <2>5
<1>. QED BY <1>2, <1>6, <1>7

\* The index and the pool are left alone.
LEMMA SparedKept ==
  ASSUME IInv, NEW t \in Threads, Moves(t), UNCHANGED <<cache, pool, clobbered>>
  PROVE  Spared(t)'
<1>1. \A u \in Threads \ {t} : th'[u] = th[u] /\ ThreadOK(u, th[u])
  BY DEF IInv, Moves
<1>2. SUFFICES ASSUME NEW u \in Threads \ {t}, Saves(th'[u]), Key(th'[u]) \notin clobbered
               PROVE  (~Valid(Key(th[u])) /\ (pool # None => pool[1].key # Key(th[u])))'
  BY Zenon DEF Spared, Saves, Key
<1>3. th'[u] = th[u] /\ Undisturbed(u, th[u])
  BY <1>1, <1>2, Zenon DEF ThreadOK, Saves
<1>. QED BY <1>3, <1>2, Zenon DEF Undisturbed, Valid, Key

\* The files and the index are left alone.
LEMMA StoreKept ==
  ASSUME IInv, NEW t \in Threads, Moves(t), UNCHANGED <<disk, cache, clobbered>>,
         th[t].pc # "create" => th'[t].cfg = th[t].cfg
  PROVE  StoreOK'
<1>1. StoreOK
  BY DEF IInv
<1>2. dir' = dir /\ index' = index /\ cache' = cache /\ clobbered' = clobbered
  BY DEF disk
<1>3. ASSUME NEW k \in DOMAIN dir
      PROVE  BootedFor(dir[k].mem, k)' /\ BootedFor(dir[k].state, k)'
  <2>1. ASSUME NEW s, BootedFor(s, k) PROVE BootedFor(s, k)'
    BY <2>1, BootedKept, Zenon
  <2>. QED BY <1>1, <1>2, <2>1, Zenon DEF StoreOK
<1>. QED BY <1>1, <1>2, <1>3, Zenon DEF StoreOK, Valid, Complete

\* The pool is left alone.
LEMMA PoolKept ==
  ASSUME IInv, UNCHANGED <<dir, l4, clobbered>>
  PROVE  PoolOK'
<1>1. dir' = dir /\ pool' = pool /\ warm' = warm /\ filling' = filling /\ clobbered' = clobbered
  BY DEF l4
<1>. QED BY <1>1, Zenon DEF IInv, PoolOK, Complete, VmWhole

-----------------------------------------------------------------------------
(* Masquerade rules.                                                       *)

Applied == {t \in Threads : th[t].applied}

\* One thread less.
LEMMA Without ==
  ASSUME Counting, NEW S \in SUBSET Threads, NEW t \in S
  PROVE  Cardinality(S \ {t}) = Cardinality(S) - 1
<1>1. S \ {t} \in SUBSET Threads /\ t \in Threads \ (S \ {t}) /\ (S \ {t}) \cup {t} = S
  OBVIOUS
<1>. DEFINE R == S \ {t}
<1>. HIDE DEF R
<1>2. Cardinality(R) \in Nat /\ Cardinality(R \cup {t}) = Cardinality(R) + 1
  BY <1>1 DEF R, Counting
<1>3. R \cup {t} = S
  BY <1>1, Zenon DEF R
<1>4. Cardinality(R) \in Nat /\ Cardinality(S) = Cardinality(R) + 1
  BY <1>2, <1>3, Zenon
<1>5. Cardinality(R) = Cardinality(S) - 1
  BY <1>4
<1>. QED BY <1>5, Zenon DEF R

\* A step of one thread leaves the sets of the others as they are.
LEMMA AppliedMoves ==
  ASSUME Counting, IInv, NEW t \in Threads, Moves(t), th'[t].applied \in BOOLEAN
  PROVE  /\ Cardinality(Applied) \in Nat
         /\ th'[t].applied = th[t].applied => Applied' = Applied
         /\ ~th[t].applied /\ th'[t].applied =>
              Cardinality(Applied') = Cardinality(Applied) + 1
         /\ th[t].applied /\ ~th'[t].applied =>
              Cardinality(Applied') = Cardinality(Applied) - 1
<1>1. th = [u \in Threads |-> th[u]] /\ th[t].applied \in BOOLEAN
  BY DEF IInv, ThreadOK, Configured
<1>2. Applied \in SUBSET Threads
  BY DEF Applied
<1>3. Cardinality(Applied) \in Nat
  BY <1>2, Zenon DEF Counting
<1>4. \A u \in Threads \ {t} : th'[u] = th[u]
  BY <1>1 DEF Moves
<1>5. ASSUME th'[t].applied = th[t].applied PROVE Applied' = Applied
  BY <1>1, <1>4, <1>5 DEF Applied
<1>6. ASSUME ~th[t].applied, th'[t].applied
      PROVE  Cardinality(Applied') = Cardinality(Applied) + 1
  <2>1. Applied' = Applied \cup {t} /\ t \notin Applied
    BY <1>1, <1>4, <1>6 DEF Applied
  <2>2. Cardinality(Applied \cup {t}) = Cardinality(Applied) + 1
    BY <1>2, <2>1 DEF Counting
  <2>. QED BY <2>1, <2>2, Zenon
<1>7. ASSUME th[t].applied, ~th'[t].applied
      PROVE  Cardinality(Applied') = Cardinality(Applied) - 1
  <2>1. Applied' = Applied \ {t} /\ t \in Applied
    BY <1>1, <1>4, <1>7 DEF Applied
  <2>2. Cardinality(Applied \ {t}) = Cardinality(Applied) - 1
    BY <1>2, <2>1, Without
  <2>. QED BY <2>1, <2>2, Zenon
<1>. QED BY <1>3, <1>5, <1>6, <1>7, Zenon

\* A step that adds no rule and takes no thread from those that remove one.
LEMMA NatKept ==
  ASSUME Counting, IInv, NEW t \in Threads, Moves(t), th'[t].applied \in BOOLEAN,
         th[t].applied => th'[t].applied, HostOK', host'.nat = host.nat, host'.stale = host.stale
  PROVE  NoStrayNat'
<1>1. host.nat \in Nat /\ host.stale \in Nat /\ host.nat <= Cardinality(Applied) + host.stale
  BY DEF IInv, HostOK, NoStrayNat, Applied
<1>2. Cardinality(Applied') >= Cardinality(Applied) /\ Cardinality(Applied) \in Nat
      /\ Cardinality(Applied') \in Nat
  <2>1. th[t].applied \in BOOLEAN
    BY DEF IInv, ThreadOK, Configured
  <2>. QED BY <2>1, AppliedMoves
<1>3. host'.nat <= Cardinality(Applied') + host'.stale
  BY <1>1, <1>2
<1>. QED BY <1>3, Zenon DEF NoStrayNat, Applied

-----------------------------------------------------------------------------
(* Steps of one thread that write no file.                                 *)

\* The points at which a thread neither saves nor relies on a snapshot.
Plain == {"acquire", "lookup", "invalidate", "build", "boot", "dump", "run", "done"}

\* A thread that goes to one of them keeps what is said of the threads.
LEMMA PlainStep ==
  ASSUME IInv, NEW t \in Threads, Moves(t), UNCHANGED <<dir, clobbered>>, Spared(t)',
         th[t].pc \notin {"create", "done"}, IsThread(th'[t]), th'[t].pc \in Plain,
         th'[t].cfg = th[t].cfg, th'[t].vm = th[t].vm, th'[t].read \in {None, th[t].read},
         th'[t].applied \in BOOLEAN, th'[t].pc \in NotNetworked => ~th'[t].applied
  PROVE  /\ th' = [u \in Threads |-> th'[u]] /\ \A u \in Threads : ThreadOK(u, th[u])'
         /\ \A u, v \in Threads : Alone(u, v)'
<1>. USE Zenon
<1>1. ThreadOK(t, th[t])
  BY SMT DEF IInv
<1>2. ~Saves(th'[t]) /\ ~Relies(th'[t])
  BY SMT DEF Plain, Saves, Saving, Relies
<1>3. Configured(th[t])'
  <2>1. th[t].cfg # None
    BY <1>1 DEF ThreadOK, Configured
  <2>2. th'[t].pc \notin {"create", "created", "setup", "masquerade"}
    BY SMT DEF Plain
  <2>. QED BY <1>1, <2>1, <2>2 DEF ThreadOK, Configured
<1>4. ReadsOwn(th[t])'
  <2>1. \A u \in Threads : th[u].cfg # None => th'[u].cfg = th[u].cfg
    BY CfgKept
  <2>2. Key(th'[t]) = Key(th[t])
    BY SMT DEF Key
  <2>3. BootedFor(th[t].read, Key(th[t]))'
    BY <1>1, <2>1, <2>2 DEF ThreadOK, ReadsOwn, BootedFor, Key
  <2>. QED BY <1>1, <2>1, <2>2, <2>3 DEF ThreadOK, ReadsOwn, BootedFor, Key
<1>5. Busy(th[t])'
  <2>1. th'[t].pc # "map"
    BY SMT DEF Plain
  <2>. QED BY <1>2, <2>1 DEF Busy, Saves
<1>6. (Alive(th[t]) => VmWhole(th[t].vm))'
  <2>1. CASE th[t].pc = "created"
    <3>1. ~Restores(th'[t].vm)
      BY <1>1, <2>1, SMT DEF ThreadOK, Configured, Restores, NoVm, Vm
    <3>. QED BY <3>1 DEF VmWhole, Restores
  <2>2. CASE th[t].pc # "created"
    <3>1. VmWhole(th[t].vm)
      BY <1>1, <2>2 DEF ThreadOK, Alive
    <3>. QED BY <3>1 DEF VmWhole, Restores
  <2>. QED BY <2>1, <2>2
<1>7. ThreadOK(t, th[t])'
  BY <1>2, <1>3, <1>4, <1>5, <1>6 DEF ThreadOK, Saves, Relies
<1>. QED BY <1>2, <1>7, ThreadStep DEF Saves, Relies

\* The rest of the invariant, when nothing but the thread and left changes.
LEMMA LocalStep ==
  ASSUME Counting, IInv, NEW t \in Threads, Moves(t), UNCHANGED <<disk, cache, l4, clobbered>>,
         th[t].pc # "create" => th'[t].cfg = th[t].cfg,
         th' = [u \in Threads |-> th'[u]], \A u \in Threads : ThreadOK(u, th[u])',
         \A u, v \in Threads : Alone(u, v)',
         th[t].applied => th'[t].applied,
         host' = host \/ OpenTap
  PROVE  IInv'
<1>1. StoreOK'
  BY StoreKept, Zenon
<1>2. PoolOK'
  <2>1. UNCHANGED <<dir, l4, clobbered>>
    BY DEF disk
  <2>. QED BY <2>1, PoolKept, Zenon
<1>3. HostOK' /\ host'.nat = host.nat /\ host'.stale = host.stale
  BY Zenon DEF IInv, HostOK, OpenTap
<1>4. NoStrayNat'
  BY <1>3, NatKept, Zenon DEF ThreadOK, Configured
<1>. QED BY <1>1, <1>2, <1>3, <1>4, Zenon DEF IInv

\* Both together.
LEMMA PlainLocal ==
  ASSUME Counting, IInv, NEW t \in Threads, Moves(t), UNCHANGED <<disk, cache, l4, clobbered>>,
         th[t].pc \notin {"create", "done"}, IsThread(th'[t]), th'[t].pc \in Plain,
         th'[t].cfg = th[t].cfg, th'[t].vm = th[t].vm, th'[t].read \in {None, th[t].read},
         th'[t].applied \in BOOLEAN, th'[t].pc \in NotNetworked => ~th'[t].applied,
         th[t].applied => th'[t].applied,
         host' = host \/ OpenTap
  PROVE  IInv'
<1>1. UNCHANGED <<dir, clobbered>> /\ UNCHANGED <<cache, pool, clobbered>>
  BY DEF disk, l4
<1>2. Spared(t)'
  BY <1>1, SparedKept, Zenon
<1>3. /\ th' = [u \in Threads |-> th'[u]] /\ \A u \in Threads : ThreadOK(u, th[u])'
      /\ \A u, v \in Threads : Alone(u, v)'
  BY <1>1, <1>2, PlainStep, Zenon
<1>. QED BY <1>3, LocalStep, Zenon

\* What the invariant says of a thread's own record.
LEMMA Thread ==
  ASSUME IInv, NEW t \in Threads
  PROVE  /\ th = [u \in Threads |-> th[u]] /\ IsThread(th[t]) /\ IsVm(th[t].vm)
         /\ th[t].applied \in BOOLEAN /\ (th[t].pc \in NotNetworked => ~th[t].applied)
         /\ (th[t].cfg = None) = (th[t].pc = "create")
BY Zenon DEF IInv, ThreadOK, Configured

\* start_sandbox.
LEMMA StartSafe == ASSUME Counting, IInv, NEW t \in Threads, Start(t) PROVE IInv'
<1>1. th[t].pc = "created" /\ Goto(t, "acquire")
      /\ UNCHANGED <<disk, cache, l4, clobbered>> /\ host' = host
  BY DEF Start, At
<1>2. "acquire" \in Plain /\ th[t].pc \in NotNetworked
  BY <1>1 DEF Plain, NotNetworked
<1>3. Moves(t) /\ IsThread(th'[t]) /\ th'[t].pc = "acquire" /\ th'[t].cfg = th[t].cfg
      /\ th'[t].vm = th[t].vm /\ th'[t].read = th[t].read /\ th'[t].applied = th[t].applied
  BY <1>1, GotoMoves, Zenon
<1>. QED BY <1>1, <1>2, <1>3, Thread, PlainLocal, Zenon

\* A lookup in L3 that finds nothing.
LEMMA MissSafe ==
  ASSUME Counting, IInv, NEW t \in Threads, Lookup(t), ~LookupHit(Cfg(t)) PROVE IInv'
<1>1. th[t].pc = "lookup" /\ UNCHANGED <<disk, cache, l4, clobbered>> /\ host' = host
  BY DEF Lookup, At
<1>2. th' = [th EXCEPT ![t] = [th[t] EXCEPT !.pc = "build", !.save = HasSnapshotSupport(Cfg(t))]]
  BY DEF Lookup, Set
<1>3. Moves(t) /\ IsThread(th'[t]) /\ th'[t].pc = "build" /\ th'[t].cfg = th[t].cfg
      /\ th'[t].vm = th[t].vm /\ th'[t].read = th[t].read /\ th'[t].applied = th[t].applied
  BY <1>2, Thread, Zenon DEF Moves, IsThread
<1>4. "build" \in Plain /\ th[t].pc \in NotNetworked
  BY <1>1 DEF Plain, NotNetworked
<1>. QED BY <1>1, <1>3, <1>4, Thread, PlainLocal, Zenon

\* restore_snapshot fails.
LEMMA RestoreFailsSafe == ASSUME Counting, IInv, NEW t \in Threads, RestoreFails(t) PROVE IInv'
<1>1. th[t].pc \in {"read", "map"} /\ UNCHANGED <<disk, cache, l4, clobbered>> /\ host' = host
  BY DEF RestoreFails, At
<1>2. th' = [th EXCEPT ![t] = [th[t] EXCEPT !.pc = "invalidate", !.read = None]]
  BY DEF RestoreFails, Set
<1>3. Moves(t) /\ IsThread(th'[t]) /\ th'[t].pc = "invalidate" /\ th'[t].cfg = th[t].cfg
      /\ th'[t].vm = th[t].vm /\ th'[t].read = None /\ th'[t].applied = th[t].applied
  BY <1>2, Thread, Zenon DEF Moves, IsThread
<1>4. "invalidate" \in Plain /\ th[t].pc \in NotNetworked /\ th[t].pc \notin {"create", "done"}
  BY <1>1 DEF Plain, NotNetworked
<1>5. th'[t].read \in {None, th[t].read}
  BY <1>3
<1>. QED BY <1>1, <1>3, <1>4, <1>5, Thread, PlainLocal, Zenon

\* build_vm fails before it opens the TAP.
LEMMA KvmRefusesSafe == ASSUME Counting, IInv, NEW t \in Threads, KvmRefuses(t) PROVE IInv'
<1>1. th[t].pc = "build" /\ UNCHANGED <<disk, cache, l4, clobbered>> /\ host' = host
  BY DEF KvmRefuses, At
<1>2. th' = [th EXCEPT ![t] = [th[t] EXCEPT !.pc = "done", !.save = FALSE]]
  BY DEF KvmRefuses, Set
<1>3. Moves(t) /\ IsThread(th'[t]) /\ th'[t].pc = "done" /\ th'[t].cfg = th[t].cfg
      /\ th'[t].vm = th[t].vm /\ th'[t].read = th[t].read /\ th'[t].applied = th[t].applied
  BY <1>2, Thread, Zenon DEF Moves, IsThread
<1>4. "done" \in Plain /\ th[t].pc \in NotNetworked
  BY <1>1 DEF Plain, NotNetworked
<1>. QED BY <1>1, <1>3, <1>4, Thread, PlainLocal, Zenon

\* The guest boots to its marker, or not.
LEMMA BootToMarkerSafe == ASSUME Counting, IInv, NEW t \in Threads, BootToMarker(t) PROVE IInv'
<1>1. th[t].pc = "boot" /\ UNCHANGED <<disk, cache, l4, clobbered>> /\ host' = host
  BY DEF BootToMarker, At
<1>2. PICK p \in {"dump", "run"} : Goto(t, p)
  BY DEF BootToMarker
<1>3. p \in Plain /\ p \notin NotNetworked
  BY DEF Plain, NotNetworked
<1>. QED BY <1>1, <1>2, <1>3, Thread, GotoMoves, PlainLocal, Zenon

\* save_snapshot fails.
LEMMA SaveFailsSafe == ASSUME Counting, IInv, NEW t \in Threads, SaveFails(t) PROVE IInv'
<1>1. th[t].pc \in Saving \cup {"dump"} /\ Goto(t, "run")
      /\ UNCHANGED <<disk, cache, l4, clobbered>> /\ host' = host
  BY DEF SaveFails
<1>2. "run" \in Plain /\ "run" \notin NotNetworked /\ th[t].pc \notin {"create", "done"}
  BY <1>1 DEF Plain, NotNetworked, Saving
<1>3. Moves(t) /\ IsThread(th'[t]) /\ th'[t].pc = "run" /\ th'[t].cfg = th[t].cfg
      /\ th'[t].vm = th[t].vm /\ th'[t].read = th[t].read /\ th'[t].applied = th[t].applied
  BY <1>1, GotoMoves, Zenon
<1>. QED BY <1>1, <1>2, <1>3, Thread, PlainLocal, Zenon

-----------------------------------------------------------------------------
(* Steps to a point at which the thread relies on a snapshot.              *)

\* create_sandbox and nova-vmm make the configuration.
LEMMA ConfiguredSafe ==
  ASSUME Counting, IInv, NEW t \in Threads, NEW p \in {"created", "build"}, NEW c,
         th[t].pc = "create", th' = [th EXCEPT ![t] = [th[t] EXCEPT !.pc = p, !.cfg = <<c>>]],
         UNCHANGED <<disk, cache, l4, host, clobbered>>
  PROVE  IInv'
<1>1. Moves(t) /\ IsThread(th'[t]) /\ th'[t].pc = p /\ th'[t].cfg = <<c>>
      /\ th'[t].vm = th[t].vm /\ th'[t].read = th[t].read /\ th'[t].applied = th[t].applied
      /\ th'[t].next = th[t].next
  BY Thread, Zenon DEF Moves, IsThread
<1>2. ThreadOK(t, th[t]) /\ th[t].vm = NoVm /\ th[t].read = None /\ ~th[t].applied
  BY DEF IInv, ThreadOK, Configured, NotNetworked
<1>3. ThreadOK(t, th[t])'
  <2>1. th'[t].cfg # None
    BY <1>1 DEF None
  <2>2. th'[t].pc \notin {"create", "setup", "masquerade", "map"}
        /\ ~Saves(th'[t]) /\ ~Relies(th'[t])
    BY <1>1 DEF Saves, Relies, Saving
  <2>3. th'[t].vm.via = "none"
    BY <1>1, <1>2 DEF NoVm, Vm
  <2>4. Configured(th[t])'
    BY <1>1, <1>2, <2>1, <2>2, Thread, ZenonT(40) DEF ThreadOK, Configured
  <2>5. ReadsOwn(th[t])' /\ VmWhole(th[t].vm)'
    BY <1>1, <1>2, <2>3, Zenon DEF ReadsOwn, VmWhole, BootedFor, Restores
  <2>6. Busy(th[t])'
    BY <2>2, Zenon DEF Busy, Saves
  <2>. QED BY <2>2, <2>4, <2>5, <2>6, Zenon DEF ThreadOK, Saves, Relies
<1>4. UNCHANGED <<dir, clobbered>> /\ UNCHANGED <<cache, pool, clobbered>>
      /\ UNCHANGED <<disk, cache, l4, clobbered>> /\ host' = host
  BY DEF disk, l4
<1>5. ~Saves(th'[t]) /\ ~Relies(th'[t])
  BY <1>1 DEF Saves, Relies, Saving
<1>6. /\ th' = [u \in Threads |-> th'[u]] /\ \A u \in Threads : ThreadOK(u, th[u])'
      /\ \A u, v \in Threads : Alone(u, v)'
  BY <1>1, <1>3, <1>4, <1>5, SparedKept, ThreadStep, Zenon DEF Saves, Relies
<1>. QED BY <1>1, <1>4, <1>6, LocalStep, Zenon

\* The daemon creates a sandbox.
LEMMA CreateSafe == ASSUME Counting, IInv, NEW t \in Threads, Create(t) PROVE IInv'
<1>1. th[t].pc = "create" /\ UNCHANGED <<disk, cache, l4, host, clobbered>>
  BY Zenon DEF Create, At
<1>2. PICK c : th' = [th EXCEPT ![t] = [th[t] EXCEPT !.pc = "created", !.cfg = <<c>>]]
  BY Zenon DEF Create, Set
<1>. QED BY <1>1, <1>2, ConfiguredSafe, Zenon

\* nova-vmm is started from its command line.
LEMMA MainParsesSafe == ASSUME Counting, IInv, NEW t \in Threads, MainParses(t) PROVE IInv'
<1>1. th[t].pc = "create" /\ UNCHANGED <<disk, cache, l4, host, clobbered>>
  BY DEF MainParses, At
<1>2. PICK c : th' = [th EXCEPT ![t] = [th[t] EXCEPT !.pc = "build", !.cfg = <<c>>]]
  BY Zenon DEF MainParses, Set
<1>. QED BY <1>1, <1>2, ConfiguredSafe, Zenon

\* The rest of the invariant, for a thread that relied on its snapshot before.
LEMMA RelyingLocal ==
  ASSUME Counting, IInv, NEW t \in Threads, Moves(t), UNCHANGED <<disk, cache, l4, clobbered>>,
         th'[t].cfg = th[t].cfg, ThreadOK(t, th[t])', ~Saves(th'[t]),
         Relies(th'[t]) => Relies(th[t]),
         th[t].applied => th'[t].applied,
         host' = host \/ OpenTap
  PROVE  IInv'
<1>1. UNCHANGED <<dir, clobbered>> /\ UNCHANGED <<cache, pool, clobbered>>
  BY DEF disk, l4
<1>2. /\ th' = [u \in Threads |-> th'[u]] /\ \A u \in Threads : ThreadOK(u, th[u])'
      /\ \A u, v \in Threads : Alone(u, v)'
  BY <1>1, SparedKept, ThreadStep, Zenon DEF Saves, Relies
<1>. QED BY <1>2, LocalStep, Zenon

\* A thread that keeps what it has read and the VM it has.
LEMMA ReadsOwnKept ==
  ASSUME IInv, NEW t \in Threads, Moves(t), th'[t].cfg = th[t].cfg,
         th'[t].read = th[t].read, th'[t].vm = th[t].vm
  PROVE  ReadsOwn(th[t])'
<1>1. ReadsOwn(th[t])
  BY DEF IInv, ThreadOK
<1>2. \A u \in Threads : th[u].cfg # None => th'[u].cfg = th[u].cfg
  BY CfgKept, Zenon
<1>. QED BY <1>1, <1>2, Zenon DEF ReadsOwn, BootedFor, Key

\* A lookup in L3 that finds an entry.
LEMMA HitSafe ==
  ASSUME Counting, IInv, NEW t \in Threads, Lookup(t), LookupHit(Cfg(t)) PROVE IInv'
<1>. USE Zenon
<1>1. th[t].pc = "lookup" /\ UNCHANGED <<disk, cache, l4, clobbered>> /\ host' = host
      /\ Goto(t, "read")
  BY SMT DEF Lookup, At
<1>2. Moves(t) /\ IsThread(th'[t]) /\ th'[t].pc = "read" /\ th'[t].cfg = th[t].cfg
      /\ th'[t].vm = th[t].vm /\ th'[t].read = th[t].read /\ th'[t].applied = th[t].applied
  BY <1>1, GotoMoves
<1>3. Valid(Key(th[t])) /\ Key(th'[t]) = Key(th[t])
  BY <1>2 DEF LookupHit, Cached, Valid, Key, Cfg
<1>4. Key(th[t]) \notin clobbered => Complete(Key(th[t]))
  BY <1>3 DEF IInv, StoreOK, Valid
<1>5. dir' = dir /\ cache' = cache /\ pool' = pool /\ clobbered' = clobbered
  BY <1>1, SMT DEF disk, l4
<1>6. th[t].cfg # None /\ ~th[t].applied /\ Alive(th[t])
  BY <1>1, Thread, SMT DEF NotNetworked, Alive
<1>7. th'[t].pc \notin {"create", "created", "setup", "masquerade", "map"} /\ ~Saves(th'[t])
  BY <1>2, SMT DEF Saves, Saving
<1>8. ThreadOK(t, th[t])'
  <2>1. Configured(th[t])'
    BY <1>2, <1>6, <1>7, Thread DEF Configured
  <2>2. ReadsOwn(th[t])'
    BY <1>2, ReadsOwnKept
  <2>3. Busy(th[t])'
    BY <1>7 DEF Busy, Saves
  <2>4. VmWhole(th[t].vm)'
    BY <1>2, <1>5, <1>6 DEF IInv, ThreadOK, VmWhole
  <2>5. Undisturbed(t, th[t])'
    <3>1. Complete(Key(th[t])) => Complete(Key(th[t]))'
      BY <1>3, <1>5 DEF Complete, Key
    <3>. QED BY <3>1, <1>3, <1>4, <1>5, <1>7 DEF Undisturbed, Key, Saves
  <2>. QED BY <2>1, <2>2, <2>3, <2>4, <2>5 DEF ThreadOK
<1>9. ASSUME NEW u \in Threads, u # t, Saves(th[u]), Key(th[u]) \notin clobbered
      PROVE  Key(th'[t]) # Key(th[u])
  <2>1. ~Valid(Key(th[u]))
    BY <1>9 DEF IInv, ThreadOK, Undisturbed
  <2>. QED BY <2>1, <1>3, SMT
<1>10. /\ th' = [u \in Threads |-> th'[u]] /\ \A u \in Threads : ThreadOK(u, th[u])'
       /\ \A u, v \in Threads : Alone(u, v)'
  <2>1. Spared(t)'
    BY <1>2, <1>5, SparedKept
  <2>. QED BY <2>1, <1>2, <1>5, <1>7, <1>8, <1>9, ThreadStep DEF Saves
<1>. QED BY <1>1, <1>2, <1>10, LocalStep

\* The state file is read.
LEMMA ReadStateSafe == ASSUME Counting, IInv, NEW t \in Threads, ReadState(t) PROVE IInv'
<1>. USE Zenon
<1>1. th[t].pc = "read" /\ UNCHANGED <<disk, cache, l4, clobbered>> /\ host' = host
      /\ Key(th[t]) \in DOMAIN dir /\ dir[Key(th[t])].state # None
  BY DEF ReadState, At, Readable, Key, Cfg
<1>2. th' = [th EXCEPT ![t] = [th[t] EXCEPT !.pc = "map", !.read = dir[Key(th[t])].state]]
  BY DEF ReadState, Set, Key, Cfg
<1>3. Moves(t) /\ IsThread(th'[t]) /\ th'[t].pc = "map" /\ th'[t].cfg = th[t].cfg
      /\ th'[t].vm = th[t].vm /\ th'[t].read = dir[Key(th[t])].state
      /\ th'[t].applied = th[t].applied
  BY <1>2, Thread DEF Moves, IsThread
<1>4. dir' = dir /\ cache' = cache /\ pool' = pool /\ clobbered' = clobbered
  BY <1>1, SMT DEF disk, l4
<1>5. th[t].cfg # None /\ ~th[t].applied /\ Alive(th[t]) /\ Relies(th[t])
  BY <1>1, Thread, SMT DEF NotNetworked, Alive, Relies
<1>6. th'[t].pc \notin {"create", "created", "setup", "masquerade"} /\ ~Saves(th'[t])
  BY <1>3, SMT DEF Saves, Saving
<1>7. Key(th'[t]) = Key(th[t])
  BY <1>3 DEF Key
<1>8. ThreadOK(t, th[t])'
  <2>1. Configured(th[t])'
    BY <1>3, <1>5, <1>6, Thread DEF Configured
  <2>2. ReadsOwn(th[t])'
    <3>1. \A u \in Threads : th[u].cfg # None => th'[u].cfg = th[u].cfg
      BY <1>3, CfgKept
    <3>2. BootedFor(dir[Key(th[t])].state, Key(th[t])) /\ ReadsOwn(th[t])
      BY <1>1 DEF IInv, StoreOK, ThreadOK
    <3>. QED BY <3>1, <3>2, <1>3, <1>7 DEF ReadsOwn, BootedFor, Key
  <2>3. Busy(th[t])'
    BY <1>1, <1>3, <1>4, <1>6, <1>7 DEF Busy, Saves
  <2>4. VmWhole(th[t].vm)'
    BY <1>3, <1>4, <1>5 DEF IInv, ThreadOK, VmWhole
  <2>5. Undisturbed(t, th[t])'
    <3>1. Complete(Key(th[t])) => Complete(Key(th[t]))'
      BY <1>7, <1>4 DEF Complete, Key
    <3>2. Undisturbed(t, th[t])
      BY <1>5 DEF IInv, ThreadOK
    <3>. QED BY <3>1, <3>2, <1>3, <1>4, <1>5, <1>6, <1>7 DEF Undisturbed, Key, Saves
  <2>. QED BY <2>1, <2>2, <2>3, <2>4, <2>5 DEF ThreadOK
<1>. QED BY <1>1, <1>3, <1>5, <1>6, <1>8, RelyingLocal

\* The memory file is mapped.
LEMMA MapMemorySafe == ASSUME Counting, IInv, NEW t \in Threads, MapMemory(t) PROVE IInv'
<1>. USE Zenon
<1>. DEFINE k == Key(th[t])
            v == Restored("l3", k, th[t].read)
<1>1. th[t].pc = "map" /\ UNCHANGED <<disk, cache, l4, clobbered>> /\ dir[k].mem # None
  BY DEF MapMemory, At, Key, Cfg
<1>2. th' = [th EXCEPT ![t] = Networked([th[t] EXCEPT !.vm = v], "pool")]
  BY DEF MapMemory, Set, Key, Cfg
<1>3. host' = host \/ OpenTap
  BY DEF MapMemory, NetHost
<1>4. IsVm(v) /\ v.via = "l3" /\ v.regs = th[t].read /\ v.mem = dir[k].mem /\ v.key = <<k>>
      /\ v.whole = dir[k].full
  BY SMT DEF Restored, Vm, IsVm
<1>. HIDE DEF v
<1>5. Moves(t) /\ IsThread(th'[t]) /\ th'[t].cfg = th[t].cfg /\ th'[t].vm = v
      /\ th'[t].read = th[t].read /\ th'[t].applied = th[t].applied
      /\ (th'[t].pc = "pool" \/ (th'[t].pc = "setup" /\ th'[t].next = "pool"))
  <2>1. CASE workload.tap
    BY <1>2, <2>1, Thread DEF Moves, IsThread, Networked
  <2>2. CASE ~workload.tap
    <3>1. th' = [th EXCEPT ![t] = [[th[t] EXCEPT !.vm = v] EXCEPT !.pc = "pool"]]
      BY <1>2, <2>2 DEF Networked
    <3>2. Moves(t) /\ IsThread(th'[t]) /\ th'[t].cfg = th[t].cfg /\ th'[t].vm = v
          /\ th'[t].read = th[t].read /\ th'[t].applied = th[t].applied /\ th'[t].pc = "pool"
      BY <3>1, Thread DEF Moves, IsThread
    <3>. QED BY <3>2
  <2>. QED BY <2>1, <2>2
<1>6. dir' = dir /\ cache' = cache /\ pool' = pool /\ clobbered' = clobbered
  BY <1>1, SMT DEF disk, l4
<1>7. th[t].cfg # None /\ ~th[t].applied /\ Relies(th[t])
  BY <1>1, Thread, SMT DEF NotNetworked, Relies
<1>8. th'[t].pc \notin {"create", "created", "map", "masquerade"} /\ ~Saves(th'[t])
      /\ Relies(th'[t])
  BY <1>5, SMT DEF Saves, Saving, Relies
<1>9. Key(th'[t]) = k
  BY <1>5 DEF Key
<1>10. k \in DOMAIN dir /\ th[t].read # None
  BY <1>1 DEF IInv, ThreadOK, Busy
<1>11. k \notin clobbered => Complete(k) /\ th[t].read = dir[k].state
  BY <1>1, <1>7 DEF IInv, ThreadOK, Undisturbed
<1>12. BootedFor(th[t].read, k) /\ BootedFor(dir[k].mem, k)
  BY <1>10 DEF IInv, ThreadOK, ReadsOwn, StoreOK
<1>13. ThreadOK(t, th[t])'
  <2>1. Configured(th[t])'
    <3>1. th'[t].next = "pool" => th'[t].next \in {"run", "boot", "pool"}
      BY SMT
    <3>2. th'[t].pc \in {"setup", "masquerade"} => th'[t].next = "pool"
      BY <1>5, SMT
    <3>. QED BY <3>1, <3>2, <1>4, <1>5, <1>7, <1>8, <1>9, Thread DEF Configured
  <2>2. ReadsOwn(th[t])'
    <3>1. \A u \in Threads : th[u].cfg # None => th'[u].cfg = th[u].cfg
      BY <1>5, CfgKept
    <3>. QED BY <3>1, <1>1, <1>4, <1>5, <1>9, <1>10, <1>12 DEF ReadsOwn, BootedFor, Key
  <2>3. Busy(th[t])'
    BY <1>8 DEF Busy, Saves
  <2>4. VmWhole(th[t].vm)'
    <3>1. k \notin clobbered => v.whole /\ v.regs = v.mem
      BY <1>4, <1>11 DEF Complete
    <3>2. v.key[1] = k
      BY <1>4, SMT
    <3>. QED BY <3>1, <3>2, <1>5, <1>6 DEF VmWhole
  <2>5. Undisturbed(t, th[t])'
    <3>1. Complete(k) => Complete(Key(th[t]))'
      BY <1>9, <1>6 DEF Complete, Key
    <3>. QED BY <3>1, <1>6, <1>8, <1>9, <1>11 DEF Undisturbed, Key, Saves
  <2>. QED BY <2>1, <2>2, <2>3, <2>4, <2>5 DEF ThreadOK
<1>. QED BY <1>1, <1>3, <1>5, <1>7, <1>8, <1>13, RelyingLocal

\* NetworkSetup::setup goes on, with or without a rule.
LEMMA SetupMoves ==
  ASSUME IInv, NEW t \in Threads, Moves(t), UNCHANGED <<disk, cache, pool, clobbered>>,
         th[t].pc \in {"setup", "masquerade"}, IsThread(th'[t]),
         th'[t].cfg = th[t].cfg, th'[t].vm = th[t].vm, th'[t].read = th[t].read,
         th'[t].next = th[t].next, th'[t].applied \in BOOLEAN,
         th'[t].pc = th[t].next \/ (th'[t].pc = "masquerade" /\ ~th'[t].applied)
  PROVE  /\ th' = [u \in Threads |-> th'[u]] /\ \A u \in Threads : ThreadOK(u, th[u])'
         /\ \A u, v \in Threads : Alone(u, v)'
<1>. USE Zenon
<1>1. dir' = dir /\ cache' = cache /\ pool' = pool /\ clobbered' = clobbered
  BY SMT DEF disk
<1>2. ThreadOK(t, th[t]) /\ th[t].next \in {"run", "boot", "pool"}
      /\ (th[t].next = "pool" => th[t].vm.key = <<Key(th[t])>>)
  BY DEF IInv, ThreadOK, Configured
<1>3. Spared(t)'
  BY <1>1, SparedKept
<1>4. th[t].cfg # None /\ ~th[t].applied /\ Alive(th[t])
  BY Thread, SMT DEF NotNetworked, Alive
<1>5. CASE th'[t].pc \in {"run", "boot"}
  <2>1. th'[t].pc \in Plain /\ th'[t].pc \notin NotNetworked /\ th[t].pc \notin {"create", "done"}
    BY <1>5, SMT DEF Plain, NotNetworked
  <2>. QED BY <2>1, <1>1, <1>3, PlainStep
<1>6. CASE th'[t].pc \in {"pool", "masquerade"}
  <2>1. th'[t].pc \notin {"create", "created", "setup", "map"} /\ ~Saves(th'[t])
        /\ (th'[t].pc \in NotNetworked => ~th'[t].applied)
    BY <1>6, <1>2, SMT DEF Saves, Saving, NotNetworked
  <2>2. Relies(th'[t]) => Relies(th[t])
    BY <1>2, SMT DEF Relies
  <2>3. Key(th'[t]) = Key(th[t])
    BY DEF Key
  <2>4. Configured(th[t])'
    BY <2>1, <2>3, <1>2, <1>4, Thread DEF Configured
  <2>5. ReadsOwn(th[t])'
    BY ReadsOwnKept
  <2>6. Busy(th[t])'
    BY <2>1 DEF Busy, Saves
  <2>7. VmWhole(th[t].vm)'
    BY <1>1, <1>2, <1>4 DEF ThreadOK, VmWhole
  <2>8. (Saves(th[t]) \/ Relies(th[t]) => Undisturbed(t, th[t]))'
    <3>1. Complete(Key(th[t])) => Complete(Key(th[t]))'
      BY <2>3, <1>1 DEF Complete, Key
    <3>. QED BY <3>1, <1>1, <1>2, <2>1, <2>2, <2>3
             DEF ThreadOK, Undisturbed, Key, Saves, Relies
  <2>9. ThreadOK(t, th[t])'
    BY <2>4, <2>5, <2>6, <2>7, <2>8 DEF ThreadOK
  <2>. QED BY <2>9, <2>1, <2>2, <1>1, <1>3, ThreadStep DEF Saves, Relies
<1>. QED BY <1>2, <1>5, <1>6, SMT

\* setup_network: the TAP device, and the first half of the masquerade.
LEMMA SetupNetworkSafe == ASSUME Counting, IInv, NEW t \in Threads, SetupNetwork(t) PROVE IInv'
<1>1. th[t].pc = "setup" /\ UNCHANGED <<disk, cache, l4, clobbered>> /\ host' = host
      /\ UNCHANGED <<disk, cache, pool, clobbered>>
  BY DEF SetupNetwork, At, l4
<1>2. \/ Goto(t, th[t].next) \/ Goto(t, "masquerade")
      \/ th' = [th EXCEPT ![t] = [th[t] EXCEPT !.pc = th[t].next, !.applied = TRUE]]
  BY DEF SetupNetwork, Set
<1>3. ~th[t].applied
  BY <1>1, Thread DEF NotNetworked
<1>4. Moves(t) /\ IsThread(th'[t]) /\ th'[t].cfg = th[t].cfg /\ th'[t].vm = th[t].vm
      /\ th'[t].read = th[t].read /\ th'[t].next = th[t].next
      /\ (\/ th'[t].pc = th[t].next /\ th'[t].applied \in BOOLEAN
          \/ th'[t].pc = "masquerade" /\ th'[t].applied = th[t].applied)
  <2>1. CASE Goto(t, th[t].next)
    BY <2>1, Thread, Zenon DEF Goto, Set, Moves, IsThread
  <2>2. CASE Goto(t, "masquerade")
    BY <2>2, Thread, Zenon DEF Goto, Set, Moves, IsThread
  <2>3. CASE th' = [th EXCEPT ![t] = [th[t] EXCEPT !.pc = th[t].next, !.applied = TRUE]]
    BY <2>3, Thread, Zenon DEF Moves, IsThread
  <2>. QED BY <1>2, <2>1, <2>2, <2>3, Zenon
<1>5. /\ th' = [u \in Threads |-> th'[u]] /\ \A u \in Threads : ThreadOK(u, th[u])'
      /\ \A u, v \in Threads : Alone(u, v)'
  <2>1. th[t].pc \in {"setup", "masquerade"} /\ th[t].applied \in BOOLEAN
    BY <1>1, Thread
  <2>. QED BY <2>1, <1>1, <1>3, <1>4, SetupMoves, Zenon
<1>. QED BY <1>1, <1>3, <1>4, <1>5, LocalStep, Zenon

\* iptables -A: one rule more, and one thread more that will remove one.
LEMMA AddMasqueradeSafe == ASSUME Counting, IInv, NEW t \in Threads, AddMasquerade(t) PROVE IInv'
<1>1. th[t].pc = "masquerade" /\ UNCHANGED <<disk, cache, l4, clobbered>>
      /\ UNCHANGED <<disk, cache, pool, clobbered>>
  BY DEF AddMasquerade, At, l4
<1>2. ~th[t].applied /\ th[t].applied \in BOOLEAN
  BY <1>1, Thread DEF NotNetworked
<1>3. \/ Goto(t, th[t].next) /\ host' = host
      \/ /\ th' = [th EXCEPT ![t] = [th[t] EXCEPT !.pc = th[t].next, !.applied = TRUE]]
         /\ host' = [host EXCEPT !.nat = @ + 1]
  BY DEF AddMasquerade, Set
<1>4. Moves(t) /\ IsThread(th'[t]) /\ th'[t].cfg = th[t].cfg /\ th'[t].vm = th[t].vm
      /\ th'[t].read = th[t].read /\ th'[t].next = th[t].next /\ th'[t].pc = th[t].next
      /\ (\/ th'[t].applied = th[t].applied /\ host' = host
          \/ th'[t].applied = TRUE /\ host' = [host EXCEPT !.nat = @ + 1])
  <2>1. CASE Goto(t, th[t].next) /\ host' = host
    BY <2>1, Thread, Zenon DEF Goto, Set, Moves, IsThread
  <2>2. CASE /\ th' = [th EXCEPT ![t] = [th[t] EXCEPT !.pc = th[t].next, !.applied = TRUE]]
             /\ host' = [host EXCEPT !.nat = @ + 1]
    BY <2>2, Thread, Zenon DEF Moves, IsThread
  <2>. QED BY <1>3, <2>1, <2>2, Zenon
<1>5. /\ th' = [u \in Threads |-> th'[u]] /\ \A u \in Threads : ThreadOK(u, th[u])'
      /\ \A u, v \in Threads : Alone(u, v)'
  <2>1. th[t].pc \in {"setup", "masquerade"} /\ th'[t].applied \in BOOLEAN
    BY <1>1, <1>2, <1>4, Zenon
  <2>. QED BY <2>1, <1>1, <1>2, <1>4, SetupMoves, Zenon
<1>6. CASE th'[t].applied = th[t].applied /\ host' = host
  BY <1>1, <1>4, <1>5, <1>6, LocalStep, Zenon
<1>7. CASE th'[t].applied = TRUE /\ host' = [host EXCEPT !.nat = @ + 1]
  <2>1. HostOK' /\ host'.nat = host.nat + 1 /\ host'.stale = host.stale
        /\ host.nat \in Nat /\ host.stale \in Nat
    BY <1>7 DEF IInv, HostOK
  <2>2. Cardinality(Applied') = Cardinality(Applied) + 1 /\ Cardinality(Applied) \in Nat
    BY <1>2, <1>4, <1>7, AppliedMoves, Zenon
  <2>3. host.nat <= Cardinality(Applied) + host.stale
    BY DEF IInv, NoStrayNat, Applied
  <2>4. host'.nat <= Cardinality(Applied') + host'.stale
    BY <2>1, <2>2, <2>3
  <2>5. StoreOK' /\ PoolOK'
    BY <1>1, <1>4, StoreKept, PoolKept, Zenon DEF disk
  <2>. QED BY <2>1, <2>4, <2>5, <1>5, Zenon DEF IInv, NoStrayNat, Applied
<1>. QED BY <1>4, <1>6, <1>7, Zenon

\* The VM ends and its rule goes with it.
LEMMA VmEndsSafe == ASSUME Counting, IInv, NEW t \in Threads, VmEnds(t) PROVE IInv'
<1>1. th[t].pc = "run" /\ Teardown(t) /\ UNCHANGED <<disk, cache, l4, clobbered>>
  BY DEF VmEnds, At
<1>2. th' = [th EXCEPT ![t] = [th[t] EXCEPT !.pc = "done", !.applied = FALSE]]
  BY DEF VmEnds, Set
<1>3. Moves(t) /\ IsThread(th'[t]) /\ th'[t].pc = "done" /\ th'[t].cfg = th[t].cfg
      /\ th'[t].vm = th[t].vm /\ th'[t].read = th[t].read /\ th'[t].applied = FALSE
  BY <1>2, Thread, Zenon DEF Moves, IsThread
<1>4. "done" \in Plain /\ "done" \notin NotNetworked /\ th[t].pc \notin {"create", "done"}
      /\ th'[t].applied \in BOOLEAN
  BY <1>1, <1>3, Zenon DEF Plain, NotNetworked
<1>5. UNCHANGED <<dir, clobbered>> /\ UNCHANGED <<cache, pool, clobbered>>
      /\ UNCHANGED <<dir, l4, clobbered>>
  BY <1>1 DEF disk, l4
<1>6. /\ th' = [u \in Threads |-> th'[u]] /\ \A u \in Threads : ThreadOK(u, th[u])'
      /\ \A u, v \in Threads : Alone(u, v)'
  <2>1. th'[t].read \in {None, th[t].read}
    BY <1>3
  <2>. QED BY <2>1, <1>1, <1>3, <1>4, <1>5, SparedKept, PlainStep, Zenon
<1>7. StoreOK' /\ PoolOK'
  BY <1>1, <1>3, <1>5, StoreKept, PoolKept, Zenon
<1>8. HostOK' /\ host'.stale = host.stale /\ host.nat \in Nat /\ host.stale \in Nat
      /\ host'.nat = IF th[t].applied /\ host.nat > 0 THEN host.nat - 1 ELSE host.nat
  BY <1>1, Thread DEF IInv, HostOK, Teardown
<1>9. host.nat <= Cardinality(Applied) + host.stale
  BY DEF IInv, NoStrayNat, Applied
<1>10. host'.nat <= Cardinality(Applied') + host'.stale
  <2>1. Cardinality(Applied) \in Nat /\ (~th[t].applied => Applied' = Applied)
        /\ (th[t].applied => Cardinality(Applied') = Cardinality(Applied) - 1)
    <3>1. th[t].applied \in BOOLEAN
      BY Thread, Zenon
    <3>. QED BY <3>1, <1>3, <1>4, AppliedMoves
  <2>2. Cardinality(Applied') \in Nat
    <3>1. Applied' \in SUBSET Threads
      BY DEF Applied
    <3>. QED BY <3>1, Zenon DEF Counting
  <2>3. CASE th[t].applied
    BY <2>1, <2>2, <2>3, <1>8, <1>9
  <2>4. CASE ~th[t].applied
    BY <2>1, <2>4, <1>8, <1>9
  <2>. QED BY <2>3, <2>4
<1>. QED BY <1>6, <1>7, <1>8, <1>10, Zenon DEF IInv, NoStrayNat, Applied

\* A thread gets a VM that it did not restore itself, and goes on to run it.
LEMMA NewVm ==
  ASSUME IInv, NEW t \in Threads, Moves(t), UNCHANGED <<dir, cache, pool, clobbered>>,
         th[t].pc \in {"acquire", "build"}, IsThread(th'[t]), IsVm(th'[t].vm),
         th'[t].vm.via # "l3", VmWhole(th[t].vm)',
         th'[t].cfg = th[t].cfg, th'[t].read = th[t].read, th'[t].applied = th[t].applied,
         NEW next \in {"boot", "run"},
         th'[t].pc = next \/ (th'[t].pc = "setup" /\ th'[t].next = next)
  PROVE  /\ th' = [u \in Threads |-> th'[u]] /\ \A u \in Threads : ThreadOK(u, th[u])'
         /\ \A u, v \in Threads : Alone(u, v)'
<1>. USE Zenon
<1>1. th[t].cfg # None /\ ~th[t].applied /\ th[t].applied \in BOOLEAN
  BY Thread, SMT DEF NotNetworked
<1>2. th'[t].pc \notin {"create", "created", "map", "masquerade"}
      /\ ~Saves(th'[t]) /\ ~Relies(th'[t])
      /\ (th'[t].pc = "setup" => th'[t].next \in {"run", "boot"} /\ th'[t].next # "pool")
  BY SMT DEF Saves, Saving, Relies
<1>3. Configured(th[t])'
  BY <1>1, <1>2 DEF Configured
<1>4. ReadsOwn(th[t])'
  <2>1. \A u \in Threads : th[u].cfg # None => th'[u].cfg = th[u].cfg
    BY CfgKept
  <2>2. BootedFor(th[t].read, Key(th[t]))
    BY DEF IInv, ThreadOK, ReadsOwn
  <2>. QED BY <2>1, <2>2 DEF ReadsOwn, BootedFor, Key
<1>5. Busy(th[t])'
  BY <1>2 DEF Busy, Saves
<1>6. ThreadOK(t, th[t])'
  BY <1>2, <1>3, <1>4, <1>5 DEF ThreadOK, Saves, Relies
<1>. QED BY <1>2, <1>6, SparedKept, ThreadStep DEF Saves, Relies

\* build_vm.
LEMMA BuildSafe == ASSUME Counting, IInv, NEW t \in Threads, Build(t) PROVE IInv'
<1>. DEFINE writes == BuildImage(VmConfig(Cfg(t)), Cfg(t).kernel)
            v == Vm("cold", <<t>>, <<t>>, None, TRUE)
            next == IF th[t].save THEN "boot" ELSE "run"
<1>1. th[t].pc = "build" /\ UNCHANGED <<disk, cache, l4, clobbered>>
      /\ UNCHANGED <<dir, cache, pool, clobbered>>
  BY Zenon DEF Build, At, disk, l4
<1>2. host' = host \/ OpenTap
  BY Zenon DEF Build, NetHost
<1>3. \/ th' = [th EXCEPT ![t] = [th[t] EXCEPT !.pc = "done", !.writes = writes, !.save = FALSE]]
      \/ th' = [th EXCEPT ![t] = Networked([th[t] EXCEPT !.vm = v, !.writes = writes], next)]
  BY Zenon DEF Build, Set
<1>4. ~th[t].applied /\ th[t].applied \in BOOLEAN
  BY <1>1, Thread DEF NotNetworked
<1>5. IsVm(v) /\ v.via = "cold"
  BY DEF Vm, IsVm
<1>6. next \in {"boot", "run"}
  OBVIOUS
<1>. HIDE DEF v, writes, next
<1>7. CASE th' = [th EXCEPT ![t] = [th[t] EXCEPT !.pc = "done", !.writes = writes, !.save = FALSE]]
  <2>1. Moves(t) /\ IsThread(th'[t]) /\ th'[t].pc = "done" /\ th'[t].cfg = th[t].cfg
        /\ th'[t].vm = th[t].vm /\ th'[t].read = th[t].read /\ th'[t].applied = th[t].applied
    BY <1>7, Thread, Zenon DEF Moves, IsThread
  <2>2. "done" \in Plain /\ th[t].pc \notin {"create", "done"}
    BY <1>1 DEF Plain
  <2>3. th'[t].read \in {None, th[t].read}
    BY <2>1
  <2>. QED BY <2>1, <2>2, <2>3, <1>1, <1>2, <1>4, PlainLocal, Zenon
<1>8. CASE th' = [th EXCEPT ![t] = Networked([th[t] EXCEPT !.vm = v, !.writes = writes], next)]
  <2>1. Moves(t) /\ IsThread(th'[t]) /\ th'[t].cfg = th[t].cfg
        /\ th'[t].vm = v /\ th'[t].read = th[t].read /\ th'[t].applied = th[t].applied
        /\ (th'[t].pc = next \/ (th'[t].pc = "setup" /\ th'[t].next = next))
    <3>1. CASE workload.tap
      BY <3>1, <1>8, Thread, Zenon DEF Moves, IsThread, Networked
    <3>2. CASE ~workload.tap
      BY <3>2, <1>8, Thread, Zenon DEF Moves, IsThread, Networked
    <3>. QED BY <3>1, <3>2, Zenon
  <2>2. th'[t].vm.via # "l3" /\ VmWhole(th[t].vm)' /\ th[t].pc \in {"acquire", "build"}
    BY <1>1, <1>5, <2>1 DEF VmWhole, Restores
  <2>3. /\ th' = [u \in Threads |-> th'[u]] /\ \A u \in Threads : ThreadOK(u, th[u])'
        /\ \A u, w \in Threads : Alone(u, w)'
    BY <2>1, <2>2, <1>1, <1>5, <1>6, NewVm
  <2>. QED BY <2>1, <2>3, <1>1, <1>2, LocalStep, Zenon
<1>. QED BY <1>3, <1>7, <1>8, Zenon

-----------------------------------------------------------------------------
(* The pool.                                                               *)

\* A sequence is one over any set that has its elements.
LEMMA SeqOver ==
  ASSUME NEW S, NEW s \in Seq(S) PROVE IsSeq(s) /\ Len(s) \in Nat
<1>1. Len(s) \in Nat /\ s = [i \in 1 .. Len(s) |-> s[i]]
  OBVIOUS
<1>. QED BY <1>1 DEF IsSeq

\* The queue without its head.
LEMMA TailIsSeq ==
  ASSUME NEW s, IsSeq(s), s # <<>>
  PROVE  /\ IsSeq(Tail(s)) /\ Head(s) = s[1] /\ 1 \in 1 .. Len(s)
         /\ \A i \in 1 .. Len(Tail(s)) : Tail(s)[i] = s[i + 1] /\ i + 1 \in 1 .. Len(s)
<1>. DEFINE S == {s[i] : i \in 1 .. Len(s)}
<1>1. s \in Seq(S)
  BY DEF IsSeq
<1>. HIDE DEF S
<1>2. Tail(s) \in Seq(S) /\ Len(s) \in Nat /\ Len(s) >= 1 /\ Len(Tail(s)) = Len(s) - 1
      /\ Head(s) = s[1]
  BY <1>1
<1>3. \A i \in 1 .. Len(Tail(s)) : Tail(s)[i] = s[i + 1]
  BY <1>1, <1>2
<1>4. \A i \in 1 .. Len(Tail(s)) : i + 1 \in 1 .. Len(s)
  BY <1>2
<1>5. IsSeq(Tail(s))
  BY <1>2, SeqOver, Zenon
<1>6. 1 \in 1 .. Len(s)
  BY <1>2
<1>. QED BY <1>2, <1>3, <1>4, <1>5, <1>6, Zenon

\* The queue with one VM more.
LEMMA AppendIsSeq ==
  ASSUME NEW s, NEW e, IsSeq(s)
  PROVE  /\ IsSeq(Append(s, e))
         /\ \A i \in 1 .. Len(Append(s, e)) :
              Append(s, e)[i] = e \/ (i \in 1 .. Len(s) /\ Append(s, e)[i] = s[i])
<1>. DEFINE S == {s[i] : i \in 1 .. Len(s)} \cup {e}
<1>1. s \in Seq(S) /\ e \in S
  BY DEF IsSeq
<1>. HIDE DEF S
<1>2. Append(s, e) \in Seq(S) /\ Len(Append(s, e)) = Len(s) + 1 /\ Len(s) \in Nat
  BY <1>1
<1>3. \A i \in 1 .. Len(s) + 1 : Append(s, e)[i] = IF i = Len(s) + 1 THEN e ELSE s[i]
  BY <1>1, <1>2
<1>4. IsSeq(Append(s, e))
  BY <1>2, SeqOver, Zenon
<1>5. \A i \in 1 .. Len(Append(s, e)) :
        Append(s, e)[i] = e \/ (i \in 1 .. Len(s) /\ Append(s, e)[i] = s[i])
  BY <1>2, <1>3
<1>. QED BY <1>4, <1>5, Zenon

\* A thread takes a VM out of the pool.
LEMMA AcquireSafe == ASSUME Counting, IInv, NEW t \in Threads, Acquire(t) PROVE IInv'
<1>. USE Zenon
<1>1. th[t].pc = "acquire" /\ UNCHANGED <<disk, cache, pool, filling, clobbered>>
      /\ UNCHANGED <<dir, cache, pool, clobbered>>
  BY SMT DEF Acquire, At, disk
<1>2. ~th[t].applied /\ th[t].applied \in BOOLEAN
  BY <1>1, Thread, SMT DEF NotNetworked
<1>3. CASE Goto(t, "lookup") /\ host' = host /\ warm' = warm
  <2>1. Moves(t) /\ IsThread(th'[t]) /\ th'[t].pc = "lookup" /\ th'[t].cfg = th[t].cfg
        /\ th'[t].vm = th[t].vm /\ th'[t].read = th[t].read /\ th'[t].applied = th[t].applied
    BY <1>3, GotoMoves
  <2>2. "lookup" \in Plain /\ th[t].pc \notin {"create", "done"}
        /\ th'[t].read \in {None, th[t].read} /\ UNCHANGED <<disk, cache, l4, clobbered>>
    BY <1>1, <1>3, <2>1, SMT DEF Plain, l4
  <2>. QED BY <2>1, <2>2, <1>2, <1>3, PlainLocal
<1>4. CASE warm # <<>> /\ warm' = Tail(warm)
  <2>1. PoolOK /\ IsSeq(warm)
    BY DEF IInv, PoolOK
  <2>2. /\ IsSeq(Tail(warm)) /\ Head(warm) = warm[1] /\ 1 \in 1 .. Len(warm)
        /\ \A i \in 1 .. Len(Tail(warm)) : Tail(warm)[i] = warm[i + 1] /\ i + 1 \in 1 .. Len(warm)
    BY <2>1, <1>4, TailIsSeq
  <2>3. PoolOK'
    <3>1. IsSeq(warm)' /\ \A i \in 1 .. Len(warm') : warm'[i] = warm[i + 1] /\ i + 1 \in 1 .. Len(warm)
      BY <2>2, <1>4 DEF IsSeq
    <3>2. \A i \in 1 .. Len(warm) : /\ IsVm(warm[i]) /\ warm[i].via \in {"pool", "none"}
                                    /\ VmWhole(warm[i])
      BY <2>1 DEF PoolOK
    <3>3. \A i \in 1 .. Len(warm') : /\ IsVm(warm'[i]) /\ warm'[i].via \in {"pool", "none"}
                                     /\ VmWhole(warm'[i])
      BY <3>1, <3>2
    <3>4. (\A i \in 1 .. Len(warm) : /\ IsVm(warm[i]) /\ warm[i].via \in {"pool", "none"}
                                     /\ VmWhole(warm[i]))'
      BY <3>3, <1>1 DEF VmWhole
    <3>. QED BY <3>1, <3>4, <2>1, <1>1 DEF PoolOK, Complete
  <2>4. IsVm(Head(warm)) /\ Head(warm).via \in {"pool", "none"} /\ VmWhole(Head(warm))
    BY <2>1, <2>2 DEF PoolOK
  <2>5. CASE Goto(t, "lookup") /\ host' = host
    <3>1. Moves(t) /\ IsThread(th'[t]) /\ th'[t].pc = "lookup" /\ th'[t].cfg = th[t].cfg
          /\ th'[t].vm = th[t].vm /\ th'[t].read = th[t].read /\ th'[t].applied = th[t].applied
      BY <2>5, GotoMoves
    <3>2. "lookup" \in Plain /\ th[t].pc \notin {"create", "done"}
          /\ th'[t].read \in {None, th[t].read}
      BY <1>1, <3>1, SMT DEF Plain
    <3>3. /\ th' = [u \in Threads |-> th'[u]] /\ \A u \in Threads : ThreadOK(u, th[u])'
          /\ \A u, v \in Threads : Alone(u, v)'
      BY <3>1, <3>2, <1>1, <1>2, SparedKept, PlainStep
    <3>4. HostOK' /\ host'.nat = host.nat /\ host'.stale = host.stale
      BY <2>5, SMT DEF IInv, HostOK
    <3>5. StoreOK' /\ NoStrayNat'
      BY <1>1, <1>2, <3>1, <3>4, StoreKept, NatKept
    <3>. QED BY <3>3, <3>4, <3>5, <2>3 DEF IInv
  <2>6. CASE /\ th' = [th EXCEPT ![t] = Networked([th[t] EXCEPT !.vm = Head(warm)], "run")]
             /\ NetHost
    <3>. DEFINE v == Head(warm)
    <3>. HIDE DEF v
    <3>1. Moves(t) /\ IsThread(th'[t]) /\ th'[t].cfg = th[t].cfg
          /\ th'[t].vm = v /\ th'[t].read = th[t].read /\ th'[t].applied = th[t].applied
          /\ (th'[t].pc = "run" \/ (th'[t].pc = "setup" /\ th'[t].next = "run"))
      <4>1. th' = [th EXCEPT ![t] = Networked([th[t] EXCEPT !.vm = v], "run")]
        BY <2>6, SMT DEF v
      <4>2. CASE workload.tap
        BY <4>1, <4>2, Thread DEF Moves, IsThread, Networked
      <4>3. CASE ~workload.tap
        BY <4>1, <4>3, Thread DEF Moves, IsThread, Networked
      <4>. QED BY <4>2, <4>3
    <3>2. IsVm(th'[t].vm) /\ th'[t].vm.via # "l3" /\ VmWhole(th[t].vm)'
      <4>1. IsVm(v) /\ v.via # "l3" /\ VmWhole(v)
        BY <2>4, SMT DEF v
      <4>. QED BY <3>1, <4>1, <1>1 DEF VmWhole
    <3>3. th[t].pc \in {"acquire", "build"} /\ "run" \in {"boot", "run"}
      BY <1>1, SMT
    <3>4. /\ th' = [u \in Threads |-> th'[u]] /\ \A u \in Threads : ThreadOK(u, th[u])'
          /\ \A u, w \in Threads : Alone(u, w)'
      BY <3>1, <3>2, <3>3, <1>1, NewVm
    <3>5. HostOK' /\ host'.nat = host.nat /\ host'.stale = host.stale
      BY <2>6 DEF IInv, HostOK, NetHost, OpenTap
    <3>6. StoreOK' /\ NoStrayNat'
      BY <1>1, <1>2, <3>1, <3>5, StoreKept, NatKept
    <3>. QED BY <3>4, <3>5, <3>6, <2>3 DEF IInv
  <2>. QED BY <2>5, <2>6, <1>3, <1>4 DEF Acquire, Set
<1>. QED BY <1>3, <1>4 DEF Acquire

\* The pool is created, with a snapshot that nobody is writing.
LEMMA InitPoolSafe == ASSUME Counting, IInv, NEW t \in Threads, InitPool(t) PROVE IInv'
<1>. USE Zenon
<1>1. th[t].pc = "pool" /\ UNCHANGED <<disk, cache, warm, filling, host, clobbered>>
      /\ Goto(t, "run")
  BY SMT DEF InitPool, At
<1>2. dir' = dir /\ cache' = cache /\ warm' = warm /\ filling' = filling /\ host' = host
      /\ clobbered' = clobbered
  BY <1>1, SMT DEF disk
<1>3. pool' = pool \/ (pool = None /\ pool' # None /\ pool'[1].key = Key(th[t]))
  BY SMT DEF InitPool, Key, Cfg, None
<1>4. Moves(t) /\ IsThread(th'[t]) /\ th'[t].pc = "run" /\ th'[t].cfg = th[t].cfg
      /\ th'[t].vm = th[t].vm /\ th'[t].read = th[t].read /\ th'[t].applied = th[t].applied
  BY <1>1, GotoMoves
<1>5. "run" \in Plain /\ "run" \notin NotNetworked /\ Relies(th[t])
      /\ th[t].pc \notin {"create", "done"} /\ th'[t].read \in {None, th[t].read}
  BY <1>1, <1>4, SMT DEF Plain, NotNetworked, Relies
<1>6. Spared(t)'
  <2>1. ASSUME NEW u \in Threads \ {t}, Saves(th[u]), Key(th[u]) \notin clobbered
        PROVE  ~Valid(Key(th[u])) /\ (pool' # None => pool'[1].key # Key(th[u]))
    <3>1. Undisturbed(u, th[u])
      BY <2>1 DEF IInv, ThreadOK
    <3>2. Key(th[t]) # Key(th[u])
      BY <2>1, <1>5, SMT DEF IInv, Alone
    <3>. QED BY <3>1, <3>2, <2>1, <1>3 DEF Undisturbed
  <2>2. \A u \in Threads \ {t} : th'[u] = th[u]
    BY <1>4, Thread, SMT DEF Moves
  <2>. QED BY <2>1, <2>2, <1>2 DEF Spared, Saves, Key, Valid
<1>7. /\ th' = [u \in Threads |-> th'[u]] /\ \A u \in Threads : ThreadOK(u, th[u])'
      /\ \A u, v \in Threads : Alone(u, v)'
  BY <1>2, <1>4, <1>5, <1>6, Thread, PlainStep
<1>8. PoolOK'
  <2>1. PoolOK
    BY SMT DEF IInv
  <2>2. CASE pool' = pool
    BY <2>1, <2>2, <1>2 DEF PoolOK, Complete, VmWhole
  <2>3. CASE pool = None /\ pool'[1].key = Key(th[t])
    <3>1. Key(th[t]) \notin clobbered => Complete(Key(th[t]))
      BY <1>5 DEF IInv, ThreadOK, Undisturbed
    <3>. QED BY <3>1, <2>1, <2>3, <1>2 DEF PoolOK, Complete, VmWhole
  <2>. QED BY <2>2, <2>3, <1>3
<1>9. HostOK' /\ host'.nat = host.nat /\ host'.stale = host.stale
  BY <1>2 DEF IInv, HostOK
<1>10. StoreOK' /\ NoStrayNat'
  BY <1>1, <1>4, <1>9, Thread, StoreKept, NatKept
<1>. QED BY <1>7, <1>8, <1>9, <1>10 DEF IInv

-----------------------------------------------------------------------------
(* The index.                                                              *)

\* The index changes, and with it nothing else but the thread.
LEMMA IndexStep ==
  ASSUME Counting, IInv, NEW t \in Threads, Moves(t), UNCHANGED <<dir, l4, host, clobbered>>,
         th'[t].cfg = th[t].cfg, th'[t].applied = th[t].applied,
         th' = [u \in Threads |-> th'[u]], \A u \in Threads : ThreadOK(u, th[u])',
         \A u, v \in Threads : Alone(u, v)',
         cache' = [k \in DOMAIN cache' |-> cache'[k]], index' = cache',
         ASSUME NEW k, Valid(k)', k \notin clobbered PROVE Complete(k)
  PROVE  IInv'
<1>. USE Zenon
<1>1. dir' = dir /\ clobbered' = clobbered /\ host' = host
  BY SMT
<1>2. ASSUME NEW k \in DOMAIN dir
      PROVE  BootedFor(dir[k].mem, k)' /\ BootedFor(dir[k].state, k)'
  <2>1. ASSUME NEW s, BootedFor(s, k) PROVE BootedFor(s, k)'
    BY <2>1, BootedKept
  <2>. QED BY <1>1, <2>1 DEF IInv, StoreOK
<1>3. \A k \in DOMAIN cache' : Valid(k)' /\ k \notin clobbered' => Complete(k)'
  BY <1>1 DEF Complete
<1>4. StoreOK'
  BY <1>1, <1>2, <1>3 DEF IInv, StoreOK
<1>5. PoolOK'
  BY PoolKept
<1>6. HostOK' /\ host'.nat = host.nat /\ host'.stale = host.stale
  BY <1>1 DEF IInv, HostOK
<1>7. NoStrayNat'
  BY <1>6, Thread, NatKept
<1>. QED BY <1>4, <1>5, <1>6, <1>7 DEF IInv

\* An entry is marked invalid.
LEMMA InvalidateSafe == ASSUME Counting, IInv, NEW t \in Threads, Invalidate(t) PROVE IInv'
<1>. USE Zenon
<1>1. th[t].pc = "invalidate" /\ UNCHANGED <<dir, l4, host, clobbered>>
  BY SMT DEF Invalidate, At
<1>2. th' = [th EXCEPT ![t] = [th[t] EXCEPT !.pc = "build", !.save = FALSE]]
  BY DEF Invalidate, Set
<1>3. Moves(t) /\ IsThread(th'[t]) /\ th'[t].pc = "build" /\ th'[t].cfg = th[t].cfg
      /\ th'[t].vm = th[t].vm /\ th'[t].read = th[t].read /\ th'[t].applied = th[t].applied
  BY <1>2, Thread DEF Moves, IsThread
<1>4. "build" \in Plain /\ th[t].pc \in NotNetworked /\ th[t].pc \notin {"create", "done"}
      /\ th'[t].read \in {None, th[t].read}
  BY <1>1, <1>3, SMT DEF Plain, NotNetworked
<1>5. pool' = pool /\ clobbered' = clobbered /\ dir' = dir
  BY <1>1, SMT DEF l4
<1>6. cache' = [k \in DOMAIN cache' |-> cache'[k]] /\ index' = cache'
      /\ \A k : Valid(k)' => Valid(k)
  <2>1. cache = [k \in DOMAIN cache |-> cache[k]] /\ index = cache
    BY DEF IInv, StoreOK
  <2>2. CASE cache' = cache /\ index' = index
    BY <2>1, <2>2, SMT DEF Valid
  <2>3. CASE cache' = [cache EXCEPT ![Key(th[t])] = FALSE] /\ index' = cache'
    BY <2>1, <2>3 DEF Valid
  <2>. QED BY <2>2, <2>3 DEF Invalidate, FlushSnapshots, Key, Cfg
<1>7. Spared(t)'
  <2>1. \A u \in Threads \ {t} : th'[u] = th[u]
    BY <1>3, Thread, SMT DEF Moves
  <2>2. ASSUME NEW u \in Threads \ {t}, Saves(th[u]), Key(th[u]) \notin clobbered
        PROVE  ~Valid(Key(th[u])) /\ (pool # None => pool[1].key # Key(th[u]))
    BY <2>2 DEF IInv, ThreadOK, Undisturbed
  <2>. QED BY <2>1, <2>2, <1>5, <1>6 DEF Spared, Saves, Key, Valid
<1>8. /\ th' = [u \in Threads |-> th'[u]] /\ \A u \in Threads : ThreadOK(u, th[u])'
      /\ \A u, v \in Threads : Alone(u, v)'
  BY <1>3, <1>4, <1>5, <1>7, Thread, PlainStep
<1>9. ASSUME NEW k, Valid(k)', k \notin clobbered PROVE Complete(k)
  BY <1>6, <1>9 DEF IInv, StoreOK, Valid
<1>. QED BY <1>1, <1>3, <1>6, <1>8, <1>9, IndexStep

\* SnapshotCache::insert, after both files are written.
LEMMA InsertSafe == ASSUME Counting, IInv, NEW t \in Threads, Insert(t) PROVE IInv'
<1>. USE Zenon
<1>1. th[t].pc = "insert" /\ UNCHANGED <<dir, l4, host, clobbered>> /\ Goto(t, "pool")
      /\ cache' = Put(cache, Key(th[t]), TRUE) /\ index' = cache'
  BY DEF Insert, At, FlushSnapshots, Key, Cfg
<1>2. Moves(t) /\ IsThread(th'[t]) /\ th'[t].pc = "pool" /\ th'[t].cfg = th[t].cfg
      /\ th'[t].vm = th[t].vm /\ th'[t].read = th[t].read /\ th'[t].applied = th[t].applied
  BY <1>1, GotoMoves
<1>3. pool' = pool /\ clobbered' = clobbered /\ dir' = dir
  BY <1>1, SMT DEF l4
<1>4. Relies(th[t]) /\ ~Saves(th[t]) /\ Alive(th[t]) /\ th[t].cfg # None
      /\ th'[t].pc \notin {"create", "created", "setup", "masquerade", "map"}
      /\ th'[t].pc \notin NotNetworked /\ ~Saves(th'[t])
  BY <1>1, <1>2, Thread, SMT DEF Relies, Saves, Saving, Alive, NotNetworked
<1>5. cache' = [k \in DOMAIN cache' |-> cache'[k]]
      /\ \A k : Valid(k)' => Valid(k) \/ k = Key(th[t])
  BY <1>1 DEF Put, Valid
<1>6. Key(th'[t]) = Key(th[t])
  BY <1>2 DEF Key
<1>7. Key(th[t]) \notin clobbered => Complete(Key(th[t]))
  BY <1>4 DEF IInv, ThreadOK, Undisturbed
<1>8. Spared(t)'
  <2>1. \A u \in Threads \ {t} : th'[u] = th[u]
    BY <1>2, Thread, SMT DEF Moves
  <2>2. ASSUME NEW u \in Threads \ {t}, Saves(th[u]), Key(th[u]) \notin clobbered
        PROVE  ~Valid(Key(th[u])) /\ (pool # None => pool[1].key # Key(th[u]))
               /\ Key(th[t]) # Key(th[u])
    <3>1. ~Valid(Key(th[u])) /\ (pool # None => pool[1].key # Key(th[u]))
      BY <2>2 DEF IInv, ThreadOK, Undisturbed
    <3>2. Key(th[t]) # Key(th[u])
      BY <2>2, <1>4, SMT DEF IInv, Alone
    <3>. QED BY <3>1, <3>2
  <2>. QED BY <2>1, <2>2, <1>3, <1>5 DEF Spared, Saves, Key, Valid
<1>9. ThreadOK(t, th[t])'
  <2>1. Configured(th[t])'
    BY <1>2, <1>4, Thread DEF Configured
  <2>2. ReadsOwn(th[t])'
    BY <1>2, ReadsOwnKept
  <2>3. Busy(th[t])'
    BY <1>4 DEF Busy, Saves
  <2>4. VmWhole(th[t].vm)'
    BY <1>2, <1>3, <1>4 DEF IInv, ThreadOK, VmWhole
  <2>5. Undisturbed(t, th[t])'
    <3>1. Complete(Key(th[t])) => Complete(Key(th[t]))'
      BY <1>6, <1>3 DEF Complete, Key
    <3>. QED BY <3>1, <1>3, <1>4, <1>6, <1>7 DEF Undisturbed, Key, Saves
  <2>. QED BY <2>1, <2>2, <2>3, <2>4, <2>5 DEF ThreadOK
<1>10. /\ th' = [u \in Threads |-> th'[u]] /\ \A u \in Threads : ThreadOK(u, th[u])'
       /\ \A u, v \in Threads : Alone(u, v)'
  BY <1>2, <1>3, <1>4, <1>8, <1>9, ThreadStep DEF Saves
<1>11. ASSUME NEW k, Valid(k)', k \notin clobbered PROVE Complete(k)
  <2>1. CASE Valid(k)
    BY <2>1, <1>11 DEF IInv, StoreOK, Valid
  <2>2. CASE k = Key(th[t])
    BY <2>2, <1>7, <1>11
  <2>. QED BY <2>1, <2>2, <1>5, <1>11
<1>. QED BY <1>1, <1>2, <1>5, <1>10, <1>11, IndexStep

-----------------------------------------------------------------------------
(* The files.                                                              *)

\* A saver writes to its own directory, which, as long as nobody rewrote it
\* under it, nobody else relies on.
LEMMA FileStep ==
  ASSUME Counting, IInv, NEW t \in Threads, Moves(t), Saves(th[t]), IsThread(th'[t]),
         th'[t].pc \in {"state", "writing", "insert"},
         th'[t].cfg = th[t].cfg, th'[t].vm = th[t].vm, th'[t].read = th[t].read,
         th'[t].applied = th[t].applied,
         UNCHANGED <<index, cache, l4, host, clobbered>>,
         dir' = [j \in DOMAIN dir |-> dir'[j]], IsDir(dir'[Key(th[t])]),
         \A j \in DOMAIN dir : j # Key(th[t]) => dir'[j] = dir[j],
         dir'[Key(th[t])].mem \in {dir[Key(th[t])].mem, <<t>>},
         dir'[Key(th[t])].state \in {None, dir[Key(th[t])].state, <<t>>},
         Undisturbed(t, th[t])'
  PROVE  IInv'
<1>. USE Zenon
<1>. DEFINE k == Key(th[t])
<1>1. Key(th'[t]) = k /\ k' = k /\ DOMAIN dir' = DOMAIN dir
  BY SMT DEF Key
<1>2. index' = index /\ cache' = cache /\ pool' = pool /\ warm' = warm /\ filling' = filling
      /\ host' = host /\ clobbered' = clobbered
  BY SMT DEF l4
<1>3. th = [u \in Threads |-> th[u]] /\ \A u \in Threads : ThreadOK(u, th[u])
  BY SMT DEF IInv
<1>4. th' = [u \in Threads |-> th'[u]] /\ \A u \in Threads \ {t} : th'[u] = th[u]
  BY <1>3, SMT DEF Moves
<1>5. k \in DOMAIN dir /\ (k \notin clobbered => ~Valid(k) /\ (pool # None => pool[1].key # k))
  BY <1>3 DEF ThreadOK, Busy, Undisturbed
<1>6. \A u \in Threads : th[u].cfg # None => th'[u].cfg = th[u].cfg
  BY CfgKept
<1>7. th[t].pc \notin NotNetworked /\ th[t].cfg # None /\ Alive(th[t])
      /\ th'[t].pc \notin {"create", "created", "setup", "masquerade", "map"}
      /\ th'[t].pc \notin NotNetworked
  BY Thread, SMT DEF Saves, Saving, NotNetworked, Alive
<1>8. ASSUME NEW u \in Threads, u # t, Saves(th[u]) \/ Relies(th[u]), k \notin clobbered
      PROVE  Key(th[u]) # k
  BY <1>8 DEF IInv, Alone
<1>9. \A j : j # k /\ Complete(j) => Complete(j)'
  BY <1>1 DEF Complete
<1>. HIDE DEF k
<1>10. ASSUME NEW u \in Threads, u # t PROVE ThreadOK(u, th[u])'
  <2>1. ThreadOK(u, th[u]) /\ th'[u] = th[u] /\ Key(th'[u]) = Key(th[u])
    BY <1>3, <1>4, <1>10 DEF Key
  <2>2. ReadsOwn(th[u])'
    BY <2>1, <1>6, ZenonT(40) DEF ThreadOK, ReadsOwn, BootedFor, Key
  <2>3. Configured(th[u])' /\ (Alive(th[u]) => VmWhole(th[u].vm))'
    BY <2>1, <1>2 DEF ThreadOK, Configured, VmWhole, Alive, Key
  <2>4. Busy(th[u])'
    BY <2>1, <1>1 DEF ThreadOK, Busy, Key, Saves
  <2>5. (Saves(th[u]) \/ Relies(th[u]) => Undisturbed(u, th[u]))'
    <3>1. SUFFICES ASSUME Saves(th[u]) \/ Relies(th[u]), Key(th[u]) \notin clobbered
                   PROVE  Undisturbed(u, th[u])'
      BY <2>1, <1>2 DEF Saves, Relies, Undisturbed, Key
    <3>2. Undisturbed(u, th[u]) /\ (Saves(th[u]) \/ th[u].pc = "map" => Key(th[u]) \in DOMAIN dir)
      BY <3>1, <2>1 DEF ThreadOK, Busy
    <3>3. Key(th[u]) # k
      BY <3>1, <1>8, <1>10
    <3>4. Complete(Key(th[u])) => Complete(Key(th[u]))'
      BY <3>3, <2>1, <1>9, ZenonT(40) DEF Complete, Key
    <3>5. Key(th[u]) \in DOMAIN dir => dir'[Key(th[u])] = dir[Key(th[u])]
      BY <3>3 DEF k
    <3>. QED BY <3>1, <3>2, <3>4, <3>5, <2>1, <1>2, ZenonT(40) DEF Undisturbed, Saves, Relies, Key, Valid
  <2>. QED BY <2>2, <2>3, <2>4, <2>5 DEF ThreadOK
<1>11. ThreadOK(t, th[t])'
  <2>1. Configured(th[t])'
    BY <1>7, Thread DEF Configured
  <2>2. ReadsOwn(th[t])'
    BY ReadsOwnKept
  <2>3. Busy(th[t])'
    BY <1>1, <1>5, <1>7 DEF Busy, Saves, Key
  <2>4. VmWhole(th[t].vm)'
    BY <1>2, <1>3, <1>7 DEF ThreadOK, VmWhole
  <2>. QED BY <2>1, <2>2, <2>3, <2>4 DEF ThreadOK
<1>12. \A u, v \in Threads : Alone(u, v)'
  <2>1. SUFFICES ASSUME NEW u \in Threads, NEW v \in Threads, u # v, Saves(th'[u]),
                        Key(th'[u]) \notin clobbered, Saves(th'[v]) \/ Relies(th'[v])
                 PROVE  Key(th'[v]) # Key(th'[u])
    BY <1>2 DEF Alone, Saves, Relies, Key
  <2>2. \A w \in Threads : /\ Key(th'[w]) = Key(th[w])
                           /\ (Saves(th'[w]) => Saves(th[w]))
                           /\ (Saves(th'[w]) \/ Relies(th'[w]) => Saves(th[w]) \/ Relies(th[w]))
    BY <1>1, <1>4 DEF k
  <2>. QED BY <2>1, <2>2 DEF IInv, Alone
<1>13. StoreOK'
  <2>1. StoreOK
    BY SMT DEF IInv
  <2>2. BootedFor(<<t>>, k)' /\ BootedFor(None, k)'
    <3>1. <<t>>[1] = t
      BY SMT
    <3>. QED BY <3>1, <1>1, <1>6, <1>7 DEF BootedFor, Key
  <2>3. ASSUME NEW j \in DOMAIN dir
        PROVE  IsDir(dir'[j]) /\ BootedFor(dir[j].mem, j)' /\ BootedFor(dir[j].state, j)'
    <3>1. ASSUME NEW s, BootedFor(s, j) PROVE BootedFor(s, j)'
      BY <3>1, <1>6 DEF BootedFor, Key
    <3>2. IsDir(dir[j]) /\ BootedFor(dir[j].mem, j) /\ BootedFor(dir[j].state, j)
      BY <2>1 DEF StoreOK
    <3>3. CASE j # k
      <4>1. dir'[j] = dir[j]
        BY <3>3, SMT DEF k
      <4>. QED BY <3>1, <3>2, <4>1 DEF BootedFor, Key
    <3>4. CASE j = k
      <4>1. BootedFor(dir[j].mem, j)'
        <5>1. dir'[j].mem = dir[j].mem \/ dir'[j].mem = <<t>>
          BY <3>4, SMT DEF k
        <5>. QED BY <5>1, <3>1, <3>2, <3>4, <2>2, ZenonT(40) DEF BootedFor, Key
      <4>2. BootedFor(dir[j].state, j)'
        <5>1. dir'[j].state = None \/ dir'[j].state = dir[j].state \/ dir'[j].state = <<t>>
          BY <3>4, SMT DEF k
        <5>. QED BY <5>1, <3>1, <3>2, <3>4, <2>2, ZenonT(40) DEF BootedFor, Key
      <4>. QED BY <4>1, <4>2, <3>4, SMT DEF k
    <3>. QED BY <3>3, <3>4
  <2>4. ASSUME NEW j \in DOMAIN cache, Valid(j), j \notin clobbered PROVE Complete(j)'
    <3>1. Complete(j) /\ j # k
      BY <2>1, <2>4, <1>5 DEF StoreOK
    <3>. QED BY <3>1, <1>9
  <2>. QED BY <2>1, <2>3, <2>4, <1>1, <1>2 DEF StoreOK, Valid
<1>14. PoolOK'
  <2>1. PoolOK
    BY SMT DEF IInv
  <2>2. pool # None /\ pool[1].key \notin clobbered =>
          /\ Complete(pool[1].key)'
          /\ dir'[pool[1].key].state = dir[pool[1].key].state
    <3>1. SUFFICES ASSUME pool # None, pool[1].key \notin clobbered
                   PROVE  /\ Complete(pool[1].key)'
                          /\ dir'[pool[1].key].state = dir[pool[1].key].state
      BY SMT
    <3>2. Complete(pool[1].key) /\ pool[1].key # k
      BY <3>1, <2>1, <1>5 DEF PoolOK
    <3>3. dir'[pool[1].key] = dir[pool[1].key]
      BY <3>2 DEF k, Complete
    <3>. QED BY <3>2, <3>3, <1>1, <1>2 DEF Complete
  <2>. QED BY <2>1, <2>2, <1>2 DEF PoolOK, VmWhole
<1>15. HostOK' /\ host'.nat = host.nat /\ host'.stale = host.stale
  BY <1>2 DEF IInv, HostOK
<1>16. NoStrayNat'
  BY <1>15, Thread, NatKept
<1>. QED BY <1>4, <1>10, <1>11, <1>12, <1>13, <1>14, <1>15, <1>16, ZenonT(40) DEF IInv

\* The guest's memory is written.
LEMMA DumpSafe == ASSUME Counting, IInv, NEW t \in Threads, Dump(t) PROVE IInv'
<1>. DEFINE k == Key(th[t])
<1>1. th[t].pc = "dumping" /\ Goto(t, "state") /\ UNCHANGED <<index, cache, l4, host, clobbered>>
      /\ dir' = [dir EXCEPT ![k].mem = <<t>>, ![k].full = TRUE]
  BY Zenon DEF Dump, At, Key, Cfg
<1>2. Moves(t) /\ IsThread(th'[t]) /\ th'[t].pc = "state" /\ th'[t].cfg = th[t].cfg
      /\ th'[t].vm = th[t].vm /\ th'[t].read = th[t].read /\ th'[t].applied = th[t].applied
  BY <1>1, GotoMoves, Zenon
<1>3. Saves(th[t]) /\ Saves(th'[t]) /\ ~Relies(th'[t])
      /\ th'[t].pc \in {"state", "writing", "insert"}
  BY <1>1, <1>2 DEF Saves, Saving, Relies
<1>4. Undisturbed(t, th[t]) /\ k \in DOMAIN dir
  BY <1>3, Zenon DEF IInv, ThreadOK, Busy
<1>5. IsDir(dir[k]) /\ dir = [j \in DOMAIN dir |-> dir[j]]
  BY <1>4, Zenon DEF IInv, StoreOK
<1>6. Key(th'[t]) = k
  BY <1>2 DEF Key
<1>. HIDE DEF k
<1>7. dir' = [j \in DOMAIN dir |-> dir'[j]] /\ (\A j \in DOMAIN dir : j # k => dir'[j] = dir[j])
      /\ IsDir(dir'[k]) /\ dir'[k].mem = <<t>> /\ dir'[k].state = dir[k].state /\ dir'[k].full
  BY <1>1, <1>4, <1>5, Zenon DEF IsDir
<1>8. Undisturbed(t, th[t])'
  <2>1. clobbered' = clobbered /\ cache' = cache /\ pool' = pool
    BY <1>1 DEF l4
  <2>. QED BY <2>1, <1>3, <1>4, <1>6, <1>7, Zenon DEF Undisturbed, Key, Saves, Relies, Valid, k
<1>9. dir'[k].mem \in {dir[k].mem, <<t>>} /\ dir'[k].state \in {None, dir[k].state, <<t>>}
  BY <1>7
<1>. QED BY <1>1, <1>2, <1>3, <1>7, <1>8, <1>9, FileStep, Zenon DEF k

\* The state file is created.
LEMMA OpenStateSafe == ASSUME Counting, IInv, NEW t \in Threads, OpenState(t) PROVE IInv'
<1>. DEFINE k == Key(th[t])
<1>1. th[t].pc = "state" /\ Goto(t, "writing") /\ UNCHANGED <<index, cache, l4, host, clobbered>>
      /\ dir' = [dir EXCEPT ![k].state = None]
  BY Zenon DEF OpenState, At, Key, Cfg
<1>2. Moves(t) /\ IsThread(th'[t]) /\ th'[t].pc = "writing" /\ th'[t].cfg = th[t].cfg
      /\ th'[t].vm = th[t].vm /\ th'[t].read = th[t].read /\ th'[t].applied = th[t].applied
  BY <1>1, GotoMoves, Zenon
<1>3. Saves(th[t]) /\ Saves(th'[t]) /\ ~Relies(th'[t]) /\ th[t].pc # "dumping"
      /\ th'[t].pc \in {"state", "writing", "insert"}
  BY <1>1, <1>2 DEF Saves, Saving, Relies
<1>4. Undisturbed(t, th[t]) /\ k \in DOMAIN dir
  BY <1>3, Zenon DEF IInv, ThreadOK, Busy
<1>5. IsDir(dir[k]) /\ dir = [j \in DOMAIN dir |-> dir[j]]
  BY <1>4, Zenon DEF IInv, StoreOK
<1>6. Key(th'[t]) = k
  BY <1>2 DEF Key
<1>. HIDE DEF k
<1>7. dir' = [j \in DOMAIN dir |-> dir'[j]] /\ (\A j \in DOMAIN dir : j # k => dir'[j] = dir[j])
      /\ IsDir(dir'[k]) /\ dir'[k].mem = dir[k].mem /\ dir'[k].state = None
      /\ dir'[k].full = dir[k].full
  BY <1>1, <1>4, <1>5, Zenon DEF IsDir
<1>8. Undisturbed(t, th[t])'
  <2>1. clobbered' = clobbered /\ cache' = cache /\ pool' = pool
    BY <1>1 DEF l4
  <2>. QED BY <2>1, <1>3, <1>4, <1>6, <1>7, Zenon DEF Undisturbed, Key, Saves, Relies, Valid, k
<1>9. dir'[k].mem \in {dir[k].mem, <<t>>} /\ dir'[k].state \in {None, dir[k].state, <<t>>}
  BY <1>7
<1>. QED BY <1>1, <1>2, <1>3, <1>7, <1>8, <1>9, FileStep, Zenon DEF k

\* The state file is written: the snapshot is complete.
LEMMA WriteStateSafe == ASSUME Counting, IInv, NEW t \in Threads, WriteState(t) PROVE IInv'
<1>. DEFINE k == Key(th[t])
<1>1. th[t].pc = "writing" /\ Goto(t, "insert") /\ UNCHANGED <<index, cache, l4, host, clobbered>>
      /\ dir' = [dir EXCEPT ![k].state = <<t>>]
  BY Zenon DEF WriteState, At, Key, Cfg
<1>2. Moves(t) /\ IsThread(th'[t]) /\ th'[t].pc = "insert" /\ th'[t].cfg = th[t].cfg
      /\ th'[t].vm = th[t].vm /\ th'[t].read = th[t].read /\ th'[t].applied = th[t].applied
  BY <1>1, GotoMoves, Zenon
<1>3. Saves(th[t]) /\ ~Saves(th'[t]) /\ th[t].pc # "dumping" /\ th'[t].pc # "map"
      /\ th'[t].pc \in {"state", "writing", "insert"}
  BY <1>1, <1>2 DEF Saves, Saving
<1>4. Undisturbed(t, th[t]) /\ k \in DOMAIN dir
  BY <1>3, Zenon DEF IInv, ThreadOK, Busy
<1>5. IsDir(dir[k]) /\ dir = [j \in DOMAIN dir |-> dir[j]]
  BY <1>4, Zenon DEF IInv, StoreOK
<1>6. Key(th'[t]) = k
  BY <1>2 DEF Key
<1>. HIDE DEF k
<1>7. dir' = [j \in DOMAIN dir |-> dir'[j]] /\ (\A j \in DOMAIN dir : j # k => dir'[j] = dir[j])
      /\ IsDir(dir'[k]) /\ dir'[k].mem = dir[k].mem /\ dir'[k].state = <<t>>
      /\ dir'[k].full = dir[k].full
  BY <1>1, <1>4, <1>5, Zenon DEF IsDir
<1>8. Undisturbed(t, th[t])'
  <2>1. clobbered' = clobbered /\ <<t>> # None /\ k \in DOMAIN dir'
    BY <1>1, <1>4, <1>7 DEF None
  <2>2. k \notin clobbered => dir'[k].full /\ dir'[k].mem = <<t>>
    BY <1>3, <1>4, <1>7, Zenon DEF Undisturbed, k
  <2>. QED BY <2>1, <2>2, <1>3, <1>6, <1>7, Zenon DEF Undisturbed, Key, Saves, Complete
<1>9. dir'[k].mem \in {dir[k].mem, <<t>>} /\ dir'[k].state \in {None, dir[k].state, <<t>>}
  BY <1>7
<1>. QED BY <1>1, <1>2, <1>3, <1>7, <1>8, <1>9, FileStep, Zenon DEF k

\* A VM whose file is rewritten under it is the same VM, but for that.
LEMMA RewrittenVm ==
  ASSUME NEW v, NEW k, IsVm(v)
  PROVE  /\ IsVm(Rewritten(k, v)) /\ Rewritten(k, v).via = v.via
         /\ Rewritten(k, v).regs = v.regs /\ Rewritten(k, v).mem = v.mem
         /\ Rewritten(k, v).key = v.key
         /\ v.key # <<k>> => Rewritten(k, v) = v
BY Zenon DEF Rewritten, IsVm

\* A snapshot that is not in use: nobody saves it or relies on it.
LEMMA NotInUse ==
  ASSUME IInv, NEW t \in Threads, NEW k, ~InUse(t, k)
  PROVE  /\ ~Valid(k) /\ (pool # None => pool[1].key # k)
         /\ \A u \in Threads \ {t} : Saves(th[u]) \/ Relies(th[u]) => Key(th[u]) # k
         /\ \A u \in Threads : Alive(th[u]) => th[u].vm.key # <<k>>
         /\ \A i \in 1 .. Len(warm) : warm[i].key # <<k>>
<1>. USE Zenon
<1>1. ~Valid(k) /\ (pool # None => pool[1].key # k)
  BY DEF InUse, Valid
<1>2. \A u \in Threads : Alive(th[u]) => th[u].vm.key # <<k>>
  BY DEF InUse, LiveVms, Alive
<1>3. \A i \in 1 .. Len(warm) : warm[i].key # <<k>>
  BY DEF InUse, LiveVms
<1>4. ASSUME NEW u \in Threads \ {t}, Saves(th[u]) \/ Relies(th[u]) PROVE Key(th[u]) # k
  <2>1. CASE th[u].pc \in Saving \cup {"insert", "read", "map", "pool"}
    BY <2>1 DEF InUse, Key, Cfg
  <2>2. CASE th[u].pc \in {"setup", "masquerade"} /\ th[u].next = "pool"
    <3>1. th[u].vm.key = <<Key(th[u])>>
      BY <2>2 DEF IInv, ThreadOK, Configured
    <3>2. Alive(th[u])
      BY <2>2, SMT DEF Alive
    <3>. QED BY <3>1, <3>2, <1>2
  <2>. QED BY <1>4, <2>1, <2>2, SMT DEF Saves, Relies
<1>. QED BY <1>1, <1>2, <1>3, <1>4

\* The memory file is created or truncated, whoever uses it.
LEMMA OpenDumpSafe == ASSUME IInv, NEW t \in Threads, OpenDump(t) PROVE IInv'
<1>. USE Zenon
<1>. DEFINE k == Key(th[t])
            was == IF k \in DOMAIN dir THEN dir[k] ELSE EmptyDir
<1>1. /\ th[t].pc = "dump" /\ UNCHANGED <<index, cache, pool, host>>
      /\ dir' = Put(dir, k, [was EXCEPT !.mem = <<t>>, !.full = FALSE])
      /\ clobbered' = clobbered \cup (IF InUse(t, k) THEN {k} ELSE {})
      /\ th' = [u \in Threads |-> IF u = t THEN [th[t] EXCEPT !.pc = "dumping"]
                                  ELSE [th[u] EXCEPT !.vm = Rewritten(k, @)]]
      /\ warm' = [i \in 1 .. Len(warm) |-> Rewritten(k, warm[i])]
      /\ filling' = [i \in 1 .. Len(filling) |-> Rewritten(k, filling[i])]
  BY DEF OpenDump, At, Key, Cfg
<1>2. \A u \in Threads : ThreadOK(u, th[u]) /\ IsThread(th[u]) /\ IsVm(th[u].vm)
  BY DEF IInv, ThreadOK, Configured
<1>3. StoreOK /\ PoolOK /\ th[t].cfg # None /\ th[t].pc # "create" /\ Alive(th[t])
      /\ th[t].vm.key[1] = th[t].vm.key[1]
  BY <1>1, Thread, SMT DEF IInv, Alive
<1>4. clobbered \subseteq clobbered' /\ (k \notin clobbered' => ~InUse(t, k))
      /\ (\A j : j \in clobbered' => j \in clobbered \/ j = k)
  BY <1>1, SMT
<1>5. IsDir(was) /\ was.state \in {None, dir[k].state}
      /\ (was.state # None => k \in DOMAIN dir /\ was.state = dir[k].state)
  BY <1>3, SMT DEF StoreOK, EmptyDir, IsDir
<1>. HIDE DEF was
<1>. HIDE DEF k
<1>6. /\ DOMAIN dir' = DOMAIN dir \cup {k} /\ dir' = [j \in DOMAIN dir' |-> dir'[j]]
      /\ \A j \in DOMAIN dir : j # k => dir'[j] = dir[j]
      /\ IsDir(dir'[k]) /\ dir'[k].mem = <<t>> /\ dir'[k].state = was.state
  <2>1. DOMAIN dir' = DOMAIN dir \cup {k} /\ dir' = [j \in DOMAIN dir' |-> dir'[j]]
        /\ (\A j \in DOMAIN dir : j # k => dir'[j] = dir[j])
        /\ dir'[k] = [was EXCEPT !.mem = <<t>>, !.full = FALSE]
    BY <1>1, SMT DEF Put
  <2>. QED BY <2>1, <1>5 DEF IsDir
<1>7. th' = [u \in Threads |-> th'[u]] /\ th'[t] = [th[t] EXCEPT !.pc = "dumping"]
      /\ \A u \in Threads \ {t} : th'[u] = [th[u] EXCEPT !.vm = Rewritten(k, th[u].vm)]
  BY <1>1, SMT
<1>8. IsThread(th'[t]) /\ th'[t].pc = "dumping" /\ th'[t].cfg = th[t].cfg /\ th'[t].vm = th[t].vm
      /\ th'[t].read = th[t].read /\ th'[t].applied = th[t].applied
  BY <1>2, <1>7, SMT DEF IsThread
<1>9. ASSUME NEW u \in Threads, u # t
      PROVE  /\ IsThread(th'[u]) /\ th'[u].pc = th[u].pc /\ th'[u].cfg = th[u].cfg
             /\ th'[u].read = th[u].read /\ th'[u].next = th[u].next
             /\ th'[u].applied = th[u].applied /\ th'[u].vm = Rewritten(k, th[u].vm)
  <2>1. th'[u] = [th[u] EXCEPT !.vm = Rewritten(k, th[u].vm)]
    BY <1>7, <1>9, SMT
  <2>. QED BY <2>1, <1>2, SMT DEF IsThread
<1>10. ASSUME NEW u \in Threads, u # t
       PROVE  /\ IsVm(th'[u].vm) /\ th'[u].vm.via = th[u].vm.via
              /\ th'[u].vm.regs = th[u].vm.regs /\ th'[u].vm.mem = th[u].vm.mem
              /\ th'[u].vm.key = th[u].vm.key
              /\ (th[u].vm.key # <<k>> => th'[u].vm = th[u].vm)
  <2>1. th'[u].vm = Rewritten(k, th[u].vm) /\ IsVm(th[u].vm)
    BY <1>2, <1>9, <1>10
  <2>. QED BY <2>1, RewrittenVm, SMT
<1>11. \A u \in Threads : th'[u].cfg = th[u].cfg /\ Key(th'[u]) = Key(th[u])
  BY <1>8, <1>9 DEF Key
<1>12. Saves(th'[t]) /\ ~Relies(th'[t]) /\ th'[t].pc \notin {"create", "created", "setup", "masquerade", "map"}
       /\ th'[t].pc \notin NotNetworked /\ k = Key(th[t]) /\ k' = k
  <2>1. Key(th'[t]) = Key(th[t])
    BY <1>11, SMT
  <2>. QED BY <2>1, <1>8, SMT DEF Saves, Saving, Relies, NotNetworked, k
<1>13. \A u \in Threads \ {t} : /\ (Saves(th'[u]) <=> Saves(th[u]))
                                /\ (Relies(th'[u]) <=> Relies(th[u]))
                                /\ (Alive(th'[u]) <=> Alive(th[u]))
  BY <1>9 DEF Saves, Relies, Alive
<1>14. \A j : j # k /\ Complete(j) => Complete(j)'
  BY <1>6 DEF Complete
<1>15. ASSUME NEW u \in Threads, u # t PROVE ThreadOK(u, th[u])'
  <2>1. Configured(th[u])'
    <3>1. th[u].vm = NoVm => th'[u].vm = NoVm
      <4>1. NoVm.key # <<k>>
        BY SMT DEF NoVm, Vm, None
      <4>. QED BY <4>1, <1>10, <1>15
    <3>2. Configured(th[u])
      BY <1>2 DEF ThreadOK
    <3>. QED BY <3>1, <3>2, <1>9, <1>10, <1>15 DEF Configured, Key
  <2>2. ReadsOwn(th[u])'
    <3>1. ReadsOwn(th[u])
      BY <1>2 DEF ThreadOK
    <3>2. \A s, j : BootedFor(s, j) => BootedFor(s, j)'
      BY <1>11 DEF BootedFor, Key
    <3>. QED BY <3>1, <3>2, <1>9, <1>10, <1>15 DEF ReadsOwn, Key
  <2>3. Busy(th[u])'
    <3>1. Busy(th[u]) /\ \A j \in DOMAIN dir : j \in DOMAIN dir'
      BY <1>2, <1>6 DEF ThreadOK
    <3>. QED BY <3>1, <1>9, <1>15 DEF Busy, Saves, Key
  <2>4. (Alive(th[u]) => VmWhole(th[u].vm))'
    <3>1. SUFFICES ASSUME Alive(th[u]) PROVE VmWhole(th[u].vm)'
      BY <1>9, <1>15 DEF Alive
    <3>2. VmWhole(th[u].vm)
      BY <1>2, <3>1 DEF ThreadOK
    <3>3. CASE th[u].vm.key = <<k>>
      <4>1. k \in clobbered'
        BY <3>1, <3>3, <1>4, NotInUse
      <4>2. th'[u].vm.key[1] = k
        BY <3>3, <1>10, <1>15, SMT
      <4>. QED BY <4>1, <4>2 DEF VmWhole
    <3>4. CASE th[u].vm.key # <<k>>
      BY <3>2, <3>4, <1>4, <1>10, <1>15 DEF VmWhole
    <3>. QED BY <3>3, <3>4
  <2>5. (Saves(th[u]) \/ Relies(th[u]) => Undisturbed(u, th[u]))'
    <3>1. SUFFICES ASSUME Saves(th[u]) \/ Relies(th[u]), Key(th[u]) \notin clobbered'
                   PROVE  Undisturbed(u, th[u])'
      BY <1>11, <1>13, <1>15 DEF Saves, Relies, Undisturbed, Key
    <3>2. Undisturbed(u, th[u]) /\ Key(th[u]) \notin clobbered
          /\ (Saves(th[u]) \/ th[u].pc = "map" => Key(th[u]) \in DOMAIN dir)
      BY <3>1, <1>2, <1>4 DEF ThreadOK, Busy
    <3>3. Key(th[u]) # k
      BY <3>1, <1>4, <1>15, NotInUse
    <3>4. Complete(Key(th[u])) => Complete(Key(th[u]))'
      BY <3>3, <1>11, <1>14 DEF Complete, Key
    <3>5. Key(th[u]) \in DOMAIN dir => dir'[Key(th[u])] = dir[Key(th[u])]
      BY <3>3, <1>6
    <3>6. cache' = cache /\ pool' = pool
      BY <1>1, SMT
    <3>. QED BY <3>1, <3>2, <3>4, <3>5, <3>6, <1>9, <1>11, <1>15
             DEF Undisturbed, Saves, Relies, Key, Valid
  <2>. QED BY <2>1, <2>2, <2>3, <2>4, <2>5 DEF ThreadOK
<1>16. ThreadOK(t, th[t])'
  <2>1. Configured(th[t])'
    BY <1>2, <1>3, <1>8, <1>12, Thread DEF Configured
  <2>2. ReadsOwn(th[t])'
    <3>1. ReadsOwn(th[t])
      BY <1>2 DEF ThreadOK
    <3>. QED BY <3>1, <1>8, <1>11 DEF ReadsOwn, BootedFor, Key
  <2>3. Busy(th[t])'
    <3>1. k \in DOMAIN dir'
      BY <1>6, SMT
    <3>. QED BY <3>1, <1>11, <1>12 DEF Busy, Saves, Key
  <2>4. VmWhole(th[t].vm)'
    BY <1>2, <1>3, <1>4, <1>8 DEF ThreadOK, VmWhole
  <2>5. Undisturbed(t, th[t])'
    <3>1. k \notin clobbered' => ~Valid(k) /\ (pool # None => pool[1].key # k)
      BY <1>4, NotInUse
    <3>2. cache' = cache /\ pool' = pool
      BY <1>1, SMT
    <3>. QED BY <3>1, <3>2, <1>6, <1>8, <1>11, <1>12
             DEF Undisturbed, Saves, Relies, Key, Valid
  <2>. QED BY <2>1, <2>2, <2>3, <2>4, <2>5 DEF ThreadOK
<1>17. \A u, v \in Threads : Alone(u, v)'
  <2>1. SUFFICES ASSUME NEW u \in Threads, NEW v \in Threads, u # v, Saves(th'[u]),
                        Key(th[u]) \notin clobbered', Saves(th'[v]) \/ Relies(th'[v])
                 PROVE  Key(th[v]) # Key(th[u])
    BY <1>11, ZenonT(40) DEF Alone, Saves, Relies, Key
  <2>2. CASE u = t
    BY <2>1, <2>2, <1>4, <1>12, <1>13, NotInUse
  <2>3. CASE v = t
    BY <2>1, <2>3, <1>4, <1>12, <1>13, NotInUse
  <2>4. CASE u # t /\ v # t
    BY <2>1, <2>4, <1>4, <1>13 DEF IInv, Alone
  <2>. QED BY <2>2, <2>3, <2>4
<1>18. StoreOK'
  <2>1. BootedFor(<<t>>, k)'
    <3>1. <<t>>[1] = t
      BY SMT
    <3>. QED BY <3>1, <1>3, <1>11, <1>12 DEF BootedFor, Key
  <2>2. ASSUME NEW j \in DOMAIN dir'
        PROVE  IsDir(dir'[j]) /\ BootedFor(dir[j].mem, j)' /\ BootedFor(dir[j].state, j)'
    <3>1. ASSUME NEW s, BootedFor(s, j) PROVE BootedFor(s, j)'
      BY <3>1, <1>11 DEF BootedFor, Key
    <3>2. CASE j # k
      <4>1. dir'[j] = dir[j] /\ IsDir(dir[j]) /\ BootedFor(dir[j].mem, j) /\ BootedFor(dir[j].state, j)
        BY <3>2, <1>3, <1>6 DEF StoreOK
      <4>. QED BY <3>1, <4>1 DEF BootedFor, Key
    <3>3. CASE j = k
      <4>1. BootedFor(dir[j].mem, j)'
        BY <2>1, <3>3, <1>6, <1>12 DEF BootedFor, Key
      <4>2. BootedFor(dir[j].state, j)'
        <5>1. CASE was.state = None
          BY <5>1, <3>3, <1>6, <1>12 DEF BootedFor, Key
        <5>2. CASE k \in DOMAIN dir /\ was.state = dir[k].state
          <6>1. BootedFor(dir[k].state, k)
            BY <5>2, <1>3 DEF StoreOK
          <6>2. dir'[j].state = dir[j].state
            BY <5>2, <3>3, <1>6
          <6>. QED BY <6>1, <6>2, <3>1, <3>3 DEF BootedFor, Key
        <5>. QED BY <5>1, <5>2, <1>5
      <4>. QED BY <4>1, <4>2, <3>3, <1>6
    <3>. QED BY <3>2, <3>3
  <2>3. ASSUME NEW j \in DOMAIN cache, Valid(j), j \notin clobbered' PROVE Complete(j)'
    <3>1. j # k
      BY <2>3, <1>4, NotInUse
    <3>2. Complete(j)
      BY <2>3, <1>3, <1>4 DEF StoreOK
    <3>. QED BY <3>1, <3>2, <1>14
  <2>4. cache' = cache /\ index' = index
    BY <1>1, SMT
  <2>. QED BY <2>2, <2>3, <2>4, <1>3, <1>6 DEF StoreOK, Valid
<1>19. PoolOK'
  <2>1. IsSeq(warm)' /\ Len(warm') = Len(warm)
        /\ \A i \in 1 .. Len(warm) : warm'[i] = Rewritten(k, warm[i])
    <3>. DEFINE n == Len(warm)
    <3>1. n \in Nat
      BY <1>3, SMT DEF PoolOK, IsSeq
    <3>2. warm' = [i \in 1 .. n |-> Rewritten(k, warm[i])]
      BY <1>1, SMT
    <3>. HIDE DEF n
    <3>3. Len(warm') = n /\ \A i \in 1 .. n : warm'[i] = Rewritten(k, warm[i])
      BY <3>1, <3>2, SMT
    <3>4. warm' \in Seq({warm'[i] : i \in 1 .. n})
      BY <3>1, <3>2, SMT
    <3>. QED BY <3>3, <3>4 DEF IsSeq, n
  <2>2. ASSUME NEW i \in 1 .. Len(warm)
        PROVE  IsVm(warm'[i]) /\ warm'[i].via \in {"pool", "none"} /\ VmWhole(warm[i])'
    <3>1. IsVm(warm[i]) /\ warm[i].via \in {"pool", "none"} /\ VmWhole(warm[i])
      BY <1>3 DEF PoolOK
    <3>2. IsVm(warm'[i]) /\ warm'[i].via = warm[i].via /\ warm'[i].key = warm[i].key
          /\ (warm[i].key # <<k>> => warm'[i] = warm[i])
      <4>1. warm'[i] = Rewritten(k, warm[i])
        BY <2>1, SMT
      <4>. QED BY <4>1, <3>1, RewrittenVm, SMT
    <3>3. CASE warm[i].key = <<k>>
      <4>1. k \in clobbered'
        BY <3>3, <1>4, NotInUse
      <4>2. warm'[i].key[1] = k
        BY <3>2, <3>3, SMT
      <4>. QED BY <3>1, <3>2, <4>1, <4>2 DEF VmWhole
    <3>4. CASE warm[i].key # <<k>>
      BY <3>1, <3>2, <3>4, <1>4 DEF VmWhole
    <3>. QED BY <3>3, <3>4
  <2>3. pool' = pool /\ (pool # None /\ pool[1].key \notin clobbered' =>
          /\ Complete(pool[1].key)' /\ pool[1].key \notin clobbered
          /\ dir'[pool[1].key].state = dir[pool[1].key].state)
    <3>1. pool' = pool
      BY <1>1, SMT
    <3>2. ASSUME pool # None, pool[1].key \notin clobbered'
          PROVE  /\ Complete(pool[1].key)' /\ pool[1].key \notin clobbered
                 /\ dir'[pool[1].key].state = dir[pool[1].key].state
      <4>1. pool[1].key \notin clobbered /\ pool[1].key # k
        BY <3>2, <1>4, NotInUse
      <4>2. Complete(pool[1].key)
        BY <4>1, <3>2, <1>3 DEF PoolOK
      <4>3. dir'[pool[1].key] = dir[pool[1].key]
        BY <4>1, <4>2, <1>6 DEF Complete
      <4>. QED BY <4>1, <4>2, <4>3, <3>1, <1>6 DEF Complete
    <3>. QED BY <3>1, <3>2
  <2>4. filling' = filling
    <3>1. CASE filling = None
      BY <3>1, <1>1, SMT DEF None
    <3>2. CASE filling # None
      <4>1. filling = <<filling[1]>> /\ IsVm(filling[1]) /\ filling[1].key # <<k>>
        BY <3>2, <1>3, SMT DEF PoolOK, None
      <4>2. Rewritten(k, filling[1]) = filling[1]
        BY <4>1, RewrittenVm
      <4>. DEFINE v == filling[1]
      <4>3. filling = <<v>> /\ Rewritten(k, v) = v
        BY <4>1, <4>2, SMT
      <4>. HIDE DEF v
      <4>4. Len(filling) = 1 /\ filling[1] = v
        BY <4>3, SMT
      <4>5. filling' = [i \in 1 .. 1 |-> Rewritten(k, filling[i])]
        BY <4>4, <1>1, SMT
      <4>6. filling' = <<v>>
        BY <4>3, <4>4, <4>5, SMT
      <4>. QED BY <4>3, <4>6, SMT
    <3>. QED BY <3>1, <3>2
  <2>5. \A i \in 1 .. Len(warm') : (IsVm(warm[i]) /\ warm[i].via \in {"pool", "none"} /\ VmWhole(warm[i]))'
    BY <2>1, <2>2
  <2>. QED BY <2>1, <2>3, <2>4, <2>5, <1>3 DEF PoolOK
<1>20. HostOK' /\ NoStrayNat'
  <2>1. host' = host /\ Applied' = Applied
    BY <1>1, <1>8, <1>9, SMT DEF Applied
  <2>2. HostOK /\ host.nat <= Cardinality(Applied) + host.stale
    BY SMT DEF IInv, NoStrayNat, Applied
  <2>3. host'.nat <= Cardinality(Applied') + host'.stale
    BY <2>1, <2>2
  <2>. QED BY <2>1, <2>2, <2>3 DEF HostOK, NoStrayNat, Applied
<1>. QED BY <1>7, <1>15, <1>16, <1>17, <1>18, <1>19, <1>20 DEF IInv

-----------------------------------------------------------------------------
(* The factory of the pool, and restarts.                                  *)

\* The factory's steps leave the threads and the files alone.
LEMMA FactoryStep ==
  ASSUME IInv, UNCHANGED <<th, disk, cache, pool, host, clobbered>>, PoolOK'
  PROVE  IInv'
<1>. USE Zenon
<1>1. th' = th /\ dir' = dir /\ index' = index /\ cache' = cache /\ pool' = pool /\ host' = host
      /\ clobbered' = clobbered
  BY SMT DEF disk
<1>2. ASSUME NEW t \in Threads PROVE ThreadOK(t, th[t])'
  <2>1. ThreadOK(t, th[t])
    BY SMT DEF IInv
  <2>2. Configured(th[t])'
    BY <2>1, <1>1 DEF ThreadOK, Configured, Key
  <2>3. ReadsOwn(th[t])'
    BY <2>1, <1>1 DEF ThreadOK, ReadsOwn, BootedFor, Key
  <2>4. Busy(th[t])' /\ (Alive(th[t]) => VmWhole(th[t].vm))'
    BY <2>1, <1>1 DEF ThreadOK, Busy, Saves, Key, Alive, VmWhole
  <2>5. (Saves(th[t]) \/ Relies(th[t]) => Undisturbed(t, th[t]))'
    BY <2>1, <1>1 DEF ThreadOK, Saves, Relies, Undisturbed, Complete, Valid, Key
  <2>. QED BY <2>2, <2>3, <2>4, <2>5 DEF ThreadOK
<1>3. (\A t, u \in Threads : Alone(t, u)') /\ StoreOK'
  <2>1. \A t, u \in Threads : Alone(t, u)'
    BY <1>1 DEF IInv, Alone, Key, Saves, Relies
  <2>2. \A s, k : BootedFor(s, k) => BootedFor(s, k)'
    BY <1>1 DEF BootedFor, Key
  <2>3. StoreOK'
    <3>1. \A k \in DOMAIN dir : BootedFor(dir[k].mem, k)' /\ BootedFor(dir[k].state, k)'
      BY <2>2, <1>1 DEF IInv, StoreOK
    <3>2. StoreOK /\ \A k : Complete(k) => Complete(k)'
      BY <1>1 DEF IInv, Complete
    <3>. QED BY <3>1, <3>2, <1>1 DEF StoreOK, Valid
  <2>. QED BY <2>1, <2>3
<1>4. HostOK' /\ NoStrayNat'
  BY <1>1 DEF IInv, HostOK, NoStrayNat
<1>. QED BY <1>1, <1>2, <1>3, <1>4 DEF IInv

\* The factory reads the state file.
LEMMA FactoryReadsSafe == ASSUME IInv, FactoryReads PROVE IInv'
<1>1. pool # None /\ UNCHANGED <<th, disk, cache, pool, warm, host, clobbered>>
      /\ filling' = <<IF Readable(pool[1].key)
                      THEN Vm("reading", dir[pool[1].key].state, None, None, TRUE) ELSE NoVm>>
  BY DEF FactoryReads
<1>2. dir' = dir /\ pool' = pool /\ warm' = warm /\ clobbered' = clobbered
  BY <1>1 DEF disk
<1>3. PoolOK
  BY DEF IInv
<1>4. /\ filling' = <<filling'[1]>> /\ IsVm(filling'[1]) /\ filling'[1].key = None
      /\ filling'[1].via \in {"none", "reading"}
      /\ filling'[1].via = "reading" => filling'[1].regs = dir[pool[1].key].state
  <2>1. CASE Readable(pool[1].key)
    BY <1>1, <2>1, Zenon DEF Vm, IsVm
  <2>2. CASE ~Readable(pool[1].key)
    BY <1>1, <2>2, Zenon DEF Vm, NoVm, IsVm
  <2>. QED BY <2>1, <2>2, Zenon
<1>5. PoolOK'
  BY <1>1, <1>2, <1>3, <1>4, ZenonT(40) DEF PoolOK, Complete, VmWhole
<1>. QED BY <1>1, <1>5, FactoryStep

\* The factory maps the memory file and the VM is warm.
LEMMA FactoryMapsSafe == ASSUME IInv, FactoryMaps PROVE IInv'
<1>. DEFINE k == pool[1].key
            vm == IF filling[1].via = "none" \/ dir[k].mem = None THEN NoVm
                  ELSE Restored("pool", k, filling[1].regs)
<1>1. filling # None /\ filling' = None /\ warm' = Append(warm, vm)
      /\ UNCHANGED <<th, disk, cache, pool, host, clobbered>>
  BY DEF FactoryMaps
<1>2. dir' = dir /\ pool' = pool /\ clobbered' = clobbered
  BY <1>1 DEF disk
<1>3. PoolOK
  BY DEF IInv
<1>4. IsVm(vm) /\ vm.via \in {"pool", "none"}
      /\ (vm.via = "pool" => /\ filling[1].via # "none" /\ vm.key[1] = k
                             /\ vm.regs = filling[1].regs /\ vm.mem = dir[k].mem
                             /\ vm.whole = dir[k].full)
  <2>1. CASE filling[1].via = "none" \/ dir[k].mem = None
    BY <2>1, ZenonT(40) DEF NoVm, Vm, IsVm
  <2>2. CASE ~(filling[1].via = "none" \/ dir[k].mem = None)
    BY <2>2 DEF Restored, Vm, IsVm
  <2>. QED BY <2>1, <2>2, Zenon
<1>5. VmWhole(vm)
  <2>1. SUFFICES ASSUME Restores(vm), vm.key[1] \notin clobbered PROVE vm.whole /\ vm.regs = vm.mem
    BY ZenonT(40) DEF VmWhole
  <2>2. vm.via = "pool"
    BY <2>1, <1>4, Zenon DEF Restores
  <2>3. filling[1].via = "reading" /\ k \notin clobbered /\ pool # None
    BY <2>1, <2>2, <1>1, <1>3, <1>4, Zenon DEF PoolOK
  <2>4. Complete(k) /\ filling[1].regs = dir[k].state
    BY <2>3, <1>1, <1>3, Zenon DEF PoolOK
  <2>. QED BY <2>2, <2>4, <1>4, Zenon DEF Complete
<1>. HIDE DEF vm
<1>6. /\ IsSeq(warm')
      /\ \A i \in 1 .. Len(warm') : warm'[i] = vm \/ (i \in 1 .. Len(warm) /\ warm'[i] = warm[i])
  <2>1. IsSeq(warm)
    BY <1>3 DEF PoolOK
  <2>. QED BY <2>1, <1>1, AppendIsSeq
<1>7. ASSUME NEW i \in 1 .. Len(warm')
      PROVE  IsVm(warm'[i]) /\ warm'[i].via \in {"pool", "none"} /\ VmWhole(warm'[i])
  <2>1. CASE warm'[i] = vm
    BY <2>1, <1>4, <1>5
  <2>2. CASE i \in 1 .. Len(warm) /\ warm'[i] = warm[i]
    BY <2>2, <1>3 DEF PoolOK
  <2>. QED BY <2>1, <2>2, <1>6, Zenon
<1>8. PoolOK'
  <2>1. \A i \in 1 .. Len(warm') : (IsVm(warm[i]) /\ warm[i].via \in {"pool", "none"} /\ VmWhole(warm[i]))'
    BY <1>2, <1>7, Zenon DEF VmWhole
  <2>. QED BY <2>1, <1>1, <1>2, <1>3, <1>6, Zenon DEF PoolOK, Complete, IsSeq
<1>. QED BY <1>1, <1>8, FactoryStep

\* A thread that ended, or one that has not begun, neither saves nor relies.
LEMMA EndedIsIdle ==
  ASSUME NEW x, x.pc \in {"create", "done"}
  PROVE  ~Saves(x) /\ ~Relies(x) /\ ~Alive(x) /\ x.pc # "map"
         /\ (x.pc = "done" => x.pc \notin NotNetworked \cup {"create", "created", "setup", "masquerade"})
BY DEF Saves, Saving, Relies, Alive, NotNetworked

\* The daemon dies at any point and reads back its index.
LEMMA RestartSafe == ASSUME Counting, IInv, Restart PROVE IInv'
<1>. USE Zenon
<1>1. /\ th' = [t \in Threads |-> IF th[t].pc = "create" THEN th[t]
                                  ELSE [th[t] EXCEPT !.pc = "done", !.applied = FALSE]]
      /\ cache' = index /\ pool' = None /\ warm' = <<>> /\ filling' = None
      /\ host' = [host EXCEPT !.tap = FALSE, !.stale = host.nat]
      /\ dir' = dir /\ index' = index /\ clobbered' = clobbered
  BY DEF Restart, disk
<1>2. th' = [t \in Threads |-> th'[t]]
  BY <1>1
<1>3. ASSUME NEW t \in Threads
      PROVE  /\ IsThread(th'[t]) /\ th'[t].cfg = th[t].cfg /\ th'[t].vm = th[t].vm
             /\ th'[t].read = th[t].read /\ th'[t].applied = FALSE
             /\ th'[t].pc = IF th[t].pc = "create" THEN "create" ELSE "done"
  <2>1. CASE th[t].pc = "create"
    <3>1. th'[t] = th[t] /\ ~th[t].applied /\ th[t].applied \in BOOLEAN
      BY <1>1, <2>1, Thread DEF NotNetworked
    <3>. QED BY <2>1, <3>1, Thread, SMT
  <2>2. CASE th[t].pc # "create"
    <3>1. th'[t] = [th[t] EXCEPT !.pc = "done", !.applied = FALSE]
      BY <1>1, <2>2
    <3>. QED BY <2>2, <3>1, Thread DEF IsThread
  <2>. QED BY <2>1, <2>2
<1>4. \A t \in Threads : th'[t].pc \in {"create", "done"} /\ (th'[t].pc = "create" <=> th[t].pc = "create")
  BY <1>3
<1>5. \A t \in Threads : /\ ~Saves(th'[t]) /\ ~Relies(th'[t]) /\ ~Alive(th'[t]) /\ th'[t].pc # "map"
                         /\ (th'[t].pc = "done" => th'[t].pc \notin NotNetworked \cup
                               {"create", "created", "setup", "masquerade"})
  BY <1>4, EndedIsIdle, SMT
<1>6. ASSUME NEW s, NEW k, BootedFor(s, k) PROVE BootedFor(s, k)'
  BY <1>3, <1>6 DEF BootedFor, Key
<1>7. ASSUME NEW t \in Threads PROVE ThreadOK(t, th[t])'
  <2>1. Configured(th[t]) /\ ReadsOwn(th[t])
    BY DEF IInv, ThreadOK
  <2>2. Configured(th[t])'
    <3>1. th'[t].pc \notin {"setup", "masquerade"}
          /\ (th'[t].pc \in {"create", "created"} => th[t].pc = "create" /\ "create" \in {"create", "created"})
          /\ th'[t].applied \in BOOLEAN /\ ~th'[t].applied
      BY <1>3, <1>4
    <3>2. (th'[t].cfg = None) = (th'[t].pc = "create")
      BY <2>1, <1>3, <1>4 DEF Configured
    <3>. QED BY <2>1, <3>1, <3>2, <1>3 DEF Configured
  <2>3. ReadsOwn(th[t])'
    <3>1. BootedFor(th[t].read, Key(th[t]))' /\
          (th[t].vm.via = "l3" => BootedFor(th[t].vm.regs, Key(th[t]))' /\ BootedFor(th[t].vm.mem, Key(th[t]))')
      BY <2>1, <1>3 DEF ReadsOwn, BootedFor, Key
    <3>. QED BY <2>1, <3>1, <1>3 DEF ReadsOwn
  <2>4. ~Saves(th[t])' /\ ~Relies(th[t])' /\ ~Alive(th[t])' /\ th'[t].pc # "map"
    BY <1>5 DEF Saves, Relies, Alive
  <2>. QED BY <2>2, <2>3, <2>4 DEF ThreadOK, Busy
<1>8. \A t, u \in Threads : Alone(t, u)'
  BY <1>5 DEF Alone, Saves
<1>9. StoreOK'
  <2>1. StoreOK
    BY SMT DEF IInv
  <2>2. \A k \in DOMAIN dir : BootedFor(dir[k].mem, k)' /\ BootedFor(dir[k].state, k)'
    <3>1. \A s, k : BootedFor(s, k) => BootedFor(s, k)'
      BY <1>6
    <3>. QED BY <2>1, <3>1, <1>1 DEF StoreOK
  <2>. QED BY <2>1, <2>2, <1>1 DEF StoreOK, Complete, Valid
<1>10. PoolOK'
  <2>1. IsSeq(<<>>) /\ Len(<<>>) = 0 /\ 1 .. 0 = {}
    BY SMT DEF IsSeq
  <2>. QED BY <2>1, <1>1 DEF PoolOK, IsSeq
<1>11. HostOK' /\ NoStrayNat'
  <2>1. HostOK
    BY SMT DEF IInv
  <2>2. HostOK' /\ host'.nat = host.nat /\ host'.stale = host.nat /\ host.nat \in Nat
    BY <2>1, <1>1 DEF HostOK
  <2>3. Applied' = {}
    BY <1>3 DEF Applied
  <2>4. Cardinality(Applied') = 0
    BY <2>3 DEF Counting
  <2>5. host'.nat <= Cardinality(Applied') + host'.stale
    BY <2>2, <2>4, SMT
  <2>. QED BY <2>2, <2>5, SMT DEF NoStrayNat, Applied
<1>. QED BY <1>2, <1>7, <1>8, <1>9, <1>10, <1>11 DEF IInv

-----------------------------------------------------------------------------
(* All steps.                                                              *)

\* The daemon starts with no snapshot, no pool and no thread.
LEMMA InitSafe == ASSUME Counting, Init PROVE IInv
<1>1. /\ th = [t \in Threads |-> Fresh] /\ dir = <<>> /\ cache = <<>> /\ index = <<>>
      /\ pool = None /\ warm = <<>> /\ filling = None
      /\ host = [tap |-> FALSE, nat |-> 0, stale |-> 0] /\ clobbered = {}
  BY DEF Init
<1>2. /\ IsThread(Fresh) /\ Fresh.pc = "create" /\ Fresh.cfg = None /\ Fresh.vm = NoVm
      /\ Fresh.read = None /\ Fresh.applied = FALSE
  BY DEF Fresh, IsThread
<1>3. IsVm(NoVm) /\ NoVm.via = "none"
  BY DEF NoVm, Vm, IsVm
<1>4. ~Saves(Fresh) /\ ~Relies(Fresh) /\ ~Alive(Fresh) /\ Fresh.pc # "map"
  BY <1>2, EndedIsIdle
<1>5. th = [t \in Threads |-> th[t]] /\ \A t \in Threads : th[t] = Fresh
  BY <1>1
<1>6. Configured(Fresh)
  <2>1. Fresh.pc \notin {"setup", "masquerade"} /\ Fresh.applied \in BOOLEAN
        /\ (Fresh.cfg = None) = (Fresh.pc = "create")
    BY <1>2, Zenon
  <2>. QED BY <2>1, <1>2, <1>3, Zenon DEF Configured
<1>7. ReadsOwn(Fresh) /\ Busy(Fresh)
  <2>1. NoVm.via # "l3"
    BY <1>3
  <2>. QED BY <2>1, <1>2, <1>4, Zenon DEF ReadsOwn, BootedFor, Busy
<1>8. \A t \in Threads : ThreadOK(t, th[t])
  BY <1>4, <1>5, <1>6, <1>7, Zenon DEF ThreadOK
<1>9. \A t, u \in Threads : Alone(t, u)
  BY <1>4, <1>5, Zenon DEF Alone
<1>10. StoreOK
  <2>1. DOMAIN <<>> = {} /\ <<>> = [k \in {} |-> <<>>[k]]
    OBVIOUS
  <2>. QED BY <2>1, <1>1, Zenon DEF StoreOK
<1>11. PoolOK
  <2>1. IsSeq(<<>>) /\ Len(<<>>) = 0 /\ 1 .. 0 = {}
    BY DEF IsSeq
  <2>. QED BY <2>1, <1>1, Zenon DEF PoolOK
<1>12. HostOK /\ NoStrayNat
  <2>1. Applied = {}
    BY <1>2, <1>5 DEF Applied
  <2>2. Cardinality(Applied) = 0
    BY <2>1, Zenon DEF Counting
  <2>3. HostOK /\ host.nat <= Cardinality(Applied) + host.stale
    BY <2>2, <1>1 DEF HostOK
  <2>. QED BY <2>3 DEF NoStrayNat, Applied
<1>. QED BY <1>5, <1>8, <1>9, <1>10, <1>11, <1>12, ZenonT(40) DEF IInv

\* Every step of the boot path keeps the invariant.
LEMMA NextSafe == ASSUME Counting, IInv, [Next]_vars PROVE IInv'
<1>1. ASSUME NEW t \in Threads, Boots(t) PROVE IInv'
  <2>1. CASE Lookup(t)
    BY <2>1, HitSafe, MissSafe, Zenon
  <2>. QED BY <1>1, <2>1, CreateSafe, MainParsesSafe, StartSafe, AcquireSafe, RestoreFailsSafe,
            ReadStateSafe, MapMemorySafe, InvalidateSafe, SetupNetworkSafe, AddMasqueradeSafe,
            KvmRefusesSafe, BuildSafe, BootToMarkerSafe, OpenDumpSafe, DumpSafe, OpenStateSafe,
            WriteStateSafe, SaveFailsSafe, InsertSafe, InitPoolSafe, VmEndsSafe, ZenonT(40)
         DEF Boots
<1>2. CASE UNCHANGED vars
  <2>1. UNCHANGED <<th, disk, cache, pool, host, clobbered, dir, l4>>
    BY <1>2 DEF vars, disk, l4
  <2>2. PoolOK'
    BY <2>1, PoolKept
  <2>. QED BY <2>1, <2>2, FactoryStep
<1>. QED BY <1>1, <1>2, FactoryReadsSafe, FactoryMapsSafe, RestartSafe DEF Next

-----------------------------------------------------------------------------
(* Loops: the recursive functions that stand for them.                     *)

\* What holds before a loop and after each of its rounds holds at its end.
LEMMA LoopInduction ==
  ASSUME LeastNumbers, NEW N \in Nat, NEW T, 0 \in T, \A n \in 1 .. N : n - 1 \in T => n \in T
  PROVE  \A n \in 0 .. N : n \in T
<1>. DEFINE U == (0 .. N) \ T
<1>. SUFFICES ASSUME U # {} PROVE FALSE
  OBVIOUS
<1>1. PICK n \in U : \A k \in U : n <= k
  <2>1. U \in SUBSET Nat
    OBVIOUS
  <2>. HIDE DEF U
  <2>. QED BY <2>1, Zenon DEF LeastNumbers
<1>2. n # 0
  OBVIOUS
<1>3. n \in 1 .. N /\ n - 1 \in 0 .. N /\ ~(n <= n - 1)
  BY <1>2
<1>4. n - 1 \in T
  BY <1>1, <1>3, Zenon
<1>. QED BY <1>3, <1>4, Zenon

\* f is what the rounds of a loop compute from base, round n by step[n].
Rounds(f, N, base, step) ==
  f[0] = base /\ \A n \in 1 .. N : f[n] = step[n][f[n - 1]]

\* A loop over values of V computes something.
LEMMA LoopRuns ==
  ASSUME LeastNumbers, NEW N \in Nat, NEW V, NEW base \in V, NEW step \in [1 .. N -> [V -> V]]
  PROVE  \E f \in [0 .. N -> V] : Rounds(f, N, base, step)
<1>. DEFINE T == {n \in 0 .. N : \E f \in [0 .. n -> V] : Rounds(f, n, base, step)}
<1>1. 0 \in T
  <2>. DEFINE f == [i \in 0 .. 0 |-> base]
  <2>1. f \in [0 .. 0 -> V] /\ f[0] = base /\ 1 .. 0 = {} /\ 0 \in 0 .. N
    OBVIOUS
  <2>2. Rounds(f, 0, base, step)
    <3>. HIDE DEF f
    <3>. QED BY <2>1, Zenon DEF Rounds
  <2>. QED BY <2>1, <2>2, Zenon
<1>2. ASSUME NEW n \in 1 .. N, n - 1 \in T PROVE n \in T
  <2>1. PICK f \in [0 .. n - 1 -> V] : Rounds(f, n - 1, base, step)
    BY <1>2, Zenon
  <2>. DEFINE g == [i \in 0 .. n |-> IF i = n THEN step[n][f[n - 1]] ELSE f[i]]
  <2>2. f[n - 1] \in V
    OBVIOUS
  <2>3. step[n][f[n - 1]] \in V
    <3>1. step[n] \in [V -> V]
      OBVIOUS
    <3>. HIDE DEF T
    <3>. QED BY <2>2, <3>1, Zenon
  <2>4. \A i \in 0 .. n : i # n => i \in 0 .. n - 1
    OBVIOUS
  <2>5. g \in [0 .. n -> V]
    BY <2>3, <2>4, Zenon
  <2>6. g[n] = step[n][f[n - 1]] /\ \A i \in 0 .. n - 1 : g[i] = f[i]
    OBVIOUS
  <2>. HIDE DEF g
  <2>7. 0 \in 0 .. n - 1 /\ n - 1 \in 0 .. n - 1 /\ n \in 0 .. N
    OBVIOUS
  <2>8. \A i \in 1 .. n : i # n => i \in 1 .. n - 1 /\ i \in 0 .. n - 1 /\ i - 1 \in 0 .. n - 1
    OBVIOUS
  <2>9. Rounds(g, n, base, step)
    BY <2>1, <2>6, <2>7, <2>8, Zenon DEF Rounds
  <2>. QED BY <2>5, <2>7, <2>9, Zenon
<1>3. N \in 0 .. N
  OBVIOUS
<1>. HIDE DEF T
<1>4. N \in T
  BY <1>1, <1>2, <1>3, LoopInduction, Zenon
<1>. QED BY <1>4 DEF T
-----------------------------------------------------------------------------
(* Guest memory.                                                           *)

Writes == [what : {"kernel", "pml4", "pdpt", "pd", "gdt", "cmdline", "initrd", "zero_page"},
           addr : Nat, len : Nat]

\* What is written, in whatever order.
Elems(s) == {s[i] : i \in 1 .. Len(s)}

\* Writes that lie between two addresses, and writes that do not meet.
Between(lo, hi) == {w \in Writes : lo <= w.addr /\ w.addr + w.len <= hi}
Away(R, S) == \A v \in R, w \in S : ~Overlap(v, w)
Ordered(s) == \A i, j \in 1 .. Len(s) : i < j => ~Overlap(s[i], s[j])

\* One part of the image after the other.
LEMMA JoinElems ==
  ASSUME NEW s \in Seq(Writes), NEW r \in Seq(Writes)
  PROVE  s \o r \in Seq(Writes) /\ \A w : w \in Elems(s \o r) <=> w \in Elems(s) \/ w \in Elems(r)
<1>1. s \o r \in Seq(Writes) /\ Len(s \o r) = Len(s) + Len(r) /\ Len(s) \in Nat /\ Len(r) \in Nat
  OBVIOUS
<1>2. ASSUME NEW w, w \in Elems(s \o r) PROVE w \in Elems(s) \/ w \in Elems(r)
  <2>1. PICK i \in 1 .. Len(s \o r) : w = (s \o r)[i]
    BY <1>2, Zenon DEF Elems
  <2>2. CASE i <= Len(s)
    <3>1. i \in 1 .. Len(s) /\ (s \o r)[i] = s[i]
      BY <1>1, <2>2
    <3>. QED BY <2>1, <3>1, Zenon DEF Elems
  <2>3. CASE ~(i <= Len(s))
    <3>1. i - Len(s) \in 1 .. Len(r) /\ (s \o r)[i] = r[i - Len(s)]
      BY <1>1, <2>3
    <3>. QED BY <2>1, <3>1, Zenon DEF Elems
  <2>. QED BY <2>2, <2>3, Zenon
<1>3. ASSUME NEW w, w \in Elems(s) PROVE w \in Elems(s \o r)
  <2>1. PICK i \in 1 .. Len(s) : w = s[i]
    BY <1>3, Zenon DEF Elems
  <2>2. i \in 1 .. Len(s \o r) /\ (s \o r)[i] = s[i]
    BY <1>1
  <2>. QED BY <2>1, <2>2, Zenon DEF Elems
<1>4. ASSUME NEW w, w \in Elems(r) PROVE w \in Elems(s \o r)
  <2>1. PICK i \in 1 .. Len(r) : w = r[i]
    BY <1>4, Zenon DEF Elems
  <2>2. i + Len(s) \in 1 .. Len(s \o r) /\ (s \o r)[i + Len(s)] = r[i]
    BY <1>1
  <2>. QED BY <2>1, <2>2, Zenon DEF Elems
<1>. QED BY <1>1, <1>2, <1>3, <1>4, Zenon

\* Two parts whose writes do not meet, neither within one nor across.
LEMMA JoinOrdered ==
  ASSUME NEW s \in Seq(Writes), NEW r \in Seq(Writes),
         Ordered(s), Ordered(r), Away(Elems(s), Elems(r))
  PROVE  Ordered(s \o r)
<1>. SUFFICES ASSUME NEW i \in 1 .. Len(s \o r), NEW j \in 1 .. Len(s \o r), i < j
              PROVE  ~Overlap((s \o r)[i], (s \o r)[j])
  BY Zenon DEF Ordered
<1>1. Len(s \o r) = Len(s) + Len(r) /\ Len(s) \in Nat /\ Len(r) \in Nat
  OBVIOUS
<1>2. CASE j <= Len(s)
  <2>1. /\ i \in 1 .. Len(s) /\ (s \o r)[i] = s[i]
        /\ j \in 1 .. Len(s) /\ (s \o r)[j] = s[j]
    BY <1>1, <1>2
  <2>. QED BY <2>1, Zenon DEF Ordered
<1>3. CASE i <= Len(s) /\ ~(j <= Len(s))
  <2>1. /\ i \in 1 .. Len(s) /\ (s \o r)[i] = s[i]
        /\ j - Len(s) \in 1 .. Len(r) /\ (s \o r)[j] = r[j - Len(s)]
    BY <1>1, <1>3
  <2>2. (s \o r)[i] \in Elems(s) /\ (s \o r)[j] \in Elems(r)
    BY <2>1, Zenon DEF Elems
  <2>. QED BY <2>2, Zenon DEF Away
<1>4. CASE ~(i <= Len(s))
  <2>1. /\ i - Len(s) \in 1 .. Len(r) /\ (s \o r)[i] = r[i - Len(s)]
        /\ j - Len(s) \in 1 .. Len(r) /\ (s \o r)[j] = r[j - Len(s)]
        /\ i - Len(s) < j - Len(s)
    BY <1>1, <1>4
  <2>. QED BY <2>1, Zenon DEF Ordered
<1>5. j <= Len(s) \/ (i <= Len(s) /\ ~(j <= Len(s))) \/ ~(i <= Len(s))
  BY <1>1
<1>. QED BY <1>2, <1>3, <1>4, <1>5, Zenon

\* Writes on the two sides of an address do not meet.
LEMMA SidesAway ==
  ASSUME NEW a, NEW b \in Int, NEW c \in Int, NEW d, b <= c,
         NEW R \in SUBSET Between(a, b), NEW S \in SUBSET Between(c, d)
  PROVE  Away(R, S) /\ Away(S, R)
<1>1. ASSUME NEW v \in R, NEW w \in S PROVE ~Overlap(v, w) /\ ~Overlap(w, v)
  <2>1. v.addr \in Nat /\ v.len \in Nat /\ v.addr + v.len <= b
    BY DEF Between, Writes
  <2>2. w.addr \in Nat /\ w.len \in Nat /\ c <= w.addr
    BY DEF Between, Writes
  <2>. QED BY <2>1, <2>2 DEF Overlap
<1>. QED BY <1>1, Zenon DEF Away

\* A part away from two others is away from the two together.
LEMMA JoinAway ==
  ASSUME NEW s \in Seq(Writes), NEW r \in Seq(Writes), NEW S,
         Away(Elems(s), S), Away(Elems(r), S)
  PROVE  Away(Elems(s \o r), S)
BY JoinElems, Zenon DEF Away

\* A single write.
LEMMA OneWrite ==
  ASSUME NEW w \in Writes
  PROVE  <<w>> \in Seq(Writes) /\ Ordered(<<w>>) /\ \A v : v \in Elems(<<w>>) <=> v = w
<1>1. <<w>> \in Seq(Writes) /\ Len(<<w>>) = 1 /\ <<w>>[1] = w /\ 1 .. 1 = {1}
  OBVIOUS
<1>2. \A v : v \in Elems(<<w>>) <=> v = w
  BY <1>1, Zenon DEF Elems
<1>3. \A i, j \in {1} : ~(i < j)
  OBVIOUS
<1>4. Ordered(<<w>>)
  BY <1>1, <1>3, Zenon DEF Ordered
<1>. QED BY <1>1, <1>2, <1>4, Zenon

\* No write.
LEMMA NoWrite == <<>> \in Seq(Writes) /\ Ordered(<<>>) /\ \A v : ~(v \in Elems(<<>>))
<1>1. <<>> \in Seq(Writes) /\ Len(<<>>) = 0 /\ 1 .. 0 = {}
  OBVIOUS
<1>. QED BY <1>1, Zenon DEF Ordered, Elems

-----------------------------------------------------------------------------
(* The kernel's segments.                                                  *)

\* A segment's two writes fill its place, one after the other.
LEMMA SegmentPlaced ==
  ASSUME NEW seg \in Segments, seg.filesz <= seg.memsz
  PROVE  /\ SegmentWrites(seg) \in Seq(Writes) /\ Ordered(SegmentWrites(seg))
         /\ Elems(SegmentWrites(seg)) \subseteq Between(GuestAddr(seg), SegmentEnd(seg))
         /\ GuestAddr(seg) \in Nat /\ SegmentEnd(seg) \in Nat
<1>. DEFINE a == GuestAddr(seg)
            m == a + seg.filesz
            e == SegmentEnd(seg)
            v == Write("kernel", a, seg.filesz)
            w == Write("kernel", m, seg.memsz - seg.filesz)
            s == IF seg.filesz > 0 THEN <<v>> ELSE <<>>
            r == IF seg.memsz > seg.filesz THEN <<w>> ELSE <<>>
<1>1. a \in Nat /\ seg.filesz \in Nat /\ seg.memsz \in Nat
  BY DEF Segments, GuestAddr
<1>2. m \in Nat /\ e \in Nat /\ e = m + (seg.memsz - seg.filesz) /\ m <= e /\ a <= m
      /\ seg.memsz - seg.filesz \in Nat
  BY <1>1 DEF SegmentEnd
<1>3. v \in Writes /\ v.addr = a /\ v.len = seg.filesz
  <2>. HIDE DEF a
  <2>. QED BY <1>1 DEF Writes, Write
<1>4. w \in Writes /\ w.addr = m /\ w.len = seg.memsz - seg.filesz
  <2>. HIDE DEF a, m
  <2>. QED BY <1>1, <1>2 DEF Writes, Write
<1>5. SegmentWrites(seg) = s \o r
  BY Zenon DEF SegmentWrites
<1>. HIDE DEF a, m, e, v, w
<1>6. v \in Between(a, m) /\ v \in Between(a, e) /\ w \in Between(m, e) /\ w \in Between(a, e)
  BY <1>1, <1>2, <1>3, <1>4 DEF Between, m
<1>7. s \in Seq(Writes) /\ Ordered(s) /\ \A x \in Elems(s) : x = v
  BY <1>3, OneWrite, NoWrite, Zenon
<1>8. r \in Seq(Writes) /\ Ordered(r) /\ \A x \in Elems(r) : x = w
  BY <1>4, OneWrite, NoWrite, Zenon
<1>. HIDE DEF s, r
<1>9. Away(Elems(s), Elems(r))
  <2>1. m \in Int /\ m <= m
    BY <1>2
  <2>2. Elems(s) \in SUBSET Between(a, m) /\ Elems(r) \in SUBSET Between(m, e)
    BY <1>6, <1>7, <1>8, Zenon
  <2>. QED BY <2>1, <2>2, SidesAway, Zenon
<1>10. s \o r \in Seq(Writes) /\ Ordered(s \o r)
  BY <1>7, <1>8, <1>9, JoinElems, JoinOrdered, Zenon
<1>11. Elems(s \o r) \subseteq Between(a, e)
  BY <1>6, <1>7, <1>8, JoinElems, Zenon
<1>. QED BY <1>1, <1>2, <1>5, <1>10, <1>11, Zenon DEF a, e

\* u[n] is what the first n segments write.
WrittenUpTo(u, segs) ==
  /\ u[0] = <<>>
  /\ \A n \in 1 .. Len(segs) : u[n] = u[n - 1] \o SegmentWrites(segs[n])

\* load_into_memory goes from segment to segment.
LEMMA KernelWritesAre ==
  ASSUME LeastNumbers, NEW segs, SegmentsApart(segs)
  PROVE  \E u \in [0 .. Len(segs) -> Seq(Writes)] :
           WrittenUpTo(u, segs) /\ KernelWrites(segs) = u[Len(segs)]
<1>. USE Zenon
<1>. DEFINE N == Len(segs)
            V == Seq(Writes)
            Body(g) == [n \in 0 .. N |->
                          IF n = 0 THEN <<>> ELSE g[n - 1] \o SegmentWrites(segs[n])]
            step == [n \in 1 .. N |-> [a \in V |-> a \o SegmentWrites(segs[n])]]
            u == CHOOSE g : g = Body(g)
<1>1. N \in Nat /\ segs \in Seq(Segments)
  BY SMT DEF SegmentsApart
<1>2. \A n \in 1 .. N : segs[n] \in Segments /\ segs[n].filesz <= segs[n].memsz
  <2>1. \A n \in 1 .. N : segs[n] \in Segments
    BY <1>1, SMT
  <2>. QED BY <2>1 DEF SegmentsApart
<1>3. <<>> \in V
  BY SMT
<1>4. step \in [1 .. N -> [V -> V]]
  <2>1. ASSUME NEW n \in 1 .. N, NEW a \in V PROVE a \o SegmentWrites(segs[n]) \in V
    <3>1. SegmentWrites(segs[n]) \in Seq(Writes)
      BY <1>2, SegmentPlaced
    <3>. QED BY <3>1, JoinElems
  <2>. HIDE DEF N, V
  <2>. QED BY <2>1
<1>. HIDE DEF V
<1>5. PICK f \in [0 .. N -> V] : Rounds(f, N, <<>>, step)
  <2>. HIDE DEF step
  <2>. QED BY <1>1, <1>3, <1>4, LoopRuns
<1>6. f = Body(f)
  <2>1. ASSUME NEW n \in 0 .. N PROVE f[n] = Body(f)[n]
    <3>1. CASE n = 0
      BY <1>5, <3>1 DEF Rounds
    <3>2. CASE n # 0
      <4>1. n \in 1 .. N /\ n - 1 \in 0 .. N
        BY <1>1, <3>2, SMT
      <4>2. f[n] = step[n][f[n - 1]] /\ f[n - 1] \in V
        BY <1>5, <4>1 DEF Rounds
      <4>. HIDE DEF N
      <4>. QED BY <3>2, <4>1, <4>2
    <3>. QED BY <3>1, <3>2
  <2>. HIDE DEF N
  <2>. QED BY <1>5, <2>1
<1>7. u = Body(u)
  <2>. HIDE DEF Body
  <2>. QED BY <1>6
<1>8. KernelWrites(segs) = u[N]
  BY DEF KernelWrites
<1>. HIDE DEF u
<1>9. /\ u[0] = <<>>
      /\ \A n \in 1 .. N : u[n] = u[n - 1] \o SegmentWrites(segs[n])
  <2>1. 0 \in 0 .. N /\ \A n \in 1 .. N : n \in 0 .. N /\ n # 0
    BY <1>1, SMT
  <2>. HIDE DEF N
  <2>. QED BY <1>7, <2>1
<1>10. u = [n \in 0 .. N |-> u[n]]
  <2>. HIDE DEF N
  <2>. QED BY <1>7
<1>11. \A n \in 0 .. N : u[n] \in V
  <2>. DEFINE T == {n \in 0 .. N : u[n] \in V}
  <2>1. 0 \in T
    BY <1>1, <1>3, <1>9, SMT
  <2>2. ASSUME NEW n \in 1 .. N, n - 1 \in T PROVE n \in T
    <3>1. n \in 0 .. N
      BY <1>1, SMT
    <3>2. SegmentWrites(segs[n]) \in V
      BY <1>2, SegmentPlaced DEF V
    <3>3. u[n - 1] \in V
      BY <2>2
    <3>. QED BY <1>9, <3>1, <3>2, <3>3, JoinElems DEF V
  <2>. HIDE DEF T
  <2>3. \A n \in 0 .. N : n \in T
    BY <1>1, <2>1, <2>2, LoopInduction
  <2>. QED BY <2>3 DEF T
<1>12. u \in [0 .. N -> V]
  <2>. HIDE DEF N
  <2>. QED BY <1>10, <1>11
<1>. QED BY <1>8, <1>9, <1>12 DEF WrittenUpTo, V

\* The kernel ends somewhere, and no segment ends above that.
LEMMA KernelEnds ==
  ASSUME LeastNumbers, NEW segs, SegmentsApart(segs), segs # <<>>
  PROVE  /\ \E i \in 1 .. Len(segs) : KernelEnd(segs) = SegmentEnd(segs[i])
         /\ \A i \in 1 .. Len(segs) : SegmentEnd(segs[i]) <= KernelEnd(segs)
         /\ KernelEnd(segs) \in Nat /\ KERNEL_LOAD_ADDR <= KernelEnd(segs)
<1>. USE Zenon
<1>. DEFINE N == Len(segs)
            ends == {SegmentEnd(segs[i]) : i \in 1 .. N}
            T == {n \in 0 .. N : n = 0 \/ \E i \in 1 .. n : \A j \in 1 .. n :
                                            SegmentEnd(segs[j]) <= SegmentEnd(segs[i])}
<1>1. N \in Nat /\ segs \in Seq(Segments) /\ N # 0
  BY SMT DEF SegmentsApart
<1>2. ASSUME NEW n \in 1 .. N
      PROVE  /\ SegmentEnd(segs[n]) \in Nat /\ GuestAddr(segs[n]) \in Nat
             /\ GuestAddr(segs[n]) >= KERNEL_LOAD_ADDR
  <2>1. segs[n] \in Segments
    BY <1>1, SMT
  <2>2. segs[n].filesz <= segs[n].memsz /\ GuestAddr(segs[n]) >= KERNEL_LOAD_ADDR
    BY DEF SegmentsApart
  <2>. QED BY <2>1, <2>2, SegmentPlaced
<1>3. 0 \in T
  BY <1>1, SMT
<1>4. ASSUME NEW n \in 1 .. N, n - 1 \in T PROVE n \in T
  <2>1. n \in 0 .. N /\ n \in 1 .. n
    BY SMT
  <2>2. CASE n - 1 = 0
    <3>1. \A j \in 1 .. n : j = n
      BY <2>2, SMT
    <3>2. SegmentEnd(segs[n]) <= SegmentEnd(segs[n])
      BY <1>2, SMT
    <3>. QED BY <2>1, <3>1, <3>2
  <2>3. CASE n - 1 # 0
    <3>1. PICK i \in 1 .. n - 1 : \A j \in 1 .. n - 1 : SegmentEnd(segs[j]) <= SegmentEnd(segs[i])
      BY <1>4, <2>3
    <3>2. i \in 1 .. N /\ i \in 1 .. n
      BY SMT
    <3>3. \A j \in 1 .. n : j = n \/ j \in 1 .. n - 1
      BY SMT
    <3>4. SegmentEnd(segs[n]) <= SegmentEnd(segs[n]) /\ SegmentEnd(segs[i]) \in Nat
      BY <1>2, <3>2, SMT
    <3>5. CASE SegmentEnd(segs[n]) <= SegmentEnd(segs[i])
      BY <2>1, <3>1, <3>2, <3>3, <3>5
    <3>6. CASE ~(SegmentEnd(segs[n]) <= SegmentEnd(segs[i]))
      <4>1. ASSUME NEW j \in 1 .. n - 1 PROVE SegmentEnd(segs[j]) <= SegmentEnd(segs[n])
        <5>1. j \in 1 .. N
          BY SMT
        <5>2. SegmentEnd(segs[j]) \in Nat /\ SegmentEnd(segs[n]) \in Nat
          BY <1>2, <5>1
        <5>3. SegmentEnd(segs[j]) <= SegmentEnd(segs[i])
          BY <3>1
        <5>. QED BY <3>4, <3>6, <5>2, <5>3, SMT
      <4>. QED BY <2>1, <3>3, <3>4, <4>1
    <3>. QED BY <3>5, <3>6
  <2>. QED BY <2>2, <2>3
<1>5. N \in T
  <2>1. N \in 0 .. N
    BY <1>1, SMT
  <2>. HIDE DEF T
  <2>. QED BY <1>1, <1>3, <1>4, <2>1, LoopInduction
<1>6. PICK i \in 1 .. N : \A j \in 1 .. N : SegmentEnd(segs[j]) <= SegmentEnd(segs[i])
  BY <1>1, <1>5
<1>. HIDE DEF T
<1>7. \E e \in ends : \A f \in ends : f <= e
  BY <1>6
<1>8. KernelEnd(segs) \in ends /\ \A f \in ends : f <= KernelEnd(segs)
  <2>1. KernelEnd(segs) = CHOOSE e \in ends : \A f \in ends : f <= e
    BY DEF KernelEnd
  <2>. HIDE DEF ends
  <2>. QED BY <1>7, <2>1
<1>9. PICK m \in 1 .. N : KernelEnd(segs) = SegmentEnd(segs[m])
  BY <1>8
<1>10. KERNEL_LOAD_ADDR <= SegmentEnd(segs[m])
  <2>1. segs[m] \in Segments /\ GuestAddr(segs[m]) \in Nat /\ KERNEL_LOAD_ADDR <= GuestAddr(segs[m])
    BY <1>1, <1>2, SMT
  <2>2. KERNEL_LOAD_ADDR \in Int
    BY SMT DEF KERNEL_LOAD_ADDR, MiB
  <2>3. segs[m].memsz \in Nat
    BY <2>1 DEF Segments
  <2>. QED BY <2>1, <2>2, <2>3, SMT DEF SegmentEnd
<1>. QED BY <1>2, <1>8, <1>9, <1>10

\* What is loaded of a kernel lies apart, between 1 MiB and the kernel's end.
LEMMA KernelPlaced ==
  ASSUME LeastNumbers, NEW segs, SegmentsApart(segs), segs # <<>>
  PROVE  /\ KernelWrites(segs) \in Seq(Writes) /\ Ordered(KernelWrites(segs))
         /\ Elems(KernelWrites(segs)) \subseteq Between(KERNEL_LOAD_ADDR, KernelEnd(segs))
<1>. USE Zenon
<1>. DEFINE N == Len(segs)
            Place(m) == Between(GuestAddr(segs[m]), SegmentEnd(segs[m]))
<1>1. N \in Nat /\ segs \in Seq(Segments)
  BY SMT DEF SegmentsApart
<1>2. ASSUME NEW n \in 1 .. N
      PROVE  /\ SegmentWrites(segs[n]) \in Seq(Writes) /\ Ordered(SegmentWrites(segs[n]))
             /\ Elems(SegmentWrites(segs[n])) \subseteq Place(n)
             /\ GuestAddr(segs[n]) \in Nat /\ SegmentEnd(segs[n]) \in Nat
  <2>1. segs[n] \in Segments
    BY <1>1, SMT
  <2>2. segs[n].filesz <= segs[n].memsz
    BY DEF SegmentsApart
  <2>. QED BY <2>1, <2>2, SegmentPlaced
<1>3. PICK u \in [0 .. N -> Seq(Writes)] : WrittenUpTo(u, segs) /\ KernelWrites(segs) = u[N]
  BY KernelWritesAre
<1>. DEFINE T == {n \in 0 .. N : Ordered(u[n]) /\ \A w \in Elems(u[n]) : \E m \in 1 .. n : w \in Place(m)}
<1>4. 0 \in T
  <2>1. 0 \in 0 .. N
    BY <1>1, SMT
  <2>. QED BY <1>3, <2>1, NoWrite DEF WrittenUpTo
<1>5. ASSUME NEW n \in 1 .. N, n - 1 \in T PROVE n \in T
  <2>1. n \in 0 .. N /\ n \in 1 .. n /\ n - 1 \in 0 .. N /\ \A m \in 1 .. n - 1 : m \in 1 .. n /\ m \in 1 .. N /\ m < n
    BY SMT
  <2>. DEFINE r == SegmentWrites(segs[n])
              s == u[n - 1]
  <2>2. s \in Seq(Writes) /\ r \in Seq(Writes) /\ Ordered(s) /\ Ordered(r) /\ u[n] = s \o r
    BY <1>2, <1>3, <1>5, <2>1 DEF WrittenUpTo
  <2>3. \A w \in Elems(s) : \E m \in 1 .. n - 1 : w \in Place(m)
    BY <1>5
  <2>4. Elems(r) \subseteq Place(n)
    BY <1>2
  <2>. HIDE DEF r, s
  <2>5. ASSUME NEW m \in 1 .. n - 1 PROVE Away(Place(m), Place(n))
    <3>1. m \in 1 .. N /\ m < n
      BY <2>1
    <3>2. SegmentEnd(segs[m]) <= GuestAddr(segs[n]) \/ SegmentEnd(segs[n]) <= GuestAddr(segs[m])
      BY <3>1 DEF SegmentsApart
    <3>3. /\ SegmentEnd(segs[m]) \in Int /\ GuestAddr(segs[m]) \in Int
          /\ SegmentEnd(segs[n]) \in Int /\ GuestAddr(segs[n]) \in Int
      BY <1>2, <3>1, SMT
    <3>. QED BY <3>2, <3>3, SidesAway
  <2>6. Away(Elems(s), Elems(r))
    <3>. HIDE DEF Place
    <3>. QED BY <2>3, <2>4, <2>5 DEF Away
  <2>7. Ordered(s \o r)
    BY <2>2, <2>6, JoinOrdered
  <2>8. \A w \in Elems(s \o r) : \E m \in 1 .. n : w \in Place(m)
    <3>. HIDE DEF Place
    <3>. QED BY <2>1, <2>2, <2>3, <2>4, JoinElems
  <2>. QED BY <2>1, <2>2, <2>7, <2>8
<1>6. N \in T
  <2>1. N \in 0 .. N
    BY <1>1, SMT
  <2>. HIDE DEF T
  <2>. QED BY <1>1, <1>4, <1>5, <2>1, LoopInduction
<1>7. ASSUME NEW m \in 1 .. N PROVE Place(m) \subseteq Between(KERNEL_LOAD_ADDR, KernelEnd(segs))
  <2>1. KERNEL_LOAD_ADDR <= GuestAddr(segs[m]) /\ SegmentEnd(segs[m]) <= KernelEnd(segs)
    <3>1. GuestAddr(segs[m]) >= KERNEL_LOAD_ADDR
      BY DEF SegmentsApart
    <3>. QED BY <3>1, KernelEnds, SMT
  <2>2. KERNEL_LOAD_ADDR \in Int
    BY SMT DEF KERNEL_LOAD_ADDR, MiB
  <2>3. GuestAddr(segs[m]) \in Nat /\ SegmentEnd(segs[m]) \in Nat /\ KernelEnd(segs) \in Nat
    BY <1>2, KernelEnds
  <2>4. ASSUME NEW w \in Place(m) PROVE w \in Between(KERNEL_LOAD_ADDR, KernelEnd(segs))
    <3>1. w \in Writes /\ GuestAddr(segs[m]) <= w.addr /\ w.addr + w.len <= SegmentEnd(segs[m])
      BY DEF Between
    <3>2. w.addr \in Nat /\ w.len \in Nat
      BY <3>1 DEF Writes
    <3>3. KERNEL_LOAD_ADDR <= w.addr /\ w.addr + w.len <= KernelEnd(segs)
      BY <2>1, <2>2, <2>3, <3>1, <3>2, SMT
    <3>. QED BY <3>1, <3>3 DEF Between
  <2>. QED BY <2>4
<1>. QED BY <1>1, <1>3, <1>6, <1>7

-----------------------------------------------------------------------------
(* The rest of the image.                                                  *)

GdtEnd == GDT_ADDR + 3 * 8
ZeroPageEnd == ZERO_PAGE_ADDR + 4096
TablesEnd == PD_ADDR + 512 * 8
CmdlineEnd == CMDLINE_ADDR + CMDLINE_MAX_SIZE
LowRam == \h9FC00

\* The fixed addresses, from the GDT up to the kernel.
LEMMA Addresses ==
  /\ GDT_ADDR \in Nat /\ GdtEnd \in Nat /\ ZERO_PAGE_ADDR \in Nat /\ ZeroPageEnd \in Nat
  /\ PAGE_TABLE_ADDR \in Nat /\ TablesEnd \in Nat /\ CMDLINE_ADDR \in Nat /\ CmdlineEnd \in Nat
  /\ LowRam \in Nat /\ KERNEL_LOAD_ADDR \in Nat /\ INITRD_ADDR \in Nat
  /\ GdtEnd <= ZERO_PAGE_ADDR /\ ZeroPageEnd <= PAGE_TABLE_ADDR /\ TablesEnd <= CMDLINE_ADDR
  /\ CmdlineEnd <= LowRam /\ LowRam <= KERNEL_LOAD_ADDR /\ KERNEL_LOAD_ADDR <= INITRD_ADDR
  /\ GDT_ADDR <= GdtEnd /\ ZERO_PAGE_ADDR <= ZeroPageEnd /\ PAGE_TABLE_ADDR <= TablesEnd
  /\ CMDLINE_ADDR <= CmdlineEnd
BY SMT DEF GDT_ADDR, GdtEnd, ZERO_PAGE_ADDR, ZeroPageEnd, PAGE_TABLE_ADDR, TablesEnd, PD_ADDR,
           CMDLINE_ADDR, CmdlineEnd, CMDLINE_MAX_SIZE, LowRam, KERNEL_LOAD_ADDR, INITRD_ADDR, MiB

\* setup_page_tables, write_gdt and the boot parameters.
LEMMA TablesPlaced ==
  PageTables \in Seq(Writes) /\ Ordered(PageTables)
  /\ Elems(PageTables) \subseteq Between(PAGE_TABLE_ADDR, TablesEnd)
<1>. USE Zenon
<1>. DEFINE a == Write("pml4", PAGE_TABLE_ADDR, 8)
            b == Write("pdpt", PDPT_ADDR, 8)
            c == Write("pd", PD_ADDR, 512 * 8)
<1>1. /\ a \in Between(PAGE_TABLE_ADDR, TablesEnd)
      /\ b \in Between(PAGE_TABLE_ADDR, TablesEnd)
      /\ c \in Between(PAGE_TABLE_ADDR, TablesEnd)
  BY SMT DEF Write, Writes, Between, PAGE_TABLE_ADDR, PDPT_ADDR, PD_ADDR, TablesEnd
<1>2. ~Overlap(a, b) /\ ~Overlap(a, c) /\ ~Overlap(b, c)
  BY SMT DEF Write, Overlap, PAGE_TABLE_ADDR, PDPT_ADDR, PD_ADDR
<1>3. PageTables = <<a, b, c>>
  BY SMT DEF PageTables
<1>. HIDE DEF a, b, c
<1>4. a \in Writes /\ b \in Writes /\ c \in Writes
  BY <1>1 DEF Between
<1>5. PageTables \in Seq(Writes) /\ Len(PageTables) = 3
      /\ PageTables[1] = a /\ PageTables[2] = b /\ PageTables[3] = c
  BY <1>3, <1>4, SMT
<1>6. \A i \in 1 .. 3 : i = 1 \/ i = 2 \/ i = 3
  BY SMT
<1>7. ASSUME NEW i \in 1 .. 3, NEW j \in 1 .. 3, i < j PROVE ~Overlap(PageTables[i], PageTables[j])
  <2>1. (i = 1 /\ j = 2) \/ (i = 1 /\ j = 3) \/ (i = 2 /\ j = 3)
    BY <1>7, SMT
  <2>. QED BY <1>2, <1>5, <2>1
<1>8. Ordered(PageTables)
  BY <1>5, <1>7 DEF Ordered
<1>9. Elems(PageTables) \subseteq Between(PAGE_TABLE_ADDR, TablesEnd)
  BY <1>1, <1>5, <1>6 DEF Elems
<1>. QED BY <1>5, <1>8, <1>9

\* A single write between two addresses.
LEMMA OnePlaced ==
  ASSUME NEW what, NEW addr \in Nat, NEW len \in Nat, NEW hi \in Int, addr + len <= hi,
         what \in {"kernel", "pml4", "pdpt", "pd", "gdt", "cmdline", "initrd", "zero_page"}
  PROVE  /\ <<Write(what, addr, len)>> \in Seq(Writes) /\ Ordered(<<Write(what, addr, len)>>)
         /\ Elems(<<Write(what, addr, len)>>) \subseteq Between(addr, hi)
<1>. DEFINE w == Write(what, addr, len)
<1>1. w \in Writes /\ w.addr = addr /\ w.len = len
  BY DEF Writes, Write
<1>2. addr <= addr
  OBVIOUS
<1>. HIDE DEF w
<1>3. w \in Between(addr, hi)
  BY <1>1, <1>2 DEF Between
<1>. QED BY <1>1, <1>3, OneWrite, Zenon DEF w

\* write_gdt's three descriptors.
LEMMA GdtPlaced ==
  Gdt \in Seq(Writes) /\ Ordered(Gdt) /\ Elems(Gdt) \subseteq Between(GDT_ADDR, GdtEnd)
<1>1. 3 * 8 \in Nat /\ GDT_ADDR + 3 * 8 <= GdtEnd /\ GdtEnd \in Int
  BY Addresses, SMT DEF GdtEnd
<1>. QED BY <1>1, Addresses, OnePlaced, Zenon DEF Gdt

\* The boot parameters, one page.
LEMMA ZeroPagePlaced ==
  /\ ZeroPage \in Seq(Writes) /\ Ordered(ZeroPage)
  /\ Elems(ZeroPage) \subseteq Between(ZERO_PAGE_ADDR, ZeroPageEnd)
<1>. DEFINE size == ZeroPageEnd - ZERO_PAGE_ADDR
<1>1. size \in Nat /\ ZERO_PAGE_ADDR + size <= ZeroPageEnd /\ ZeroPageEnd \in Int
  BY Addresses, SMT
<1>2. ZeroPage = <<Write("zero_page", ZERO_PAGE_ADDR, size)>>
  BY Addresses, SMT DEF ZeroPage, ZeroPageEnd
<1>. HIDE DEF size
<1>. QED BY <1>1, <1>2, Addresses, OnePlaced, Zenon

\* The command line and its terminator, for one that is not too long.
LEMMA CmdlinePlaced ==
  ASSUME NEW cfg, cfg.cmdline \in Nat, cfg.cmdline < CMDLINE_MAX_SIZE
  PROVE  /\ <<CmdlineWrite(cfg)>> \in Seq(Writes) /\ Ordered(<<CmdlineWrite(cfg)>>)
         /\ Elems(<<CmdlineWrite(cfg)>>) \subseteq Between(CMDLINE_ADDR, CmdlineEnd)
<1>1. /\ cfg.cmdline + 1 \in Nat /\ CmdlineEnd \in Int
      /\ CMDLINE_ADDR + (cfg.cmdline + 1) <= CmdlineEnd
  BY Addresses, SMT DEF CmdlineEnd, CMDLINE_MAX_SIZE
<1>. QED BY <1>1, Addresses, OnePlaced, Zenon DEF CmdlineWrite

\* The initrd, if there is one.
LEMMA InitrdPlaced ==
  ASSUME NEW cfg, cfg.initrd \in Nat, NEW addr \in Nat
  PROVE  /\ InitrdWrites(cfg, addr) \in Seq(Writes) /\ Ordered(InitrdWrites(cfg, addr))
         /\ Elems(InitrdWrites(cfg, addr)) \subseteq Between(addr, addr + cfg.initrd)
<1>1. addr + cfg.initrd \in Int /\ addr + cfg.initrd <= addr + cfg.initrd
  OBVIOUS
<1>. QED BY <1>1, OnePlaced, NoWrite, Zenon DEF InitrdWrites

\* A build writes its parts one after the other.
LEMMA FourParts ==
  ASSUME NEW p \in Seq(Writes), NEW q \in Seq(Writes), NEW r \in Seq(Writes), NEW s \in Seq(Writes),
         Ordered(p), Ordered(q), Ordered(r), Ordered(s),
         Away(Elems(p), Elems(q)), Away(Elems(p), Elems(r)), Away(Elems(q), Elems(r)),
         Away(Elems(p), Elems(s)), Away(Elems(q), Elems(s)), Away(Elems(r), Elems(s))
  PROVE  /\ ((p \o q) \o r) \o s \in Seq(Writes) /\ Ordered(((p \o q) \o r) \o s)
         /\ \A w : w \in Elems(((p \o q) \o r) \o s)
                   <=> w \in Elems(p) \/ w \in Elems(q) \/ w \in Elems(r) \/ w \in Elems(s)
<1>. USE Zenon
<1>1. p \o q \in Seq(Writes) /\ Ordered(p \o q)
  BY JoinElems, JoinOrdered
<1>2. Away(Elems(p \o q), Elems(r)) /\ Away(Elems(p \o q), Elems(s))
  BY JoinAway
<1>3. (p \o q) \o r \in Seq(Writes) /\ Ordered((p \o q) \o r)
  BY <1>1, <1>2, JoinElems, JoinOrdered
<1>4. Away(Elems((p \o q) \o r), Elems(s))
  BY <1>1, <1>2, JoinAway
<1>5. ((p \o q) \o r) \o s \in Seq(Writes) /\ Ordered(((p \o q) \o r) \o s)
  BY <1>3, <1>4, JoinElems, JoinOrdered
<1>6. \A w : w \in Elems(p \o q) <=> w \in Elems(p) \/ w \in Elems(q)
  BY JoinElems
<1>7. \A w : w \in Elems((p \o q) \o r) <=> w \in Elems(p \o q) \/ w \in Elems(r)
  BY <1>1, JoinElems
<1>8. \A w : w \in Elems(((p \o q) \o r) \o s) <=> w \in Elems((p \o q) \o r) \/ w \in Elems(s)
  BY <1>3, JoinElems
<1>. QED BY <1>5, <1>6, <1>7, <1>8

-----------------------------------------------------------------------------
(* The two images.                                                         *)

\* The initrd goes above the kernel.
LEMMA InitrdAbove ==
  ASSUME NEW segs, KernelEnd(segs) \in Nat
  PROVE  InitrdAddr(segs) \in Nat /\ KernelEnd(segs) <= InitrdAddr(segs)
BY SMT DEF InitrdAddr, MiB

\* What a configuration has to say about command line and initrd.
Sized(cfg) == cfg.cmdline \in Nat /\ cfg.cmdline < CMDLINE_MAX_SIZE /\ cfg.initrd \in Nat

\* Below the hole of the memory map, or above it.
LowOrHigh(w) == w.addr + w.len <= LowRam \/ KERNEL_LOAD_ADDR <= w.addr

\* What lies between two addresses is below the hole if they are, ...
LEMMA IsLow ==
  ASSUME NEW a, NEW b \in Int, b <= LowRam, NEW w \in Between(a, b) PROVE LowOrHigh(w)
<1>1. w.addr \in Nat /\ w.len \in Nat /\ w.addr + w.len <= b
  BY DEF Between, Writes
<1>. QED BY <1>1, Addresses DEF LowOrHigh

\* ... or above it.
LEMMA IsHigh ==
  ASSUME NEW a \in Int, NEW b, KERNEL_LOAD_ADDR <= a, NEW w \in Between(a, b) PROVE LowOrHigh(w)
<1>1. w.addr \in Nat /\ a <= w.addr
  BY DEF Between, Writes
<1>. QED BY <1>1, Addresses DEF LowOrHigh

\* build_elf's writes lie apart.
LEMMA ElfParts ==
  ASSUME LeastNumbers, NEW cfg, Sized(cfg), NEW segs, SegmentsApart(segs), segs # <<>>
  PROVE  /\ ElfWrites(cfg, segs) \in Seq(Writes) /\ Ordered(ElfWrites(cfg, segs))
         /\ \A w : w \in Elems(ElfWrites(cfg, segs)) <=>
              \/ w \in Elems(KernelWrites(segs)) \/ w \in Elems(PageTables) \/ w \in Elems(Gdt)
              \/ w \in Elems(<<CmdlineWrite(cfg)>>)
              \/ w \in Elems(InitrdWrites(cfg, InitrdAddr(segs))) \/ w \in Elems(ZeroPage)
         /\ \A w \in Elems(ElfWrites(cfg, segs)) : w \in Writes /\ LowOrHigh(w)
<1>. USE Zenon
<1>. DEFINE ke == KernelEnd(segs)
            ia == InitrdAddr(segs)
            ie == ia + cfg.initrd
            k == KernelWrites(segs)
            p == PageTables
            g == Gdt
            c == <<CmdlineWrite(cfg)>>
            i == InitrdWrites(cfg, ia)
            z == ZeroPage
<1>1. ke \in Nat /\ KERNEL_LOAD_ADDR <= ke
  BY KernelEnds
<1>2. ia \in Nat /\ ke <= ia
  BY <1>1, InitrdAbove
<1>3. ElfWrites(cfg, segs) = ((((k \o p) \o g) \o c) \o i) \o z
  BY DEF ElfWrites
<1>4. /\ k \in Seq(Writes) /\ Ordered(k) /\ Elems(k) \subseteq Between(KERNEL_LOAD_ADDR, ke)
      /\ p \in Seq(Writes) /\ Ordered(p) /\ Elems(p) \subseteq Between(PAGE_TABLE_ADDR, TablesEnd)
      /\ g \in Seq(Writes) /\ Ordered(g) /\ Elems(g) \subseteq Between(GDT_ADDR, GdtEnd)
      /\ z \in Seq(Writes) /\ Ordered(z) /\ Elems(z) \subseteq Between(ZERO_PAGE_ADDR, ZeroPageEnd)
  BY KernelPlaced, TablesPlaced, GdtPlaced, ZeroPagePlaced
<1>5. c \in Seq(Writes) /\ Ordered(c) /\ Elems(c) \subseteq Between(CMDLINE_ADDR, CmdlineEnd)
  BY CmdlinePlaced DEF Sized
<1>6. i \in Seq(Writes) /\ Ordered(i) /\ Elems(i) \subseteq Between(ia, ie)
  BY <1>2, InitrdPlaced DEF Sized
<1>7. ie \in Int
  BY <1>2, SMT DEF Sized
<1>. HIDE DEF ke, ia, ie, k, p, g, c, i, z
<1>8. /\ GdtEnd <= PAGE_TABLE_ADDR /\ GdtEnd <= CMDLINE_ADDR /\ ZeroPageEnd <= CMDLINE_ADDR
      /\ GdtEnd <= KERNEL_LOAD_ADDR /\ ZeroPageEnd <= KERNEL_LOAD_ADDR
      /\ TablesEnd <= KERNEL_LOAD_ADDR /\ CmdlineEnd <= KERNEL_LOAD_ADDR
      /\ GdtEnd <= ia /\ ZeroPageEnd <= ia /\ TablesEnd <= ia /\ CmdlineEnd <= ia
      /\ KERNEL_LOAD_ADDR <= ia /\ GdtEnd <= LowRam /\ ZeroPageEnd <= LowRam
      /\ TablesEnd <= LowRam /\ KERNEL_LOAD_ADDR <= KERNEL_LOAD_ADDR
  BY <1>1, <1>2, Addresses, SMT
<1>9. /\ GDT_ADDR \in Int /\ GdtEnd \in Int /\ ZERO_PAGE_ADDR \in Int /\ ZeroPageEnd \in Int
      /\ PAGE_TABLE_ADDR \in Int /\ TablesEnd \in Int /\ CMDLINE_ADDR \in Int /\ CmdlineEnd \in Int
      /\ KERNEL_LOAD_ADDR \in Int /\ ke \in Int /\ ia \in Int
      /\ GdtEnd <= ZERO_PAGE_ADDR /\ ZeroPageEnd <= PAGE_TABLE_ADDR /\ TablesEnd <= CMDLINE_ADDR
      /\ CmdlineEnd <= LowRam
  BY <1>1, <1>2, Addresses, SMT
<1>10. /\ Away(Elems(k), Elems(p)) /\ Away(Elems(k), Elems(g)) /\ Away(Elems(k), Elems(c))
       /\ Away(Elems(k), Elems(z)) /\ Away(Elems(k), Elems(i))
  <2>1. Away(Elems(k), Elems(p))
    BY <1>4, <1>8, <1>9, SidesAway, ZenonT(40)
  <2>2. Away(Elems(k), Elems(g))
    BY <1>4, <1>8, <1>9, SidesAway, ZenonT(40)
  <2>3. Away(Elems(k), Elems(c))
    BY <1>4, <1>5, <1>8, <1>9, SidesAway, ZenonT(40)
  <2>4. Away(Elems(k), Elems(z))
    BY <1>4, <1>8, <1>9, SidesAway
  <2>5. Away(Elems(k), Elems(i))
    BY <1>2, <1>4, <1>6, <1>9, SidesAway, ZenonT(40)
  <2>. QED BY <2>1, <2>2, <2>3, <2>4, <2>5
<1>11. /\ Away(Elems(p), Elems(g)) /\ Away(Elems(p), Elems(c)) /\ Away(Elems(p), Elems(i))
       /\ Away(Elems(p), Elems(z))
  <2>1. Away(Elems(p), Elems(g))
    BY <1>4, <1>8, <1>9, SidesAway, ZenonT(40)
  <2>2. Away(Elems(p), Elems(c))
    BY <1>4, <1>5, <1>9, SidesAway, ZenonT(40)
  <2>3. Away(Elems(p), Elems(i))
    <3>1. TablesEnd \in Int /\ ia \in Int /\ TablesEnd <= ia
      BY <1>8, <1>9
    <3>2. Elems(p) \in SUBSET Between(PAGE_TABLE_ADDR, TablesEnd) /\ Elems(i) \in SUBSET Between(ia, ie)
      BY <1>4, <1>6
    <3>. QED BY <3>1, <3>2, SidesAway
  <2>4. Away(Elems(p), Elems(z))
    BY <1>4, <1>9, SidesAway, ZenonT(40)
  <2>. QED BY <2>1, <2>2, <2>3, <2>4
<1>12. /\ Away(Elems(g), Elems(c)) /\ Away(Elems(g), Elems(i)) /\ Away(Elems(g), Elems(z))
       /\ Away(Elems(c), Elems(i)) /\ Away(Elems(c), Elems(z)) /\ Away(Elems(i), Elems(z))
  <2>1. Away(Elems(g), Elems(c))
    BY <1>4, <1>5, <1>8, <1>9, SidesAway, ZenonT(40)
  <2>2. Away(Elems(g), Elems(i))
    <3>1. GdtEnd \in Int /\ ia \in Int /\ GdtEnd <= ia
      BY <1>8, <1>9
    <3>2. Elems(g) \in SUBSET Between(GDT_ADDR, GdtEnd) /\ Elems(i) \in SUBSET Between(ia, ie)
      BY <1>4, <1>6
    <3>. QED BY <3>1, <3>2, SidesAway
  <2>3. Away(Elems(g), Elems(z))
    BY <1>4, <1>9, SidesAway, ZenonT(40)
  <2>4. Away(Elems(c), Elems(i))
    <3>1. CmdlineEnd \in Int /\ ia \in Int /\ CmdlineEnd <= ia
      BY <1>8, <1>9
    <3>2. Elems(c) \in SUBSET Between(CMDLINE_ADDR, CmdlineEnd) /\ Elems(i) \in SUBSET Between(ia, ie)
      BY <1>5, <1>6
    <3>. QED BY <3>1, <3>2, SidesAway
  <2>5. Away(Elems(c), Elems(z))
    BY <1>4, <1>5, <1>8, <1>9, SidesAway, ZenonT(40)
  <2>6. Away(Elems(i), Elems(z))
    <3>1. ZeroPageEnd \in Int /\ ia \in Int /\ ZeroPageEnd <= ia
      BY <1>8, <1>9
    <3>2. Elems(z) \in SUBSET Between(ZERO_PAGE_ADDR, ZeroPageEnd) /\ Elems(i) \in SUBSET Between(ia, ie)
      BY <1>4, <1>6
    <3>. QED BY <3>1, <3>2, SidesAway
  <2>. QED BY <2>1, <2>2, <2>3, <2>4, <2>5, <2>6
<1>. DEFINE f == ((k \o p) \o g) \o c
<1>13. /\ f \in Seq(Writes) /\ Ordered(f)
       /\ \A w : w \in Elems(f) <=> w \in Elems(k) \/ w \in Elems(p) \/ w \in Elems(g) \/ w \in Elems(c)
  BY <1>4, <1>5, <1>10, <1>11, <1>12, FourParts
<1>. HIDE DEF f
<1>14. Away(Elems(f), Elems(i)) /\ Away(Elems(f), Elems(z))
  BY <1>10, <1>11, <1>12, <1>13 DEF Away
<1>15. f \o i \in Seq(Writes) /\ Ordered(f \o i)
       /\ \A w : w \in Elems(f \o i) <=> w \in Elems(f) \/ w \in Elems(i)
  BY <1>6, <1>13, <1>14, JoinElems, JoinOrdered
<1>16. Away(Elems(f \o i), Elems(z))
  BY <1>12, <1>14, <1>15 DEF Away
<1>17. (f \o i) \o z \in Seq(Writes) /\ Ordered((f \o i) \o z)
       /\ \A w : w \in Elems((f \o i) \o z) <=> w \in Elems(f \o i) \/ w \in Elems(z)
  BY <1>4, <1>15, <1>16, JoinElems, JoinOrdered
<1>18. ElfWrites(cfg, segs) = (f \o i) \o z
  BY <1>3 DEF f
<1>19. /\ \A w \in Elems(k) : w \in Writes /\ LowOrHigh(w)
       /\ \A w \in Elems(i) : w \in Writes /\ LowOrHigh(w)
  <2>1. \A w \in Between(KERNEL_LOAD_ADDR, ke) : w \in Writes /\ LowOrHigh(w)
    BY <1>8, <1>9, IsHigh DEF Between
  <2>2. \A w \in Between(ia, ie) : w \in Writes /\ LowOrHigh(w)
    BY <1>8, <1>9, IsHigh DEF Between
  <2>. QED BY <1>4, <1>6, <2>1, <2>2
<1>20. /\ \A w \in Elems(p) : w \in Writes /\ LowOrHigh(w)
       /\ \A w \in Elems(g) : w \in Writes /\ LowOrHigh(w)
       /\ \A w \in Elems(c) : w \in Writes /\ LowOrHigh(w)
       /\ \A w \in Elems(z) : w \in Writes /\ LowOrHigh(w)
  <2>1. \A a : \A b \in Int : b <= LowRam => \A w \in Between(a, b) : w \in Writes /\ LowOrHigh(w)
    BY IsLow DEF Between
  <2>. QED BY <1>4, <1>5, <1>8, <1>9, <2>1
<1>21. \A w : w \in Elems((f \o i) \o z) <=>
         \/ w \in Elems(k) \/ w \in Elems(p) \/ w \in Elems(g) \/ w \in Elems(c)
         \/ w \in Elems(i) \/ w \in Elems(z)
  BY <1>13, <1>15, <1>17
<1>22. \A w \in Elems((f \o i) \o z) : w \in Writes /\ LowOrHigh(w)
  BY <1>19, <1>20, <1>21
<1>. QED BY <1>17, <1>18, <1>21, <1>22 DEF k, p, g, c, i, ia, z

\* What the guest has room for, and is told of, is in RAM.
LEMMA IsInRam ==
  ASSUME NEW mem \in Nat, NEW w \in Writes, LowOrHigh(w), InBounds(mem, w)
  PROVE  InRam(mem, w)
<1>1. w.addr \in Nat /\ w.len \in Nat
  BY DEF Writes
<1>2. w.addr < mem /\ w.addr + w.len <= mem
  BY Zenon DEF InBounds
<1>3. E820(mem)[1].addr = 0 /\ E820(mem)[1].size = LowRam
  BY SMT DEF E820, LowRam
<1>4. /\ E820(mem)[2].addr = KERNEL_LOAD_ADDR
      /\ E820(mem)[2].size = IF mem > KERNEL_LOAD_ADDR THEN mem - KERNEL_LOAD_ADDR ELSE 0
  BY SMT DEF E820, KERNEL_LOAD_ADDR, MiB
<1>5. CASE w.addr + w.len <= LowRam
  <2>1. /\ E820(mem)[1].addr <= w.addr
        /\ w.addr + w.len <= E820(mem)[1].addr + E820(mem)[1].size
    BY <1>1, <1>3, <1>5, Addresses, SMT
  <2>2. 1 \in 1 .. 2
    BY SMT
  <2>. QED BY <2>1, <2>2, Zenon DEF InRam
<1>6. CASE KERNEL_LOAD_ADDR <= w.addr
  <2>1. /\ E820(mem)[2].addr <= w.addr
        /\ w.addr + w.len <= E820(mem)[2].addr + E820(mem)[2].size
    BY <1>1, <1>2, <1>4, <1>6, Addresses, SMT
  <2>2. 2 \in 1 .. 2
    BY SMT
  <2>. QED BY <2>1, <2>2, Zenon DEF InRam
<1>. QED BY <1>5, <1>6, Zenon DEF LowOrHigh

\* Writes that lie apart and in bounds are as ImagesApart has them.
LEMMA IsApart ==
  ASSUME NEW mem \in Nat, NEW s, Ordered(s), \A w \in Elems(s) : w \in Writes /\ LowOrHigh(w),
         \A i \in 1 .. Len(s) : InBounds(mem, s[i])
  PROVE  Apart(mem, s)
<1>1. ASSUME NEW i \in 1 .. Len(s) PROVE InRam(mem, s[i])
  <2>1. s[i] \in Elems(s)
    BY Zenon DEF Elems
  <2>. QED BY <2>1, IsInRam, Zenon
<1>. QED BY <1>1, Zenon DEF Apart, Ordered

\* A register points at the write it is for.
LEMMA PointsTo ==
  ASSUME NEW s, NEW w \in Elems(s)
  PROVE  \E i \in 1 .. Len(s) : s[i].what = w.what /\ s[i].addr = w.addr
BY Zenon DEF Elems

\* build_elf's registers.
LEMMA ElfPoints ==
  ASSUME LeastNumbers, NEW cfg, Sized(cfg), NEW segs, SegmentsApart(segs), segs # <<>>
  PROVE  PointsAt(LongModeEntry, ElfWrites(cfg, segs))
<1>. USE Zenon
<1>. DEFINE s == ElfWrites(cfg, segs)
            a == PageTables[1]
            b == Gdt[1]
            c == ZeroPage[1]
<1>1. a.what = "pml4" /\ a.addr = PAGE_TABLE_ADDR /\ 1 \in 1 .. Len(PageTables)
  BY SMT DEF PageTables, Write
<1>2. b.what = "gdt" /\ b.addr = GDT_ADDR /\ 1 \in 1 .. Len(Gdt)
  BY SMT DEF Gdt, Write
<1>3. c.what = "zero_page" /\ c.addr = ZERO_PAGE_ADDR /\ 1 \in 1 .. Len(ZeroPage)
  BY SMT DEF ZeroPage, Write
<1>4. a \in Elems(PageTables) /\ b \in Elems(Gdt) /\ c \in Elems(ZeroPage)
  BY <1>1, <1>2, <1>3 DEF Elems
<1>. HIDE DEF a, b, c
<1>5. a \in Elems(s) /\ b \in Elems(s) /\ c \in Elems(s)
  BY <1>4, ElfParts
<1>. HIDE DEF s
<1>6. /\ \E i \in 1 .. Len(s) : s[i].what = "pml4" /\ s[i].addr = PAGE_TABLE_ADDR
      /\ \E i \in 1 .. Len(s) : s[i].what = "gdt" /\ s[i].addr = GDT_ADDR
      /\ \E i \in 1 .. Len(s) : s[i].what = "zero_page" /\ s[i].addr = ZERO_PAGE_ADDR
  <2>1. \E i \in 1 .. Len(s) : s[i].what = a.what /\ s[i].addr = a.addr
    BY <1>5, PointsTo
  <2>2. \E i \in 1 .. Len(s) : s[i].what = b.what /\ s[i].addr = b.addr
    BY <1>5, PointsTo
  <2>3. \E i \in 1 .. Len(s) : s[i].what = c.what /\ s[i].addr = c.addr
    BY <1>5, PointsTo
  <2>. QED BY <1>1, <1>2, <1>3, <2>1, <2>2, <2>3
<1>7. \A r \in LongModeEntry : \/ r[1] = "pml4" /\ r[2] = PAGE_TABLE_ADDR
                               \/ r[1] = "gdt" /\ r[2] = GDT_ADDR
                               \/ r[1] = "zero_page" /\ r[2] = ZERO_PAGE_ADDR
  BY SMT DEF LongModeEntry
<1>. QED BY <1>6, <1>7 DEF PointsAt, s

\* build_bzimage's writes lie apart if the code ends below the initrd, and
\* its registers point at the code and the boot parameters.
LEMMA BzParts ==
  ASSUME NEW cfg, Sized(cfg), NEW k, KernelCode(k) \in Nat,
         KERNEL_LOAD_ADDR + KernelCode(k) <= INITRD_ADDR
  PROVE  /\ Ordered(BzWrites(cfg, k))
         /\ \A w \in Elems(BzWrites(cfg, k)) : w \in Writes /\ LowOrHigh(w)
         /\ PointsAt(ProtectedEntry, BzWrites(cfg, k))
<1>. USE Zenon
<1>. DEFINE ke == KERNEL_LOAD_ADDR + KernelCode(k)
            ie == INITRD_ADDR + cfg.initrd
            w1 == Write("kernel", KERNEL_LOAD_ADDR, KernelCode(k))
            c == <<CmdlineWrite(cfg)>>
            i == InitrdWrites(cfg, INITRD_ADDR)
            n == <<w1>>
            z == ZeroPage
            s == ((c \o i) \o n) \o z
<1>1. ke \in Int /\ ke <= ke /\ ie \in Int
  BY Addresses, SMT DEF Sized
<1>2. c \in Seq(Writes) /\ Ordered(c) /\ Elems(c) \subseteq Between(CMDLINE_ADDR, CmdlineEnd)
  BY CmdlinePlaced DEF Sized
<1>3. i \in Seq(Writes) /\ Ordered(i) /\ Elems(i) \subseteq Between(INITRD_ADDR, ie)
  BY Addresses, InitrdPlaced DEF Sized
<1>4. n \in Seq(Writes) /\ Ordered(n) /\ Elems(n) \subseteq Between(KERNEL_LOAD_ADDR, ke)
  BY <1>1, Addresses, OnePlaced
<1>5. z \in Seq(Writes) /\ Ordered(z) /\ Elems(z) \subseteq Between(ZERO_PAGE_ADDR, ZeroPageEnd)
  BY ZeroPagePlaced
<1>6. BzWrites(cfg, k) = s
  BY DEF BzWrites
<1>7. w1.what = "kernel" /\ w1.addr = KERNEL_LOAD_ADDR /\ 1 \in 1 .. Len(n) /\ n[1] = w1
  BY SMT DEF Write
<1>8. z[1].what = "zero_page" /\ z[1].addr = ZERO_PAGE_ADDR /\ 1 \in 1 .. Len(z)
  BY SMT DEF ZeroPage, Write
<1>9. ke <= INITRD_ADDR
  BY SMT
<1>. HIDE DEF ke, ie, w1, c, i, n, z
<1>10. /\ CMDLINE_ADDR \in Int /\ CmdlineEnd \in Int /\ ZERO_PAGE_ADDR \in Int /\ ZeroPageEnd \in Int
       /\ KERNEL_LOAD_ADDR \in Int /\ INITRD_ADDR \in Int
  BY Addresses, SMT
<1>11. /\ CmdlineEnd <= INITRD_ADDR /\ CmdlineEnd <= KERNEL_LOAD_ADDR /\ ZeroPageEnd <= CMDLINE_ADDR
       /\ ZeroPageEnd <= INITRD_ADDR /\ ZeroPageEnd <= KERNEL_LOAD_ADDR
       /\ KERNEL_LOAD_ADDR <= INITRD_ADDR /\ KERNEL_LOAD_ADDR <= KERNEL_LOAD_ADDR
       /\ CmdlineEnd <= LowRam /\ ZeroPageEnd <= LowRam
  BY Addresses, SMT
<1>12. Away(Elems(c), Elems(i)) /\ Away(Elems(c), Elems(n))
  BY <1>2, <1>3, <1>4, <1>10, <1>11, SidesAway, ZenonT(40)
<1>13. Away(Elems(i), Elems(n))
  BY <1>1, <1>3, <1>4, <1>9, <1>10, SidesAway
<1>14. Away(Elems(c), Elems(z))
  BY <1>2, <1>5, <1>10, <1>11, SidesAway
<1>15. Away(Elems(i), Elems(z))
  <2>1. Elems(z) \in SUBSET Between(ZERO_PAGE_ADDR, ZeroPageEnd)
        /\ Elems(i) \in SUBSET Between(INITRD_ADDR, ie) /\ ZeroPageEnd <= INITRD_ADDR
    BY <1>3, <1>5, <1>11
  <2>. QED BY <1>10, <2>1, SidesAway
<1>16. Away(Elems(n), Elems(z))
  <2>1. Elems(z) \in SUBSET Between(ZERO_PAGE_ADDR, ZeroPageEnd)
        /\ Elems(n) \in SUBSET Between(KERNEL_LOAD_ADDR, ke) /\ ZeroPageEnd <= KERNEL_LOAD_ADDR
    BY <1>4, <1>5, <1>11
  <2>. QED BY <1>10, <2>1, SidesAway
<1>17. /\ Ordered(s)
       /\ \A w : w \in Elems(s) <=> w \in Elems(c) \/ w \in Elems(i) \/ w \in Elems(n) \/ w \in Elems(z)
  BY <1>2, <1>3, <1>4, <1>5, <1>12, <1>13, <1>14, <1>15, <1>16, FourParts, ZenonT(40)
<1>. HIDE DEF s
<1>18. \A w \in Elems(s) : w \in Writes /\ LowOrHigh(w)
  <2>1. \A w \in Between(CMDLINE_ADDR, CmdlineEnd) : w \in Writes /\ LowOrHigh(w)
    BY <1>10, <1>11, IsLow DEF Between
  <2>2. \A w \in Between(ZERO_PAGE_ADDR, ZeroPageEnd) : w \in Writes /\ LowOrHigh(w)
    BY <1>10, <1>11, IsLow DEF Between
  <2>3. \A w \in Between(INITRD_ADDR, ie) : w \in Writes /\ LowOrHigh(w)
    BY <1>10, <1>11, IsHigh DEF Between
  <2>4. \A w \in Between(KERNEL_LOAD_ADDR, ke) : w \in Writes /\ LowOrHigh(w)
    BY <1>10, <1>11, IsHigh DEF Between
  <2>. QED BY <1>2, <1>3, <1>4, <1>5, <1>17, <2>1, <2>2, <2>3, <2>4
<1>19. w1 \in Elems(s) /\ z[1] \in Elems(s)
  BY <1>7, <1>8, <1>17 DEF Elems
<1>20. /\ \E j \in 1 .. Len(s) : s[j].what = "kernel" /\ s[j].addr = KERNEL_LOAD_ADDR
       /\ \E j \in 1 .. Len(s) : s[j].what = "zero_page" /\ s[j].addr = ZERO_PAGE_ADDR
  <2>1. \E j \in 1 .. Len(s) : s[j].what = w1.what /\ s[j].addr = w1.addr
    BY <1>19, PointsTo
  <2>2. \E j \in 1 .. Len(s) : s[j].what = z[1].what /\ s[j].addr = z[1].addr
    BY <1>19, PointsTo, ZenonT(40)
  <2>. QED BY <1>7, <1>8, <2>1, <2>2
<1>21. \A r \in ProtectedEntry : \/ r[1] = "kernel" /\ r[2] = KERNEL_LOAD_ADDR
                                 \/ r[1] = "zero_page" /\ r[2] = ZERO_PAGE_ADDR
  BY SMT DEF ProtectedEntry
<1>22. PointsAt(ProtectedEntry, s)
  BY <1>20, <1>21 DEF PointsAt
<1>. QED BY <1>6, <1>17, <1>18, <1>22

\* Whatever build_vm puts into memory lies apart and in RAM, and the boot
\* CPU's registers point at it.
LEMMA ImageApart ==
  ASSUME LeastNumbers, NEW cfg, cfg.mem \in Nat, cfg.cmdline \in Nat, cfg.initrd \in Nat,
         NEW k, WellFormed(k), BuildImage(cfg, k) # <<>>
  PROVE  \/ /\ Apart(cfg.mem, BuildImage(cfg, k)[1])
            /\ PointsAt(Entry(cfg, k), BuildImage(cfg, k)[1])
         \/ ~IsElf(cfg, k) /\ KERNEL_LOAD_ADDR + KernelCode(k) > INITRD_ADDR
<1>. USE Zenon
<1>1. CASE IsElf(cfg, k)
  <2>. DEFINE segs == LoadSegments(k)
              s == ElfWrites(cfg, segs)
  <2>1. /\ BuildImage(cfg, k) = <<s>> /\ Boots64(k) /\ cfg.cmdline < CMDLINE_MAX_SIZE
        /\ \A i \in 1 .. Len(s) : InBounds(cfg.mem, s[i])
    BY <1>1 DEF BuildImage
  <2>2. Sized(cfg) /\ SegmentsApart(segs) /\ segs # <<>>
    BY <2>1 DEF Sized, WellFormed, Boots64
  <2>. HIDE DEF segs, s
  <2>3. Ordered(s) /\ (\A w \in Elems(s) : w \in Writes /\ LowOrHigh(w))
    BY <2>2, ElfParts DEF s
  <2>4. Apart(cfg.mem, s)
    BY <2>1, <2>3, IsApart
  <2>5. PointsAt(Entry(cfg, k), s)
    BY <1>1, <2>2, ElfPoints DEF Entry, s
  <2>6. BuildImage(cfg, k)[1] = s
    BY <2>1, SMT
  <2>. QED BY <2>4, <2>5, <2>6
<1>2. CASE ~IsElf(cfg, k)
  <2>. DEFINE s == BzWrites(cfg, k)
  <2>1. /\ BuildImage(cfg, k) = <<s>> /\ BzParses(k) /\ cfg.cmdline < CMDLINE_MAX_SIZE
        /\ \A i \in 1 .. Len(s) : InBounds(cfg.mem, s[i])
    BY <1>2 DEF BuildImage
  <2>2. Sized(cfg)
    BY <2>1 DEF Sized
  <2>3. KernelCode(k) \in Nat
    BY <2>1, SMT DEF WellFormed, BzParses, KernelCode, SetupSize
  <2>. HIDE DEF s
  <2>4. BuildImage(cfg, k)[1] = s
    BY <2>1, SMT
  <2>5. CASE KERNEL_LOAD_ADDR + KernelCode(k) <= INITRD_ADDR
    <3>1. Ordered(s) /\ (\A w \in Elems(s) : w \in Writes /\ LowOrHigh(w))
      BY <2>2, <2>3, <2>5, BzParts DEF s
    <3>2. Apart(cfg.mem, s)
      BY <2>1, <3>1, IsApart
    <3>3. PointsAt(Entry(cfg, k), s)
      BY <1>2, <2>2, <2>3, <2>5, BzParts DEF Entry, s
    <3>. QED BY <2>4, <3>2, <3>3
  <2>6. CASE ~(KERNEL_LOAD_ADDR + KernelCode(k) <= INITRD_ADDR)
    BY <1>2, <2>3, <2>6, Addresses, SMT
  <2>. QED BY <2>5, <2>6
<1>. QED BY <1>1, <1>2

\* create_sandbox's scaling leaves 171 MiB beside the initrd.
LEMMA MemoryFits ==
  ASSUME NEW x \in Nat, x # 0, NEW m \in Nat, m >= MiB * MinMemoryMiB(x), NEW e \in Nat, e <= 171 * MiB
  PROVE  e + x < m /\ 256 * MiB <= m
<1>. DEFINE mib == x \div MiB + 1
<1>1. mib \in Nat /\ x < mib * MiB
  BY SMT DEF MiB
<1>2. MinMemoryMiB(x) = IF mib * 3 > 256 THEN mib * 3 ELSE 256
  BY SMT DEF MinMemoryMiB
<1>. HIDE DEF mib
<1>3. CASE mib * 3 > 256
  <2>1. mib >= 86 /\ m >= MiB * (mib * 3)
    BY <1>1, <1>2, <1>3, SMT
  <2>. QED BY <1>1, <2>1, SMT DEF MiB
<1>4. CASE ~(mib * 3 > 256)
  <2>1. mib <= 85 /\ m >= MiB * 256
    BY <1>1, <1>2, <1>4, SMT
  <2>. QED BY <1>1, <2>1, SMT DEF MiB
<1>. QED BY <1>3, <1>4, Zenon

\* With the memory create_sandbox gives it, an ELF kernel that ends below
\* 170 MiB builds with its initrd.
LEMMA ImageFits ==
  ASSUME LeastNumbers, NEW cfg, cfg.mem \in Nat, Sized(cfg), cfg.initrd # 0, cfg.initrd <= InitrdMax,
         cfg.mem >= MiB * MinMemoryMiB(cfg.initrd), cfg.method = "elf",
         NEW k, WellFormed(k), Boots64(k), KernelEnd(LoadSegments(k)) <= 170 * MiB
  PROVE  BuildImage(cfg, k) # <<>>
<1>. USE Zenon
<1>. DEFINE segs == LoadSegments(k)
            s == ElfWrites(cfg, segs)
            ia == InitrdAddr(segs)
<1>1. SegmentsApart(segs) /\ segs # <<>>
  BY DEF WellFormed, Boots64
<1>2. /\ KernelEnd(segs) \in Nat
      /\ Elems(KernelWrites(segs)) \subseteq Between(KERNEL_LOAD_ADDR, KernelEnd(segs))
  BY <1>1, KernelEnds, KernelPlaced
<1>3. ia \in Nat /\ ia <= 171 * MiB
  <2>. HIDE DEF segs
  <2>1. KernelEnd(segs) <= 170 * MiB
    BY DEF segs
  <2>. QED BY <1>2, <2>1, SMT DEF InitrdAddr, MiB
<1>4. cfg.initrd \in Nat
  BY DEF Sized
<1>5. ia + cfg.initrd < cfg.mem /\ 256 * MiB <= cfg.mem
  <2>. HIDE DEF ia, segs, s
  <2>. QED BY <1>3, <1>4, MemoryFits, SMT
<1>6. Elems(InitrdWrites(cfg, ia)) \subseteq Between(ia, ia + cfg.initrd)
  BY <1>3, <1>4, InitrdPlaced
<1>7. ASSUME NEW a, NEW b \in Int, b < cfg.mem, NEW w \in Between(a, b) PROVE InBounds(cfg.mem, w)
  <2>1. w.addr \in Nat /\ w.len \in Nat /\ w.addr + w.len <= b
    BY SMT DEF Between, Writes
  <2>. QED BY <1>7, <2>1, SMT DEF InBounds
<1>8. KernelEnd(segs) < cfg.mem
  <2>. HIDE DEF segs
  <2>1. KernelEnd(segs) <= 170 * MiB
    BY DEF segs
  <2>. QED BY <1>2, <1>5, <2>1, SMT DEF MiB
<1>9. TablesEnd < cfg.mem /\ GdtEnd < cfg.mem /\ CmdlineEnd < cfg.mem /\ ZeroPageEnd < cfg.mem
  <2>1. LowRam < cfg.mem
    BY <1>5, SMT DEF LowRam, MiB
  <2>. QED BY <2>1, Addresses, SMT
<1>10. TablesEnd \in Int /\ GdtEnd \in Int /\ CmdlineEnd \in Int /\ ZeroPageEnd \in Int
       /\ KernelEnd(segs) \in Int /\ ia + cfg.initrd \in Int
  BY <1>2, <1>3, <1>4, Addresses, SMT
<1>11. Elems(<<CmdlineWrite(cfg)>>) \subseteq Between(CMDLINE_ADDR, CmdlineEnd)
  BY CmdlinePlaced DEF Sized
<1>. HIDE DEF segs, s, ia
<1>12. ASSUME NEW w \in Elems(s) PROVE InBounds(cfg.mem, w)
  <2>1. \/ w \in Elems(KernelWrites(segs)) \/ w \in Elems(PageTables) \/ w \in Elems(Gdt)
        \/ w \in Elems(<<CmdlineWrite(cfg)>>)
        \/ w \in Elems(InitrdWrites(cfg, ia)) \/ w \in Elems(ZeroPage)
    BY <1>1, ElfParts DEF s, ia
  <2>2. CASE w \in Elems(KernelWrites(segs))
    BY <1>2, <1>7, <1>8, <1>10, <2>2
  <2>3. CASE w \in Elems(PageTables)
    BY <1>7, <1>9, <1>10, <2>3, TablesPlaced
  <2>4. CASE w \in Elems(Gdt)
    BY <1>7, <1>9, <1>10, <2>4, GdtPlaced
  <2>5. CASE w \in Elems(<<CmdlineWrite(cfg)>>)
    BY <1>7, <1>9, <1>10, <1>11, <2>5
  <2>6. CASE w \in Elems(InitrdWrites(cfg, ia))
    BY <1>5, <1>6, <1>7, <1>10, <2>6
  <2>7. CASE w \in Elems(ZeroPage)
    BY <1>7, <1>9, <1>10, <2>7, ZeroPagePlaced
  <2>. QED BY <2>1, <2>2, <2>3, <2>4, <2>5, <2>6, <2>7
<1>13. \A i \in 1 .. Len(s) : InBounds(cfg.mem, s[i])
  BY <1>12 DEF Elems
<1>14. cfg.mem > 0
  BY <1>5, SMT DEF MiB
<1>15. BuildImage(cfg, k) = <<s>>
  BY <1>13, <1>14 DEF BuildImage, IsElf, Sized, s, segs
<1>. QED BY <1>15, SMT

-----------------------------------------------------------------------------
(* What the threads build.                                                 *)

\* A configuration: sizes are numbers, and one of a pulled image has the
\* memory create_sandbox gives it.
ConfigFor(r, c) ==
  /\ c.kernel = r.kernel /\ c.mem \in Nat /\ c.cmdline \in Nat /\ c.initrd \in Nat
  /\ c.digest # None /\ c.initrd # 0 =>
       c.mem >= MiB * MinMemoryMiB(c.initrd) /\ c.cmdline = 150 /\ c.method = "elf"
ConfigOK(r, x) == x.cfg # None => ConfigFor(r, x.cfg[1])

\* What build_vm makes of it.
Image(x) == BuildImage(VmConfig(x.cfg[1]), x.cfg[1].kernel)
BuiltOK(x) == x.writes # None => x.cfg # None /\ x.writes = Image(x)

\* A thread past the build has a VM, and one that ends without had its
\* image refused or met a fault or the end of the daemon.
Running == {"setup", "masquerade", "boot", "dump", "dumping", "state", "writing", "insert",
            "pool", "run"}
Mishap(l) == l.crashes < workload.crashes \/ l.faults < workload.faults
EndsOK(x, l) ==
  /\ x.pc \in Running => x.vm.via # "none"
  /\ x.pc = "done" => x.vm.via # "none" \/ Mishap(l) \/ Image(x) = None

Fits(t, x, l) == ConfigOK(Req(t), x) /\ BuiltOK(x) /\ EndsOK(x, l)

LeftOK(l) == /\ l \in [crashes : Nat, faults : Nat, refills : Nat]
             /\ l.crashes <= workload.crashes /\ l.faults <= workload.faults
LayoutInv ==
  /\ workload \in Workloads /\ LeftOK(left)
  /\ pool # None => pool[1].mem \in Nat
  /\ \A t \in Threads : Fits(t, th[t], left)

\* A fault or a crash used up is not given back.
Falls(l, m) == LeftOK(m) /\ m.crashes <= l.crashes /\ m.faults <= l.faults

\* A thread excused by a fault or a crash stays excused.
LEMMA MishapStays ==
  ASSUME workload \in Workloads, NEW l, LeftOK(l), NEW m, Falls(l, m), Mishap(l) PROVE Mishap(m)
<1>1. workload.crashes \in Nat /\ workload.faults \in Nat
  BY WorkloadsAssumption, Zenon
<1>2. l.crashes \in Nat /\ l.faults \in Nat /\ m.crashes \in Nat /\ m.faults \in Nat
  BY Zenon DEF LeftOK, Falls
<1>. QED BY <1>1, <1>2 DEF Mishap, Falls

\* What counts goes down by one, or stays.
LEMMA FaultFalls ==
  ASSUME workload \in Workloads, LeftOK(left), left.faults > 0,
         left' = [left EXCEPT !.faults = @ - 1]
  PROVE  Falls(left, left') /\ Mishap(left')
<1>1. workload.crashes \in Nat /\ workload.faults \in Nat
  BY WorkloadsAssumption, Zenon
<1>2. /\ left'.crashes = left.crashes /\ left'.faults = left.faults - 1
      /\ left' \in [crashes : Nat, faults : Nat, refills : Nat]
      /\ left.faults \in Nat /\ left.crashes \in Nat
  BY DEF LeftOK
<1>. QED BY <1>1, <1>2 DEF LeftOK, Falls, Mishap

\* The same for the end of the daemon.
LEMMA CrashFalls ==
  ASSUME workload \in Workloads, LeftOK(left), left.crashes > 0,
         left' = [left EXCEPT !.crashes = @ - 1]
  PROVE  Falls(left, left') /\ Mishap(left')
<1>1. workload.crashes \in Nat /\ workload.faults \in Nat
  BY WorkloadsAssumption, Zenon
<1>2. /\ left'.faults = left.faults /\ left'.crashes = left.crashes - 1
      /\ left' \in [crashes : Nat, faults : Nat, refills : Nat]
      /\ left.faults \in Nat /\ left.crashes \in Nat
  BY DEF LeftOK
<1>. QED BY <1>1, <1>2 DEF LeftOK, Falls, Mishap

\* What is unchanged has not gone up.
LEMMA NothingFalls == ASSUME NEW l, LeftOK(l) PROVE Falls(l, l)
<1>1. l.crashes \in Nat /\ l.faults \in Nat
  BY Zenon DEF LeftOK
<1>2. l.crashes <= l.crashes /\ l.faults <= l.faults
  BY <1>1
<1>. QED BY <1>2, Zenon DEF Falls

\* A thread that keeps configuration, image and VM.
LEMMA KeptFits ==
  ASSUME NEW t, NEW x, NEW l, Fits(t, x, l), NEW y, NEW m, Mishap(l) => Mishap(m),
         y.cfg = x.cfg, y.writes = x.writes, y.vm.via = x.vm.via,
         y.pc \in Running => x.pc \in Running,
         y.pc = "done" => x.pc \in Running \/ x.pc = "done" \/ Mishap(m)
  PROVE  Fits(t, y, m)
<1>1. ConfigOK(Req(t), y)
  BY Zenon DEF Fits, ConfigOK
<1>2. BuiltOK(y)
  BY Zenon DEF Fits, BuiltOK, Image
<1>3. EndsOK(y, m)
  BY Zenon DEF Fits, EndsOK, Image
<1>. QED BY <1>1, <1>2, <1>3, Zenon DEF Fits

\* One thread moves.
LEMMA LayoutStep ==
  ASSUME IInv, LayoutInv, NEW t \in Threads, Moves(t), workload' = workload, Falls(left, left'),
         pool' # None => pool'[1].mem \in Nat, Fits(t, th'[t], left')
  PROVE  LayoutInv'
<1>. USE Zenon
<1>1. Mishap(left) => Mishap(left')
  BY MishapStays DEF LayoutInv
<1>2. ASSUME NEW u \in Threads PROVE Fits(u, th'[u], left')
  <2>1. CASE u = t
    BY <2>1
  <2>2. CASE u # t
    <3>1. th'[u] = th[u]
      BY <2>2 DEF Moves, IInv
    <3>2. Fits(u, th[u], left)
      BY DEF LayoutInv
    <3>. QED BY <1>1, <3>1, <3>2, KeptFits
  <2>. QED BY <2>1, <2>2
<1>3. \A u \in Threads : Fits(u, th[u], left)'
  BY <1>2 DEF Fits, ConfigOK, EndsOK, Mishap, Req
<1>4. LeftOK(left)'
  BY DEF Falls, LeftOK
<1>. QED BY <1>3, <1>4 DEF LayoutInv

LosesFault == left.faults > 0 /\ left' = [left EXCEPT !.faults = @ - 1]
Spends == left' = left \/ LosesFault

\* A step that may use up a fault.
LEMMA SpendsFalls ==
  ASSUME LayoutInv, Spends
  PROVE  Falls(left, left') /\ (Mishap(left) => Mishap(left')) /\ (LosesFault => Mishap(left'))
<1>. USE Zenon
<1>1. CASE left' = left
  <2>1. Falls(left, left')
    BY <1>1, NothingFalls DEF LayoutInv
  <2>2. LosesFault => Mishap(left')
    BY FaultFalls DEF LayoutInv, LosesFault
  <2>. QED BY <1>1, <2>1, <2>2
<1>2. CASE LosesFault
  BY <1>2, FaultFalls DEF LayoutInv, LosesFault
<1>. QED BY <1>1, <1>2 DEF Spends

\* A step that neither configures nor builds.
LEMMA QuietStep ==
  ASSUME IInv, LayoutInv, NEW t \in Threads, Moves(t), workload' = workload,
         pool' # None => pool'[1].mem \in Nat, Spends,
         th'[t].cfg = th[t].cfg, th'[t].writes = th[t].writes, th'[t].vm = th[t].vm,
         th'[t].pc \in Running => th[t].pc \in Running,
         th'[t].pc = "done" => th[t].pc \in Running \/ LosesFault
  PROVE  LayoutInv'
<1>. USE Zenon
<1>1. Falls(left, left') /\ (Mishap(left) => Mishap(left')) /\ (LosesFault => Mishap(left'))
  BY SpendsFalls
<1>2. Fits(t, th[t], left)
  BY DEF LayoutInv
<1>3. th'[t].vm.via = th[t].vm.via
  OBVIOUS
<1>4. Fits(t, th'[t], left')
  BY <1>1, <1>2, <1>3, KeptFits
<1>. QED BY <1>1, <1>4, LayoutStep

\* The same for a thread that only goes on.
LEMMA GotoStep ==
  ASSUME IInv, LayoutInv, NEW t \in Threads, NEW p, Goto(t, p), workload' = workload,
         pool' # None => pool'[1].mem \in Nat, Spends,
         p \in Running => th[t].pc \in Running, p # "done"
  PROVE  LayoutInv'
<1>1. /\ Moves(t) /\ th'[t].pc = p
      /\ th'[t].cfg = th[t].cfg /\ th'[t].vm = th[t].vm /\ th'[t].writes = th[t].writes
  BY GotoMoves, Zenon
<1>. QED BY <1>1, QuietStep, Zenon

\* A thread's record is replaced by another one.
LEMMA SetMoves ==
  ASSUME IInv, NEW t \in Threads, NEW f, Set(t, f)
  PROVE  Moves(t) /\ th'[t] = f /\ IsThread(th[t])
<1>1. IsThread(th[t]) /\ th = [u \in Threads |-> th[u]]
  BY Zenon DEF IInv, ThreadOK, Configured
<1>2. th' = [th EXCEPT ![t] = f]
  BY Zenon DEF Set
<1>. QED BY <1>1, <1>2, Zenon DEF Moves

\* What the pool was made with stays.
LEMMA PoolStays == ASSUME LayoutInv, pool' = pool PROVE pool' # None => pool'[1].mem \in Nat
BY Zenon DEF LayoutInv

\* start_sandbox spawns the thread.
LEMMA StartFits == ASSUME IInv, LayoutInv, NEW t \in Threads, Start(t) PROVE LayoutInv'
<1>1. Goto(t, "acquire") /\ workload' = workload /\ pool' = pool /\ Spends
  BY Zenon DEF Start, l4, Spends
<1>2. "acquire" \notin Running /\ "acquire" # "done"
  BY DEF Running
<1>. QED BY <1>1, <1>2, PoolStays, GotoStep, Zenon

\* SnapshotCache::get, hit or miss.
LEMMA LookupFits == ASSUME IInv, LayoutInv, NEW t \in Threads, Lookup(t) PROVE LayoutInv'
<1>1. workload' = workload /\ pool' = pool /\ Spends
  BY Zenon DEF Lookup, l4, Spends
<1>2. CASE Goto(t, "read")
  <2>1. "read" \notin Running /\ "read" # "done"
    BY DEF Running
  <2>. QED BY <1>1, <1>2, <2>1, PoolStays, GotoStep, Zenon
<1>3. CASE Set(t, [th[t] EXCEPT !.pc = "build", !.save = HasSnapshotSupport(Cfg(t))])
  <2>1. /\ Moves(t) /\ IsThread(th[t])
        /\ th'[t] = [th[t] EXCEPT !.pc = "build", !.save = HasSnapshotSupport(Cfg(t))]
    BY <1>3, SetMoves, Zenon
  <2>2. /\ th'[t].cfg = th[t].cfg /\ th'[t].writes = th[t].writes /\ th'[t].vm = th[t].vm
        /\ th'[t].pc \notin Running /\ th'[t].pc # "done"
    BY <2>1 DEF IsThread, Running
  <2>. QED BY <1>1, <2>1, <2>2, PoolStays, QuietStep, Zenon
<1>. QED BY <1>2, <1>3, Zenon DEF Lookup

\* restore_snapshot fails; a cold boot follows.
LEMMA RestoreFailsFits == ASSUME IInv, LayoutInv, NEW t \in Threads, RestoreFails(t) PROVE LayoutInv'
<1>1. workload' = workload /\ pool' = pool /\ Spends
  BY Zenon DEF RestoreFails, l4, Spends, LosesFault
<1>2. /\ Moves(t) /\ IsThread(th[t])
      /\ th'[t] = [th[t] EXCEPT !.pc = "invalidate", !.read = None]
  BY SetMoves, Zenon DEF RestoreFails
<1>3. /\ th'[t].cfg = th[t].cfg /\ th'[t].writes = th[t].writes /\ th'[t].vm = th[t].vm
      /\ th'[t].pc \notin Running /\ th'[t].pc # "done"
  BY <1>2 DEF IsThread, Running
<1>. QED BY <1>1, <1>2, <1>3, PoolStays, QuietStep, Zenon

\* vm_state.json is read.
LEMMA ReadStateFits == ASSUME IInv, LayoutInv, NEW t \in Threads, ReadState(t) PROVE LayoutInv'
<1>1. workload' = workload /\ pool' = pool /\ Spends
  BY Zenon DEF ReadState, l4, Spends
<1>2. /\ Moves(t) /\ IsThread(th[t])
      /\ th'[t] = [th[t] EXCEPT !.pc = "map", !.read = dir[CacheKey(Cfg(t))].state]
  BY SetMoves, Zenon DEF ReadState
<1>3. /\ th'[t].cfg = th[t].cfg /\ th'[t].writes = th[t].writes /\ th'[t].vm = th[t].vm
      /\ th'[t].pc \notin Running /\ th'[t].pc # "done"
  BY <1>2 DEF IsThread, Running
<1>. QED BY <1>1, <1>2, <1>3, PoolStays, QuietStep, Zenon

\* The cache entry is marked invalid.
LEMMA InvalidateFits == ASSUME IInv, LayoutInv, NEW t \in Threads, Invalidate(t) PROVE LayoutInv'
<1>1. workload' = workload /\ pool' = pool /\ Spends
  BY Zenon DEF Invalidate, l4, Spends
<1>2. /\ Moves(t) /\ IsThread(th[t])
      /\ th'[t] = [th[t] EXCEPT !.pc = "build", !.save = FALSE]
  BY SetMoves, Zenon DEF Invalidate
<1>3. /\ th'[t].cfg = th[t].cfg /\ th'[t].writes = th[t].writes /\ th'[t].vm = th[t].vm
      /\ th'[t].pc \notin Running /\ th'[t].pc # "done"
  BY <1>2 DEF IsThread, Running
<1>. QED BY <1>1, <1>2, <1>3, PoolStays, QuietStep, Zenon

\* A build that KVM refuses ends the thread and uses up a fault.
LEMMA KvmRefusesFits == ASSUME IInv, LayoutInv, NEW t \in Threads, KvmRefuses(t) PROVE LayoutInv'
<1>1. workload' = workload /\ pool' = pool /\ Spends /\ LosesFault
  BY Zenon DEF KvmRefuses, l4, Spends, LosesFault
<1>2. /\ Moves(t) /\ IsThread(th[t])
      /\ th'[t] = [th[t] EXCEPT !.pc = "done", !.save = FALSE]
  BY SetMoves, Zenon DEF KvmRefuses
<1>3. /\ th'[t].cfg = th[t].cfg /\ th'[t].writes = th[t].writes /\ th'[t].vm = th[t].vm
      /\ th'[t].pc \notin Running
  BY <1>2 DEF IsThread, Running
<1>. QED BY <1>1, <1>2, <1>3, PoolStays, QuietStep, Zenon

\* The run loop returns: the thread had a VM.
LEMMA VmEndsFits == ASSUME IInv, LayoutInv, NEW t \in Threads, VmEnds(t) PROVE LayoutInv'
<1>1. workload' = workload /\ pool' = pool /\ Spends
  BY Zenon DEF VmEnds, l4, Spends
<1>2. /\ Moves(t) /\ IsThread(th[t])
      /\ th'[t] = [th[t] EXCEPT !.pc = "done", !.applied = FALSE]
  BY SetMoves, Zenon DEF VmEnds
<1>3. /\ th'[t].cfg = th[t].cfg /\ th'[t].writes = th[t].writes /\ th'[t].vm = th[t].vm
      /\ th'[t].pc \notin Running
  BY <1>2 DEF IsThread, Running
<1>4. th[t].pc \in Running
  BY DEF VmEnds, At, Running
<1>. QED BY <1>1, <1>2, <1>3, <1>4, PoolStays, QuietStep, Zenon

\* A thread that has its VM goes on.
LEMMA RunningStep ==
  ASSUME IInv, LayoutInv, NEW t \in Threads, th[t].pc \in Running, NEW p, Goto(t, p), p # "done",
         workload' = workload, pool' = pool, Spends
  PROVE  LayoutInv'
BY PoolStays, GotoStep, Zenon

\* run_vcpu_until_match returns.
LEMMA BootToMarkerFits == ASSUME IInv, LayoutInv, NEW t \in Threads, BootToMarker(t) PROVE LayoutInv'
<1>1. workload' = workload /\ pool' = pool /\ Spends /\ (Goto(t, "dump") \/ Goto(t, "run"))
  BY Zenon DEF BootToMarker, l4, Spends, LosesFault
<1>2. th[t].pc \in Running /\ "dump" # "done" /\ "run" # "done"
  BY DEF BootToMarker, At, Running
<1>. QED BY <1>1, <1>2, RunningStep, Zenon

\* save_snapshot: the memory file is written.
LEMMA DumpFits == ASSUME IInv, LayoutInv, NEW t \in Threads, Dump(t) PROVE LayoutInv'
<1>1. workload' = workload /\ pool' = pool /\ Spends /\ Goto(t, "state")
  BY Zenon DEF Dump, l4, Spends
<1>2. th[t].pc \in Running /\ "state" # "done"
  BY DEF Dump, At, Running
<1>. QED BY <1>1, <1>2, RunningStep, Zenon

\* save_snapshot: the state file is opened.
LEMMA OpenStateFits == ASSUME IInv, LayoutInv, NEW t \in Threads, OpenState(t) PROVE LayoutInv'
<1>1. workload' = workload /\ pool' = pool /\ Spends /\ Goto(t, "writing")
  BY Zenon DEF OpenState, l4, Spends
<1>2. th[t].pc \in Running /\ "writing" # "done"
  BY DEF OpenState, At, Running
<1>. QED BY <1>1, <1>2, RunningStep, Zenon

\* save_snapshot: the state file is written.
LEMMA WriteStateFits == ASSUME IInv, LayoutInv, NEW t \in Threads, WriteState(t) PROVE LayoutInv'
<1>1. workload' = workload /\ pool' = pool /\ Spends /\ Goto(t, "insert")
  BY Zenon DEF WriteState, l4, Spends
<1>2. th[t].pc \in Running /\ "insert" # "done"
  BY DEF WriteState, At, Running
<1>. QED BY <1>1, <1>2, RunningStep, Zenon

\* A save that fails is only logged.
LEMMA SaveFailsFits == ASSUME IInv, LayoutInv, NEW t \in Threads, SaveFails(t) PROVE LayoutInv'
<1>1. workload' = workload /\ pool' = pool /\ Spends /\ Goto(t, "run")
  BY Zenon DEF SaveFails, l4, Spends, LosesFault
<1>2. th[t].pc \in Running /\ "run" # "done"
  BY DEF SaveFails, Saving, Running
<1>. QED BY <1>1, <1>2, RunningStep, Zenon

\* SnapshotCache::insert.
LEMMA InsertFits == ASSUME IInv, LayoutInv, NEW t \in Threads, Insert(t) PROVE LayoutInv'
<1>1. workload' = workload /\ pool' = pool /\ Spends /\ Goto(t, "pool")
  BY Zenon DEF Insert, l4, Spends
<1>2. th[t].pc \in Running /\ "pool" # "done"
  BY DEF Insert, At, Running
<1>. QED BY <1>1, <1>2, RunningStep, Zenon

\* The pool takes over the memory size of the thread that makes it.
LEMMA InitPoolFits == ASSUME IInv, LayoutInv, NEW t \in Threads, InitPool(t) PROVE LayoutInv'
<1>. USE Zenon
<1>1. workload' = workload /\ Spends /\ Goto(t, "run")
  BY DEF InitPool, Spends
<1>2. th[t].pc \in Running /\ "run" # "done" /\ th[t].pc # "create"
  BY SMT DEF InitPool, At, Running
<1>3. pool' # None => pool'[1].mem \in Nat
  <2>1. th[t].cfg # None
    BY <1>2 DEF IInv, ThreadOK, Configured
  <2>2. Cfg(t).mem \in Nat
    BY <2>1 DEF LayoutInv, Fits, ConfigOK, ConfigFor, Cfg
  <2>3. CASE pool = None
    <3>1. pool' = <<[key |-> CacheKey(Cfg(t)), image |-> Cfg(t).image,
                     digest |-> Cfg(t).digest, mem |-> Cfg(t).mem, vcpus |-> Cfg(t).vcpus]>>
      BY <2>3 DEF InitPool
    <3>2. pool'[1].mem = Cfg(t).mem
      BY <3>1, SMT
    <3>. QED BY <2>2, <3>2
  <2>4. CASE pool # None
    BY <2>4, PoolStays DEF InitPool
  <2>. QED BY <2>3, <2>4
<1>. QED BY <1>1, <1>2, <1>3, GotoStep

\* After the network there comes a step of a thread with a VM.
LEMMA NextIsOn ==
  ASSUME IInv, NEW t \in Threads, th[t].pc \in {"setup", "masquerade"}
  PROVE  th[t].pc \in Running /\ th[t].next # "done"
<1>1. th[t].next \in {"run", "boot", "pool"}
  BY Zenon DEF IInv, ThreadOK, Configured
<1>2. th[t].pc \in Running
  BY DEF Running
<1>. QED BY <1>1, <1>2

\* The rules of the network are of no matter here.
LEMMA AppliedStep ==
  ASSUME IInv, LayoutInv, NEW t \in Threads, th[t].pc \in {"setup", "masquerade"},
         Set(t, [th[t] EXCEPT !.pc = th[t].next, !.applied = TRUE]),
         workload' = workload, pool' = pool, left' = left
  PROVE  LayoutInv'
<1>1. th[t].pc \in Running /\ th[t].next # "done"
  BY NextIsOn, Zenon
<1>2. /\ Moves(t) /\ IsThread(th[t])
      /\ th'[t] = [th[t] EXCEPT !.pc = th[t].next, !.applied = TRUE]
  BY SetMoves, Zenon
<1>3. /\ th'[t].cfg = th[t].cfg /\ th'[t].writes = th[t].writes /\ th'[t].vm = th[t].vm
      /\ th'[t].pc # "done"
  BY <1>1, <1>2 DEF IsThread
<1>. QED BY <1>1, <1>2, <1>3, PoolStays, QuietStep, Zenon DEF Spends

\* NetworkSetup::setup up to the check for the rule.
LEMMA SetupNetworkFits == ASSUME IInv, LayoutInv, NEW t \in Threads, SetupNetwork(t) PROVE LayoutInv'
<1>. USE Zenon
<1>1. workload' = workload /\ pool' = pool /\ th[t].pc = "setup"
  BY DEF SetupNetwork, l4, At
<1>2. th[t].pc \in Running /\ th[t].next # "done" /\ "masquerade" # "done"
  BY <1>1, NextIsOn
<1>3. CASE LosesFault /\ Goto(t, th[t].next)
  BY <1>1, <1>2, <1>3, RunningStep DEF Spends
<1>4. CASE left' = left /\ Goto(t, "masquerade")
  BY <1>1, <1>2, <1>4, RunningStep DEF Spends
<1>5. CASE left' = left /\ Set(t, [th[t] EXCEPT !.pc = th[t].next, !.applied = TRUE])
  BY <1>1, <1>5, AppliedStep
<1>. QED BY <1>3, <1>4, <1>5 DEF SetupNetwork, LosesFault

\* iptables -A, or its failure.
LEMMA AddMasqueradeFits == ASSUME IInv, LayoutInv, NEW t \in Threads, AddMasquerade(t) PROVE LayoutInv'
<1>. USE Zenon
<1>1. workload' = workload /\ pool' = pool /\ th[t].pc = "masquerade"
  BY DEF AddMasquerade, l4, At
<1>2. th[t].pc \in Running /\ th[t].next # "done"
  BY <1>1, NextIsOn
<1>3. CASE LosesFault /\ Goto(t, th[t].next)
  BY <1>1, <1>2, <1>3, RunningStep DEF Spends
<1>4. CASE left' = left /\ Set(t, [th[t] EXCEPT !.pc = th[t].next, !.applied = TRUE])
  BY <1>1, <1>4, AppliedStep
<1>. QED BY <1>3, <1>4 DEF AddMasquerade, LosesFault

\* A request as the workload has it.
LEMMA RequestIs ==
  ASSUME LayoutInv, NEW t \in Threads
  PROVE  /\ Req(t).asked \in Seq(Nat) /\ (Req(t).via = "main" => Req(t).asked # <<>>)
         /\ Req(t).initrd \in Nat /\ Req(t).rootfs \in Nat /\ Req(t).cmdline \in Nat
         /\ WellFormed(Req(t).kernel)
BY WorkloadsAssumption, Zenon DEF LayoutInv, Req

\* create_sandbox gives at least what the initrd needs.
LEMMA MemoryIs ==
  ASSUME NEW asked \in Seq(Nat), NEW x \in Nat
  PROVE  SandboxMemory(asked, x) \in Nat /\ SandboxMemory(asked, x) >= MiB * MinMemoryMiB(x)
<1>. DEFINE min == MinMemoryMiB(x)
            requested == IF asked[1] > 0 THEN asked[1] ELSE 512
            n == IF asked = <<>> THEN min ELSE IF requested > min THEN requested ELSE min
<1>1. min \in Nat
  BY SMT DEF MinMemoryMiB, MiB
<1>2. asked # <<>> => requested \in Nat
  OBVIOUS
<1>. HIDE DEF min, requested
<1>3. n \in Nat /\ n >= min
  BY <1>1, <1>2
<1>4. SandboxMemory(asked, x) = MiB * n
  BY Zenon DEF SandboxMemory, min, requested
<1>. HIDE DEF n
<1>5. MiB * n \in Nat /\ MiB * n >= MiB * min
  BY <1>1, <1>3, SMT DEF MiB
<1>. QED BY <1>4, <1>5, Zenon DEF min

\* A thread gets its configuration.
LEMMA ConfigStep ==
  ASSUME IInv, LayoutInv, NEW t \in Threads, At(t, "create"), NEW p \in {"created", "build"}, NEW c,
         Set(t, [th[t] EXCEPT !.pc = p, !.cfg = <<c>>]), ConfigFor(Req(t), c),
         workload' = workload, pool' = pool, left' = left
  PROVE  LayoutInv'
<1>. USE Zenon
<1>1. Moves(t) /\ IsThread(th[t]) /\ th'[t] = [th[t] EXCEPT !.pc = p, !.cfg = <<c>>]
  BY SetMoves
<1>2. /\ th'[t].cfg = <<c>> /\ th'[t].writes = th[t].writes
      /\ th'[t].pc \notin Running /\ th'[t].pc # "done"
  BY <1>1, SMT DEF IsThread, Running
<1>3. th[t].writes = None
  <2>1. th[t].cfg = None
    BY DEF IInv, ThreadOK, Configured, At
  <2>. QED BY <2>1 DEF LayoutInv, Fits, BuiltOK
<1>4. th'[t].cfg[1] = c
  BY <1>2, SMT
<1>5. Fits(t, th'[t], left')
  BY <1>2, <1>3, <1>4 DEF Fits, ConfigOK, BuiltOK, EndsOK
<1>6. Falls(left, left')
  BY NothingFalls DEF LayoutInv
<1>. QED BY <1>1, <1>5, <1>6, PoolStays, LayoutStep

\* create_sandbox configures a sandbox, from the pool or after a pull.
LEMMA CreateFits == ASSUME IInv, LayoutInv, NEW t \in Threads, Create(t) PROVE LayoutInv'
<1>. USE Zenon
<1>1. At(t, "create") /\ workload' = workload /\ pool' = pool /\ left' = left
  BY DEF Create, l4
<1>2. "created" \in {"created", "build"}
  BY SMT
<1>3. CASE FastPath(t) /\ Set(t, [th[t] EXCEPT !.pc = "created", !.cfg = <<FastConfig(t)>>])
  <2>. DEFINE c == FastConfig(t)
  <2>1. pool[1].mem \in Nat
    BY <1>3 DEF LayoutInv, FastPath
  <2>2. c.kernel = Req(t).kernel /\ c.mem = pool[1].mem /\ c.cmdline = 150 /\ c.initrd = 0
    BY SMT DEF FastConfig
  <2>3. ConfigFor(Req(t), c)
    <3>. HIDE DEF c
    <3>. QED BY <2>1, <2>2, SMT DEF ConfigFor
  <2>. HIDE DEF c
  <2>4. Set(t, [th[t] EXCEPT !.pc = "created", !.cfg = <<c>>])
    BY <1>3 DEF c
  <2>. QED BY <1>1, <1>2, <2>3, <2>4, ConfigStep
<1>4. ASSUME NEW pulled \in BOOLEAN,
             Set(t, [th[t] EXCEPT !.pc = "created", !.cfg = <<PulledConfig(t, pulled)>>])
      PROVE  LayoutInv'
  <2>. DEFINE c == PulledConfig(t, pulled)
              n == IF pulled THEN Req(t).initrd ELSE 0
  <2>1. Req(t).asked \in Seq(Nat) /\ Req(t).initrd \in Nat /\ Req(t).rootfs \in Nat /\ 0 \in Nat
    BY RequestIs
  <2>2. n \in Nat
    BY <2>1, Zenon
  <2>3. /\ c.kernel = Req(t).kernel /\ c.mem = SandboxMemory(Req(t).asked, n) /\ c.cmdline = 150
        /\ c.method = "elf" /\ c.initrd \in Nat
        /\ (c.digest # None => c.initrd = n)
    BY <2>1, Zenon DEF PulledConfig
  <2>. HIDE DEF n, c
  <2>4. SandboxMemory(Req(t).asked, n) \in Nat
        /\ SandboxMemory(Req(t).asked, n) >= MiB * MinMemoryMiB(n)
    BY <2>1, <2>2, MemoryIs, ZenonT(40)
  <2>5. c.mem \in Nat /\ c.cmdline \in Nat /\ c.mem >= MiB * MinMemoryMiB(n)
    BY <2>3, <2>4, SMT
  <2>6. ConfigFor(Req(t), c)
    BY <2>3, <2>5 DEF ConfigFor
  <2>7. Set(t, [th[t] EXCEPT !.pc = "created", !.cfg = <<c>>])
    BY <1>4 DEF c
  <2>. QED BY <1>1, <1>2, <2>6, <2>7, ConfigStep
<1>. QED BY <1>3, <1>4 DEF Create

\* nova-vmm configures its VM from a file.
LEMMA MainParsesFits == ASSUME IInv, LayoutInv, NEW t \in Threads, MainParses(t) PROVE LayoutInv'
<1>. DEFINE c == MainConfig(t)
<1>1. /\ At(t, "create") /\ workload' = workload /\ pool' = pool /\ left' = left
      /\ Req(t).via = "main" /\ Set(t, [th[t] EXCEPT !.pc = "build", !.cfg = <<c>>])
  BY Zenon DEF MainParses, l4
<1>2. "build" \in {"created", "build"}
  OBVIOUS
<1>3. Req(t).asked \in Seq(Nat) /\ Req(t).asked # <<>> /\ Req(t).initrd \in Nat /\ Req(t).cmdline \in Nat
  BY <1>1, RequestIs, Zenon
<1>4. Req(t).asked[1] \in Nat
  BY <1>3
<1>5. /\ c.kernel = Req(t).kernel /\ c.mem = MiB * Req(t).asked[1] /\ c.cmdline = Req(t).cmdline
      /\ c.initrd = Req(t).initrd /\ c.digest = None
  BY Zenon DEF MainConfig
<1>. HIDE DEF c
<1>6. c.mem \in Nat
  BY <1>4, <1>5, SMT DEF MiB
<1>7. ConfigFor(Req(t), c)
  BY <1>3, <1>5, <1>6, Zenon DEF ConfigFor
<1>. QED BY <1>1, <1>2, <1>7, ConfigStep, Zenon

\* A thread gets a VM, from the pool, from a snapshot or by a build.
LEMMA VmStep ==
  ASSUME IInv, LayoutInv, NEW t \in Threads, Moves(t), workload' = workload, pool' = pool,
         left' = left, th[t].pc # "create", th'[t].cfg = th[t].cfg, th'[t].vm.via # "none",
         th'[t].writes = th[t].writes \/ th'[t].writes = Image(th[t])
  PROVE  LayoutInv'
<1>. USE Zenon
<1>1. th[t].cfg # None
  BY DEF IInv, ThreadOK, Configured
<1>2. Fits(t, th[t], left)
  BY DEF LayoutInv
<1>3. Image(th'[t]) = Image(th[t])
  BY DEF Image
<1>4. Fits(t, th'[t], left')
  BY <1>1, <1>2, <1>3 DEF Fits, ConfigOK, BuiltOK, EndsOK
<1>5. Falls(left, left')
  BY NothingFalls DEF LayoutInv
<1>. QED BY <1>4, <1>5, PoolStays, LayoutStep

\* The network changes nothing else.
SameVm(x, y) == y.cfg = x.cfg /\ y.vm = x.vm /\ y.writes = x.writes

\* Continuing with the NAT setup keeps configuration, VM and image.
LEMMA NetworkedIs == ASSUME NEW x, IsThread(x), NEW next PROVE SameVm(x, Networked(x, next))
<1>1. CASE workload.tap
  BY <1>1, Zenon DEF Networked, IsThread, SameVm
<1>2. CASE ~workload.tap
  BY <1>2, Zenon DEF Networked, IsThread, SameVm
<1>. QED BY <1>1, <1>2, Zenon

\* A thread takes a warm VM, or finds none that works.
LEMMA AcquireFits == ASSUME IInv, LayoutInv, NEW t \in Threads, Acquire(t) PROVE LayoutInv'
<1>1. workload' = workload /\ pool' = pool /\ left' = left /\ th[t].pc = "acquire"
  BY Zenon DEF Acquire, At
<1>2. CASE Goto(t, "lookup")
  <2>1. "lookup" \notin Running /\ "lookup" # "done"
    BY DEF Running
  <2>. QED BY <1>1, <1>2, <2>1, PoolStays, GotoStep, Zenon DEF Spends
<1>3. CASE /\ Head(warm).via # "none"
           /\ Set(t, Networked([th[t] EXCEPT !.vm = Head(warm)], "run"))
  <2>. DEFINE x == [th[t] EXCEPT !.vm = Head(warm)]
  <2>1. Moves(t) /\ IsThread(th[t]) /\ th'[t] = Networked(x, "run")
    BY <1>3, SetMoves, Zenon
  <2>2. IsThread(x) /\ x.cfg = th[t].cfg /\ x.vm = Head(warm) /\ x.writes = th[t].writes
    BY <2>1 DEF IsThread
  <2>. HIDE DEF x
  <2>3. th'[t].cfg = th[t].cfg /\ th'[t].vm = Head(warm) /\ th'[t].writes = th[t].writes
    <3>1. SameVm(x, th'[t])
      BY <2>1, <2>2, NetworkedIs, Zenon
    <3>. QED BY <2>2, <3>1, Zenon DEF SameVm
  <2>4. th[t].pc # "create"
    BY <1>1
  <2>. QED BY <1>1, <1>3, <2>1, <2>3, <2>4, VmStep, Zenon
<1>. QED BY <1>2, <1>3, Zenon DEF Acquire

\* restore_snapshot maps the memory file.
LEMMA MapMemoryFits == ASSUME IInv, LayoutInv, NEW t \in Threads, MapMemory(t) PROVE LayoutInv'
<1>. DEFINE v == Restored("l3", CacheKey(Cfg(t)), th[t].read)
            x == [th[t] EXCEPT !.vm = v]
<1>1. /\ workload' = workload /\ pool' = pool /\ left' = left /\ th[t].pc = "map"
      /\ Set(t, Networked(x, "pool"))
  BY Zenon DEF MapMemory, At, l4
<1>2. v.via # "none"
  BY DEF Restored, Vm
<1>. HIDE DEF v
<1>3. Moves(t) /\ IsThread(th[t]) /\ th'[t] = Networked(x, "pool")
  BY <1>1, SetMoves, Zenon
<1>4. IsThread(x) /\ x.cfg = th[t].cfg /\ x.vm = v /\ x.writes = th[t].writes
  BY <1>3 DEF IsThread
<1>. HIDE DEF x
<1>5. th'[t].cfg = th[t].cfg /\ th'[t].vm = v /\ th'[t].writes = th[t].writes
  <2>1. SameVm(x, th'[t])
    BY <1>3, <1>4, NetworkedIs, Zenon
  <2>. QED BY <1>4, <2>1, Zenon DEF SameVm
<1>6. th[t].pc # "create"
  BY <1>1
<1>. QED BY <1>1, <1>2, <1>3, <1>5, <1>6, VmStep, Zenon

\* build_vm writes the image, or refuses it.
LEMMA BuildFits == ASSUME IInv, LayoutInv, NEW t \in Threads, Build(t) PROVE LayoutInv'
<1>. USE Zenon
<1>. DEFINE writes == BuildImage(VmConfig(Cfg(t)), Cfg(t).kernel)
            v == Vm("cold", <<t>>, <<t>>, None, TRUE)
            next == IF th[t].save THEN "boot" ELSE "run"
            x == [th[t] EXCEPT !.vm = v, !.writes = writes]
            y == [th[t] EXCEPT !.pc = "done", !.writes = writes, !.save = FALSE]
<1>1. /\ workload' = workload /\ pool' = pool /\ left' = left /\ th[t].pc = "build"
      /\ ((writes = None /\ Set(t, y)) \/ Set(t, Networked(x, next)))
  BY DEF Build, At, l4
<1>2. writes = Image(th[t])
  BY DEF Image, Cfg
<1>3. v.via # "none" /\ th[t].pc # "create"
  BY <1>1, SMT DEF Vm
<1>. HIDE DEF v, writes, next
<1>4. CASE Set(t, Networked(x, next))
  <2>1. Moves(t) /\ IsThread(th[t]) /\ th'[t] = Networked(x, next)
    BY <1>4, SetMoves
  <2>2. IsThread(x) /\ x.cfg = th[t].cfg /\ x.vm = v /\ x.writes = writes
    BY <2>1 DEF IsThread
  <2>. HIDE DEF x
  <2>3. th'[t].cfg = th[t].cfg /\ th'[t].vm = v /\ th'[t].writes = writes
    <3>1. SameVm(x, th'[t])
      BY <2>1, <2>2, NetworkedIs
    <3>. QED BY <2>2, <3>1 DEF SameVm
  <2>. QED BY <1>1, <1>2, <1>3, <2>1, <2>3, VmStep
<1>5. CASE writes = None /\ Set(t, y)
  <2>1. Moves(t) /\ IsThread(th[t]) /\ th'[t] = y
    BY <1>5, SetMoves
  <2>2. /\ th'[t].cfg = th[t].cfg /\ th'[t].writes = None
        /\ th'[t].pc \notin Running
    BY <1>5, <2>1, SMT DEF IsThread, Running
  <2>. HIDE DEF y
  <2>3. Image(th'[t]) = None
    BY <1>2, <1>5, <2>2 DEF Image
  <2>4. Fits(t, th[t], left)
    BY DEF LayoutInv
  <2>5. Fits(t, th'[t], left')
    BY <2>2, <2>3, <2>4 DEF Fits, ConfigOK, BuiltOK, EndsOK
  <2>6. Falls(left, left')
    BY <1>1, NothingFalls DEF LayoutInv
  <2>. QED BY <1>1, <2>1, <2>5, <2>6, PoolStays, LayoutStep
<1>. QED BY <1>1, <1>4, <1>5

\* What concerns all threads at once.
LEMMA LayoutAll ==
  ASSUME LayoutInv, workload' = workload, Falls(left, left'),
         pool' # None => pool'[1].mem \in Nat, \A u \in Threads : Fits(u, th'[u], left')
  PROVE  LayoutInv'
<1>1. \A u \in Threads : Fits(u, th[u], left)'
  BY Zenon DEF Fits, ConfigOK, EndsOK, Mishap, Req
<1>2. LeftOK(left)'
  BY Zenon DEF Falls, LeftOK
<1>. QED BY <1>1, <1>2, Zenon DEF LayoutInv

\* save_snapshot opens the memory file, under whoever maps it.
LEMMA OpenDumpFits == ASSUME IInv, LayoutInv, NEW t \in Threads, OpenDump(t) PROVE LayoutInv'
<1>. USE Zenon
<1>. DEFINE key == CacheKey(Cfg(t))
<1>1. /\ workload' = workload /\ pool' = pool /\ left' = left /\ th[t].pc = "dump"
      /\ th' = [u \in Threads |-> IF u = t THEN [th[t] EXCEPT !.pc = "dumping"]
                                  ELSE [th[u] EXCEPT !.vm = Rewritten(key, @)]]
  BY DEF OpenDump, At
<1>. HIDE DEF key
<1>2. Falls(left, left')
  BY <1>1, NothingFalls DEF LayoutInv
<1>3. ASSUME NEW u \in Threads PROVE Fits(u, th'[u], left')
  <2>1. IsThread(th[u]) /\ IsVm(th[u].vm) /\ Fits(u, th[u], left)
    BY DEF IInv, ThreadOK, Configured, LayoutInv
  <2>2. CASE u = t
    <3>1. th'[u] = [th[u] EXCEPT !.pc = "dumping"]
      BY <1>1, <2>2
    <3>2. /\ th'[u].cfg = th[u].cfg /\ th'[u].writes = th[u].writes
          /\ th'[u].vm = th[u].vm /\ th'[u].pc # "done" /\ th[u].pc \in Running
      BY <1>1, <2>1, <2>2, <3>1, SMT DEF IsThread, Running
    <3>3. th'[u].vm.via = th[u].vm.via
      BY <3>2
    <3>. QED BY <1>1, <2>1, <3>2, <3>3, KeptFits
  <2>3. CASE u # t
    <3>1. th'[u] = [th[u] EXCEPT !.vm = Rewritten(key, th[u].vm)]
      BY <1>1, <2>3
    <3>2. /\ th'[u].cfg = th[u].cfg /\ th'[u].writes = th[u].writes
          /\ th'[u].vm = Rewritten(key, th[u].vm) /\ th'[u].pc = th[u].pc
      BY <2>1, <3>1, SMT DEF IsThread
    <3>3. Rewritten(key, th[u].vm).via = th[u].vm.via
      BY <2>1, SMT DEF Rewritten, IsVm
    <3>4. th'[u].vm.via = th[u].vm.via
      BY <3>2, <3>3
    <3>. QED BY <1>1, <2>1, <3>2, <3>4, KeptFits
  <2>. QED BY <2>2, <2>3
<1>. QED BY <1>1, <1>2, <1>3, PoolStays, LayoutAll

\* The pool's factory works on no thread.
LEMMA FactoryFits == ASSUME LayoutInv, FactoryReads \/ FactoryMaps PROVE LayoutInv'
<1>. USE Zenon
<1>1. workload' = workload /\ pool' = pool /\ th' = th
  BY DEF FactoryReads, FactoryMaps
<1>2. /\ Falls(left, left') /\ (Mishap(left) => Mishap(left'))
  <2>1. CASE left' = left
    BY <2>1, NothingFalls DEF LayoutInv
  <2>2. CASE left.refills > 0 /\ left' = [left EXCEPT !.refills = @ - 1]
    <3>1. LeftOK(left)
      BY DEF LayoutInv
    <3>2. left' \in [crashes : Nat, faults : Nat, refills : Nat]
          /\ left'.crashes = left.crashes /\ left'.faults = left.faults
          /\ left.crashes \in Nat /\ left.faults \in Nat
      BY <2>2, <3>1, SMT DEF LeftOK
    <3>3. Falls(left, left')
      BY <3>1, <3>2, SMT DEF LeftOK, Falls
    <3>. QED BY <3>2, <3>3 DEF Mishap
  <2>. QED BY <2>1, <2>2 DEF FactoryReads, FactoryMaps
<1>3. ASSUME NEW u \in Threads PROVE Fits(u, th'[u], left')
  <2>1. Fits(u, th[u], left)
    BY DEF LayoutInv
  <2>. QED BY <1>1, <1>2, <2>1 DEF Fits, EndsOK
<1>. QED BY <1>1, <1>2, <1>3, PoolStays, LayoutAll

\* The daemon is killed: every thread that had begun is excused.
LEMMA RestartFits == ASSUME IInv, LayoutInv, Restart PROVE LayoutInv'
<1>. USE Zenon
<1>1. /\ workload' = workload /\ pool' = None /\ left.crashes > 0
      /\ left' = [left EXCEPT !.crashes = @ - 1]
      /\ th' = [t \in Threads |-> IF th[t].pc = "create" THEN th[t]
                                  ELSE [th[t] EXCEPT !.pc = "done", !.applied = FALSE]]
  BY DEF Restart
<1>2. Falls(left, left') /\ Mishap(left')
  BY <1>1, CrashFalls DEF LayoutInv
<1>3. ASSUME NEW u \in Threads PROVE Fits(u, th'[u], left')
  <2>1. IsThread(th[u]) /\ Fits(u, th[u], left)
    BY DEF IInv, ThreadOK, Configured, LayoutInv
  <2>2. CASE th[u].pc = "create"
    <3>1. th'[u] = th[u]
      BY <1>1, <2>2
    <3>. QED BY <1>2, <2>1, <3>1 DEF Fits, EndsOK
  <2>3. CASE th[u].pc # "create"
    <3>1. th'[u] = [th[u] EXCEPT !.pc = "done", !.applied = FALSE]
      BY <1>1, <2>3
    <3>2. /\ th'[u].cfg = th[u].cfg /\ th'[u].writes = th[u].writes
          /\ th'[u].vm = th[u].vm /\ th'[u].pc \notin Running
      BY <2>1, <3>1, SMT DEF IsThread, Running
    <3>3. th'[u].vm.via = th[u].vm.via
      BY <3>2
    <3>. QED BY <1>2, <2>1, <3>2, <3>3, KeptFits
  <2>. QED BY <2>2, <2>3
<1>. QED BY <1>1, <1>2, <1>3, LayoutAll

\* At first nothing is configured or built.
LEMMA LayoutInit == ASSUME Init PROVE LayoutInv
<1>1. workload \in Workloads /\ pool = None /\ th = [t \in Threads |-> Fresh]
      /\ left = [crashes |-> workload.crashes, faults |-> workload.faults,
                 refills |-> workload.refills]
  BY Zenon DEF Init
<1>2. workload.crashes \in Nat /\ workload.faults \in Nat /\ workload.refills \in Nat
  BY <1>1, WorkloadsAssumption, Zenon
<1>3. left \in [crashes : Nat, faults : Nat, refills : Nat]
      /\ left.crashes = workload.crashes /\ left.faults = workload.faults
  BY <1>1, <1>2
<1>4. LeftOK(left)
  BY <1>2, <1>3 DEF LeftOK
<1>5. Fresh.cfg = None /\ Fresh.writes = None /\ Fresh.pc \notin Running /\ Fresh.pc # "done"
  BY DEF Fresh, Running
<1>6. ASSUME NEW t \in Threads PROVE Fits(t, th[t], left)
  <2>1. th[t] = Fresh
    BY <1>1, Zenon
  <2>. QED BY <1>5, <2>1, Zenon DEF Fits, ConfigOK, BuiltOK, EndsOK
<1>. QED BY <1>1, <1>4, <1>6, Zenon DEF LayoutInv

\* Every step keeps configurations, images and threads in step.
LEMMA LayoutNext == ASSUME IInv, LayoutInv, [Next]_vars PROVE LayoutInv'
<1>. USE Zenon
<1>1. CASE UNCHANGED vars
  <2>1. workload' = workload /\ left' = left /\ pool' = pool /\ th' = th
    BY <1>1 DEF vars, l4
  <2>2. Falls(left, left')
    BY <2>1, NothingFalls DEF LayoutInv
  <2>3. \A u \in Threads : Fits(u, th'[u], left')
    BY <2>1 DEF LayoutInv
  <2>. QED BY <2>1, <2>2, <2>3, PoolStays, LayoutAll
<1>2. ASSUME NEW t \in Threads, Boots(t) PROVE LayoutInv'
  BY <1>2, CreateFits, MainParsesFits, StartFits, AcquireFits, LookupFits, RestoreFailsFits,
     ReadStateFits, MapMemoryFits, InvalidateFits, SetupNetworkFits, AddMasqueradeFits,
     KvmRefusesFits, BuildFits, BootToMarkerFits, OpenDumpFits, DumpFits, OpenStateFits,
     WriteStateFits, SaveFailsFits, InsertFits, InitPoolFits, VmEndsFits, ZenonT(40) DEF Boots
<1>3. CASE FactoryReads \/ FactoryMaps
  BY <1>3, FactoryFits
<1>4. CASE Restart
  BY <1>4, RestartFits
<1>. QED BY <1>1, <1>2, <1>3, <1>4 DEF Next

\* Every image a thread built lies apart.
LEMMA LayoutApart == ASSUME LeastNumbers, LayoutInv PROVE ImagesApart
<1>. USE Zenon
<1>. SUFFICES ASSUME NEW t \in Threads, th[t].writes # None
              PROVE  LET k == Cfg(t).kernel IN
                     \/ /\ Apart(Cfg(t).mem, th[t].writes[1])
                        /\ PointsAt(Entry(Cfg(t), k), th[t].writes[1])
                     \/ /\ ~IsElf(Cfg(t), k)
                        /\ KERNEL_LOAD_ADDR + KernelCode(k) > INITRD_ADDR
  BY DEF ImagesApart
<1>. DEFINE c == Cfg(t)
            k == Cfg(t).kernel
            d == VmConfig(c)
<1>1. th[t].writes = BuildImage(d, k) /\ ConfigFor(Req(t), c)
  BY DEF LayoutInv, Fits, BuiltOK, ConfigOK, Image, Cfg
<1>2. c.mem \in Nat /\ c.cmdline \in Nat /\ c.initrd \in Nat /\ k = Req(t).kernel
  BY <1>1 DEF ConfigFor
<1>3. WellFormed(k)
  BY <1>2, RequestIs
<1>. HIDE DEF c, k
<1>4. /\ d.mem = c.mem /\ d.initrd = c.initrd /\ d.method = c.method
      /\ d.cmdline \in Nat
  BY <1>2, SMT DEF VmConfig
<1>. HIDE DEF d
<1>5. IsElf(d, k) = IsElf(c, k) /\ Entry(d, k) = Entry(c, k)
  BY <1>4 DEF IsElf, Entry
<1>6. d.mem \in Nat /\ d.initrd \in Nat
  BY <1>2, <1>4
<1>7. \/ Apart(d.mem, BuildImage(d, k)[1]) /\ PointsAt(Entry(d, k), BuildImage(d, k)[1])
      \/ ~IsElf(d, k) /\ KERNEL_LOAD_ADDR + KernelCode(k) > INITRD_ADDR
  BY <1>1, <1>3, <1>4, <1>6, ImageApart DEF None
<1>. QED BY <1>1, <1>4, <1>5, <1>7 DEF c, k

\* load_initrd_at's limit is a number.
LEMMA InitrdBound == InitrdMax \in Int
BY SMT DEF InitrdMax, MiB

\* A sandbox of a pulled image that ends without a VM met a mishap.
LEMMA LayoutFits == ASSUME LeastNumbers, LayoutInv PROVE CreatedFits
<1>. SUFFICES ASSUME NEW t \in Threads, th[t].cfg # None, At(t, "done"),
                     Cfg(t).digest # None, Cfg(t).initrd \in 1 .. InitrdMax,
                     Boots64(Cfg(t).kernel),
                     KernelEnd(LoadSegments(Cfg(t).kernel)) <= MaxKernelEnd,
                     th[t].vm = NoVm, ~Mishap(left)
              PROVE  FALSE
  BY Zenon DEF CreatedFits, Mishap
<1>. DEFINE c == Cfg(t)
            k == Cfg(t).kernel
            d == VmConfig(c)
<1>1. th[t].vm.via = "none"
  BY DEF NoVm, Vm
<1>2. BuildImage(d, k) = None
  BY <1>1, Zenon DEF LayoutInv, Fits, EndsOK, Image, At, Cfg
<1>3. ConfigFor(Req(t), c)
  BY Zenon DEF LayoutInv, Fits, ConfigOK, Cfg
<1>4. c.initrd \in Nat /\ c.initrd # 0 /\ c.initrd <= InitrdMax
  BY InitrdBound
<1>5. /\ c.mem \in Nat /\ k = Req(t).kernel
      /\ c.mem >= MiB * MinMemoryMiB(c.initrd) /\ c.cmdline = 150 /\ c.method = "elf"
  BY <1>3, <1>4, Zenon DEF ConfigFor
<1>6. WellFormed(k)
  BY <1>5, RequestIs, Zenon
<1>7. Boots64(k) /\ KernelEnd(LoadSegments(k)) <= 170 * MiB
  BY Zenon DEF MaxKernelEnd
<1>. HIDE DEF c, k
<1>8. d.mem = c.mem /\ d.initrd = c.initrd /\ d.method = c.method /\ d.cmdline = 163
  BY <1>4, <1>5, SMT DEF VmConfig
<1>. HIDE DEF d
<1>9. Sized(d)
  BY <1>4, <1>8, SMT DEF Sized, CMDLINE_MAX_SIZE
<1>10. /\ d.mem \in Nat /\ d.initrd # 0 /\ d.initrd <= InitrdMax /\ d.method = "elf"
       /\ d.mem >= MiB * MinMemoryMiB(d.initrd)
  BY <1>4, <1>5, <1>8, Zenon
<1>11. BuildImage(d, k) # <<>>
  BY <1>6, <1>7, <1>9, <1>10, ImageFits, SMT
<1>. QED BY <1>2, <1>11, Zenon DEF None

-----------------------------------------------------------------------------
(* Numbers and finite sets.  The library's theorems come with a copy of    *)
(* IsFiniteSet and Cardinality: the definitions of both are the same.      *)

Listed(S) == \E seq \in Seq(S) : \A s \in S : \E n \in 1 .. Len(seq) : seq[n] = s
Counted(S) ==
  LET CS[T \in SUBSET S] == IF T = {} THEN 0 ELSE 1 + CS[T \ {CHOOSE x : x \in T}] IN CS[S]

\* The finitely many threads of the daemon.
LEMMA ThreadsListed == Listed(Threads)
BY ThreadsAssumption DEF IsFiniteSet, Listed

\* What is to be shown of the library's Cardinality.
LEMMA CountingIs ==
  ASSUME Counted({}) = 0, \A S \in SUBSET Threads : Counted(S) \in Nat,
         \A S \in SUBSET Threads, t \in Threads : t \notin S => Counted(S \cup {t}) = Counted(S) + 1
  PROVE  Counting
<1>1. \A S : Cardinality(S) = Counted(S)
  BY DEF Cardinality, Counted
<1>. QED BY <1>1 DEF Counting

LOCAL INSTANCE FiniteSetTheorems

\* A set of threads is finite, and a thread more is one more.
LEMMA ThreadsCounted == Counting
<1>1. ASSUME NEW S PROVE Cardinality(S) = Counted(S)
  BY DEF Cardinality, Counted
<1>2. IsFiniteSet(Threads)
  BY ThreadsListed DEF IsFiniteSet, Listed
<1>3. ASSUME NEW S \in SUBSET Threads PROVE IsFiniteSet(S) /\ Cardinality(S) \in Nat
  BY <1>2, FS_Subset, FS_CardinalityType, Zenon
<1>4. ASSUME NEW S \in SUBSET Threads, NEW t \in Threads, t \notin S
      PROVE  Cardinality(S \cup {t}) = Cardinality(S) + 1
  BY <1>3, <1>4, FS_AddElement, Zenon
<1>5. Cardinality({}) = 0
  BY FS_EmptySet
<1>. QED BY <1>1, <1>3, <1>4, <1>5, CountingIs, SMTT(30)

\* A set of numbers has a least one.
LEMMA LeastNumber == LeastNumbers
<1>. SUFFICES ASSUME NEW T \in SUBSET Nat, T # {} PROVE \E n \in T : \A k \in T : n <= k
  BY Zenon DEF LeastNumbers
<1>. DEFINE R == {ss \in Nat \X Nat : ss[1] < ss[2]}
<1>1. IsWellFoundedOn(R, Nat)
  BY NatLessThanWellFounded DEF OpToRel
<1>. HIDE DEF R
<1>2. PICK n \in T : \A k \in T : ~(<<k, n>> \in R)
  BY <1>1, WFMin, Zenon
<1>3. ASSUME NEW k \in T, ~(n <= k) PROVE FALSE
  <2>1. <<k, n>> \in R
    BY <1>3 DEF R
  <2>. QED BY <1>2, <2>1, Zenon
<1>. QED BY <1>3

-----------------------------------------------------------------------------
(* The theorems.                                                           *)

\* The inductive invariant of the boot path, for every number of threads and
\* every workload: whatever spawn_vm_thread, SnapshotCache, the warm pool and
\* the network set-up do at the same time, and whenever the daemon is killed.
THEOREM BootInvariant == Spec => []IInv
<1>1. Init => IInv
  BY InitSafe, ThreadsCounted, Zenon
<1>2. IInv /\ [Next]_vars => IInv'
  BY NextSafe, ThreadsCounted, Zenon
<1>. QED BY <1>1, <1>2, PTL DEF Spec

\* A VM restored by the HIT path of spawn_vm_thread was saved by a boot whose
\* cache key is its own, which names the image, size, command line and command.
THEOREM BootRestoresAsked == Spec => []RestoredAsAsked
<1>1. ASSUME NEW c, NEW d, CacheKey(c) = CacheKey(d) PROVE SameSandbox(c, d)
  BY <1>1 DEF CacheKey, SameSandbox
<1>2. IInv => RestoredAsAsked
  <2>1. SUFFICES ASSUME IInv, NEW t \in Threads, th[t].vm.via = "l3"
                 PROVE  /\ SameSandbox(Cfg(th[t].vm.regs[1]), Cfg(t))
                        /\ SameSandbox(Cfg(th[t].vm.mem[1]), Cfg(t))
    BY DEF RestoredAsAsked
  <2>2. /\ Key(th[th[t].vm.regs[1]]) = Key(th[t]) /\ Key(th[th[t].vm.mem[1]]) = Key(th[t])
    BY <2>1, ZenonT(40) DEF IInv, ThreadOK, ReadsOwn, BootedFor
  <2>. QED BY <1>1, <2>2, ZenonT(40) DEF Key, Cfg
<1>. QED BY <1>2, BootInvariant, PTL

\* A VM restored from a snapshot that no boot has rewritten while it was in use
\* runs the registers and the memory of one complete save.
THEOREM BootRestoresWhole == Spec => []RestoredWhole
<1>1. IInv => RestoredWhole
  <2>1. SUFFICES ASSUME IInv, NEW vm \in LiveVms PROVE VmWhole(vm)
    BY Zenon DEF RestoredWhole, VmWhole, Restores
  <2>2. CASE \E t \in Threads : vm = th[t].vm /\ Alive(th[t])
    BY <2>1, <2>2, Zenon DEF IInv, ThreadOK
  <2>3. CASE \E i \in 1 .. Len(warm) : vm = warm[i]
    BY <2>1, <2>3, Zenon DEF IInv, PoolOK
  <2>4. CASE filling # None /\ vm = filling[1]
    <3>1. vm.via \in {"none", "reading"}
      BY <2>1, <2>4, ZenonT(40) DEF IInv, PoolOK
    <3>. QED BY <3>1 DEF VmWhole, Restores
  <2>. QED BY <2>2, <2>3, <2>4 DEF LiveVms, Alive
<1>. QED BY <1>1, BootInvariant, PTL

\* The index on disk names complete snapshots only: SnapshotCache::insert runs
\* after the two files are written, and a daemon that dies before finds nothing.
THEOREM BootIndexesSaved == Spec => []IndexedIsSaved
<1>1. IInv => IndexedIsSaved
  BY Zenon DEF IInv, StoreOK, Valid, Complete, IndexedIsSaved
<1>. QED BY <1>1, BootInvariant, PTL

\* No masquerade rule outlives the VMs that remove one, but for those that a
\* killed daemon left behind.
THEOREM BootLeavesNoNat == Spec => []NoStrayNat
<1>1. IInv => NoStrayNat
  BY DEF IInv
<1>. QED BY <1>1, BootInvariant, PTL

\* The images and the threads fit in every reachable state.
THEOREM BootLayout == Spec => []LayoutInv
<1>1. Init => LayoutInv
  BY LayoutInit, Zenon
<1>2. IInv /\ LayoutInv /\ [Next]_vars => LayoutInv'
  BY LayoutNext, Zenon
<1>. QED BY <1>1, <1>2, BootInvariant, PTL DEF Spec

\* ImagesApart: kernel, initrd, command line, boot parameters, page tables
\* and GDT of every VM that was built lie apart, in RAM the guest is told of,
\* and the boot CPU's registers point at them.
THEOREM BootImagesApart == Spec => []ImagesApart
<1>1. LayoutInv => ImagesApart
  BY LayoutApart, LeastNumber, Zenon
<1>. QED BY <1>1, BootLayout, PTL

\* CreatedFits: with the memory create_sandbox gives it, no sandbox of a
\* pulled image with a valid kernel fails to build for want of memory.
THEOREM BootCreatedFits == Spec => []CreatedFits
<1>1. LayoutInv => CreatedFits
  BY LayoutFits, LeastNumber, Zenon
<1>. QED BY <1>1, BootLayout, PTL
=============================================================================
