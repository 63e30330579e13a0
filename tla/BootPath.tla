------------------------------ MODULE BootPath ------------------------------
(***************************************************************************)
(* How a sandbox gets its VM: create_sandbox's configuration and its L4    *)
(* fast path, and the VM threads spawn_vm_thread starts.  A thread tries   *)
(* the pre-warmed pool (L4), then the snapshot cache (L3), then boots cold *)
(* and saves a snapshot at the guest's "container ready" marker.  The pool *)
(* is set up by the first thread that has a snapshot and refills itself    *)
(* from that snapshot's directory.                                         *)
(*                                                                         *)
(* Snapshots are two files written one after the other, with no temporary  *)
(* name, in a directory named by the L3 key; restored VMs map the memory   *)
(* file.  The index is rewritten through a temporary file.  The daemon may *)
(* be killed at any step and started again.  Host networking is one TAP    *)
(* interface and one NAT rule, shared by all VMs of the daemon.            *)
(*                                                                         *)
(* Left to other modules: the pool's own locking (VmPool), handles and the *)
(* orchestrator (SandboxDaemon), what runs inside KVM_RUN (VcpuLoop).      *)
(***************************************************************************)
EXTENDS GuestImage, FiniteSets

CONSTANTS
  Threads,      \* sandboxes, each with its VM thread
  Workloads,    \* [ops : [Threads -> request], tap, crashes, faults]
  PoolTarget    \* PoolConfig.target_pool_size

ASSUME ThreadsAssumption == IsFiniteSet(Threads)

\* Sizes are numbers, a configuration file gives a memory size, and kernel
\* files are as a linker lays them out.
ASSUME WorkloadsAssumption ==
  \A w \in Workloads :
    /\ w.crashes \in Nat /\ w.faults \in Nat /\ w.refills \in Nat
    /\ \A t \in Threads : LET r == w.ops[t] IN
         /\ r.asked \in Seq(Nat) /\ (r.via = "main" => r.asked # <<>>)
         /\ r.initrd \in Nat /\ r.rootfs \in Nat /\ r.cmdline \in Nat
         /\ WellFormed(r.kernel)

VARIABLES
  workload,     \* what the clients ask for, and what may go wrong
  th,           \* the VM thread of each sandbox
  dir,          \* snapshots/<key>: [mem, full, state]
  cache,        \* SnapshotCache.index: key |-> valid
  index,        \* snapshot_cache_index.json
  pool,         \* Option<(VmPool, L4PoolMeta)>
  warm,         \* the pool's ready queue
  filling,      \* the VM the pool's factory is restoring
  host,         \* [tap: a TAP fd is open, nat: masquerade rules, stale: of
                \*  them, how many a killed daemon left behind]
  clobbered,    \* keys whose files were rewritten while in use (history)
  left          \* crashes and faults still to come

disk == <<dir, index>>
l4 == <<pool, warm, filling>>
vars == <<workload, th, disk, cache, l4, host, clobbered, left>>

None == <<>>
Put(f, k, v) == [x \in DOMAIN f \cup {k} |-> IF x = k THEN v ELSE f[x]]
Req(t) == workload.ops[t]

\* A VM: who booted the registers and the memory it runs, the key of the
\* snapshot file it maps, and whether that file has stayed as it was.
Vm(via, regs, mem, key, whole) ==
  [via |-> via, regs |-> regs, mem |-> mem, key |-> key, whole |-> whole]
NoVm == Vm("none", None, None, None, TRUE)
Fresh == [pc |-> "create", cfg |-> None, vm |-> NoVm, writes |-> None,
          save |-> FALSE, read |-> None, next |-> "none", applied |-> FALSE]

Set(t, f) == th' = [th EXCEPT ![t] = f]
Goto(t, pc) == Set(t, [th[t] EXCEPT !.pc = pc])
At(t, pc) == th[t].pc = pc
Cfg(t) == th[t].cfg[1]

\* Every thread that is alive and holds a VM, and the pool's VMs.
LiveVms == {th[t].vm : t \in {u \in Threads : th[u].pc \notin {"create", "created", "done"}}}
           \cup {warm[i] : i \in 1 .. Len(warm)}
           \cup (IF filling = None THEN {} ELSE {filling[1]})

-----------------------------------------------------------------------------
\* L3 cache key: digest and a hash of vcpus, memory, command line and command.
CacheKeyNoCommand(c) == [digest |-> c.digest, mem |-> c.mem, vcpus |-> c.vcpus,
                         rdinit |-> c.initrd > 0]                    \* mutant
CacheKey(c) == [digest |-> c.digest, mem |-> c.mem, vcpus |-> c.vcpus,
                rdinit |-> c.initrd > 0, command |-> c.command]
HasSnapshotSupport(c) == c.digest # None

\* build_vm_config: what build_vm is given; rdinit=/init only with an initrd.
VmConfig(c) == [mem |-> c.mem, method |-> c.method, initrd |-> c.initrd,
                cmdline |-> c.cmdline + (IF c.initrd > 0 THEN 13 ELSE 0)]

\* create_sandbox when the pool has a warm VM of the image: no pull, the
\* pool's digest and size, and a rootfs ("L4_POOL") that is no initrd.
FastPath(t) == /\ pool # None
               /\ pool[1].image = Req(t).image /\ Req(t).image # None
               /\ warm # <<>>
FastConfig(t) ==
  [digest |-> pool[1].digest, mem |-> pool[1].mem, vcpus |-> pool[1].vcpus,
   initrd |-> 0, cmdline |-> 150, method |-> "elf", command |-> Req(t).command,
   image |-> Req(t).image, kernel |-> Req(t).kernel]

\* create_sandbox after the pull: one that fails leaves neither digest nor
\* initrd; the request's own rootfs, if it is a cpio file, is then used, and
\* the memory does not scale with it.
PulledConfig(t, pulled) ==
  [digest |-> IF pulled THEN Req(t).digest ELSE None,
   mem |-> SandboxMemory(Req(t).asked, IF pulled THEN Req(t).initrd ELSE 0),
   vcpus |-> Req(t).vcpus,
   initrd |-> IF pulled THEN Req(t).initrd ELSE Req(t).rootfs,
   cmdline |-> 150, method |-> "elf", command |-> Req(t).command,
   image |-> IF pulled THEN Req(t).image ELSE None, kernel |-> Req(t).kernel]

Create(t) ==
  /\ At(t, "create") /\ Req(t).via = "daemon"
  /\ \/ FastPath(t) /\ Set(t, [th[t] EXCEPT !.pc = "created", !.cfg = <<FastConfig(t)>>])
     \/ /\ ~FastPath(t)
        /\ \E pulled \in BOOLEAN :
              /\ pulled => Req(t).image # None
              /\ ~pulled /\ Req(t).image # None => left.faults > 0
              /\ Set(t, [th[t] EXCEPT !.pc = "created", !.cfg = <<PulledConfig(t, pulled)>>])
  /\ UNCHANGED <<workload, disk, cache, l4, host, clobbered, left>>

\* nova-vmm <config.toml>: the same build, from a configuration file.
MainConfig(t) ==
  [digest |-> None, mem |-> MiB * Req(t).asked[1], vcpus |-> 1,
   initrd |-> Req(t).initrd, cmdline |-> Req(t).cmdline, method |-> Req(t).method,
   command |-> None, image |-> None, kernel |-> Req(t).kernel]

MainParses(t) ==
  /\ At(t, "create") /\ Req(t).via = "main"
  /\ Set(t, [th[t] EXCEPT !.pc = "build", !.cfg = <<MainConfig(t)>>])
  /\ UNCHANGED <<workload, disk, cache, l4, host, clobbered, left>>

\* start_sandbox: the thread is spawned.
Start(t) ==
  /\ At(t, "created")
  /\ Goto(t, "acquire")
  /\ UNCHANGED <<workload, disk, cache, l4, host, clobbered, left>>

-----------------------------------------------------------------------------
\* Host networking.  TAP is exclusive: opening fails while an fd is open.
\* The fd is forgotten on purpose and nothing closes it but the process.
OpenTap == host' = [host EXCEPT !.tap = TRUE]

\* Continue with the NAT setup if a TAP is configured, else go on.
Networked(x, next) == IF workload.tap THEN [x EXCEPT !.pc = "setup", !.next = next]
                                      ELSE [x EXCEPT !.pc = next]
NetHost == IF workload.tap THEN OpenTap ELSE UNCHANGED host

\* NetworkSetup::setup: link, sysctl and the rule's check; any of the first
\* two may fail and ends it, which the callers only log.
SetupNetwork(t) ==
  /\ At(t, "setup")
  /\ \/ /\ left.faults > 0
        /\ left' = [left EXCEPT !.faults = @ - 1]
        /\ Goto(t, th[t].next)
     \/ /\ IF host.nat = 0 THEN Goto(t, "masquerade")
           ELSE Set(t, [th[t] EXCEPT !.pc = th[t].next, !.applied = TRUE])
        /\ UNCHANGED left
  /\ UNCHANGED <<workload, disk, cache, l4, host, clobbered>>

\* iptables -A, after the check found no rule.
AddMasquerade(t) ==
  /\ At(t, "masquerade")
  /\ \/ /\ left.faults > 0
        /\ left' = [left EXCEPT !.faults = @ - 1]
        /\ Goto(t, th[t].next)
        /\ UNCHANGED host
     \/ /\ host' = [host EXCEPT !.nat = @ + 1]
        /\ Set(t, [th[t] EXCEPT !.pc = th[t].next, !.applied = TRUE])
        /\ UNCHANGED left
  /\ UNCHANGED <<workload, disk, cache, l4, clobbered>>

\* NetworkSetup's drop: teardown removes one rule if it was applied.
TeardownForgets(t) == UNCHANGED host                                \* mutant
Teardown(t) ==
  IF th[t].applied /\ host.nat > 0
  THEN host' = [host EXCEPT !.nat = @ - 1] ELSE UNCHANGED host

-----------------------------------------------------------------------------
\* L4: whatever image the pool's VMs are of.  A VM whose factory failed has
\* no payload, and the thread goes on to L3.
Acquire(t) ==
  /\ At(t, "acquire")
  /\ \/ /\ pool = None \/ warm = <<>>
        /\ Goto(t, "lookup") /\ UNCHANGED <<warm, host>>
     \/ /\ pool # None /\ warm # <<>>
        /\ warm' = Tail(warm)
        /\ IF Head(warm).via = "none" THEN Goto(t, "lookup") /\ UNCHANGED host
           ELSE Set(t, Networked([th[t] EXCEPT !.vm = Head(warm)], "run")) /\ NetHost
  /\ UNCHANGED <<workload, disk, cache, pool, filling, clobbered, left>>

\* SnapshotCache::flush: the index file, through a temporary one.
FlushSnapshots == index' = cache'

\* SnapshotCache::get, the lock released before the entry is used.
Cached(key) == key \in DOMAIN cache /\ cache[key] /\ key \in DOMAIN dir

LookupHit(c) == HasSnapshotSupport(c) /\ Cached(CacheKey(c))

Lookup(t) ==
  /\ At(t, "lookup")
  /\ IF LookupHit(Cfg(t)) THEN Goto(t, "read")
     ELSE Set(t, [th[t] EXCEPT !.pc = "build", !.save = HasSnapshotSupport(Cfg(t))])
  /\ UNCHANGED <<workload, disk, cache, l4, host, clobbered, left>>

\* restore_snapshot.  vm_state.json first: missing, half-written or refused
\* by KVM is an error.
Readable(key) == key \in DOMAIN dir /\ dir[key].state # None
RestoreFails(t) ==
  /\ \/ At(t, "read") /\ ~Readable(CacheKey(Cfg(t))) /\ UNCHANGED left
     \/ At(t, "map") /\ dir[CacheKey(Cfg(t))].mem = None /\ UNCHANGED left
     \/ /\ th[t].pc \in {"read", "map"} /\ left.faults > 0
        /\ left' = [left EXCEPT !.faults = @ - 1]
  /\ Set(t, [th[t] EXCEPT !.pc = "invalidate", !.read = None])
  /\ UNCHANGED <<workload, disk, cache, l4, host, clobbered>>

ReadState(t) ==
  /\ At(t, "read") /\ Readable(CacheKey(Cfg(t)))
  /\ Set(t, [th[t] EXCEPT !.pc = "map", !.read = dir[CacheKey(Cfg(t))].state])
  /\ UNCHANGED <<workload, disk, cache, l4, host, clobbered, left>>

\* Then the memory file is mapped privately.  Pages not yet touched are the
\* file's, so the file has to stay as it is.
Restored(via, key, state) ==
  Vm(via, state, dir[key].mem, <<key>>, dir[key].full)
MapMemory(t) ==
  LET key == CacheKey(Cfg(t)) IN
  /\ At(t, "map") /\ dir[key].mem # None
  /\ Set(t, Networked([th[t] EXCEPT !.vm = Restored("l3", key, th[t].read)], "pool"))
  /\ NetHost
  /\ UNCHANGED <<workload, disk, cache, l4, clobbered, left>>

\* The entry is marked invalid and the index rewritten; the cold boot that
\* follows saves nothing.
Invalidate(t) ==
  LET key == CacheKey(Cfg(t)) IN
  /\ At(t, "invalidate")
  /\ IF key \in DOMAIN cache
     THEN cache' = [cache EXCEPT ![key] = FALSE] /\ FlushSnapshots
     ELSE UNCHANGED <<cache, index>>
  /\ Set(t, [th[t] EXCEPT !.pc = "build", !.save = FALSE])
  /\ UNCHANGED <<workload, dir, l4, host, clobbered, left>>

-----------------------------------------------------------------------------
\* build_vm, up to the guest memory: KVM or the kernel file may refuse.
KvmRefuses(t) ==
  /\ At(t, "build") /\ left.faults > 0
  /\ left' = [left EXCEPT !.faults = @ - 1]
  /\ Set(t, [th[t] EXCEPT !.pc = "done", !.save = FALSE])
  /\ UNCHANGED <<workload, disk, cache, l4, host, clobbered>>

\* The rest of build_vm: the TAP is opened before the kernel is loaded; an
\* error ends the thread.
Build(t) ==
  LET writes == BuildImage(VmConfig(Cfg(t)), Cfg(t).kernel) IN
  /\ At(t, "build")
  /\ NetHost
  /\ IF writes = None THEN Set(t, [th[t] EXCEPT !.pc = "done", !.writes = writes, !.save = FALSE])
     ELSE Set(t, Networked([th[t] EXCEPT !.vm = Vm("cold", <<t>>, <<t>>, None, TRUE),
                                         !.writes = writes],
                           IF th[t].save THEN "boot" ELSE "run"))
  /\ UNCHANGED <<workload, disk, cache, l4, clobbered, left>>

\* run_vcpu_until_match.  Every way it returns Ok is followed by the save:
\* the marker, but also a halt, a reset or the two-minute timeout.
BootToMarker(t) ==
  /\ At(t, "boot")
  /\ \/ Goto(t, "dump") /\ UNCHANGED left
     \/ /\ left.faults > 0
        /\ left' = [left EXCEPT !.faults = @ - 1]
        /\ Goto(t, "run")
  /\ UNCHANGED <<workload, disk, cache, l4, host, clobbered>>

\* save_snapshot: the directory, the memory file (created or truncated, then
\* written), and the state file, likewise.  A failing write is only logged.
Saving == {"dumping", "state", "writing"}
InUse(t, key) ==
  \/ key \in DOMAIN cache /\ cache[key]
  \/ \E vm \in LiveVms : vm.key = <<key>>
  \/ \E u \in Threads \ {t} : /\ th[u].pc \in Saving \cup {"insert", "read", "map", "pool"}
                              /\ CacheKey(Cfg(u)) = key
  \/ pool # None /\ pool[1].key = key
EmptyDir == [mem |-> None, full |-> FALSE, state |-> None]
Rewritten(key, vm) == IF vm.key = <<key>> THEN [vm EXCEPT !.whole = FALSE] ELSE vm

OpenDumpInserts(t) ==       \* mutant: the entry is made before the files are
  LET key == CacheKey(Cfg(t))
      was == IF key \in DOMAIN dir THEN dir[key] ELSE EmptyDir
  IN
  /\ At(t, "dump")
  /\ dir' = Put(dir, key, [was EXCEPT !.mem = <<t>>, !.full = FALSE])
  /\ cache' = Put(cache, key, TRUE) /\ index' = cache'
  /\ Goto(t, "dumping")
  /\ UNCHANGED <<workload, l4, host, clobbered, left>>
OpenDump(t) ==
  LET key == CacheKey(Cfg(t))
      was == IF key \in DOMAIN dir THEN dir[key] ELSE EmptyDir
  IN
  /\ At(t, "dump")
  /\ dir' = Put(dir, key, [was EXCEPT !.mem = <<t>>, !.full = FALSE])
  /\ clobbered' = clobbered \cup (IF InUse(t, key) THEN {key} ELSE {})
  /\ th' = [u \in Threads |-> IF u = t THEN [th[t] EXCEPT !.pc = "dumping"]
                              ELSE [th[u] EXCEPT !.vm = Rewritten(key, @)]]
  /\ warm' = [i \in 1 .. Len(warm) |-> Rewritten(key, warm[i])]
  /\ filling' = [i \in 1 .. Len(filling) |-> Rewritten(key, filling[i])]
  /\ UNCHANGED <<workload, index, cache, pool, host, left>>

DumpShort(t) ==             \* mutant: write() where write_all() is needed
  /\ At(t, "dumping")
  /\ Goto(t, "state")
  /\ UNCHANGED <<workload, disk, cache, l4, host, clobbered, left>>
Dump(t) ==
  LET key == CacheKey(Cfg(t)) IN
  /\ At(t, "dumping")
  /\ dir' = [dir EXCEPT ![key].mem = <<t>>, ![key].full = TRUE]
  /\ Goto(t, "state")
  /\ UNCHANGED <<workload, index, cache, l4, host, clobbered, left>>

OpenState(t) ==
  /\ At(t, "state")
  /\ dir' = [dir EXCEPT ![CacheKey(Cfg(t))].state = None]
  /\ Goto(t, "writing")
  /\ UNCHANGED <<workload, index, cache, l4, host, clobbered, left>>

WriteState(t) ==
  /\ At(t, "writing")
  /\ dir' = [dir EXCEPT ![CacheKey(Cfg(t))].state = <<t>>]
  /\ Goto(t, "insert")
  /\ UNCHANGED <<workload, index, cache, l4, host, clobbered, left>>

SaveFails(t) ==
  /\ th[t].pc \in Saving \cup {"dump"} /\ left.faults > 0
  /\ left' = [left EXCEPT !.faults = @ - 1]
  /\ Goto(t, "run")
  /\ UNCHANGED <<workload, disk, cache, l4, host, clobbered>>

\* SnapshotCache::insert and its flush, under the cache's mutex.
Insert(t) ==
  /\ At(t, "insert")
  /\ cache' = Put(cache, CacheKey(Cfg(t)), TRUE)
  /\ FlushSnapshots
  /\ Goto(t, "pool")
  /\ UNCHANGED <<workload, dir, l4, host, clobbered, left>>

-----------------------------------------------------------------------------
\* The pool is created once, by the first thread that has a snapshot.
InitPool(t) ==
  /\ At(t, "pool")
  /\ pool' = IF pool # None THEN pool
             ELSE <<[key |-> CacheKey(Cfg(t)), image |-> Cfg(t).image,
                     digest |-> Cfg(t).digest, mem |-> Cfg(t).mem, vcpus |-> Cfg(t).vcpus]>>
  /\ Goto(t, "run")
  /\ UNCHANGED <<workload, disk, cache, warm, filling, host, clobbered, left>>

\* The replenisher's factory: restore_snapshot of the pool's directory, whose
\* failure makes a VM without payload.
FactoryReads ==
  /\ pool # None /\ filling = None /\ Len(warm) < PoolTarget
  /\ left.refills > 0 /\ left' = [left EXCEPT !.refills = @ - 1]
  /\ filling' = <<IF Readable(pool[1].key)
                  THEN Vm("reading", dir[pool[1].key].state, None, None, TRUE) ELSE NoVm>>
  /\ UNCHANGED <<workload, th, disk, cache, pool, warm, host, clobbered>>

FactoryMaps ==
  /\ filling # None
  /\ warm' = Append(warm, IF filling[1].via = "none" \/ dir[pool[1].key].mem = None THEN NoVm
                          ELSE Restored("pool", pool[1].key, filling[1].regs))
  /\ filling' = None
  /\ UNCHANGED <<workload, th, disk, cache, pool, host, clobbered, left>>

\* The interactive run loop returns, the BuiltVm is dropped, the thread ends.
VmEnds(t) ==
  /\ At(t, "run")
  /\ Teardown(t)
  /\ Set(t, [th[t] EXCEPT !.pc = "done", !.applied = FALSE])
  /\ UNCHANGED <<workload, disk, cache, l4, clobbered, left>>

\* The daemon is killed and started again: threads, the pool and open files
\* are gone, the index is read back.
Restart ==
  /\ left.crashes > 0 /\ left' = [left EXCEPT !.crashes = @ - 1]
  /\ th' = [t \in Threads |-> IF th[t].pc = "create" THEN th[t]
                              ELSE [th[t] EXCEPT !.pc = "done", !.applied = FALSE]]
  /\ cache' = index
  /\ pool' = None /\ warm' = <<>> /\ filling' = None
  /\ host' = [host EXCEPT !.tap = FALSE, !.stale = host.nat]
  /\ UNCHANGED <<workload, disk, clobbered>>

-----------------------------------------------------------------------------
Init ==
  /\ workload \in Workloads
  /\ th = [t \in Threads |-> Fresh]
  /\ dir = <<>> /\ cache = <<>> /\ index = <<>>
  /\ pool = None /\ warm = <<>> /\ filling = None
  /\ host = [tap |-> FALSE, nat |-> 0, stale |-> 0]
  /\ clobbered = {}
  /\ left = [crashes |-> workload.crashes, faults |-> workload.faults,
             refills |-> workload.refills]

Boots(t) ==
  \/ Create(t) \/ MainParses(t) \/ Start(t) \/ Acquire(t) \/ Lookup(t)
  \/ RestoreFails(t) \/ ReadState(t) \/ MapMemory(t) \/ Invalidate(t)
  \/ SetupNetwork(t) \/ AddMasquerade(t) \/ KvmRefuses(t) \/ Build(t) \/ BootToMarker(t)
  \/ OpenDump(t) \/ Dump(t) \/ OpenState(t) \/ WriteState(t) \/ SaveFails(t)
  \/ Insert(t) \/ InitPool(t) \/ VmEnds(t)

Next == (\E t \in Threads : Boots(t)) \/ FactoryReads \/ FactoryMaps \/ Restart

Spec == Init /\ [][Next]_vars

-----------------------------------------------------------------------------
\* A VM restored from the L3 cache (spawn_vm_thread's HIT path) was saved by
\* a boot of the same image with the same size, command line and command,
\* whatever was invalidated, saved again or lost with the daemon meanwhile.
SameSandbox(c, d) ==
  /\ c.digest = d.digest /\ c.mem = d.mem /\ c.vcpus = d.vcpus
  /\ c.command = d.command /\ (c.initrd > 0) = (d.initrd > 0)
RestoredAsAsked ==
  \A t \in Threads : th[t].vm.via = "l3" =>
     /\ SameSandbox(Cfg(th[t].vm.regs[1]), Cfg(t))
     /\ SameSandbox(Cfg(th[t].vm.mem[1]), Cfg(t))

\* As long as no boot rewrites a snapshot that is in use, every VM restored
\* from it (by a thread or by the pool's factory) runs registers and memory
\* of one save, completely written (save_snapshot, restore_snapshot).
RestoredWhole ==
  \A vm \in LiveVms : vm.via \in {"l3", "pool"} /\ vm.key[1] \notin clobbered =>
     vm.whole /\ vm.regs = vm.mem

\* Under the same condition the index on disk only names snapshots that are
\* complete, so a daemon killed at any step of a save finds no half snapshot
\* (SnapshotCache::insert after save_snapshot).
IndexedIsSaved ==
  \A key \in DOMAIN index : index[key] /\ key \notin clobbered =>
     dir[key].full /\ dir[key].state # None /\ dir[key].state = dir[key].mem

\* There are never more masquerade rules than VMs that will remove one, plus
\* those of a killed daemon: none is left when the VMs are gone
\* (NetworkSetup::setup, teardown and drop, on all three boot paths).
NoStrayNat ==
  host.nat <= Cardinality({t \in Threads : th[t].applied}) + host.stale

\* In every VM that was built, kernel, initrd, command line, boot parameters,
\* page tables and GDT lie apart and in RAM the guest is told of, and the
\* boot CPU's registers point at them; for a bzImage, if its code ends below
\* the initrd's fixed address.
ImagesApart ==
  \A t \in Threads : th[t].writes # None =>
     LET k == Cfg(t).kernel IN
     \/ /\ Apart(Cfg(t).mem, th[t].writes[1])
        /\ PointsAt(Entry(Cfg(t), k), th[t].writes[1])
     \/ /\ ~IsElf(Cfg(t), k)
        /\ KERNEL_LOAD_ADDR + KernelCode(k) > INITRD_ADDR

\* create_sandbox's memory is enough: a sandbox of a pulled image never
\* fails to build because its kernel and initrd do not fit, for a valid
\* kernel that ends below MaxKernelEnd (create_sandbox's scaling, build_elf).
MaxKernelEnd == 170 * MiB
CreatedFits ==
  \A t \in Threads :
     /\ Req(t).via = "daemon" /\ th[t].cfg # None /\ At(t, "done")
     /\ Cfg(t).digest # None /\ Cfg(t).initrd \in 1 .. InitrdMax
     /\ Boots64(Cfg(t).kernel)
     /\ KernelEnd(LoadSegments(Cfg(t).kernel)) <= MaxKernelEnd
     => \/ th[t].vm # NoVm
        \/ left.crashes < workload.crashes \/ left.faults < workload.faults

\* Different images get different snapshots: a VM that starts from a saved
\* snapshot starts from one of its own sandbox's image.
SnapshotOfOwnImage ==
  \A t \in Threads : th[t].vm.via \in {"l3", "pool"} =>
     Cfg(th[t].vm.mem[1]).digest = Cfg(t).digest
=============================================================================
