--------------------------- MODULE SandboxDaemon ---------------------------
(***************************************************************************)
(* The sandbox calls of the daemon: the gRPC RuntimeService (server.rs)    *)
(* and the REST gateway (rest.rs), which share the SandboxOrchestrator,    *)
(* the table of VM handles and the per-sandbox metadata, and the VM        *)
(* threads the calls spawn and signal.                                     *)
(*                                                                         *)
(* A handler runs between two awaits without interruption, so one action   *)
(* is one such stretch.  The orchestrator's and the metadata maps' tokio   *)
(* mutexes are never held across an await: their critical sections are     *)
(* single actions.  The mutex of vm_handles (tableLock) is held across the *)
(* join in stop_sandbox, that of image_puller (puller) across the metadata *)
(* inserts of create_sandbox.                                              *)
(*                                                                         *)
(* A sandbox id can be used again once it was destroyed.  inc numbers the  *)
(* create calls, so sandboxes[id].inc, the incarnation, tells which        *)
(* sandbox of that name is meant; the code has no such number.             *)
(***************************************************************************)
EXTENDS Naturals, Sequences, FiniteSets

CONSTANTS Ids,              \* sandbox ids
          Images,           \* images a create may name
          NoImage,          \* an empty image or digest string
          Requests,         \* calls that may be in flight together
          NoRequest,        \* the mutexes' "nobody"
          MaxCreates,       \* bound on create calls
          MaxCalls          \* bound on calls

ASSUME DaemonAssumption == /\ Ids # {}
                           /\ MaxCreates \in Nat
                           /\ MaxCalls \in Nat
                           /\ NoImage \notin Images
                           /\ NoRequest \notin Requests

VARIABLES
  sandboxes,  \* SandboxOrchestrator::sandboxes
  asked,      \* number of create calls so far
  born,       \* history: incarnations whose create succeeded
  started,    \* history: incarnations whose start succeeded
  digests,    \* image_digests
  commands,   \* sandbox_commands: the image stands for the command sent with
              \* it.  image_names, written and read right after, is left out
  creates,    \* history: create calls that named the id
  handles,    \* vm_handles: the number of a VM thread, 0 for no entry
  vms,        \* every VM thread ever spawned, in order
  tableLock,  \* holder of the vm_handles mutex across an await
  puller,     \* holder of the image_puller mutex across an await
  pc,         \* where a call is
  call,       \* the call's arguments and the handler's locals
  calls       \* calls made so far

orchVars == <<sandboxes, born, started>>
createVars == <<asked, creates>>
metaVars == <<digests, commands>>
tableVars == <<handles, tableLock>>
vars == <<sandboxes, asked, born, started, digests, commands, creates,
          handles, vms, tableLock, puller, pc, call, calls>>

Ops == {"create", "start", "stop", "destroy",
        "rest_create", "rest_stop", "rest_destroy"}
Creating == {"create", "rest_create"}
OptImages == Images \cup {NoImage}

PcStates == {"idle", "admit", "pull", "digest", "command", "register",
             "start", "read_digest", "read_command", "spawn", "insert",
             "take", "join", "orch_stop", "destroy",
             "rest_flag", "rest_signal", "rest_drop", "rest_forget"}

Sandbox == [state : {"Absent", "Created", "Running", "Stopped"},
            inc : 0..MaxCreates, image : OptImages]
Vm == [id : Ids, inc : 1..MaxCreates, image : OptImages,
       digest : OptImages, command : OptImages,
       status : {"booting", "running", "exited"}, shutdown : BOOLEAN]

(* op, id and image are the arguments; a start also keeps the incarnation  *)
(* it started, the image of its config and the metadata it read, and the   *)
(* number of the VM thread it spawned; a stop, of the one it joins.        *)
Call == [op : Ops, id : Ids, image : OptImages, inc : 0..MaxCreates,
         digest : OptImages, command : OptImages, vm : Nat]

(* Every variable holds a value of its kind, and every handle is that of a *)
(* thread that was spawned.                                                *)
TypeOK == /\ sandboxes \in [Ids -> Sandbox]
          /\ asked \in 0..MaxCreates
          /\ born \subseteq 1..asked
          /\ started \subseteq born
          /\ digests \in [Ids -> OptImages]
          /\ commands \in [Ids -> OptImages]
          /\ creates \in [Ids -> Nat]
          /\ vms \in Seq(Vm)
          /\ handles \in [Ids -> 0..Len(vms)]
          /\ tableLock \in Requests \cup {NoRequest}
          /\ puller \in Requests \cup {NoRequest}
          /\ pc \in [Requests -> PcStates]
          /\ call \in [Requests -> Call]
          /\ calls \in 0..MaxCalls
-----------------------------------------------------------------------------
(* SandboxOrchestrator, as functions of its map.  A call that fails leaves *)
(* the map alone.                                                          *)

Present(id) == sandboxes[id].state # "Absent"

(* mutant: Sandbox::start without its state check                          *)
MayStartAny(id) == Present(id)

(* mutant: SandboxOrchestrator::start without its lookup                   *)
MayStartUnlessRunning(id) == sandboxes[id].state # "Running"

(* Sandbox::start: only Created -> Running                                 *)
MayStart(id) == sandboxes[id].state = "Created"

(* mutant: Sandbox::stop without its state check                           *)
AfterStopAny(map, id) ==
  IF map[id].state = "Absent"
  THEN map
  ELSE [map EXCEPT ![id].state = "Stopped"]

(* SandboxOrchestrator::stop, Sandbox::stop: only Running -> Stopped       *)
AfterStop(map, id) ==
  IF map[id].state = "Running"
  THEN [map EXCEPT ![id].state = "Stopped"]
  ELSE map

(* SandboxOrchestrator::destroy: refused while Running                     *)
AfterDestroy(map, id) ==
  IF map[id].state = "Running"
  THEN map
  ELSE [map EXCEPT ![id].state = "Absent"]
-----------------------------------------------------------------------------
At(r, label) == pc[r] = label
Goto(r, label) == pc' = [pc EXCEPT ![r] = label]

NoCall == [op |-> "start", id |-> CHOOSE id \in Ids : TRUE, image |-> NoImage,
           inc |-> 0, digest |-> NoImage, command |-> NoImage, vm |-> 0]

(* The handler returns, well or not, and its locals die.                   *)
Reply(r) == /\ Goto(r, "idle")
            /\ call' = [call EXCEPT ![r] = NoCall]

(* Only a call that holds the mutex across an await keeps others out; a    *)
(* critical section without an await is one action.                        *)
TableFree == tableLock = NoRequest

EntryPoint(op) ==
  CASE op = "start"        -> "start"
    [] op = "stop"         -> "take"
    [] op = "destroy"      -> "destroy"
    [] op = "rest_stop"    -> "rest_flag"
    [] op = "rest_destroy" -> "rest_signal"

Init == /\ sandboxes = [id \in Ids |-> [state |-> "Absent", inc |-> 0, image |-> NoImage]]
        /\ asked = 0
        /\ born = {}
        /\ started = {}
        /\ digests = [id \in Ids |-> NoImage]
        /\ commands = [id \in Ids |-> NoImage]
        /\ creates = [id \in Ids |-> 0]
        /\ handles = [id \in Ids |-> 0]
        /\ vms = << >>
        /\ tableLock = NoRequest
        /\ puller = NoRequest
        /\ pc = [r \in Requests |-> "idle"]
        /\ call = [r \in Requests |-> NoCall]
        /\ calls = 0

(* A client sends a call.  Only a create carries an image.                 *)
ArriveCreate(r, op, id, image) ==
  /\ At(r, "idle")
  /\ calls < MaxCalls
  /\ asked < MaxCreates
  /\ op \in Creating
  /\ calls' = calls + 1
  /\ asked' = asked + 1
  /\ creates' = [creates EXCEPT ![id] = @ + 1]
  /\ call' = [call EXCEPT ![r] = [NoCall EXCEPT !.op = op, !.id = id,
                                    !.image = image, !.inc = asked + 1]]
  /\ Goto(r, "admit")
  /\ UNCHANGED <<orchVars, metaVars, tableVars, vms, puller>>

Arrive(r, op, id) ==
  /\ At(r, "idle")
  /\ calls < MaxCalls
  /\ op \in Ops \ Creating
  /\ calls' = calls + 1
  /\ call' = [call EXCEPT ![r] = [NoCall EXCEPT !.op = op, !.id = id]]
  /\ Goto(r, EntryPoint(op))
  /\ UNCHANGED <<orchVars, createVars, metaVars, tableVars, vms, puller>>
-----------------------------------------------------------------------------
(* create_sandbox, and the first half of REST create_sandbox               *)

(* mutant: the fast path skips the metadata with the pull                  *)
ImagePathsForgetful == {"register", "pull"}

(* The fast path stores the metadata at once; the other pulls first.       *)
ImagePaths == {"digest", "pull"}

(* Admission control, then the choice of a path: the L4 fast path when the *)
(* pool holds a warm VM of the image, a pull when there is an image, none  *)
(* otherwise.                                                              *)
Admit(r) ==
  /\ At(r, "admit")
  /\ \/ Reply(r)
     \/ /\ call[r].image # NoImage
        /\ \E path \in ImagePaths : Goto(r, path)
        /\ UNCHANGED call
     \/ /\ call[r].image = NoImage
        /\ Goto(r, "register")
        /\ UNCHANGED call
  /\ UNCHANGED <<orchVars, metaVars, createVars, tableVars, vms, puller, calls>>

(* The puller's mutex is kept while the metadata is stored.                *)
Pull(r) ==
  /\ At(r, "pull")
  /\ puller = NoRequest
  /\ puller' = r
  /\ Goto(r, "digest")
  /\ UNCHANGED <<orchVars, metaVars, createVars, tableVars, vms, call, calls>>

(* Every failure of the pull is logged; the sandbox is then created with   *)
(* the default rootfs and nothing is stored for it.                        *)
PullFails(r) ==
  /\ At(r, "pull")
  /\ puller = NoRequest
  /\ call' = [call EXCEPT ![r].image = NoImage]
  /\ Goto(r, "register")
  /\ UNCHANGED <<orchVars, metaVars, createVars, tableVars, vms, puller, calls>>

StoreDigest(r) ==
  /\ At(r, "digest")
  /\ digests' = [digests EXCEPT ![call[r].id] = call[r].image]
  /\ Goto(r, "command")
  /\ UNCHANGED <<orchVars, commands, createVars, tableVars, vms, puller, call, calls>>

StoreCommand(r) ==
  /\ At(r, "command")
  /\ commands' = [commands EXCEPT ![call[r].id] = call[r].image]
  /\ puller' = IF puller = r THEN NoRequest ELSE puller
  /\ Goto(r, "register")
  /\ UNCHANGED <<orchVars, digests, createVars, tableVars, vms, call, calls>>

(* SandboxOrchestrator::create.  The REST handler goes on to start the     *)
(* sandbox when the create succeeded.                                      *)
Register(r) ==
  LET id == call[r].id IN
  /\ At(r, "register")
  /\ \/ /\ Present(id)
        /\ Reply(r)
        /\ UNCHANGED <<sandboxes, born>>
     \/ /\ ~Present(id)
        /\ born' = born \cup {call[r].inc}
        /\ sandboxes' = [sandboxes EXCEPT ![id] =
             [state |-> "Created", inc |-> call[r].inc, image |-> call[r].image]]
        /\ \/ call[r].op = "create" /\ Reply(r)
           \/ call[r].op = "rest_create" /\ Goto(r, "start") /\ UNCHANGED call
  /\ UNCHANGED <<started, metaVars, createVars, tableVars, vms, puller, calls>>
-----------------------------------------------------------------------------
(* start_sandbox                                                           *)

(* SandboxOrchestrator::get and ::start under one lock.  Without a kernel  *)
(* the sandbox is Running and there is no VM.                              *)
Start(r) ==
  LET id == call[r].id IN
  /\ At(r, "start")
  /\ \/ /\ ~MayStart(id)
        /\ Reply(r)
        /\ UNCHANGED <<sandboxes, started>>
     \/ /\ MayStart(id)
        /\ sandboxes' = [sandboxes EXCEPT ![id].state = "Running"]
        /\ started' = started \cup {sandboxes[id].inc}
        /\ \/ Reply(r)
           \/ /\ Goto(r, "read_digest")
              /\ call' = [call EXCEPT ![r].inc = sandboxes[id].inc,
                                      ![r].image = sandboxes[id].image]
  /\ UNCHANGED <<born, metaVars, createVars, tableVars, vms, puller, calls>>

ReadDigest(r) ==
  /\ At(r, "read_digest")
  /\ call' = [call EXCEPT ![r].digest = digests[call[r].id]]
  /\ Goto(r, "read_command")
  /\ UNCHANGED <<orchVars, metaVars, createVars, tableVars, vms, puller, calls>>

ReadCommand(r) ==
  /\ At(r, "read_command")
  /\ call' = [call EXCEPT ![r].command = commands[call[r].id]]
  /\ Goto(r, "spawn")
  /\ UNCHANGED <<orchVars, metaVars, createVars, tableVars, vms, puller, calls>>

(* spawn_vm_thread                                                         *)
Spawn(r) ==
  /\ At(r, "spawn")
  /\ vms' = Append(vms, [id |-> call[r].id, inc |-> call[r].inc,
                         image |-> call[r].image, digest |-> call[r].digest,
                         command |-> call[r].command,
                         status |-> "booting", shutdown |-> FALSE])
  /\ call' = [call EXCEPT ![r].vm = Len(vms) + 1]
  /\ Goto(r, "insert")
  /\ UNCHANGED <<orchVars, metaVars, createVars, tableVars, puller, calls>>

(* An entry that is already there is overwritten.                          *)
Insert(r) ==
  /\ At(r, "insert")
  /\ TableFree
  /\ handles' = [handles EXCEPT ![call[r].id] = call[r].vm]
  /\ Reply(r)
  /\ UNCHANGED <<orchVars, metaVars, createVars, tableLock, vms, puller, calls>>
-----------------------------------------------------------------------------
(* stop_sandbox and destroy_sandbox                                        *)

Signal(t) == vms' = [vms EXCEPT ![t].shutdown = TRUE]

(* Take the handle out of the table, set its flag, and keep the table      *)
(* locked for the join.  Without a handle only the orchestrator is told.   *)
Take(r) ==
  LET id == call[r].id IN
  /\ At(r, "take")
  /\ TableFree
  /\ \/ /\ handles[id] = 0
        /\ Goto(r, "orch_stop")
        /\ UNCHANGED <<tableVars, vms, call>>
     \/ /\ handles[id] # 0
        /\ Signal(handles[id])
        /\ handles' = [handles EXCEPT ![id] = 0]
        /\ tableLock' = r
        /\ call' = [call EXCEPT ![r].vm = handles[id]]
        /\ Goto(r, "join")
  /\ UNCHANGED <<orchVars, metaVars, createVars, puller, calls>>

(* mutant: the guard outlives the block                                    *)
TableStaysLocked == tableLock' = tableLock

UnlockTable == tableLock' = NoRequest

(* mutant: a failed join is an error of the call                           *)
AfterJoinGiveUp(r) == Reply(r)

AfterJoin(r) == Goto(r, "orch_stop") /\ UNCHANGED call

(* The thread has ended, or five seconds have passed: either way the call  *)
(* goes on.                                                                *)
Joined(r) ==
  /\ At(r, "join")
  /\ UnlockTable
  /\ AfterJoin(r)
  /\ UNCHANGED <<orchVars, metaVars, createVars, handles, vms, puller, calls>>

OrchStop(r) ==
  /\ At(r, "orch_stop")
  /\ sandboxes' = AfterStop(sandboxes, call[r].id)
  /\ Reply(r)
  /\ UNCHANGED <<born, started, metaVars, createVars, tableVars, vms, puller, calls>>

Destroy(r) ==
  /\ At(r, "destroy")
  /\ sandboxes' = AfterDestroy(sandboxes, call[r].id)
  /\ Reply(r)
  /\ UNCHANGED <<born, started, metaVars, createVars, tableVars, vms, puller, calls>>
-----------------------------------------------------------------------------
(* REST stop_sandbox and destroy_sandbox                                   *)

(* The flag is set; the handle stays in the table and nobody joins.        *)
RestFlag(r) ==
  LET id == call[r].id IN
  /\ At(r, "rest_flag")
  /\ TableFree
  /\ \/ /\ handles[id] = 0
        /\ Reply(r)
        /\ UNCHANGED vms
     \/ /\ handles[id] # 0
        /\ Signal(handles[id])
        /\ Goto(r, "orch_stop")
        /\ UNCHANGED call
  /\ UNCHANGED <<orchVars, metaVars, createVars, tableVars, puller, calls>>

RestSignal(r) ==
  LET id == call[r].id IN
  /\ At(r, "rest_signal")
  /\ TableFree
  /\ IF handles[id] = 0 THEN UNCHANGED vms ELSE Signal(handles[id])
  /\ Goto(r, "rest_drop")
  /\ UNCHANGED <<orchVars, metaVars, createVars, tableVars, puller, call, calls>>

(* stop and destroy under one lock, their errors ignored                   *)
RestDrop(r) ==
  LET id == call[r].id IN
  /\ At(r, "rest_drop")
  /\ sandboxes' = AfterDestroy(AfterStop(sandboxes, id), id)
  /\ Goto(r, "rest_forget")
  /\ UNCHANGED <<born, started, metaVars, createVars, tableVars, vms, puller, call, calls>>

RestForget(r) ==
  /\ At(r, "rest_forget")
  /\ TableFree
  /\ handles' = [handles EXCEPT ![call[r].id] = 0]
  /\ Reply(r)
  /\ UNCHANGED <<orchVars, metaVars, createVars, tableLock, vms, puller, calls>>
-----------------------------------------------------------------------------
(* VM threads                                                              *)

Status(t, from, to) == /\ t \in DOMAIN vms
                       /\ vms[t].status = from
                       /\ vms' = [vms EXCEPT ![t].status = to]

OnlyVms == UNCHANGED <<orchVars, createVars, metaVars, tableVars, puller, pc, call, calls>>

(* From the spawn to the run loop: a pool VM, a restored snapshot, or a    *)
(* cold boot of up to 120 s.  The shutdown flag is not looked at.          *)
VmBoot(t) == Status(t, "booting", "running") /\ OnlyVms

(* The VM cannot be built.                                                 *)
VmBootFails(t) == Status(t, "booting", "exited") /\ OnlyVms

(* The run loop ends by itself: the guest halts, an error, 3600 s.  The    *)
(* orchestrator and the table of handles are not told.                     *)
VmEnds(t) == Status(t, "running", "exited") /\ OnlyVms

(* mutant: the run loop is not given the flag                              *)
SeesNoFlag(t) == FALSE

SeesFlag(t) == vms[t].shutdown

VmShutdown(t) == /\ Status(t, "running", "exited")
                 /\ SeesFlag(t)
                 /\ OnlyVms
-----------------------------------------------------------------------------
Handle(r) == \/ Admit(r) \/ Pull(r) \/ PullFails(r) \/ StoreDigest(r)
             \/ StoreCommand(r) \/ Register(r) \/ Start(r) \/ ReadDigest(r)
             \/ ReadCommand(r) \/ Spawn(r) \/ Insert(r) \/ Take(r) \/ Joined(r)
             \/ OrchStop(r) \/ Destroy(r) \/ RestFlag(r) \/ RestSignal(r)
             \/ RestDrop(r) \/ RestForget(r)

Arrivals(r) == \E id \in Ids :
  \/ \E op \in Ops \ Creating : Arrive(r, op, id)
  \/ \E op \in Creating, image \in OptImages : ArriveCreate(r, op, id, image)

Running(t) == VmBoot(t) \/ VmBootFails(t) \/ VmEnds(t) \/ VmShutdown(t)

Next == \/ \E r \in Requests : Arrivals(r) \/ Handle(r)
        \/ \E t \in DOMAIN vms : Running(t)

Spec == Init /\ [][Next]_vars

(* tokio polls every ready task and its mutexes are FIFO, so a call that   *)
(* can go on again and again goes on; a boot is bounded by 120 s and the   *)
(* run loop looks at the flag every 10 ms.  Clients and guests owe         *)
(* nothing.                                                                *)
Fairness == /\ \A r \in Requests : SF_vars(Handle(r))
            /\ \A t \in 1..MaxCreates : /\ WF_vars(VmBoot(t) \/ VmBootFails(t))
                                         /\ WF_vars(VmShutdown(t))

FairSpec == Spec /\ Fairness
-----------------------------------------------------------------------------
(* At most one VM thread is ever spawned for one incarnation of a sandbox, *)
(* however many start calls race (start_sandbox, Sandbox::start).          *)
OneVmPerIncarnation ==
  \A t, u \in DOMAIN vms : vms[t].inc = vms[u].inc => t = u

(* A sandbox that is listed as Running although its VM was told to shut    *)
(* down is about to be marked Stopped: the stop or DELETE call that set    *)
(* the flag, or another one, is still on its way to the orchestrator.      *)
FlaggedIsBeingStopped ==
  \A id \in Ids, t \in DOMAIN vms :
    /\ sandboxes[id].state = "Running"
    /\ vms[t].inc = sandboxes[id].inc
    /\ vms[t].shutdown
    => \E r \in Requests : /\ call[r].id = id
                           /\ pc[r] \in {"join", "orch_stop", "rest_drop"}

(* As long as a sandbox id was used by one create call only, its VM boots  *)
(* from the digest and the command of the image it was created from:       *)
(* create_sandbox stores both before it publishes the sandbox.             *)
OwnMetadata ==
  \A t \in DOMAIN vms : creates[vms[t].id] = 1 =>
    vms[t].digest = vms[t].image /\ vms[t].command = vms[t].image

(* Every call is answered: no call waits for ever for the table of handles *)
(* or the puller, also when stop_sandbox keeps the table during its join.  *)
CallsAnswered == \A r \in Requests : pc[r] # "idle" ~> pc[r] = "idle"

(* A VM whose shutdown flag was set by a stop or DELETE call ends, and its *)
(* sandbox does not stay Running.                                          *)
FlaggedVmEnds == \A t \in 1..MaxCreates :
  (t \in DOMAIN vms /\ vms[t].shutdown)
    ~> /\ t \in DOMAIN vms
       /\ vms[t].status = "exited"
       /\ \A id \in Ids : sandboxes[id].state = "Running"
                           => sandboxes[id].inc # vms[t].inc

(* The states of an incarnation and of its VM, for SandboxLifecycle.       *)
IsIn(i, state) == \E id \in Ids : /\ sandboxes[id].state = state
                                   /\ sandboxes[id].inc = i
Life(i) == IF i \notin born THEN "unborn"
           ELSE IF IsIn(i, "Created") THEN "created"
           ELSE IF IsIn(i, "Running") THEN "running"
           ELSE IF IsIn(i, "Stopped") THEN "stopped"
           ELSE IF i \in started THEN "gone"
           ELSE "discarded"

ThreadsOf(i) == {t \in DOMAIN vms : vms[t].inc = i}
Machine(i) == IF ThreadsOf(i) = {} THEN "none"
              ELSE IF \A t \in ThreadsOf(i) : vms[t].status = "exited"
              THEN "dead" ELSE "live"

Lifecycle == INSTANCE SandboxLifecycle WITH
  Incarnations <- 1..MaxCreates,
  life <- [i \in 1..MaxCreates |-> Life(i)],
  machine <- [i \in 1..MaxCreates |-> Machine(i)]

(* Every incarnation keeps to the life cycle of SandboxLifecycle: it is    *)
(* started at most once, its VM boots at most once and only after the      *)
(* start, and no state comes back.                                         *)
KeepsLifecycle == Lifecycle!LifecycleSpec

(* "Stopped (exited or killed)." (SandboxState::Stopped): once every call  *)
(* was answered, the VM of a Stopped sandbox has ended or was told to.     *)
StoppedMeansKilled ==
  (\A r \in Requests : pc[r] = "idle") =>
  \A id \in Ids, t \in DOMAIN vms :
    /\ sandboxes[id].state = "Stopped"
    /\ vms[t].inc = sandboxes[id].inc
    => vms[t].shutdown \/ vms[t].status = "exited"
=============================================================================
