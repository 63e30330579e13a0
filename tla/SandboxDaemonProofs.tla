------------------------ MODULE SandboxDaemonProofs -------------------------
(***************************************************************************)
(* The theorems about SandboxDaemon: its types, its invariants, and that   *)
(* it implements SandboxLifecycle.                                         *)
(*                                                                         *)
(* The invariants of the runs are not inductive: that a start spawns the   *)
(* only VM of an incarnation depends on what the calls between their steps *)
(* know.  IInv adds it: the number a create call carries is new until the  *)
(* call registers it, and an incarnation whose start is under way is       *)
(* started, has no VM yet and belongs to that start alone.  The lemmas say *)
(* what each step does to the sequence of VM threads, and that each        *)
(* handler keeps TypeOK and IInv.                                          *)
(***************************************************************************)
EXTENDS SandboxDaemon, TLAPS

CreatePc == {"admit", "pull", "digest", "command", "register"}
StartPc == {"read_digest", "read_command", "spawn"}

(* A handle in the table, or about to be put there, is that of a VM of the *)
(* sandbox id it is filed under.                                           *)
HandlesOwn == /\ \A id \in Ids : handles[id] # 0 => vms[handles[id]].id = id
              /\ \A r \in Requests : pc[r] = "insert" =>
                   /\ call[r].vm \in 1..Len(vms)
                   /\ vms[call[r].vm].id = call[r].id

TicketsNew == \A r \in Requests : pc[r] \in CreatePc =>
                /\ call[r].inc \in 1..asked
                /\ call[r].inc \notin born
                /\ \A q \in Requests : pc[q] \in CreatePc /\ call[q].inc = call[r].inc
                                       => q = r

SandboxesBorn == \A id \in Ids : Present(id) =>
                   /\ sandboxes[id].inc \in born
                   /\ sandboxes[id].state = "Created" <=> sandboxes[id].inc \notin started
                   /\ \A jd \in Ids : Present(jd) /\ sandboxes[jd].inc = sandboxes[id].inc
                                      => jd = id

StartsAlone == \A r \in Requests : pc[r] \in StartPc =>
                 /\ call[r].inc \in started
                 /\ \A t \in DOMAIN vms : vms[t].inc # call[r].inc
                 /\ \A q \in Requests : pc[q] \in StartPc /\ call[q].inc = call[r].inc
                                        => q = r
                 /\ \A id \in Ids : Present(id) /\ sandboxes[id].inc = call[r].inc
                                    => id = call[r].id

VmsStarted == \A t \in DOMAIN vms :
                /\ vms[t].inc \in started
                /\ \A id \in Ids : Present(id) /\ sandboxes[id].inc = vms[t].inc
                                   => id = vms[t].id

(* The parts that tell which incarnation is whose.                         *)
Identity == /\ HandlesOwn
            /\ TicketsNew
            /\ SandboxesBorn
            /\ StartsAlone
            /\ VmsStarted

IInv == /\ TypeOK
        /\ Identity
        /\ OneVmPerIncarnation
        /\ FlaggedIsBeingStopped
-----------------------------------------------------------------------------
(* What a step does to the sequence of VM threads.                         *)

(* What never changes of a thread.                                         *)
SameThread(t) == /\ vms'[t].id = vms[t].id
                 /\ vms'[t].inc = vms[t].inc
                 /\ vms'[t].image = vms[t].image
                 /\ vms'[t].digest = vms[t].digest
                 /\ vms'[t].command = vms[t].command

(* Setting a shutdown flag touches nothing else (Signal).                  *)
LEMMA SignalFacts ==
  ASSUME vms \in Seq(Vm), NEW t \in 1..Len(vms), Signal(t)
  PROVE  /\ vms' \in Seq(Vm)
         /\ Len(vms') = Len(vms)
         /\ \A u \in 1..Len(vms) : SameThread(u)
         /\ \A u \in 1..Len(vms) : u # t => vms'[u].shutdown = vms[u].shutdown
<1> DEFINE e == [vms[t] EXCEPT !.shutdown = TRUE]
<1>1. vms[t] \in Vm
  OBVIOUS
<1>2. e \in Vm
  BY Zenon, <1>1 DEF Vm
<1>3. vms' = [vms EXCEPT ![t] = e]
  BY Zenon DEF Signal
<1>4. /\ vms' \in Seq(Vm)
      /\ Len(vms') = Len(vms)
      /\ \A u \in 1..Len(vms) : vms'[u] = IF u = t THEN e ELSE vms[u]
  BY <1>2, <1>3
<1>5. /\ e.id = vms[t].id /\ e.inc = vms[t].inc /\ e.image = vms[t].image
      /\ e.digest = vms[t].digest /\ e.command = vms[t].command
  BY Zenon, <1>1 DEF Vm
<1> HIDE DEF e
<1> QED BY Zenon, <1>4, <1>5 DEF SameThread

(* A change of status touches nothing else (Status).                       *)
LEMMA StatusFacts ==
  ASSUME vms \in Seq(Vm), NEW t, NEW from,
         NEW to \in {"booting", "running", "exited"}, Status(t, from, to)
  PROVE  /\ vms' \in Seq(Vm)
         /\ Len(vms') = Len(vms)
         /\ \A u \in 1..Len(vms) : SameThread(u)
         /\ \A u \in 1..Len(vms) : vms'[u].shutdown = vms[u].shutdown
<1> DEFINE e == [vms[t] EXCEPT !.status = to]
<1>1. t \in 1..Len(vms) /\ vms[t] \in Vm
  BY DEF Status
<1>2. e \in Vm
  BY Zenon, <1>1 DEF Vm
<1>3. vms' = [vms EXCEPT ![t] = e]
  BY Zenon DEF Status
<1>4. /\ vms' \in Seq(Vm)
      /\ Len(vms') = Len(vms)
      /\ \A u \in 1..Len(vms) : vms'[u] = IF u = t THEN e ELSE vms[u]
  BY <1>1, <1>2, <1>3
<1>5. /\ e.id = vms[t].id /\ e.inc = vms[t].inc /\ e.image = vms[t].image
      /\ e.digest = vms[t].digest /\ e.command = vms[t].command
      /\ e.shutdown = vms[t].shutdown
  BY Zenon, <1>1 DEF Vm
<1> HIDE DEF e
<1> QED BY Zenon, <1>4, <1>5 DEF SameThread

(* The thread a start call spawns carries what the call knows (Spawn).     *)
LEMMA SpawnFacts ==
  ASSUME TypeOK, NEW r \in Requests, call[r].inc \in 1..MaxCreates, Spawn(r)
  PROVE  /\ vms' \in Seq(Vm)
         /\ Len(vms') = Len(vms) + 1
         /\ \A u \in 1..Len(vms) : vms'[u] = vms[u]
         /\ LET t == vms'[Len(vms) + 1]
            IN  /\ t.id = call[r].id /\ t.inc = call[r].inc
                /\ t.image = call[r].image /\ t.digest = call[r].digest
                /\ t.command = call[r].command /\ ~t.shutdown
<1> DEFINE e == [id |-> call[r].id, inc |-> call[r].inc, image |-> call[r].image,
                 digest |-> call[r].digest, command |-> call[r].command,
                 status |-> "booting", shutdown |-> FALSE]
<1>1. call[r] \in Call
  BY Zenon DEF TypeOK
<1>2. e \in Vm
  BY Zenon, <1>1 DEF Vm, Call
<1>3. vms' = Append(vms, e)
  BY Zenon DEF Spawn
<1>4. vms \in Seq(Vm)
  BY Zenon DEF TypeOK
<1>5. /\ vms' \in Seq(Vm)
      /\ Len(vms') = Len(vms) + 1
      /\ \A u \in 1..Len(vms) : vms'[u] = vms[u]
      /\ vms'[Len(vms) + 1] = e
  BY <1>2, <1>3, <1>4
<1> QED BY <1>5
-----------------------------------------------------------------------------
(* Types                                                                   *)

(* The record of a call that is not there.                                 *)
LEMMA NoCallType == NoCall \in Call
BY DaemonAssumption DEF NoCall, Call, Ops, OptImages

(* A handler that replies keeps the types.                                 *)
LEMMA ReplyType ==
  ASSUME TypeOK, NEW r \in Requests, Reply(r)
  PROVE  pc' \in [Requests -> PcStates] /\ call' \in [Requests -> Call]
<1>1. pc' \in [Requests -> PcStates]
  BY Zenon DEF Reply, Goto, TypeOK, PcStates
<1>2. call' \in [Requests -> Call]
  BY Zenon, NoCallType DEF Reply, TypeOK
<1> QED BY Zenon, <1>1, <1>2

(* So does one that moves on.                                              *)
LEMMA GotoType ==
  ASSUME TypeOK, NEW r \in Requests, NEW label \in PcStates, Goto(r, label)
  PROVE  pc' \in [Requests -> PcStates]
BY Zenon DEF Goto, TypeOK

(* A handler's labels.                                                     *)
LEMMA Labels == /\ {"idle"} \cup CreatePc \cup StartPc \subseteq PcStates
                /\ {"start", "insert", "take", "join", "orch_stop", "destroy", "rest_flag",
                    "rest_signal", "rest_drop", "rest_forget"} \subseteq PcStates
BY Zenon DEF CreatePc, StartPc, PcStates

(* Every step of a call keeps the types.                                   *)
LEMMA ArriveType ==
  ASSUME TypeOK, NEW r \in Requests, Arrivals(r)
  PROVE  TypeOK'
<1>1. ASSUME NEW id \in Ids, NEW op \in Ops \ Creating, Arrive(r, op, id)
      PROVE  TypeOK'
  <2>1. EntryPoint(op) \in PcStates
    BY Zenon DEF EntryPoint, PcStates, Ops, Creating
  <2>2. pc' \in [Requests -> PcStates]
    BY Zenon, <1>1, <2>1, GotoType DEF Arrive
  <2>3. [NoCall EXCEPT !.op = op, !.id = id] \in Call
    BY Zenon, NoCallType DEF Call
  <2>4. call' \in [Requests -> Call]
    BY Zenon, <1>1, <2>3 DEF Arrive, TypeOK
  <2>5. calls' \in 0..MaxCalls
    BY <1>1, DaemonAssumption DEF Arrive, TypeOK
  <2> QED BY Zenon, <1>1, <2>2, <2>4, <2>5
          DEF Arrive, TypeOK, orchVars, createVars, metaVars, tableVars
<1>2. ASSUME NEW id \in Ids, NEW op \in Creating, NEW image \in OptImages,
             ArriveCreate(r, op, id, image)
      PROVE  TypeOK'
  <2>1. pc' \in [Requests -> PcStates]
    BY Zenon, <1>2, Labels, GotoType DEF ArriveCreate, CreatePc
  <2>2. asked' \in 0..MaxCreates /\ asked + 1 \in 0..MaxCreates /\ 1..asked \subseteq 1..asked'
    BY <1>2, DaemonAssumption DEF ArriveCreate, TypeOK
  <2>3. [NoCall EXCEPT !.op = op, !.id = id, !.image = image, !.inc = asked + 1] \in Call
    BY Zenon, NoCallType, <2>2 DEF Call, Creating, Ops
  <2>4. call' \in [Requests -> Call]
    BY Zenon, <1>2, <2>3 DEF ArriveCreate, TypeOK
  <2>5. calls' \in 0..MaxCalls
    BY <1>2, DaemonAssumption DEF ArriveCreate, TypeOK
  <2>6. creates' \in [Ids -> Nat]
    BY <1>2 DEF ArriveCreate, TypeOK
  <2> QED BY Zenon, <1>2, <2>1, <2>2, <2>4, <2>5, <2>6
          DEF ArriveCreate, TypeOK, orchVars, metaVars, tableVars
<1> QED BY Zenon, <1>1, <1>2 DEF Arrivals

(* The steps of create_sandbox keep the types.                             *)
LEMMA CreateType ==
  ASSUME TypeOK, TicketsNew, NEW r \in Requests,
         \/ Admit(r) \/ Pull(r) \/ PullFails(r) \/ StoreDigest(r)
         \/ StoreCommand(r) \/ Register(r)
  PROVE  TypeOK'
<1> USE DEF orchVars, createVars, metaVars, tableVars, At
<1>1. call[r] \in Call /\ call[r].id \in Ids /\ call[r].image \in OptImages
  BY Zenon DEF TypeOK, Call
<1>2. CASE Admit(r)
  <2>1. pc' \in [Requests -> PcStates] /\ call' \in [Requests -> Call]
    <3>1. CASE Reply(r)
      BY Zenon, <3>1, ReplyType
    <3>2. CASE UNCHANGED call /\ \E path \in ImagePaths : Goto(r, path)
      BY Zenon, <3>2, GotoType, Labels DEF ImagePaths, TypeOK, CreatePc
    <3>3. CASE UNCHANGED call /\ Goto(r, "register")
      BY Zenon, <3>3, GotoType, Labels DEF TypeOK, CreatePc
    <3> QED BY Zenon, <1>2, <3>1, <3>2, <3>3 DEF Admit
  <2> QED BY Zenon, <1>2, <2>1 DEF Admit, TypeOK
<1>3. CASE Pull(r)
  BY Zenon, <1>3, GotoType, Labels DEF Pull, TypeOK, CreatePc
<1>4. CASE PullFails(r)
  <2>1. [call[r] EXCEPT !.image = NoImage] \in Call
    BY Zenon, <1>1 DEF Call, OptImages
  <2>2. call' \in [Requests -> Call]
    BY Zenon, <1>4, <2>1 DEF PullFails, TypeOK
  <2> QED BY Zenon, <1>4, <2>2, GotoType, Labels DEF PullFails, TypeOK, CreatePc
<1>5. CASE StoreDigest(r)
  BY Zenon, <1>1, <1>5, GotoType, Labels DEF StoreDigest, TypeOK, CreatePc
<1>6. CASE StoreCommand(r)
  BY Zenon, <1>1, <1>6, GotoType, Labels DEF StoreCommand, TypeOK, CreatePc
<1>7. CASE Register(r)
  <2>1. pc' \in [Requests -> PcStates] /\ call' \in [Requests -> Call]
    <3>1. CASE Reply(r)
      BY Zenon, <3>1, ReplyType
    <3>2. CASE Goto(r, "start") /\ UNCHANGED call
      BY Zenon, <3>2, GotoType, Labels DEF TypeOK
    <3> QED BY Zenon, <1>7, <3>1, <3>2 DEF Register
  <2>2. call[r].inc \in 1..asked /\ call[r].inc \in 0..MaxCreates
    BY Zenon, <1>7, <1>1 DEF Register, TicketsNew, CreatePc, Call
  <2>3. [state |-> "Created", inc |-> call[r].inc, image |-> call[r].image] \in Sandbox
    BY Zenon, <1>1, <2>2 DEF Sandbox
  <2>4. sandboxes' \in [Ids -> Sandbox]
    BY Zenon, <1>1, <1>7, <2>3 DEF Register, TypeOK
  <2>5. born' \subseteq 1..asked /\ born \subseteq born'
    BY Zenon, <1>7, <2>2 DEF Register, TypeOK
  <2> QED BY Zenon, <1>7, <2>1, <2>4, <2>5 DEF Register, TypeOK
<1> QED BY Zenon, <1>2, <1>3, <1>4, <1>5, <1>6, <1>7

(* Those of start_sandbox too.                                             *)
LEMMA StartType ==
  ASSUME TypeOK, HandlesOwn, SandboxesBorn, StartsAlone, NEW r \in Requests,
         Start(r) \/ ReadDigest(r) \/ ReadCommand(r) \/ Spawn(r) \/ Insert(r)
  PROVE  TypeOK'
<1> USE DEF orchVars, createVars, metaVars, tableVars, At
<1>1. call[r] \in Call /\ call[r].id \in Ids
  BY Zenon DEF TypeOK, Call
<1>2. CASE Start(r)
  <2> DEFINE id == call[r].id
  <2>1. sandboxes[id] \in Sandbox
    BY Zenon, <1>1 DEF TypeOK
  <2>2. sandboxes' \in [Ids -> Sandbox]
    <3>1. [sandboxes[id] EXCEPT !.state = "Running"] \in Sandbox
      BY Zenon, <2>1 DEF Sandbox
    <3> QED BY Zenon, <1>1, <1>2, <3>1 DEF Start, TypeOK
  <2>3. started' \subseteq born
    <3>1. MayStart(id) => sandboxes[id].inc \in born
      BY Zenon, <1>1 DEF MayStart, SandboxesBorn, Present
    <3> QED BY Zenon, <1>2, <3>1 DEF Start, TypeOK
  <2>4. pc' \in [Requests -> PcStates] /\ call' \in [Requests -> Call]
    <3>1. CASE Reply(r)
      BY Zenon, <3>1, ReplyType
    <3>2. CASE /\ Goto(r, "read_digest")
               /\ call' = [call EXCEPT ![r].inc = sandboxes[id].inc,
                                       ![r].image = sandboxes[id].image]
      <4>1. [call[r] EXCEPT !.inc = sandboxes[id].inc, !.image = sandboxes[id].image] \in Call
        BY Zenon, <1>1, <2>1 DEF Call, Sandbox
      <4>2. call' \in [Requests -> Call]
        BY Zenon, <3>2, <4>1 DEF TypeOK
      <4> QED BY Zenon, <3>2, <4>2, GotoType, Labels DEF StartPc
    <3> QED BY Zenon, <1>2, <3>1, <3>2 DEF Start
  <2> QED BY Zenon, <1>2, <2>2, <2>3, <2>4 DEF Start, TypeOK
<1>3. CASE ReadDigest(r)
  <2>1. digests[call[r].id] \in OptImages
    BY Zenon, <1>1 DEF TypeOK
  <2>2. [call[r] EXCEPT !.digest = digests[call[r].id]] \in Call
    BY Zenon, <1>1, <2>1 DEF Call
  <2>3. call' \in [Requests -> Call]
    BY Zenon, <1>3, <2>2 DEF ReadDigest, TypeOK
  <2> QED BY Zenon, <1>3, <2>3, GotoType, Labels DEF ReadDigest, TypeOK, StartPc
<1>4. CASE ReadCommand(r)
  <2>1. commands[call[r].id] \in OptImages
    BY Zenon, <1>1 DEF TypeOK
  <2>2. [call[r] EXCEPT !.command = commands[call[r].id]] \in Call
    BY Zenon, <1>1, <2>1 DEF Call
  <2>3. call' \in [Requests -> Call]
    BY Zenon, <1>4, <2>2 DEF ReadCommand, TypeOK
  <2> QED BY Zenon, <1>4, <2>3, GotoType, Labels DEF ReadCommand, TypeOK, StartPc
<1>5. CASE Spawn(r)
  <2>1. call[r].inc \in 1..MaxCreates
    BY <1>5, DaemonAssumption DEF Spawn, StartsAlone, StartPc, TypeOK
  <2>2. vms' \in Seq(Vm) /\ Len(vms') = Len(vms) + 1
    BY Zenon, <1>5, <2>1, SpawnFacts
  <2>3. Len(vms) \in Nat
    BY DEF TypeOK
  <2>4. [call[r] EXCEPT !.vm = Len(vms) + 1] \in Call
    BY <1>1, <2>3 DEF Call
  <2>5. call' \in [Requests -> Call]
    BY Zenon, <1>5, <2>4 DEF Spawn, TypeOK
  <2>6. handles' \in [Ids -> 0..Len(vms')]
    BY <1>5, <2>2, <2>3 DEF Spawn, TypeOK
  <2> QED BY Zenon, <1>5, <2>2, <2>5, <2>6, GotoType, Labels DEF Spawn, TypeOK
<1>6. CASE Insert(r)
  <2>1. call[r].vm \in 0..Len(vms)
    BY <1>6 DEF Insert, HandlesOwn, TypeOK
  <2> QED BY Zenon, <1>1, <1>6, <2>1, ReplyType DEF Insert, TypeOK
<1> QED BY Zenon, <1>2, <1>3, <1>4, <1>5, <1>6

(* Stop and destroy only change the state of one sandbox.                  *)
LEMMA OrchType ==
  ASSUME NEW map \in [Ids -> Sandbox], NEW id \in Ids
  PROVE  AfterStop(map, id) \in [Ids -> Sandbox] /\ AfterDestroy(map, id) \in [Ids -> Sandbox]
<1>1. map[id] \in Sandbox
  BY Zenon
<1>2. /\ [map[id] EXCEPT !.state = "Stopped"] \in Sandbox
      /\ [map[id] EXCEPT !.state = "Absent"] \in Sandbox
  BY Zenon, <1>1 DEF Sandbox
<1> QED BY Zenon, <1>2 DEF AfterStop, AfterDestroy

(* Those of stop, of destroy and of the REST handler.                      *)
LEMMA StopType ==
  ASSUME TypeOK, NEW r \in Requests,
         \/ Take(r) \/ Joined(r) \/ OrchStop(r) \/ Destroy(r)
         \/ RestFlag(r) \/ RestSignal(r) \/ RestDrop(r) \/ RestForget(r)
  PROVE  TypeOK'
<1> USE DEF orchVars, createVars, metaVars, tableVars, At
<1>1. call[r] \in Call /\ call[r].id \in Ids /\ vms \in Seq(Vm)
  BY Zenon DEF TypeOK, Call
<1> DEFINE id == call[r].id
<1>2. handles[id] \in 0..Len(vms) /\ Len(vms) \in Nat
  BY <1>1 DEF TypeOK
<1>3. handles[id] # 0 /\ Signal(handles[id]) => vms' \in Seq(Vm) /\ Len(vms') = Len(vms)
  BY <1>1, <1>2, SignalFacts
<1>4. CASE Take(r)
  <2>1. vms' \in Seq(Vm) /\ Len(vms') = Len(vms)
    BY Zenon, <1>1, <1>3, <1>4 DEF Take
  <2>2. handles' \in [Ids -> 0..Len(vms)]
    <3>1. handles' = handles \/ handles' = [handles EXCEPT ![id] = 0]
      BY Zenon, <1>4 DEF Take
    <3>2. handles \in [Ids -> 0..Len(vms)]
      BY Zenon DEF TypeOK
    <3> QED BY <1>1, <1>2, <3>1, <3>2
  <2>3. [call[r] EXCEPT !.vm = handles[id]] \in Call
    BY <1>1, <1>2 DEF Call
  <2>4. call' \in [Requests -> Call]
    BY Zenon, <1>4, <2>3 DEF Take, TypeOK
  <2>5. pc' \in [Requests -> PcStates]
    BY Zenon, <1>4, GotoType, Labels DEF Take
  <2>6. tableLock' \in Requests \cup {NoRequest}
    BY Zenon, <1>4 DEF Take, TypeOK
  <2> QED BY Zenon, <1>4, <2>1, <2>2, <2>4, <2>5, <2>6 DEF Take, TypeOK
<1>5. CASE Joined(r)
  BY Zenon, <1>5, GotoType, Labels DEF Joined, AfterJoin, UnlockTable, TypeOK
<1>6. CASE OrchStop(r)
  BY Zenon, <1>1, <1>6, OrchType, ReplyType DEF OrchStop, TypeOK
<1>7. CASE Destroy(r)
  BY Zenon, <1>1, <1>7, OrchType, ReplyType DEF Destroy, TypeOK
<1>8. CASE RestFlag(r)
  <2>1. vms' \in Seq(Vm) /\ Len(vms') = Len(vms)
    BY Zenon, <1>1, <1>3, <1>8 DEF RestFlag
  <2>2. pc' \in [Requests -> PcStates] /\ call' \in [Requests -> Call]
    BY Zenon, <1>8, GotoType, ReplyType, Labels DEF RestFlag, TypeOK
  <2> QED BY Zenon, <1>8, <2>1, <2>2 DEF RestFlag, TypeOK
<1>9. CASE RestSignal(r)
  <2>1. vms' \in Seq(Vm) /\ Len(vms') = Len(vms)
    BY Zenon, <1>1, <1>3, <1>9 DEF RestSignal
  <2>2. pc' \in [Requests -> PcStates]
    BY Zenon, <1>9, GotoType, Labels DEF RestSignal
  <2> QED BY Zenon, <1>9, <2>1, <2>2 DEF RestSignal, TypeOK
<1>10. CASE RestDrop(r)
  <2>1. sandboxes' \in [Ids -> Sandbox]
    BY Zenon, <1>1, <1>10, OrchType DEF RestDrop, TypeOK
  <2> QED BY Zenon, <1>10, <2>1, GotoType, Labels DEF RestDrop, TypeOK
<1>11. CASE RestForget(r)
  <2>1. handles' \in [Ids -> 0..Len(vms)]
    BY <1>1, <1>2, <1>11 DEF RestForget, TypeOK
  <2> QED BY Zenon, <1>11, <2>1, ReplyType DEF RestForget, TypeOK
<1> QED BY Zenon, <1>4, <1>5, <1>6, <1>7, <1>8, <1>9, <1>10, <1>11

(* Those of the VM threads.                                                *)
LEMMA VmType ==
  ASSUME TypeOK, NEW t \in DOMAIN vms, Running(t)
  PROVE  TypeOK'
<1>1. vms \in Seq(Vm)
  BY Zenon DEF TypeOK
<1>2. OnlyVms /\ \E from : \E to \in {"booting", "running", "exited"} : Status(t, from, to)
  BY Zenon DEF Running, VmBoot, VmBootFails, VmEnds, VmShutdown
<1>3. vms' \in Seq(Vm) /\ Len(vms') = Len(vms)
  BY Zenon, <1>1, <1>2, StatusFacts
<1> QED BY Zenon, <1>2, <1>3 DEF OnlyVms, TypeOK, orchVars, createVars, metaVars, tableVars
-----------------------------------------------------------------------------
(* Which incarnation is whose                                              *)

StopPc == {"join", "orch_stop", "rest_drop"}
Safe == Identity /\ OneVmPerIncarnation /\ FlaggedIsBeingStopped

(* A step of one call that leaves the orchestrator, the table and the VMs  *)
(* alone: Admit, Pull, the metadata steps, Joined, and every early return. *)
LEMMA QuietStep ==
  ASSUME TypeOK, Safe, NEW r \in Requests, NEW label, Goto(r, label),
         UNCHANGED <<orchVars, asked, handles, vms>>,
         \A q \in Requests \ {r} : call'[q] = call[q],
         label \in CreatePc \cup StartPc =>
           /\ label \in CreatePc <=> pc[r] \in CreatePc
           /\ label \in StartPc <=> pc[r] \in StartPc
           /\ call'[r].inc = call[r].inc
           /\ call'[r].id = call[r].id,
         label # "insert",
         pc[r] \in StopPc => label \in StopPc /\ call'[r].id = call[r].id
  PROVE  Safe'
<1> USE DEF orchVars
<1>1. /\ pc'[r] = label
      /\ \A q \in Requests \ {r} : pc'[q] = pc[q]
  BY Zenon DEF Goto, TypeOK
<1>2. "insert" \notin CreatePc \cup StartPc
  BY Zenon DEF CreatePc, StartPc
<1>3. HandlesOwn'
  BY Zenon, <1>1 DEF HandlesOwn, Safe, Identity
<1>4. TicketsNew'
  BY <1>1 DEF TicketsNew, Safe, Identity
<1>5. SandboxesBorn'
  BY Zenon DEF SandboxesBorn, Present, Safe, Identity
<1>6. StartsAlone'
  BY <1>1 DEF StartsAlone, Present, Safe, Identity
<1>7. VmsStarted'
  BY Zenon DEF VmsStarted, Present, Safe, Identity
<1>8. OneVmPerIncarnation'
  BY Zenon DEF OneVmPerIncarnation, Safe
<1>9. FlaggedIsBeingStopped'
  BY <1>1 DEF FlaggedIsBeingStopped, Safe, StopPc
<1> QED BY Zenon, <1>3, <1>4, <1>5, <1>6, <1>7, <1>8, <1>9 DEF Safe, Identity

(* An early return of a call that is not stopping anything.                *)
LEMMA ReplyQuiet ==
  ASSUME TypeOK, Safe, NEW r \in Requests, Reply(r), pc[r] \notin StopPc,
         UNCHANGED <<orchVars, asked, handles, vms>>
  PROVE  Safe'
<1>1. "idle" \notin CreatePc \cup StartPc /\ Goto(r, "idle")
  BY Zenon DEF CreatePc, StartPc, Reply
<1>2. \A q \in Requests \ {r} : call'[q] = call[q]
  BY Zenon DEF Reply, TypeOK
<1> QED BY Zenon, <1>1, <1>2, QuietStep

(* A create call gets a number nobody has.                                 *)
LEMMA ArriveSafe ==
  ASSUME TypeOK, Safe, NEW r \in Requests, Arrivals(r)
  PROVE  Safe'
<1> USE DEF At
<1>1. ASSUME NEW id \in Ids, NEW op \in Ops \ Creating, Arrive(r, op, id)
      PROVE  Safe'
  <2>1. EntryPoint(op) \notin CreatePc \cup StartPc \cup {"insert"}
    BY Zenon DEF EntryPoint, CreatePc, StartPc, Ops, Creating
  <2>2. \A q \in Requests \ {r} : call'[q] = call[q]
    BY Zenon, <1>1 DEF Arrive, TypeOK
  <2>3. pc[r] \notin StopPc
    BY Zenon, <1>1 DEF Arrive, StopPc
  <2> QED BY Zenon, <1>1, <2>1, <2>2, <2>3, QuietStep DEF Arrive, createVars, tableVars
<1>2. ASSUME NEW id \in Ids, NEW op \in Creating, NEW image \in OptImages,
             ArriveCreate(r, op, id, image)
      PROVE  Safe'
  <2>1. /\ pc'[r] = "admit" /\ pc[r] = "idle"
        /\ \A q \in Requests \ {r} : pc'[q] = pc[q] /\ call'[q] = call[q]
    BY Zenon, <1>2 DEF ArriveCreate, Goto, TypeOK
  <2>2. call'[r].inc = asked + 1
    <3>1. call'[r] = [NoCall EXCEPT !.op = op, !.id = id, !.image = image, !.inc = asked + 1]
      BY Zenon, <1>2 DEF ArriveCreate, TypeOK
    <3> QED BY Zenon, <3>1, NoCallType DEF Call
  <2>3. /\ asked \in Nat /\ asked' = asked + 1 /\ born \subseteq 1..asked
        /\ UNCHANGED <<sandboxes, born, started, handles, vms>>
    BY <1>2 DEF ArriveCreate, TypeOK, orchVars, tableVars
  <2>4. HandlesOwn'
    BY Zenon, <2>1, <2>3 DEF HandlesOwn, Safe, Identity
  <2>5. TicketsNew'
    BY <2>1, <2>2, <2>3 DEF TicketsNew, Safe, Identity
  <2>6. SandboxesBorn' /\ VmsStarted' /\ OneVmPerIncarnation'
    BY Zenon, <2>3 DEF SandboxesBorn, VmsStarted, OneVmPerIncarnation, Present, Safe, Identity
  <2>7. StartsAlone'
    BY <2>1, <2>3 DEF StartsAlone, StartPc, Present, Safe, Identity
  <2>8. FlaggedIsBeingStopped'
    BY <2>1, <2>3 DEF FlaggedIsBeingStopped, Safe
  <2> QED BY Zenon, <2>4, <2>5, <2>6, <2>7, <2>8 DEF Safe, Identity
<1> QED BY Zenon, <1>1, <1>2 DEF Arrivals

(* The steps of create_sandbox keep the invariant: the number of the call  *)
(* is new.                                                                 *)
LEMMA CreateSafe ==
  ASSUME TypeOK, Safe, NEW r \in Requests,
         \/ Admit(r) \/ Pull(r) \/ PullFails(r) \/ StoreDigest(r)
         \/ StoreCommand(r) \/ Register(r)
  PROVE  Safe'
<1> USE DEF At, createVars, tableVars
<1>1. call[r] \in Call /\ call[r].id \in Ids
  BY Zenon DEF TypeOK, Call
<1>2. pc[r] \in CreatePc /\ pc[r] \notin StartPc \cup StopPc
  BY Zenon DEF Admit, Pull, PullFails, StoreDigest, StoreCommand, Register, CreatePc, StartPc, StopPc
<1>3. ASSUME NEW label \in CreatePc, Goto(r, label), call' = call,
             UNCHANGED <<orchVars, asked, handles, vms>>
      PROVE  Safe'
  <2>1. label # "insert" /\ label \notin StartPc
    BY Zenon DEF CreatePc, StartPc
  <2> QED BY Zenon, <1>2, <1>3, <2>1, QuietStep
<1>4. CASE Admit(r)
  <2>1. UNCHANGED <<orchVars, asked, handles, vms>>
    BY Zenon, <1>4 DEF Admit
  <2>2. CASE Reply(r)
    BY Zenon, <1>2, <2>1, <2>2, ReplyQuiet
  <2>3. CASE call' = call /\ \E path \in CreatePc : Goto(r, path)
    BY Zenon, <1>3, <2>1, <2>3
  <2> QED BY Zenon, <1>4, <2>2, <2>3 DEF Admit, ImagePaths, CreatePc
<1>5. CASE Pull(r) \/ StoreDigest(r) \/ StoreCommand(r)
  BY Zenon, <1>3, <1>5 DEF Pull, StoreDigest, StoreCommand, CreatePc
<1>6. CASE PullFails(r)
  <2>1. call'[r] = [call[r] EXCEPT !.image = NoImage] /\ \A q \in Requests \ {r} : call'[q] = call[q]
    BY Zenon, <1>6 DEF PullFails, TypeOK
  <2>2. call'[r].inc = call[r].inc /\ call'[r].id = call[r].id
    BY Zenon, <1>1, <2>1 DEF Call
  <2>3. "register" \in CreatePc /\ "register" \notin StartPc
    BY Zenon DEF CreatePc, StartPc
  <2> QED BY Zenon, <1>2, <1>6, <2>1, <2>2, <2>3, QuietStep DEF PullFails
<1>7. CASE Register(r)
  <2> DEFINE id == call[r].id
  <2>1. CASE Present(id)
    BY Zenon, <1>2, <1>7, <2>1, ReplyQuiet DEF Register, orchVars
  <2>2. CASE ~Present(id)
    <3>1. /\ sandboxes'[id].state = "Created" /\ sandboxes'[id].inc = call[r].inc
          /\ \A jd \in Ids \ {id} : sandboxes'[jd] = sandboxes[jd]
          /\ born' = born \cup {call[r].inc}
          /\ UNCHANGED <<asked, started, handles, vms>>
      BY <1>1, <1>7, <2>2 DEF Register, TypeOK
    <3>2. /\ pc'[r] \in {"idle", "start"}
          /\ \A q \in Requests \ {r} : pc'[q] = pc[q] /\ call'[q] = call[q]
      BY Zenon, <1>7, <2>2 DEF Register, Reply, Goto, TypeOK
    <3>3. /\ call[r].inc \notin born /\ started \subseteq born
          /\ \A q \in Requests \ {r} : pc[q] \in CreatePc => call[q].inc # call[r].inc
      BY Zenon, <1>2 DEF TicketsNew, Safe, Identity, TypeOK
    <3>4. pc'[r] \notin CreatePc \cup StartPc \cup {"insert"}
      BY Zenon, <3>2 DEF CreatePc, StartPc
    <3>5. HandlesOwn'
      BY Zenon, <3>1, <3>2, <3>4 DEF HandlesOwn, Safe, Identity
    <3>6. TicketsNew'
      BY Zenon, <3>1, <3>2, <3>3, <3>4 DEF TicketsNew, Safe, Identity
    <3>7. SandboxesBorn'
      BY <3>1, <3>3 DEF SandboxesBorn, Present, Safe, Identity
    <3>8. StartsAlone'
      BY <3>1, <3>2, <3>3, <3>4 DEF StartsAlone, Present, Safe, Identity
    <3>9. VmsStarted' /\ OneVmPerIncarnation'
      BY <3>1, <3>3 DEF VmsStarted, OneVmPerIncarnation, Present, Safe, Identity
    <3>10. FlaggedIsBeingStopped'
      BY <1>2, <3>1, <3>2 DEF FlaggedIsBeingStopped, Safe, StopPc
    <3> QED BY Zenon, <3>5, <3>6, <3>7, <3>8, <3>9, <3>10 DEF Safe, Identity
  <2> QED BY Zenon, <2>1, <2>2
<1> QED BY Zenon, <1>4, <1>5, <1>6, <1>7

(* The steps of start_sandbox: the VM they spawn is the only one.          *)
LEMMA StartSafe ==
  ASSUME TypeOK, Safe, NEW r \in Requests,
         Start(r) \/ ReadDigest(r) \/ ReadCommand(r) \/ Spawn(r) \/ Insert(r)
  PROVE  Safe'
<1> USE DEF At, createVars, tableVars
<1>1. call[r] \in Call /\ call[r].id \in Ids
  BY Zenon DEF TypeOK, Call
<1>2. CASE Start(r)
  <2> DEFINE id == call[r].id
  <2>1. pc[r] \notin StopPc
    BY Zenon, <1>2 DEF Start, StopPc
  <2>2. CASE ~MayStart(id)
    BY Zenon, <1>2, <2>1, <2>2, ReplyQuiet DEF Start, orchVars
  <2>3. CASE MayStart(id)
    <3>1. /\ sandboxes'[id].state = "Running" /\ sandboxes'[id].inc = sandboxes[id].inc
          /\ \A jd \in Ids \ {id} : sandboxes'[jd] = sandboxes[jd]
      <4>1. sandboxes[id] \in Sandbox
        BY Zenon, <1>1 DEF TypeOK
      <4>2. /\ sandboxes'[id] = [sandboxes[id] EXCEPT !.state = "Running"]
            /\ \A jd \in Ids \ {id} : sandboxes'[jd] = sandboxes[jd]
        BY Zenon, <1>1, <1>2, <2>3 DEF Start, TypeOK
      <4> QED BY Zenon, <4>1, <4>2 DEF Sandbox
    <3>2. /\ started' = started \cup {sandboxes[id].inc}
          /\ UNCHANGED <<asked, born, handles, vms>>
      BY Zenon, <1>2, <2>3 DEF Start
    <3>3. /\ pc'[r] = "idle" \/ pc'[r] = "read_digest"
          /\ pc'[r] = "read_digest" => /\ call'[r].inc = sandboxes[id].inc
                                       /\ call'[r].id = id
          /\ \A q \in Requests \ {r} : pc'[q] = pc[q] /\ call'[q] = call[q]
      <4>1. CASE Reply(r)
        BY Zenon, <4>1 DEF Reply, Goto, TypeOK
      <4>2. CASE /\ Goto(r, "read_digest")
                 /\ call' = [call EXCEPT ![r].inc = sandboxes[id].inc,
                                         ![r].image = sandboxes[id].image]
        <5>1. call'[r] = [call[r] EXCEPT !.inc = sandboxes[id].inc, !.image = sandboxes[id].image]
          BY Zenon, <4>2 DEF TypeOK
        <5>2. call'[r].inc = sandboxes[id].inc /\ call'[r].id = id
          BY Zenon, <1>1, <5>1 DEF Call
        <5> QED BY Zenon, <4>2, <5>2 DEF Goto, TypeOK
      <4> QED BY Zenon, <1>2, <2>3, <4>1, <4>2 DEF Start
    <3>4. /\ sandboxes[id].inc \notin started
          /\ \A jd \in Ids : Present(jd) /\ sandboxes[jd].inc = sandboxes[id].inc => jd = id
      BY Zenon, <1>1, <2>3 DEF MayStart, Present, SandboxesBorn, Safe, Identity
    <3>5. pc'[r] \notin CreatePc \cup {"insert"}
      BY Zenon, <3>3 DEF CreatePc
    <3>6. HandlesOwn' /\ TicketsNew'
      BY Zenon, <3>2, <3>3, <3>5 DEF HandlesOwn, TicketsNew, Safe, Identity
    <3>7. SandboxesBorn'
      BY SMTT(30), <1>1, <2>3, <3>1, <3>2 DEF SandboxesBorn, MayStart, Present, Safe, Identity
    <3>8. StartsAlone'
      <4>1. \A t \in DOMAIN vms : vms[t].inc # sandboxes[id].inc
        BY Zenon, <3>4 DEF VmsStarted, Safe, Identity
      <4>2. \A q \in Requests : pc[q] \in StartPc => call[q].inc # sandboxes[id].inc
        BY Zenon, <3>4 DEF StartsAlone, Safe, Identity
      <4>3. "idle" \notin StartPc
        BY Zenon DEF StartPc
      <4> QED BY SMTT(30), <2>3, <3>1, <3>2, <3>3, <3>4, <4>1, <4>2, <4>3
              DEF StartsAlone, MayStart, Present, Safe, Identity
    <3>9. VmsStarted'
      BY <2>3, <3>1, <3>2 DEF VmsStarted, MayStart, Present, Safe, Identity
    <3>10. OneVmPerIncarnation'
      BY Zenon, <3>2 DEF OneVmPerIncarnation, Safe
    <3>11. FlaggedIsBeingStopped'
      <4>1. \A t \in DOMAIN vms : vms[t].inc # sandboxes[id].inc
        BY Zenon, <3>4 DEF VmsStarted, Safe, Identity
      <4> QED BY <2>1, <3>1, <3>2, <3>3, <4>1 DEF FlaggedIsBeingStopped, Safe, StopPc
    <3> QED BY Zenon, <3>6, <3>7, <3>8, <3>9, <3>10, <3>11 DEF Safe, Identity
  <2> QED BY Zenon, <2>2, <2>3
<1>3. CASE ReadDigest(r) \/ ReadCommand(r)
  <2>1. /\ pc[r] \in StartPc /\ pc[r] \notin CreatePc \cup StopPc
        /\ \E label \in StartPc : Goto(r, label)
        /\ UNCHANGED <<orchVars, asked, handles, vms>>
    BY Zenon, <1>3 DEF ReadDigest, ReadCommand, StartPc, CreatePc, StopPc
  <2>2. /\ \/ call'[r] = [call[r] EXCEPT !.digest = digests[call[r].id]]
           \/ call'[r] = [call[r] EXCEPT !.command = commands[call[r].id]]
        /\ \A q \in Requests \ {r} : call'[q] = call[q]
    BY Zenon, <1>3 DEF ReadDigest, ReadCommand, TypeOK
  <2>3. call'[r].inc = call[r].inc /\ call'[r].id = call[r].id
    BY Zenon, <1>1, <2>2 DEF Call
  <2>4. "insert" \notin StartPc /\ \A label \in StartPc : label \notin CreatePc
    BY Zenon DEF StartPc, CreatePc
  <2> QED BY Zenon, <2>1, <2>2, <2>3, <2>4, QuietStep
<1>4. CASE Spawn(r)
  <2> DEFINE n == Len(vms) + 1
  <2>1. pc[r] \in StartPc /\ pc[r] \notin StopPc
    BY Zenon, <1>4 DEF Spawn, StartPc, StopPc
  <2>2. /\ call[r].inc \in started /\ call[r].inc \in 1..MaxCreates
        /\ \A t \in DOMAIN vms : vms[t].inc # call[r].inc
        /\ \A q \in Requests \ {r} : pc[q] \in StartPc => call[q].inc # call[r].inc
        /\ \A id \in Ids : Present(id) /\ sandboxes[id].inc = call[r].inc => id = call[r].id
    <3>1. /\ call[r].inc \in started
          /\ \A t \in DOMAIN vms : vms[t].inc # call[r].inc
          /\ \A q \in Requests \ {r} : pc[q] \in StartPc => call[q].inc # call[r].inc
          /\ \A id \in Ids : Present(id) /\ sandboxes[id].inc = call[r].inc => id = call[r].id
      BY Zenon, <2>1 DEF StartsAlone, Safe, Identity
    <3>2. call[r].inc \in 1..MaxCreates
      <4>1. asked \in 0..MaxCreates /\ MaxCreates \in Nat /\ started \subseteq 1..asked
        BY Zenon, DaemonAssumption DEF TypeOK
      <4>2. call[r].inc \in 1..asked
        BY Zenon, <3>1, <4>1
      <4> QED BY <4>1, <4>2
    <3> QED BY Zenon, <3>1, <3>2
  <2>3. /\ Len(vms') = n /\ Len(vms) \in Nat
        /\ DOMAIN vms = 1..Len(vms) /\ DOMAIN vms' = 1..n
        /\ \A t \in 1..Len(vms) : vms'[t] = vms[t]
        /\ vms'[n].id = call[r].id /\ vms'[n].inc = call[r].inc /\ ~vms'[n].shutdown
    BY <1>4, <2>2, SpawnFacts DEF TypeOK
  <2>4. /\ pc'[r] = "insert"
        /\ \A q \in Requests \ {r} : pc'[q] = pc[q] /\ call'[q] = call[q]
        /\ UNCHANGED <<sandboxes, asked, born, started, handles>>
    BY Zenon, <1>4 DEF Spawn, Goto, TypeOK, orchVars
  <2>5. call'[r].vm = n /\ call'[r].id = call[r].id
    <3>1. call'[r] = [call[r] EXCEPT !.vm = n]
      BY Zenon, <1>4 DEF Spawn, TypeOK
    <3> QED BY Zenon, <1>1, <3>1 DEF Call
  <2>6. pc'[r] \notin CreatePc \cup StartPc
    BY Zenon, <2>4 DEF CreatePc, StartPc
  <2>7. HandlesOwn'
    <3>1. \A id \in Ids : handles[id] \in 0..Len(vms)
      BY Zenon DEF TypeOK
    <3> QED BY <2>3, <2>4, <2>5, <3>1 DEF HandlesOwn, Safe, Identity
  <2>8. TicketsNew' /\ SandboxesBorn'
    BY Zenon, <2>4, <2>6 DEF TicketsNew, SandboxesBorn, Present, Safe, Identity
  <2>9. StartsAlone'
    BY <2>2, <2>3, <2>4, <2>6 DEF StartsAlone, Present, Safe, Identity
  <2>10. VmsStarted'
    BY SMTT(30), <2>2, <2>3, <2>4 DEF VmsStarted, Present, Safe, Identity
  <2>11. OneVmPerIncarnation'
    BY SMTT(30), <2>2, <2>3 DEF OneVmPerIncarnation, Safe
  <2>12. FlaggedIsBeingStopped'
    BY <2>1, <2>3, <2>4 DEF FlaggedIsBeingStopped, Safe, StopPc
  <2> QED BY Zenon, <2>7, <2>8, <2>9, <2>10, <2>11, <2>12 DEF Safe, Identity
<1>5. CASE Insert(r)
  <2>1. /\ pc'[r] = "idle" /\ pc[r] = "insert"
        /\ \A q \in Requests \ {r} : pc'[q] = pc[q] /\ call'[q] = call[q]
        /\ UNCHANGED <<sandboxes, asked, born, started, vms>>
        /\ handles' = [handles EXCEPT ![call[r].id] = call[r].vm]
    BY Zenon, <1>5 DEF Insert, Reply, Goto, TypeOK, orchVars
  <2>2. HandlesOwn'
    BY Zenon, <1>1, <2>1 DEF HandlesOwn, Safe, Identity, TypeOK
  <2>3. TicketsNew' /\ SandboxesBorn' /\ VmsStarted' /\ OneVmPerIncarnation'
    BY <2>1 DEF TicketsNew, SandboxesBorn, VmsStarted, OneVmPerIncarnation, Present,
                CreatePc, Safe, Identity
  <2>4. StartsAlone'
    BY <2>1 DEF StartsAlone, StartPc, Present, Safe, Identity
  <2>5. FlaggedIsBeingStopped'
    BY <2>1 DEF FlaggedIsBeingStopped, Safe
  <2> QED BY Zenon, <2>2, <2>3, <2>4, <2>5 DEF Safe, Identity
<1> QED BY Zenon, <1>2, <1>3, <1>4, <1>5

(* A call that sets the flag of the VM filed under its sandbox id is on    *)
(* its way to the orchestrator: Take, RestFlag, RestSignal.                *)
LEMMA SignalSafe ==
  ASSUME TypeOK, Safe, NEW r \in Requests, NEW id \in Ids, NEW label \in StopPc,
         handles[id] # 0, Signal(handles[id]), call[r].id = id, call'[r].id = id,
         \A q \in Requests \ {r} : call'[q] = call[q],
         Goto(r, label), UNCHANGED <<orchVars, asked>>,
         handles' = handles \/ handles' = [handles EXCEPT ![id] = 0]
  PROVE  Safe'
<1> USE DEF orchVars
<1>1. handles[id] \in 1..Len(vms) /\ vms \in Seq(Vm)
  BY SMTT(30) DEF TypeOK
<1>2. /\ DOMAIN vms = 1..Len(vms) /\ DOMAIN vms' = DOMAIN vms /\ Len(vms') = Len(vms)
      /\ \A u \in 1..Len(vms) : vms'[u].id = vms[u].id /\ vms'[u].inc = vms[u].inc
      /\ \A u \in 1..Len(vms) : u # handles[id] => vms'[u].shutdown = vms[u].shutdown
  BY <1>1, SignalFacts DEF SameThread
<1>3. /\ pc'[r] = label /\ label \notin CreatePc \cup StartPc \cup {"insert"}
      /\ \A q \in Requests \ {r} : pc'[q] = pc[q]
  BY Zenon DEF Goto, TypeOK, StopPc, CreatePc, StartPc
<1>4. HandlesOwn'
  <2>1. \A jd \in Ids : handles[jd] \in 0..Len(vms)
    BY Zenon DEF TypeOK
  <2>2. \A jd \in Ids : handles'[jd] = handles[jd] \/ handles'[jd] = 0
    BY Zenon DEF TypeOK
  <2>3. \A jd \in Ids : handles'[jd] # 0 => vms'[handles'[jd]].id = jd
    BY SMTT(30), <1>2, <2>1, <2>2 DEF HandlesOwn, Safe, Identity
  <2>4. ASSUME NEW q \in Requests, pc'[q] = "insert"
        PROVE  call'[q].vm \in 1..Len(vms') /\ vms'[call'[q].vm].id = call'[q].id
    BY SMTT(30), <1>2, <1>3, <2>4 DEF HandlesOwn, Safe, Identity
  <2> QED BY Zenon, <2>3, <2>4 DEF HandlesOwn
<1>5. TicketsNew' /\ SandboxesBorn'
  BY <1>3 DEF TicketsNew, SandboxesBorn, Present, Safe, Identity
<1>6. StartsAlone'
  BY SMTT(30), <1>2, <1>3 DEF StartsAlone, Present, Safe, Identity
<1>7. VmsStarted' /\ OneVmPerIncarnation'
  BY SMTT(30), <1>2 DEF VmsStarted, OneVmPerIncarnation, Present, Safe, Identity
<1>8. FlaggedIsBeingStopped'
  <2> SUFFICES ASSUME NEW jd \in Ids, NEW t \in DOMAIN vms',
                      sandboxes'[jd].state = "Running",
                      vms'[t].inc = sandboxes'[jd].inc, vms'[t].shutdown
               PROVE  \E q \in Requests : call'[q].id = jd /\ pc'[q] \in StopPc
    BY Zenon DEF FlaggedIsBeingStopped, StopPc
  <2>1. vms[t].id = jd
    BY SMTT(30), <1>2 DEF VmsStarted, Present, Safe, Identity
  <2>2. CASE t = handles[id]
    BY Zenon, <1>3, <2>1, <2>2 DEF HandlesOwn, Safe, Identity
  <2>3. CASE t # handles[id]
    <3>1. PICK q \in Requests : call[q].id = jd /\ pc[q] \in StopPc
      BY <1>2, <2>3 DEF FlaggedIsBeingStopped, Safe, StopPc
    <3> QED BY Zenon, <1>3, <3>1
  <2> QED BY Zenon, <2>2, <2>3
<1> QED BY Zenon, <1>4, <1>5, <1>6, <1>7, <1>8 DEF Safe, Identity

(* A step of the orchestrator that stops or removes the sandbox of one id. *)
LEMMA OrchSafe ==
  ASSUME TypeOK, Safe, NEW r \in Requests, NEW id \in Ids, NEW label, Goto(r, label),
         label \notin CreatePc \cup StartPc \cup {"insert"}, call[r].id = id,
         \A q \in Requests \ {r} : call'[q] = call[q],
         UNCHANGED <<asked, born, started, handles, vms>>,
         \A jd \in Ids \ {id} : sandboxes'[jd] = sandboxes[jd],
         sandboxes'[id].inc = sandboxes[id].inc,
         \/ sandboxes'[id].state = "Absent"
         \/ sandboxes'[id].state = "Stopped" /\ sandboxes[id].state = "Running"
         \/ sandboxes'[id].state = sandboxes[id].state
            /\ (sandboxes[id].state = "Running" => pc[r] \notin StopPc)
  PROVE  Safe'
<1>1. pc'[r] = label /\ \A q \in Requests \ {r} : pc'[q] = pc[q]
  BY Zenon DEF Goto, TypeOK
<1>2. HandlesOwn' /\ TicketsNew'
  BY SMTT(30), <1>1 DEF HandlesOwn, TicketsNew, Safe, Identity
<1>3. SandboxesBorn'
  BY DEF SandboxesBorn, Present, Safe, Identity
<1>4. StartsAlone'
  BY SMTT(30), <1>1 DEF StartsAlone, Present, Safe, Identity
<1>5. VmsStarted' /\ OneVmPerIncarnation'
  BY DEF VmsStarted, OneVmPerIncarnation, Present, Safe, Identity
<1>6. FlaggedIsBeingStopped'
  <2> SUFFICES ASSUME NEW jd \in Ids, NEW t \in DOMAIN vms,
                      sandboxes'[jd].state = "Running",
                      vms[t].inc = sandboxes'[jd].inc, vms[t].shutdown
               PROVE  \E q \in Requests : call'[q].id = jd /\ pc'[q] \in StopPc
    BY Zenon DEF FlaggedIsBeingStopped, StopPc
  <2>1. sandboxes[jd].state = "Running" /\ vms[t].inc = sandboxes[jd].inc
    BY Zenon
  <2>2. PICK q \in Requests : call[q].id = jd /\ pc[q] \in StopPc
    BY Zenon, <2>1 DEF FlaggedIsBeingStopped, Safe, StopPc
  <2>3. q # r
    BY Zenon, <2>1, <2>2
  <2> QED BY Zenon, <1>1, <2>2, <2>3
<1> QED BY Zenon, <1>2, <1>3, <1>4, <1>5, <1>6 DEF Safe, Identity

(* What stop and destroy make of the orchestrator's map.                   *)
LEMMA OrchFacts ==
  ASSUME NEW map \in [Ids -> Sandbox], NEW id \in Ids
  PROVE  /\ \A jd \in Ids \ {id} : /\ AfterStop(map, id)[jd] = map[jd]
                                    /\ AfterDestroy(map, id)[jd] = map[jd]
         /\ AfterStop(map, id)[id].inc = map[id].inc
         /\ AfterDestroy(map, id)[id].inc = map[id].inc
         /\ AfterStop(map, id)[id].image = map[id].image
         /\ AfterDestroy(map, id)[id].image = map[id].image
         /\ AfterStop(map, id)[id].state =
              IF map[id].state = "Running" THEN "Stopped" ELSE map[id].state
         /\ AfterDestroy(map, id)[id].state =
              IF map[id].state = "Running" THEN "Running" ELSE "Absent"
<1>1. map[id] \in Sandbox
  BY Zenon
<1>2. CASE map[id].state = "Running"
  BY Zenon, <1>1, <1>2 DEF AfterStop, AfterDestroy, Sandbox
<1>3. CASE map[id].state # "Running"
  BY Zenon, <1>1, <1>3 DEF AfterStop, AfterDestroy, Sandbox
<1> QED BY Zenon, <1>2, <1>3

(* The steps that stop and destroy: a flag goes to the VM of the handle.   *)
LEMMA StopSafe ==
  ASSUME TypeOK, Safe, NEW r \in Requests,
         \/ Take(r) \/ Joined(r) \/ OrchStop(r) \/ Destroy(r)
         \/ RestFlag(r) \/ RestSignal(r) \/ RestDrop(r) \/ RestForget(r)
  PROVE  Safe'
<1> USE DEF At, createVars, tableVars
<1> DEFINE id == call[r].id
<1>1. call[r] \in Call /\ id \in Ids /\ sandboxes \in [Ids -> Sandbox]
  BY Zenon DEF TypeOK, Call
<1>2. {"idle", "rest_forget"} \cap (CreatePc \cup StartPc \cup {"insert"}) = {}
  BY Zenon DEF CreatePc, StartPc
<1>3. ASSUME NEW label \in StopPc, Goto(r, label), call' = call, UNCHANGED <<orchVars, asked, vms>>,
             handles' = handles
      PROVE  Safe'
  <2>1. label \notin CreatePc \cup StartPc \cup {"insert"}
    BY Zenon DEF CreatePc, StartPc, StopPc
  <2> QED BY Zenon, <1>3, <2>1, QuietStep
<1>4. CASE Take(r)
  <2>1. CASE handles[id] = 0
    BY Zenon, <1>3, <1>4, <2>1 DEF Take, StopPc
  <2>2. CASE handles[id] # 0
    <3>1. /\ call'[r] = [call[r] EXCEPT !.vm = handles[id]]
          /\ \A q \in Requests \ {r} : call'[q] = call[q]
      BY ZenonT(30), <1>4, <2>2 DEF Take, TypeOK
    <3>2. call'[r].id = id
      BY Zenon, <1>1, <3>1 DEF Call
    <3> QED BY Zenon, <1>1, <1>4, <2>2, <3>1, <3>2, SignalSafe DEF Take, StopPc
  <2> QED BY Zenon, <2>1, <2>2
<1>5. CASE Joined(r)
  BY Zenon, <1>3, <1>5 DEF Joined, AfterJoin, StopPc
<1>6. CASE OrchStop(r)
  <2>1. /\ Goto(r, "idle") /\ \A q \in Requests \ {r} : call'[q] = call[q]
        /\ sandboxes' = AfterStop(sandboxes, id)
        /\ UNCHANGED <<asked, born, started, handles, vms>>
    BY Zenon, <1>6 DEF OrchStop, Reply, TypeOK
  <2> QED BY SMTT(30), <1>1, <1>2, <2>1, OrchFacts, OrchSafe
<1>7. CASE Destroy(r)
  <2>1. /\ Goto(r, "idle") /\ \A q \in Requests \ {r} : call'[q] = call[q]
        /\ sandboxes' = AfterDestroy(sandboxes, id) /\ pc[r] \notin StopPc
        /\ UNCHANGED <<asked, born, started, handles, vms>>
    BY Zenon, <1>7 DEF Destroy, Reply, StopPc, TypeOK
  <2> QED BY SMTT(30), <1>1, <1>2, <2>1, OrchFacts, OrchSafe
<1>8. CASE RestFlag(r)
  <2>1. CASE handles[id] = 0
    <3>1. pc[r] \notin StopPc
      BY Zenon, <1>8 DEF RestFlag, StopPc
    <3> QED BY Zenon, <1>8, <2>1, <3>1, ReplyQuiet DEF RestFlag
  <2>2. CASE handles[id] # 0
    BY Zenon, <1>1, <1>8, <2>2, SignalSafe DEF RestFlag, StopPc
  <2> QED BY Zenon, <2>1, <2>2
<1>9. CASE RestSignal(r)
  <2>1. CASE handles[id] = 0
    BY Zenon, <1>3, <1>9, <2>1 DEF RestSignal, StopPc
  <2>2. CASE handles[id] # 0
    BY Zenon, <1>1, <1>9, <2>2, SignalSafe DEF RestSignal, StopPc
  <2> QED BY Zenon, <2>1, <2>2
<1>10. CASE RestDrop(r)
  <2> DEFINE stopped == AfterStop(sandboxes, id)
  <2>1. stopped \in [Ids -> Sandbox]
    BY Zenon, <1>1, OrchType
  <2>2. /\ \A jd \in Ids \ {id} : stopped[jd] = sandboxes[jd]
        /\ stopped[id].inc = sandboxes[id].inc /\ stopped[id].state # "Running"
    BY SMTT(30), <1>1, OrchFacts
  <2>3. /\ Goto(r, "rest_forget") /\ call' = call
        /\ sandboxes' = AfterDestroy(stopped, id)
        /\ UNCHANGED <<asked, born, started, handles, vms>>
    BY Zenon, <1>10 DEF RestDrop
  <2> HIDE DEF stopped
  <2>4. /\ \A jd \in Ids \ {id} : sandboxes'[jd] = sandboxes[jd]
        /\ sandboxes'[id].inc = sandboxes[id].inc /\ sandboxes'[id].state = "Absent"
    BY SMTT(30), <1>1, <2>1, <2>2, <2>3, OrchFacts
  <2> QED BY Zenon, <1>1, <1>2, <2>3, <2>4, OrchSafe
<1>11. CASE RestForget(r)
  <2>1. /\ pc'[r] = "idle" /\ pc[r] = "rest_forget"
        /\ \A q \in Requests \ {r} : pc'[q] = pc[q] /\ call'[q] = call[q]
        /\ UNCHANGED <<sandboxes, asked, born, started, vms>>
        /\ handles' = [handles EXCEPT ![id] = 0]
    BY Zenon, <1>11 DEF RestForget, Reply, Goto, TypeOK, orchVars
  <2>2. HandlesOwn'
    BY ZenonT(30), <1>1, <2>1 DEF HandlesOwn, Safe, Identity, TypeOK
  <2>3. TicketsNew' /\ SandboxesBorn' /\ VmsStarted' /\ OneVmPerIncarnation'
    BY <2>1 DEF TicketsNew, SandboxesBorn, VmsStarted, OneVmPerIncarnation, Present,
                CreatePc, Safe, Identity
  <2>4. StartsAlone'
    BY <2>1 DEF StartsAlone, StartPc, Present, Safe, Identity
  <2>5. FlaggedIsBeingStopped'
    BY <2>1 DEF FlaggedIsBeingStopped, Safe
  <2> QED BY Zenon, <2>2, <2>3, <2>4, <2>5 DEF Safe, Identity
<1> QED BY Zenon, <1>4, <1>5, <1>6, <1>7, <1>8, <1>9, <1>10, <1>11

(* The steps of the VM threads.                                            *)
LEMMA VmSafe ==
  ASSUME TypeOK, Safe, NEW t \in DOMAIN vms, Running(t)
  PROVE  Safe'
<1>1. vms \in Seq(Vm) /\ \A id \in Ids : handles[id] \in 0..Len(vms)
  BY Zenon DEF TypeOK
<1>2. OnlyVms /\ \E from : \E to \in {"booting", "running", "exited"} : Status(t, from, to)
  BY Zenon DEF Running, VmBoot, VmBootFails, VmEnds, VmShutdown
<1>3. /\ DOMAIN vms = 1..Len(vms) /\ DOMAIN vms' = DOMAIN vms /\ Len(vms') = Len(vms)
      /\ \A u \in 1..Len(vms) : /\ vms'[u].id = vms[u].id /\ vms'[u].inc = vms[u].inc
                                /\ vms'[u].shutdown = vms[u].shutdown
  BY <1>1, <1>2, StatusFacts DEF SameThread
<1>4. UNCHANGED <<sandboxes, asked, born, started, handles, pc, call>>
  BY Zenon, <1>2 DEF OnlyVms, orchVars, createVars, tableVars
<1>5. HandlesOwn'
  BY SMTT(30), <1>1, <1>3, <1>4 DEF HandlesOwn, Safe, Identity
<1>6. TicketsNew' /\ SandboxesBorn'
  BY Zenon, <1>4 DEF TicketsNew, SandboxesBorn, Present, Safe, Identity
<1>7. StartsAlone'
  BY SMTT(30), <1>3, <1>4 DEF StartsAlone, Present, Safe, Identity
<1>8. VmsStarted' /\ OneVmPerIncarnation'
  BY <1>3, <1>4 DEF VmsStarted, OneVmPerIncarnation, Present, Safe, Identity
<1>9. FlaggedIsBeingStopped'
  BY <1>3, <1>4 DEF FlaggedIsBeingStopped, Safe
<1> QED BY Zenon, <1>5, <1>6, <1>7, <1>8, <1>9 DEF Safe, Identity

-----------------------------------------------------------------------------
(***************************************************************************)
(* The theorems about SandboxDaemon, for every number of ids, images,      *)
(* calls in flight and VM threads.  MetaInv adds to IInv what is known of  *)
(* an id that no create call, or one create call, has named.               *)
(***************************************************************************)

(* What OwnMetadata needs to know of an id that no create call or one      *)
(* create call has named.                                                  *)
CreatesFor(r, id) == pc[r] \in CreatePc /\ call[r].id = id
StartsFor(r, id) == pc[r] \in StartPc /\ call[r].id = id

NothingStored(id) == digests[id] = NoImage /\ commands[id] = NoImage
NothingMade(id) == /\ ~Present(id)
                   /\ \A r \in Requests : ~StartsFor(r, id)
                   /\ \A t \in DOMAIN vms : vms[t].id # id
Stored(id, image) == digests[id] = image /\ commands[id] = image

NeverNamed == \A id \in Ids : creates[id] = 0 =>
                /\ NothingStored(id)
                /\ NothingMade(id)
                /\ \A r \in Requests : ~CreatesFor(r, id)

FirstCreate == \A id \in Ids, r \in Requests : creates[id] = 1 /\ CreatesFor(r, id) =>
                 /\ NothingMade(id)
                 /\ \A q \in Requests : CreatesFor(q, id) => q = r
                 /\ pc[r] \in {"admit", "pull", "digest"} => NothingStored(id)
                 /\ pc[r] = "command" => digests[id] = call[r].image
                 /\ pc[r] = "register" => Stored(id, call[r].image)

FirstSandbox == \A id \in Ids : creates[id] = 1 /\ Present(id)
                                => Stored(id, sandboxes[id].image)

FirstStart == \A id \in Ids, r \in Requests : creates[id] = 1 /\ StartsFor(r, id) =>
                /\ Stored(id, call[r].image)
                /\ pc[r] \in {"read_command", "spawn"} => call[r].digest = call[r].image
                /\ pc[r] = "spawn" => call[r].command = call[r].image

MetaInv == NeverNamed /\ FirstCreate /\ FirstSandbox /\ FirstStart /\ OwnMetadata
-----------------------------------------------------------------------------
(* A step that leaves the metadata alone and no create call where it was   *)
(* not keeps what is known of a first create call ...                      *)
LEMMA FirstCreateKept ==
  ASSUME FirstCreate, UNCHANGED <<digests, commands, creates>>,
         \A q \in Requests, jd \in Ids : creates[jd] = 1 /\ CreatesFor(q, jd)' =>
           /\ CreatesFor(q, jd) /\ pc'[q] = pc[q] /\ call'[q] = call[q]
           /\ NothingMade(jd) => NothingMade(jd)'
  PROVE  FirstCreate'
<1>1. digests' = digests /\ commands' = commands /\ creates' = creates
  BY Zenon
<1>2. SUFFICES ASSUME NEW id \in Ids, NEW r \in Requests, creates[id] = 1, CreatesFor(r, id)'
               PROVE  /\ NothingMade(id)'
                      /\ \A q \in Requests : CreatesFor(q, id)' => q = r
                      /\ pc'[r] \in {"admit", "pull", "digest"} => NothingStored(id)'
                      /\ pc'[r] = "command" => digests'[id] = call'[r].image
                      /\ pc'[r] = "register" => Stored(id, call[r].image)'
  BY Zenon, <1>1 DEF FirstCreate
<1>3. CreatesFor(r, id) /\ pc'[r] = pc[r] /\ call'[r] = call[r]
  BY Zenon, <1>2
<1>4. /\ NothingMade(id) /\ \A q \in Requests : CreatesFor(q, id) => q = r
      /\ pc[r] \in {"admit", "pull", "digest"} => NothingStored(id)
      /\ pc[r] = "command" => digests[id] = call[r].image
      /\ pc[r] = "register" => Stored(id, call[r].image)
  BY Zenon, <1>2, <1>3 DEF FirstCreate
<1>5. NothingMade(id)' /\ \A q \in Requests : CreatesFor(q, id)' => q = r
  BY Zenon, <1>2, <1>4
<1> QED BY Zenon, <1>1, <1>3, <1>4, <1>5 DEF NothingStored, Stored

(* ... and likewise of a start call.                                       *)
LEMMA FirstStartKept ==
  ASSUME FirstStart, UNCHANGED <<digests, commands, creates>>,
         \A q \in Requests, jd \in Ids : StartsFor(q, jd)' =>
           StartsFor(q, jd) /\ pc'[q] = pc[q] /\ call'[q] = call[q]
  PROVE  FirstStart'
<1>1. digests' = digests /\ commands' = commands /\ creates' = creates
  BY Zenon
<1>2. SUFFICES ASSUME NEW id \in Ids, NEW r \in Requests, creates[id] = 1, StartsFor(r, id)'
               PROVE  /\ Stored(id, call[r].image)'
                      /\ pc'[r] \in {"read_command", "spawn"} => call'[r].digest = call'[r].image
                      /\ pc'[r] = "spawn" => call'[r].command = call'[r].image
  BY Zenon, <1>1 DEF FirstStart
<1>3. StartsFor(r, id) /\ pc'[r] = pc[r] /\ call'[r] = call[r]
  BY Zenon, <1>2
<1> QED BY Zenon, <1>1, <1>2, <1>3 DEF FirstStart, Stored

(* A VM thread belongs to an id.                                            *)
LEMMA VmIds == TypeOK => \A t \in DOMAIN vms : vms[t].id \in Ids
<1> SUFFICES ASSUME TypeOK, NEW t \in DOMAIN vms PROVE vms[t].id \in Ids
  BY Zenon
<1>1. vms[t] \in Vm
  BY DEF TypeOK
<1> QED BY Zenon, <1>1 DEF Vm

(* A step that stores nothing, makes no sandbox and no VM, and after which *)
(* every call that creates or starts is where it was.                      *)
LEMMA MetaQuiet ==
  ASSUME TypeOK, MetaInv,
         UNCHANGED <<digests, commands, creates>>,
         \A id \in Ids : Present(id)' => Present(id) /\ sandboxes'[id].image = sandboxes[id].image,
         DOMAIN vms' = DOMAIN vms, \A t \in DOMAIN vms : SameThread(t),
         \A q \in Requests : pc'[q] \in CreatePc \cup StartPc
                               => pc'[q] = pc[q] /\ call'[q] = call[q]
  PROVE  MetaInv'
<1>1. /\ \A q \in Requests, id \in Ids : CreatesFor(q, id)' => CreatesFor(q, id)
      /\ \A q \in Requests, id \in Ids : StartsFor(q, id)' => StartsFor(q, id)
  BY Zenon DEF CreatesFor, StartsFor
<1>2. \A id \in Ids : NothingMade(id) => NothingMade(id)'
  BY Zenon, <1>1 DEF NothingMade, SameThread
<1>3. NeverNamed'
  BY Zenon, <1>1, <1>2 DEF NeverNamed, NothingStored, MetaInv
<1>4. FirstCreate'
  BY <1>1, <1>2 DEF FirstCreate, CreatesFor, NothingStored, Stored, MetaInv
<1>5. FirstSandbox'
  BY Zenon DEF FirstSandbox, Stored, MetaInv
<1>6. FirstStart'
  BY <1>1 DEF FirstStart, StartsFor, Stored, MetaInv
<1>7. OwnMetadata'
  BY VmIds DEF OwnMetadata, SameThread, MetaInv
<1> QED BY Zenon, <1>3, <1>4, <1>5, <1>6, <1>7 DEF MetaInv

(* A call comes in, and names an id.                                       *)
LEMMA ArriveMeta ==
  ASSUME TypeOK, MetaInv, NEW r \in Requests, Arrivals(r)
  PROVE  MetaInv'
<1> USE DEF At, orchVars, createVars, metaVars, tableVars
<1>1. ASSUME NEW id \in Ids, NEW op \in Ops \ Creating, Arrive(r, op, id)
      PROVE  MetaInv'
  <2>1. EntryPoint(op) \notin CreatePc \cup StartPc
    BY Zenon DEF EntryPoint, CreatePc, StartPc, Ops, Creating
  <2>2. \A q \in Requests : pc'[q] \in CreatePc \cup StartPc => pc'[q] = pc[q] /\ call'[q] = call[q]
    BY Zenon, <1>1, <2>1 DEF Arrive, Goto, TypeOK
  <2>3. UNCHANGED <<sandboxes, digests, commands, creates, vms>>
    BY Zenon, <1>1 DEF Arrive
  <2> QED BY Zenon, <2>2, <2>3, MetaQuiet DEF Present, SameThread
<1>2. ASSUME NEW id \in Ids, NEW op \in Creating, NEW image \in OptImages,
             ArriveCreate(r, op, id, image)
      PROVE  MetaInv'
  <2>1. /\ pc'[r] = "admit" /\ pc[r] = "idle"
        /\ \A q \in Requests \ {r} : pc'[q] = pc[q] /\ call'[q] = call[q]
        /\ UNCHANGED <<sandboxes, digests, commands, vms>>
    BY Zenon, <1>2 DEF ArriveCreate, Goto, TypeOK
  <2>2. call'[r].id = id
    <3>1. call'[r] = [NoCall EXCEPT !.op = op, !.id = id, !.image = image, !.inc = asked + 1]
      BY Zenon, <1>2 DEF ArriveCreate, TypeOK
    <3> QED BY Zenon, <3>1, NoCallType DEF Call
  <2>3. /\ \A q \in Requests, jd \in Ids : CreatesFor(q, jd)' => CreatesFor(q, jd) \/ (q = r /\ jd = id)
        /\ \A q \in Requests, jd \in Ids : StartsFor(q, jd)' => StartsFor(q, jd) /\ q # r
    BY Zenon, <2>1, <2>2 DEF CreatesFor, StartsFor, StartPc
  <2>4. \A jd \in Ids : creates'[jd] = 0 => creates[jd] = 0 /\ jd # id
    BY <1>2 DEF ArriveCreate, TypeOK
  <2>5. \A jd \in Ids : creates'[jd] = 1 => \/ jd = id /\ creates[jd] = 0
                                            \/ jd # id /\ creates[jd] = 1
    BY <1>2 DEF ArriveCreate, TypeOK
  <2>6. \A jd \in Ids : NothingMade(jd) => NothingMade(jd)'
    BY Zenon, <2>1, <2>3 DEF NothingMade, Present
  <2>7. NeverNamed'
    BY Zenon, <2>1, <2>3, <2>4, <2>6 DEF NeverNamed, NothingStored, MetaInv
  <2>8. FirstCreate'
    <3> SUFFICES ASSUME NEW jd \in Ids, NEW q \in Requests, creates'[jd] = 1, CreatesFor(q, jd)'
                 PROVE  /\ NothingMade(jd)'
                        /\ \A p \in Requests : CreatesFor(p, jd)' => p = q
                        /\ pc'[q] \in {"admit", "pull", "digest"} => NothingStored(jd)'
                        /\ pc'[q] = "command" => digests'[jd] = call'[q].image
                        /\ pc'[q] = "register" => Stored(jd, call[q].image)'
      BY Zenon DEF FirstCreate
    <3>1. CASE jd = id /\ creates[jd] = 0
      BY Zenon, <2>1, <2>3, <2>6, <3>1 DEF NeverNamed, NothingStored, MetaInv
    <3>2. CASE jd # id /\ creates[jd] = 1
      <4>1. CreatesFor(q, jd) /\ q # r
        BY Zenon, <2>2, <2>3, <3>2 DEF CreatesFor
      <4> QED BY <2>1, <2>3, <2>6, <3>2, <4>1 DEF FirstCreate, NothingStored, Stored, MetaInv
    <3> QED BY Zenon, <2>5, <3>1, <3>2
  <2>9. FirstSandbox'
    BY Zenon, <2>1, <2>5 DEF FirstSandbox, NeverNamed, NothingMade, Present, Stored, MetaInv
  <2>10. FirstStart'
    <3>1. \A q \in Requests, jd \in Ids : creates'[jd] = 1 /\ StartsFor(q, jd)'
            => creates[jd] = 1 /\ StartsFor(q, jd) /\ q # r
      BY Zenon, <2>3, <2>5 DEF NeverNamed, NothingMade, MetaInv
    <3> QED BY <2>1, <3>1 DEF FirstStart, Stored, MetaInv
  <2>11. OwnMetadata'
    <3>1. \A t \in DOMAIN vms : creates'[vms[t].id] = 1 => creates[vms[t].id] = 1
      BY Zenon, <2>5, VmIds DEF NeverNamed, NothingMade, MetaInv
    <3> QED BY Zenon, <2>1, <3>1 DEF OwnMetadata, MetaInv
  <2> QED BY Zenon, <2>7, <2>8, <2>9, <2>10, <2>11 DEF MetaInv
<1> QED BY Zenon, <1>1, <1>2 DEF Arrivals

(* An early return.                                                        *)
LEMMA ReplyMeta ==
  ASSUME TypeOK, MetaInv, NEW r \in Requests, Reply(r),
         UNCHANGED <<sandboxes, digests, commands, creates, vms>>
  PROVE  MetaInv'
<1>1. "idle" \notin CreatePc \cup StartPc
  BY Zenon DEF CreatePc, StartPc
<1>2. \A q \in Requests : pc'[q] \in CreatePc \cup StartPc => pc'[q] = pc[q] /\ call'[q] = call[q]
  BY Zenon, <1>1 DEF Reply, Goto, TypeOK
<1> QED BY Zenon, <1>2, MetaQuiet DEF Present, SameThread

(* A create call moves on and possibly stores something for its id, before *)
(* there is a sandbox.                                                     *)
LEMMA CreateStepMeta ==
  ASSUME TypeOK, MetaInv, NEW r \in Requests, NEW label \in CreatePc, pc[r] \in CreatePc,
         Goto(r, label), call'[r].id = call[r].id,
         \A q \in Requests \ {r} : call'[q] = call[q],
         UNCHANGED <<sandboxes, creates, vms>>,
         \A jd \in Ids \ {call[r].id} : digests'[jd] = digests[jd] /\ commands'[jd] = commands[jd],
         creates[call[r].id] = 1 =>
           /\ label \in {"admit", "pull", "digest"} => NothingStored(call[r].id)'
           /\ label = "command" => digests'[call[r].id] = call'[r].image
           /\ label = "register" => /\ digests'[call[r].id] = call'[r].image
                                    /\ commands'[call[r].id] = call'[r].image
  PROVE  MetaInv'
<1> DEFINE id == call[r].id
<1>1. id \in Ids /\ CreatesFor(r, id)
  BY Zenon DEF TypeOK, Call, CreatesFor
<1>2. /\ pc'[r] = label /\ label \notin StartPc
      /\ \A q \in Requests \ {r} : pc'[q] = pc[q]
  BY Zenon DEF Goto, TypeOK, StartPc, CreatePc
<1>3. /\ \A q \in Requests, jd \in Ids : CreatesFor(q, jd)' => CreatesFor(q, jd)
      /\ \A q \in Requests, jd \in Ids : StartsFor(q, jd)' => StartsFor(q, jd) /\ q # r
  BY Zenon, <1>2 DEF CreatesFor, StartsFor
<1>4. \A jd \in Ids : NothingMade(jd) => NothingMade(jd)'
  BY Zenon, <1>3 DEF NothingMade, Present
<1>5. creates[id] # 0 /\ (creates[id] = 1 => NothingMade(id))
  BY Zenon, <1>1 DEF NeverNamed, FirstCreate, MetaInv
<1>6. NeverNamed'
  BY Zenon, <1>3, <1>4, <1>5 DEF NeverNamed, NothingStored, MetaInv
<1>7. FirstCreate'
  <2> SUFFICES ASSUME NEW jd \in Ids, NEW q \in Requests, creates[jd] = 1, CreatesFor(q, jd)'
               PROVE  /\ NothingMade(jd)'
                      /\ \A p \in Requests : CreatesFor(p, jd)' => p = q
                      /\ pc'[q] \in {"admit", "pull", "digest"} => NothingStored(jd)'
                      /\ pc'[q] = "command" => digests'[jd] = call'[q].image
                      /\ pc'[q] = "register" => Stored(jd, call[q].image)'
    BY Zenon DEF FirstCreate
  <2>1. /\ CreatesFor(q, jd) /\ NothingMade(jd)'
        /\ \A p \in Requests : CreatesFor(p, jd)' => p = q
    BY Zenon, <1>3, <1>4 DEF FirstCreate, MetaInv
  <2>2. CASE q = r
    <3>1. jd = id
      BY Zenon, <2>1, <2>2 DEF CreatesFor
    <3> QED BY Zenon, <1>2, <2>1, <2>2, <3>1 DEF Stored
  <2>3. CASE q # r
    <3>1. jd # id
      BY Zenon, <1>1, <2>1, <2>3 DEF FirstCreate, MetaInv
    <3> QED BY SMTT(30), <1>2, <2>1, <2>3, <3>1 DEF FirstCreate, NothingStored, Stored, MetaInv
  <2> QED BY Zenon, <2>2, <2>3
<1>8. FirstSandbox'
  BY Zenon, <1>5 DEF FirstSandbox, NothingMade, Present, Stored, MetaInv
<1>9. FirstStart'
  <2>1. \A q \in Requests, jd \in Ids : creates[jd] = 1 /\ StartsFor(q, jd)' => jd # id
    BY Zenon, <1>3, <1>5 DEF NothingMade
  <2> QED BY <1>2, <1>3, <2>1 DEF FirstStart, Stored, MetaInv
<1>10. OwnMetadata'
  BY Zenon DEF OwnMetadata, MetaInv
<1> QED BY Zenon, <1>6, <1>7, <1>8, <1>9, <1>10 DEF MetaInv

(* What create_sandbox stores under the id of its call.                    *)
LEMMA CreateMeta ==
  ASSUME TypeOK, MetaInv, NEW r \in Requests,
         \/ Admit(r) \/ Pull(r) \/ PullFails(r) \/ StoreDigest(r)
         \/ StoreCommand(r) \/ Register(r)
  PROVE  MetaInv'
<1> USE DEF At, orchVars, createVars, metaVars, tableVars
<1> DEFINE id == call[r].id
<1>1. call[r] \in Call /\ id \in Ids
  BY Zenon DEF TypeOK, Call
<1>2. pc[r] \in CreatePc /\ CreatesFor(r, id)
  BY Zenon DEF Admit, Pull, PullFails, StoreDigest, StoreCommand, Register, CreatePc, CreatesFor
<1>3. creates[id] = 1 /\ pc[r] \in {"admit", "pull", "digest"} => NothingStored(id)
  BY Zenon, <1>1, <1>2 DEF FirstCreate, MetaInv
<1>4. {"register", "digest", "command", "pull"} \subseteq CreatePc
  BY Zenon DEF CreatePc
<1>5. CASE Admit(r)
  <2>1. CASE Reply(r)
    BY Zenon, <1>5, <2>1, ReplyMeta DEF Admit
  <2>2. CASE UNCHANGED call /\ \E path \in {"digest", "pull"} : Goto(r, path)
    BY Zenon, <1>2, <1>3, <1>4, <1>5, <2>2, CreateStepMeta DEF Admit, NothingStored
  <2>3. CASE UNCHANGED call /\ call[r].image = NoImage /\ Goto(r, "register")
    BY Zenon, <1>2, <1>3, <1>4, <1>5, <2>3, CreateStepMeta DEF Admit, NothingStored
  <2> QED BY Zenon, <1>5, <2>1, <2>2, <2>3 DEF Admit, ImagePaths
<1>6. CASE Pull(r)
  BY Zenon, <1>2, <1>3, <1>4, <1>6, CreateStepMeta DEF Pull, NothingStored
<1>7. CASE PullFails(r)
  <2>1. /\ call'[r] = [call[r] EXCEPT !.image = NoImage]
        /\ \A q \in Requests \ {r} : call'[q] = call[q]
    BY Zenon, <1>7 DEF PullFails, TypeOK
  <2>2. call'[r].id = id /\ call'[r].image = NoImage
    BY Zenon, <1>1, <2>1 DEF Call
  <2> QED BY Zenon, <1>2, <1>3, <1>4, <1>7, <2>1, <2>2, CreateStepMeta DEF PullFails, NothingStored
<1>8. CASE StoreDigest(r)
  <2>1. /\ digests'[id] = call[r].image
        /\ \A jd \in Ids \ {id} : digests'[jd] = digests[jd] /\ commands'[jd] = commands[jd]
    BY Zenon, <1>1, <1>8 DEF StoreDigest, TypeOK
  <2> QED BY Zenon, <1>2, <1>4, <1>8, <2>1, CreateStepMeta DEF StoreDigest
<1>9. CASE StoreCommand(r)
  <2>1. /\ commands'[id] = call[r].image /\ digests' = digests
        /\ \A jd \in Ids \ {id} : commands'[jd] = commands[jd]
    BY Zenon, <1>1, <1>9 DEF StoreCommand, TypeOK
  <2>2. creates[id] = 1 => digests[id] = call[r].image
    BY Zenon, <1>1, <1>2, <1>9 DEF StoreCommand, FirstCreate, MetaInv
  <2> QED BY Zenon, <1>2, <1>4, <1>9, <2>1, <2>2, CreateStepMeta DEF StoreCommand
<1>10. CASE Register(r)
  <2>1. CASE Present(id)
    BY Zenon, <1>10, <2>1, ReplyMeta DEF Register
  <2>2. CASE ~Present(id)
    <3>1. /\ sandboxes'[id].image = call[r].image
          /\ \A jd \in Ids \ {id} : sandboxes'[jd] = sandboxes[jd]
          /\ UNCHANGED <<digests, commands, creates, vms>>
      BY SMTT(30), <1>1, <1>10, <2>2 DEF Register, TypeOK
    <3>2. /\ pc'[r] \in {"idle", "start"}
          /\ \A q \in Requests \ {r} : pc'[q] = pc[q] /\ call'[q] = call[q]
      BY Zenon, <1>10, <2>2 DEF Register, Reply, Goto, TypeOK
    <3>3. pc'[r] \notin CreatePc \cup StartPc
      BY Zenon, <3>2 DEF CreatePc, StartPc
    <3>4. /\ \A q \in Requests, jd \in Ids : CreatesFor(q, jd)' => CreatesFor(q, jd) /\ q # r
          /\ \A q \in Requests, jd \in Ids : StartsFor(q, jd)' => StartsFor(q, jd) /\ q # r
      BY Zenon, <3>2, <3>3 DEF CreatesFor, StartsFor
    <3>5. \A jd \in Ids \ {id} : NothingMade(jd) => NothingMade(jd)'
      BY Zenon, <3>1, <3>4 DEF NothingMade, Present
    <3>6. creates[id] # 0 /\ (creates[id] = 1 => Stored(id, call[r].image))
      BY Zenon, <1>1, <1>2, <1>10 DEF Register, NeverNamed, FirstCreate, MetaInv
    <3>7. NeverNamed'
      BY Zenon, <3>1, <3>4, <3>5, <3>6 DEF NeverNamed, NothingStored, MetaInv
    <3>8. FirstCreate'
      <4>1. \A q \in Requests, jd \in Ids : creates[jd] = 1 /\ CreatesFor(q, jd)' => jd # id
        BY <1>1, <1>2, <3>4 DEF FirstCreate, MetaInv
      <4>2. FirstCreate /\ \A q \in Requests, jd \in Ids : creates[jd] = 1 /\ CreatesFor(q, jd)' =>
              /\ CreatesFor(q, jd) /\ pc'[q] = pc[q] /\ call'[q] = call[q]
              /\ NothingMade(jd) => NothingMade(jd)'
        BY Zenon, <3>2, <3>4, <3>5, <4>1 DEF MetaInv
      <4> QED BY Zenon, <3>1, <4>2, FirstCreateKept
    <3>9. FirstSandbox'
      BY Zenon, <3>1, <3>6 DEF FirstSandbox, Present, Stored, MetaInv
    <3>10. FirstStart'
      BY Zenon, <3>1, <3>2, <3>4, FirstStartKept DEF MetaInv
    <3>11. OwnMetadata'
      BY Zenon, <3>1 DEF OwnMetadata, MetaInv
    <3> QED BY Zenon, <3>7, <3>8, <3>9, <3>10, <3>11 DEF MetaInv
  <2> QED BY Zenon, <2>1, <2>2
<1> QED BY Zenon, <1>5, <1>6, <1>7, <1>8, <1>9, <1>10

(* A start call moves on: its sandbox, or the call itself, was there.      *)
LEMMA StartStepMeta ==
  ASSUME TypeOK, MetaInv, NEW r \in Requests, NEW label \in StartPc, Goto(r, label),
         call'[r].id = call[r].id, Present(call[r].id) \/ StartsFor(r, call[r].id),
         \A q \in Requests \ {r} : call'[q] = call[q],
         UNCHANGED <<digests, commands, creates, vms>>,
         \A jd \in Ids : Present(jd)' => Present(jd) /\ sandboxes'[jd].image = sandboxes[jd].image,
         creates[call[r].id] = 1 =>
           /\ Stored(call[r].id, call'[r].image)
           /\ label \in {"read_command", "spawn"} => call'[r].digest = call'[r].image
           /\ label = "spawn" => call'[r].command = call'[r].image
  PROVE  MetaInv'
<1> DEFINE id == call[r].id
<1>1. /\ id \in Ids
      /\ pc'[r] = label /\ label \notin CreatePc
      /\ \A q \in Requests \ {r} : pc'[q] = pc[q]
  BY Zenon DEF Goto, TypeOK, Call, StartPc, CreatePc
<1>2. /\ \A q \in Requests, jd \in Ids : CreatesFor(q, jd)' => CreatesFor(q, jd) /\ q # r
      /\ \A q \in Requests, jd \in Ids : StartsFor(q, jd)'
            => (StartsFor(q, jd) /\ q # r) \/ (q = r /\ jd = id)
  BY Zenon, <1>1 DEF CreatesFor, StartsFor
<1>3. ~NothingMade(id)
  BY Zenon DEF NothingMade
<1>4. \A jd \in Ids : NothingMade(jd) => NothingMade(jd)'
  BY Zenon, <1>2, <1>3 DEF NothingMade
<1>5. NeverNamed'
  BY Zenon, <1>2, <1>4 DEF NeverNamed, NothingStored, MetaInv
<1>6. FirstCreate'
  BY Zenon, <1>1, <1>2, <1>4, FirstCreateKept DEF MetaInv
<1>7. FirstSandbox'
  BY Zenon DEF FirstSandbox, Stored, MetaInv
<1>8. FirstStart'
  <2> SUFFICES ASSUME NEW jd \in Ids, NEW q \in Requests, creates[jd] = 1, StartsFor(q, jd)'
               PROVE  /\ Stored(jd, call[q].image)'
                      /\ pc'[q] \in {"read_command", "spawn"} => call'[q].digest = call'[q].image
                      /\ pc'[q] = "spawn" => call'[q].command = call'[q].image
    BY Zenon DEF FirstStart
  <2>1. CASE q = r /\ jd = id
    <3>1. digests' = digests /\ commands' = commands /\ pc'[r] = label
      BY Zenon, <1>1
    <3>2. creates[call[r].id] = 1
      BY <2>1
    <3>3. /\ Stored(call[r].id, call'[r].image)
          /\ label \in {"read_command", "spawn"} => call'[r].digest = call'[r].image
          /\ label = "spawn" => call'[r].command = call'[r].image
      BY Zenon, <3>2
    <3> QED BY <2>1, <3>1, <3>3 DEF Stored
  <2>2. CASE StartsFor(q, jd) /\ q # r
    <3>1. digests' = digests /\ commands' = commands /\ pc'[q] = pc[q] /\ call'[q] = call[q]
      BY Zenon, <1>1, <2>2
    <3>2. /\ Stored(jd, call[q].image)
          /\ pc[q] \in {"read_command", "spawn"} => call[q].digest = call[q].image
          /\ pc[q] = "spawn" => call[q].command = call[q].image
      BY Zenon, <2>2 DEF FirstStart, MetaInv
    <3> QED BY Zenon, <3>1, <3>2 DEF Stored
  <2> QED BY Zenon, <1>2, <2>1, <2>2
<1>9. OwnMetadata'
  BY Zenon DEF OwnMetadata, MetaInv
<1> QED BY Zenon, <1>5, <1>6, <1>7, <1>8, <1>9 DEF MetaInv

(* What start_sandbox reads back.                                          *)
LEMMA StartMeta ==
  ASSUME TypeOK, Safe, MetaInv, NEW r \in Requests,
         Start(r) \/ ReadDigest(r) \/ ReadCommand(r) \/ Spawn(r) \/ Insert(r)
  PROVE  MetaInv'
<1> USE DEF At, orchVars, createVars, metaVars, tableVars
<1> DEFINE id == call[r].id
<1>1. call[r] \in Call /\ id \in Ids
  BY Zenon DEF TypeOK, Call
<1>2. StartPc = {"read_digest", "read_command", "spawn"}
  BY Zenon DEF StartPc
<1>3. pc[r] \in StartPc => StartsFor(r, id)
  BY Zenon DEF StartsFor
<1>4. CASE Start(r)
  <2>1. /\ \A jd \in Ids : Present(jd)' => Present(jd) /\ sandboxes'[jd].image = sandboxes[jd].image
        /\ UNCHANGED <<digests, commands, creates, vms>>
    <3>1. sandboxes[id] \in Sandbox /\ [sandboxes[id] EXCEPT !.state = "Running"].image = sandboxes[id].image
      BY Zenon, <1>1 DEF TypeOK, Sandbox
    <3>2. CASE ~MayStart(id)
      BY Zenon, <1>4, <3>2 DEF Start, Present
    <3>3. CASE MayStart(id)
      <4>1. /\ sandboxes'[id] = [sandboxes[id] EXCEPT !.state = "Running"]
            /\ \A jd \in Ids \ {id} : sandboxes'[jd] = sandboxes[jd]
            /\ UNCHANGED <<digests, commands, creates, vms>>
        BY Zenon, <1>1, <1>4, <3>3 DEF Start, TypeOK
      <4>2. Present(id)
        BY Zenon, <3>3 DEF MayStart, Present
      <4> QED BY Zenon, <1>1, <3>1, <4>1, <4>2 DEF Present
    <3> QED BY Zenon, <3>2, <3>3
  <2>2. CASE Reply(r)
    <3>1. \A q \in Requests : pc'[q] \in CreatePc \cup StartPc => pc'[q] = pc[q] /\ call'[q] = call[q]
      BY Zenon, <2>2 DEF Reply, Goto, TypeOK, CreatePc, StartPc
    <3> QED BY Zenon, <2>1, <3>1, MetaQuiet DEF SameThread
  <2>3. CASE /\ MayStart(id)
             /\ Goto(r, "read_digest")
             /\ call' = [call EXCEPT ![r].inc = sandboxes[id].inc, ![r].image = sandboxes[id].image]
    <3>1. Present(id)
      BY Zenon, <2>3 DEF MayStart, Present
    <3>2. /\ call'[r] = [call[r] EXCEPT !.inc = sandboxes[id].inc, !.image = sandboxes[id].image]
          /\ \A q \in Requests \ {r} : call'[q] = call[q]
      BY Zenon, <2>3 DEF TypeOK
    <3>3. call'[r].id = id /\ call'[r].image = sandboxes[id].image
      BY Zenon, <1>1, <3>2 DEF Call
    <3>4. creates[id] = 1 => Stored(id, call'[r].image)
      BY Zenon, <1>1, <3>1, <3>3 DEF FirstSandbox, MetaInv
    <3> QED BY Zenon, <1>2, <2>1, <2>3, <3>1, <3>2, <3>3, <3>4, StartStepMeta
  <2> QED BY Zenon, <1>4, <2>2, <2>3 DEF Start
<1>5. CASE ReadDigest(r)
  <2>1. /\ call'[r] = [call[r] EXCEPT !.digest = digests[id]]
        /\ \A q \in Requests \ {r} : call'[q] = call[q]
    BY Zenon, <1>5 DEF ReadDigest, TypeOK
  <2>2. call'[r].id = id /\ call'[r].image = call[r].image /\ call'[r].digest = digests[id]
    BY Zenon, <1>1, <2>1 DEF Call
  <2>3. StartsFor(r, id) /\ (creates[id] = 1 => Stored(id, call[r].image))
    BY Zenon, <1>1, <1>2, <1>3, <1>5 DEF ReadDigest, FirstStart, MetaInv
  <2> QED BY Zenon, <1>2, <1>5, <2>1, <2>2, <2>3, StartStepMeta DEF ReadDigest, Present, Stored
<1>6. CASE ReadCommand(r)
  <2>1. /\ call'[r] = [call[r] EXCEPT !.command = commands[id]]
        /\ \A q \in Requests \ {r} : call'[q] = call[q]
    BY Zenon, <1>6 DEF ReadCommand, TypeOK
  <2>2. /\ call'[r].id = id /\ call'[r].image = call[r].image
        /\ call'[r].digest = call[r].digest /\ call'[r].command = commands[id]
    BY Zenon, <1>1, <2>1 DEF Call
  <2>3. /\ StartsFor(r, id)
        /\ creates[id] = 1 => Stored(id, call[r].image) /\ call[r].digest = call[r].image
    BY Zenon, <1>1, <1>2, <1>3, <1>6 DEF ReadCommand, FirstStart, MetaInv
  <2> QED BY Zenon, <1>2, <1>6, <2>1, <2>2, <2>3, StartStepMeta DEF ReadCommand, Present, Stored
<1>7. CASE Spawn(r)
  <2>1. call[r].inc \in 1..MaxCreates
    <3>1. call[r].inc \in 1..asked
      BY Zenon, <1>2, <1>7 DEF Spawn, Safe, Identity, StartsAlone, TypeOK
    <3>2. asked \in 0..MaxCreates
      BY Zenon DEF TypeOK
    <3> QED BY <3>1, <3>2, DaemonAssumption
  <2>2. /\ DOMAIN vms = 1..Len(vms) /\ DOMAIN vms' = 1..(Len(vms) + 1)
        /\ Len(vms) \in Nat
        /\ \A u \in 1..Len(vms) : vms'[u] = vms[u]
        /\ LET t == vms'[Len(vms) + 1]
           IN  t.id = id /\ t.image = call[r].image /\ t.digest = call[r].digest
               /\ t.command = call[r].command
    <3>1. vms \in Seq(Vm)
      BY Zenon DEF TypeOK
    <3>2. vms' \in Seq(Vm) /\ Len(vms') = Len(vms) + 1
      BY Zenon, <1>7, <2>1, SpawnFacts
    <3>3. Len(vms) \in Nat /\ DOMAIN vms = 1..Len(vms) /\ DOMAIN vms' = 1..Len(vms')
      BY <3>1, <3>2
    <3> QED BY Zenon, <1>7, <2>1, <3>2, <3>3, SpawnFacts
  <2>3. /\ pc[r] = "spawn" /\ pc'[r] = "insert"
        /\ \A q \in Requests \ {r} : pc'[q] = pc[q] /\ call'[q] = call[q]
        /\ UNCHANGED <<sandboxes, digests, commands, creates>>
    BY Zenon, <1>7 DEF Spawn, Goto, TypeOK
  <2>4. /\ \A q \in Requests, jd \in Ids : CreatesFor(q, jd)' => CreatesFor(q, jd) /\ q # r
        /\ \A q \in Requests, jd \in Ids : StartsFor(q, jd)' => StartsFor(q, jd) /\ q # r
    BY Zenon, <2>3 DEF CreatesFor, StartsFor, CreatePc, StartPc
  <2>5. StartsFor(r, id)
    BY Zenon, <1>2, <1>3, <2>3
  <2>6. \A jd \in Ids : NothingMade(jd) => NothingMade(jd)'
    <3> SUFFICES ASSUME NEW jd \in Ids, NothingMade(jd) PROVE NothingMade(jd)'
      BY Zenon
    <3>1. jd # id
      BY Zenon, <2>5 DEF NothingMade
    <3>2. \A t \in DOMAIN vms' : vms'[t].id # jd
      BY SMTT(30), <2>2, <3>1 DEF NothingMade
    <3> QED BY Zenon, <2>3, <2>4, <3>2 DEF NothingMade, Present
  <2>7. NeverNamed'
    BY Zenon, <2>3, <2>4, <2>6 DEF NeverNamed, NothingStored, MetaInv
  <2>8. FirstCreate'
    BY Zenon, <2>3, <2>4, <2>6, FirstCreateKept DEF MetaInv
  <2>9. FirstSandbox'
    BY Zenon, <2>3 DEF FirstSandbox, Present, Stored, MetaInv
  <2>10. FirstStart'
    BY Zenon, <2>3, <2>4, FirstStartKept DEF MetaInv
  <2>11. OwnMetadata'
    <3>1. creates[id] = 1 => call[r].digest = call[r].image /\ call[r].command = call[r].image
      BY Zenon, <1>1, <2>3, <2>5 DEF FirstStart, MetaInv
    <3> QED BY SMTT(30), <2>2, <2>3, <3>1 DEF OwnMetadata, MetaInv
  <2> QED BY Zenon, <2>7, <2>8, <2>9, <2>10, <2>11 DEF MetaInv
<1>8. CASE Insert(r)
  BY Zenon, <1>8, ReplyMeta DEF Insert
<1> QED BY Zenon, <1>4, <1>5, <1>6, <1>7, <1>8

(* Stopping and destroying change no digest and no command.                *)
LEMMA StopMeta ==
  ASSUME TypeOK, MetaInv, NEW r \in Requests,
         \/ Take(r) \/ Joined(r) \/ OrchStop(r) \/ Destroy(r)
         \/ RestFlag(r) \/ RestSignal(r) \/ RestDrop(r) \/ RestForget(r)
  PROVE  MetaInv'
<1> USE DEF At, orchVars, createVars, metaVars, tableVars
<1> DEFINE id == call[r].id
           stopped == AfterStop(sandboxes, id)
<1>1. /\ call[r] \in Call /\ id \in Ids /\ sandboxes \in [Ids -> Sandbox]
      /\ vms \in Seq(Vm) /\ handles[id] \in 0..Len(vms)
  BY Zenon DEF TypeOK, Call
<1>2. UNCHANGED <<digests, commands, creates>>
  BY Zenon DEF Take, Joined, OrchStop, Destroy, RestFlag, RestSignal, RestDrop, RestForget
<1>3. \A q \in Requests : pc'[q] \in CreatePc \cup StartPc => pc'[q] = pc[q] /\ call'[q] = call[q]
  <2>1. \E label \in {"orch_stop", "join", "idle", "rest_drop", "rest_forget"} : Goto(r, label)
    BY Zenon DEF Take, Joined, AfterJoin, OrchStop, Destroy, RestFlag, RestSignal, RestDrop,
           RestForget, Reply
  <2>2. \A q \in Requests \ {r} : call'[q] = call[q]
    BY Zenon DEF Take, Joined, AfterJoin, OrchStop, Destroy, RestFlag, RestSignal, RestDrop,
           RestForget, Reply, TypeOK
  <2>3. {"orch_stop", "join", "idle", "rest_drop", "rest_forget"} \cap (CreatePc \cup StartPc) = {}
    BY Zenon DEF CreatePc, StartPc
  <2> QED BY Zenon, <2>1, <2>2, <2>3 DEF Goto, TypeOK
<1>4. DOMAIN vms' = DOMAIN vms /\ \A t \in DOMAIN vms : SameThread(t)
  <2>1. CASE vms' = vms
    BY Zenon, <2>1 DEF SameThread
  <2>2. CASE handles[id] # 0 /\ Signal(handles[id])
    <3>1. handles[id] \in 1..Len(vms)
      BY <1>1, <2>2
    <3>2. vms' \in Seq(Vm) /\ Len(vms') = Len(vms) /\ \A u \in 1..Len(vms) : SameThread(u)
      BY Zenon, <1>1, <2>2, <3>1, SignalFacts
    <3>3. DOMAIN vms' = 1..Len(vms') /\ DOMAIN vms = 1..Len(vms)
      BY <1>1, <3>2
    <3> QED BY Zenon, <3>2, <3>3
  <2> QED BY Zenon, <2>1, <2>2 DEF Take, Joined, OrchStop, Destroy, RestFlag, RestSignal, RestDrop,
                            RestForget
<1>5. stopped \in [Ids -> Sandbox]
  BY Zenon, <1>1, OrchType
<1>6. /\ \A jd \in Ids \ {id} : stopped[jd] = sandboxes[jd]
      /\ stopped[id].image = sandboxes[id].image
      /\ stopped[id].state # "Absent" => sandboxes[id].state # "Absent"
  BY Zenon, <1>1, OrchFacts
<1>7. \/ sandboxes' = sandboxes
      \/ sandboxes' = stopped
      \/ sandboxes' = AfterDestroy(sandboxes, id)
      \/ sandboxes' = AfterDestroy(stopped, id)
  BY Zenon DEF Take, Joined, OrchStop, Destroy, RestFlag, RestSignal, RestDrop, RestForget
<1> HIDE DEF stopped
<1>8. ASSUME NEW map \in [Ids -> Sandbox]
      PROVE  /\ \A jd \in Ids \ {id} : AfterDestroy(map, id)[jd] = map[jd]
             /\ AfterDestroy(map, id)[id].image = map[id].image
             /\ AfterDestroy(map, id)[id].state # "Absent" => map[id].state # "Absent"
  BY Zenon, <1>1, OrchFacts
<1>9. \A jd \in Ids : Present(jd)' => Present(jd) /\ sandboxes'[jd].image = sandboxes[jd].image
  <2>1. CASE sandboxes' = sandboxes
    BY Zenon, <2>1 DEF Present
  <2>2. CASE sandboxes' = stopped
    BY Zenon, <1>1, <1>6, <2>2 DEF Present
  <2>3. CASE sandboxes' = AfterDestroy(sandboxes, id)
    BY Zenon, <1>1, <1>8, <2>3 DEF Present
  <2>4. CASE sandboxes' = AfterDestroy(stopped, id)
    BY Zenon, <1>1, <1>5, <1>6, <1>8, <2>4 DEF Present
  <2> QED BY Zenon, <1>7, <2>1, <2>2, <2>3, <2>4
<1> QED BY Zenon, <1>2, <1>3, <1>4, <1>9, MetaQuiet

(* Nor does a VM thread.                                                   *)
LEMMA VmMeta ==
  ASSUME TypeOK, MetaInv, NEW t \in DOMAIN vms, Running(t)
  PROVE  MetaInv'
<1>1. vms \in Seq(Vm)
  BY Zenon DEF TypeOK
<1>2. OnlyVms /\ \E from : \E to \in {"booting", "running", "exited"} : Status(t, from, to)
  BY Zenon DEF Running, VmBoot, VmBootFails, VmEnds, VmShutdown
<1>3. DOMAIN vms' = DOMAIN vms /\ \A u \in DOMAIN vms : SameThread(u)
  BY <1>1, <1>2, StatusFacts
<1> QED BY Zenon, <1>2, <1>3, MetaQuiet DEF OnlyVms, orchVars, createVars, metaVars, Present
-----------------------------------------------------------------------------
(* The daemon starts in the invariant and every step keeps it.             *)
LEMMA InitInvariant == Init => IInv /\ MetaInv
<1> SUFFICES ASSUME Init PROVE IInv /\ MetaInv
  BY Zenon
<1> USE DaemonAssumption DEF Init
<1>1. /\ \A r \in Requests : pc[r] \notin CreatePc \cup StartPc \cup {"insert"}
      /\ \A id \in Ids : ~Present(id) /\ handles[id] = 0
      /\ vms = << >> /\ DOMAIN vms = {}
  BY DEF CreatePc, StartPc, Present
<1>2. TypeOK
  <2>1. vms \in Seq(Vm) /\ Len(vms) = 0
    OBVIOUS
  <2>2. pc \in [Requests -> PcStates] /\ call \in [Requests -> Call]
    BY Zenon, NoCallType DEF PcStates
  <2>3. sandboxes \in [Ids -> Sandbox]
    BY SMTT(30) DEF Sandbox, OptImages
  <2> QED BY SMTT(30), <2>1, <2>2, <2>3 DEF TypeOK, OptImages
<1>3. Identity
  BY Zenon, <1>1 DEF Identity, HandlesOwn, TicketsNew, SandboxesBorn, StartsAlone, VmsStarted
<1>4. OneVmPerIncarnation /\ FlaggedIsBeingStopped /\ OwnMetadata
  BY Zenon, <1>1 DEF OneVmPerIncarnation, FlaggedIsBeingStopped, OwnMetadata
<1>5. NeverNamed /\ FirstCreate /\ FirstSandbox /\ FirstStart
  BY Zenon, <1>1 DEF NeverNamed, FirstCreate, FirstSandbox, FirstStart, NothingStored, NothingMade,
              CreatesFor, StartsFor
<1> QED BY Zenon, <1>2, <1>3, <1>4, <1>5 DEF IInv, MetaInv

(* Every step of the daemon keeps both invariants.                         *)
LEMMA NextInvariant == IInv /\ MetaInv /\ [Next]_vars => IInv' /\ MetaInv'
<1> SUFFICES ASSUME IInv, MetaInv, [Next]_vars PROVE IInv' /\ MetaInv'
  BY Zenon
<1>1. TypeOK /\ Safe
  BY Zenon DEF IInv, Safe
<1>2. TypeOK' /\ Safe' => IInv'
  BY Zenon DEF IInv, Safe
<1>3. TicketsNew /\ HandlesOwn /\ SandboxesBorn /\ StartsAlone
  BY Zenon DEF IInv, Identity
<1>4. ASSUME NEW r \in Requests, Arrivals(r) PROVE IInv' /\ MetaInv'
  BY Zenon, <1>1, <1>2, <1>4, ArriveType, ArriveSafe, ArriveMeta
<1>5. ASSUME NEW r \in Requests,
             \/ Admit(r) \/ Pull(r) \/ PullFails(r) \/ StoreDigest(r)
             \/ StoreCommand(r) \/ Register(r)
      PROVE  IInv' /\ MetaInv'
  BY Zenon, <1>1, <1>2, <1>3, <1>5, CreateType, CreateSafe, CreateMeta
<1>6. ASSUME NEW r \in Requests,
             Start(r) \/ ReadDigest(r) \/ ReadCommand(r) \/ Spawn(r) \/ Insert(r)
      PROVE  IInv' /\ MetaInv'
  BY Zenon, <1>1, <1>2, <1>3, <1>6, StartType, StartSafe, StartMeta
<1>7. ASSUME NEW r \in Requests,
             \/ Take(r) \/ Joined(r) \/ OrchStop(r) \/ Destroy(r)
             \/ RestFlag(r) \/ RestSignal(r) \/ RestDrop(r) \/ RestForget(r)
      PROVE  IInv' /\ MetaInv'
  BY Zenon, <1>1, <1>2, <1>7, StopType, StopSafe, StopMeta
<1>8. ASSUME NEW t \in DOMAIN vms, Running(t) PROVE IInv' /\ MetaInv'
  BY Zenon, <1>1, <1>2, <1>8, VmType, VmSafe, VmMeta
<1>9. CASE UNCHANGED vars
  <2> USE <1>9 DEF vars
  <2>1. TypeOK'
    BY Zenon, <1>1 DEF TypeOK
  <2>2. Identity'
    BY SMTT(30), <1>1 DEF Safe, Identity, HandlesOwn, TicketsNew, SandboxesBorn, StartsAlone, VmsStarted, Present
  <2>3. OneVmPerIncarnation' /\ FlaggedIsBeingStopped'
    BY Zenon, <1>1 DEF Safe, OneVmPerIncarnation, FlaggedIsBeingStopped
  <2>4. MetaInv'
    BY Zenon, <1>1, MetaQuiet DEF Present, SameThread
  <2> QED BY Zenon, <2>1, <2>2, <2>3, <2>4 DEF IInv
<1> QED BY Zenon, <1>4, <1>5, <1>6, <1>7, <1>8, <1>9 DEF Next, Handle

(* The inductive invariant holds in every reachable state of the daemon.   *)
THEOREM DaemonInvariant == Spec => [](IInv /\ MetaInv)
BY InitInvariant, NextInvariant, PTL DEF Spec

(* Every variable keeps its kind, and every handle in the table is that of *)
(* a VM thread that was spawned (server.rs, VmHandle).                     *)
THEOREM DaemonTypes == Spec => []TypeOK
<1>1. IInv => TypeOK
  BY Zenon DEF IInv
<1> QED BY <1>1, DaemonInvariant, PTL

(* However many start calls race, one incarnation of a sandbox gets at     *)
(* most one VM thread (start_sandbox, Sandbox::start).                     *)
THEOREM DaemonOneVm == Spec => []OneVmPerIncarnation
<1>1. IInv => OneVmPerIncarnation
  BY Zenon DEF IInv
<1> QED BY <1>1, DaemonInvariant, PTL

(* A Running sandbox whose VM was told to shut down is about to be marked  *)
(* Stopped (stop_sandbox; REST stop_sandbox and destroy_sandbox).          *)
THEOREM DaemonFlagged == Spec => []FlaggedIsBeingStopped
<1>1. IInv => FlaggedIsBeingStopped
  BY Zenon DEF IInv
<1> QED BY <1>1, DaemonInvariant, PTL

(* A sandbox id that was named by one create call only boots from its own  *)
(* digest and command (create_sandbox, start_sandbox).                     *)
THEOREM DaemonMetadata == Spec => []OwnMetadata
<1>1. MetaInv => OwnMetadata
  BY Zenon DEF MetaInv
<1> QED BY <1>1, DaemonInvariant, PTL

-----------------------------------------------------------------------------
(***************************************************************************)
(* SandboxDaemon implements SandboxLifecycle: every step of a call or of a *)
(* VM thread is a step of one incarnation, or leaves all of them where     *)
(* they are.  The argument needs IInv: which incarnation a step is about,  *)
(* and that it is the only one, is what Identity says.                     *)
(***************************************************************************)

Incs == 1..MaxCreates

(* The state of an incarnation that is in the map, and of one that is not. *)
InMap == \A id \in Ids, i \in Incs : sandboxes[id].inc = i =>
           /\ sandboxes[id].state = "Created" => Life(i) = "created"
           /\ sandboxes[id].state = "Running" => Life(i) = "running"
           /\ sandboxes[id].state = "Stopped" => Life(i) = "stopped"

NotInMap == \A i \in Incs : (\A id \in Ids : Present(id) => sandboxes[id].inc # i)
              => Life(i) = IF i \notin born THEN "unborn"
                           ELSE IF i \in started THEN "gone" ELSE "discarded"

(* What Life says, from the uniqueness of incarnations in the map.         *)
LEMMA LifeFacts == IInv => InMap /\ NotInMap
<1> SUFFICES ASSUME IInv PROVE InMap /\ NotInMap
  BY Zenon
<1>1. SandboxesBorn
  BY Zenon DEF IInv, Identity
<1>2. InMap
  <2> SUFFICES ASSUME NEW id \in Ids, NEW i \in Incs, sandboxes[id].inc = i, Present(id)
               PROVE  /\ sandboxes[id].state = "Created" => Life(i) = "created"
                      /\ sandboxes[id].state = "Running" => Life(i) = "running"
                      /\ sandboxes[id].state = "Stopped" => Life(i) = "stopped"
    BY Zenon DEF InMap, Present
  <2>1. i \in born
    BY Zenon, <1>1 DEF SandboxesBorn
  <2>2. \A st \in {"Created", "Running", "Stopped"} : IsIn(i, st) <=> sandboxes[id].state = st
    BY Zenon, <1>1 DEF IsIn, SandboxesBorn, Present
  <2> QED BY Zenon, <2>1, <2>2 DEF Life
<1>3. NotInMap
  <2> SUFFICES ASSUME NEW i \in Incs, \A id \in Ids : Present(id) => sandboxes[id].inc # i
               PROVE  Life(i) = IF i \notin born THEN "unborn"
                                ELSE IF i \in started THEN "gone" ELSE "discarded"
    BY Zenon DEF NotInMap
  <2>1. \A st \in {"Created", "Running", "Stopped"} : ~IsIn(i, st)
    BY Zenon DEF IsIn, Present
  <2> QED BY Zenon, <2>1 DEF Life
<1> QED BY Zenon, <1>2, <1>3

(* The same after a step.                                                  *)
LEMMA LifeFactsPrime == IInv' => InMap' /\ NotInMap'
BY LifeFacts, PTL

(* An incarnation other than the one a step is about.                      *)
LEMMA OtherLives ==
  ASSUME NEW id \in Ids, NEW i,
         \A jd \in Ids \ {id} : sandboxes'[jd] = sandboxes[jd],
         Present(id) => sandboxes[id].inc = i,
         Present(id)' => sandboxes'[id].inc = i,
         \A j \in Incs \ {i} : (j \in born' <=> j \in born) /\ (j \in started' <=> j \in started)
  PROVE  \A j \in Incs \ {i} : Life(j)' = Life(j)
<1> SUFFICES ASSUME NEW j \in Incs \ {i} PROVE Life(j)' = Life(j)
  BY Zenon
<1>1. \A st \in {"Created", "Running", "Stopped"} : IsIn(j, st)' <=> IsIn(j, st)
  BY DEF IsIn, Present
<1> QED BY Zenon, <1>1 DEF Life

SameLives == \A i \in Incs : Life(i)' = Life(i)
SameMachines == \A i \in Incs : Machine(i)' = Machine(i)

(* A step outside the sandbox map leaves every incarnation where it is.    *)
LEMMA QuietLives == UNCHANGED <<sandboxes, born, started>> => SameLives
BY Zenon DEF SameLives, Life, IsIn

(* One that leaves the threads alone leaves the machines too.              *)
LEMMA QuietMachines ==
  ASSUME DOMAIN vms' = DOMAIN vms,
         \A t \in DOMAIN vms : /\ vms'[t].inc = vms[t].inc
                               /\ vms'[t].status = "exited" <=> vms[t].status = "exited"
  PROVE  SameMachines
<1> SUFFICES ASSUME NEW i \in Incs PROVE Machine(i)' = Machine(i)
  BY Zenon DEF SameMachines
<1>1. ThreadsOf(i)' = ThreadsOf(i)
  BY Zenon DEF ThreadsOf
<1> QED BY Zenon, <1>1 DEF Machine, ThreadsOf

(* Steps of SandboxLifecycle.                                              *)
LEMMA Stutters == SameLives /\ SameMachines => UNCHANGED Lifecycle!lifecycleVars
BY Zenon DEF SameLives, SameMachines, Lifecycle!lifecycleVars, Incs

(* A step of one incarnation is a step of the lifecycle ...                *)
LEMMA MovesOne ==
  ASSUME NEW i \in Incs, <<Life(i), Life(i)'>> \in Lifecycle!Moves, SameMachines,
         \A j \in Incs \ {i} : Life(j)' = Life(j)
  PROVE  Lifecycle!LifecycleNext
<1>1. Life(i)' \in {"created", "running", "stopped", "gone", "discarded"}
  BY Zenon DEF Lifecycle!Moves
<1>2. Lifecycle!Move(i)
  BY Zenon, <1>1 DEF Lifecycle!Move, SameMachines, Incs
<1> QED BY Zenon, <1>2 DEF Lifecycle!LifecycleNext, Incs

(* ... so is a boot ...                                                    *)
LEMMA BootsOne ==
  ASSUME NEW i \in Incs, Life(i) \in Lifecycle!Started, SameLives,
         Machine(i) = "none", Machine(i)' = "live",
         \A j \in Incs \ {i} : Machine(j)' = Machine(j)
  PROVE  Lifecycle!LifecycleNext
<1>1. Lifecycle!Boot(i)
  BY Zenon DEF Lifecycle!Boot, SameLives, Incs
<1> QED BY Zenon, <1>1 DEF Lifecycle!LifecycleNext, Incs

(* ... and an exit.                                                        *)
LEMMA ExitsOne ==
  ASSUME NEW i \in Incs, SameLives, Machine(i) = "live", Machine(i)' = "dead",
         \A j \in Incs \ {i} : Machine(j)' = Machine(j)
  PROVE  Lifecycle!LifecycleNext
<1>1. Lifecycle!Exit(i)
  BY Zenon DEF Lifecycle!Exit, SameLives, Incs
<1> QED BY Zenon, <1>1 DEF Lifecycle!LifecycleNext, Incs
-----------------------------------------------------------------------------
(* Steps of the daemon.                                                    *)
AbsStep == Lifecycle!LifecycleNext \/ UNCHANGED Lifecycle!lifecycleVars

(* A step that leaves the orchestrator alone and at most sets a flag.      *)
LEMMA QuietAbs ==
  ASSUME TypeOK, UNCHANGED orchVars,
         \/ vms' = vms
         \/ \E id \in Ids : handles[id] # 0 /\ Signal(handles[id])
  PROVE  AbsStep
<1>1. SameLives
  BY Zenon, QuietLives DEF orchVars
<1>2. CASE vms' = vms
  BY Zenon, <1>1, <1>2, QuietMachines, Stutters DEF AbsStep
<1>3. ASSUME NEW id \in Ids, handles[id] # 0, Signal(handles[id])
      PROVE  AbsStep
  <2> DEFINE t == handles[id]
             e == [vms[t] EXCEPT !.shutdown = TRUE]
  <2>1. vms \in Seq(Vm) /\ t \in 1..Len(vms) /\ vms[t] \in Vm
    <3>1. vms \in Seq(Vm) /\ t \in 0..Len(vms)
      BY Zenon DEF TypeOK
    <3> QED BY <1>3, <3>1
  <2>2. e.inc = vms[t].inc /\ e.status = vms[t].status
    BY Zenon, <2>1 DEF Vm
  <2>3. DOMAIN vms' = DOMAIN vms /\ \A u \in DOMAIN vms : vms'[u] = IF u = t THEN e ELSE vms[u]
    BY Zenon, <1>3, <2>1 DEF Signal
  <2> HIDE DEF t, e
  <2>4. SameMachines
    BY Zenon, <2>2, <2>3, QuietMachines
  <2> QED BY Zenon, <1>1, <2>4, Stutters DEF AbsStep
<1> QED BY Zenon, <1>2, <1>3

(* A call that comes in is no step of the lifecycle.                       *)
LEMMA ArriveAbs ==
  ASSUME TypeOK, NEW r \in Requests, Arrivals(r)
  PROVE  AbsStep
<1>1. UNCHANGED <<orchVars, vms>>
  BY Zenon DEF Arrivals, Arrive, ArriveCreate
<1> QED BY Zenon, <1>1, QuietAbs

(* create_sandbox makes an incarnation.                                    *)
LEMMA CreateAbs ==
  ASSUME IInv, IInv', NEW r \in Requests,
         \/ Admit(r) \/ Pull(r) \/ PullFails(r) \/ StoreDigest(r)
         \/ StoreCommand(r) \/ Register(r)
  PROVE  AbsStep
<1>1. TypeOK
  BY Zenon DEF IInv
<1>2. CASE Admit(r) \/ Pull(r) \/ PullFails(r) \/ StoreDigest(r) \/ StoreCommand(r)
  <2>1. UNCHANGED <<orchVars, vms>>
    BY Zenon, <1>2 DEF Admit, Pull, PullFails, StoreDigest, StoreCommand
  <2> QED BY Zenon, <1>1, <2>1, QuietAbs
<1>3. CASE Register(r)
  <2>1. call[r].id \in Ids
    BY Zenon, <1>1 DEF TypeOK, Call
  <2>2. PICK id \in Ids : id = call[r].id
    BY Zenon, <2>1
  <2>3. CASE Present(id)
    BY Zenon, <1>1, <1>3, <2>2, <2>3, QuietAbs DEF Register, orchVars
  <2>4. CASE ~Present(id)
    <3>1. call[r].inc \in 1..asked /\ call[r].inc \notin born
      BY Zenon, <1>3 DEF IInv, Identity, TicketsNew, Register, At, CreatePc
    <3>2. PICK i \in Incs : i = call[r].inc
      <4>1. asked \in 0..MaxCreates
        BY Zenon, <1>1 DEF TypeOK
      <4> QED BY <3>1, <4>1, DaemonAssumption DEF Incs
    <3>3. /\ \A jd \in Ids \ {id} : sandboxes'[jd] = sandboxes[jd]
          /\ sandboxes'[id].state = "Created" /\ sandboxes'[id].inc = i
          /\ born' = born \cup {i} /\ started' = started /\ vms' = vms
      BY SMTT(30), <1>1, <1>3, <2>2, <2>4, <3>2 DEF Register, TypeOK
    <3>4. i \notin born
      BY Zenon, <3>1, <3>2
    <3>5. Life(i) = "unborn"
      BY Zenon, <3>4 DEF Life
    <3>6. Life(i)' = "created"
      <4>1. InMap'
        BY Zenon, LifeFactsPrime
      <4> QED BY Zenon, <2>2, <3>3, <4>1 DEF InMap
    <3>7. \A j \in Incs \ {i} : Life(j)' = Life(j)
      BY Zenon, <2>2, <2>4, <3>3, OtherLives
    <3>8. SameMachines
      BY Zenon, <3>3, QuietMachines
    <3> QED BY Zenon, <3>2, <3>5, <3>6, <3>7, <3>8, MovesOne DEF AbsStep, Lifecycle!Moves
  <2> QED BY Zenon, <2>3, <2>4
<1> QED BY Zenon, <1>2, <1>3

(* start_sandbox makes one run, and spawns its VM.                         *)
LEMMA StartAbs ==
  ASSUME IInv, IInv', NEW r \in Requests,
         Start(r) \/ ReadDigest(r) \/ ReadCommand(r) \/ Spawn(r) \/ Insert(r)
  PROVE  AbsStep
<1>1. TypeOK /\ TypeOK'
  BY Zenon DEF IInv
<1>2. call[r].id \in Ids
  BY Zenon, <1>1 DEF TypeOK, Call
<1>3. PICK id \in Ids : id = call[r].id
  BY Zenon, <1>2
<1>4. CASE ReadDigest(r) \/ ReadCommand(r) \/ Insert(r)
  <2>1. UNCHANGED <<orchVars, vms>>
    BY Zenon, <1>4 DEF ReadDigest, ReadCommand, Insert
  <2> QED BY Zenon, <1>1, <2>1, QuietAbs
<1>5. CASE Start(r)
  <2>1. CASE ~MayStart(id)
    BY Zenon, <1>1, <1>3, <1>5, <2>1, QuietAbs DEF Start, orchVars
  <2>2. CASE MayStart(id)
    <3>1. sandboxes[id].state = "Created" /\ Present(id) /\ sandboxes[id] \in Sandbox
      BY Zenon, <1>1, <2>2 DEF MayStart, Present, TypeOK
    <3>2. PICK i \in Incs : i = sandboxes[id].inc
      <4>1. sandboxes[id].inc \in born
        BY Zenon, <3>1 DEF IInv, Identity, SandboxesBorn
      <4>2. asked \in 0..MaxCreates /\ sandboxes[id].inc \in 1..asked
        BY Zenon, <1>1, <4>1 DEF TypeOK
      <4> QED BY <4>2, DaemonAssumption DEF Incs
    <3>3. /\ sandboxes'[id] = [sandboxes[id] EXCEPT !.state = "Running"]
          /\ \A jd \in Ids \ {id} : sandboxes'[jd] = sandboxes[jd]
          /\ born' = born /\ started' = started \cup {i} /\ vms' = vms
      BY Zenon, <1>1, <1>3, <1>5, <2>2, <3>2 DEF Start, TypeOK
    <3>4. sandboxes'[id].state = "Running" /\ sandboxes'[id].inc = i
      BY Zenon, <3>3, <3>1, <3>2 DEF Sandbox
    <3>5. Life(i) = "created"
      <4>1. InMap
        BY Zenon, LifeFacts
      <4> QED BY Zenon, <3>1, <3>2, <4>1 DEF InMap
    <3>6. Life(i)' = "running"
      <4>1. InMap'
        BY Zenon, LifeFactsPrime
      <4> QED BY Zenon, <1>3, <3>4, <4>1 DEF InMap
    <3>7. \A j \in Incs \ {i} : Life(j)' = Life(j)
      BY Zenon, <3>3, <3>4, <3>2, OtherLives
    <3>8. SameMachines
      BY Zenon, <3>3, QuietMachines
    <3> QED BY Zenon, <3>2, <3>5, <3>6, <3>7, <3>8, MovesOne DEF AbsStep, Lifecycle!Moves
  <2> QED BY Zenon, <2>1, <2>2
<1>6. CASE Spawn(r)
  <2>1. call[r].inc \in started /\ \A t \in DOMAIN vms : vms[t].inc # call[r].inc
    BY Zenon, <1>6 DEF IInv, Identity, StartsAlone, Spawn, At, StartPc
  <2>2. PICK i \in Incs : i = call[r].inc
    <3>1. asked \in 0..MaxCreates /\ call[r].inc \in 1..asked
      BY Zenon, <1>1, <2>1 DEF TypeOK
    <3> QED BY <3>1, DaemonAssumption DEF Incs
  <2>3. i \in started /\ \A t \in DOMAIN vms : vms[t].inc # i
    BY Zenon, <2>1, <2>2
  <2>4. i \in born
    BY Zenon, <1>1, <2>3 DEF TypeOK
  <2>5. Life(i) \in Lifecycle!Started
    <3>1. ~IsIn(i, "Created")
      BY Zenon, <2>3 DEF IInv, Identity, SandboxesBorn, IsIn, Present
    <3> QED BY Zenon, <2>3, <2>4, <3>1 DEF Life, Lifecycle!Started
  <2>6. SameLives
    BY Zenon, <1>6, QuietLives DEF Spawn, orchVars
  <2>7. /\ Len(vms) \in Nat
        /\ DOMAIN vms = 1..Len(vms) /\ DOMAIN vms' = 1..(Len(vms) + 1)
        /\ \A u \in 1..Len(vms) : vms'[u] = vms[u]
        /\ vms'[Len(vms) + 1].inc = i /\ vms'[Len(vms) + 1].status = "booting"
    BY SMTT(30), <1>1, <1>6, <2>2 DEF Spawn, TypeOK
  <2>8. Machine(i) = "none"
    BY Zenon, <2>3 DEF Machine, ThreadsOf
  <2>9. Machine(i)' = "live"
    <3>1. Len(vms) + 1 \in ThreadsOf(i)'
      BY <2>7 DEF ThreadsOf
    <3> QED BY Zenon, <2>7, <3>1 DEF Machine
  <2>10. \A j \in Incs \ {i} : Machine(j)' = Machine(j)
    <3> SUFFICES ASSUME NEW j \in Incs \ {i} PROVE Machine(j)' = Machine(j)
      BY Zenon
    <3>1. ThreadsOf(j)' = ThreadsOf(j)
      BY <2>7 DEF ThreadsOf
    <3> QED BY Zenon, <2>7, <3>1 DEF Machine, ThreadsOf
  <2> QED BY Zenon, <2>4, <2>5, <2>6, <2>8, <2>9, <2>10, BootsOne DEF AbsStep
<1> QED BY Zenon, <1>4, <1>5, <1>6

(* Stop and destroy end one.                                               *)
LEMMA StopAbs ==
  ASSUME IInv, IInv', NEW r \in Requests,
         \/ Take(r) \/ Joined(r) \/ OrchStop(r) \/ Destroy(r)
         \/ RestFlag(r) \/ RestSignal(r) \/ RestDrop(r) \/ RestForget(r)
  PROVE  AbsStep
<1>1. TypeOK /\ sandboxes \in [Ids -> Sandbox] /\ call[r].id \in Ids
  BY ZenonT(30) DEF IInv, TypeOK, Call
<1>2. PICK id \in Ids : id = call[r].id
  BY Zenon, <1>1
<1>3. PICK i \in 0..MaxCreates : i = sandboxes[id].inc
  BY Zenon, <1>1 DEF Sandbox
<1>4. TypeOK /\ id \in Ids /\ sandboxes \in [Ids -> Sandbox] /\ sandboxes[id].inc = i
  BY Zenon, <1>1, <1>3
<1>5. CASE Take(r) \/ Joined(r) \/ RestFlag(r) \/ RestSignal(r) \/ RestForget(r)
  <2>1. UNCHANGED orchVars
    BY Zenon, <1>5 DEF Take, Joined, RestFlag, RestSignal, RestForget
  <2>2. vms' = vms \/ (handles[id] # 0 /\ Signal(handles[id]))
    BY Zenon, <1>5, <1>2 DEF Take, Joined, RestFlag, RestSignal, RestForget
  <2> QED BY Zenon, <1>4, <2>1, <2>2, QuietAbs
<1>6. CASE OrchStop(r) \/ Destroy(r) \/ RestDrop(r)
  <2>1. born' = born /\ started' = started /\ vms' = vms
    BY Zenon, <1>6 DEF OrchStop, Destroy, RestDrop
  <2> DEFINE stopped == AfterStop(sandboxes, id)
  <2>2. stopped \in [Ids -> Sandbox]
    BY Zenon, <1>4, OrchType
  <2>3. /\ \A jd \in Ids \ {id} : stopped[jd] = sandboxes[jd]
        /\ stopped[id].inc = i
        /\ stopped[id].state = IF sandboxes[id].state = "Running" THEN "Stopped"
                                ELSE sandboxes[id].state
    BY Zenon, <1>4, OrchFacts
  <2>4. ASSUME NEW map \in [Ids -> Sandbox]
        PROVE  /\ \A jd \in Ids \ {id} : AfterDestroy(map, id)[jd] = map[jd]
               /\ AfterDestroy(map, id)[id].inc = map[id].inc
               /\ AfterDestroy(map, id)[id].state =
                    IF map[id].state = "Running" THEN "Running" ELSE "Absent"
    BY Zenon, <1>4, OrchFacts
  <2>5. \/ sandboxes' = stopped
        \/ sandboxes' = AfterDestroy(sandboxes, id)
        \/ sandboxes' = AfterDestroy(stopped, id)
    BY Zenon, <1>6, <1>2 DEF OrchStop, Destroy, RestDrop
  <2> HIDE DEF stopped
  <2>6. /\ \A jd \in Ids \ {id} : sandboxes'[jd] = sandboxes[jd]
        /\ sandboxes'[id].inc = i
        /\ \/ sandboxes'[id].state = sandboxes[id].state
           \/ sandboxes'[id].state = "Absent"
           \/ sandboxes[id].state = "Running" /\ sandboxes'[id].state = "Stopped"
    BY <1>4, <2>2, <2>3, <2>4, <2>5
  <2>7. SameMachines
    BY Zenon, <2>1, QuietMachines
  <2>8. \A j \in Incs \ {i} : Life(j)' = Life(j)
    BY Zenon, <1>4, <2>1, <2>6, OtherLives
  <2>9. CASE sandboxes'[id].state = sandboxes[id].state
    <3>1. \A j, st : IsIn(j, st)' <=> IsIn(j, st)
      BY <1>4, <2>6, <2>9 DEF IsIn
    <3>2. SameLives
      BY Zenon, <2>1, <3>1 DEF SameLives, Life
    <3> QED BY Zenon, <2>7, <3>2, Stutters DEF AbsStep
  <2>10. CASE sandboxes'[id].state # sandboxes[id].state
    <3>1. Present(id) /\ sandboxes[id].state \in {"Created", "Running", "Stopped"}
      BY SMTT(30), <1>4, <2>6, <2>10 DEF Present, Sandbox
    <3>2. i \in born /\ (sandboxes[id].state = "Created" <=> i \notin started)
      BY Zenon, <1>4, <3>1 DEF IInv, Identity, SandboxesBorn
    <3>3. i \in Incs
      <4>1. asked \in 0..MaxCreates /\ i \in 1..asked
        BY Zenon, <1>4, <3>2 DEF TypeOK
      <4> QED BY <4>1, DaemonAssumption DEF Incs
    <3>4. InMap /\ InMap' /\ NotInMap'
      BY Zenon, LifeFacts, LifeFactsPrime
    <3>5. CASE sandboxes[id].state = "Running" /\ sandboxes'[id].state = "Stopped"
      <4>1. Life(i) = "running" /\ Life(i)' = "stopped"
        BY Zenon, <1>4, <2>6, <3>3, <3>4, <3>5 DEF InMap
      <4> QED BY Zenon, <2>7, <2>8, <3>3, <4>1, MovesOne DEF AbsStep, Lifecycle!Moves
    <3>6. CASE sandboxes'[id].state = "Absent"
      <4>1. \A jd \in Ids : Present(jd)' => sandboxes'[jd].inc # i
        BY SMTT(30), <1>4, <2>6, <3>1, <3>6 DEF IInv, Identity, SandboxesBorn, Present
      <4>2. Life(i)' = IF i \in started THEN "gone" ELSE "discarded"
        BY Zenon, <2>1, <3>2, <3>3, <3>4, <4>1 DEF NotInMap
      <4>3. CASE sandboxes[id].state = "Created"
        <5>1. Life(i) = "created" /\ Life(i)' = "discarded"
          BY Zenon, <1>4, <3>2, <3>3, <3>4, <4>2, <4>3 DEF InMap
        <5> QED BY Zenon, <2>7, <2>8, <3>3, <5>1, MovesOne DEF AbsStep, Lifecycle!Moves
      <4>4. CASE sandboxes[id].state \in {"Running", "Stopped"}
        <5>1. Life(i) \in {"running", "stopped"} /\ Life(i)' = "gone"
          BY Zenon, <1>4, <3>2, <3>3, <3>4, <4>2, <4>4 DEF InMap
        <5> QED BY Zenon, <2>7, <2>8, <3>3, <5>1, MovesOne DEF AbsStep, Lifecycle!Moves
      <4> QED BY Zenon, <3>1, <4>3, <4>4
    <3> QED BY Zenon, <2>6, <2>10, <3>5, <3>6
  <2> QED BY Zenon, <2>9, <2>10
<1> QED BY Zenon, <1>5, <1>6

(* A VM thread boots, exits, or stutters.                                  *)
LEMMA VmAbs ==
  ASSUME IInv, NEW t \in DOMAIN vms, Running(t)
  PROVE  AbsStep
<1>1. TypeOK /\ vms \in Seq(Vm) /\ vms[t] \in Vm /\ DOMAIN vms = 1..Len(vms)
  BY DEF IInv, TypeOK
<1>2. OnlyVms /\ \/ Status(t, "booting", "running")
                 \/ Status(t, "booting", "exited")
                 \/ Status(t, "running", "exited")
  BY Zenon DEF Running, VmBoot, VmBootFails, VmEnds, VmShutdown
<1>3. SameLives
  BY Zenon, <1>2, QuietLives DEF OnlyVms, orchVars
<1>4. PICK i \in Incs : i = vms[t].inc
  BY Zenon, <1>1 DEF Vm, Incs
<1>5. ASSUME NEW to \in {"running", "exited"}, vms' = [vms EXCEPT ![t].status = to]
      PROVE  /\ DOMAIN vms' = DOMAIN vms
             /\ \A u \in DOMAIN vms : vms'[u].inc = vms[u].inc
             /\ vms'[t].status = to
             /\ \A u \in DOMAIN vms \ {t} : vms'[u] = vms[u]
  <2> DEFINE e == [vms[t] EXCEPT !.status = to]
  <2>1. e.inc = vms[t].inc /\ e.status = to
    BY Zenon, <1>1 DEF Vm
  <2>2. DOMAIN vms' = DOMAIN vms /\ \A u \in DOMAIN vms : vms'[u] = IF u = t THEN e ELSE vms[u]
    BY Zenon, <1>1, <1>5
  <2> HIDE DEF e
  <2> QED BY Zenon, <2>1, <2>2
<1>6. CASE Status(t, "booting", "running")
  <2>1. SameMachines
    BY Zenon, <1>5, <1>6, QuietMachines DEF Status
  <2> QED BY Zenon, <1>3, <2>1, Stutters DEF AbsStep
<1>7. CASE Status(t, "booting", "exited") \/ Status(t, "running", "exited")
  <2>1. vms' = [vms EXCEPT ![t].status = "exited"] /\ vms[t].status # "exited"
    BY Zenon, <1>7 DEF Status
  <2>2. /\ DOMAIN vms' = DOMAIN vms
        /\ \A u \in DOMAIN vms : vms'[u].inc = vms[u].inc
        /\ vms'[t].status = "exited"
        /\ \A u \in DOMAIN vms \ {t} : vms'[u] = vms[u]
    BY Zenon, <1>5, <2>1
  <2>3. ThreadsOf(i) = {t} /\ ThreadsOf(i)' = {t}
    BY <1>4, <2>2 DEF ThreadsOf, IInv, OneVmPerIncarnation
  <2>4. Machine(i) = "live" /\ Machine(i)' = "dead"
    BY Zenon, <2>1, <2>2, <2>3 DEF Machine
  <2>5. \A j \in Incs \ {i} : Machine(j)' = Machine(j)
    <3> SUFFICES ASSUME NEW j \in Incs \ {i} PROVE Machine(j)' = Machine(j)
      BY Zenon
    <3>1. ThreadsOf(j)' = ThreadsOf(j) /\ t \notin ThreadsOf(j)
      BY Zenon, <1>4, <2>2 DEF ThreadsOf
    <3> QED BY Zenon, <2>2, <3>1 DEF Machine, ThreadsOf
  <2> QED BY Zenon, <1>3, <2>4, <2>5, ExitsOne DEF AbsStep
<1> QED BY Zenon, <1>2, <1>6, <1>7

(* The daemon starts with no incarnation.                                  *)
LEMMA InitAbs == Init => Lifecycle!LifecycleInit
<1> SUFFICES ASSUME Init PROVE Lifecycle!LifecycleInit
  BY Zenon
<1>1. \A i \in Incs : Life(i) = "unborn"
  BY Zenon DEF Init, Life
<1>2. \A i \in Incs : Machine(i) = "none"
  BY DEF Init, Machine, ThreadsOf
<1> QED BY Zenon, <1>1, <1>2 DEF Lifecycle!LifecycleInit, Incs

(* Every step of the daemon is a step of the lifecycle or leaves it alone. *)
LEMMA NextAbs ==
  IInv /\ IInv' /\ [Next]_vars => [Lifecycle!LifecycleNext]_(Lifecycle!lifecycleVars)
<1> SUFFICES ASSUME IInv, IInv', [Next]_vars PROVE AbsStep
  BY Zenon DEF AbsStep
<1>1. TypeOK
  BY Zenon DEF IInv
<1>2. ASSUME NEW r \in Requests, Arrivals(r) PROVE AbsStep
  BY Zenon, <1>1, <1>2, ArriveAbs
<1>3. ASSUME NEW r \in Requests, Handle(r) PROVE AbsStep
  BY Zenon, <1>3, CreateAbs, StartAbs, StopAbs DEF Handle
<1>4. ASSUME NEW t \in DOMAIN vms, Running(t) PROVE AbsStep
  BY Zenon, <1>4, VmAbs
<1>5. CASE UNCHANGED vars
  BY Zenon, <1>1, <1>5, QuietAbs DEF vars, orchVars
<1> QED BY Zenon, <1>2, <1>3, <1>4, <1>5 DEF Next

(* The daemon implements the life cycle: whatever mix of gRPC and REST     *)
(* calls is in flight, an incarnation is started at most once, its VM      *)
(* boots at most once and only after the start, and no state comes back    *)
(* (create_sandbox, start_sandbox, stop_sandbox, destroy_sandbox and their *)
(* REST forms).                                                            *)
THEOREM DaemonLifecycle == Spec => KeepsLifecycle
<1>1. IInv /\ MetaInv => IInv
  BY Zenon
<1> QED BY <1>1, InitAbs, NextAbs, DaemonInvariant, PTL
        DEF Spec, KeepsLifecycle, Lifecycle!LifecycleSpec
=============================================================================
