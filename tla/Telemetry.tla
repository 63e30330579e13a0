------------------------------ MODULE Telemetry ------------------------------
(***************************************************************************)
(* The sensor pipeline: events from host eBPF probes and from the agents   *)
(* inside the guests, through the pipeline thread of the daemon, past the  *)
(* enforcement rules, to the clients of StreamEvents.                      *)
(*                                                                         *)
(*   guest kernel -> agent -> UDP -> socket --+                            *)
(*   host kernel  -> perf buffer -------------+-> pending -> channel       *)
(*                                -> (rules) -> broadcast -> clients       *)
(*                                                                         *)
(* The daemon's threads are: the pipeline thread (variable pc), the        *)
(* start_sandbox handler that registers a guest's source, one forwarder    *)
(* per streaming client, and callers of the policy and sensor services,    *)
(* which hold the policy mutex or the sensor mutex during their call.      *)
(* An event is [id, type, src]: src is the source it was read from.        *)
(***************************************************************************)
EXTENDS Policy, FiniteSets

CONSTANTS
    Sandboxes,      \* guests that may be started
    Clients,        \* StreamEvents clients
    Callers,        \* callers of the policy and the sensor service
    Configs,        \* configurations the daemon may run with, by name
    Objects,        \* bytecode files: name -> [program, type, events]
    None,
    ChannelCap,     \* capacity of the sink's channel (4096)
    SourceCap,      \* capacity of the channel of new sources (64)
    BroadcastCap,   \* capacity of the broadcast channel (4096)
    StreamCap,      \* capacity of a client's channel (256)
    BufCap,         \* events a perf buffer or a socket holds
    ReadMax         \* events one poll reads from a perf buffer (64)

ASSUME CapAssumption ==
    /\ ChannelCap \in Nat \ {0} /\ SourceCap \in Nat \ {0}
    /\ BroadcastCap \in Nat \ {0} /\ StreamCap \in Nat \ {0}
    /\ ReadMax \in Nat \ {0} /\ BufCap \in Nat

\* A configuration as the daemon has parsed it.
ASSUME ConfAssumption ==
    \A c \in DOMAIN Configs :
        /\ Configs[c].left \in [events : Nat, beats : Nat, calls : Nat]
        /\ Configs[c].guests \subseteq Sandboxes
        /\ Configs[c].probes \in Seq(Range(Configs[c].probes))
        /\ Configs[c].policy.rules \in Seq(Range(Configs[c].policy.rules))
        /\ \A r \in Range(Configs[c].policy.rules) : r.action \in Actions

VARIABLES
    conf,       \* name of the configuration the daemon runs with
    left,       \* events, heartbeats and calls the environment still has
    guest,      \* start_sandbox and the agent of each guest
    perf,       \* perf buffer inside each guest
    buf,        \* perf buffer or socket of each source of the host
    bound,      \* guests in the order in which their sockets were bound
    sourceq,    \* sources on their way to the pipeline
    handles,    \* holder of the lock on the VM handles
    pc, at,     \* pipeline thread: its place, the source it polls next
    sources,    \* sources of the pipeline
    pending,    \* the aggregator's events
    channel,    \* the sink's channel
    jsonl,      \* ids in the event log file
    pol, plock, \* the policy state and its mutex
    programs, total, slock,   \* the sensor state and its mutex
    rpc,        \* the call each caller is in, and the answer to its last one
    log,        \* events broadcast so far, oldest first
    subs,       \* clients of StreamEvents
    taken,      \* history: events that entered a source, in order
    fate        \* history: events the pipeline has decided on, in order

envVars  == <<conf, left>>
guestVars == <<guest, perf, bound, sourceq, handles>>
pipeVars == <<pc, at, sources, pending, channel, jsonl>>
polVars  == <<pol, plock, programs, total, slock, rpc>>
outVars  == <<log, subs, fate>>
\* The configuration of this run.
Cfg == Configs[conf]

vars     == <<envVars, guestVars, buf, taken, pipeVars, polVars, outVars>>

-----------------------------------------------------------------------------
(* eBPF programs: the event type each one reports.                         *)

HandleExec       == [name |-> "handle_exec",           type |-> 1]
HandleVfsOpen    == [name |-> "handle_vfs_open",       type |-> 10]
HandleTcpConnect == [name |-> "handle_tcp_v4_connect", type |-> 20]
HandleSslWrite   == [name |-> "handle_ssl_write",      type |-> 30]
HandleSslRead    == [name |-> "handle_ssl_read",       type |-> 31]

\* load_and_take_perf_array: the file is there, is an eBPF object that the
\* kernel takes, and has an EVENTS map.
LoadAndTakePerfArray(file) ==
    file \in DOMAIN Objects /\ Objects[file].valid /\ Objects[file].events

\* The loaders of the host want one program by its name and its kind.
Loads(file, program, hook) ==
    /\ LoadAndTakePerfArray(file)
    /\ Objects[file].program = program /\ Objects[file].hook = hook

LoadProcessExec(file) == Loads(file, HandleExec, "tracepoint")
LoadTcpConnect(file)  == Loads(file, HandleTcpConnect, "kprobe")
LoadFileMonitor(file) == Loads(file, HandleVfsOpen, "kprobe")
LoadSslMonitor(file)  == Loads(file, HandleSslWrite, "uprobe")

\* The host looks for the name anywhere in the target; the agent wants the
\* category in front of it.
ExecTargets == {"sched_process_exec", "sched/sched_process_exec"}

\* Does the pipeline thread get a source for a configured probe?
HostLoads(p) ==
    /\ p.enabled /\ p.file # None
    /\ \/ p.hook = "tracepoint" /\ p.target \in ExecTargets
          /\ LoadProcessExec(p.file)
       \/ p.hook = "kprobe" /\ p.target = "tcp_v4_connect"
          /\ LoadTcpConnect(p.file)
       \/ p.hook = "kprobe" /\ p.target = "vfs_open"
          /\ LoadFileMonitor(p.file)
       \/ p.hook = "uprobe" /\ p.target = "SSL_write"
          /\ LoadSslMonitor(p.file)

\* The agent takes whichever known program the file has and attaches it to the
\* configured target; it knows no uprobes.
FindProgramName(file) ==
    IF Objects[file].program \in {HandleExec, HandleVfsOpen, HandleTcpConnect,
                                  HandleSslWrite, HandleSslRead}
    THEN Objects[file].program ELSE None

AgentLoads(p) ==
    /\ p.enabled /\ p.file # None /\ p.file \in DOMAIN Objects
    /\ Objects[p.file].valid
    /\ \/ p.hook = "tracepoint" /\ p.target # "sched_process_exec"
       \/ p.hook = "kprobe"
    /\ FindProgramName(p.file) # None /\ Objects[p.file].hook = p.hook
    /\ Objects[p.file].events

\* A source is named after its file.
HostSources ==
    LET upTo[n \in 0 .. Len(Cfg.probes)] ==
            IF n = 0 THEN << >>
            ELSE IF HostLoads(Cfg.probes[n]) THEN Append(upTo[n - 1], Cfg.probes[n].file)
            ELSE upTo[n - 1]
    IN  upTo[Len(Cfg.probes)]

AgentProbes ==
    {p.file : p \in {q \in Range(Cfg.guestProbes) : AgentLoads(q)}}

TypeOf(file) == Objects[file].program.type

-----------------------------------------------------------------------------
(* The kernels and the network.                                            *)

NewEvent(type, src) == [id |-> left.events, type |-> type, src |-> src]

\* A program writes into its perf buffer; a full buffer loses the event.
HostEvent ==
    /\ left.events > 0
    /\ left' = [left EXCEPT !.events = @ - 1]
    /\ \E p \in Range(sources) \ Sandboxes :
           LET e == NewEvent(TypeOf(p), p)
           IN  IF Len(buf[p]) < BufCap
               THEN /\ buf' = [buf EXCEPT ![p] = Append(@, e)]
                    /\ taken' = Append(taken, e)
               ELSE UNCHANGED <<buf, taken>>
    /\ UNCHANGED <<conf, guestVars, pipeVars, polVars, outVars>>

GuestEvent(s) ==
    /\ left.events > 0 /\ guest[s].agent = "polling"
    /\ left' = [left EXCEPT !.events = @ - 1]
    /\ \E p \in AgentProbes :
           perf' = IF Len(perf[s]) < BufCap
                   THEN [perf EXCEPT ![s] = Append(@, NewEvent(TypeOf(p), s))]
                   ELSE perf
    /\ UNCHANGED <<conf, guest, bound, sourceq, handles, buf, taken, pipeVars,
                   polVars, outVars>>

\* UDP towards port 9876 of the host.  All sockets are bound to the same
\* address with SO_REUSEADDR; the datagram goes to the one bound last, whoever
\* sent it, or is lost.
Deliver(d) ==
    \/ UNCHANGED <<buf, taken>>
    \/ /\ bound # << >>
       /\ LET to == bound[Len(bound)]
              e  == [d EXCEPT !.src = to]
          IN  /\ Len(buf[to]) < BufCap
              /\ buf' = [buf EXCEPT ![to] = Append(@, e)]
              /\ taken' = IF d.type = 0 THEN taken ELSE Append(taken, e)

\* Greetings and heartbeats are shorter than an event header.
Short(s) == [id |-> 0, type |-> 0, src |-> s]

AgentStart(s) ==
    /\ guest[s].vm = "running" /\ guest[s].agent = "off"
    /\ \/ /\ guest' = [guest EXCEPT ![s].agent = "loading"]
          /\ Deliver(Short(s))
       \/ /\ Cfg.faults
          /\ guest' = [guest EXCEPT ![s].agent = "exited"]
          /\ UNCHANGED <<buf, taken>>
    /\ UNCHANGED <<envVars, perf, bound, sourceq, handles, pipeVars, polVars,
                   outVars>>

\* The probes are loaded and the agent reports; without any it idles for good.
AgentLoad(s) ==
    /\ guest[s].agent = "loading"
    /\ guest' = [guest EXCEPT ![s].agent =
                    IF AgentProbes = {} THEN "idle" ELSE "polling"]
    /\ Deliver(Short(s))
    /\ UNCHANGED <<envVars, perf, bound, sourceq, handles, pipeVars, polVars,
                   outVars>>

\* One event read from a perf buffer and sent to the host.
AgentPoll(s) ==
    /\ guest[s].agent = "polling" /\ perf[s] # << >>
    /\ perf' = [perf EXCEPT ![s] = Tail(@)]
    /\ Deliver(Head(perf[s]))
    /\ UNCHANGED <<envVars, guest, bound, sourceq, handles, pipeVars, polVars,
                   outVars>>

AgentBeat(s) ==
    /\ guest[s].agent = "polling" /\ left.beats > 0
    /\ left' = [left EXCEPT !.beats = @ - 1]
    /\ Deliver(Short(s))
    /\ UNCHANGED <<conf, guestVars, pipeVars, polVars, outVars>>

-----------------------------------------------------------------------------
(* start_sandbox: the VM thread is spawned, then, with the handle table    *)
(* locked, the guest's socket is bound and handed to the pipeline.         *)

Spawn(s) ==
    /\ guest[s].vm = "none"
    /\ guest' = [guest EXCEPT ![s].vm = "running", ![s].start = "spawned"]
    /\ UNCHANGED <<envVars, perf, bound, sourceq, handles, buf, taken,
                   pipeVars, polVars, outVars>>

BindSource(s) ==
    /\ guest[s].start = "spawned" /\ handles = None
    /\ \/ /\ Cfg.guest
          /\ bound' = Append(bound, s) /\ handles' = s
          /\ guest' = [guest EXCEPT ![s].start = "sending"]
       \/ /\ \/ ~Cfg.guest
             \/ Cfg.faults      \* socket or bind failed
          /\ guest' = [guest EXCEPT ![s].start = "returned"]
          /\ UNCHANGED <<bound, handles>>
    /\ UNCHANGED <<envVars, perf, sourceq, buf, taken, pipeVars, polVars,
                   outVars>>

\* The send into the bounded channel blocks while it is full.
SendSource(s) ==
    /\ guest[s].start = "sending"
    /\ Len(sourceq) < SourceCap
    /\ sourceq' = Append(sourceq, s)
    /\ handles' = None
    /\ guest' = [guest EXCEPT ![s].start = "returned"]
    /\ UNCHANGED <<envVars, perf, bound, buf, taken, pipeVars, polVars,
                   outVars>>

-----------------------------------------------------------------------------
(* The pipeline thread.                                                    *)

\* Probes are loaded and the sinks made; the event log may fail to open.
PipelineStart ==
    /\ pc = "start"
    /\ sources' = HostSources
    /\ pc' = "sources"
    /\ UNCHANGED <<envVars, guestVars, buf, taken, at, pending, channel, jsonl,
                   polVars, outVars>>

AddSource ==
    /\ pc = "sources" /\ sourceq # << >>
    /\ sources' = Append(sources, Head(sourceq))
    /\ sourceq' = Tail(sourceq)
    /\ UNCHANGED <<envVars, guest, perf, bound, handles, buf, taken, pc, at,
                   pending, channel, jsonl, polVars, outVars>>

Tick ==
    /\ pc = "sources" /\ sourceq = << >>
    /\ pc' = "poll" /\ at' = 1
    /\ UNCHANGED <<envVars, guestVars, buf, taken, sources, pending, channel,
                   jsonl, polVars, outVars>>

\* One recv_from of a guest's source: a datagram, of which one too short to be
\* an event is dropped, or none, which ends the loop.
PollGuest(src) ==
    \/ /\ buf[src] # << >>
       /\ pending' = IF Head(buf[src]).type = 0 THEN pending
                     ELSE Append(pending, Head(buf[src]))
       /\ buf' = [buf EXCEPT ![src] = Tail(@)]
       /\ UNCHANGED at
    \/ /\ buf[src] = << >>
       /\ at' = at + 1
       /\ UNCHANGED <<pending, buf>>

\* A perf buffer is read at once, up to ReadMax of its events.
Readable(src) == IF Len(buf[src]) < ReadMax THEN Len(buf[src]) ELSE ReadMax

\* Mutant: the aggregator's events are replaced, not added to.
PollHostReplaces(src) ==
    /\ pending' = SubSeq(buf[src], 1, Readable(src))
    /\ buf' = [buf EXCEPT ![src] = SubSeq(@, Readable(src) + 1, Len(@))]
    /\ at' = at + 1

PollHost(src) ==
    /\ pending' = pending \o SubSeq(buf[src], 1, Readable(src))
    /\ buf' = [buf EXCEPT ![src] = SubSeq(@, Readable(src) + 1, Len(@))]
    /\ at' = at + 1

Poll ==
    /\ pc = "poll" /\ at <= Len(sources)
    /\ IF sources[at] \in Sandboxes THEN PollGuest(sources[at]) ELSE PollHost(sources[at])
    /\ UNCHANGED <<envVars, guestVars, taken, pc, sources, channel, jsonl,
                   polVars, outVars>>

PollEnd ==
    /\ pc = "poll" /\ at > Len(sources)
    /\ pc' = "dispatch"
    /\ UNCHANGED <<envVars, guestVars, buf, taken, at, sources, pending,
                   channel, jsonl, polVars, outVars>>

\* The pipeline's filter is the one it was made with: it lets everything pass.
Filter == {}

\* EventFilter::matches; the pid filter, which is as empty, is left out.
FilterMatches(types, e) == types = {} \/ e.type \in types

\* Both sinks in turn.  The send blocks while the channel is full, and only
\* this thread empties it; a failed write of the log is ignored.
ChannelSend(e) == Len(channel) < ChannelCap /\ channel' = Append(channel, e)

JsondSend(e) == \/ Cfg.log /\ jsonl' = Append(jsonl, e.id)
                \/ (~Cfg.log \/ Cfg.faults) /\ UNCHANGED jsonl

Dispatch ==
    /\ pc = "dispatch" /\ pending # << >>
    /\ LET e == Head(pending)
       IN  IF FilterMatches(Filter, e) THEN ChannelSend(e) /\ JsondSend(e)
           ELSE UNCHANGED <<channel, jsonl>>
    /\ pending' = Tail(pending)
    /\ UNCHANGED <<envVars, guestVars, buf, taken, pc, at, sources, polVars,
                   outVars>>

DispatchEnd ==
    /\ pc = "dispatch" /\ pending = << >>
    /\ pc' = "drain"
    /\ UNCHANGED <<envVars, guestVars, buf, taken, at, sources, pending,
                   channel, jsonl, polVars, outVars>>

\* try_lock: when the policy state is in use the event is allowed.
Enforced == plock = None /\ Cfg.policy.enforcement

Action(e) ==
    IF Enforced THEN Evaluate(RulesOf(Cfg.policy), EventTypeToStr(e.type)) ELSE "allow"

\* The guest an event is reported for is the one whose socket it came from.
SandboxId(src) == IF src \in Sandboxes THEN src ELSE None

ProtoType(code) ==
    IF code \in {1, 2, 3, 10, 11, 12, 20, 21, 22, 30, 31, 40} THEN code ELSE 0

SensorEvent(e) ==
    [id |-> e.id, type |-> ProtoType(e.type), sandbox |-> SandboxId(e.src)]

\* Mutant: lock() in place of try_lock().
DrainWaits ==
    /\ pc = "drain" /\ channel # << >> /\ plock = None
    /\ LET e == Head(channel)
           a == Action(e)
       IN  /\ pol' = IF Enforced THEN Decided(pol, a) ELSE pol
           /\ log' = IF a = "deny" THEN log ELSE Append(log, SensorEvent(e))
           /\ fate' = Append(fate, [event |-> e, action |-> a,
                                    busy |-> ~Enforced])
    /\ channel' = Tail(channel)
    /\ total' = IF slock = None THEN total + 1 ELSE total
    /\ UNCHANGED <<envVars, guestVars, buf, taken, pc, at, sources, pending,
                   jsonl, plock, programs, slock, rpc, subs>>

\* A denied event is dropped; a killed or alerted one is forwarded like any
\* other, and nothing is done to the sandbox.
Drain ==
    /\ pc = "drain" /\ channel # << >>
    /\ LET e == Head(channel)
           a == Action(e)
       IN  /\ pol' = IF Enforced THEN Decided(pol, a) ELSE pol
           /\ log' = IF a = "deny" THEN log ELSE Append(log, SensorEvent(e))
           /\ fate' = Append(fate, [event |-> e, action |-> a,
                                    busy |-> ~Enforced])
    /\ channel' = Tail(channel)
    /\ total' = IF slock = None THEN total + 1 ELSE total
    /\ UNCHANGED <<envVars, guestVars, buf, taken, pc, at, sources, pending,
                   jsonl, plock, programs, slock, rpc, subs>>

Sleep ==
    /\ pc = "drain" /\ channel = << >>
    /\ pc' = "sleep"
    /\ UNCHANGED <<envVars, guestVars, buf, taken, at, sources, pending,
                   channel, jsonl, polVars, outVars>>

Wake ==
    /\ pc = "sleep"
    /\ pc' = "sources"
    /\ UNCHANGED <<envVars, guestVars, buf, taken, at, sources, pending,
                   channel, jsonl, polVars, outVars>>

-----------------------------------------------------------------------------
(* StreamEvents: a forwarder per client between the broadcast channel and  *)
(* the client's own.  `next` counts the events of the log the receiver has *)
(* passed, `hold` is the one the forwarder is about to send (0: none).     *)

Off == [state |-> "off", types |-> {}, sandbox |-> None, since |-> 0,
        next |-> 0, hold |-> 0, out |-> << >>, got |-> << >>]

StreamEvents(c) ==
    /\ subs[c].state = "off"
    /\ \E f \in Cfg.filters :
           subs' = [subs EXCEPT ![c] = [@ EXCEPT !.state = "on",
                        !.types = f.types, !.sandbox = f.sandbox,
                        !.since = Len(log), !.next = Len(log)]]
    /\ UNCHANGED <<envVars, guestVars, buf, taken, pipeVars, polVars, log,
                   fate>>

Passes(sub, e) ==
    /\ sub.types = {} \/ e.type \in sub.types
    /\ sub.sandbox = None \/ e.sandbox = sub.sandbox

\* Mutant: a lagged receiver starts over with the newest event.
RecvSkips(sub) ==
    IF Len(log) - sub.next > BroadcastCap
    THEN [sub EXCEPT !.next = Len(log)]
    ELSE [sub EXCEPT !.next = @ + 1,
                     !.hold = IF Passes(sub, log[sub.next + 1])
                              THEN sub.next + 1 ELSE 0]

\* A receiver the ring has overtaken is told so once and goes on with the
\* oldest event the ring still has.
Recv(sub) ==
    IF Len(log) - sub.next > BroadcastCap
    THEN [sub EXCEPT !.next = Len(log) - BroadcastCap]
    ELSE [sub EXCEPT !.next = @ + 1,
                     !.hold = IF Passes(sub, log[sub.next + 1])
                              THEN sub.next + 1 ELSE 0]

Forward(c) ==
    /\ subs[c].state \in {"on", "gone"} /\ subs[c].hold = 0
    /\ subs[c].next < Len(log)
    /\ subs' = [subs EXCEPT ![c] = Recv(@)]
    /\ UNCHANGED <<envVars, guestVars, buf, taken, pipeVars, polVars, log,
                   fate>>

\* The send waits for room; once the client is gone it fails and the forwarder
\* ends.
Send(c) ==
    /\ subs[c].hold # 0
    /\ \/ /\ subs[c].state = "on" /\ Len(subs[c].out) < StreamCap
          /\ subs' = [subs EXCEPT ![c].out = Append(@, subs[c].hold),
                                  ![c].hold = 0]
       \/ /\ subs[c].state = "gone"
          /\ subs' = [subs EXCEPT ![c].state = "ended", ![c].hold = 0]
    /\ UNCHANGED <<envVars, guestVars, buf, taken, pipeVars, polVars, log,
                   fate>>

ClientReads(c) ==
    /\ subs[c].state = "on" /\ subs[c].out # << >>
    /\ subs' = [subs EXCEPT ![c].got = Append(@, Head(subs[c].out)),
                            ![c].out = Tail(@)]
    /\ UNCHANGED <<envVars, guestVars, buf, taken, pipeVars, polVars, log,
                   fate>>

ClientLeaves(c) ==
    /\ subs[c].state = "on" /\ Cfg.faults
    /\ subs' = [subs EXCEPT ![c].state = "gone"]
    /\ UNCHANGED <<envVars, guestVars, buf, taken, pipeVars, polVars, log,
                   fate>>

-----------------------------------------------------------------------------
(* Calls that take the policy mutex: the PolicyService and the admission   *)
(* check of create_sandbox.  A call is [op, ...] from the configuration's  *)
(* set; its answer stays in rpc.                                           *)

PolicyOps == {"evaluate", "load_bundle", "remove_bundle", "list_bundles",
              "policy_status", "admit"}
SensorOps == {"sensor_status", "load_program", "unload_program"}

Idle(answer) == [op |-> "none", answer |-> answer]

PolicyCall(c) ==
    /\ rpc[c].op = "none" /\ left.calls > 0 /\ plock = None
    /\ \E q \in Cfg.calls :
           /\ q.op \in PolicyOps
           /\ rpc' = [rpc EXCEPT ![c] = q]
    /\ plock' = c
    /\ left' = [left EXCEPT !.calls = @ - 1]
    /\ UNCHANGED <<conf, guestVars, buf, taken, pipeVars, pol, programs, total,
                   slock, outVars>>

PolicyReturns(c, op, newPol, answer) ==
    /\ plock = c /\ rpc[c].op = op
    /\ pol' = newPol
    /\ rpc' = [rpc EXCEPT ![c] = Idle(answer)]
    /\ plock' = None
    /\ UNCHANGED <<envVars, guestVars, buf, taken, pipeVars, programs, total,
                   slock, outVars>>

\* A module that loops keeps the mutex for good.
EvaluateReturns(c) ==
    /\ rpc[c].op = "evaluate"
    /\ rpc[c].id \in DOMAIN pol.bundles => pol.bundles[rpc[c].id] # "loops"
    /\ PolicyReturns(c, "evaluate", EvaluateBundle(pol, rpc[c].id),
                     Answer(pol, rpc[c].id))

LoadBundleReturns(c) ==
    /\ rpc[c].op = "load_bundle"
    /\ PolicyReturns(c, "load_bundle", LoadBundle(pol, rpc[c].id, rpc[c].module),
                     Compiles(rpc[c].module))

RemoveBundleReturns(c) ==
    /\ rpc[c].op = "remove_bundle"
    /\ PolicyReturns(c, "remove_bundle", RemoveBundle(pol, rpc[c].id),
                     rpc[c].id \in DOMAIN pol.bundles)

ListBundlesReturns(c) ==
    PolicyReturns(c, "list_bundles", pol, DOMAIN pol.bundles)

PolicyStatusReturns(c) ==
    PolicyReturns(c, "policy_status", pol,
                  <<Cardinality(DOMAIN pol.bundles), pol.evals, pol.denied>>)

AdmissionReturns(c) ==
    /\ rpc[c].op = "admit"
    /\ PolicyReturns(c, "admit", pol, ~Cfg.policy.admission
                                      \/ Admits(Cfg.policy, pol, rpc[c]))

-----------------------------------------------------------------------------
(* Calls that take the sensor mutex.  Loading a program only lists it.     *)

SensorCall(c) ==
    /\ rpc[c].op = "none" /\ left.calls > 0 /\ slock = None
    /\ \E q \in Cfg.calls :
           /\ q.op \in SensorOps
           /\ rpc' = [rpc EXCEPT ![c] = q]
    /\ slock' = c
    /\ left' = [left EXCEPT !.calls = @ - 1]
    /\ UNCHANGED <<conf, guestVars, buf, taken, pipeVars, pol, plock, programs,
                   total, outVars>>

SensorReturns(c, op, newPrograms, answer) ==
    /\ slock = c /\ rpc[c].op = op
    /\ programs' = newPrograms
    /\ rpc' = [rpc EXCEPT ![c] = Idle(answer)]
    /\ slock' = None
    /\ UNCHANGED <<envVars, guestVars, buf, taken, pipeVars, pol, plock, total,
                   outVars>>

LoadProgramReturns(c) ==
    /\ rpc[c].op = "load_program"
    /\ SensorReturns(c, "load_program", programs \union {rpc[c].id},
                     rpc[c].id \notin programs)

UnloadProgramReturns(c) ==
    /\ rpc[c].op = "unload_program"
    /\ SensorReturns(c, "unload_program", programs \ {rpc[c].id},
                     rpc[c].id \in programs)

SensorStatusReturns(c) ==
    SensorReturns(c, "sensor_status", programs, <<programs, total>>)

-----------------------------------------------------------------------------
Init ==
    /\ conf \in DOMAIN Configs
    /\ left = Cfg.left
    /\ guest = [s \in Sandboxes |-> [vm |-> "none", start |-> "none",
                                     agent |-> "off"]]
    /\ perf = [s \in Sandboxes |-> << >>]
    /\ buf = [s \in Sandboxes \union Range(HostSources) |-> << >>]
    /\ bound = << >> /\ sourceq = << >> /\ handles = None
    /\ pc = "start" /\ at = 1
    /\ sources = << >> /\ pending = << >> /\ channel = << >> /\ jsonl = << >>
    /\ pol = FromConfig /\ plock = None
    /\ programs = {} /\ total = 0 /\ slock = None
    /\ rpc = [c \in Callers |-> Idle(None)]
    /\ log = << >> /\ subs = [c \in Clients |-> Off]
    /\ taken = << >> /\ fate = << >>

Pipeline ==
    \/ PipelineStart \/ AddSource \/ Tick \/ Poll \/ PollEnd \/ Dispatch
    \/ DispatchEnd \/ Drain \/ Sleep \/ Wake

StartSandbox(s) == Spawn(s) \/ BindSource(s) \/ SendSource(s)

Agent(s) == AgentStart(s) \/ AgentLoad(s) \/ AgentPoll(s) \/ AgentBeat(s)

Stream(c) ==
    StreamEvents(c) \/ Forward(c) \/ Send(c) \/ ClientReads(c) \/ ClientLeaves(c)

PolicyService(c) ==
    \/ PolicyCall(c) \/ EvaluateReturns(c) \/ LoadBundleReturns(c)
    \/ RemoveBundleReturns(c) \/ ListBundlesReturns(c) \/ PolicyStatusReturns(c)
    \/ AdmissionReturns(c)

SensorService(c) ==
    \/ SensorCall(c) \/ LoadProgramReturns(c) \/ UnloadProgramReturns(c)
    \/ SensorStatusReturns(c)

Next ==
    \/ HostEvent
    \/ Pipeline
    \/ \E s \in Cfg.guests : GuestEvent(s) \/ Agent(s) \/ StartSandbox(s)
    \/ \E c \in Clients : Stream(c)
    \/ \E c \in Callers : PolicyService(c) \/ SensorService(c)

\* Threads that can run do; calls that hold a mutex return unless their Wasm
\* module loops.  Nothing obliges guests, clients or callers to begin.
Fairness ==
    /\ WF_vars(Pipeline)
    /\ \A s \in Sandboxes : WF_vars(BindSource(s)) /\ WF_vars(SendSource(s))

Spec == Init /\ [][Next]_vars /\ Fairness

-----------------------------------------------------------------------------
(* Properties.                                                             *)

\* The elements of s at the positions I are those of t at the positions J, in the
\* same order and each once.
SameOrder(I, s, J, t) ==
    /\ \A i \in I : \E j \in J : s[i] = t[j]
    /\ \A j \in J : \E i \in I : s[i] = t[j]
    /\ \A h, i \in I, j, k \in J :
           s[h] = t[j] /\ s[i] = t[k] => (h < i <=> j < k)

Decisions == [i \in DOMAIN fate |-> fate[i].event]

\* The actions the enabled rules ask for, and the severest of them.
Asked(e) ==
    {"allow"} \union
    {r.action : r \in {q \in Range(RulesOf(Cfg.policy)) :
                           Matches(q, EventTypeToStr(e.type))}}

Severest(a, e) ==
    a \in Asked(e) /\ \A b \in Asked(e) : Severity[b] <= Severity[a]

\* Every event a source took in is, for each source in its order and exactly
\* once, still in the source, in the aggregator, in the channel, or decided
\* on (poll_sources, process_events and the loops of start_sensor_pipeline
\* lose and repeat nothing).  The decision is the severest action the rules
\* ask for, except that an event drained while another thread holds the
\* policy state is allowed; the broadcast has, in order, all but the denied.
Accounted ==
    /\ \A src \in DOMAIN buf :
           LET all == Decisions \o channel \o pending \o buf[src]
           IN  SameOrder({n \in DOMAIN taken : taken[n].src = src}, taken,
                         {i \in DOMAIN all : all[i].src = src /\ all[i].type # 0}, all)
    /\ \A i \in DOMAIN fate :
           IF fate[i].busy THEN fate[i].action = "allow"
           ELSE Severest(fate[i].action, fate[i].event)
    /\ SameOrder({i \in DOMAIN fate : fate[i].action # "deny"},
                 [i \in DOMAIN fate |-> SensorEvent(fate[i].event)], DOMAIN log, log)

\* A StreamEvents client gets events in the order of the broadcast, none
\* twice, none that its filter excludes and none from before its call; one
\* that passes the filter is missing only if BroadcastCap newer ones had come
\* before the forwarder read it (the Lagged arm of stream_events).
StreamExact ==
    \A c \in Clients :
        LET sub == subs[c]
            all == sub.got \o sub.out
                   \o (IF sub.hold = 0 THEN << >> ELSE <<sub.hold>>)
        IN  sub.state \in {"on", "gone"} =>
            /\ \A i, j \in DOMAIN all : i < j => all[i] < all[j]
            /\ \A i \in DOMAIN all :
                   all[i] \in sub.since + 1 .. sub.next
                   /\ Passes(sub, log[all[i]])
            /\ \A n \in sub.since + 1 .. sub.next :
                   \/ n \in Range(all)
                   \/ ~Passes(sub, log[n])
                   \/ n + BroadcastCap <= Len(log)

\* As long as no tick collects more events than the channel holds, the pipeline
\* thread comes round for ever and every start_sandbox returns, whoever holds
\* the policy mutex and for however long.  (A larger tick blocks the thread in
\* ChannelSink::send for good: it is the only one that empties the channel.)
KeepsTicking ==
    [](Len(pending) <= ChannelCap) =>
        /\ []<>(pc = "sleep")
        /\ \A s \in Sandboxes :
               guest[s].start = "spawned" ~> guest[s].start = "returned"
=============================================================================
