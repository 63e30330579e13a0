----------------------------- MODULE MCTelemetry -----------------------------
(* Configurations of the daemon for the model checker.                     *)
EXTENDS Telemetry

CONSTANTS s1, s2

Object(program, hook, valid, events) ==
    [program |-> program, hook |-> hook, valid |-> valid, events |-> events]

MCObjects ==
    [exec   |-> Object(HandleExec, "tracepoint", TRUE, TRUE),
     open   |-> Object(HandleVfsOpen, "kprobe", TRUE, TRUE),
     tcp    |-> Object(HandleTcpConnect, "kprobe", TRUE, TRUE),
     ssl    |-> Object(HandleSslWrite, "uprobe", TRUE, TRUE),
     nomap  |-> Object(HandleExec, "tracepoint", TRUE, FALSE),
     broken |-> Object(HandleExec, "tracepoint", FALSE, TRUE)]

Probe(hook, target, file) ==
    [hook |-> hook, target |-> target, file |-> file, enabled |-> TRUE]

ExecProbe == Probe("tracepoint", "sched/sched_process_exec", "exec")
OpenProbe == Probe("kprobe", "vfs_open", "open")
TcpProbe  == Probe("kprobe", "tcp_v4_connect", "tcp")
SslProbe  == Probe("uprobe", "SSL_write", "ssl")
Useless   == << Probe("tracepoint", "sched/sched_process_exec", "nomap"),
                Probe("tracepoint", "sched_process_exec", "broken"),
                Probe("kprobe", "vfs_open", None),
                Probe("kprobe", "vfs_read", "open"),
                [OpenProbe EXCEPT !.enabled = FALSE] >>

PolicyConf(ruleset, rules, enforcement) ==
    [ruleset |-> ruleset, rules |-> rules, enforcement |-> enforcement,
     admission |-> TRUE, max_vcpus |-> 2, max_memory_mib |-> 512,
     max_sandboxes |-> 1, allowed_images |-> {"nginx"}]

All == [types |-> {}, sandbox |-> None]

Base ==
    [probes |-> << >>, guestProbes |-> << >>, guest |-> FALSE, guests |-> {},
     log |-> TRUE, faults |-> FALSE, filters |-> {All}, calls |-> {},
     left |-> [events |-> 0, beats |-> 0, calls |-> 0],
     policy |-> PolicyConf("default", << >>, TRUE)]

\* Host probes, several rules for one event, and a bundle that never returns.
HostConf ==
    [Base EXCEPT
       !.probes = <<ExecProbe, OpenProbe>> \o Useless,
       !.left = [events |-> 3, beats |-> 0, calls |-> 2],
       !.calls = {[op |-> "load_bundle", id |-> "b", module |-> "loops"],
                  [op |-> "evaluate", id |-> "b"]},
       !.filters = {},
       !.policy = PolicyConf("strict",
           << Rule("file_open", "deny", TRUE), Rule("*", "alert", TRUE),
              Rule("process_exec", "kill", TRUE) >>, TRUE)]

\* Two guests whose events meet in one socket.
GuestConf ==
    [Base EXCEPT
       !.guestProbes = <<TcpProbe>>, !.guest = TRUE, !.guests = {s1, s2},
       !.left = [events |-> 2, beats |-> 0, calls |-> 0], !.filters = {}]

\* A guest's short datagrams between its events, and the host's own events.
BeatConf ==
    [Base EXCEPT
       !.probes = <<OpenProbe>>, !.guestProbes = <<ExecProbe>>, !.guest = TRUE,
       !.guests = {s1}, !.left = [events |-> 2, beats |-> 1, calls |-> 0],
       !.filters = {[types |-> {}, sandbox |-> s1]}]

\* No sensors in the guests.
NoGuestConf == [Base EXCEPT !.guests = {s1, s2}, !.filters = {}]

\* Guests without sockets, agents without probes, clients that leave.
FaultConf ==
    [Base EXCEPT
       !.probes = <<SslProbe>>, !.guestProbes = <<SslProbe>>, !.guest = TRUE,
       !.guests = {s1}, !.faults = TRUE,
       !.left = [events |-> 2, beats |-> 0, calls |-> 0],
       !.policy = PolicyConf("unheard of", << >>, TRUE)]

\* More events than the broadcast ring and the client's channel hold.
StreamConf ==
    [Base EXCEPT
       !.probes = <<TcpProbe, OpenProbe>>, !.log = FALSE,
       !.filters = {[types |-> {20}, sandbox |-> None]},
       !.left = [events |-> 4, beats |-> 0, calls |-> 0],
       !.policy = PolicyConf("none", << >>, FALSE)]

\* The two services' calls beside the pipeline.
CallConf ==
    [Base EXCEPT
       !.probes = <<TcpProbe>>, !.filters = {},
       !.left = [events |-> 1, beats |-> 0, calls |-> 2],
       !.calls =
           {[op |-> "load_bundle", id |-> "b", module |-> m] : m \in
               {"garbage", "noeval", "traps", "denies"}}
           \union {[op |-> o, id |-> "b"] :
                      o \in {"evaluate", "remove_bundle", "load_program",
                             "unload_program"}}
           \union {[op |-> o] : o \in {"list_bundles", "policy_status",
                                       "sensor_status"}}
           \union {[op |-> "admit", vcpus |-> v, memory |-> 512,
                    prefixes |-> p] : v \in {2, 3}, p \in {{"nginx"}}}]

MCConfigs ==
    [host |-> HostConf, guests |-> GuestConf, beats |-> BeatConf,
     noguest |-> NoGuestConf, faults |-> FaultConf,
     stream |-> StreamConf, calls |-> CallConf]
=============================================================================
