------------------------------- MODULE Policy -------------------------------
(***************************************************************************)
(* The policy state of the daemon: nova-policy (rules, admission checks,   *)
(* Wasm bundles) and what policy_server.rs makes of it.  Everything here is *)
(* done with the one policy mutex held, so each operation is an operator   *)
(* from the state before to the state after; Telemetry takes the lock.     *)
(*                                                                         *)
(* A bundle is abstracted to how its Wasm module behaves:                   *)
(*   "empty", "garbage"    no bytes, or bytes that do not compile           *)
(*   "imports"             compiles, cannot be instantiated                 *)
(*   "noeval"              has no export named eval                         *)
(*   "takes_arg", "traps"  eval wants an argument, or traps                 *)
(*   "loops"               eval never returns: nothing limits its fuel      *)
(*   "allows", "denies"    eval() returns non-zero, or zero                 *)
(***************************************************************************)
EXTENDS Integers, Sequences, Functions, TLC

-----------------------------------------------------------------------------
(* Event types: the code an event carries and the name a rule uses.        *)

EventTypeToStr(code) ==
    CASE code = 1  -> "process_exec"  [] code = 2  -> "process_exit"
      [] code = 3  -> "process_fork"  [] code = 10 -> "file_open"
      [] code = 11 -> "file_write"    [] code = 12 -> "file_unlink"
      [] code = 20 -> "net_connect"   [] code = 21 -> "net_accept"
      [] code = 22 -> "net_close"     [] code = 30 -> "http_request"
      [] code = 31 -> "http_response" [] code = 40 -> "dns_query"
      [] OTHER     -> "unknown"

-----------------------------------------------------------------------------
(* Enforcement.                                                            *)

Rule(type, action, enabled) ==
    [event_type |-> type, action |-> action, enabled |-> enabled]

DefaultRules ==
    << Rule("process_exec", "alert", TRUE),
       Rule("net_connect",  "alert", TRUE),
       Rule("file_unlink",  "alert", TRUE) >>

StrictRules ==
    DefaultRules \o << Rule("dns_query",    "deny", FALSE),
                       Rule("http_request", "kill", FALSE) >>

\* A ruleset name that is not known counts as "none".
Builtin(ruleset) ==
    CASE ruleset = "default" -> DefaultRules
      [] ruleset = "strict"  -> StrictRules
      [] OTHER               -> << >>

Actions == {"allow", "alert", "deny", "kill"}

Severity == [allow |-> 0, alert |-> 1, deny |-> 2, kill |-> 3]

MostRestrictive(a, b) == IF Severity[b] > Severity[a] THEN b ELSE a

Matches(rule, type) == rule.enabled /\ rule.event_type \in {type, "*"}

Evaluate(rules, type) ==
    LET upTo[n \in 0 .. Len(rules)] ==
            IF n = 0 THEN "allow"
            ELSE IF Matches(rules[n], type)
            THEN MostRestrictive(upTo[n - 1], rules[n].action)
            ELSE upTo[n - 1]
    IN  upTo[Len(rules)]

\* The counters an evaluation leaves behind.
Decided(pol, action) ==
    [pol EXCEPT !.decisions = @ + 1,
                !.denials = IF action \in {"deny", "kill"} THEN @ + 1 ELSE @,
                !.alerts  = IF action = "alert" THEN @ + 1 ELSE @]

-----------------------------------------------------------------------------
(* Admission.  The number of sandboxes the checker compares with its limit *)
(* is the field the daemon initialises to zero and never sets again.       *)

\* AdmissionChecker::check for a request for `vcpus` CPUs, `memory` MiB and an
\* image whose allow-listed prefixes are `prefixes`.
Admits(cfg, pol, req) ==
    /\ req.vcpus <= cfg.max_vcpus
    /\ req.memory <= cfg.max_memory_mib
    /\ pol.current < cfg.max_sandboxes
    /\ \/ cfg.allowed_images = {}
       \/ req.prefixes \cap cfg.allowed_images # {}

-----------------------------------------------------------------------------
(* Bundles.                                                                *)

Compiles(m) == m \notin {"empty", "garbage"}

LoadBundle(pol, id, m) ==
    IF Compiles(m) THEN [pol EXCEPT !.bundles = (id :> m) @@ @] ELSE pol

RemoveBundle(pol, id) ==
    [pol EXCEPT !.bundles = [i \in DOMAIN @ \ {id} |-> @[i]]]

\* What PolicyEngine::evaluate returns for a compiled module.
EvalModule(m) ==
    CASE m \in {"allows", "noeval"} -> "allowed"
      [] m = "denies"               -> "denied"
      [] OTHER                      -> "failed"

\* The answer to an Evaluate call: no bundle of that name allows, a failure
\* denies.
Answer(pol, id) ==
    IF id \in DOMAIN pol.bundles THEN EvalModule(pol.bundles[id])
    ELSE "allowed"

\* A failed evaluation returns before it is counted.
EvaluateBundle(pol, id) ==
    IF id \notin DOMAIN pol.bundles \/ Answer(pol, id) = "failed" THEN pol
    ELSE [pol EXCEPT !.evals = @ + 1,
                     !.denied = IF Answer(pol, id) = "denied" THEN @ + 1
                                ELSE @]

-----------------------------------------------------------------------------
(* PolicyState::from_config.                                               *)

\* The rules in the order in which they are added.
RulesOf(cfg) == Builtin(cfg.ruleset) \o cfg.rules

\* What changes while the daemon runs.
FromConfig ==
    [current |-> 0, bundles |-> << >>, evals |-> 0, denied |-> 0,
     decisions |-> 0, denials |-> 0, alerts |-> 0]
=============================================================================
