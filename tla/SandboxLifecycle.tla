-------------------------- MODULE SandboxLifecycle --------------------------
(***************************************************************************)
(* What the daemon promises about one sandbox, whatever mix of gRPC and    *)
(* REST calls is in flight.  A sandbox id may be created again after it    *)
(* was destroyed, so the promise is about an incarnation: what one         *)
(* successful SandboxOrchestrator::create made.                            *)
(*                                                                         *)
(*   life[i]     the state of incarnation i: SandboxState of lifecycle.rs, *)
(*               "unborn" before its create, "gone" after its removal and  *)
(*               "discarded" when it was removed without being started     *)
(*   machine[i]  the VM thread booted for incarnation i                    *)
(*                                                                         *)
(* An incarnation is started once, its machine is booted once and only     *)
(* after the start, and no state is ever visited again.  A machine may     *)
(* outlive the incarnation: no step of the daemon ties the two ends        *)
(* together.                                                               *)
(***************************************************************************)
CONSTANT Incarnations

VARIABLES life, machine

lifecycleVars == <<life, machine>>

Started == {"running", "stopped", "gone"}

LifecycleInit == /\ life = [i \in Incarnations |-> "unborn"]
                 /\ machine = [i \in Incarnations |-> "none"]

Moves == {<<"unborn", "created">>, <<"created", "running">>,
          <<"running", "stopped">>, <<"created", "discarded">>,
          <<"stopped", "gone">>, <<"running", "gone">>}

(* Create, Start, Stop, Destroy, and the stop-and-destroy of DELETE.       *)
Move(i) == \E to \in {"created", "running", "stopped", "gone", "discarded"} :
              /\ <<life[i], to>> \in Moves
              /\ life' = [life EXCEPT ![i] = to]
              /\ UNCHANGED machine

Boot(i) == /\ life[i] \in Started
           /\ machine[i] = "none"
           /\ machine' = [machine EXCEPT ![i] = "live"]
           /\ UNCHANGED life

Exit(i) == /\ machine[i] = "live"
           /\ machine' = [machine EXCEPT ![i] = "dead"]
           /\ UNCHANGED life

LifecycleNext == \E i \in Incarnations : Move(i) \/ Boot(i) \/ Exit(i)

LifecycleSpec == LifecycleInit /\ [][LifecycleNext]_lifecycleVars
=============================================================================
