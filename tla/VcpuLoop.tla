------------------------------ MODULE VcpuLoop ------------------------------
(***************************************************************************)
(* The vCPU run loops of exit_handler.rs with the threads that interrupt   *)
(* them: a watchdog that fires once, after the timeout, and a poll timer   *)
(* that fires every 10 ms.  Both set kvm_run->immediate_exit and send a    *)
(* signal; the loop returns only after it has joined them (Drop).          *)
(*                                                                         *)
(* kind tells which loop runs: "interactive" is the loop of a sandbox,     *)
(* "capture" the one without console and shutdown flag, "match" the one    *)
(* that boots to a marker and has no poll timer.  The guest leaves KVM_RUN *)
(* of its own accord at most MaxExits times and then idles in it.  What    *)
(* the exits do to the serial port and the devices is left out: no step    *)
(* here depends on it, save that a byte the guest sends is captured.       *)
(***************************************************************************)
EXTENDS Naturals

CONSTANTS Kinds,      \* the loops explored
          Spurious,   \* the loops in which a condition variable may wake by itself
          MaxOutput,  \* max_output, in bytes
          MaxExits    \* bound on the guest's own exits

ASSUME VcpuAssumption == /\ Kinds \subseteq {"interactive", "capture", "match"}
                         /\ MaxOutput \in Nat /\ MaxExits \in Nat

VARIABLES kind,
          pc,       \* where the loop is
          exit,     \* the VmExit it handles
          output,   \* bytes captured
          matched,  \* the output contains the marker
          reason,   \* CaptureStopReason, once the loop has stopped
          exits,    \* exits the guest has made
          imm,      \* kvm_run->immediate_exit
          late,     \* start.elapsed() >= timeout
          flag,     \* the shutdown flag
          timer,    \* the state of each timer thread
          done      \* the Boolean each shares with the loop

loopVars == <<pc, exit, output, matched, reason, exits>>
timerVars == <<timer, done>>
vars == <<kind, loopVars, imm, late, flag, timerVars>>

Timers == {"watchdog", "poll"}
GuestExits == {"Tx", "Other", "Shutdown", "Error", "RunFailed"}
Reasons == {"BufferFull", "Stopped", "Timeout", "Shutdown", "Error", "RunFailed"}

(* _poll_timer is declared last, so it is dropped first.                   *)
Drops == {"set_poll", "notify_poll", "join_poll",
          "set_watchdog", "notify_watchdog", "join_watchdog"}
PcStates == {"top", "clear", "enter", "guest", "eintr", "handle", "returned"} \cup Drops

(* "locking": about to take the lock; "waiting": in wait_timeout; "woken": *)
(* about to take the lock again; "firing": holds it, immediate_exit set.   *)
TimerStates == {"none", "locking", "waiting", "woken", "firing", "exited"}

(* mutant: a loop with a shutdown flag needs no poll timer                 *)
HasPollIfDeaf(k) == k = "capture"
HasPoll(k) == k # "match"

(* The states of the loops, the timers and what they share.                *)
TypeOK == /\ kind \in Kinds
          /\ pc \in PcStates
          /\ exit \in GuestExits \cup {"Interrupted"}
          /\ output \in 0..(IF kind = "match" THEN MaxExits ELSE MaxOutput)
          /\ matched \in BOOLEAN
          /\ reason \in Reasons \cup {"none"}
          /\ exits \in 0..MaxExits
          /\ imm \in BOOLEAN
          /\ late \in BOOLEAN
          /\ flag \in BOOLEAN
          /\ timer \in [Timers -> TimerStates]
          /\ done \in [Timers -> BOOLEAN]

(* immediate_exit may be left over from an earlier loop on the same vCPU.  *)
Init == /\ kind \in Kinds
        /\ pc = "top" /\ exit = "Other" /\ output = 0 /\ matched = FALSE
        /\ reason = "none" /\ exits = 0
        /\ imm \in BOOLEAN
        /\ late = FALSE
        /\ flag = FALSE
        /\ timer = [t \in Timers |-> IF t = "watchdog" \/ HasPoll(kind)
                                     THEN "locking" ELSE "none"]
        /\ done = [t \in Timers |-> FALSE]
-----------------------------------------------------------------------------
(* The loop                                                                *)

FirstDrop == IF HasPoll(kind) THEN "set_poll" ELSE "set_watchdog"

Goto(label) == pc' = label /\ UNCHANGED <<exit, output, matched, reason, exits>>

(* return: the result is set and the timers are dropped.                   *)
Return(r) == /\ reason' = r
             /\ pc' = FirstDrop
             /\ UNCHANGED <<exit, output, matched, exits>>

(* The tests at the head of the loop.                                      *)
(* mutant: off by one                                                      *)
EnoughLate == IF kind = "match" THEN matched ELSE output > MaxOutput
Enough == IF kind = "match" THEN matched ELSE output >= MaxOutput
StopAsked == kind = "interactive" /\ flag

Top == /\ pc = "top"
       /\ \/ Enough /\ Return("BufferFull")
          \/ ~Enough /\ StopAsked /\ Return("Stopped")
          \/ ~Enough /\ ~StopAsked /\ Goto("clear")
       /\ UNCHANGED <<kind, imm, late, flag, timerVars>>

(* mutant: run_vcpu_until_match clears immediate_exit as the others do     *)
ClearsAlways(k) == TRUE
ClearsImm(k) == k # "match"

Clear == /\ pc = "clear"
         /\ imm' = IF ClearsImm(kind) THEN FALSE ELSE imm
         /\ Goto("enter")
         /\ UNCHANGED <<kind, late, flag, timerVars>>

(* ioctl(KVM_RUN) fails with EINTR at once if immediate_exit is set.       *)
Enter == /\ pc = "enter"
         /\ Goto(IF imm THEN "eintr" ELSE "guest")
         /\ UNCHANGED <<kind, imm, late, flag, timerVars>>

GuestExit(e) == /\ pc = "guest"
                /\ exits < MaxExits
                /\ pc' = "handle" /\ exit' = e /\ exits' = exits + 1
                /\ UNCHANGED <<kind, output, matched, reason, imm, late, flag, timerVars>>

(* VcpuFd::run on EINTR.                                                   *)
Interrupted == /\ pc = "eintr"
               /\ imm' = FALSE
               /\ pc' = "handle" /\ exit' = "Interrupted"
               /\ UNCHANGED <<kind, output, matched, reason, exits, late, flag, timerVars>>

(* A byte on the serial port may complete the marker.                      *)
Capture == /\ output' = output + 1
           /\ matched' \in (IF kind = "match" THEN BOOLEAN ELSE {FALSE})
           /\ pc' = "top"
           /\ UNCHANGED <<exit, reason, exits>>

Handle == /\ pc = "handle"
          /\ \/ /\ exit = "Interrupted"
                /\ \/ StopAsked /\ Return("Stopped")
                   \/ ~StopAsked /\ late /\ Return("Timeout")
                   \/ ~StopAsked /\ ~late /\ Goto("top")
             \/ exit = "Tx" /\ Capture
             \/ exit = "Other" /\ Goto("top")
             \/ exit \in {"Shutdown", "Error", "RunFailed"} /\ Return(exit)
          /\ UNCHANGED <<kind, imm, late, flag, timerVars>>
-----------------------------------------------------------------------------
(* Dropping the timers: set done under the lock, notify, join.             *)

SetDone(t, now, next) == /\ pc = now
                         /\ timer[t] # "firing"
                         /\ done' = [done EXCEPT ![t] = TRUE]
                         /\ Goto(next)
                         /\ UNCHANGED <<kind, imm, late, flag, timer>>

Notify(t) == timer' = IF timer[t] = "waiting" THEN [timer EXCEPT ![t] = "woken"]
                                              ELSE timer

NotifyOne(t, now, next) == /\ pc = now
                           /\ Notify(t)
                           /\ Goto(next)
                           /\ UNCHANGED <<kind, imm, late, flag, done>>

(* mutant: the handle is dropped without joining                           *)
JoinableAlways(t) == TRUE
Joinable(t) == timer[t] = "exited"

Join(t, now, next) == /\ pc = now
                      /\ Joinable(t)
                      /\ Goto(next)
                      /\ UNCHANGED <<kind, imm, late, flag, timerVars>>

Drop == \/ SetDone("poll", "set_poll", "notify_poll")
        \/ NotifyOne("poll", "notify_poll", "join_poll")
        \/ Join("poll", "join_poll", "set_watchdog")
        \/ SetDone("watchdog", "set_watchdog", "notify_watchdog")
        \/ NotifyOne("watchdog", "notify_watchdog", "join_watchdog")
        \/ Join("watchdog", "join_watchdog", "returned")
-----------------------------------------------------------------------------
(* The timer threads.  They go to wait without looking at done first.      *)

Moves(t, from, to) == timer[t] = from /\ timer' = [timer EXCEPT ![t] = to]

TimerWait(t) == /\ Moves(t, "locking", "waiting")
                /\ UNCHANGED <<kind, loopVars, imm, late, flag, done>>

(* The watchdog waits for the timeout, counted from after start.           *)
TimerExpires(t) == /\ t = "watchdog" => late
                   /\ Moves(t, "waiting", "woken")
                   /\ UNCHANGED <<kind, loopVars, imm, late, flag, done>>

TimerWakesEarly(t) == /\ kind \in Spurious
                      /\ Moves(t, "waiting", "woken")
                      /\ UNCHANGED <<kind, loopVars, imm, late, flag, done>>

TimerChecks(t) == /\ \/ done[t] /\ Moves(t, "woken", "exited") /\ imm' = imm
                     \/ ~done[t] /\ Moves(t, "woken", "firing") /\ imm' = TRUE
                  /\ UNCHANGED <<kind, loopVars, late, flag, done>>

(* mutant: the poll timer fires once                                       *)
AfterFiringOnce(t) == "exited"
AfterFiring(t) == IF t = "poll" THEN "locking" ELSE "exited"

(* SIGUSR1 ends a KVM_RUN in progress and has no other effect.             *)
TimerKills(t) == /\ Moves(t, "firing", AfterFiring(t))
                 /\ Goto(IF pc = "guest" THEN "eintr" ELSE pc)
                 /\ UNCHANGED <<kind, imm, late, flag, done>>
-----------------------------------------------------------------------------
(* Time passes; stop_sandbox and destroy_sandbox set the flag.             *)
TimeoutElapses == /\ ~late
                  /\ late' = TRUE
                  /\ UNCHANGED <<kind, loopVars, imm, flag, timerVars>>

StopRequested == /\ ~flag /\ kind = "interactive"
                 /\ flag' = TRUE
                 /\ UNCHANGED <<kind, loopVars, imm, late, timerVars>>

LoopStep == Top \/ Clear \/ Enter \/ Interrupted \/ Handle \/ Drop
TimerStep(t) == TimerWait(t) \/ TimerExpires(t) \/ TimerChecks(t) \/ TimerKills(t)

Next == \/ LoopStep
        \/ \E e \in GuestExits : GuestExit(e)
        \/ \E t \in Timers : TimerStep(t) \/ TimerWakesEarly(t)
        \/ TimeoutElapses \/ StopRequested

Spec == Init /\ [][Next]_vars

(* The threads are scheduled and the timers expire; nothing is asked of    *)
(* the guest, of time or of whoever may stop the sandbox.  Strong          *)
(* fairness is for the mutex alone: a timer that fires holds it for two    *)
(* instructions and then leaves it free for its whole interval.            *)
FairSpec == /\ Spec
            /\ WF_vars(LoopStep)
            /\ SF_vars(SetDone("poll", "set_poll", "notify_poll"))
            /\ \A t \in Timers : WF_vars(TimerStep(t))
-----------------------------------------------------------------------------
Live(t) == timer[t] \notin {"none", "exited"}
Fired(t) == timer[t] = "exited" /\ ~done[t]

(* Once the loop has returned, no thread is left that would write to       *)
(* kvm_run or signal the vCPU thread: both are joined, whatever they were  *)
(* doing when the loop stopped.                                            *)
NoKickAfterReturn == pc = "returned" => \A t \in Timers : ~Live(t)

(* run_vcpu_until_match has no poll timer: the one interrupt of the        *)
(* watchdog must not be lost.  Once the watchdog has fired, the vCPU is    *)
(* not in the guest: it is interrupted, or immediate_exit keeps it out.    *)
(* This is so only where wait_timeout does not return before its time.     *)
MatchNotBlocked == kind = "match" /\ kind \notin Spurious /\ Fired("watchdog")
                   => pc # "guest"

(* Every loop returns once its timeout has elapsed, though the guest       *)
(* idles in KVM_RUN and an interrupt that comes just before KVM_RUN is     *)
(* lost when the loop clears immediate_exit.  run_vcpu_until_match says so *)
(* of itself: "Uses a signal-based watchdog to enforce the timeout."       *)
TimeoutEnforced == late ~> pc = "returned"

(* A set shutdown flag makes the interactive loop stop, without help from  *)
(* the guest.                                                              *)
StopHeeded == flag ~> reason # "none"

(* The watchdog's comment: "On drop, signals the watchdog thread to exit   *)
(* immediately and joins it."  So the loop is not left to join a watchdog  *)
(* that waits for its timeout.                                             *)
DropEndsWatchdog == pc = "join_watchdog" => timer["watchdog"] # "waiting"
=============================================================================
