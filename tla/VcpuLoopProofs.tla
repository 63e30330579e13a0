--------------------------- MODULE VcpuLoopProofs ---------------------------
(***************************************************************************)
(* Proofs about VcpuLoop, for every loop, output limit and number of guest *)
(* exits.  Joined records how far the drops have come; Kept, that between  *)
(* the watchdog's write to immediate_exit and the loop's return nothing    *)
(* lets the vCPU of run_vcpu_until_match go back into the guest for good.  *)
(***************************************************************************)
EXTENDS VcpuLoop, TLAPS

PollDrops == {"set_poll", "notify_poll", "join_poll"}
WatchdogDrops == {"set_watchdog", "notify_watchdog", "join_watchdog"}
Over == pc \in Drops \cup {"returned"}

Joined == /\ timer["watchdog"] # "none"
          /\ kind = "match" <=> timer["poll"] = "none"
          /\ kind = "match" => pc \notin PollDrops
          /\ pc \in WatchdogDrops \cup {"returned"} => ~Live("poll")
          /\ pc = "returned" => ~Live("watchdog")
          /\ done["watchdog"] => Over
          /\ pc \in {"notify_watchdog", "join_watchdog", "returned"} => done["watchdog"]

Kept == imm \/ (pc = "handle" /\ exit = "Interrupted") \/ Over

OneShot == kind = "match" /\ kind \notin Spurious =>
             LET w == timer["watchdog"]
             IN  /\ w \in {"woken", "firing", "exited"} => late \/ done["watchdog"]
                 /\ w = "firing" => Kept
                 /\ Fired("watchdog") => Kept /\ pc # "guest"

(* Why the output stays within its limit: the head of the loop has tested  *)
(* it, and without a limit each byte costs an exit.                        *)
Room == /\ kind # "match" /\ pc \in {"clear", "enter", "guest", "eintr", "handle"}
           => output < MaxOutput
        /\ kind = "match" => output <= exits
        /\ kind = "match" /\ pc = "handle" /\ exit = "Tx" => output < exits

IInv == TypeOK /\ Room /\ Joined /\ OneShot
-----------------------------------------------------------------------------
(* A loop that starts has nothing pending and has done nothing.            *)
LEMMA InitInv == Init => IInv
<1> SUFFICES ASSUME Init PROVE IInv
  BY Zenon
<1> USE VcpuAssumption DEF Init
<1>1. TypeOK
  <2>1. timer \in [Timers -> TimerStates] /\ done \in [Timers -> BOOLEAN]
    BY Zenon DEF TimerStates
  <2>2. output \in 0..(IF kind = "match" THEN MaxExits ELSE MaxOutput) /\ exits \in 0..MaxExits
    OBVIOUS
  <2> QED BY Zenon, <2>1, <2>2 DEF TypeOK, PcStates, GuestExits, Reasons
<1>2. Joined
  BY Zenon DEF Joined, Live, Over, Timers, HasPoll, PollDrops, WatchdogDrops, Drops
<1>3. OneShot
  BY Zenon DEF OneShot, Fired, Timers
<1>4. Room
  BY DEF Room
<1> QED BY Zenon, <1>1, <1>2, <1>3, <1>4 DEF IInv

(* The steps of the loop up to its return keep the invariant.              *)
LEMMA LoopInv == IInv /\ (Top \/ Clear \/ Enter \/ Interrupted \/ Handle) => IInv'
<1> SUFFICES ASSUME IInv, Top \/ Clear \/ Enter \/ Interrupted \/ Handle PROVE IInv'
  BY Zenon
<1> USE DEF IInv
<1>1. ASSUME Top PROVE IInv'
  <2>1. TypeOK'
    BY Zenon, <1>1 DEF Top, Return, Goto, FirstDrop, TypeOK, PcStates, Drops, Reasons, timerVars
  <2>2. Joined'
    BY Zenon, <1>1 DEF Top, Return, Goto, FirstDrop, Joined, Live, Over, HasPoll, PollDrops,
                WatchdogDrops, Drops, timerVars
  <2>3. OneShot'
    BY Zenon, <1>1 DEF Top, Return, Goto, FirstDrop, OneShot, Fired, Kept, Over, HasPoll, Drops,
                timerVars
  <2>4. Room'
    BY <1>1, VcpuAssumption DEF Top, Return, Goto, FirstDrop, Enough, Drops, HasPoll, Room, TypeOK, timerVars
  <2> QED BY Zenon, <2>1, <2>2, <2>3, <2>4
<1>2. ASSUME Clear PROVE IInv'
  <2>1. TypeOK'
    BY Zenon, <1>2 DEF Clear, ClearsImm, Goto, TypeOK, PcStates, timerVars
  <2>2. Joined'
    BY Zenon, <1>2 DEF Clear, Goto, Joined, Live, Over, PollDrops, WatchdogDrops, Drops, timerVars
  <2>3. OneShot'
    BY Zenon, <1>2 DEF Clear, ClearsImm, Goto, OneShot, Fired, Kept, Over, Drops, timerVars
  <2>4. Room'
    BY Zenon, <1>2, VcpuAssumption DEF Clear, Goto, Room, TypeOK, timerVars
  <2> QED BY Zenon, <2>1, <2>2, <2>3, <2>4
<1>3. ASSUME Enter PROVE IInv'
  <2>1. TypeOK'
    BY Zenon, <1>3 DEF Enter, Goto, TypeOK, PcStates, timerVars
  <2>2. Joined'
    BY Zenon, <1>3 DEF Enter, Goto, Joined, Live, Over, PollDrops, WatchdogDrops, Drops, timerVars
  <2>3. OneShot'
    BY Zenon, <1>3 DEF Enter, Goto, OneShot, Fired, Kept, Over, Drops, timerVars
  <2>4. Room'
    BY Zenon, <1>3, VcpuAssumption DEF Enter, Goto, Room, TypeOK, timerVars
  <2> QED BY Zenon, <2>1, <2>2, <2>3, <2>4
<1>4. ASSUME Interrupted PROVE IInv'
  <2>1. TypeOK'
    BY Zenon, <1>4 DEF Interrupted, TypeOK, PcStates, timerVars
  <2>2. Joined'
    BY Zenon, <1>4 DEF Interrupted, Joined, Live, Over, PollDrops, WatchdogDrops, Drops, timerVars
  <2>3. OneShot'
    BY Zenon, <1>4 DEF Interrupted, OneShot, Fired, Kept, Over, Drops, timerVars
  <2>4. Room'
    BY Zenon, <1>4, VcpuAssumption DEF Interrupted, Room, TypeOK, timerVars
  <2> QED BY Zenon, <2>1, <2>2, <2>3, <2>4
<1>5. ASSUME Handle PROVE IInv'
  <2>1. TypeOK'
    <3>1. CASE exit = "Tx" /\ Capture
      <4>1. output' \in 0..(IF kind' = "match" THEN MaxExits ELSE MaxOutput)
        BY <1>5, <3>1, VcpuAssumption DEF Handle, Capture, Room, TypeOK
      <4>2. matched' \in BOOLEAN
        BY Zenon, <3>1 DEF Capture
      <4> QED BY Zenon, <1>5, <3>1, <4>1, <4>2 DEF Handle, Capture, TypeOK, PcStates, timerVars
    <3>2. CASE \E r \in Reasons : Return(r)
      BY Zenon, <1>5, <3>2 DEF Handle, Return, FirstDrop, TypeOK, PcStates, Drops, timerVars
    <3>3. CASE Goto("top")
      BY Zenon, <1>5, <3>3 DEF Handle, Goto, TypeOK, PcStates, timerVars
    <3> QED BY Zenon, <1>5, <3>1, <3>2, <3>3 DEF Handle, Reasons
  <2>2. Joined'
    BY Zenon, <1>5 DEF Handle, Return, Goto, Capture, FirstDrop, Joined, Live, Over, HasPoll,
                PollDrops, WatchdogDrops, Drops, timerVars
  <2>3. OneShot'
    BY Zenon, <1>5 DEF Handle, Return, Goto, Capture, FirstDrop, OneShot, Fired, Kept, Over,
                HasPoll, Drops, timerVars, Joined
  <2>4. Room'
    <3>1. CASE exit = "Tx" /\ Capture
      BY <1>5, <3>1, VcpuAssumption DEF Handle, Capture, Room, TypeOK
    <3>2. CASE \E r \in Reasons : Return(r)
      BY Zenon, <1>5, <3>2 DEF Handle, Return, FirstDrop, Room
    <3>3. CASE Goto("top")
      BY Zenon, <1>5, <3>3 DEF Handle, Goto, Room
    <3> QED BY Zenon, <1>5, <3>1, <3>2, <3>3 DEF Handle, Reasons
  <2> QED BY Zenon, <2>1, <2>2, <2>3, <2>4
<1> QED BY Zenon, <1>1, <1>2, <1>3, <1>4, <1>5

(* Dropping a timer keeps the invariant.                                   *)
LEMMA DropInv == IInv /\ Drop => IInv'
<1> SUFFICES ASSUME IInv, Drop PROVE IInv'
  BY Zenon
<1> USE DEF IInv
<1>1. Room'
  BY Zenon DEF Drop, SetDone, NotifyOne, Join, Goto, Room
<1>2. ASSUME NEW t \in Timers, NEW now \in PcStates, NEW next \in PcStates,
             SetDone(t, now, next)
      PROVE  TypeOK'
  BY Zenon, <1>2 DEF SetDone, Goto, TypeOK
<1>3. ASSUME NEW t \in Timers, NEW now \in PcStates, NEW next \in PcStates,
             NotifyOne(t, now, next)
      PROVE  TypeOK'
  BY Zenon, <1>3 DEF NotifyOne, Notify, Goto, TypeOK, TimerStates
<1>4. ASSUME NEW t \in Timers, NEW now \in PcStates, NEW next \in PcStates,
             Join(t, now, next)
      PROVE  TypeOK'
  BY Zenon, <1>4 DEF Join, Goto, TypeOK, timerVars
<1>5. TypeOK'
  BY Zenon, <1>2, <1>3, <1>4 DEF Drop, Timers, PcStates, Drops
<1>6. Joined'
  BY Zenon DEF Drop, SetDone, NotifyOne, Notify, Join, Joinable, Goto, TypeOK, Timers, Joined, Live,
         Over, PollDrops, WatchdogDrops, Drops, timerVars
<1>7. OneShot'
  BY Zenon DEF Drop, SetDone, NotifyOne, Notify, Join, Goto, TypeOK, Timers, Joined, PollDrops,
         OneShot, Fired, Kept, Over, Drops, timerVars
<1> QED BY Zenon, <1>1, <1>5, <1>6, <1>7

(* So does an exit of the guest's own.                                     *)
LEMMA GuestInv == IInv /\ (\E e \in GuestExits : GuestExit(e)) => IInv'
<1> SUFFICES ASSUME IInv, NEW e \in GuestExits, GuestExit(e) PROVE IInv'
  BY Zenon
<1> USE DEF IInv
<1>1. TypeOK'
  BY VcpuAssumption DEF GuestExit, TypeOK, PcStates, timerVars
<1>2. Room'
  BY VcpuAssumption DEF GuestExit, TypeOK, Room
<1>3. Joined'
  BY Zenon DEF GuestExit, Joined, Live, Over, PollDrops, WatchdogDrops, Drops, timerVars
<1>4. OneShot'
  BY Zenon DEF GuestExit, OneShot, Fired, Kept, Over, Drops, timerVars
<1> QED BY Zenon, <1>1, <1>2, <1>3, <1>4

(* And the steps of the timers: the watchdog of a loop that matches is     *)
(* woken by its timeout or by the drop.                                    *)
LEMMA TimerInv ==
  ASSUME IInv, NEW t \in Timers, TimerStep(t) \/ TimerWakesEarly(t)
  PROVE  IInv'
<1> USE DEF IInv
<1>1. timer[t] \in TimerStates /\ timer[t] \notin {"none", "exited"}
  BY Zenon DEF TimerStep, TimerWait, TimerExpires, TimerChecks, TimerKills, TimerWakesEarly, Moves,
         TypeOK
<1>2. kind' = kind /\ done' = done /\ late' = late /\ flag' = flag
  BY Zenon DEF TimerStep, TimerWait, TimerExpires, TimerChecks, TimerKills, TimerWakesEarly
<1>3. PICK to \in TimerStates \ {"none"} : timer' = [timer EXCEPT ![t] = to]
  BY Zenon DEF TimerStep, TimerWait, TimerExpires, TimerChecks, TimerKills, TimerWakesEarly, Moves,
         AfterFiring, TimerStates
<1>4. /\ pc' = pc \/ (pc = "guest" /\ pc' = "eintr")
      /\ UNCHANGED <<exit, output, matched, reason, exits>>
      /\ imm' \in {imm, TRUE}
  BY Zenon DEF TimerStep, TimerWait, TimerExpires, TimerChecks, TimerKills, TimerWakesEarly, Goto,
         loopVars
<1>5. TypeOK'
  BY Zenon, <1>2, <1>3, <1>4 DEF TypeOK, PcStates
<1>6. Room'
  BY Zenon, <1>2, <1>4 DEF Room
<1>7. Joined'
  BY Zenon, <1>1, <1>2, <1>3, <1>4 DEF Joined, Live, Over, TypeOK, Timers, PollDrops, WatchdogDrops,
                                Drops
<1>8. CASE t = "poll"
  <2>1. timer'["watchdog"] = timer["watchdog"]
    BY Zenon, <1>3, <1>8 DEF TypeOK, Timers
  <2>2. imm => imm'
    BY Zenon, <1>4 DEF TypeOK
  <2>3. Kept => Kept'
    BY Zenon, <1>4, <2>2 DEF Kept, Over, Drops
  <2>4. OneShot'
    BY Zenon, <1>2, <1>4, <2>1, <2>3 DEF OneShot, Fired
  <2> QED BY Zenon, <1>5, <1>6, <1>7, <2>4
<1>9. CASE t = "watchdog"
  <2>1. timer'["watchdog"] = to
    BY Zenon, <1>3, <1>9 DEF TypeOK, Timers
  <2>2. ASSUME TimerWait(t) PROVE OneShot'
    BY Zenon, <1>2, <1>9, <2>1, <2>2 DEF TimerWait, Moves, OneShot, Fired, TypeOK, Timers
  <2>3. ASSUME TimerExpires(t) PROVE OneShot'
    BY <1>2, <1>9, <2>1, <2>3 DEF TimerExpires, Moves, OneShot, Fired, TypeOK, Timers
  <2>4. ASSUME TimerWakesEarly(t) PROVE OneShot'
    BY Zenon, <1>2, <1>9, <2>1, <2>4 DEF TimerWakesEarly, Moves, OneShot, Fired, TypeOK, Timers
  <2>5. ASSUME TimerChecks(t) PROVE OneShot'
    BY <1>2, <1>9, <2>1, <2>5 DEF TimerChecks, Moves, OneShot, Fired, Kept, TypeOK, Timers
  <2>6. ASSUME TimerKills(t) PROVE OneShot'
    BY <1>2, <1>9, <2>1, <2>6 DEF TimerKills, Moves, AfterFiring, Goto, OneShot, Fired, Kept,
                                  Over, Drops, TypeOK, Timers
  <2> QED BY Zenon, <1>5, <1>6, <1>7, <2>2, <2>3, <2>4, <2>5, <2>6 DEF TimerStep
<1> QED BY Zenon, <1>8, <1>9 DEF Timers
-----------------------------------------------------------------------------
(* Every step of the loop, the guest and the devices keeps the invariant.  *)
LEMMA NextInv == IInv /\ [Next]_vars => IInv'
<1> SUFFICES ASSUME IInv, [Next]_vars PROVE IInv'
  BY Zenon
<1>1. CASE LoopStep
  BY Zenon, <1>1, LoopInv, DropInv DEF LoopStep
<1>2. CASE \E e \in GuestExits : GuestExit(e)
  BY Zenon, <1>2, GuestInv
<1>3. CASE \E t \in Timers : TimerStep(t) \/ TimerWakesEarly(t)
  BY Zenon, <1>3, TimerInv
<1>4. CASE TimeoutElapses \/ StopRequested \/ UNCHANGED vars
  <2>1. UNCHANGED <<kind, loopVars, imm, timerVars>> /\ (late => late') /\ late' \in BOOLEAN
        /\ flag' \in BOOLEAN
    BY Zenon, <1>4 DEF TimeoutElapses, StopRequested, vars, IInv, TypeOK
  <2>2. TypeOK'
    BY Zenon, <2>1 DEF IInv, TypeOK, loopVars, timerVars
  <2>3. Room' /\ Joined'
    BY Zenon, <2>1 DEF IInv, Room, Joined, Live, Over, loopVars, timerVars
  <2>4. OneShot'
    BY Zenon, <2>1 DEF IInv, OneShot, Fired, Kept, Over, loopVars, timerVars
  <2> QED BY Zenon, <2>2, <2>3, <2>4 DEF IInv
<1> QED BY Zenon, <1>1, <1>2, <1>3, <1>4 DEF Next

(* The invariant holds in every run of a loop.                             *)
THEOREM VcpuInvariant == Spec => []IInv
<1> QED BY InitInv, NextInv, PTL DEF Spec

(* The loops keep their types; in particular the output never exceeds      *)
(* max_output.                                                             *)
THEOREM VcpuTypes == Spec => []TypeOK
<1>1. IInv => TypeOK
  BY Zenon DEF IInv
<1> QED BY <1>1, VcpuInvariant, PTL

(* A loop that has returned has joined its timer threads: nothing writes   *)
(* to kvm_run or signals the thread any more.                              *)
THEOREM VcpuQuiet == Spec => []NoKickAfterReturn
<1>1. IInv => NoKickAfterReturn
  BY Zenon DEF IInv, Joined, NoKickAfterReturn, Timers, WatchdogDrops
<1> QED BY <1>1, VcpuInvariant, PTL

(* The single interrupt of run_vcpu_until_match's watchdog is not lost,    *)
(* however it falls between the steps of the loop.                         *)
THEOREM VcpuMatch == Spec => []MatchNotBlocked
<1>1. IInv => MatchNotBlocked
  BY Zenon DEF IInv, OneShot, MatchNotBlocked
<1> QED BY <1>1, VcpuInvariant, PTL
=============================================================================
