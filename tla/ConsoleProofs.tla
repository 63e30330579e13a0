--------------------------- MODULE ConsoleProofs ----------------------------
(***************************************************************************)
(* The proofs that a console stream loses, repeats and reorders nothing    *)
(* and that an exec call answers itself, for every number of streams and   *)
(* calls, every script of the guest and every input.                       *)
(*                                                                         *)
(* What a stream has sent is the console up to its cursor; the console     *)
(* only grows, so a drain adds the part between the cursor and the end.    *)
(* That an ended stream has everything rests on the order of the stop: the *)
(* state leaves Running only after the join, and a VM that was joined      *)
(* writes no more, so the drains after the state was seen miss nothing.    *)
(*                                                                         *)
(* Of a call that is alone the invariant (ExecInv) says how far the guest  *)
(* is with its command and what it has printed since the baseline, sent or *)
(* still in the transmit buffer: echoes, the begin marker, the output, the *)
(* end marker and the code, as far as it got.  Every step of the driver,   *)
(* the terminal and the shell moves along it; noise adds no word, and what *)
(* a caller or a user types makes the call one that is not alone.  The     *)
(* text is compared by its words; what Find and TrimMatches return of it   *)
(* is proved by induction over its tokens.                                 *)
(***************************************************************************)
EXTENDS Console, WellFoundedInduction, TLAPS

\* A sequence of its own elements.
IsSeq(s) == s \in Seq({s[i] : i \in 1 .. Len(s)})
\* A record with the fields of a stream.
IsStream(x) == x \in [pc : {x.pc}, cursor : {x.cursor}, still : {x.still}, got : {x.got}]

(* What a client has received is the console up to a position.             *)
Delivered(got, n) ==
  /\ IsSeq(got) /\ Len(got) = n /\ n \in Nat /\ n <= Len(console)
  /\ \A i \in 1 .. n : got[i] = console[i]

(* A stream that saw the sandbox stopped: it drains once or twice more.    *)
SawStop(x) == x.pc \in {"final", "ended"} \/ (x.pc = "drain" /\ ~x.still)

\* One stream_console task, between two of its steps.
StreamOK(x) ==
  /\ IsStream(x)
  /\ Delivered(x.got, Len(x.got))
  /\ x.pc # "ended" => x.cursor = Len(x.got)
  /\ SawStop(x) => state # "Running"
  /\ x.pc = "ended" /\ stop = "joined" => Len(x.got) = Len(console)

\* How far the stop of the sandbox is when its state says so.
StopOK ==
  /\ state # "Running" => stop \in {"joined", "timedout"}
  /\ stop = "joined" => vm = "ended"

\* The inductive invariant.
IInv ==
  /\ IsSeq(console)
  /\ stream = [s \in Streams |-> stream[s]] /\ \A s \in Streams : StreamOK(stream[s])
  /\ StopOK

-----------------------------------------------------------------------------
(* Sequences.                                                              *)

(* A sequence is one over any set that has its elements.                   *)
LEMMA SeqOver ==
  ASSUME NEW S, NEW s \in Seq(S) PROVE IsSeq(s) /\ Len(s) \in Nat
<1>1. Len(s) \in Nat /\ s = [i \in 1 .. Len(s) |-> s[i]]
  OBVIOUS
<1>. QED BY <1>1 DEF IsSeq

(* What is appended leaves what was there, as console_output is written.   *)
LEMMA ConcatIsSeq ==
  ASSUME NEW s, NEW r, IsSeq(s), IsSeq(r)
  PROVE  /\ IsSeq(s \o r) /\ Len(s \o r) = Len(s) + Len(r)
         /\ Len(s) \in Nat /\ Len(r) \in Nat
         /\ \A i \in 1 .. Len(s) : (s \o r)[i] = s[i]
         /\ \A i \in Len(s) + 1 .. Len(s) + Len(r) : (s \o r)[i] = r[i - Len(s)]
<1>. DEFINE S == {s[i] : i \in 1 .. Len(s)} \cup {r[i] : i \in 1 .. Len(r)}
<1>1. s \in Seq(S) /\ r \in Seq(S)
  BY DEF IsSeq
<1>. HIDE DEF S
<1>2. s \o r \in Seq(S) /\ Len(s \o r) = Len(s) + Len(r) /\ Len(s) \in Nat /\ Len(r) \in Nat
  BY <1>1
<1>3. \A i \in 1 .. Len(s) : (s \o r)[i] = s[i]
  BY <1>1, <1>2
<1>4. \A i \in Len(s) + 1 .. Len(s) + Len(r) : (s \o r)[i] = r[i - Len(s)]
  BY <1>1, <1>2
<1>5. IsSeq(s \o r)
  BY <1>2, SeqOver, Zenon
<1>. QED BY <1>2, <1>3, <1>4, <1>5, Zenon

(* What stream_console copies: the buffer from the cursor on.              *)
LEMMA RestIsSeq ==
  ASSUME NEW s, IsSeq(s), NEW m \in Nat, m <= Len(s)
  PROVE  /\ IsSeq(SubSeq(s, m + 1, Len(s))) /\ Len(SubSeq(s, m + 1, Len(s))) = Len(s) - m
         /\ Len(s) \in Nat
         /\ \A i \in 1 .. Len(s) - m : SubSeq(s, m + 1, Len(s))[i] = s[m + i]
<1>. DEFINE S == {s[i] : i \in 1 .. Len(s)}
<1>1. s \in Seq(S)
  BY DEF IsSeq
<1>. HIDE DEF S
<1>2. Len(s) \in Nat /\ SubSeq(s, m + 1, Len(s)) \in Seq(S)
      /\ Len(SubSeq(s, m + 1, Len(s))) = Len(s) - m
  BY <1>1
<1>3. \A i \in 1 .. Len(s) - m : SubSeq(s, m + 1, Len(s))[i] = s[m + i]
  BY <1>1, <1>2
<1>4. IsSeq(SubSeq(s, m + 1, Len(s)))
  BY <1>2, SeqOver, Zenon
<1>. QED BY <1>2, <1>3, <1>4, Zenon

(* Sequences with the same elements.                                       *)
LEMMA SameElements ==
  ASSUME NEW s, NEW t, IsSeq(s), IsSeq(t), Len(s) = Len(t), \A i \in 1 .. Len(s) : s[i] = t[i]
  PROVE  s = t
<1>1. s = [i \in 1 .. Len(s) |-> s[i]] /\ t = [i \in 1 .. Len(t) |-> t[i]]
  BY DEF IsSeq
<1>. QED BY <1>1

(* Sequences that agree as far as the first one goes.                      *)
LEMMA SameBeginning ==
  ASSUME NEW s, NEW t, IsSeq(s), IsSeq(t), Len(s) <= Len(t), \A i \in 1 .. Len(s) : s[i] = t[i]
  PROVE  SubSeq(s, 1, Len(s)) = SubSeq(t, 1, Len(s))
<1>. DEFINE S == {s[i] : i \in 1 .. Len(s)} \cup {t[i] : i \in 1 .. Len(t)}
            n == Len(s)
<1>1. s \in Seq(S) /\ t \in Seq(S) /\ n \in Nat /\ n <= Len(t)
  BY DEF IsSeq
<1>. HIDE DEF S
<1>2. SubSeq(s, 1, n) \in Seq(S) /\ Len(SubSeq(s, 1, n)) = n
      /\ \A i \in 1 .. n : SubSeq(s, 1, n)[i] = s[i]
  BY <1>1
<1>3. SubSeq(t, 1, n) \in Seq(S) /\ Len(SubSeq(t, 1, n)) = n
      /\ \A i \in 1 .. n : SubSeq(t, 1, n)[i] = t[i]
  BY <1>1
<1>4. \A i \in 1 .. n : SubSeq(s, 1, n)[i] = SubSeq(t, 1, n)[i]
  BY <1>2, <1>3
<1>. HIDE DEF n
<1>5. \A u, v \in Seq(S) : Len(u) = n /\ Len(v) = n /\ (\A i \in 1 .. n : u[i] = v[i]) => u = v
  BY <1>1
<1>6. SubSeq(s, 1, n) = SubSeq(t, 1, n)
  BY <1>2, <1>3, <1>4, <1>5, Zenon
<1>. QED BY <1>6 DEF n

(* The empty buffer, and one byte.                                         *)
LEMMA ShortIsSeq == IsSeq(<<>>) /\ Len(<<>>) = 0 /\ \A e : IsSeq(<<e>>) /\ Len(<<e>>) = 1
<1>1. \A e : <<e>> \in Seq({e}) /\ Len(<<e>>) = 1
  OBVIOUS
<1>2. <<>> \in Seq({}) /\ Len(<<>>) = 0
  OBVIOUS
<1>. QED BY <1>1, <1>2, SeqOver, Zenon

-----------------------------------------------------------------------------
(* The console grows until the VM's thread has ended.                      *)

(* A step of the thread: it may append to console_output.                  *)
Appends == /\ vm # "ended" /\ (vm = "returned" \/ vm' # "ended")
           /\ UNCHANGED <<shared, stream>>
           /\ \E sent : IsSeq(sent) /\ console' = console \o sent

(* What the streams have is still the beginning of the console.            *)
LEMMA AppendsSafe == ASSUME IInv, Appends PROVE IInv'
<1>1. PICK sent : IsSeq(sent) /\ console' = console \o sent
  BY DEF Appends
<1>2. stream' = stream /\ state' = state /\ stop' = stop /\ vm # "ended"
  BY DEF Appends, shared
<1>3. IsSeq(console) /\ stop # "joined" /\ StopOK
      /\ stream = [s \in Streams |-> stream[s]] /\ \A s \in Streams : StreamOK(stream[s])
  BY <1>2, Zenon DEF IInv, StopOK
<1>4. IsSeq(console)' /\ Len(console) \in Nat /\ Len(console') \in Nat /\ Len(console) <= Len(console')
      /\ \A i \in 1 .. Len(console) : console'[i] = console[i]
  <2>1. IsSeq(console') /\ Len(console') = Len(console) + Len(sent) /\ Len(console) \in Nat
        /\ Len(sent) \in Nat /\ \A i \in 1 .. Len(console) : console'[i] = console[i]
    BY <1>1, <1>3, ConcatIsSeq, Zenon
  <2>2. IsSeq(console)'
    BY <2>1, Zenon DEF IsSeq
  <2>. QED BY <2>1, <2>2
<1>5. ASSUME NEW s \in Streams PROVE StreamOK(stream[s])'
  <2>. DEFINE x == stream[s]
  <2>1. StreamOK(x) /\ x' = x
    BY <1>2, <1>3
  <2>2. Delivered(x.got, Len(x.got))
    BY <2>1, Zenon DEF StreamOK
  <2>3. Delivered(x.got, Len(x.got))'
    <3>1. Len(x.got) \in Nat /\ Len(x.got) <= Len(console) /\ \A i \in 1 .. Len(x.got) : x.got[i] = console[i]
      BY <2>2, Zenon DEF Delivered
    <3>2. Len(x.got) <= Len(console') /\ \A i \in 1 .. Len(x.got) : x.got[i] = console'[i]
      BY <3>1, <1>4
    <3>. QED BY <2>1, <2>2, <3>1, <3>2, Zenon DEF Delivered, IsSeq
  <2>. QED BY <2>1, <2>3, <1>2, <1>3, Zenon DEF StreamOK, SawStop
<1>6. StopOK'
  BY <1>2, <1>3, Zenon DEF StopOK
<1>. QED BY <1>2, <1>3, <1>4, <1>5, <1>6, Zenon DEF IInv

(* A step of a caller, or of the guest between two exits.                  *)
LEMMA ElsewhereSafe ==
  ASSUME IInv, UNCHANGED <<shared, console, vm, stream>>
  PROVE  IInv'
<1>1. stream' = stream /\ state' = state /\ stop' = stop /\ vm' = vm /\ console' = console
  BY DEF shared
<1>2. \A s \in Streams : StreamOK(stream[s])'
  BY <1>1, Zenon DEF IInv, StreamOK, Delivered, SawStop
<1>. QED BY <1>1, <1>2, Zenon DEF IInv, StopOK

(* An exit that the loop handles, and the head of its next iteration.      *)
LEMMA ExitAppends ==
  ASSUME vm = "running", NEW sent, IsSeq(sent), console' = console \o sent,
         vm' \in {vm, "returned"}, UNCHANGED <<shared, stream>>
  PROVE  Appends
<1>1. vm # "ended" /\ vm' # "ended"
  OBVIOUS
<1>. QED BY <1>1, Zenon DEF Appends

-----------------------------------------------------------------------------
(* Streams.                                                                *)

(* A stream's record is replaced.                                          *)
LEMMA StreamMoves ==
  ASSUME IInv, NEW s \in Streams, stream' = [stream EXCEPT ![s] = stream'[s]],
         UNCHANGED <<shared, console, vm>>, StreamOK(stream[s])'
  PROVE  IInv'
<1>1. state' = state /\ stop' = stop /\ vm' = vm /\ console' = console
  BY DEF shared
<1>2. stream = [u \in Streams |-> stream[u]]
  BY DEF IInv
<1>3. stream' = [u \in Streams |-> stream'[u]] /\ \A u \in Streams \ {s} : stream'[u] = stream[u]
  BY <1>2
<1>4. ASSUME NEW u \in Streams \ {s} PROVE StreamOK(stream[u])'
  <2>1. stream'[u] = stream[u] /\ StreamOK(stream[u])
    BY <1>3, Zenon DEF IInv
  <2>. QED BY <2>1, <1>1, Zenon DEF StreamOK, Delivered, SawStop
<1>5. \A u \in Streams : StreamOK(stream[u])'
  BY <1>4, Zenon
<1>. QED BY <1>1, <1>3, <1>5, Zenon DEF IInv, StopOK

(* What SetStream leaves of a stream.                                      *)
LEMMA SetStreamMoves ==
  ASSUME IInv, NEW s \in Streams, NEW r, SetStream(s, r)
  PROVE  /\ stream' = [stream EXCEPT ![s] = stream'[s]] /\ stream'[s] = r
         /\ UNCHANGED <<shared, console, vm>>
<1>1. stream = [u \in Streams |-> stream[u]]
  BY DEF IInv
<1>. QED BY <1>1 DEF SetStream

(* The client's copy grows to the whole console.                           *)
LEMMA Copied ==
  ASSUME IInv, NEW s \in Streams, stream[s].pc # "ended"
  PROVE  Delivered(stream[s].got \o NewData(s), Len(console))
<1>. DEFINE x == stream[s]
            n == x.cursor
            new == SubSeq(console, n + 1, Len(console))
<1>1. /\ IsSeq(console) /\ IsSeq(x.got) /\ Len(x.got) = n /\ n \in Nat /\ n <= Len(console)
      /\ \A i \in 1 .. n : x.got[i] = console[i]
  BY Zenon DEF IInv, StreamOK, Delivered
<1>. DEFINE got == x.got
<1>2. NewData(s) = new
  BY DEF NewData
<1>. HIDE DEF x, n, got
<1>3. /\ IsSeq(new) /\ Len(new) = Len(console) - n /\ Len(console) \in Nat
      /\ \A i \in 1 .. Len(console) - n : new[i] = console[n + i]
  BY <1>1, RestIsSeq, Zenon
<1>. HIDE DEF new
<1>4. /\ IsSeq(x.got \o new) /\ Len(x.got \o new) = n + Len(new)
      /\ \A i \in 1 .. n : (x.got \o new)[i] = x.got[i]
      /\ \A i \in n + 1 .. n + Len(new) : (x.got \o new)[i] = new[i - n]
  <2>1. IsSeq(x.got) /\ IsSeq(new)
    BY <1>1, <1>3
  <2>2. /\ IsSeq(x.got \o new) /\ Len(x.got \o new) = Len(x.got) + Len(new)
        /\ \A i \in 1 .. Len(x.got) : (x.got \o new)[i] = x.got[i]
        /\ \A i \in Len(x.got) + 1 .. Len(x.got) + Len(new) : (x.got \o new)[i] = new[i - Len(x.got)]
    BY <2>1, ConcatIsSeq, ZenonT(30)
  <2>. QED BY <2>2, <1>1
<1>5. n + Len(new) = Len(console)
  BY <1>1, <1>3
<1>6. ASSUME NEW i \in 1 .. Len(console) PROVE (x.got \o new)[i] = console[i]
  <2>1. CASE i <= n
    <3>1. i \in 1 .. n
      BY <2>1, <1>1, <1>3
    <3>. QED BY <3>1, <1>1, <1>4, Zenon
  <2>2. CASE i > n
    <3>1. i \in n + 1 .. n + Len(new) /\ i - n \in 1 .. Len(console) - n /\ n + (i - n) = i
      BY <2>2, <1>1, <1>3, <1>5
    <3>2. (x.got \o new)[i] = new[i - n] /\ new[i - n] = console[n + (i - n)]
      BY <3>1, <1>3, <1>4, Zenon
    <3>. QED BY <3>1, <3>2
  <2>. QED BY <2>1, <2>2, <1>1, <1>3
<1>7. Delivered(x.got \o new, Len(console))
  <2>1. Len(console) <= Len(console)
    BY <1>3
  <2>. QED BY <2>1, <1>3, <1>4, <1>5, <1>6, Zenon DEF Delivered
<1>. QED BY <1>2, <1>7, Zenon DEF x

(* stream_console opens: nothing has been delivered.                       *)
LEMMA OpenSafe == ASSUME IInv, NEW s \in Streams, StreamOpen(s) PROVE IInv'
<1>. DEFINE p == IF state = "Running" /\ handle THEN "check" ELSE "refused"
<1>1. stream[s].pc = "idle" /\ SetStream(s, [stream[s] EXCEPT !.pc = p])
  BY Zenon DEF StreamOpen
<1>2. p \in {"check", "refused"}
  OBVIOUS
<1>3. StreamOK(stream[s])
  BY Zenon DEF IInv
<1>. HIDE DEF p
<1>4. /\ stream' = [stream EXCEPT ![s] = stream'[s]] /\ stream'[s] = [stream[s] EXCEPT !.pc = p]
      /\ UNCHANGED <<shared, console, vm>>
  BY <1>1, SetStreamMoves, Zenon
<1>5. IsStream(stream'[s]) /\ stream'[s].pc = p /\ stream'[s].cursor = stream[s].cursor
      /\ stream'[s].got = stream[s].got
  BY <1>3, <1>4 DEF StreamOK, IsStream
<1>6. stream'[s].pc \notin {"final", "ended"} /\ stream'[s].pc # "ended" /\ stream'[s].pc # "drain"
      /\ stream[s].pc # "ended"
  BY <1>1, <1>2, <1>5
<1>7. console' = console /\ state' = state /\ stop' = stop
  BY <1>4 DEF shared
<1>8. StreamOK(stream[s])'
  BY <1>3, <1>5, <1>6, <1>7, Zenon DEF StreamOK, SawStop, Delivered
<1>. QED BY <1>4, <1>8, StreamMoves, Zenon

(* It asks the orchestrator whether the sandbox runs.                      *)
LEMMA CheckSafe == ASSUME IInv, NEW s \in Streams, StreamCheck(s) PROVE IInv'
<1>. DEFINE b == state = "Running"
<1>1. stream[s].pc = "check" /\ SetStream(s, [stream[s] EXCEPT !.pc = "drain", !.still = b])
  BY Zenon DEF StreamCheck
<1>2. b => state = "Running"
  OBVIOUS
<1>3. StreamOK(stream[s]) /\ (~b => state # "Running")
  BY Zenon DEF IInv
<1>. HIDE DEF b
<1>4. /\ stream' = [stream EXCEPT ![s] = stream'[s]]
      /\ stream'[s] = [stream[s] EXCEPT !.pc = "drain", !.still = b]
      /\ UNCHANGED <<shared, console, vm>>
  BY <1>1, SetStreamMoves, Zenon
<1>5. IsStream(stream'[s]) /\ stream'[s].pc = "drain" /\ stream'[s].cursor = stream[s].cursor
      /\ stream'[s].got = stream[s].got /\ stream'[s].still = b
  BY <1>3, <1>4, Zenon DEF StreamOK, IsStream
<1>6. stream'[s].pc \notin {"final", "ended"} /\ stream'[s].pc # "ended" /\ stream[s].pc # "ended"
  BY <1>1, <1>5
<1>7. console' = console /\ state' = state /\ stop' = stop
  BY <1>4 DEF shared
<1>8. StreamOK(stream[s])'
  BY <1>3, <1>5, <1>6, <1>7, Zenon DEF StreamOK, SawStop, Delivered
<1>. QED BY <1>4, <1>8, StreamMoves, Zenon

(* It sends what is new.                                                   *)
LEMMA DrainSafe == ASSUME IInv, NEW s \in Streams, StreamDrain(s) PROVE IInv'
<1>. DEFINE p == IF stream[s].still THEN "check" ELSE "final"
            all == stream[s].got \o NewData(s)
            n == Len(console)
<1>1. stream[s].pc = "drain"
      /\ SetStream(s, [stream[s] EXCEPT !.got = all, !.cursor = n, !.pc = p])
  BY Zenon DEF StreamDrain
<1>2. p \in {"check", "final"} /\ (p = "final" => ~stream[s].still)
  OBVIOUS
<1>3. StreamOK(stream[s]) /\ stream[s].pc # "ended"
  BY <1>1 DEF IInv
<1>4. Delivered(all, n)
  BY <1>3, Copied, Zenon
<1>5. n = Len(console)
  OBVIOUS
<1>. HIDE DEF p, all, n
<1>6. /\ stream' = [stream EXCEPT ![s] = stream'[s]]
      /\ stream'[s] = [stream[s] EXCEPT !.got = all, !.cursor = n, !.pc = p]
      /\ UNCHANGED <<shared, console, vm>>
  BY <1>1, SetStreamMoves, Zenon
<1>7. IsStream(stream'[s]) /\ stream'[s].pc = p /\ stream'[s].cursor = n /\ stream'[s].got = all
  BY <1>3, <1>6, Zenon DEF StreamOK, IsStream
<1>8. stream'[s].pc # "ended" /\ stream'[s].pc # "drain" /\ Len(all) = n
  BY <1>2, <1>4, <1>7 DEF Delivered
<1>9. SawStop(stream'[s]) => state # "Running"
  BY <1>1, <1>2, <1>3, <1>7 DEF StreamOK, SawStop
<1>10. console' = console /\ state' = state /\ stop' = stop
  BY <1>6 DEF shared
<1>11. StreamOK(stream[s])'
  BY <1>4, <1>7, <1>8, <1>9, <1>10, Zenon DEF StreamOK, SawStop, Delivered
<1>. QED BY <1>6, <1>11, StreamMoves, Zenon

(* The last drain: the client has the whole console.                       *)
LEMMA FinalSafe == ASSUME IInv, NEW s \in Streams, StreamFinal(s) PROVE IInv'
<1>. DEFINE all == stream[s].got \o NewData(s)
            n == Len(console)
<1>1. stream[s].pc = "final" /\ SetStream(s, [stream[s] EXCEPT !.got = all, !.pc = "ended"])
  BY Zenon DEF StreamFinal
<1>2. StreamOK(stream[s]) /\ stream[s].pc # "ended"
  BY <1>1 DEF IInv
<1>3. Delivered(all, n)
  BY <1>2, Copied, Zenon
<1>4. n = Len(console)
  OBVIOUS
<1>. HIDE DEF all, n
<1>5. /\ stream' = [stream EXCEPT ![s] = stream'[s]]
      /\ stream'[s] = [stream[s] EXCEPT !.got = all, !.pc = "ended"]
      /\ UNCHANGED <<shared, console, vm>>
  BY <1>1, SetStreamMoves, Zenon
<1>6. IsStream(stream'[s]) /\ stream'[s].pc = "ended" /\ stream'[s].got = all
  BY <1>2, <1>5, Zenon DEF StreamOK, IsStream
<1>7. state # "Running" /\ Len(all) = n
  BY <1>1, <1>2, <1>3 DEF StreamOK, SawStop, Delivered
<1>8. console' = console /\ state' = state /\ stop' = stop
  BY <1>5 DEF shared
<1>9. StreamOK(stream[s])'
  BY <1>3, <1>4, <1>6, <1>7, <1>8, Zenon DEF StreamOK, SawStop, Delivered
<1>. QED BY <1>5, <1>9, StreamMoves, Zenon

-----------------------------------------------------------------------------
(* stop_sandbox.                                                           *)

(* A step of the stop: a stream that has ended saw it done.                *)
LEMMA StopSafe == ASSUME IInv, StopStep PROVE IInv'
<1>1. console' = console /\ stream' = stream /\ vm' = vm
  BY Zenon DEF StopStep, StopTake, StopJoined, StopTimesOut, StopOrch, SetStop
<1>2. StopOK /\ \A s \in Streams : StreamOK(stream[s])
  BY DEF IInv
<1>3. /\ StopOK' /\ (state # "Running" => state' # "Running")
      /\ stop' = "joined" => stop = "joined" \/ state = "Running"
  <2>1. CASE StopTake
    BY <2>1, <1>1, <1>2 DEF StopTake, SetStop, StopOK
  <2>2. CASE StopJoined
    BY <2>2, <1>1, <1>2 DEF StopJoined, SetStop, StopOK
  <2>3. CASE StopTimesOut
    BY <2>3, <1>1, <1>2 DEF StopTimesOut, SetStop, StopOK
  <2>4. CASE StopOrch
    BY <2>4, <1>1, <1>2 DEF StopOrch, SetStop, StopOK
  <2>. QED BY <2>1, <2>2, <2>3, <2>4, Zenon DEF StopStep
<1>4. ASSUME NEW s \in Streams PROVE StreamOK(stream[s])'
  <2>1. StreamOK(stream[s])
    BY <1>2
  <2>2. stream[s].pc = "ended" => state # "Running"
    BY <2>1 DEF StreamOK, SawStop
  <2>. QED BY <2>1, <2>2, <1>1, <1>3, Zenon DEF StreamOK, SawStop, Delivered
<1>. QED BY <1>1, <1>3, <1>4, Zenon DEF IInv

-----------------------------------------------------------------------------
(* The theorem.                                                            *)

(* The steps of the VM's thread append.                                    *)
LEMMA ThreadAppends ==
  ASSUME IInv, Startup \/ StartTx \/ IsrIir \/ IsrRx \/ IsrTx \/ StopTx \/ Kick
  PROVE  Appends
<1>1. /\ vm = "running" /\ UNCHANGED <<shared, stream>> /\ vm' \in {vm, "returned"}
      /\ console' = console \o <<>> \/ \E e : console' = console \o <<e>>
  <2>1. CASE Startup
    BY <2>1, Zenon DEF Startup, IoOut, LoopHead
  <2>2. CASE StartTx
    BY <2>2, Zenon DEF StartTx, Up, IoOut, LoopHead
  <2>3. CASE IsrIir
    BY <2>3, Zenon DEF IsrIir, Up, IoIn, LoopHead
  <2>4. CASE IsrRx
    BY <2>4, Zenon DEF IsrRx, Up, IoIn, LoopHead
  <2>5. CASE IsrTx
    BY <2>5, Zenon DEF IsrTx, Up, IoIn, IoOut, LoopHead
  <2>6. CASE StopTx
    BY <2>6, Zenon DEF StopTx, Up, IoOut, LoopHead
  <2>7. CASE Kick
    BY <2>7, Zenon DEF Kick, LoopHead
  <2>. QED BY <2>1, <2>2, <2>3, <2>4, <2>5, <2>6, <2>7, Zenon
<1>. QED BY <1>1, ShortIsSeq, ExitAppends, Zenon

(* The thread ends: a pooled VM's output is appended once more.            *)
LEMMA EndAppends == ASSUME IInv, VmEnds PROVE Appends
<1>1. vm = "returned" /\ UNCHANGED <<shared, stream>> /\ IsSeq(console)
      /\ (console' = console \/ console' = console \o console)
  BY Zenon DEF VmEnds, IInv
<1>2. console \o <<>> = console
  BY <1>1 DEF IsSeq
<1>3. vm # "ended"
  BY <1>1
<1>4. \E sent : IsSeq(sent) /\ console' = console \o sent
  BY <1>1, <1>2, ShortIsSeq, Zenon
<1>. QED BY <1>1, <1>3, <1>4, Zenon DEF Appends

(* So does a message of the kernel.                                        *)
LEMMA PrintkAppends == ASSUME IInv, Printk PROVE Appends
<1>1. vm = "running" /\ UNCHANGED <<shared, stream>> /\ IsSeq(console) /\ vm' = vm
      /\ console' = Append(console, "noise")
  BY Zenon DEF Printk, Up, IInv
<1>2. Append(console, "noise") = console \o <<"noise">>
  <2>. DEFINE S == {console[i] : i \in 1 .. Len(console)} \cup {"noise"}
  <2>1. console \in Seq(S) /\ "noise" \in S
    BY <1>1 DEF IsSeq
  <2>. HIDE DEF S
  <2>. QED BY <2>1
<1>. QED BY <1>1, <1>2, ShortIsSeq, ExitAppends, Zenon

(* What neither prints nor streams nor stops.                              *)
LEMMA Elsewhere ==
  ASSUME Interrupt \/ ShellRead \/ ShellEval \/ ShellEnd \/ Noise \/ Typed
         \/ (\E c \in Callers : CallStep(c)) \/ UNCHANGED vars
  PROVE  UNCHANGED <<shared, console, vm, stream>>
<1>1. CASE Interrupt \/ ShellRead \/ ShellEval \/ ShellEnd \/ Noise \/ Typed
  BY <1>1, Zenon DEF Interrupt, ShellRead, ShellEval, ShellEnd, Noise, Typed, Shell
<1>2. ASSUME NEW c \in Callers, CallStep(c) PROVE UNCHANGED <<shared, console, vm, stream>>
  BY <1>2, Zenon DEF CallStep, CheckRunning, Lookup, Send, Poll, Deadline, SetCall
<1>3. CASE UNCHANGED vars
  BY <1>3, Zenon DEF vars
<1>. QED BY <1>1, <1>2, <1>3, Zenon

(* Every step keeps the invariant.                                         *)
LEMMA NextSafe == ASSUME IInv, [Next]_vars PROVE IInv'
<1>1. ASSUME NEW s \in Streams, StreamStep(s) PROVE IInv'
  BY <1>1, OpenSafe, CheckSafe, DrainSafe, FinalSafe, Zenon DEF StreamStep
<1>2. CASE GuestStep \/ Kick \/ VmEnds \/ Printk
  BY <1>2, ThreadAppends, EndAppends, PrintkAppends, AppendsSafe, Elsewhere, ElsewhereSafe, Zenon
     DEF GuestStep
<1>3. CASE Noise \/ Typed \/ (\E c \in Callers : CallStep(c)) \/ UNCHANGED vars
  BY <1>3, Elsewhere, ElsewhereSafe, Zenon
<1>. QED BY <1>1, <1>2, <1>3, StopSafe, Zenon DEF Next

(* A sandbox starts with an empty console and no stream.                   *)
LEMMA InitSafe == ASSUME Init PROVE IInv
<1>1. /\ state = "Running" /\ stop = "idle" /\ console = <<>> /\ vm = "running"
      /\ stream = [s \in Streams |-> NewStream]
  BY Zenon DEF Init
<1>2. IsStream(NewStream) /\ NewStream.pc = "idle" /\ NewStream.cursor = 0 /\ NewStream.got = <<>>
  BY DEF NewStream, IsStream
<1>3. Delivered(<<>>, 0) /\ Len(<<>>) = 0
  <2>1. 0 \in Nat /\ 0 <= 0 /\ 1 .. 0 = {}
    OBVIOUS
  <2>. QED BY <2>1, <1>1, ShortIsSeq, Zenon DEF Delivered
<1>4. StreamOK(NewStream)
  <2>1. NewStream.pc # "ended" /\ ~SawStop(NewStream)
    BY <1>2 DEF SawStop
  <2>. QED BY <2>1, <1>2, <1>3, Zenon DEF StreamOK
<1>5. stream = [s \in Streams |-> stream[s]] /\ \A s \in Streams : stream[s] = NewStream
  BY <1>1
<1>6. StopOK
  BY <1>1 DEF StopOK
<1>. QED BY <1>1, <1>4, <1>5, <1>6, ShortIsSeq, Zenon DEF IInv

(* For every guest, every caller and every number of streams: what a       *)
(* stream has delivered is the beginning of console_output, and all of it  *)
(* once it has ended after a stop that joined the VM's thread.  A stream   *)
(* ends only after it saw the sandbox stopped, which stop_sandbox says     *)
(* after the join; the thread that has ended appends nothing more.         *)
THEOREM ConsoleStreams == Spec => []StreamWhole
<1>1. IInv => StreamWhole
  <2>1. SUFFICES ASSUME IInv, NEW s \in Streams
                 PROVE  /\ Len(stream[s].got) <= Len(console)
                        /\ stream[s].got = SubSeq(console, 1, Len(stream[s].got))
                        /\ stream[s].pc = "ended" /\ stop = "joined" => stream[s].got = console
    BY Zenon DEF StreamWhole
  <2>. DEFINE got == stream[s].got
  <2>2. /\ IsSeq(got) /\ IsSeq(console) /\ Len(got) \in Nat /\ Len(got) <= Len(console)
        /\ \A i \in 1 .. Len(got) : got[i] = console[i]
        /\ stream[s].pc = "ended" /\ stop = "joined" => Len(got) = Len(console)
    BY <2>1, Zenon DEF IInv, StreamOK, Delivered
  <2>. HIDE DEF got
  <2>3. Len(got) = Len(console) => got = console
    BY <2>2, SameElements, Zenon
  <2>4. SubSeq(got, 1, Len(got)) = SubSeq(console, 1, Len(got))
    BY <2>2, SameBeginning, Zenon
  <2>5. SubSeq(got, 1, Len(got)) = got
    BY <2>2 DEF IsSeq
  <2>. QED BY <2>2, <2>3, <2>4, <2>5, Zenon DEF got
<1>2. IInv /\ [Next]_vars => IInv'
  BY NextSafe, Zenon
<1>. QED BY <1>1, <1>2, InitSafe, PTL DEF Spec

-----------------------------------------------------------------------------
(* Exec calls.                                                             *)

\* Records with the fields of a call, of the guest and of the port.
IsCall(x) ==
  x \in [pc : {x.pc}, step : {1, 2}, base : {x.base}, seen : {x.seen}, alone : BOOLEAN,
         out : {x.out}, code : {x.code}, result : {x.result}]
IsGuest(g) ==
  g \in [boot : {g.boot}, isr : {g.isr}, irq : {g.irq}, ier : {g.ier}, xmit : {g.xmit},
         line : {g.line}, lines : {g.lines}, shell : {g.shell}, cmd : {g.cmd}]
IsSerial(u) ==
  u \in [ier : {u.ier}, dlab : {u.dlab}, thre_pending : {u.thre_pending}, queue : {u.queue}]

Echoes == Seq({"echo"})

\* The line of command cmd is between console_input and the shell; q is what
\* the terminal has not read of it.
Coming(cmd, g, q) ==
  \/ g.line = <<>> /\ g.lines = <<>> /\ q = <<cmd, "nl">>
  \/ g.line = <<cmd>> /\ g.lines = <<>> /\ q = <<"nl">>
  \/ g.line = <<>> /\ g.lines = << <<cmd>> >> /\ q = <<>>

\* No line is.
Arrived(g, q) == g.line = <<>> /\ g.lines = <<>> /\ q = <<>>

\* How far the guest is with a command that nobody disturbs, and the words w
\* it has printed since the baseline, sent or about to be sent.
Progress(cmd, g, q, w) ==
  \E e \in Echoes :
    \/ g.shell = "read" /\ Coming(cmd, g, q) /\ w = e
    \/ /\ g.shell = "eval" /\ g.cmd = <<cmd>> /\ Arrived(g, q)
       /\ w = e \o <<"BEGIN">>
    \/ /\ g.shell \in {"end", "hangs"} /\ g.cmd = <<cmd>> /\ Arrived(g, q)
       /\ w = (e \o <<"BEGIN">>) \o Words(Programs[cmd].out)
    \/ /\ g.shell = "read" /\ Arrived(g, q)
       /\ w = ((e \o <<"BEGIN">>) \o Words(Programs[cmd].out))
              \o (<<"END">> \o Words(Programs[cmd].code))

Printed(c) == Words(Text(c) \o guest.xmit)
Typing == uart.queue \o input

\* Before the call has sent its command there is nothing but noise.
Idling(g, q, w) == g.shell = "read" /\ Arrived(g, q) /\ w = <<>>
Silent(c) == IsSeq(guest.xmit) /\ Idling(guest, Typing, Printed(c))
Executing(c) == IsSeq(guest.xmit) /\ Progress(Command(c), guest, Typing, Printed(c))

\* What ExecAnswersItself says of an answer.
Answer(c) ==
  /\ call[c].base \in Nat /\ call[c].seen \in Nat
  /\ call[c].base <= call[c].seen /\ call[c].seen <= Len(console)
  /\ Words(call[c].out) = Words(Own(c).out)
  /\ EndLine(c) = Own(c).code \o Eol => call[c].code = Own(c).code

\* A pooled VM's thread has not yet appended its output once more.
Once == ~(Cfg.pooled /\ vm = "ended")

CallOK(c) ==
  /\ IsCall(call[c])
  /\ call[c].pc # "idle" => c \in DOMAIN Cfg.calls
  /\ call[c].step = 2 => Op(c) = "run_code"
  /\ call[c].pc \in {"idle", "lookup"} => ~call[c].alone
  /\ call[c].pc \in {"send", "wait", "late"} => call[c].base \in Nat /\ call[c].base <= Len(console)
  /\ call[c].alone /\ Once =>
       /\ call[c].pc = "send" => Silent(c)
       /\ call[c].pc \in {"wait", "late"} => Executing(c)
       /\ Answered(c) => Answer(c)

\* What is typed goes through the queue of the port.
Typable == DOMAIN Programs \cup {"nl"}
PortOK ==
  /\ IsGuest(guest) /\ IsSerial(uart)
  /\ uart.queue \in Seq(Typable) /\ input \in Seq(Typable)
  /\ left.typed \in Seq(Seq(Typable))
  /\ left = [typed |-> left.typed, noise |-> left.noise, printk |-> left.printk]
  /\ guest.isr = "rx" => uart.queue # <<>>

\* The inductive invariant of the calls.
ExecInv ==
  /\ conf \in DOMAIN Configs /\ IsSeq(console) /\ PortOK
  /\ call = [c \in Callers |-> call[c]] /\ \A c \in Callers : CallOK(c)

-----------------------------------------------------------------------------
(* Loops: the recursive functions that stand for them.                     *)

\* A set of numbers has a least one.
LEMMA LeastNumber ==
  ASSUME NEW T \in SUBSET Nat, T # {} PROVE \E n \in T : \A k \in T : n <= k
<1>. DEFINE R == {ss \in Nat \X Nat : ss[1] < ss[2]}
<1>1. IsWellFoundedOn(R, Nat)
  BY NatLessThanWellFounded DEF OpToRel
<1>. HIDE DEF R
<1>2. PICK n \in T : \A k \in T : ~(<<k, n>> \in R)
  BY <1>1, WFMin, Zenon
<1>3. ASSUME NEW k \in T, ~(n <= k) PROVE FALSE
  <2>1. <<k, n>> \in R
    BY <1>3 DEF R
  <2>. QED BY <1>2, <2>1, Zenon
<1>. QED BY <1>3

\* What holds before a loop and after each of its rounds holds at its end.
LEMMA LoopInduction ==
  ASSUME NEW N \in Nat, NEW T, 0 \in T, \A n \in 1 .. N : n - 1 \in T => n \in T
  PROVE  \A n \in 0 .. N : n \in T
<1>. DEFINE U == (0 .. N) \ T
<1>. SUFFICES ASSUME U # {} PROVE FALSE
  OBVIOUS
<1>1. PICK n \in U : \A k \in U : n <= k
  <2>1. U \in SUBSET Nat
    OBVIOUS
  <2>. HIDE DEF U
  <2>. QED BY <2>1, LeastNumber, Zenon
<1>2. n # 0
  OBVIOUS
<1>3. n \in 1 .. N /\ n - 1 \in 0 .. N /\ ~(n <= n - 1)
  BY <1>2
<1>4. n - 1 \in T
  BY <1>1, <1>3, Zenon
<1>. QED BY <1>3, <1>4, Zenon

\* f is what the rounds of a loop compute from base, round n by step[n].
Rounds(f, N, base, step) ==
  f[0] = base /\ \A n \in 1 .. N : f[n] = step[n][f[n - 1]]

\* A loop over values of V computes something.
LEMMA LoopRuns ==
  ASSUME NEW N \in Nat, NEW V, NEW base \in V, NEW step \in [1 .. N -> [V -> V]]
  PROVE  \E f \in [0 .. N -> V] : Rounds(f, N, base, step)
<1>. DEFINE T == {n \in 0 .. N : \E f \in [0 .. n -> V] : Rounds(f, n, base, step)}
<1>1. 0 \in T
  <2>. DEFINE f == [i \in 0 .. 0 |-> base]
  <2>1. f \in [0 .. 0 -> V] /\ f[0] = base /\ 1 .. 0 = {} /\ 0 \in 0 .. N
    OBVIOUS
  <2>2. Rounds(f, 0, base, step)
    <3>. HIDE DEF f
    <3>. QED BY <2>1, Zenon DEF Rounds
  <2>. QED BY <2>1, <2>2, Zenon
<1>2. ASSUME NEW n \in 1 .. N, n - 1 \in T PROVE n \in T
  <2>1. PICK f \in [0 .. n - 1 -> V] : Rounds(f, n - 1, base, step)
    BY <1>2, Zenon
  <2>. DEFINE g == [i \in 0 .. n |-> IF i = n THEN step[n][f[n - 1]] ELSE f[i]]
  <2>2. f[n - 1] \in V
    OBVIOUS
  <2>3. step[n][f[n - 1]] \in V
    <3>1. step[n] \in [V -> V]
      OBVIOUS
    <3>. HIDE DEF T
    <3>. QED BY <2>2, <3>1, Zenon
  <2>4. \A i \in 0 .. n : i # n => i \in 0 .. n - 1
    OBVIOUS
  <2>5. g \in [0 .. n -> V]
    BY <2>3, <2>4, Zenon
  <2>6. g[n] = step[n][f[n - 1]] /\ \A i \in 0 .. n - 1 : g[i] = f[i]
    OBVIOUS
  <2>. HIDE DEF g
  <2>7. 0 \in 0 .. n - 1 /\ n - 1 \in 0 .. n - 1 /\ n \in 0 .. N
    OBVIOUS
  <2>8. \A i \in 1 .. n : i # n => i \in 1 .. n - 1 /\ i \in 0 .. n - 1 /\ i - 1 \in 0 .. n - 1
    OBVIOUS
  <2>9. Rounds(g, n, base, step)
    BY <2>1, <2>6, <2>7, <2>8, Zenon DEF Rounds
  <2>. QED BY <2>5, <2>7, <2>9, Zenon
<1>3. N \in 0 .. N
  OBVIOUS
<1>. HIDE DEF T
<1>4. N \in T
  BY <1>1, <1>2, <1>3, LoopInduction, Zenon
<1>. QED BY <1>4 DEF T

-----------------------------------------------------------------------------
(* Words.                                                                  *)

\* u[n] is the words of the first n tokens of s.
WordsUpTo(u, s) ==
  /\ u[0] = <<>>
  /\ \A n \in 1 .. Len(s) :
       u[n] = IF s[n] \in Blank THEN u[n - 1] ELSE Append(u[n - 1], s[n])

\* The words of a text are found token by token.
LEMMA WordsAre ==
  ASSUME NEW S, NEW s \in Seq(S)
  PROVE  \E u \in [0 .. Len(s) -> Seq(S)] : WordsUpTo(u, s) /\ Words(s) = u[Len(s)]
<1>. DEFINE N == Len(s)
            V == Seq(S)
            Body(g) == [n \in 0 .. N |->
                          IF n = 0 THEN <<>>
                          ELSE IF s[n] \in Blank THEN g[n - 1] ELSE Append(g[n - 1], s[n])]
            step == [n \in 1 .. N |-> [a \in V |-> IF s[n] \in Blank THEN a ELSE Append(a, s[n])]]
            u == CHOOSE g : g = Body(g)
<1>1. N \in Nat
  OBVIOUS
<1>2. \A n \in 1 .. N : s[n] \in S
  OBVIOUS
<1>3. <<>> \in V
  OBVIOUS
<1>4. step \in [1 .. N -> [V -> V]]
  <2>1. ASSUME NEW n \in 1 .. N, NEW a \in V PROVE Append(a, s[n]) \in V
    BY <1>2
  <2>. HIDE DEF N, V
  <2>. QED BY <2>1, Zenon
<1>. HIDE DEF V
<1>5. PICK f \in [0 .. N -> V] : Rounds(f, N, <<>>, step)
  <2>. HIDE DEF step
  <2>. QED BY <1>1, <1>3, <1>4, LoopRuns, Zenon
<1>6. f = Body(f)
  <2>1. ASSUME NEW n \in 0 .. N PROVE f[n] = Body(f)[n]
    <3>1. CASE n = 0
      BY <1>5, <3>1, Zenon DEF Rounds
    <3>2. CASE n # 0
      <4>1. n \in 1 .. N /\ n - 1 \in 0 .. N
        BY <1>1, <3>2
      <4>2. f[n] = step[n][f[n - 1]] /\ f[n - 1] \in V
        BY <1>5, <4>1, Zenon DEF Rounds
      <4>. HIDE DEF N
      <4>. QED BY <3>2, <4>1, <4>2, Zenon
    <3>. QED BY <3>1, <3>2, Zenon
  <2>. HIDE DEF N
  <2>. QED BY <1>5, <2>1, Zenon
<1>7. u = Body(u)
  <2>. HIDE DEF Body
  <2>. QED BY <1>6, Zenon
<1>8. Words(s) = u[N]
  BY Zenon DEF Words
<1>. HIDE DEF u
<1>9. /\ u[0] = <<>>
      /\ \A n \in 1 .. N : u[n] = IF s[n] \in Blank THEN u[n - 1] ELSE Append(u[n - 1], s[n])
  <2>1. 0 \in 0 .. N /\ \A n \in 1 .. N : n \in 0 .. N /\ n # 0
    BY <1>1
  <2>. HIDE DEF N
  <2>. QED BY <1>7, <2>1, Zenon
<1>10. u = [n \in 0 .. N |-> u[n]]
  <2>. HIDE DEF N
  <2>. QED BY <1>7, Zenon
<1>. HIDE DEF Body, step
<1>. DEFINE T == {n \in 0 .. N : u[n] \in V}
<1>11. 0 \in T
  BY <1>1, <1>3, <1>9
<1>12. ASSUME NEW n \in 1 .. N, n - 1 \in T PROVE n \in T
  <2>1. n \in 0 .. N
    BY <1>1
  <2>2. u[n - 1] \in V /\ s[n] \in S
    BY <1>2, <1>12, Zenon
  <2>3. Append(u[n - 1], s[n]) \in V
    BY <2>2 DEF V
  <2>. QED BY <2>1, <2>2, <2>3, <1>9, Zenon
<1>13. \A n \in 0 .. N : n \in T
  <2>. HIDE DEF T, N
  <2>. QED BY <1>1, <1>11, <1>12, LoopInduction, Zenon
<1>14. u \in [0 .. N -> V]
  <2>. HIDE DEF N
  <2>. QED BY <1>10, <1>13, Zenon
<1>. QED BY <1>8, <1>9, <1>14, Zenon DEF WordsUpTo, V

\* What is appended to the second of two texts is appended to both.
AppendsBoth(a, b, x) == Append(a \o b, x) = a \o Append(b, x)
\* A token appended to the text on the right.
LEMMA AppendJoins ==
  ASSUME NEW S, NEW a \in Seq(S), NEW b \in Seq(S), NEW x \in S PROVE AppendsBoth(a, b, x)
BY DEF AppendsBoth

\* The words of two texts after each other.
LEMMA WordsJoin ==
  ASSUME NEW S, NEW s \in Seq(S), NEW t \in Seq(S)
  PROVE  Words(s) \in Seq(S) /\ Words(t) \in Seq(S) /\ Words(s \o t) = Words(s) \o Words(t)
<1>. DEFINE r == s \o t
            M == Len(s)
            N == Len(t)
<1>1. /\ r \in Seq(S) /\ M \in Nat /\ N \in Nat /\ Len(r) = M + N
      /\ \A n \in 1 .. M : r[n] = s[n]
      /\ \A n \in 1 .. N : r[M + n] = t[n]
  OBVIOUS
<1>. HIDE DEF r
<1>2. PICK u \in [0 .. M -> Seq(S)] : WordsUpTo(u, s) /\ Words(s) = u[M]
  BY WordsAre, Zenon
<1>3. PICK v \in [0 .. N -> Seq(S)] : WordsUpTo(v, t) /\ Words(t) = v[N]
  BY WordsAre, Zenon
<1>4. PICK w \in [0 .. Len(r) -> Seq(S)] : WordsUpTo(w, r) /\ Words(r) = w[Len(r)]
  BY <1>1, WordsAre, Zenon
<1>5. /\ w[0] = <<>>
      /\ \A n \in 1 .. M + N : w[n] = IF r[n] \in Blank THEN w[n - 1] ELSE Append(w[n - 1], r[n])
  BY <1>1, <1>4, Zenon DEF WordsUpTo
<1>6. /\ u[0] = <<>>
      /\ \A n \in 1 .. M : u[n] = IF s[n] \in Blank THEN u[n - 1] ELSE Append(u[n - 1], s[n])
  BY <1>2, Zenon DEF WordsUpTo
<1>7. /\ v[0] = <<>>
      /\ \A n \in 1 .. N : v[n] = IF t[n] \in Blank THEN v[n - 1] ELSE Append(v[n - 1], t[n])
  BY <1>3, Zenon DEF WordsUpTo
<1>. HIDE DEF M, N
<1>8. w[M] = u[M]
  <2>. DEFINE T == {n \in 0 .. M : w[n] = u[n]}
  <2>1. 0 \in T
    BY <1>1, <1>5, <1>6
  <2>2. ASSUME NEW n \in 1 .. M, n - 1 \in T PROVE n \in T
    <3>1. n \in 0 .. M /\ n \in 1 .. M + N
      BY <1>1
    <3>. QED BY <3>1, <2>2, <1>1, <1>5, <1>6, Zenon
  <2>3. M \in 0 .. M
    BY <1>1
  <2>. HIDE DEF T
  <2>4. M \in T
    BY <2>1, <2>2, <2>3, <1>1, LoopInduction, Zenon
  <2>. QED BY <2>4 DEF T
<1>9. u[M] \in Seq(S) /\ v[N] \in Seq(S)
  BY <1>1, <1>2, <1>3
<1>. DEFINE a == u[M]
<1>. HIDE DEF a
<1>10. w[M + N] = a \o v[N]
  <2>. DEFINE T == {n \in 0 .. N : w[M + n] = a \o v[n]}
  <2>1. 0 \in T
    <3>1. M + 0 = M /\ 0 \in 0 .. N /\ a \o <<>> = a
      BY <1>1, <1>9 DEF a
    <3>. QED BY <3>1, <1>7, <1>8, Zenon DEF a
  <2>2. ASSUME NEW n \in 1 .. N, n - 1 \in T PROVE n \in T
    <3>1. /\ n \in 0 .. N /\ M + n \in 1 .. M + N /\ (M + n) - 1 = M + (n - 1)
          /\ n - 1 \in 0 .. N
      BY <1>1
    <3>2. v[n - 1] \in Seq(S) /\ t[n] \in S /\ a \in Seq(S)
      <4>1. t[n] \in S
        BY DEF N
      <4>. QED BY <4>1, <3>1, <1>9, Zenon DEF a
    <3>3. Append(a \o v[n - 1], t[n]) = a \o Append(v[n - 1], t[n])
      <4>1. AppendsBoth(a, v[n - 1], t[n])
        BY <3>2, AppendJoins, Zenon
      <4>. QED BY <4>1, Zenon DEF AppendsBoth
    <3>4. w[M + n] = IF t[n] \in Blank THEN w[M + (n - 1)] ELSE Append(w[M + (n - 1)], t[n])
      BY <3>1, <1>1, <1>5, Zenon
    <3>. QED BY <3>1, <3>2, <3>3, <3>4, <2>2, <1>7, Zenon
  <2>3. N \in 0 .. N
    BY <1>1
  <2>. HIDE DEF T
  <2>4. N \in T
    BY <2>1, <2>2, <2>3, <1>1, LoopInduction, Zenon
  <2>. QED BY <2>4 DEF T
<1>. QED BY <1>1, <1>2, <1>3, <1>4, <1>9, <1>10, Zenon DEF a, r

\* Two texts after each other, and three.
JoinsWords(s, t) == Words(s \o t) = Words(s) \o Words(t)
\* The words of console_output and of what is still to be sent are found apart.
LEMMA WordsConcat ==
  ASSUME NEW s, NEW t, IsSeq(s), IsSeq(t)
  PROVE  IsSeq(Words(s)) /\ IsSeq(Words(t)) /\ IsSeq(s \o t) /\ JoinsWords(s, t)
<1>. DEFINE S == {s[i] : i \in 1 .. Len(s)} \cup {t[i] : i \in 1 .. Len(t)}
<1>1. s \in Seq(S) /\ t \in Seq(S)
  BY DEF IsSeq
<1>. HIDE DEF S
<1>2. Words(s) \in Seq(S) /\ Words(t) \in Seq(S) /\ Words(s \o t) = Words(s) \o Words(t)
  BY <1>1, WordsJoin
<1>. QED BY <1>1, <1>2, SeqOver, ConcatIsSeq, Zenon DEF JoinsWords

Associates(a, b, c) == (a \o b) \o c = a \o (b \o c)
\* Three texts after each other are one text.
LEMMA ConcatAssociates ==
  ASSUME NEW a, NEW b, NEW c, IsSeq(a), IsSeq(b), IsSeq(c) PROVE Associates(a, b, c)
<1>. DEFINE S == {a[i] : i \in 1 .. Len(a)} \cup {b[i] : i \in 1 .. Len(b)} \cup {c[i] : i \in 1 .. Len(c)}
<1>1. a \in Seq(S) /\ b \in Seq(S) /\ c \in Seq(S)
  BY DEF IsSeq
<1>. HIDE DEF S
<1>. QED BY <1>1 DEF Associates

NeutralTo(a) == a \o <<>> = a /\ <<>> \o a = a
\* Nothing sent leaves the text as it is.
LEMMA EmptyIsNeutral == ASSUME NEW a, IsSeq(a) PROVE NeutralTo(a)
<1>. DEFINE S == {a[i] : i \in 1 .. Len(a)}
<1>1. a \in Seq(S)
  BY DEF IsSeq
<1>. HIDE DEF S
<1>. QED BY <1>1 DEF NeutralTo

\* The words of one token.
LEMMA WordsOfOne ==
  /\ Words(<<>>) = <<>>
  /\ \A x : Words(<<x>>) = IF x \in Blank THEN <<>> ELSE <<x>>
<1>1. Words(<<>>) = <<>>
  <2>. DEFINE s == <<>>
              S == {}
  <2>1. s \in Seq(S) /\ Len(s) = 0
    OBVIOUS
  <2>. HIDE DEF s, S
  <2>2. PICK u \in [0 .. Len(s) -> Seq(S)] : WordsUpTo(u, s) /\ Words(s) = u[Len(s)]
    BY <2>1, WordsAre, Zenon
  <2>. QED BY <2>1, <2>2, Zenon DEF WordsUpTo, s
<1>2. ASSUME NEW x PROVE Words(<<x>>) = IF x \in Blank THEN <<>> ELSE <<x>>
  <2>. DEFINE s == <<x>>
              S == {x}
  <2>1. s \in Seq(S) /\ Len(s) = 1 /\ s[1] = x /\ 1 \in 1 .. 1 /\ 1 - 1 = 0
        /\ Append(<<>>, x) = s
    OBVIOUS
  <2>. HIDE DEF s, S
  <2>2. PICK u \in [0 .. Len(s) -> Seq(S)] : WordsUpTo(u, s) /\ Words(s) = u[Len(s)]
    BY <2>1, WordsAre, Zenon
  <2>3. u[0] = <<>> /\ u[1] = IF s[1] \in Blank THEN u[0] ELSE Append(u[0], s[1])
    BY <2>1, <2>2, Zenon DEF WordsUpTo
  <2>. QED BY <2>1, <2>2, <2>3, Zenon DEF s
<1>. QED BY <1>1, <1>2, Zenon

\* What the shell prints around a command's output.
LEMMA WordsOfMarkers ==
  /\ IsSeq(Eol) /\ Words(Eol) = <<>>
  /\ IsSeq(<<"BEGIN">> \o Eol) /\ Words(<<"BEGIN">> \o Eol) = <<"BEGIN">>
  /\ Words(<<"END">>) = <<"END">> /\ Words(<<"noise">>) = <<>> /\ Words(<<"echo">>) = <<"echo">>
<1>1. Eol = <<"cr">> \o <<"nl">>
  BY DEF Eol
<1>2. "cr" \in Blank /\ "nl" \in Blank /\ "noise" \in Blank /\ "BEGIN" \notin Blank
      /\ "END" \notin Blank /\ "echo" \notin Blank
  BY DEF Blank
<1>3. /\ Words(<<"cr">>) = <<>> /\ Words(<<"nl">>) = <<>> /\ Words(<<"noise">>) = <<>>
      /\ Words(<<"BEGIN">>) = <<"BEGIN">> /\ Words(<<"END">>) = <<"END">>
      /\ Words(<<"echo">>) = <<"echo">>
  BY <1>2, WordsOfOne, Zenon
<1>4. IsSeq(<<"cr">>) /\ IsSeq(<<"nl">>) /\ IsSeq(<<"BEGIN">>) /\ IsSeq(<<>>)
  BY ShortIsSeq, Zenon
<1>5. IsSeq(Eol) /\ JoinsWords(<<"cr">>, <<"nl">>)
  BY <1>1, <1>4, WordsConcat, Zenon
<1>6. NeutralTo(<<>>) /\ NeutralTo(<<"BEGIN">>)
  BY <1>4, EmptyIsNeutral, Zenon
<1>7. Words(Eol) = <<>>
  BY <1>1, <1>3, <1>5, <1>6, Zenon DEF JoinsWords, NeutralTo
<1>8. IsSeq(<<"BEGIN">> \o Eol) /\ JoinsWords(<<"BEGIN">>, Eol)
  BY <1>4, <1>5, WordsConcat, Zenon
<1>9. Words(<<"BEGIN">> \o Eol) = <<"BEGIN">>
  BY <1>3, <1>6, <1>7, <1>8, Zenon DEF JoinsWords, NeutralTo
<1>. QED BY <1>3, <1>5, <1>7, <1>8, <1>9, Zenon

\* The text a call looks at is what was in console_output after its baseline,
\* and what has been appended since.
GrowsBy(s, m, sent) ==
  SubSeq(s \o sent, m + 1, Len(s \o sent)) = SubSeq(s, m + 1, Len(s)) \o sent
\* What the loop appends to console_output is appended to the text of every call.
LEMMA TextGrows ==
  ASSUME NEW s, NEW sent, IsSeq(s), IsSeq(sent), NEW m \in Nat, m <= Len(s)
  PROVE  GrowsBy(s, m, sent) /\ IsSeq(SubSeq(s, m + 1, Len(s)))
<1>. DEFINE S == {s[i] : i \in 1 .. Len(s)} \cup {sent[i] : i \in 1 .. Len(sent)}
<1>1. s \in Seq(S) /\ sent \in Seq(S)
  BY DEF IsSeq
<1>. HIDE DEF S
<1>2. Len(s) \in Nat /\ Len(s \o sent) = Len(s) + Len(sent) /\ Len(sent) \in Nat
  BY <1>1
<1>. DEFINE a == SubSeq(s \o sent, m + 1, Len(s \o sent))
            b == SubSeq(s, m + 1, Len(s))
            c == b \o sent
            N == (Len(s) - m) + Len(sent)
<1>3. IsSeq(b) /\ Len(b) = Len(s) - m /\ \A i \in 1 .. Len(s) - m : b[i] = s[m + i]
  BY RestIsSeq, Zenon
<1>4. /\ IsSeq(s \o sent)
      /\ \A i \in 1 .. Len(s) : (s \o sent)[i] = s[i]
      /\ \A i \in Len(s) + 1 .. Len(s) + Len(sent) : (s \o sent)[i] = sent[i - Len(s)]
  BY ConcatIsSeq, Zenon
<1>5. m <= Len(s \o sent)
  BY <1>2
<1>6. IsSeq(a) /\ Len(a) = N /\ \A i \in 1 .. N : a[i] = (s \o sent)[m + i]
  <2>1. Len(s \o sent) - m = N
    BY <1>2
  <2>2. IsSeq(a) /\ Len(a) = Len(s \o sent) - m
        /\ \A i \in 1 .. Len(s \o sent) - m : a[i] = (s \o sent)[m + i]
    BY <1>4, <1>5, RestIsSeq, Zenon
  <2>. QED BY <2>1, <2>2, Zenon
<1>. HIDE DEF b
<1>7. /\ IsSeq(c) /\ Len(c) = Len(b) + Len(sent)
      /\ \A i \in 1 .. Len(b) : c[i] = b[i]
      /\ \A i \in Len(b) + 1 .. Len(b) + Len(sent) : c[i] = sent[i - Len(b)]
  BY <1>3, ConcatIsSeq, Zenon
<1>. DEFINE r == s \o sent
<1>. HIDE DEF a, c, r
<1>8. ASSUME NEW i \in 1 .. N PROVE a[i] = c[i]
  <2>1. CASE i <= Len(s) - m
    <3>1. i \in 1 .. Len(s) - m /\ m + i \in 1 .. Len(s) /\ i \in 1 .. Len(b)
      BY <2>1, <1>2, <1>3
    <3>. QED BY <3>1, <1>3, <1>4, <1>6, <1>7, Zenon
  <2>2. CASE i > Len(s) - m
    <3>1. /\ m + i \in Len(s) + 1 .. Len(s) + Len(sent) /\ i \in Len(b) + 1 .. Len(b) + Len(sent)
          /\ (m + i) - Len(s) = i - Len(b)
      BY <2>2, <1>2, <1>3
    <3>. QED BY <3>1, <1>4, <1>6, <1>7, Zenon
  <2>. QED BY <2>1, <2>2, <1>2
<1>9. Len(a) = Len(c)
  BY <1>2, <1>3, <1>6, <1>7
<1>10. a = c
  BY <1>6, <1>7, <1>8, <1>9, SameElements, Zenon
<1>. QED BY <1>3, <1>10, Zenon DEF GrowsBy, a, b, c

\* A part of it stays.
PartStays(s, m, n, sent) == SubSeq(s \o sent, m + 1, n) = SubSeq(s, m + 1, n)
\* What a call has seen of console_output stays as more is appended.
LEMMA PartsStay ==
  ASSUME NEW s, NEW sent, IsSeq(s), IsSeq(sent), NEW m \in Nat, NEW n \in Nat, n <= Len(s)
  PROVE  PartStays(s, m, n, sent)
<1>. DEFINE S == {s[i] : i \in 1 .. Len(s)} \cup {sent[i] : i \in 1 .. Len(sent)}
<1>1. s \in Seq(S) /\ sent \in Seq(S)
  BY DEF IsSeq
<1>. HIDE DEF S
<1>2. Len(s) \in Nat /\ Len(s \o sent) = Len(s) + Len(sent) /\ Len(sent) \in Nat
  BY <1>1
<1>. QED BY <1>1, <1>2 DEF PartStays

-----------------------------------------------------------------------------
(* What is printed.                                                        *)

\* The guest is to send more, after the text t it has sent since the baseline
\* and the x it is about to send.
PrintsMore(t, x, a) == Words(t \o (x \o a)) = Words(t \o x) \o Words(a)
\* The guest puts more into its transmit buffer.
LEMMA PrintedMore ==
  ASSUME NEW t, NEW x, NEW a, IsSeq(t), IsSeq(x), IsSeq(a)
  PROVE  PrintsMore(t, x, a) /\ IsSeq(x \o a) /\ IsSeq(Words(t \o x)) /\ IsSeq(Words(a))
<1>1. IsSeq(t \o x) /\ IsSeq(x \o a) /\ Associates(t, x, a)
  BY ConcatIsSeq, ConcatAssociates, Zenon
<1>2. JoinsWords(t \o x, a) /\ IsSeq(Words(t \o x)) /\ IsSeq(Words(a))
  BY <1>1, WordsConcat, Zenon
<1>. QED BY <1>1, <1>2, Zenon DEF Associates, JoinsWords, PrintsMore

\* A character goes from the guest's buffer to console_output.
HeadMoves(t, x) == (t \o <<Head(x)>>) \o Tail(x) = t \o x
\* A character sent moves from the buffer to the console.
LEMMA PrintedHead ==
  ASSUME NEW t, NEW x, IsSeq(t), IsSeq(x), x # <<>>
  PROVE  HeadMoves(t, x) /\ IsSeq(Tail(x)) /\ IsSeq(<<Head(x)>>)
<1>. DEFINE S == {x[i] : i \in 1 .. Len(x)}
            y == <<Head(x)>>
            z == Tail(x)
<1>1. x \in Seq(S)
  BY DEF IsSeq
<1>. HIDE DEF S
<1>2. z \in Seq(S) /\ y \o z = x
  BY <1>1
<1>3. IsSeq(y)
  BY ShortIsSeq, Zenon
<1>4. IsSeq(z)
  BY <1>2, SeqOver, Zenon
<1>. HIDE DEF y, z
<1>5. Associates(t, y, z)
  BY <1>3, <1>4, ConcatAssociates, Zenon
<1>6. (t \o y) \o z = t \o x
  BY <1>2, <1>5, Zenon DEF Associates
<1>. QED BY <1>3, <1>4, <1>6, Zenon DEF HeadMoves, y, z

\* A message of the kernel overtakes what the guest is about to send.
NoiseIsNoWord(t, x) == Words((t \o <<"noise">>) \o x) = Words(t \o x)
\* A message of the kernel adds no word.
LEMMA PrintedNoise ==
  ASSUME NEW t, NEW x, IsSeq(t), IsSeq(x) PROVE NoiseIsNoWord(t, x)
<1>. DEFINE n == <<"noise">>
<1>1. IsSeq(n) /\ Words(n) = <<>>
  BY ShortIsSeq, WordsOfMarkers, Zenon
<1>. HIDE DEF n
<1>2. IsSeq(t \o n) /\ JoinsWords(t, n) /\ JoinsWords(t, x) /\ IsSeq(Words(t))
  BY <1>1, WordsConcat, Zenon
<1>3. JoinsWords(t \o n, x) /\ NeutralTo(Words(t))
  BY <1>2, WordsConcat, EmptyIsNeutral, Zenon
<1>4. Words((t \o n) \o x) = Words(t \o x)
  BY <1>1, <1>2, <1>3, Zenon DEF JoinsWords, NeutralTo
<1>. QED BY <1>4, Zenon DEF NoiseIsNoWord, n

-----------------------------------------------------------------------------
(* The progress of a command.                                              *)

SameShell(g, h) == h.line = g.line /\ h.lines = g.lines /\ h.shell = g.shell /\ h.cmd = g.cmd

\* Neither the port nor the driver touches what the shell has.
LEMMA ProgressStays ==
  ASSUME NEW cmd, NEW g, NEW h, NEW q, NEW w, SameShell(g, h)
  PROVE  /\ Progress(cmd, g, q, w) => Progress(cmd, h, q, w)
         /\ Idling(g, q, w) => Idling(h, q, w)
BY Zenon DEF SameShell, Progress, Idling, Coming, Arrived

\* The first of the port's queue is read.
FirstOf(a, b) == Len(a \o b) > 0 /\ (a \o b)[1] = Head(a) /\ Tail(a) \o b = Tail(a \o b)
\* What the terminal reads is the first of what was typed.
LEMMA QueueFirst ==
  ASSUME NEW S, NEW a \in Seq(S), NEW b \in Seq(S), a # <<>>
  PROVE  FirstOf(a, b) /\ Tail(a) \in Seq(S) /\ Head(a) \in S
<1>1. Tail(a) \in Seq(S) /\ Head(a) \in S /\ a[1] = Head(a) /\ Len(a) > 0 /\ Len(a) \in Nat /\ Len(b) \in Nat
  OBVIOUS
<1>2. (a \o b)[1] = a[1] /\ Len(a \o b) = Len(a) + Len(b)
  BY <1>1
<1>3. Tail(a) \o b = Tail(a \o b)
  OBVIOUS
<1>4. Len(a \o b) > 0
  BY <1>1, <1>2
<1>. QED BY <1>1, <1>2, <1>3, <1>4, Zenon DEF FirstOf

\* The terminal keeps a token of a line, or ends the line.
Reads(t, g, h) ==
  /\ h.shell = g.shell /\ h.cmd = g.cmd
  /\ t = "nl" => h.lines = Append(g.lines, g.line) /\ h.line = <<>>
  /\ t # "nl" => h.lines = g.lines /\ h.line = Append(g.line, t)

\* The terminal reads a character of the command line and echoes it.
LEMMA ProgressReads ==
  ASSUME NEW cmd, cmd # "nl", NEW S, NEW a \in Seq(S), NEW b \in Seq(S), a # <<>>,
         NEW g, NEW h, Reads(Head(a), g, h), NEW w
  PROVE  /\ Progress(cmd, g, a \o b, w) => Progress(cmd, h, Tail(a) \o b, w \o <<"echo">>)
         /\ ~Idling(g, a \o b, w)
<1>. DEFINE q == a \o b
            t == Head(a)
            r == Tail(a) \o b
<1>1. Len(q) > 0 /\ q[1] = t /\ r = Tail(q)
  BY QueueFirst, Zenon DEF FirstOf
<1>2. Reads(t, g, h)
  OBVIOUS
<1>. HIDE DEF q, t, r
<1>3. q # <<>>
  BY <1>1
<1>4. ~Idling(g, q, w)
  BY <1>3, Zenon DEF Idling, Arrived
<1>5. ASSUME Progress(cmd, g, q, w) PROVE Progress(cmd, h, r, w \o <<"echo">>)
  <2>1. PICK e \in Echoes : g.shell = "read" /\ Coming(cmd, g, q) /\ w = e
    BY <1>3, <1>5, Zenon DEF Progress, Arrived
  <2>2. e \o <<"echo">> \in Echoes
    BY DEF Echoes
  <2>3. Coming(cmd, h, r)
    <3>1. CASE g.line = <<>> /\ g.lines = <<>> /\ q = <<cmd, "nl">>
      <4>1. t = cmd /\ r = <<"nl">> /\ Append(<<>>, cmd) = <<cmd>>
        BY <1>1, <3>1
      <4>2. h.lines = <<>> /\ h.line = <<cmd>>
        BY <1>2, <3>1, <4>1, Zenon DEF Reads
      <4>. QED BY <4>1, <4>2, Zenon DEF Coming
    <3>2. CASE g.line = <<cmd>> /\ g.lines = <<>> /\ q = <<"nl">>
      <4>1. t = "nl" /\ r = <<>> /\ Append(<<>>, <<cmd>>) = << <<cmd>> >>
        BY <1>1, <3>2
      <4>2. h.lines = << <<cmd>> >> /\ h.line = <<>>
        BY <1>2, <3>2, <4>1, Zenon DEF Reads
      <4>. QED BY <4>1, <4>2, Zenon DEF Coming
    <3>. QED BY <1>3, <2>1, <3>1, <3>2, Zenon DEF Coming
  <2>4. h.shell = "read"
    BY <1>2, <2>1, Zenon DEF Reads
  <2>. QED BY <2>1, <2>2, <2>3, <2>4, Zenon DEF Progress
<1>. QED BY <1>4, <1>5, Zenon DEF q, t, r

\* The shell reads the line.
LEMMA ProgressBegins ==
  ASSUME NEW cmd, NEW g, NEW h, NEW q, NEW w, Progress(cmd, g, q, w),
         g.shell = "read", g.lines # <<>>, h.lines = Tail(g.lines), h.line = g.line,
         h.shell = "eval", h.cmd = Head(g.lines)
  PROVE  Progress(cmd, h, q, w \o <<"BEGIN">>)
<1>1. "read" \notin {"eval", "end", "hangs"}
  OBVIOUS
<1>2. PICK e \in Echoes : Coming(cmd, g, q) /\ w = e
  BY <1>1, Zenon DEF Progress, Arrived
<1>3. g.line = <<>> /\ g.lines = << <<cmd>> >> /\ q = <<>>
  BY <1>2, Zenon DEF Coming
<1>4. h.lines = <<>> /\ h.cmd = <<cmd>>
  BY <1>3
<1>5. Arrived(h, q)
  BY <1>3, <1>4, Zenon DEF Arrived
<1>. QED BY <1>2, <1>4, <1>5, Zenon DEF Progress

\* It runs the command.
LEMMA ProgressEvals ==
  ASSUME NEW cmd, NEW g, NEW h, NEW q, NEW w, Progress(cmd, g, q, w),
         g.shell = "eval", h.shell \in {"end", "hangs"}, h.line = g.line, h.lines = g.lines,
         h.cmd = g.cmd
  PROVE  g.cmd = <<cmd>> /\ Progress(cmd, h, q, w \o Words(Programs[cmd].out))
<1>1. "eval" # "read" /\ "eval" \notin {"end", "hangs"}
  OBVIOUS
<1>2. PICK e \in Echoes : g.cmd = <<cmd>> /\ Arrived(g, q) /\ w = e \o <<"BEGIN">>
  BY <1>1, Zenon DEF Progress
<1>3. Arrived(h, q)
  BY <1>2, Zenon DEF Arrived
<1>. QED BY <1>2, <1>3, Zenon DEF Progress

\* It prints the end marker and the exit code.
LEMMA ProgressEnds ==
  ASSUME NEW cmd, NEW g, NEW h, NEW q, NEW w, Progress(cmd, g, q, w),
         g.shell = "end", h.shell = "read", h.line = g.line, h.lines = g.lines
  PROVE  g.cmd = <<cmd>>
         /\ Progress(cmd, h, q, w \o (<<"END">> \o Words(Programs[cmd].code)))
<1>1. "end" # "read" /\ "end" # "eval"
  OBVIOUS
<1>2. PICK e \in Echoes : /\ g.cmd = <<cmd>> /\ Arrived(g, q)
                          /\ w = (e \o <<"BEGIN">>) \o Words(Programs[cmd].out)
  BY <1>1, Zenon DEF Progress
<1>3. Arrived(h, q)
  BY <1>2, Zenon DEF Arrived
<1>. QED BY <1>2, <1>3, Zenon DEF Progress

-----------------------------------------------------------------------------
(* The guest and the vCPU loop.                                            *)

\* A call that nobody disturbs gets on, or waits.
Keeps(c) == (Silent(c) => Silent(c)') /\ (Executing(c) => Executing(c)')

HasText(c) == call[c].base \in Nat /\ call[c].base <= Len(console)

\* What the calls have seen of console_output stays as it grows.
LEMMA GuestKeeps ==
  ASSUME ExecInv, call' = call, conf' = conf, NEW sent, IsSeq(sent), console' = console \o sent,
         PortOK', Once' => Once,
         Once' => \A c \in Callers : call[c].pc # "idle" /\ HasText(c) => Keeps(c)
  PROVE  ExecInv'
<1>1. /\ IsSeq(console) /\ conf \in DOMAIN Configs /\ call = [c \in Callers |-> call[c]]
      /\ \A c \in Callers : CallOK(c)
  BY Zenon DEF ExecInv
<1>2. IsSeq(console)' /\ Len(console) \in Nat /\ Len(console') \in Nat /\ Len(console) <= Len(console')
  <2>1. IsSeq(console \o sent) /\ Len(console \o sent) = Len(console) + Len(sent) /\ Len(console) \in Nat
        /\ Len(sent) \in Nat
    BY <1>1, ConcatIsSeq, Zenon
  <2>2. IsSeq(console)'
    BY <2>1, Zenon DEF IsSeq
  <2>. QED BY <2>1, <2>2
<1>3. \A n \in Nat : n <= Len(console) => n <= Len(console')
  BY <1>2
<1>4. ASSUME NEW c \in Callers PROVE CallOK(c)'
  <2>1. CallOK(c) /\ call'[c] = call[c] /\ Op(c)' = Op(c) /\ Cfg' = Cfg /\ Command(c)' = Command(c)
    BY <1>1, Zenon DEF Op, Cfg, Command
  <2>2. HasText(c) => HasText(c)'
    BY <1>3, <2>1, Zenon DEF HasText
  <2>3. Answer(c) => Answer(c)'
    <3>1. ASSUME Answer(c) PROVE Answer(c)'
      <4>. DEFINE b == call[c].base
                  s == call[c].seen
      <4>1. b \in Nat /\ s \in Nat /\ s <= Len(console)
        BY <3>1, Zenon DEF Answer
      <4>. HIDE DEF b, s
      <4>2. PartStays(console, b, s, sent)
        BY <1>1, <4>1, PartsStay, Zenon
      <4>3. SubSeq(console', b + 1, s) = SubSeq(console, b + 1, s)
        BY <4>2, Zenon DEF PartStays
      <4>4. EndLine(c)' = EndLine(c) /\ Own(c)' = Own(c)
        BY <2>1, <4>3, Zenon DEF EndLine, Own, b, s
      <4>. QED BY <1>3, <2>1, <3>1, <4>1, <4>4, Zenon DEF Answer, s
    <3>. QED BY <3>1
  <2>4. call[c].alone /\ Once' =>
          /\ call[c].pc = "send" => Silent(c)'
          /\ call[c].pc \in {"wait", "late"} => Executing(c)'
          /\ Answered(c) => Answer(c)'
    <3>1. "send" # "idle" /\ \A p \in {"wait", "late"} : p # "idle"
      OBVIOUS
    <3>. QED BY <2>1, <2>3, <3>1, Zenon DEF CallOK, Keeps, HasText
  <2>5. Answered(c)' = Answered(c)
    BY <2>1, Zenon DEF Answered
  <2>. QED BY <2>1, <2>2, <2>4, <2>5, Zenon DEF CallOK, HasText
<1>. QED BY <1>1, <1>2, <1>4, Zenon DEF ExecInv

\* The guest's driver, or the kernel, prints: what the shell has stays.
LEMMA DriverKeeps ==
  ASSUME NEW c \in Callers, IsSeq(console), HasText(c), call' = call, conf' = conf,
         SameShell(guest, guest'), Typing' = Typing,
         NEW sent, IsSeq(sent), console' = console \o sent,
         IsSeq(guest.xmit) => /\ IsSeq(guest'.xmit)
                              /\ Words((Text(c) \o sent) \o guest'.xmit) = Words(Text(c) \o guest.xmit)
  PROVE  Keeps(c)
<1>. DEFINE b == call[c].base
<1>1. b \in Nat /\ b <= Len(console)
  BY Zenon DEF HasText
<1>. HIDE DEF b
<1>2. GrowsBy(console, b, sent)
  BY <1>1, TextGrows, Zenon
<1>3. Text(c)' = Text(c) \o sent
  BY <1>2, Zenon DEF GrowsBy, Text, b
<1>4. Command(c)' = Command(c)
  BY Zenon DEF Command, Cfg
<1>5. IsSeq(guest.xmit) => IsSeq(guest.xmit)' /\ Printed(c)' = Printed(c)
  BY <1>3, Zenon DEF Printed, IsSeq
<1>6. /\ Progress(Command(c), guest, Typing, Printed(c)) => Progress(Command(c), guest', Typing, Printed(c))
      /\ Idling(guest, Typing, Printed(c)) => Idling(guest', Typing, Printed(c))
  BY ProgressStays, Zenon
<1>7. Executing(c) => Executing(c)'
  <2>1. ASSUME Executing(c) PROVE Executing(c)'
    <3>1. IsSeq(guest.xmit)' /\ Printed(c)' = Printed(c) /\ Progress(Command(c), guest', Typing, Printed(c))
      BY <1>5, <1>6, <2>1, Zenon DEF Executing
    <3>2. Progress(Command(c)', guest', Typing', Printed(c)')
      BY <1>4, <3>1
    <3>. QED BY <3>1, <3>2, Zenon DEF Executing, Progress, Coming, Arrived
  <2>. QED BY <2>1
<1>8. Silent(c) => Silent(c)'
  <2>1. ASSUME Silent(c) PROVE Silent(c)'
    <3>1. IsSeq(guest.xmit)' /\ Printed(c)' = Printed(c) /\ Idling(guest', Typing, Printed(c))
      BY <1>5, <1>6, <2>1, Zenon DEF Silent
    <3>2. Idling(guest', Typing', Printed(c)')
      BY <3>1
    <3>. QED BY <3>1, <3>2, Zenon DEF Silent, Idling, Arrived
  <2>. QED BY <2>1
<1>. QED BY <1>7, <1>8, Zenon DEF Keeps

\* The head of the loop: what is typed moves from console_input to the port.
LEMMA LoopMoves ==
  ASSUME PortOK, NEW g, NEW u, NEW sent, LoopHead(g, u, sent), IsGuest(g), IsSerial(u),
         u.queue \in Seq(Typable), g.isr = "rx" => u.queue # <<>>
  PROVE  /\ PortOK' /\ SameShell(g, guest') /\ guest'.xmit = g.xmit
         /\ Typing' = u.queue \o input /\ console' = console \o sent
         /\ conf' = conf /\ call' = call /\ vm' \in {vm, "returned"}
<1>1. /\ console' = console \o sent /\ conf' = conf /\ call' = call /\ left' = left
      /\ vm' \in {vm, "returned"}
  BY Zenon DEF LoopHead
<1>2. /\ input \in Seq(Typable) /\ left.typed \in Seq(Seq(Typable))
      /\ left = [typed |-> left.typed, noise |-> left.noise, printk |-> left.printk]
  BY Zenon DEF PortOK
<1>3. CASE uart' = u /\ guest' = g /\ input' = input
  <2>1. SameShell(g, guest') /\ guest'.xmit = g.xmit /\ Typing' = u.queue \o input
    BY <1>3, Zenon DEF SameShell, Typing
  <2>2. PortOK'
    BY <1>1, <1>2, <1>3, Zenon DEF PortOK, IsGuest, IsSerial, Typable
  <2>. QED BY <1>1, <2>1, <2>2, Zenon
<1>4. CASE /\ uart' = Drained(u) /\ input' = <<>>
           /\ guest' = IF input = <<>> THEN g ELSE Inject(g, Drained(u))
  <2>. DEFINE irq == g.irq \/ NeedsIrq(Drained(u))
  <2>1. IsSerial(Drained(u)) /\ Drained(u).queue = u.queue \o input
    BY Zenon DEF IsSerial, Drained
  <2>. HIDE DEF irq
  <2>2. guest' = g \/ guest' = [g EXCEPT !.irq = irq]
    BY <1>4, Zenon DEF Inject, irq
  <2>3. /\ IsGuest(guest') /\ SameShell(g, guest') /\ guest'.xmit = g.xmit /\ guest'.isr = g.isr
    BY <2>2 DEF IsGuest, SameShell
  <2>4. /\ u.queue \o input \in Seq(Typable) /\ <<>> \in Seq(Typable)
        /\ (u.queue # <<>> => u.queue \o input # <<>>)
        /\ (u.queue \o input) \o <<>> = u.queue \o input
    BY <1>2
  <2>5. Typing' = u.queue \o input
    BY <1>4, <2>1, <2>4, Zenon DEF Typing
  <2>6. PortOK'
    <3>1. IsGuest(guest)' /\ IsSerial(uart)'
      BY <1>4, <2>1, <2>3, Zenon DEF IsGuest, IsSerial
    <3>2. uart'.queue = u.queue \o input /\ input' = <<>>
      BY <1>4, <2>1, Zenon
    <3>. QED BY <1>1, <1>2, <2>3, <2>4, <3>1, <3>2, Zenon DEF PortOK, Typable
  <2>. QED BY <1>1, <2>3, <2>5, <2>6, Zenon
<1>. QED BY <1>3, <1>4, Zenon DEF LoopHead

\* A step of the driver: it leaves the port's queue, and may send a character.
Drives(g, u, sent) ==
  /\ vm = "running" /\ LoopHead(g, u, sent)
  /\ IsGuest(g) /\ IsSerial(u) /\ SameShell(guest, g)
  /\ u.queue = uart.queue /\ (g.isr = "rx" => uart.queue # <<>>)
  /\ \/ sent = <<>> /\ g.xmit = guest.xmit
     \/ guest.xmit # <<>> /\ sent = <<Head(guest.xmit)>> /\ g.xmit = Tail(guest.xmit)

\* An exit of the driver, and the head of the next iteration of the loop.
LEMMA DrivesSafe == ASSUME ExecInv, NEW g, NEW u, NEW sent, Drives(g, u, sent) PROVE ExecInv'
<1>1. PortOK /\ IsSeq(console) /\ uart.queue \in Seq(Typable)
  BY Zenon DEF ExecInv, PortOK
<1>2. /\ PortOK' /\ SameShell(g, guest') /\ guest'.xmit = g.xmit
      /\ Typing' = u.queue \o input /\ console' = console \o sent
      /\ conf' = conf /\ call' = call /\ vm' \in {vm, "returned"}
  BY <1>1, LoopMoves, Zenon DEF Drives
<1>3. Once' => Once
  BY Zenon DEF Drives, Once
<1>4. SameShell(guest, guest') /\ Typing' = Typing
  BY <1>2, Zenon DEF Drives, SameShell, Typing
<1>5. IsSeq(sent)
  BY ShortIsSeq, Zenon DEF Drives
<1>6. ASSUME NEW c \in Callers, HasText(c) PROVE Keeps(c)
  <2>. DEFINE t == Text(c)
              x == guest.xmit
              y == guest'.xmit
  <2>1. IsSeq(t)
    <3>. DEFINE b == call[c].base
    <3>1. b \in Nat /\ b <= Len(console)
      BY <1>6, Zenon DEF HasText
    <3>. HIDE DEF b
    <3>2. IsSeq(SubSeq(console, b + 1, Len(console)))
      BY <1>1, <3>1, RestIsSeq, Zenon
    <3>. QED BY <3>2, Zenon DEF Text, b
  <2>2. ASSUME IsSeq(x) PROVE IsSeq(y) /\ Words((t \o sent) \o y) = Words(t \o x)
    <3>1. CASE sent = <<>> /\ g.xmit = guest.xmit
      <4>1. NeutralTo(t) /\ y = x
        BY <1>2, <2>1, <3>1, EmptyIsNeutral, Zenon
      <4>. HIDE DEF t, x, y
      <4>. QED BY <2>2, <3>1, <4>1, Zenon DEF NeutralTo
    <3>2. CASE guest.xmit # <<>> /\ sent = <<Head(guest.xmit)>> /\ g.xmit = Tail(guest.xmit)
      <4>1. x # <<>> /\ sent = <<Head(x)>> /\ y = Tail(x)
        BY <1>2, <3>2, Zenon
      <4>. HIDE DEF t, x, y
      <4>2. HeadMoves(t, x) /\ IsSeq(Tail(x))
        BY <2>1, <2>2, <4>1, PrintedHead, Zenon
      <4>. QED BY <4>1, <4>2, Zenon DEF HeadMoves
    <3>. QED BY <3>1, <3>2, Zenon DEF Drives
  <2>3. IsSeq(guest.xmit) => IsSeq(guest'.xmit)
          /\ Words((Text(c) \o sent) \o guest'.xmit) = Words(Text(c) \o guest.xmit)
    BY <2>2, Zenon
  <2>. QED BY <1>1, <1>2, <1>4, <1>5, <1>6, <2>3, DriverKeeps, Zenon
<1>. QED BY <1>2, <1>3, <1>5, <1>6, GuestKeeps, Zenon

\* No register but the receive buffer touches the queue of the port.
LEMMA RegistersKeepQueue ==
  ASSUME NEW u, IsSerial(u), NEW bits, NEW d
  PROVE  /\ IsSerial(WriteThr(u)) /\ WriteThr(u).queue = u.queue
         /\ IsSerial(WriteIer(u, bits)) /\ WriteIer(u, bits).queue = u.queue
         /\ IsSerial(WriteLcr(u, d)) /\ WriteLcr(u, d).queue = u.queue
         /\ IsSerial(ReadIir(u)) /\ ReadIir(u).queue = u.queue
<1>1. IsSerial(WriteLcr(u, d)) /\ WriteLcr(u, d).queue = u.queue
  BY DEF IsSerial, WriteLcr
<1>2. IsSerial(ReadIir(u)) /\ ReadIir(u).queue = u.queue
  <2>1. ReadIir(u) = u \/ ReadIir(u) = [u EXCEPT !.thre_pending = FALSE]
    BY Zenon DEF ReadIir
  <2>. QED BY <2>1 DEF IsSerial
<1>3. IsSerial(WriteThr(u)) /\ WriteThr(u).queue = u.queue
  <2>. DEFINE p == u.thre_pending \/ "thre" \in u.ier
  <2>1. WriteThr(u) = u \/ WriteThr(u) = [u EXCEPT !.thre_pending = p]
    BY Zenon DEF WriteThr
  <2>. HIDE DEF p
  <2>. QED BY <2>1 DEF IsSerial
<1>4. IsSerial(WriteIer(u, bits)) /\ WriteIer(u, bits).queue = u.queue
  <2>. DEFINE p == u.thre_pending \/ "thre" \in bits
  <2>1. WriteIer(u, bits) = u \/ WriteIer(u, bits) = [u EXCEPT !.ier = bits, !.thre_pending = p]
    BY Zenon DEF WriteIer
  <2>. HIDE DEF p
  <2>. QED BY <2>1, Zenon DEF IsSerial
<1>. QED BY <1>1, <1>2, <1>3, <1>4, Zenon

\* An interrupt that is latched.
LEMMA InjectIs ==
  ASSUME NEW g, IsGuest(g), NEW u
  PROVE  /\ IsGuest(Inject(g, u)) /\ SameShell(g, Inject(g, u))
         /\ Inject(g, u).xmit = g.xmit /\ Inject(g, u).isr = g.isr
<1>. DEFINE irq == g.irq \/ NeedsIrq(u)
<1>1. Inject(g, u) = [g EXCEPT !.irq = irq]
  BY Zenon DEF Inject
<1>. HIDE DEF irq
<1>. QED BY <1>1 DEF IsGuest, SameShell

\* The guest before the exit is handled, as far as the shell is concerned.
DriverHas(g, u, sent) ==
  /\ IsGuest(g) /\ IsSerial(u) /\ SameShell(guest, g)
  /\ u.queue = uart.queue /\ (g.isr = "rx" => uart.queue # <<>>)
  /\ \/ sent = <<>> /\ g.xmit = guest.xmit
     \/ guest.xmit # <<>> /\ sent = <<Head(guest.xmit)>> /\ g.xmit = Tail(guest.xmit)

\* A write of the driver to the port.
LEMMA OutSafe ==
  ASSUME ExecInv, NEW g, NEW u, NEW sent, vm = "running", DriverHas(g, u, sent), IoOut(g, u, sent)
  PROVE  ExecInv'
<1>. DEFINE h == Inject(g, u)
<1>1. IsGuest(h) /\ SameShell(g, h) /\ h.xmit = g.xmit /\ h.isr = g.isr
  BY InjectIs, Zenon DEF DriverHas
<1>2. LoopHead(h, u, sent)
  BY Zenon DEF IoOut
<1>. HIDE DEF h
<1>3. SameShell(guest, h)
  BY <1>1, Zenon DEF DriverHas, SameShell
<1>4. Drives(h, u, sent)
  BY <1>1, <1>2, <1>3, Zenon DEF DriverHas, Drives
<1>. QED BY <1>4, DrivesSafe, Zenon

\* A read of the driver from the port.
LEMMA InSafe ==
  ASSUME ExecInv, NEW g, NEW u, vm = "running", DriverHas(g, u, <<>>), IoIn(g, u)
  PROVE  ExecInv'
<1>1. Drives(g, u, <<>>)
  BY Zenon DEF DriverHas, Drives, IoIn
<1>. QED BY <1>1, DrivesSafe, Zenon

\* The steps of the driver.
LEMMA DriverSafe ==
  ASSUME ExecInv, Startup \/ StartTx \/ IsrIir \/ IsrTx \/ StopTx \/ Kick
  PROVE  ExecInv'
<1>1. IsGuest(guest) /\ IsSerial(uart) /\ (guest.isr = "rx" => uart.queue # <<>>)
  BY Zenon DEF ExecInv, PortOK
<1>2. CASE Startup
  <2>. DEFINE g == [guest EXCEPT !.boot = guest.boot + 1]
              h == [g EXCEPT !.ier = {"rda"}]
  <2>1. /\ vm = "running"
        /\ \/ IoOut(g, WriteLcr(uart, TRUE), <<>>) \/ IoOut(g, WriteThr(uart), <<>>)
           \/ IoOut(g, WriteLcr(uart, FALSE), <<>>) \/ IoOut(h, WriteIer(uart, {"rda"}), <<>>)
    BY <1>2, Zenon DEF Startup
  <2>2. /\ IsGuest(g) /\ SameShell(guest, g) /\ g.xmit = guest.xmit /\ g.isr = guest.isr
    BY <1>1 DEF IsGuest, SameShell
  <2>3. /\ IsGuest(h) /\ SameShell(guest, h) /\ h.xmit = guest.xmit /\ h.isr = guest.isr
    <3>. HIDE DEF g
    <3>. QED BY <2>2 DEF IsGuest, SameShell
  <2>. HIDE DEF g, h
  <2>4. \A u : IsSerial(u) /\ u.queue = uart.queue => DriverHas(g, u, <<>>) /\ DriverHas(h, u, <<>>)
    BY <1>1, <2>2, <2>3, Zenon DEF DriverHas
  <2>5. /\ DriverHas(g, WriteLcr(uart, TRUE), <<>>) /\ DriverHas(g, WriteThr(uart), <<>>)
        /\ DriverHas(g, WriteLcr(uart, FALSE), <<>>) /\ DriverHas(h, WriteIer(uart, {"rda"}), <<>>)
    BY <1>1, <2>4, RegistersKeepQueue, Zenon
  <2>. QED BY <2>1, <2>5, OutSafe, Zenon
<1>3. CASE StartTx
  <2>. DEFINE bits == guest.ier \cup {"thre"}
              g == [guest EXCEPT !.ier = bits]
              u == WriteIer(uart, bits)
  <2>1. vm = "running" /\ IoOut(g, u, <<>>)
    BY <1>3, Zenon DEF StartTx, Up
  <2>2. IsGuest(g) /\ SameShell(guest, g) /\ g.xmit = guest.xmit /\ g.isr = guest.isr
    BY <1>1 DEF IsGuest, SameShell
  <2>3. IsSerial(u) /\ u.queue = uart.queue
    BY <1>1, RegistersKeepQueue, Zenon
  <2>. HIDE DEF g, u, bits
  <2>4. DriverHas(g, u, <<>>)
    BY <1>1, <2>2, <2>3, Zenon DEF DriverHas
  <2>. QED BY <2>1, <2>4, OutSafe, Zenon
<1>4. CASE IsrIir
  <2>. DEFINE i == IF Iir(uart) = "none" THEN "off" ELSE AfterLsr(uart)
              g == [guest EXCEPT !.isr = i]
              u == ReadIir(uart)
  <2>1. vm = "running" /\ IoIn(g, u)
    BY <1>4, Zenon DEF IsrIir, Up
  <2>2. i = "rx" => uart.queue # <<>>
    BY DEF AfterLsr, HasInput
  <2>. HIDE DEF i
  <2>3. IsGuest(g) /\ SameShell(guest, g) /\ g.xmit = guest.xmit /\ g.isr = i
    BY <1>1 DEF IsGuest, SameShell
  <2>4. IsSerial(u) /\ u.queue = uart.queue
    BY <1>1, RegistersKeepQueue, Zenon
  <2>. HIDE DEF g, u
  <2>5. DriverHas(g, u, <<>>)
    BY <2>2, <2>3, <2>4, Zenon DEF DriverHas
  <2>. QED BY <2>1, <2>5, InSafe, Zenon
<1>5. CASE IsrTx
  <2>1. CASE "thre" \notin guest.ier
    <3>. DEFINE g == [guest EXCEPT !.isr = "iir"]
    <3>1. vm = "running" /\ IoIn(g, uart)
      BY <1>5, <2>1, Zenon DEF IsrTx, Up
    <3>2. IsGuest(g) /\ SameShell(guest, g) /\ g.xmit = guest.xmit /\ g.isr # "rx"
      BY <1>1 DEF IsGuest, SameShell
    <3>. HIDE DEF g
    <3>3. DriverHas(g, uart, <<>>)
      BY <1>1, <3>2, Zenon DEF DriverHas
    <3>. QED BY <3>1, <3>3, InSafe, Zenon
  <2>2. CASE "thre" \in guest.ier
    <3>. DEFINE rest == Tail(guest.xmit)
                i == IF rest = <<>> THEN "stop" ELSE "iir"
                g == [guest EXCEPT !.xmit = rest, !.isr = i]
                u == WriteThr(uart)
                sent == <<Head(guest.xmit)>>
    <3>1. vm = "running" /\ guest.xmit # <<>> /\ IoOut(g, u, sent)
      BY <1>5, <2>2, Zenon DEF IsrTx, Up
    <3>2. i # "rx"
      OBVIOUS
    <3>. HIDE DEF i, rest
    <3>3. IsGuest(g) /\ SameShell(guest, g) /\ g.xmit = rest /\ g.isr # "rx"
      BY <1>1, <3>2, Zenon DEF IsGuest, SameShell
    <3>4. IsSerial(u) /\ u.queue = uart.queue
      BY <1>1, RegistersKeepQueue, Zenon
    <3>. HIDE DEF g, u
    <3>5. DriverHas(g, u, sent)
      BY <3>1, <3>3, <3>4, Zenon DEF DriverHas, rest
    <3>. QED BY <3>1, <3>5, OutSafe, Zenon
  <2>. QED BY <2>1, <2>2
<1>6. CASE StopTx
  <2>. DEFINE bits == IF guest.xmit = <<>> THEN guest.ier \ {"thre"} ELSE guest.ier
              g == [guest EXCEPT !.ier = bits, !.isr = "iir"]
              u == WriteIer(uart, bits)
  <2>1. vm = "running" /\ IoOut(g, u, <<>>)
    BY <1>6, Zenon DEF StopTx, Up
  <2>. HIDE DEF bits
  <2>2. IsGuest(g) /\ SameShell(guest, g) /\ g.xmit = guest.xmit /\ g.isr # "rx"
    BY <1>1, Zenon DEF IsGuest, SameShell
  <2>3. IsSerial(u) /\ u.queue = uart.queue
    BY <1>1, RegistersKeepQueue, Zenon
  <2>. HIDE DEF g, u
  <2>4. DriverHas(g, u, <<>>)
    BY <2>2, <2>3, Zenon DEF DriverHas
  <2>. QED BY <2>1, <2>4, OutSafe, Zenon
<1>7. CASE Kick
  <2>1. Drives(guest, uart, <<>>)
    BY <1>1, <1>7, Zenon DEF Kick, Drives, SameShell
  <2>. QED BY <2>1, DrivesSafe, Zenon
<1>. QED BY <1>2, <1>3, <1>4, <1>5, <1>6, <1>7

\* The text of a call is a sequence.
LEMMA TextIsSeq == ASSUME NEW c, IsSeq(console), HasText(c) PROVE IsSeq(Text(c))
<1>. DEFINE b == call[c].base
<1>1. b \in Nat /\ b <= Len(console)
  BY Zenon DEF HasText
<1>. HIDE DEF b
<1>2. IsSeq(SubSeq(console, b + 1, Len(console)))
  BY <1>1, RestIsSeq, Zenon
<1>. QED BY <1>2, Zenon DEF Text, b

\* The guest has more to send.
PrintsAlso(c, a) == IsSeq(guest'.xmit) /\ Printed(c)' = Printed(c) \o Words(a)
\* What the shell writes are words to come.
LEMMA Prints ==
  ASSUME NEW c, IsSeq(console), HasText(c), call' = call, console' = console,
         IsSeq(guest.xmit), NEW a, IsSeq(a), guest'.xmit = guest.xmit \o a
  PROVE  PrintsAlso(c, a)
<1>. DEFINE t == Text(c)
            x == guest.xmit
<1>1. IsSeq(t)
  BY TextIsSeq, Zenon
<1>2. Text(c)' = t
  BY Zenon DEF Text
<1>3. PrintsMore(t, x, a) /\ IsSeq(x \o a)
  BY <1>1, PrintedMore, Zenon
<1>4. Words(t \o guest'.xmit) = Words(t \o x) \o Words(a)
  BY <1>3, Zenon DEF PrintsMore
<1>. QED BY <1>2, <1>3, <1>4, Zenon DEF Printed, PrintsAlso

\* Commands and line ends are not the same.
LEMMA CommandIs ==
  ASSUME ExecInv, NEW c \in Callers, call[c].pc # "idle"
  PROVE  Command(c) \in DOMAIN Programs /\ Command(c) # "nl"
<1>1. /\ conf \in DOMAIN Configs /\ c \in DOMAIN Cfg.calls /\ call[c].step \in {1, 2}
      /\ call[c].step = 2 => Op(c) = "run_code"
  <2>1. CallOK(c) /\ conf \in DOMAIN Configs
    BY Zenon DEF ExecInv
  <2>2. call[c].step \in {1, 2}
    BY <2>1 DEF CallOK, IsCall
  <2>. QED BY <2>1, <2>2, Zenon DEF CallOK
<1>2. /\ Cfg.calls[c].cmds[1] \in DOMAIN Programs
      /\ Cfg.calls[c].op = "run_code" => Cfg.calls[c].cmds[2] \in DOMAIN Programs
  BY <1>1, CallsAssumption, Zenon DEF Cfg
<1>3. Command(c) \in DOMAIN Programs
  BY <1>1, <1>2, Zenon DEF Command, Op
<1>. QED BY <1>3, ProgramsAssumption, Zenon

\* The terminal reads a token and echoes it.
LEMMA IsrRxSafe == ASSUME ExecInv, IsrRx PROVE ExecInv'
<1>. DEFINE u == ReadRbr(uart)
            t == Head(uart.queue)
            i == AfterLsr(u)
            g == Received([guest EXCEPT !.isr = i], t)
<1>1. /\ PortOK /\ IsSeq(console) /\ IsGuest(guest) /\ IsSerial(uart)
      /\ uart.queue \in Seq(Typable) /\ input \in Seq(Typable) /\ uart.queue # <<>>
  BY Zenon DEF ExecInv, PortOK, IsrRx
<1>2. vm = "running" /\ LoopHead(g, u, <<>>)
  BY Zenon DEF IsrRx, Up, IoIn
<1>3. IsSerial(u) /\ u.queue = Tail(uart.queue)
  BY <1>1, Zenon DEF IsSerial, ReadRbr
<1>4. u.queue \in Seq(Typable)
  BY <1>1, <1>3, QueueFirst, Zenon
<1>5. i = "rx" => u.queue # <<>>
  <2>. HIDE DEF u
  <2>. QED BY DEF AfterLsr, HasInput
<1>. HIDE DEF u, t, i
<1>6. IsGuest(g) /\ g.isr = i /\ g.xmit = Append(guest.xmit, "echo") /\ Reads(t, guest, g)
  <2>1. CASE t = "nl"
    BY <1>1, <2>1, Zenon DEF IsGuest, Received, Reads
  <2>2. CASE t # "nl"
    BY <1>1, <2>2, Zenon DEF IsGuest, Received, Reads
  <2>. QED BY <2>1, <2>2
<1>. HIDE DEF g
<1>7. /\ PortOK' /\ SameShell(g, guest') /\ guest'.xmit = g.xmit
      /\ Typing' = u.queue \o input /\ console' = console \o <<>>
      /\ conf' = conf /\ call' = call /\ vm' \in {vm, "returned"}
  BY <1>1, <1>2, <1>3, <1>4, <1>5, <1>6, LoopMoves, Zenon
<1>8. console' = console /\ IsSeq(<<>>)
  BY <1>1, <1>7, EmptyIsNeutral, ShortIsSeq, Zenon DEF NeutralTo
<1>9. Once' => Once
  BY <1>2, Zenon DEF Once
<1>10. Reads(t, guest, guest')
  BY <1>6, <1>7, Zenon DEF Reads, SameShell
<1>11. ASSUME NEW c \in Callers, call[c].pc # "idle", HasText(c) PROVE Keeps(c)
  <2>1. Command(c) # "nl" /\ Command(c)' = Command(c)
    BY <1>7, <1>11, CommandIs, Zenon DEF Command, Cfg
  <2>. DEFINE w == Printed(c)
              cmd == Command(c)
              q == uart.queue
              h == guest'
  <2>. HIDE DEF w, cmd, q, h
  <2>2. /\ Progress(cmd, guest, q \o input, w) => Progress(cmd, h, Tail(q) \o input, w \o <<"echo">>)
        /\ ~Idling(guest, q \o input, w)
    BY <1>1, <1>10, <2>1, ProgressReads, Zenon DEF t, cmd, q, h
  <2>3. ASSUME Executing(c) PROVE Executing(c)'
    <3>1. IsSeq(guest.xmit) /\ Progress(cmd, guest, q \o input, w)
      BY <2>3, Zenon DEF Executing, Typing, cmd, q, w
    <3>2. guest'.xmit = guest.xmit \o <<"echo">>
      <4>. DEFINE x == guest.xmit
                  S == {x[k] : k \in 1 .. Len(x)} \cup {"echo"}
      <4>1. x \in Seq(S) /\ "echo" \in S
        BY <3>1 DEF IsSeq
      <4>. HIDE DEF x, S
      <4>2. Append(x, "echo") = x \o <<"echo">>
        BY <4>1
      <4>. QED BY <1>6, <1>7, <4>2, Zenon DEF x
    <3>3. IsSeq(<<"echo">>) /\ Words(<<"echo">>) = <<"echo">>
      BY ShortIsSeq, WordsOfMarkers, Zenon
    <3>4. PrintsAlso(c, <<"echo">>)
      BY <1>1, <1>7, <1>8, <1>11, <3>1, <3>2, <3>3, Prints, Zenon
    <3>5. IsSeq(guest'.xmit) /\ Printed(c)' = w \o <<"echo">>
      BY <3>3, <3>4, Zenon DEF PrintsAlso, w
    <3>6. Progress(Command(c)', guest', Typing', Printed(c)')
      BY <1>3, <1>7, <2>1, <2>2, <3>1, <3>5 DEF cmd, q, h
    <3>. QED BY <3>5, <3>6, Zenon DEF Executing, Progress, Coming, Arrived, IsSeq
  <2>4. ~Silent(c)
    BY <2>2, Zenon DEF Silent, Typing, w, q
  <2>. QED BY <2>3, <2>4, Zenon DEF Keeps
<1>. QED BY <1>7, <1>8, <1>9, <1>11, GuestKeeps, Zenon

\* A step of the shell, between two exits.
LEMMA ShellKeeps ==
  ASSUME ExecInv, UNCHANGED <<conf, input, console, vm, uart, call>>, IsGuest(guest)',
         guest'.isr = guest.isr, left'.typed = left.typed,
         left' = [typed |-> left'.typed, noise |-> left'.noise, printk |-> left'.printk],
         \A c \in Callers : call[c].pc # "idle" /\ HasText(c) => Keeps(c)
  PROVE  ExecInv'
<1>1. /\ conf' = conf /\ input' = input /\ console' = console /\ vm' = vm /\ uart' = uart
      /\ call' = call
  OBVIOUS
<1>2. IsSeq(console) /\ PortOK
  BY Zenon DEF ExecInv
<1>3. PortOK'
  BY <1>1, <1>2, Zenon DEF PortOK, IsSerial, Typable
<1>4. IsSeq(<<>>) /\ console' = console \o <<>>
  BY <1>1, <1>2, EmptyIsNeutral, ShortIsSeq, Zenon DEF NeutralTo
<1>5. Once' => Once
  BY <1>1, Zenon DEF Once, Cfg
<1>. QED BY <1>1, <1>3, <1>4, <1>5, GuestKeeps, Zenon

\* A command at work prints a.
LEMMA Advances ==
  ASSUME ExecInv, NEW c \in Callers, HasText(c), UNCHANGED <<conf, input, console, uart, call>>,
         NEW a, Executing(c) => IsSeq(a), guest'.xmit = guest.xmit \o a, ~Silent(c),
         Executing(c) => Progress(Command(c), guest', Typing, Printed(c) \o Words(a))
  PROVE  Keeps(c)
<1>. SUFFICES ASSUME Executing(c) PROVE Executing(c)'
  BY Zenon DEF Keeps
<1>1. console' = console /\ call' = call /\ IsSeq(console) /\ IsSeq(guest.xmit)
  BY Zenon DEF ExecInv, Executing
<1>2. Typing' = Typing /\ Command(c)' = Command(c)
  BY Zenon DEF Typing, Command, Cfg
<1>3. PrintsAlso(c, a)
  BY <1>1, Prints, Zenon
<1>4. IsSeq(guest'.xmit) /\ Printed(c)' = Printed(c) \o Words(a)
  BY <1>3, Zenon DEF PrintsAlso
<1>5. Progress(Command(c)', guest', Typing', Printed(c)')
  BY <1>2, <1>4
<1>. QED BY <1>4, <1>5, Zenon DEF Executing, Progress, Coming, Arrived, IsSeq

\* The shell loop reads a line.
LEMMA ShellReadSafe == ASSUME ExecInv, ShellRead PROVE ExecInv'
<1>. DEFINE line == Head(guest.lines)
            a == <<"BEGIN">> \o Eol
            g == [guest EXCEPT !.lines = Tail(guest.lines)]
            h == [guest EXCEPT !.lines = Tail(guest.lines), !.shell = "eval", !.cmd = line,
                               !.xmit = guest.xmit \o a]
<1>1. /\ IsGuest(guest) /\ guest.shell = "read" /\ guest.lines # <<>> /\ left' = left
      /\ UNCHANGED <<conf, input, console, vm, uart, call>>
      /\ left = [typed |-> left.typed, noise |-> left.noise, printk |-> left.printk]
  BY Zenon DEF ExecInv, PortOK, ShellRead, Shell
<1>2. Puts([g EXCEPT !.shell = "eval", !.cmd = line], a) = h
  BY <1>1 DEF Puts, IsGuest
<1>3. guest' = IF line = <<>> THEN g ELSE h
  BY <1>2, Zenon DEF ShellRead, Shell
<1>4. IsGuest(g) /\ g.isr = guest.isr /\ IsGuest(h) /\ h.isr = guest.isr
  BY <1>1, Zenon DEF IsGuest
<1>5. /\ h.xmit = guest.xmit \o a /\ h.shell = "eval" /\ h.cmd = line
      /\ h.lines = Tail(guest.lines) /\ h.line = guest.line
  BY <1>1 DEF IsGuest
<1>6. IsSeq(a) /\ Words(a) = <<"BEGIN">>
  BY WordsOfMarkers, Zenon
<1>. HIDE DEF g, h, a
<1>7. IsGuest(guest)' /\ guest'.isr = guest.isr
  BY <1>3, <1>4, Zenon DEF IsGuest
<1>8. ASSUME NEW c \in Callers, call[c].pc # "idle", HasText(c) PROVE Keeps(c)
  <2>1. ~Silent(c)
    BY <1>1, Zenon DEF Silent, Idling, Arrived
  <2>2. ASSUME Executing(c) PROVE line # <<>>
    <3>1. "read" \notin {"eval", "end", "hangs"}
      OBVIOUS
    <3>2. guest.lines = << <<Command(c)>> >>
      BY <1>1, <2>2, <3>1, Zenon DEF Executing, Progress, Coming, Arrived
    <3>. QED BY <3>2
  <2>3. CASE line = <<>>
    BY <2>1, <2>2, <2>3, Zenon DEF Keeps
  <2>4. CASE line # <<>>
    <3>1. guest' = h
      BY <1>3, <2>4, Zenon
    <3>2. Executing(c) => Progress(Command(c), h, Typing, Printed(c) \o <<"BEGIN">>)
      BY <1>1, <1>5, ProgressBegins, Zenon DEF Executing
    <3>. QED BY <1>1, <1>5, <1>6, <1>8, <2>1, <3>1, <3>2, Advances, Zenon
  <2>. QED BY <2>3, <2>4
<1>. QED BY <1>1, <1>7, <1>8, ShellKeeps, Zenon

\* A command that there is.
LEMMA ProgramIs ==
  ASSUME NEW cmd \in DOMAIN Programs
  PROVE  /\ Program(<<cmd>>) = Programs[cmd] /\ IsSeq(Programs[cmd].out) /\ IsSeq(Programs[cmd].code)
         /\ \A i \in 1 .. Len(Programs[cmd].out) : Programs[cmd].out[i] \notin {"BEGIN", "END"}
<1>. DEFINE out == Programs[cmd].out
            code == Programs[cmd].code
<1>1. Len(<<cmd>>) = 1 /\ <<cmd>>[1] = cmd
  OBVIOUS
<1>2. Program(<<cmd>>) = Programs[cmd]
  BY <1>1, Zenon DEF Program
<1>3. out \in Seq(Range(out)) /\ {"BEGIN", "END"} \cap Range(out) = {} /\ code \in Seq(Digits)
  BY ProgramsAssumption, Zenon
<1>. HIDE DEF out, code
<1>4. \A i \in 1 .. Len(out) : out[i] \in Range(out)
  BY <1>3
<1>5. IsSeq(out) /\ IsSeq(code)
  BY <1>3, SeqOver, Zenon
<1>. QED BY <1>2, <1>3, <1>4, <1>5 DEF out, code

\* It runs the command.
LEMMA ShellEvalSafe == ASSUME ExecInv, ShellEval PROVE ExecInv'
<1>. DEFINE p == Program(guest.cmd)
            s == IF p.ends THEN "end" ELSE "hangs"
            h == [guest EXCEPT !.shell = s, !.xmit = guest.xmit \o p.out]
<1>1. /\ IsGuest(guest) /\ guest.shell = "eval" /\ left' = left
      /\ UNCHANGED <<conf, input, console, vm, uart, call>>
      /\ left = [typed |-> left.typed, noise |-> left.noise, printk |-> left.printk]
  BY Zenon DEF ExecInv, PortOK, ShellEval, Shell
<1>2. s \in {"end", "hangs"}
  OBVIOUS
<1>3. guest' = Puts([guest EXCEPT !.shell = s], p.out)
  BY Zenon DEF ShellEval, Shell
<1>. HIDE DEF p, s
<1>4. guest' = h
  BY <1>1, <1>3 DEF Puts, IsGuest
<1>5. /\ IsGuest(h) /\ h.isr = guest.isr /\ h.xmit = guest.xmit \o p.out /\ h.shell = s
      /\ h.cmd = guest.cmd /\ h.lines = guest.lines /\ h.line = guest.line
  BY <1>1, Zenon DEF IsGuest
<1>. HIDE DEF h
<1>6. IsGuest(guest)' /\ guest'.isr = guest.isr
  BY <1>4, <1>5, Zenon DEF IsGuest
<1>7. ASSUME NEW c \in Callers, call[c].pc # "idle", HasText(c) PROVE Keeps(c)
  <2>1. ~Silent(c)
    BY <1>1 DEF Silent, Idling
  <2>2. ASSUME Executing(c)
        PROVE  IsSeq(p.out) /\ Progress(Command(c), h, Typing, Printed(c) \o Words(p.out))
    <3>1. guest.cmd = <<Command(c)>>
          /\ Progress(Command(c), h, Typing, Printed(c) \o Words(Programs[Command(c)].out))
      BY <1>1, <1>2, <1>5, <2>2, ProgressEvals, Zenon DEF Executing
    <3>2. Command(c) \in DOMAIN Programs
      BY <1>7, CommandIs, Zenon
    <3>. DEFINE cmd == Command(c)
    <3>. HIDE DEF cmd
    <3>3. Program(<<cmd>>) = Programs[cmd] /\ IsSeq(Programs[cmd].out)
      BY <3>2, ProgramIs, Zenon DEF cmd
    <3>. QED BY <3>1, <3>3, Zenon DEF p, cmd
  <2>. QED BY <1>1, <1>4, <1>5, <1>7, <2>1, <2>2, Advances, Zenon
<1>. QED BY <1>1, <1>6, <1>7, ShellKeeps, Zenon

\* It prints the end line.
LEMMA ShellEndSafe == ASSUME ExecInv, ShellEnd PROVE ExecInv'
<1>. DEFINE code == Program(guest.cmd).code
            a == (<<"END">> \o code) \o Eol
            h == [guest EXCEPT !.shell = "read", !.cmd = <<>>, !.xmit = guest.xmit \o a]
<1>1. /\ IsGuest(guest) /\ guest.shell = "end" /\ left' = left
      /\ UNCHANGED <<conf, input, console, vm, uart, call>>
      /\ left = [typed |-> left.typed, noise |-> left.noise, printk |-> left.printk]
  BY Zenon DEF ExecInv, PortOK, ShellEnd, Shell
<1>2. guest' = Puts([guest EXCEPT !.shell = "read", !.cmd = <<>>], a)
  BY Zenon DEF ShellEnd, Shell
<1>. HIDE DEF a, code
<1>3. guest' = h
  BY <1>1, <1>2 DEF Puts, IsGuest
<1>4. /\ IsGuest(h) /\ h.isr = guest.isr /\ h.xmit = guest.xmit \o a /\ h.shell = "read"
      /\ h.lines = guest.lines /\ h.line = guest.line
  BY <1>1, Zenon DEF IsGuest
<1>. HIDE DEF h
<1>5. IsGuest(guest)' /\ guest'.isr = guest.isr
  BY <1>3, <1>4, Zenon DEF IsGuest
<1>6. ASSUME NEW c \in Callers, call[c].pc # "idle", HasText(c) PROVE Keeps(c)
  <2>1. ~Silent(c)
    BY <1>1 DEF Silent, Idling
  <2>2. ASSUME Executing(c)
        PROVE  IsSeq(a) /\ Progress(Command(c), h, Typing, Printed(c) \o Words(a))
    <3>1. guest.cmd = <<Command(c)>>
          /\ Progress(Command(c), h, Typing,
                      Printed(c) \o (<<"END">> \o Words(Programs[Command(c)].code)))
      BY <1>1, <1>4, <2>2, ProgressEnds, Zenon DEF Executing
    <3>2. Command(c) \in DOMAIN Programs
      BY <1>6, CommandIs, Zenon
    <3>. DEFINE cmd == Command(c)
    <3>. HIDE DEF cmd
    <3>3. Program(<<cmd>>) = Programs[cmd] /\ IsSeq(Programs[cmd].code)
      BY <3>2, ProgramIs, Zenon DEF cmd
    <3>4. code = Programs[cmd].code /\ IsSeq(code)
      BY <3>1, <3>3, Zenon DEF code, cmd
    <3>5. IsSeq(<<"END">>) /\ IsSeq(Eol) /\ Words(Eol) = <<>> /\ Words(<<"END">>) = <<"END">>
      BY ShortIsSeq, WordsOfMarkers, Zenon
    <3>6. IsSeq(<<"END">> \o code) /\ JoinsWords(<<"END">>, code)
      BY <3>4, <3>5, WordsConcat, Zenon
    <3>7. IsSeq(a) /\ JoinsWords(<<"END">> \o code, Eol) /\ IsSeq(Words(<<"END">> \o code))
      BY <3>5, <3>6, WordsConcat, Zenon DEF a
    <3>8. NeutralTo(Words(<<"END">> \o code))
      BY <3>7, EmptyIsNeutral, Zenon
    <3>9. Words(a) = <<"END">> \o Words(code)
      BY <3>5, <3>6, <3>7, <3>8, Zenon DEF a, JoinsWords, NeutralTo
    <3>. QED BY <3>1, <3>4, <3>7, <3>9, Zenon DEF cmd
  <2>. QED BY <1>1, <1>3, <1>4, <1>6, <2>1, <2>2, Advances, Zenon
<1>. QED BY <1>1, <1>5, <1>6, ShellKeeps, Zenon

\* The interrupt handler starts.
LEMMA InterruptSafe == ASSUME ExecInv, Interrupt PROVE ExecInv'
<1>1. /\ PortOK /\ IsSeq(console) /\ IsGuest(guest)
      /\ guest' = [guest EXCEPT !.irq = FALSE, !.isr = "iir"]
      /\ conf' = conf /\ input' = input /\ console' = console /\ vm' = vm /\ uart' = uart
      /\ call' = call /\ left' = left
  BY Zenon DEF ExecInv, PortOK, Interrupt
<1>2. IsGuest(guest') /\ guest'.isr # "rx" /\ SameShell(guest, guest') /\ guest'.xmit = guest.xmit
  BY <1>1, Zenon DEF IsGuest, SameShell
<1>3. PortOK'
  BY <1>1, <1>2, Zenon DEF PortOK, IsGuest, IsSerial, Typable
<1>4. IsSeq(<<>>) /\ console' = console \o <<>> /\ (Once' => Once) /\ Typing' = Typing
  BY <1>1, EmptyIsNeutral, ShortIsSeq, Zenon DEF NeutralTo, Once, Cfg, Typing
<1>5. ASSUME NEW c \in Callers, HasText(c) PROVE Keeps(c)
  <2>. DEFINE t == Text(c)
  <2>1. NeutralTo(t)
    BY <1>1, <1>5, TextIsSeq, EmptyIsNeutral, Zenon
  <2>2. IsSeq(guest.xmit) => IsSeq(guest'.xmit)
          /\ Words((Text(c) \o <<>>) \o guest'.xmit) = Words(Text(c) \o guest.xmit)
    BY <1>2, <2>1, Zenon DEF NeutralTo
  <2>. QED BY <1>1, <1>2, <1>4, <1>5, <2>2, DriverKeeps, Zenon
<1>. QED BY <1>1, <1>3, <1>4, <1>5, GuestKeeps, Zenon

\* A service prints.
LEMMA NoiseSafe == ASSUME ExecInv, Noise PROVE ExecInv'
<1>. DEFINE n == <<"noise">>
            g == [guest EXCEPT !.xmit = guest.xmit \o n]
<1>1. /\ IsSeq(console) /\ IsGuest(guest) /\ guest' = g
      /\ left' = [left EXCEPT !.noise = left.noise - 1]
      /\ UNCHANGED <<conf, input, console, vm, uart, call>>
      /\ left = [typed |-> left.typed, noise |-> left.noise, printk |-> left.printk]
  BY Zenon DEF ExecInv, PortOK, Noise, Shell, Puts
<1>2. left'.typed = left.typed
      /\ left' = [typed |-> left'.typed, noise |-> left'.noise, printk |-> left'.printk]
  BY <1>1
<1>3. IsGuest(g) /\ g.isr = guest.isr /\ g.xmit = guest.xmit \o n /\ SameShell(guest, g)
  BY <1>1, Zenon DEF IsGuest, SameShell
<1>. HIDE DEF g
<1>4. IsGuest(guest)' /\ guest'.isr = guest.isr
  BY <1>1, <1>3, Zenon DEF IsGuest
<1>5. IsSeq(n) /\ Words(n) = <<>> /\ IsSeq(<<>>)
  BY ShortIsSeq, WordsOfMarkers, Zenon
<1>. HIDE DEF n
<1>6. ASSUME NEW c \in Callers, HasText(c) PROVE Keeps(c)
  <2>. DEFINE t == Text(c)
              x == guest.xmit
              y == guest'.xmit
  <2>1. IsSeq(t) /\ NeutralTo(t)
    BY <1>1, <1>6, TextIsSeq, EmptyIsNeutral, Zenon
  <2>2. y = x \o n
    BY <1>1, <1>3, Zenon
  <2>. HIDE DEF t, x, y
  <2>3. ASSUME IsSeq(x) PROVE IsSeq(y) /\ Words((t \o <<>>) \o y) = Words(t \o x)
    <3>1. PrintsMore(t, x, n) /\ IsSeq(x \o n) /\ IsSeq(Words(t \o x))
      BY <1>5, <2>1, <2>3, PrintedMore, Zenon
    <3>2. NeutralTo(Words(t \o x))
      BY <3>1, EmptyIsNeutral, Zenon
    <3>. QED BY <1>5, <2>1, <2>2, <3>1, <3>2, Zenon DEF NeutralTo, PrintsMore
  <2>4. IsSeq(guest.xmit) => IsSeq(guest'.xmit)
          /\ Words((Text(c) \o <<>>) \o guest'.xmit) = Words(Text(c) \o guest.xmit)
    BY <2>3, Zenon DEF t, x, y
  <2>5. console' = console \o <<>> /\ Typing' = Typing /\ SameShell(guest, guest')
        /\ call' = call /\ conf' = conf
    BY <1>1, <1>3, EmptyIsNeutral, Zenon DEF NeutralTo, Typing
  <2>. QED BY <1>1, <1>5, <1>6, <2>4, <2>5, DriverKeeps, Zenon
<1>. QED BY <1>1, <1>2, <1>4, <1>6, ShellKeeps, Zenon

\* The kernel prints.
LEMMA PrintkSafe == ASSUME ExecInv, Printk PROVE ExecInv'
<1>. DEFINE n == <<"noise">>
            u == WriteIer(WriteThr(WriteIer(uart, {})), uart.ier)
            g == Inject(guest, u)
<1>1. /\ PortOK /\ IsSeq(console) /\ IsGuest(guest) /\ IsSerial(uart)
      /\ guest' = g /\ uart' = u /\ console' = Append(console, "noise")
      /\ left' = [left EXCEPT !.printk = left.printk - 1]
      /\ conf' = conf /\ input' = input /\ vm' = vm /\ call' = call
      /\ left = [typed |-> left.typed, noise |-> left.noise, printk |-> left.printk]
  BY Zenon DEF ExecInv, PortOK, Printk
<1>2. left'.typed = left.typed
      /\ left' = [typed |-> left'.typed, noise |-> left'.noise, printk |-> left'.printk]
  BY <1>1
<1>3. IsSerial(u) /\ u.queue = uart.queue
  <2>1. IsSerial(WriteIer(uart, {})) /\ WriteIer(uart, {}).queue = uart.queue
    BY <1>1, RegistersKeepQueue, Zenon
  <2>2. IsSerial(WriteThr(WriteIer(uart, {}))) /\ WriteThr(WriteIer(uart, {})).queue = uart.queue
    BY <2>1, RegistersKeepQueue, Zenon
  <2>. QED BY <2>2, RegistersKeepQueue, Zenon
<1>4. IsGuest(g) /\ SameShell(guest, g) /\ g.xmit = guest.xmit /\ g.isr = guest.isr
  BY <1>1, InjectIs, Zenon
<1>. HIDE DEF g, u
<1>5. PortOK'
  <2>1. IsGuest(guest)' /\ IsSerial(uart)' /\ uart'.queue = uart.queue /\ guest'.isr = guest.isr
    BY <1>1, <1>3, <1>4, Zenon DEF IsGuest, IsSerial
  <2>. QED BY <1>1, <1>2, <2>1, Zenon DEF PortOK, Typable
<1>6. IsSeq(n) /\ console' = console \o n
  <2>. DEFINE S == {console[i] : i \in 1 .. Len(console)} \cup {"noise"}
  <2>1. console \in Seq(S) /\ "noise" \in S
    BY <1>1 DEF IsSeq
  <2>. HIDE DEF S
  <2>2. Append(console, "noise") = console \o <<"noise">>
    BY <2>1
  <2>. QED BY <1>1, <2>2, ShortIsSeq, Zenon
<1>7. (Once' => Once) /\ Typing' = Typing /\ SameShell(guest, guest')
  BY <1>1, <1>3, <1>4, Zenon DEF Once, Cfg, Typing
<1>8. ASSUME NEW c \in Callers, HasText(c) PROVE Keeps(c)
  <2>. DEFINE t == Text(c)
              x == guest.xmit
  <2>1. IsSeq(t) /\ guest'.xmit = x
    BY <1>1, <1>4, <1>8, TextIsSeq, Zenon
  <2>. HIDE DEF t, x
  <2>2. IsSeq(x) => NoiseIsNoWord(t, x)
    BY <2>1, PrintedNoise, Zenon
  <2>3. IsSeq(x) => IsSeq(guest'.xmit) /\ Words((t \o n) \o guest'.xmit) = Words(t \o x)
    BY <2>1, <2>2, Zenon DEF NoiseIsNoWord
  <2>4. IsSeq(guest.xmit) => IsSeq(guest'.xmit)
          /\ Words((Text(c) \o n) \o guest'.xmit) = Words(Text(c) \o guest.xmit)
    BY <2>3, Zenon DEF t, x
  <2>. QED BY <1>1, <1>6, <1>7, <1>8, <2>4, DriverKeeps, Zenon
<1>. QED BY <1>1, <1>5, <1>6, <1>7, <1>8, GuestKeeps, Zenon

\* The thread ends.  A pooled VM's output is then there twice, and nothing is
\* claimed of it any more.
LEMMA EndSafe == ASSUME ExecInv, VmEnds PROVE ExecInv'
<1>1. /\ PortOK /\ IsSeq(console) /\ vm' = "ended" /\ vm = "returned"
      /\ conf' = conf /\ input' = input /\ call' = call /\ uart' = uart /\ guest' = guest /\ left' = left
      /\ console' = IF Cfg.pooled THEN console \o console ELSE console
  BY Zenon DEF ExecInv, VmEnds
<1>2. PortOK'
  BY <1>1, Zenon DEF PortOK, IsGuest, IsSerial, Typable
<1>3. Once' => Once
  BY <1>1 DEF Once, Cfg
<1>4. CASE Cfg.pooled
  <2>1. ~Once'
    BY <1>1, <1>4, Zenon DEF Once, Cfg
  <2>2. console' = console \o console
    BY <1>1, <1>4, Zenon
  <2>. QED BY <1>1, <1>2, <2>1, <2>2, GuestKeeps, Zenon
<1>5. CASE ~Cfg.pooled
  <2>1. IsSeq(<<>>) /\ console' = console /\ console' = console \o <<>>
    BY <1>1, <1>5, EmptyIsNeutral, ShortIsSeq, Zenon DEF NeutralTo
  <2>2. ASSUME NEW c \in Callers PROVE Keeps(c)
    BY <1>1, <2>1, Zenon DEF Keeps, Silent, Executing, Idling, Progress, Coming, Arrived, Typing,
       Printed, Text, Command, Cfg, IsSeq
  <2>. QED BY <1>1, <1>2, <1>3, <2>1, <2>2, GuestKeeps, Zenon
<1>. QED BY <1>4, <1>5

-----------------------------------------------------------------------------
(* What an exec call makes of the text.                                    *)

\* A token that a text does not have.
Free(s, m) == \A i \in 1 .. Len(s) : s[i] # m

\* Nor do its words.
LEMMA WordsFree == ASSUME NEW s, IsSeq(s), NEW m, Free(s, m) PROVE IsSeq(Words(s)) /\ Free(Words(s), m)
<1>. DEFINE S == {s[i] : i \in 1 .. Len(s)}
            w == Words(s)
<1>1. s \in Seq(S) /\ m \notin S
  BY DEF IsSeq, Free
<1>. HIDE DEF S, w
<1>2. w \in Seq(S)
  BY <1>1, WordsJoin, Zenon DEF w
<1>3. \A i \in 1 .. Len(w) : w[i] \in S
  BY <1>2
<1>. QED BY <1>1, <1>2, <1>3, SeqOver, Zenon DEF Free, w

\* Nor have two texts what neither has.
LEMMA FreeConcat ==
  ASSUME NEW a, NEW b, NEW m, IsSeq(a), IsSeq(b), Free(a, m), Free(b, m)
  PROVE  IsSeq(a \o b) /\ Free(a \o b, m)
<1>. DEFINE c == a \o b
<1>1. /\ IsSeq(c) /\ Len(c) = Len(a) + Len(b) /\ Len(a) \in Nat /\ Len(b) \in Nat
      /\ \A i \in 1 .. Len(a) : c[i] = a[i]
      /\ \A i \in Len(a) + 1 .. Len(a) + Len(b) : c[i] = b[i - Len(a)]
  BY ConcatIsSeq, Zenon
<1>. HIDE DEF c
<1>2. ASSUME NEW i \in 1 .. Len(c) PROVE c[i] # m
  <2>1. CASE i <= Len(a)
    <3>1. i \in 1 .. Len(a)
      BY <2>1, <1>1
    <3>. QED BY <3>1, <1>1, Zenon DEF Free
  <2>2. CASE i > Len(a)
    <3>1. i \in Len(a) + 1 .. Len(a) + Len(b) /\ i - Len(a) \in 1 .. Len(b)
      BY <2>2, <1>1
    <3>. QED BY <3>1, <1>1, Zenon DEF Free
  <2>. QED BY <2>1, <2>2, <1>1
<1>. QED BY <1>1, <1>2, Zenon DEF Free, c

\* A text around a mark.
Around(a, m, b) == (a \o <<m>>) \o b
IsAround(z, a, m, b) ==
  /\ IsSeq(z) /\ Len(z) = Len(a) + 1 + Len(b) /\ Len(a) \in Nat /\ Len(b) \in Nat
  /\ \A i \in 1 .. Len(a) : z[i] = a[i]
  /\ z[Len(a) + 1] = m
  /\ \A i \in 1 .. Len(b) : z[Len(a) + 1 + i] = b[i]
\* Where the mark is.
LEMMA AroundIs ==
  ASSUME NEW a, NEW b, NEW m, IsSeq(a), IsSeq(b) PROVE IsAround(Around(a, m, b), a, m, b)
<1>. DEFINE n == <<m>>
            c == a \o n
            d == c \o b
<1>1. IsSeq(n) /\ Len(n) = 1 /\ n[1] = m
  BY ShortIsSeq
<1>0. Around(a, m, b) = d
  BY Zenon DEF Around
<1>. HIDE DEF n
<1>2. /\ IsSeq(c) /\ Len(c) = Len(a) + 1 /\ Len(a) \in Nat
      /\ \A i \in 1 .. Len(a) : c[i] = a[i]
      /\ \A i \in Len(a) + 1 .. Len(a) + Len(n) : c[i] = n[i - Len(a)]
  <2>1. /\ IsSeq(c) /\ Len(c) = Len(a) + Len(n) /\ Len(a) \in Nat
        /\ \A i \in 1 .. Len(a) : c[i] = a[i]
        /\ \A i \in Len(a) + 1 .. Len(a) + Len(n) : c[i] = n[i - Len(a)]
    BY <1>1, ConcatIsSeq, Zenon
  <2>. QED BY <1>1, <2>1, Zenon
<1>3. c[Len(a) + 1] = m
  <2>1. Len(a) + 1 \in Len(a) + 1 .. Len(a) + Len(n) /\ (Len(a) + 1) - Len(a) = 1
    BY <1>1, <1>2
  <2>. QED BY <1>1, <1>2, <2>1, Zenon
<1>. HIDE DEF c
<1>4. /\ IsSeq(d) /\ Len(d) = Len(c) + Len(b) /\ Len(b) \in Nat
      /\ \A i \in 1 .. Len(c) : d[i] = c[i]
      /\ \A i \in Len(c) + 1 .. Len(c) + Len(b) : d[i] = b[i - Len(c)]
  BY <1>2, ConcatIsSeq, Zenon
<1>. HIDE DEF d
<1>6. \A i \in 1 .. Len(b) : d[Len(a) + 1 + i] = b[i]
  <2>1. ASSUME NEW i \in 1 .. Len(b) PROVE d[Len(a) + 1 + i] = b[i]
    <3>1. /\ Len(a) + 1 + i \in Len(c) + 1 .. Len(c) + Len(b)
          /\ (Len(a) + 1 + i) - Len(c) = i
      BY <1>2, <1>4
    <3>. QED BY <3>1, <1>4, Zenon
  <2>. QED BY <2>1
<1>7. \A i \in 1 .. Len(a) : i \in 1 .. Len(c)
  BY <1>2
<1>8. Len(a) + 1 \in 1 .. Len(c)
  BY <1>2
<1>9. Len(d) = Len(a) + 1 + Len(b)
  BY <1>2, <1>4
<1>. QED BY <1>2, <1>3, <1>4, <1>0, <1>6, <1>7, <1>8, <1>9, Zenon DEF IsAround

\* The first mark of a text cuts it in one way.
SameCut(a, b, c, d) == a = c /\ b = d
\* Two texts around a mark that neither beginning has are the same two texts.
LEMMA CutOnce ==
  ASSUME NEW a, NEW b, NEW c, NEW d, NEW m, IsSeq(a), IsSeq(b), IsSeq(c), IsSeq(d),
         Free(a, m), Free(c, m), NEW z, IsAround(z, a, m, b), IsAround(z, c, m, d)
  PROVE  SameCut(a, b, c, d)
<1>1. /\ Len(z) = Len(a) + 1 + Len(b) /\ Len(a) \in Nat /\ Len(b) \in Nat
      /\ \A i \in 1 .. Len(a) : z[i] = a[i]
      /\ z[Len(a) + 1] = m
      /\ \A i \in 1 .. Len(b) : z[Len(a) + 1 + i] = b[i]
  BY Zenon DEF IsAround
<1>2. /\ Len(z) = Len(c) + 1 + Len(d) /\ Len(c) \in Nat /\ Len(d) \in Nat
      /\ \A i \in 1 .. Len(c) : z[i] = c[i]
      /\ z[Len(c) + 1] = m
      /\ \A i \in 1 .. Len(d) : z[Len(c) + 1 + i] = d[i]
  BY Zenon DEF IsAround
<1>3. Len(a) = Len(c)
  <2>1. ASSUME Len(a) < Len(c) PROVE FALSE
    <3>1. Len(a) + 1 \in 1 .. Len(c)
      BY <1>1, <1>2, <2>1
    <3>. QED BY <3>1, <1>1, <1>2, Zenon DEF Free
  <2>2. ASSUME Len(c) < Len(a) PROVE FALSE
    <3>1. Len(c) + 1 \in 1 .. Len(a)
      BY <1>1, <1>2, <2>2
    <3>. QED BY <3>1, <1>1, <1>2, Zenon DEF Free
  <2>. QED BY <1>1, <1>2, <2>1, <2>2
<1>4. Len(b) = Len(d)
  BY <1>1, <1>2, <1>3
<1>5. a = c
  BY <1>1, <1>2, <1>3, SameElements, Zenon
<1>6. b = d
  <2>1. \A i \in 1 .. Len(b) : b[i] = d[i]
    BY <1>1, <1>2, <1>3, <1>4
  <2>. QED BY <1>4, <2>1, SameElements, Zenon
<1>. QED BY <1>5, <1>6 DEF SameCut

\* The part p of a text s from place m to place n.
IsPart(p, s, m, n) ==
  IsSeq(p) /\ Len(p) = (n - m) + 1 /\ \A i \in 1 .. (n - m) + 1 : p[i] = s[(m + i) - 1]
\* What SubSeq returns of a text.
LEMMA PartIs ==
  ASSUME NEW s, IsSeq(s), NEW m \in Nat \ {0}, NEW n \in Nat, m <= n + 1, n <= Len(s)
  PROVE  IsPart(SubSeq(s, m, n), s, m, n)
<1>. DEFINE S == {s[i] : i \in 1 .. Len(s)}
            p == SubSeq(s, m, n)
<1>1. s \in Seq(S)
  BY DEF IsSeq
<1>. HIDE DEF S
<1>2. /\ p \in Seq(S) /\ Len(p) = (n - m) + 1
      /\ \A i \in 1 .. (n - m) + 1 : p[i] = s[(m + i) - 1]
  BY <1>1
<1>. HIDE DEF p
<1>3. IsSeq(p)
  BY <1>2, SeqOver, Zenon
<1>. QED BY <1>2, <1>3, Zenon DEF IsPart, p

\* A text is its beginning and its rest.
Splits(s, k, n) == SubSeq(s, 1, n) = SubSeq(s, 1, k) \o SubSeq(s, k + 1, n)
\* The beginning and the rest, put together.
LEMMA PartsJoin ==
  ASSUME NEW s, IsSeq(s), NEW k \in Nat, NEW n \in Nat, k <= n, n <= Len(s)
  PROVE  Splits(s, k, n) /\ SubSeq(s, 1, Len(s)) = s
<1>. DEFINE S == {s[i] : i \in 1 .. Len(s)}
<1>1. s \in Seq(S)
  BY DEF IsSeq
<1>. HIDE DEF S
<1>2. SubSeq(s, 1, Len(s)) = s
  BY <1>1
<1>. DEFINE a == SubSeq(s, 1, k)
            b == SubSeq(s, k + 1, n)
            c == SubSeq(s, 1, n)
            d == a \o b
<1>3. /\ IsPart(a, s, 1, k) /\ IsPart(b, s, k + 1, n) /\ IsPart(c, s, 1, n)
  <2>1. 1 \in Nat \ {0} /\ k + 1 \in Nat \ {0} /\ 1 <= k + 1 /\ k + 1 <= n + 1 /\ 1 <= n + 1
        /\ k <= Len(s)
    BY <1>1
  <2>. QED BY <2>1, PartIs, Zenon
<1>. HIDE DEF a, b, c
<1>4. /\ IsSeq(d) /\ Len(d) = Len(a) + Len(b)
      /\ \A i \in 1 .. Len(a) : d[i] = a[i]
      /\ \A i \in Len(a) + 1 .. Len(a) + Len(b) : d[i] = b[i - Len(a)]
  <2>1. IsSeq(a) /\ IsSeq(b)
    BY <1>3, Zenon DEF IsPart
  <2>. QED BY <2>1, ConcatIsSeq, Zenon
<1>. HIDE DEF d
<1>5. Len(a) = k /\ Len(b) = n - k /\ Len(c) = n /\ Len(d) = n
  BY <1>3, <1>4 DEF IsPart
<1>6. ASSUME NEW i \in 1 .. Len(c) PROVE c[i] = d[i]
  <2>1. i \in 1 .. n /\ i \in 1 .. (n - 1) + 1 /\ (1 + i) - 1 = i
    BY <1>5
  <2>2. c[i] = s[i]
    BY <1>3, <2>1, Zenon DEF IsPart
  <2>3. CASE i <= k
    <3>1. i \in 1 .. k /\ i \in 1 .. (k - 1) + 1
      BY <2>1, <2>3
    <3>2. a[i] = s[i]
      BY <1>3, <2>1, <3>1, Zenon DEF IsPart
    <3>. QED BY <1>4, <1>5, <2>2, <3>1, <3>2, Zenon
  <2>4. CASE i > k
    <3>. DEFINE j == i - k
    <3>1. /\ i \in k + 1 .. k + (n - k) /\ j \in 1 .. (n - (k + 1)) + 1 /\ ((k + 1) + j) - 1 = i
      BY <2>1, <2>4
    <3>2. d[i] = b[j]
      BY <1>4, <1>5, <3>1, Zenon
    <3>. HIDE DEF j
    <3>3. b[j] = s[i]
      BY <1>3, <3>1, Zenon DEF IsPart
    <3>. QED BY <2>2, <3>2, <3>3, Zenon
  <2>. QED BY <2>1, <2>3, <2>4
<1>7. IsSeq(c) /\ Len(c) = Len(d)
  BY <1>3, <1>5, Zenon DEF IsPart
<1>8. c = d
  BY <1>4, <1>6, <1>7, SameElements, Zenon
<1>. QED BY <1>2, <1>8, Zenon DEF Splits, a, b, c, d

\* A place of a text cuts it.
Cuts(s, f, n) == SubSeq(s, 1, n) = Around(SubSeq(s, 1, f - 1), s[f], SubSeq(s, f + 1, n))
\* What is before a place, its token and what is after it.
LEMMA PlaceCuts ==
  ASSUME NEW s, IsSeq(s), NEW n \in Nat, n <= Len(s), NEW f \in 1 .. n
  PROVE  Cuts(s, f, n)
<1>. DEFINE S == {s[i] : i \in 1 .. Len(s)}
            g == f - 1
            b == SubSeq(s, f + 1, n)
            a == SubSeq(s, 1, g)
            e == SubSeq(s, g + 1, f)
<1>1. s \in Seq(S)
  BY DEF IsSeq
<1>. HIDE DEF S
<1>2. g \in Nat /\ f \in Nat /\ g <= f /\ f <= n /\ f <= Len(s) /\ g + 1 = f
  BY <1>1
<1>3. SubSeq(s, f, f) = <<s[f]>>
  <2>. DEFINE p == SubSeq(s, f, f)
              r == <<s[f]>>
  <2>1. f \in Nat \ {0} /\ f <= f + 1
    BY <1>2
  <2>2. IsPart(p, s, f, f)
    BY <1>2, <2>1, PartIs, Zenon
  <2>3. IsSeq(r) /\ Len(r) = 1 /\ r[1] = s[f]
    BY ShortIsSeq
  <2>. HIDE DEF p, r
  <2>4. (f - f) + 1 = 1 /\ 1 \in 1 .. 1 /\ (f + 1) - 1 = f /\ \A i \in 1 .. 1 : i = 1
    BY <1>2
  <2>5. IsSeq(p) /\ Len(p) = 1 /\ p[1] = s[f]
    BY <2>2, <2>4, Zenon DEF IsPart
  <2>6. p = r
    BY <2>3, <2>4, <2>5, SameElements, Zenon
  <2>. QED BY <2>6, Zenon DEF p, r
<1>. HIDE DEF g
<1>4. Splits(s, f, n) /\ Splits(s, g, f)
  BY <1>2, PartsJoin, Zenon
<1>5. e = <<s[f]>>
  BY <1>2, <1>3, Zenon
<1>6. SubSeq(s, 1, n) = SubSeq(s, 1, f) \o b /\ SubSeq(s, 1, f) = a \o e
  BY <1>4, Zenon DEF Splits
<1>7. SubSeq(s, 1, n) = (a \o <<s[f]>>) \o b
  BY <1>5, <1>6, Zenon
<1>. QED BY <1>7, Zenon DEF Cuts, Around, g

\* The words around a mark.
WordsAroundIt(a, m, b) == Words(Around(a, m, b)) = Around(Words(a), m, Words(b))
\* A mark is a word of its own between the words before and after it.
LEMMA WordsAround ==
  ASSUME NEW a, NEW b, NEW m, IsSeq(a), IsSeq(b), m \notin Blank
  PROVE  WordsAroundIt(a, m, b) /\ IsSeq(Words(a)) /\ IsSeq(Words(b))
<1>. DEFINE n == <<m>>
            c == a \o n
<1>1. IsSeq(n) /\ Words(n) = n
  BY ShortIsSeq, WordsOfOne, Zenon
<1>2. Around(a, m, b) = c \o b
  BY Zenon DEF Around
<1>3. Around(Words(a), m, Words(b)) = (Words(a) \o n) \o Words(b)
  BY Zenon DEF Around
<1>. HIDE DEF n
<1>4. JoinsWords(a, n) /\ IsSeq(c) /\ IsSeq(Words(a))
  BY <1>1, WordsConcat, Zenon
<1>5. Words(c) = Words(a) \o n
  BY <1>1, <1>4, Zenon DEF JoinsWords
<1>. HIDE DEF c
<1>6. JoinsWords(c, b) /\ IsSeq(Words(b))
  BY <1>4, WordsConcat, Zenon
<1>. QED BY <1>2, <1>3, <1>4, <1>5, <1>6, Zenon DEF JoinsWords, WordsAroundIt

\* str::find gives the first place of a marker.
FirstPlace(f, s, m) == f \in 1 .. Len(s) /\ s[f] = m /\ \A j \in 1 .. f - 1 : s[j] # m
\* The place Find returns for a marker that is there.
LEMMA FindIs ==
  ASSUME NEW s, IsSeq(s), NEW m, m \in Range(s) PROVE FirstPlace(Find(s, m), s, m)
<1>1. Len(s) \in Nat /\ DOMAIN s = 1 .. Len(s)
  BY DEF IsSeq
<1>. DEFINE T == {i \in 1 .. Len(s) : s[i] = m}
<1>2. T \in SUBSET Nat
  BY <1>1
<1>3. T # {}
  BY <1>1, Zenon DEF Range
<1>4. PICK n \in T : \A k \in T : n <= k
  BY <1>2, <1>3, LeastNumber, Zenon
<1>5. ASSUME NEW j \in 1 .. n - 1 PROVE s[j] # m
  <2>1. j \in 1 .. Len(s) /\ ~(n <= j)
    BY <1>1, <1>4
  <2>. QED BY <1>4, <2>1, Zenon
<1>6. n \in DOMAIN s /\ s[n] = m /\ \A j \in 1 .. n - 1 : s[j] # m
  BY <1>1, <1>4, <1>5, Zenon
<1>. DEFINE P(i) == s[i] = m /\ \A j \in 1 .. i - 1 : s[j] # m
<1>7. Find(s, m) = CHOOSE i \in DOMAIN s : P(i)
  BY Zenon DEF Find
<1>8. n \in DOMAIN s /\ P(n)
  BY <1>6, Zenon
<1>9. (CHOOSE i \in DOMAIN s : P(i)) \in DOMAIN s /\ P(CHOOSE i \in DOMAIN s : P(i))
  <2>. HIDE DEF P
  <2>. QED BY <1>8, Zenon
<1>. QED BY <1>1, <1>7, <1>9, Zenon DEF FirstPlace

\* What is before it has no marker.
LEMMA FreeBefore ==
  ASSUME NEW s, IsSeq(s), NEW m, NEW f, FirstPlace(f, s, m)
  PROVE  IsSeq(SubSeq(s, 1, f - 1)) /\ Free(SubSeq(s, 1, f - 1), m)
<1>. DEFINE p == SubSeq(s, 1, f - 1)
<1>1. Len(s) \in Nat
  BY DEF IsSeq
<1>2. 1 \in Nat \ {0} /\ f - 1 \in Nat /\ 1 <= (f - 1) + 1 /\ f - 1 <= Len(s)
  BY <1>1 DEF FirstPlace
<1>3. IsPart(p, s, 1, f - 1)
  BY <1>2, PartIs, Zenon
<1>. HIDE DEF p
<1>4. ASSUME NEW i \in 1 .. Len(p) PROVE p[i] # m
  <2>1. i \in 1 .. f - 1 /\ i \in 1 .. ((f - 1) - 1) + 1 /\ (1 + i) - 1 = i
    BY <1>2, <1>3 DEF IsPart
  <2>. QED BY <1>3, <2>1, Zenon DEF IsPart, FirstPlace
<1>. QED BY <1>3, <1>4, Zenon DEF IsPart, Free, p

\* Line ends and noise are no words.
LEMMA WordsBlank ==
  ASSUME NEW s, IsSeq(s), \A i \in 1 .. Len(s) : s[i] \in Blank PROVE Words(s) = <<>>
<1>. DEFINE S == {s[i] : i \in 1 .. Len(s)}
<1>1. s \in Seq(S)
  BY DEF IsSeq
<1>2. Len(s) \in Nat
  BY DEF IsSeq
<1>. HIDE DEF S
<1>3. PICK u \in [0 .. Len(s) -> Seq(S)] : WordsUpTo(u, s) /\ Words(s) = u[Len(s)]
  BY <1>1, WordsAre, Zenon
<1>. DEFINE T == {n \in 0 .. Len(s) : u[n] = <<>>}
<1>4. 0 \in T
  BY <1>2, <1>3 DEF WordsUpTo
<1>5. ASSUME NEW n \in 1 .. Len(s), n - 1 \in T PROVE n \in T
  <2>1. n \in 0 .. Len(s) /\ n # 0
    BY <1>2
  <2>2. u[n] = u[n - 1]
    BY <1>3, <2>1, Zenon DEF WordsUpTo
  <2>. QED BY <1>5, <2>1, <2>2, Zenon
<1>. HIDE DEF T
<1>6. \A n \in 0 .. Len(s) : n \in T
  BY <1>2, <1>4, <1>5, LoopInduction, Zenon
<1>7. Len(s) \in 0 .. Len(s)
  BY <1>2
<1>. QED BY <1>3, <1>6, <1>7, Zenon DEF T

\* The first and the last place of a set of them.
Between(K, lo, hi) == lo \in K /\ hi \in K /\ \A k \in K : lo <= k /\ k <= hi
\* Min and Max of a set of places are its ends.
LEMMA EndsExist ==
  ASSUME NEW n \in Nat, NEW K \in SUBSET (1 .. n), K # {} PROVE Between(K, Min(K), Max(K))
<1>1. K \in SUBSET Nat
  OBVIOUS
<1>2. PICK lo \in K : \A k \in K : lo <= k
  BY <1>1, LeastNumber, Zenon
<1>. DEFINE T == {n - k : k \in K}
<1>3. T \in SUBSET Nat /\ T # {}
  OBVIOUS
<1>4. PICK m \in T : \A t \in T : m <= t
  <2>. HIDE DEF T
  <2>. QED BY <1>3, LeastNumber, Zenon
<1>5. PICK hi \in K : m = n - hi
  BY <1>4, Zenon
<1>6. ASSUME NEW k \in K PROVE hi >= k
  <2>1. n - hi <= n - k
    BY <1>4, <1>5, Zenon
  <2>. QED BY <2>1, <1>5
<1>7. Min(K) \in K /\ \A y \in K : Min(K) <= y
  BY <1>2, Zenon DEF Min
<1>8. Max(K) \in K /\ \A y \in K : Max(K) >= y
  BY <1>5, <1>6, Zenon DEF Max
<1>9. \A y \in K : y <= Max(K)
  BY <1>8
<1>. QED BY <1>7, <1>8, <1>9, Zenon DEF Between

\* trim_matches of line ends leaves the words.
TrimsTo(s, cs, r) == IsSeq(r) /\ Words(r) = Words(s)
\* What is trimmed off has no word.
LEMMA TrimKeepsWords ==
  ASSUME NEW s, IsSeq(s), NEW cs, cs \subseteq Blank
  PROVE  TrimsTo(s, cs, TrimMatches(s, cs))
<1>. DEFINE N == Len(s)
            K == {i \in DOMAIN s : s[i] \notin cs}
            lo == Min(K)
            hi == Max(K)
<1>1. N \in Nat /\ DOMAIN s = 1 .. N
  BY DEF IsSeq
<1>2. K \in SUBSET (1 .. N)
  BY <1>1, Zenon
<1>3. CASE K = {}
  <2>1. TrimMatches(s, cs) = <<>>
    BY <1>3, Zenon DEF TrimMatches
  <2>2. \A i \in 1 .. Len(s) : s[i] \in Blank
    BY <1>1, <1>3, Zenon
  <2>. QED BY <2>1, <2>2, WordsBlank, WordsOfOne, ShortIsSeq, Zenon DEF TrimsTo
<1>4. CASE K # {}
  <2>. DEFINE r == SubSeq(s, lo, hi)
              k == lo - 1
              a == SubSeq(s, 1, k)
              b == SubSeq(s, hi + 1, N)
              ab == SubSeq(s, 1, hi)
  <2>1. TrimMatches(s, cs) = r
    BY <1>4, Zenon DEF TrimMatches
  <2>2. Between(K, lo, hi)
    <3>. HIDE DEF N, K
    <3>. QED BY <1>1, <1>2, <1>4, EndsExist, Zenon
  <2>3. \A i \in 1 .. N : i \notin K => s[i] \in Blank
    BY <1>1, Zenon
  <2>. HIDE DEF N, K, lo, hi
  <2>4. /\ lo \in 1 .. N /\ hi \in 1 .. N /\ lo <= hi
        /\ \A i \in 1 .. N : i < lo \/ i > hi => i \notin K
    BY <1>1, <1>2, <2>2 DEF Between
  <2>5. /\ k \in Nat /\ k <= hi /\ hi \in Nat /\ hi <= N /\ N <= N /\ k + 1 = lo
        /\ 1 \in Nat \ {0} /\ 1 <= k + 1 /\ k <= N /\ lo \in Nat \ {0} /\ lo <= hi + 1
        /\ hi + 1 \in Nat \ {0} /\ hi + 1 <= N + 1
    BY <1>1, <2>4
  <2>. HIDE DEF k
  <2>6. Splits(s, k, hi) /\ Splits(s, hi, N) /\ SubSeq(s, 1, N) = s
    BY <1>1, <2>5, PartsJoin, Zenon DEF N
  <2>7. IsPart(a, s, 1, k) /\ IsPart(r, s, lo, hi) /\ IsPart(b, s, hi + 1, N)
    BY <1>1, <2>5, PartIs, Zenon DEF N
  <2>8. ab = a \o r /\ s = ab \o b
    BY <2>5, <2>6, Zenon DEF Splits
  <2>. HIDE DEF a, b, r, ab
  <2>9. IsSeq(a) /\ IsSeq(b) /\ IsSeq(r)
    BY <2>7, Zenon DEF IsPart
  <2>10. Words(a) = <<>>
    <3>1. ASSUME NEW i \in 1 .. Len(a) PROVE a[i] \in Blank
      <4>1. i \in 1 .. (k - 1) + 1 /\ (1 + i) - 1 = i /\ i \in 1 .. N /\ i < lo
        BY <1>1, <2>4, <2>5, <2>7 DEF IsPart
      <4>. QED BY <4>1, <2>3, <2>4, <2>7, Zenon DEF IsPart
    <3>. QED BY <2>9, <3>1, WordsBlank, Zenon
  <2>11. Words(b) = <<>>
    <3>1. ASSUME NEW i \in 1 .. Len(b) PROVE b[i] \in Blank
      <4>1. /\ i \in 1 .. (N - (hi + 1)) + 1 /\ ((hi + 1) + i) - 1 \in 1 .. N
            /\ ((hi + 1) + i) - 1 > hi
        BY <1>1, <2>4, <2>5, <2>7 DEF IsPart
      <4>. QED BY <4>1, <2>3, <2>4, <2>7, Zenon DEF IsPart
    <3>. QED BY <2>9, <3>1, WordsBlank, Zenon
  <2>12. JoinsWords(a, r) /\ IsSeq(a \o r) /\ IsSeq(Words(r))
    BY <2>9, WordsConcat, Zenon
  <2>13. JoinsWords(ab, b) /\ IsSeq(ab)
    BY <2>8, <2>9, <2>12, WordsConcat, Zenon
  <2>14. NeutralTo(Words(r))
    BY <2>12, EmptyIsNeutral, Zenon
  <2>15. Words(ab) = Words(r)
    BY <2>8, <2>10, <2>12, <2>14, Zenon DEF JoinsWords, NeutralTo
  <2>16. Words(s) = Words(r)
    BY <2>8, <2>11, <2>13, <2>14, <2>15, Zenon DEF JoinsWords, NeutralTo
  <2>. QED BY <2>1, <2>9, <2>16, Zenon DEF TrimsTo
<1>. QED BY <1>3, <1>4, Zenon

\* The exit code before a line end is what is trimmed and parsed of it.
ParsesTo(code) == Parse(TrimMatches(code \o Eol, {"cr", "nl"})) = code
\* The digits between the end marker and the line end.
LEMMA CodeParses ==
  ASSUME NEW code \in Seq(Digits), code # <<>> PROVE ParsesTo(code)
<1>. DEFINE cs == {"cr", "nl"}
            L == Len(code)
            s == code \o Eol
            K == {i \in DOMAIN s : s[i] \notin cs}
            lo == Min(K)
            hi == Max(K)
<1>1. L \in Nat /\ L > 0 /\ IsSeq(code) /\ \A i \in 1 .. L : code[i] \in Digits
  BY SeqOver
<1>2. IsSeq(Eol) /\ Len(Eol) = 2 /\ \A i \in 1 .. 2 : Eol[i] \in cs
  BY ShortIsSeq, WordsOfMarkers DEF Eol
<1>3. /\ IsSeq(s) /\ Len(s) = L + Len(Eol)
      /\ \A i \in 1 .. L : s[i] = code[i]
      /\ \A i \in L + 1 .. L + Len(Eol) : s[i] = Eol[i - L]
  BY <1>1, <1>2, ConcatIsSeq, Zenon
<1>4. Digits \cap cs = {}
  BY ProgramsAssumption, Zenon
<1>. HIDE DEF s, cs
<1>5. DOMAIN s = 1 .. L + 2
  <2>1. DOMAIN s = 1 .. Len(s)
    BY <1>3 DEF IsSeq
  <2>. QED BY <1>2, <1>3, <2>1, Zenon
<1>6. K = 1 .. L
  <2>1. ASSUME NEW i \in 1 .. L + 2 PROVE s[i] \notin cs <=> i \in 1 .. L
    <3>1. CASE i <= L
      <4>1. i \in 1 .. L
        BY <1>1, <3>1
      <4>. QED BY <1>1, <1>3, <1>4, <4>1, Zenon
    <3>2. CASE i > L
      <4>1. i \notin 1 .. L /\ i \in L + 1 .. L + 2 /\ i - L \in 1 .. 2
        BY <1>1, <3>2
      <4>. QED BY <1>2, <1>3, <4>1, Zenon
    <3>. QED BY <1>1, <3>1, <3>2
  <2>2. \A i \in 1 .. L : i \in 1 .. L + 2
    BY <1>1
  <2>. QED BY <1>5, <2>1, <2>2, Zenon
<1>. HIDE DEF K
<1>7. Between(K, lo, hi)
  <2>1. K \in SUBSET (1 .. L) /\ K # {}
    BY <1>1, <1>6
  <2>. QED BY <1>1, <2>1, EndsExist, Zenon
<1>. HIDE DEF lo, hi
<1>8. lo = 1 /\ hi = L
  BY <1>1, <1>6, <1>7 DEF Between
<1>9. TrimMatches(s, cs) = SubSeq(s, lo, hi)
  <2>1. K # {}
    BY <1>7, Zenon DEF Between
  <2>. QED BY <2>1, Zenon DEF TrimMatches, K, lo, hi
<1>10. SubSeq(s, 1, L) = code
  <2>. DEFINE p == SubSeq(s, 1, L)
  <2>1. 1 \in Nat \ {0} /\ 1 <= L + 1 /\ L <= Len(s) /\ (L - 1) + 1 = L
        /\ \A i \in 1 .. L : (1 + i) - 1 = i
    BY <1>1, <1>2, <1>3
  <2>2. IsPart(p, s, 1, L)
    BY <1>1, <1>3, <2>1, PartIs, Zenon
  <2>. HIDE DEF p
  <2>3. IsSeq(p) /\ Len(p) = L /\ \A i \in 1 .. L : p[i] = code[i]
    BY <1>3, <2>1, <2>2, Zenon DEF IsPart
  <2>4. p = code
    BY <1>1, <2>3, SameElements, Zenon
  <2>. QED BY <2>4, Zenon DEF p
<1>11. Range(code) \subseteq Digits
  BY DEF Range
<1>12. Parse(code) = code
  BY <1>11, Zenon DEF Parse
<1>13. TrimMatches(s, cs) = code
  BY <1>8, <1>9, <1>10, Zenon
<1>. QED BY <1>12, <1>13, Zenon DEF ParsesTo, s, cs

\* A text around a mark has the mark.
LEMMA AroundHas ==
  ASSUME NEW a, NEW b, NEW m, IsSeq(a), IsSeq(b) PROVE ~Free(Around(a, m, b), m)
<1>. DEFINE z == Around(a, m, b)
<1>1. IsAround(z, a, m, b)
  BY AroundIs, Zenon
<1>. HIDE DEF z
<1>2. Len(a) + 1 \in 1 .. Len(z) /\ z[Len(a) + 1] = m
  BY <1>1 DEF IsAround
<1>. QED BY <1>2, Zenon DEF Free, z

\* The words that come before a command's end marker.
LEMMA EchoesAre ==
  ASSUME NEW e \in Echoes PROVE IsSeq(e) /\ Free(e, "BEGIN") /\ Free(e, "END")
BY SeqOver DEF Echoes, Free

\* The output and the code of a command are texts, and the output has no marker.
LEMMA OutputIs ==
  ASSUME NEW cmd \in DOMAIN Programs
  PROVE  /\ IsSeq(Words(Programs[cmd].out)) /\ IsSeq(Words(Programs[cmd].code))
         /\ Free(Words(Programs[cmd].out), "BEGIN") /\ Free(Words(Programs[cmd].out), "END")
<1>. DEFINE o == Programs[cmd].out
            k == Programs[cmd].code
<1>1. /\ o \in Seq(Range(o)) /\ "BEGIN" \notin Range(o) /\ "END" \notin Range(o)
      /\ k \in Seq(Digits)
  BY ProgramsAssumption, Zenon
<1>. HIDE DEF o, k
<1>2. IsSeq(o) /\ IsSeq(k)
  BY <1>1, SeqOver, Zenon
<1>3. Free(o, "BEGIN") /\ Free(o, "END")
  BY <1>1 DEF Free, Range
<1>4. NeutralTo(k) /\ IsSeq(Words(k))
  BY <1>2, EmptyIsNeutral, WordsConcat, Zenon
<1>. QED BY <1>2, <1>3, <1>4, WordsFree, Zenon DEF o, k

\* The first end marker in the text of a call that nobody disturbs is its own.
Precedes(p, cmd) == \E e \in Echoes : p = Around(e, "BEGIN", Words(Programs[cmd].out))
\* What is before it are echoes, the begin marker and the output.
LEMMA EndIsOwn ==
  ASSUME NEW cmd \in DOMAIN Programs, NEW g, NEW q, NEW p, NEW y, IsSeq(p), IsSeq(y),
         Free(p, "END"), Progress(cmd, g, q, Around(p, "END", y))
  PROVE  Precedes(p, cmd)
<1>. DEFINE w == Around(p, "END", y)
            o == Words(Programs[cmd].out)
            k == Words(Programs[cmd].code)
            B == <<"BEGIN">>
            E == <<"END">>
<1>1. /\ IsSeq(o) /\ IsSeq(k) /\ Free(o, "BEGIN") /\ Free(o, "END") /\ IsSeq(B) /\ IsSeq(E)
  BY OutputIs, ShortIsSeq, Zenon
<1>2. Free(B, "END")
  BY ShortIsSeq DEF Free
<1>3. ~Free(w, "END")
  BY AroundHas, Zenon
<1>4. PICK e \in Echoes :
        w = e \/ w = e \o B \/ w = (e \o B) \o o \/ w = ((e \o B) \o o) \o (E \o k)
  BY Zenon DEF Progress
<1>. HIDE DEF w, o, k, B, E
<1>5. IsSeq(e) /\ Free(e, "END")
  BY EchoesAre, Zenon
<1>6. IsSeq(e \o B) /\ Free(e \o B, "END")
  BY <1>1, <1>2, <1>5, FreeConcat, Zenon
<1>7. IsSeq((e \o B) \o o) /\ Free((e \o B) \o o, "END")
  BY <1>1, <1>6, FreeConcat, Zenon
<1>8. w = ((e \o B) \o o) \o (E \o k)
  BY <1>3, <1>4, <1>5, <1>6, <1>7, Zenon
<1>. DEFINE a == (e \o B) \o o
<1>9. Associates(a, E, k)
  BY <1>1, <1>7, ConcatAssociates, Zenon
<1>. HIDE DEF a
<1>10. Around(p, "END", y) = Around(a, "END", k)
  <2>1. w = (a \o E) \o k
    BY <1>8, <1>9, Zenon DEF Associates, a
  <2>. QED BY <2>1, Zenon DEF w, Around, E
<1>11. IsSeq(a) /\ Free(a, "END")
  BY <1>7, Zenon DEF a
<1>12. p = a
  <2>1. IsAround(Around(p, "END", y), p, "END", y) /\ IsAround(Around(a, "END", k), a, "END", k)
    BY <1>1, <1>11, AroundIs, Zenon
  <2>2. IsAround(Around(p, "END", y), a, "END", k)
    BY <1>10, <2>1, Zenon
  <2>3. SameCut(p, y, a, k)
    BY <1>1, <1>11, <2>1, <2>2, CutOnce, Zenon
  <2>. QED BY <2>3, Zenon DEF SameCut
<1>13. a = Around(e, "BEGIN", o)
  BY Zenon DEF a, Around, B
<1>. QED BY <1>12, <1>13, Zenon DEF Precedes, o

\* Both markers are found, in order, and the command's output is between them.
Lies(t, cmd) ==
  LET f == Find(t, "END")
      b == Find(t, "BEGIN")
      mid == SubSeq(t, b + 1, f - 1) IN
  /\ f \in Nat /\ b \in Nat \ {0} /\ b < f /\ f <= Len(t)
  /\ IsSeq(mid) /\ Words(mid) = Words(Programs[cmd].out)
\* exec_in_sandbox finds the output of its own command.
LEMMA AnswerLies ==
  ASSUME NEW cmd \in DOMAIN Programs, NEW g, NEW q, NEW t, NEW x, IsSeq(t), IsSeq(x),
         Progress(cmd, g, q, Words(t \o x)), "END" \in Range(t)
  PROVE  Lies(t, cmd)
<1>. DEFINE f == Find(t, "END")
            b == Find(t, "BEGIN")
            N == Len(t)
            h == f - 1
            pre == SubSeq(t, 1, h)
            aft == SubSeq(t, f + 1, N)
            o == Words(Programs[cmd].out)
<1>1. FirstPlace(f, t, "END")
  BY FindIs, Zenon
<1>2. N \in Nat
  BY DEF IsSeq
<1>3. IsSeq(pre) /\ Free(pre, "END")
  BY <1>1, FreeBefore, Zenon
<1>4. t = Around(pre, "END", aft)
  <2>1. f \in 1 .. N /\ N <= N /\ 0 \in Nat /\ 0 <= N /\ t[f] = "END"
    BY <1>1, <1>2 DEF FirstPlace
  <2>2. Cuts(t, f, N)
    BY <1>2, <2>1, PlaceCuts, Zenon
  <2>3. SubSeq(t, 1, N) = t
    BY <1>2, <2>1, PartsJoin, Zenon
  <2>. QED BY <2>1, <2>2, <2>3, Zenon DEF Cuts
<1>. HIDE DEF f
<1>5. /\ f \in Nat \ {0} /\ f <= N /\ h \in Nat /\ h <= N
      /\ f + 1 \in Nat \ {0} /\ f + 1 <= N + 1
  BY <1>1, <1>2 DEF FirstPlace
<1>6. IsSeq(aft)
  <2>1. IsPart(aft, t, f + 1, N)
    <3>1. N <= Len(t)
      BY <1>2
    <3>. QED BY <1>2, <1>5, <3>1, PartIs, Zenon
  <2>. QED BY <2>1, Zenon DEF IsPart
<1>. HIDE DEF pre, aft
<1>7. Words(t \o x) = Around(Words(pre), "END", Words(aft \o x)) /\ IsSeq(Words(pre))
      /\ IsSeq(Words(aft \o x))
  <2>. DEFINE E == <<"END">>
              c == pre \o E
  <2>1. t = c \o aft
    BY <1>4, Zenon DEF Around
  <2>2. c \o (aft \o x) = Around(pre, "END", aft \o x)
    BY Zenon DEF Around
  <2>3. IsSeq(E)
    BY ShortIsSeq, Zenon
  <2>. HIDE DEF E
  <2>4. IsSeq(c) /\ IsSeq(aft \o x)
    BY <1>3, <1>6, <2>3, ConcatIsSeq, Zenon
  <2>. HIDE DEF c
  <2>5. Associates(c, aft, x)
    BY <1>6, <2>4, ConcatAssociates, Zenon
  <2>6. t \o x = Around(pre, "END", aft \o x)
    BY <2>1, <2>2, <2>5, Zenon DEF Associates
  <2>7. "END" \notin Blank
    BY DEF Blank
  <2>8. /\ WordsAroundIt(pre, "END", aft \o x) /\ IsSeq(Words(pre)) /\ IsSeq(Words(aft \o x))
    BY <1>3, <2>4, <2>7, WordsAround, Zenon
  <2>. QED BY <2>6, <2>8, Zenon DEF WordsAroundIt
<1>8. Free(Words(pre), "END")
  BY <1>3, WordsFree, Zenon
<1>9. PICK e \in Echoes : Words(pre) = Around(e, "BEGIN", o)
  <2>. DEFINE p == Words(pre)
              y == Words(aft \o x)
  <2>1. Progress(cmd, g, q, Around(p, "END", y))
    BY <1>7, Zenon
  <2>2. IsSeq(p) /\ IsSeq(y) /\ Free(p, "END")
    BY <1>7, <1>8, Zenon
  <2>. HIDE DEF p, y
  <2>3. Precedes(p, cmd)
    BY <2>1, <2>2, EndIsOwn, Zenon
  <2>. QED BY <2>3, Zenon DEF Precedes, p
<1>10. IsSeq(e) /\ Free(e, "BEGIN") /\ IsSeq(o)
  BY EchoesAre, OutputIs, Zenon
<1>. HIDE DEF o, h
<1>11. ~Free(pre, "BEGIN")
  BY <1>3, <1>9, <1>10, AroundHas, WordsFree, Zenon
<1>12. PICK i \in 1 .. Len(pre) : pre[i] = "BEGIN"
  BY <1>11, Zenon DEF Free
<1>13. i \in 1 .. h /\ t[i] = "BEGIN" /\ i \in 1 .. N
  <2>1. IsPart(pre, t, 1, h)
    <3>1. 1 \in Nat \ {0} /\ 1 <= h + 1
      BY <1>5
    <3>. QED BY <1>5, <3>1, PartIs, Zenon DEF pre
  <2>2. i \in 1 .. (h - 1) + 1 /\ (1 + i) - 1 = i /\ i \in 1 .. h /\ i \in 1 .. N
    BY <1>2, <1>5, <2>1 DEF IsPart
  <2>. QED BY <1>12, <2>1, <2>2, Zenon DEF IsPart
<1>14. FirstPlace(b, t, "BEGIN")
  <2>1. "BEGIN" \in Range(t)
    BY <1>13 DEF Range, IsSeq
  <2>. QED BY <2>1, FindIs, Zenon
<1>. HIDE DEF b
<1>15. b \in 1 .. h /\ b \in Nat \ {0} /\ b < f /\ b - 1 \in Nat
  <2>1. ~(i \in 1 .. b - 1)
    BY <1>13, <1>14, Zenon DEF FirstPlace
  <2>. QED BY <2>1, <1>2, <1>5, <1>13, <1>14 DEF FirstPlace, h
<1>. DEFINE a == SubSeq(t, 1, b - 1)
            mid == SubSeq(t, b + 1, h)
<1>16. pre = Around(a, "BEGIN", mid)
  <2>1. Cuts(t, b, h)
    BY <1>5, <1>15, PlaceCuts, Zenon
  <2>. QED BY <1>14, <2>1, Zenon DEF Cuts, FirstPlace, pre
<1>17. IsSeq(a) /\ Free(a, "BEGIN")
  BY <1>14, FreeBefore, Zenon
<1>18. IsSeq(mid)
  <2>1. b + 1 \in Nat \ {0} /\ b + 1 <= h + 1
    BY <1>5, <1>15
  <2>2. IsPart(mid, t, b + 1, h)
    BY <1>5, <2>1, PartIs, Zenon
  <2>. QED BY <2>2, Zenon DEF IsPart
<1>. HIDE DEF a, mid
<1>19. Words(mid) = o
  <2>1. "BEGIN" \notin Blank
    BY DEF Blank
  <2>2. WordsAroundIt(a, "BEGIN", mid) /\ IsSeq(Words(a)) /\ IsSeq(Words(mid))
    BY <1>17, <1>18, <2>1, WordsAround, Zenon
  <2>3. Free(Words(a), "BEGIN")
    BY <1>17, WordsFree, Zenon
  <2>. DEFINE z == Words(pre)
  <2>4. /\ IsAround(Around(Words(a), "BEGIN", Words(mid)), Words(a), "BEGIN", Words(mid))
        /\ IsAround(Around(e, "BEGIN", o), e, "BEGIN", o)
    BY <1>10, <2>2, AroundIs, Zenon
  <2>5. z = Around(Words(a), "BEGIN", Words(mid)) /\ z = Around(e, "BEGIN", o)
    BY <1>9, <1>16, <2>2, Zenon DEF WordsAroundIt
  <2>. HIDE DEF z
  <2>6. IsAround(z, Words(a), "BEGIN", Words(mid)) /\ IsAround(z, e, "BEGIN", o)
    BY <2>4, <2>5, Zenon
  <2>7. SameCut(Words(a), Words(mid), e, o)
    BY <1>10, <2>2, <2>3, <2>6, CutOnce, Zenon
  <2>. QED BY <2>7, Zenon DEF SameCut
<1>20. f \in Nat /\ f <= Len(t)
  BY <1>5, Zenon
<1>. QED BY <1>15, <1>18, <1>19, <1>20, Zenon DEF Lies, f, b, h, mid, o
-----------------------------------------------------------------------------
(* The steps of the calls.                                                 *)

\* What a call's record has to be for CallOK to hold of it where no one
\* depends on its text.
Plain(c, r) ==
  /\ IsCall(r) /\ c \in DOMAIN Cfg.calls
  /\ r.pc \in {"lookup", "late", "done"} /\ (r.step = 2 => Op(c) = "run_code")
  /\ r.pc = "lookup" => ~r.alone
  /\ r.pc = "late" => r.base \in Nat /\ r.base <= Len(console)

\* A call's record is replaced.
LEMMA CallMoves ==
  ASSUME ExecInv, NEW c \in Callers, NEW r, SetCall(c, r), CallOK(c)' PROVE ExecInv'
<1>1. /\ ExecInv /\ call = [d \in Callers |-> call[d]]
      /\ call' = [call EXCEPT ![c] = r]
      /\ UNCHANGED <<conf, input, console, vm, uart, guest, left>>
  BY Zenon DEF ExecInv, SetCall
<1>2. call' = [d \in Callers |-> call'[d]]
  BY <1>1
<1>3. ASSUME NEW d \in Callers, d # c PROVE CallOK(d)'
  <2>1. call'[d] = call[d] /\ CallOK(d)
    BY <1>1, <1>3, Zenon DEF ExecInv
  <2>2. /\ Cfg' = Cfg /\ Op(d)' = Op(d) /\ Once' = Once /\ Command(d)' = Command(d)
        /\ Own(d)' = Own(d) /\ Typing' = Typing /\ EndLine(d)' = EndLine(d)
        /\ Printed(d)' = Printed(d)
    BY <1>1, <2>1, Zenon
    DEF Cfg, Op, Once, Command, Own, Typing, EndLine, Printed, Text
  <2>3. /\ Silent(d) => Silent(d)'
        /\ Executing(d) => Executing(d)'
    BY <1>1, <2>2, Zenon DEF Silent, Executing, IsSeq
  <2>4. Answer(d) => Answer(d)'
    BY <1>1, <2>1, <2>2, Zenon DEF Answer
  <2>5. IsCall(call[d]) => IsCall(call[d])'
    BY <2>1, Zenon DEF IsCall
  <2>. QED BY <1>1, <2>1, <2>2, <2>3, <2>4, <2>5, Zenon DEF CallOK, Answered
<1>4. PortOK'
  BY <1>1, Zenon DEF ExecInv, PortOK, IsGuest, IsSerial
<1>. QED BY <1>1, <1>2, <1>3, <1>4, Zenon DEF ExecInv, IsSeq

\* A step whose answer, if any, nobody relies on.
LEMMA PlainSafe ==
  ASSUME ExecInv, NEW c \in Callers, NEW r, SetCall(c, r), Plain(c, r),
         r.alone /\ Once => /\ r.pc = "late" => Executing(c)'
                            /\ r.pc = "done" /\ r.result = "answer" => Answer(c)'
  PROVE  ExecInv'
<1>1. /\ call' = [call EXCEPT ![c] = r] /\ c \in DOMAIN call
      /\ UNCHANGED <<conf, input, console, vm, uart, guest, left>>
  BY Zenon DEF ExecInv, SetCall
<1>2. call'[c] = r
  BY <1>1, Zenon
<1>3. /\ Once' = Once /\ Cfg' = Cfg /\ Op(c)' = Op(c)
  BY <1>1, Zenon DEF Once, Cfg, Op
<1>4. IsCall(call[c])'
  BY <1>2, Zenon DEF Plain, IsCall
<1>5. r.pc # "idle" /\ r.pc # "send" /\ r.pc # "wait"
  BY DEF Plain
<1>6. CallOK(c)'
  BY <1>1, <1>2, <1>3, <1>4, <1>5, Zenon DEF CallOK, Plain, Answered
<1>. QED BY <1>6, CallMoves, Zenon

\* What a handler makes of an answer.
Concludes(c, r, z) ==
  /\ IsCall(z) /\ (z.step = 2 => r.step = 2 \/ Op(c) = "run_code")
  /\ \/ z.pc = "lookup" /\ ~z.alone
     \/ /\ z.pc = "done" /\ z.result \in {"error", r.result}
        /\ z.step = r.step /\ z.base = r.base /\ z.seen = r.seen /\ z.alone = r.alone
        /\ z.out = r.out /\ z.code = r.code
\* run_code goes on to its second command or the call is done.
LEMMA ConcludeIs ==
  ASSUME NEW c, NEW r, IsCall(r) PROVE Concludes(c, r, Conclude(c, r))
<1>. DEFINE n == [NewCall EXCEPT !.pc = "lookup", !.step = 2]
            v == IF Op(c) \in {"run_code", "write_file"} /\ r.step = 1
                    /\ r.code # <<"0">> THEN "error" ELSE r.result
            z == [r EXCEPT !.pc = "done", !.result = v]
<1>1. IsCall(n) /\ n.pc = "lookup" /\ ~n.alone
  BY Zenon DEF IsCall, NewCall
<1>2. v \in {"error", r.result}
  OBVIOUS
<1>. HIDE DEF v
<1>3. /\ IsCall(z) /\ z.pc = "done" /\ z.result = v /\ z.step = r.step /\ z.base = r.base
      /\ z.seen = r.seen /\ z.alone = r.alone /\ z.out = r.out /\ z.code = r.code
  BY Zenon DEF IsCall
<1>4. Conclude(c, r) = IF Op(c) = "run_code" /\ r.step = 1 /\ r.code = <<"0">> THEN n ELSE z
  BY Zenon DEF Conclude, v
<1>. HIDE DEF n, z
<1>5. CASE Op(c) = "run_code" /\ r.step = 1 /\ r.code = <<"0">>
  BY <1>1, <1>4, <1>5, Zenon DEF Concludes
<1>6. CASE ~(Op(c) = "run_code" /\ r.step = 1 /\ r.code = <<"0">>)
  <2>1. Conclude(c, r) = z
    BY <1>4, <1>6, Zenon
  <2>2. Concludes(c, r, z)
    BY <1>2, <1>3, Zenon DEF Concludes
  <2>. QED BY <2>1, <2>2, Zenon
<1>. QED BY <1>5, <1>6, Zenon

\* The check that the sandbox runs.
LEMMA CheckRunningSafe ==
  ASSUME ExecInv, NEW c \in Callers, CheckRunning(c) PROVE ExecInv'
<1>. DEFINE p == [call[c] EXCEPT !.pc = "lookup"]
            q == [call[c] EXCEPT !.pc = "done", !.result = "not running"]
<1>1. /\ CallOK(c) /\ call[c].pc = "idle" /\ c \in DOMAIN Cfg.calls
      /\ SetCall(c, p) \/ SetCall(c, q)
  BY Zenon DEF ExecInv, CheckRunning
<1>2. IsCall(call[c]) /\ ~call[c].alone /\ (call[c].step = 2 => Op(c) = "run_code")
  BY <1>1, Zenon DEF CallOK
<1>3. /\ IsCall(p) /\ p.pc = "lookup" /\ ~p.alone /\ p.step = call[c].step
      /\ IsCall(q) /\ q.pc = "done" /\ ~q.alone /\ q.step = call[c].step
  BY <1>2 DEF IsCall
<1>. HIDE DEF p, q
<1>4. Plain(c, p) /\ Plain(c, q)
  BY <1>1, <1>2, <1>3 DEF Plain
<1>. QED BY <1>1, <1>3, <1>4, PlainSafe, Zenon

\* A call without a handle.
LEMMA NoHandleSafe ==
  ASSUME ExecInv, NEW c \in Callers, call[c].pc = "lookup", SetCall(c, NoHandle(c)) PROVE ExecInv'
<1>. DEFINE r == [call[c] EXCEPT !.code = <<"1">>, !.result = "no handle"]
            q == [call[c] EXCEPT !.pc = "done", !.result = "no handle"]
            z == Conclude(c, r)
<1>1. CallOK(c) /\ call[c].pc = "lookup"
  BY Zenon DEF ExecInv
<1>2. /\ IsCall(call[c]) /\ ~call[c].alone /\ (call[c].step = 2 => Op(c) = "run_code")
      /\ c \in DOMAIN Cfg.calls
  BY <1>1 DEF CallOK
<1>3. /\ IsCall(r) /\ ~r.alone /\ r.step = call[c].step
      /\ IsCall(q) /\ q.pc = "done" /\ ~q.alone /\ q.step = call[c].step
  BY <1>2 DEF IsCall
<1>4. NoHandle(c) = IF IsInner(c) THEN z ELSE q
  BY Zenon DEF NoHandle
<1>. HIDE DEF r, q
<1>5. Concludes(c, r, z)
  BY <1>3, ConcludeIs, Zenon
<1>. HIDE DEF z
<1>6. Plain(c, z) /\ ~z.alone
  BY <1>2, <1>3, <1>5 DEF Plain, Concludes
<1>7. Plain(c, q) /\ ~q.alone
  BY <1>2, <1>3 DEF Plain
<1>8. SetCall(c, z) \/ SetCall(c, q)
  BY <1>4, Zenon
<1>. QED BY <1>6, <1>7, <1>8, PlainSafe, Zenon

\* The baseline: an idle guest has printed nothing after it.
LEMMA LookupSafe == ASSUME ExecInv, NEW c \in Callers, Lookup(c) PROVE ExecInv'
<1>. DEFINE r == [call[c] EXCEPT !.pc = "send", !.base = Len(console), !.alone = GuestIdle]
<1>1. /\ CallOK(c) /\ call[c].pc = "lookup" /\ IsSeq(console) /\ c \in DOMAIN call
      /\ SetCall(c, r) \/ SetCall(c, NoHandle(c))
  BY Zenon DEF ExecInv, Lookup
<1>2. CASE SetCall(c, r)
  <2>1. /\ call' = [call EXCEPT ![c] = r]
        /\ UNCHANGED <<conf, input, console, vm, uart, guest, left>>
    BY <1>2, Zenon DEF SetCall
  <2>2. call'[c] = r
    BY <1>1, <2>1, Zenon
  <2>3. /\ IsCall(call[c]) /\ c \in DOMAIN Cfg.calls /\ (call[c].step = 2 => Op(c) = "run_code")
    BY <1>1 DEF CallOK
  <2>4. GuestIdle \in BOOLEAN
    BY Zenon DEF GuestIdle
  <2>. DEFINE N == Len(console)
              idle == GuestIdle
  <2>5. /\ IsCall(r) /\ r.pc = "send" /\ r.base = N /\ r.alone = idle /\ r.step = call[c].step
    <3>. HIDE DEF N, idle
    <3>. QED BY <2>3, <2>4, Zenon DEF IsCall, N, idle
  <2>6. N \in Nat /\ N <= N
    BY <1>1 DEF IsSeq
  <2>. HIDE DEF r, N
  <2>7. GuestIdle => Silent(c)'
    <3>. SUFFICES ASSUME GuestIdle PROVE Silent(c)'
      OBVIOUS
    <3>1. Text(c)' = <<>>
      <4>1. Text(c)' = SubSeq(console, N + 1, N)
        BY <2>1, <2>2, <2>5, Zenon DEF Text, N
      <4>. QED BY <4>1, <2>6, <1>1 DEF IsSeq, N
    <3>2. /\ guest' = guest /\ guest.xmit = <<>> /\ guest.shell = "read" /\ guest.line = <<>>
          /\ guest.lines = <<>> /\ input' = <<>> /\ uart'.queue = <<>>
      BY <2>1, Zenon DEF GuestIdle
    <3>3. NeutralTo(<<>>) /\ IsSeq(<<>>)
      BY ShortIsSeq, EmptyIsNeutral, Zenon
    <3>4. Typing' = <<>>
      BY <3>2, <3>3, Zenon DEF Typing, NeutralTo
    <3>5. Printed(c)' = <<>>
      BY <3>1, <3>2, <3>3, WordsOfOne, Zenon DEF Printed, NeutralTo
    <3>. QED BY <3>2, <3>3, <3>4, <3>5, Zenon DEF Silent, Idling, Arrived
  <2>8. Once' = Once /\ Cfg' = Cfg /\ Op(c)' = Op(c) /\ Len(console') = N
    BY <2>1, Zenon DEF Once, Cfg, Op, N
  <2>9. IsCall(call[c])'
    BY <2>2, <2>5, Zenon DEF IsCall
  <2>10. r.pc # "idle" /\ r.pc # "lookup" /\ r.pc # "wait" /\ r.pc # "late" /\ r.pc # "done"
    BY <2>5
  <2>11. CallOK(c)'
    BY <2>2, <2>3, <2>5, <2>6, <2>7, <2>8, <2>9, <2>10, Zenon DEF CallOK, Answered
  <2>. QED BY <1>2, <2>11, CallMoves, Zenon
<1>3. CASE SetCall(c, NoHandle(c))
  BY <1>1, <1>3, NoHandleSafe, Zenon
<1>. QED BY <1>1, <1>2, <1>3, Zenon

\* 30 s have passed.
LEMMA DeadlineSafe == ASSUME ExecInv, NEW c \in Callers, Deadline(c) PROVE ExecInv'
<1>. DEFINE t == IF Op(c) = "exec" THEN Text(c) ELSE <<>>
            r == [call[c] EXCEPT !.result = "timeout", !.out = t, !.code = <<"-1">>]
            z == Conclude(c, r)
<1>1. CallOK(c) /\ call[c].pc = "late" /\ SetCall(c, z)
  BY Zenon DEF ExecInv, Deadline
<1>2. /\ IsCall(call[c]) /\ (call[c].step = 2 => Op(c) = "run_code") /\ c \in DOMAIN Cfg.calls
  BY <1>1 DEF CallOK
<1>. HIDE DEF t
<1>3. IsCall(r) /\ r.step = call[c].step /\ r.result = "timeout"
  BY <1>2, Zenon DEF IsCall
<1>. HIDE DEF r
<1>4. Concludes(c, r, z)
  BY <1>3, ConcludeIs, Zenon
<1>. HIDE DEF z
<1>5. Plain(c, z)
  BY <1>2, <1>3, <1>4 DEF Plain, Concludes
<1>6. z.alone => z.pc # "late" /\ z.result # "answer"
  BY <1>3, <1>4 DEF Concludes
<1>. QED BY <1>1, <1>5, <1>6, PlainSafe, Zenon

\* The answer of a call that nobody disturbed.
LEMMA AnswerIsOwn ==
  ASSUME ExecInv, NEW c \in Callers, call[c].pc = "wait", call[c].alone, Once,
         "END" \in Range(Text(c)), NEW z, SetCall(c, z),
         LET t == Text(c)
             f == Find(t, "END")
             b == Find(t, "BEGIN") IN
         /\ z.out = TrimMatches(TrimMatches(SubSeq(t, b + 1, f - 1), {"nl"}), {"cr"})
         /\ z.seen = Len(console) /\ z.base = call[c].base /\ z.step = call[c].step
         /\ z.code = Parse(TrimMatches(SubSeq(t, f + 1, Len(t)), {"cr", "nl"}))
  PROVE  Answer(c)'
<1>. DEFINE t == Text(c)
            f == Find(t, "END")
            b == Find(t, "BEGIN")
            cmd == Command(c)
            mid == SubSeq(t, b + 1, f - 1)
            aft == SubSeq(t, f + 1, Len(t))
            t1 == TrimMatches(mid, {"nl"})
            N == Len(console)
<1>1. /\ CallOK(c) /\ IsSeq(console) /\ call[c].pc = "wait" /\ c \in DOMAIN call
      /\ call' = [call EXCEPT ![c] = z]
      /\ UNCHANGED <<conf, input, console, vm, uart, guest, left>>
  BY Zenon DEF ExecInv, SetCall
<1>2. call'[c] = z
  BY <1>1, Zenon
<1>3. /\ Executing(c) /\ HasText(c)
  BY <1>1, Zenon DEF CallOK, HasText
<1>4. IsSeq(t) /\ cmd \in DOMAIN Programs
  <2>1. call[c].pc # "idle"
    BY <1>1
  <2>. QED BY <1>1, <1>3, <2>1, TextIsSeq, CommandIs, Zenon
<1>5. Lies(t, cmd)
  <2>1. IsSeq(guest.xmit) /\ Progress(cmd, guest, Typing, Words(t \o guest.xmit))
    BY <1>3, Zenon DEF Executing, Printed
  <2>. HIDE DEF t, cmd
  <2>. QED BY <1>4, <2>1, AnswerLies, Zenon DEF t
<1>6. IsSeq(mid) /\ Words(mid) = Words(Programs[cmd].out)
  BY <1>5, Zenon DEF Lies
<1>7. /\ z.out = TrimMatches(t1, {"cr"}) /\ z.seen = N /\ z.base = call[c].base
      /\ z.step = call[c].step /\ z.code = Parse(TrimMatches(aft, {"cr", "nl"}))
  BY Zenon
<1>. HIDE DEF mid, aft
<1>8. Words(z.out) = Words(mid)
  <2>1. {"nl"} \subseteq Blank /\ {"cr"} \subseteq Blank
    BY DEF Blank
  <2>2. TrimsTo(mid, {"nl"}, t1)
    BY <1>6, <2>1, TrimKeepsWords, Zenon
  <2>. HIDE DEF t1
  <2>3. IsSeq(t1) /\ Words(t1) = Words(mid)
    BY <2>2, Zenon DEF TrimsTo
  <2>4. TrimsTo(t1, {"cr"}, TrimMatches(t1, {"cr"}))
    BY <2>1, <2>3, TrimKeepsWords, Zenon
  <2>. QED BY <1>7, <2>3, <2>4, Zenon DEF TrimsTo
<1>9. Command(c)' = cmd /\ Own(c)' = Programs[cmd]
  BY <1>1, <1>2, <1>7, Zenon DEF Command, Own, Cfg
<1>10. EndLine(c)' = aft
  BY <1>1, <1>2, <1>7, Zenon DEF EndLine, Text, aft
<1>11. aft = Programs[cmd].code \o Eol => z.code = Programs[cmd].code
  <2>. DEFINE k == Programs[cmd].code
  <2>1. k \in Seq(Digits) /\ k # <<>>
    BY <1>4, ProgramsAssumption, Zenon
  <2>. HIDE DEF k
  <2>2. ParsesTo(k)
    BY <2>1, CodeParses, Zenon
  <2>. QED BY <1>7, <2>2, Zenon DEF ParsesTo, k
<1>12. N \in Nat /\ N <= N
  BY <1>1 DEF IsSeq
<1>13. call[c].base \in Nat /\ call[c].base <= N
  BY <1>3, Zenon DEF HasText
<1>14. /\ call'[c].base \in Nat /\ call'[c].seen \in Nat
       /\ call'[c].base <= call'[c].seen /\ call'[c].seen <= Len(console')
  BY <1>1, <1>2, <1>7, <1>12, <1>13, Zenon
<1>. QED BY <1>2, <1>6, <1>8, <1>9, <1>10, <1>11, <1>14, Zenon DEF Answer

\* A call that finds the end marker.
LEMMA ExtractSafe ==
  ASSUME ExecInv, NEW c \in Callers, call[c].pc = "wait", "END" \in Range(Text(c)),
         SetCall(c, Extract(c, Text(c)))
  PROVE  ExecInv'
<1>. DEFINE t == Text(c)
            f == Find(t, "END")
            b == Find(t, "BEGIN")
            raw == TrimMatches(TrimMatches(SubSeq(t, b + 1, f - 1), {"nl"}), {"cr"})
            out == IF b = 0 THEN <<>> ELSE raw
            N == Len(console)
            code == Parse(TrimMatches(SubSeq(t, f + 1, Len(t)), {"cr", "nl"}))
            x == [call[c] EXCEPT !.pc = "done", !.result = "panic"]
            r == [call[c] EXCEPT !.out = out, !.seen = N, !.code = code, !.result = "answer"]
            z == Conclude(c, r)
<1>1. CallOK(c) /\ call[c].pc = "wait" /\ SetCall(c, IF b > f THEN x ELSE z)
  BY Zenon DEF ExecInv, Extract
<1>2. /\ IsCall(call[c]) /\ (call[c].step = 2 => Op(c) = "run_code") /\ c \in DOMAIN Cfg.calls
  BY <1>1 DEF CallOK
<1>3. call[c].alone /\ Once => out = raw /\ ~(b > f)
  <2>. SUFFICES ASSUME call[c].alone, Once PROVE b # 0 /\ ~(b > f)
    BY Zenon
  <2>1. Executing(c) /\ HasText(c) /\ IsSeq(console) /\ call[c].pc # "idle"
    BY <1>1 DEF CallOK, HasText, ExecInv
  <2>2. IsSeq(t) /\ Command(c) \in DOMAIN Programs
    BY <2>1, TextIsSeq, CommandIs, Zenon
  <2>3. IsSeq(guest.xmit) /\ Progress(Command(c), guest, Typing, Words(t \o guest.xmit))
    BY <2>1, Zenon DEF Executing, Printed
  <2>4. Lies(t, Command(c))
    <3>. DEFINE cmd == Command(c)
    <3>. HIDE DEF t, cmd
    <3>1. cmd \in DOMAIN Programs /\ Progress(cmd, guest, Typing, Words(t \o guest.xmit))
      BY <2>2, <2>3, Zenon DEF cmd
    <3>2. Lies(t, cmd)
      BY <2>2, <2>3, <3>1, AnswerLies, Zenon DEF t
    <3>. QED BY <3>2, Zenon DEF cmd
  <2>5. f \in Nat /\ b \in Nat \ {0} /\ b < f
    BY <2>4, Zenon DEF Lies
  <2>. HIDE DEF f, b
  <2>. QED BY <2>5
<1>4. CASE b > f
  <2>1. SetCall(c, x)
    BY <1>1, <1>4, Zenon
  <2>2. IsCall(x) /\ x.pc = "done" /\ x.result = "panic" /\ x.step = call[c].step
    BY <1>2, Zenon DEF IsCall
  <2>. HIDE DEF x
  <2>3. Plain(c, x) /\ x.pc # "late" /\ x.result # "answer"
    BY <1>2, <2>2 DEF Plain
  <2>. QED BY <2>1, <2>3, PlainSafe, Zenon
<1>5. CASE ~(b > f)
  <2>1. SetCall(c, z)
    BY <1>1, <1>5, Zenon
  <2>2. /\ IsCall(r) /\ r.out = out /\ r.seen = N /\ r.code = code /\ r.result = "answer"
        /\ r.base = call[c].base /\ r.step = call[c].step /\ r.alone = call[c].alone
    <3>. HIDE DEF out, N, code
    <3>. QED BY <1>2, Zenon DEF IsCall
  <2>. HIDE DEF r
  <2>3. Concludes(c, r, z)
    BY <2>2, ConcludeIs, Zenon
  <2>. HIDE DEF z
  <2>4. Plain(c, z)
    BY <1>2, <2>2, <2>3 DEF Plain, Concludes
  <2>5. z.pc # "late" \/ ~z.alone
    BY <2>3 DEF Concludes
  <2>6. ASSUME z.alone, Once, z.pc = "done" PROVE Answer(c)'
    <3>1. /\ z.step = r.step /\ z.base = r.base /\ z.seen = r.seen /\ z.alone = r.alone
          /\ z.out = r.out /\ z.code = r.code
      BY <2>3, <2>6, Zenon DEF Concludes
    <3>2. /\ call[c].alone /\ z.out = raw /\ z.seen = N /\ z.base = call[c].base
          /\ z.step = call[c].step /\ z.code = code
      BY <1>3, <2>2, <2>6, <3>1, Zenon
    <3>. QED BY <1>1, <2>1, <2>6, <3>2, AnswerIsOwn, Zenon
  <2>. QED BY <2>1, <2>4, <2>5, <2>6, PlainSafe, Zenon
<1>. QED BY <1>4, <1>5, Zenon

\* Every 100 ms.
LEMMA PollSafe == ASSUME ExecInv, NEW c \in Callers, Poll(c) PROVE ExecInv'
<1>. DEFINE r == [call[c] EXCEPT !.pc = "late"]
<1>1. /\ CallOK(c) /\ call[c].pc = "wait" /\ c \in DOMAIN call
      /\ \/ "END" \in Range(Text(c)) /\ SetCall(c, Extract(c, Text(c)))
         \/ SetCall(c, r)
  BY Zenon DEF ExecInv, Poll
<1>2. CASE SetCall(c, r)
  <2>1. /\ IsCall(call[c]) /\ (call[c].step = 2 => Op(c) = "run_code") /\ c \in DOMAIN Cfg.calls
        /\ call[c].base \in Nat /\ call[c].base <= Len(console)
        /\ call[c].alone /\ Once => Executing(c)
    BY <1>1 DEF CallOK
  <2>2. /\ IsCall(r) /\ r.pc = "late" /\ r.step = call[c].step /\ r.base = call[c].base
        /\ r.alone = call[c].alone
    BY <2>1 DEF IsCall
  <2>3. /\ call' = [call EXCEPT ![c] = r]
        /\ UNCHANGED <<conf, input, console, vm, uart, guest, left>>
    BY <1>2, Zenon DEF SetCall
  <2>. HIDE DEF r
  <2>4. call'[c] = r
    BY <1>1, <2>3, Zenon
  <2>5. Plain(c, r)
    BY <2>1, <2>2 DEF Plain
  <2>6. Command(c)' = Command(c) /\ Typing' = Typing /\ Printed(c)' = Printed(c)
    BY <2>2, <2>3, <2>4, Zenon DEF Command, Cfg, Typing, Printed, Text
  <2>7. Executing(c) => Executing(c)'
    BY <2>3, <2>6, Zenon DEF Executing, IsSeq
  <2>8. r.pc # "done"
    BY <2>2
  <2>. QED BY <1>2, <2>1, <2>2, <2>5, <2>7, <2>8, PlainSafe, Zenon
<1>. QED BY <1>1, <1>2, ExtractSafe, Zenon

\* Whoever waits while another sends is no longer alone.
Overheard(d) ==
  call'[d] = [call[d] EXCEPT !.alone = call[d].alone /\ call[d].pc = "done"]
\* What such a call had been answered stays its answer.
LEMMA OverheardOK ==
  ASSUME NEW d, CallOK(d), Overheard(d), UNCHANGED <<conf, console, vm>> PROVE CallOK(d)'
<1>. DEFINE a == call[d].alone /\ call[d].pc = "done"
            r == [call[d] EXCEPT !.alone = a]
<1>1. call'[d] = r /\ IsCall(call[d]) /\ a \in BOOLEAN
  BY Zenon DEF Overheard, CallOK
<1>2. a => call[d].alone /\ call[d].pc = "done"
  BY Zenon
<1>. HIDE DEF a
<1>3. /\ IsCall(r) /\ r.alone = a /\ r.pc = call[d].pc /\ r.step = call[d].step
      /\ r.base = call[d].base /\ r.seen = call[d].seen /\ r.out = call[d].out
      /\ r.code = call[d].code /\ r.result = call[d].result
  BY <1>1 DEF IsCall
<1>. HIDE DEF r
<1>4. /\ Cfg' = Cfg /\ Op(d)' = Op(d) /\ Once' = Once /\ Command(d)' = Command(d)
      /\ Own(d)' = Own(d) /\ EndLine(d)' = EndLine(d) /\ Answered(d)' = Answered(d)
  BY <1>1, <1>3, Zenon DEF Cfg, Op, Once, Command, Own, EndLine, Answered
<1>5. Answer(d) => Answer(d)'
  BY <1>1, <1>3, <1>4, Zenon DEF Answer
<1>6. IsCall(call[d])'
  BY <1>1, <1>3, Zenon DEF IsCall
<1>7. call[d].pc \in {"send", "wait", "late", "idle", "lookup"} => ~a
  BY <1>2
<1>8. call[d].pc \in {"idle", "lookup"} => ~call[d].alone
  BY Zenon DEF CallOK
<1>. QED BY <1>1, <1>2, <1>3, <1>4, <1>5, <1>6, <1>7, <1>8 DEF CallOK

\* What is put into console_input is behind what is there.
LEMMA TypedIsTypable ==
  ASSUME PortOK, NEW more \in Seq(Typable), input' = input \o more,
         UNCHANGED <<uart, guest>>, left'.typed \in Seq(Seq(Typable)),
         left' = [typed |-> left'.typed, noise |-> left'.noise, printk |-> left'.printk]
  PROVE  PortOK'
<1>1. input \in Seq(Typable)
  BY Zenon DEF PortOK
<1>. DEFINE S == Typable
<1>2. input \o more \in Seq(S)
  <2>. HIDE DEF S
  <2>1. input \in Seq(S) /\ more \in Seq(S)
    BY <1>1, Zenon DEF S
  <2>. QED BY <2>1
<1>. QED BY <1>2, Zenon DEF PortOK, IsGuest, IsSerial, Typable

\* A call sends its command.
LEMMA SendSafe == ASSUME ExecInv, NEW c \in Callers, Send(c) PROVE ExecInv'
<1>. DEFINE cmd == Command(c)
            more == <<cmd, "nl">>
            D == Disturbed(c)
<1>1. /\ CallOK(c) /\ call[c].pc = "send" /\ IsSeq(console) /\ PortOK
      /\ call = [d \in Callers |-> call[d]]
      /\ conf \in DOMAIN Configs /\ \A d \in Callers : CallOK(d)
      /\ input' = input \o more /\ call' = [D EXCEPT ![c].pc = "wait"]
      /\ UNCHANGED <<conf, console, vm, uart, guest, left>>
  BY Zenon DEF ExecInv, Send
<1>2. cmd \in DOMAIN Programs /\ call[c].pc # "idle"
  BY <1>1, CommandIs, Zenon
<1>3. PortOK'
  <2>1. more \in Seq(Typable)
    <3>. HIDE DEF cmd
    <3>. QED BY <1>2 DEF Typable
  <2>. HIDE DEF more
  <2>2. left'.typed \in Seq(Seq(Typable))
        /\ left' = [typed |-> left'.typed, noise |-> left'.noise, printk |-> left'.printk]
    BY <1>1, Zenon DEF PortOK
  <2>. QED BY <1>1, <2>1, <2>2, TypedIsTypable, Zenon
<1>4. D = [d \in Callers |-> [call[d] EXCEPT !.alone = call[d].alone /\ (d = c \/ call[d].pc = "done")]]
  BY Zenon DEF Disturbed
<1>. HIDE DEF D
<1>5. ASSUME NEW d \in Callers, d # c PROVE CallOK(d)'
  <2>1. call'[d] = D[d]
    BY <1>1, <1>4, <1>5, Zenon
  <2>2. D[d] = [call[d] EXCEPT !.alone = call[d].alone /\ (d = c \/ call[d].pc = "done")]
    BY <1>4, Zenon
  <2>3. (call[d].alone /\ (d = c \/ call[d].pc = "done")) = (call[d].alone /\ call[d].pc = "done")
    BY <1>5, Zenon
  <2>4. Overheard(d)
    BY <2>1, <2>2, <2>3, Zenon DEF Overheard
  <2>. QED BY <1>1, <2>4, OverheardOK, Zenon
<1>6. CallOK(c)'
  <2>. DEFINE x == call[c]
              a == x.alone /\ (c = c \/ x.pc = "done")
              r == [[x EXCEPT !.alone = a] EXCEPT !.pc = "wait"]
  <2>1. /\ IsCall(x) /\ c \in DOMAIN Cfg.calls /\ (x.step = 2 => Op(c) = "run_code")
        /\ x.base \in Nat /\ x.base <= Len(console) /\ x.alone \in BOOLEAN
        /\ x.alone /\ Once => Silent(c)
    <3>1. IsCall(x) => x.alone \in BOOLEAN
      <4>. HIDE DEF x
      <4>. QED BY DEF IsCall
    <3>. QED BY <1>1, <3>1 DEF CallOK
  <2>2. D[c] = [x EXCEPT !.alone = a]
    BY <1>4, Zenon
  <2>3. call'[c] = [D[c] EXCEPT !.pc = "wait"]
    <3>1. c \in DOMAIN D
      BY <1>4, Zenon
    <3>. QED BY <1>1, <3>1, Zenon
  <2>4. call'[c] = r
    BY <2>2, <2>3, Zenon
  <2>5. a = x.alone
    BY <2>1, Zenon
  <2>. HIDE DEF a
  <2>6. /\ IsCall(r) /\ r.pc = "wait" /\ r.step = x.step /\ r.base = x.base /\ r.alone = x.alone
    <3>. HIDE DEF x
    <3>. QED BY <2>1, <2>5, Zenon DEF IsCall
  <2>. HIDE DEF r
  <2>7. /\ Cfg' = Cfg /\ Op(c)' = Op(c) /\ Once' = Once /\ Command(c)' = cmd
        /\ Printed(c)' = Printed(c)
    BY <1>1, <2>4, <2>6, Zenon DEF Cfg, Op, Once, Command, Printed, Text
  <2>8. ASSUME Silent(c) PROVE Executing(c)'
    <3>. DEFINE q == uart.queue
    <3>1. /\ IsSeq(guest.xmit) /\ guest.shell = "read" /\ guest.line = <<>> /\ guest.lines = <<>>
          /\ q \o input = <<>> /\ Printed(c) = <<>>
      BY <2>8, Zenon DEF Silent, Idling, Arrived, Typing
    <3>2. IsSeq(q) /\ IsSeq(input) /\ IsSeq(more)
      <4>1. q \in Seq(Typable) /\ input \in Seq(Typable)
        BY <1>1, Zenon DEF PortOK
      <4>2. more \in Seq({cmd, "nl"})
        <5>. HIDE DEF cmd
        <5>. QED OBVIOUS
      <4>. HIDE DEF more, q
      <4>. QED BY <4>1, <4>2, SeqOver, Zenon
    <3>3. Associates(q, input, more) /\ NeutralTo(more)
      <4>. HIDE DEF q, more
      <4>. QED BY <3>2, ConcatAssociates, EmptyIsNeutral, Zenon
    <3>4. Typing' = more
      BY <1>1, <3>1, <3>3, Zenon DEF Typing, Associates, NeutralTo
    <3>5. <<>> \in Echoes
      BY DEF Echoes
    <3>6. Coming(cmd, guest, more)
      BY <3>1, Zenon DEF Coming
    <3>7. Progress(cmd, guest, more, <<>>)
      BY <3>1, <3>5, <3>6, Zenon DEF Progress
    <3>8. IsSeq(guest'.xmit) /\ guest' = guest /\ Printed(c)' = <<>>
      BY <1>1, <2>7, <3>1, Zenon
    <3>. QED BY <2>7, <3>4, <3>7, <3>8, Zenon DEF Executing
  <2>9. IsCall(call[c])' /\ r.pc \notin {"idle", "lookup", "send", "done"}
    BY <2>4, <2>6 DEF IsCall
  <2>10. Len(console') = Len(console)
    BY <1>1, Zenon
  <2>. QED BY <2>1, <2>4, <2>6, <2>7, <2>8, <2>9, <2>10, Zenon DEF CallOK, Answered
<1>7. call' = [d \in Callers |-> call'[d]]
  BY <1>1, <1>4
<1>8. IsSeq(console)' /\ conf' \in DOMAIN Configs
  BY <1>1, Zenon DEF IsSeq
<1>. QED BY <1>3, <1>5, <1>6, <1>7, <1>8, Zenon DEF ExecInv

\* A user types a line.
LEMMA TypedSafe == ASSUME ExecInv, Typed PROVE ExecInv'
<1>. DEFINE typed == left.typed
            more == Head(typed)
            l == [left EXCEPT !.typed = Tail(typed)]
<1>1. /\ IsSeq(console) /\ PortOK /\ conf \in DOMAIN Configs /\ \A d \in Callers : CallOK(d)
      /\ input' = input \o more /\ typed # <<>> /\ left' = l /\ call' = Disturbed("nobody")
      /\ UNCHANGED <<conf, console, vm, uart, guest>>
  BY Zenon DEF ExecInv, Typed
<1>2. /\ typed \in Seq(Seq(Typable))
      /\ left = [typed |-> typed, noise |-> left.noise, printk |-> left.printk]
  BY <1>1, Zenon DEF PortOK
<1>3. more \in Seq(Typable) /\ Tail(typed) \in Seq(Seq(Typable))
  <2>. DEFINE S == Seq(Typable)
  <2>. HIDE DEF S, typed
  <2>1. typed \in Seq(S)
    BY <1>2, Zenon DEF S
  <2>2. Head(typed) \in S /\ Tail(typed) \in Seq(S)
    BY <1>1, <2>1
  <2>. QED BY <2>2, Zenon DEF S
<1>4. l.typed = Tail(typed) /\ l = [typed |-> l.typed, noise |-> l.noise, printk |-> l.printk]
  <2>. DEFINE t == Tail(typed)
  <2>1. l = [left EXCEPT !.typed = t]
    BY Zenon
  <2>. HIDE DEF typed, l, t
  <2>2. l.typed = t /\ l = [typed |-> l.typed, noise |-> l.noise, printk |-> l.printk]
    BY <1>2, <2>1
  <2>. QED BY <2>2, Zenon DEF t
<1>. HIDE DEF more, l
<1>5. PortOK'
  <2>1. left'.typed \in Seq(Seq(Typable))
        /\ left' = [typed |-> left'.typed, noise |-> left'.noise, printk |-> left'.printk]
    BY <1>1, <1>3, <1>4, Zenon
  <2>. QED BY <1>1, <1>3, <2>1, TypedIsTypable, Zenon
<1>6. call' = [d \in Callers |->
                 [call[d] EXCEPT !.alone = call[d].alone /\ (d = "nobody" \/ call[d].pc = "done")]]
  BY <1>1, Zenon DEF Disturbed
<1>7. ASSUME NEW d \in Callers PROVE CallOK(d)'
  <2>1. call'[d] = [call[d] EXCEPT !.alone = call[d].alone /\ (d = "nobody" \/ call[d].pc = "done")]
    BY <1>6, Zenon
  <2>2. d # "nobody"
    BY CallersAssumption, Zenon
  <2>3. (call[d].alone /\ (d = "nobody" \/ call[d].pc = "done"))
        = (call[d].alone /\ call[d].pc = "done")
    BY <2>2, Zenon
  <2>4. Overheard(d)
    BY <2>1, <2>3, Zenon DEF Overheard
  <2>. QED BY <1>1, <2>4, OverheardOK, Zenon
<1>8. call' = [d \in Callers |-> call'[d]]
  BY <1>6
<1>9. IsSeq(console)' /\ conf' \in DOMAIN Configs
  BY <1>1, Zenon DEF IsSeq
<1>. QED BY <1>5, <1>7, <1>8, <1>9, Zenon DEF ExecInv

\* Streams and the stop leave the calls, the console and the guest alone.
LEMMA ApartSafe ==
  ASSUME ExecInv, UNCHANGED <<conf, input, console, vm, uart, guest, call, left>> PROVE ExecInv'
<1>1. \A d \in Callers : CallOK(d)'
  <2>1. SUFFICES ASSUME NEW d \in Callers PROVE CallOK(d)'
    OBVIOUS
  <2>2. CallOK(d) /\ call'[d] = call[d]
    BY <2>1, Zenon DEF ExecInv
  <2>3. /\ Cfg' = Cfg /\ Op(d)' = Op(d) /\ Once' = Once /\ Command(d)' = Command(d)
        /\ Own(d)' = Own(d) /\ Typing' = Typing /\ EndLine(d)' = EndLine(d)
        /\ Printed(d)' = Printed(d)
    BY <2>2, Zenon DEF Cfg, Op, Once, Command, Own, Typing, EndLine, Printed, Text
  <2>4. (Silent(d) => Silent(d)') /\ (Executing(d) => Executing(d)')
    BY <2>3, Zenon DEF Silent, Executing, IsSeq
  <2>5. Answer(d) => Answer(d)'
    BY <2>2, <2>3, Zenon DEF Answer
  <2>6. IsCall(call[d]) => IsCall(call[d])'
    BY <2>2, Zenon DEF IsCall
  <2>. QED BY <2>2, <2>3, <2>4, <2>5, <2>6, Zenon DEF CallOK, Answered
<1>2. PortOK'
  BY Zenon DEF ExecInv, PortOK, IsGuest, IsSerial
<1>. QED BY <1>1, <1>2, Zenon DEF ExecInv, IsSeq

\* What neither the guest nor a call does.
LEMMA Apart ==
  ASSUME (\E s \in Streams : StreamStep(s)) \/ StopStep \/ UNCHANGED vars
  PROVE  UNCHANGED <<conf, input, console, vm, uart, guest, call, left>>
<1>1. ASSUME NEW s \in Streams, StreamStep(s)
      PROVE  UNCHANGED <<conf, input, console, vm, uart, guest, call, left>>
  BY <1>1, Zenon DEF StreamStep, StreamOpen, StreamCheck, StreamDrain, StreamFinal, SetStream
<1>2. ASSUME StopStep PROVE UNCHANGED <<conf, input, console, vm, uart, guest, call, left>>
  BY <1>2, Zenon DEF StopStep, StopTake, StopJoined, StopTimesOut, StopOrch, SetStop
<1>3. ASSUME UNCHANGED vars PROVE UNCHANGED <<conf, input, console, vm, uart, guest, call, left>>
  BY <1>3, Zenon DEF vars
<1>. QED BY <1>1, <1>2, <1>3, Zenon

\* The calls' invariant is inductive.
LEMMA ExecNextSafe == ASSUME ExecInv, [Next]_vars PROVE ExecInv'
<1>1. ASSUME GuestStep PROVE ExecInv'
  BY <1>1, DriverSafe, InterruptSafe, IsrRxSafe, ShellReadSafe, ShellEvalSafe, ShellEndSafe, Zenon
  DEF GuestStep
<1>2. ASSUME Kick \/ VmEnds \/ Printk \/ Noise \/ Typed PROVE ExecInv'
  BY <1>2, DriverSafe, EndSafe, PrintkSafe, NoiseSafe, TypedSafe, Zenon
<1>3. ASSUME NEW c \in Callers, CallStep(c) PROVE ExecInv'
  BY <1>3, CheckRunningSafe, LookupSafe, SendSafe, PollSafe, DeadlineSafe, Zenon DEF CallStep
<1>4. ASSUME (\E s \in Streams : StreamStep(s)) \/ StopStep \/ UNCHANGED vars PROVE ExecInv'
  BY <1>4, Apart, ApartSafe, Zenon
<1>. QED BY <1>1, <1>2, <1>3, <1>4, Zenon DEF Next

\* No call has begun, and the guest is as it was started.
LEMMA ExecInitSafe == ASSUME Init PROVE ExecInv
<1>1. /\ conf \in DOMAIN Configs /\ console = <<>> /\ input = <<>> /\ uart = NewSerial
      /\ guest = NewGuest(Cfg.cold) /\ call = [c \in Callers |-> NewCall]
      /\ left = [typed |-> Cfg.typed, noise |-> Cfg.noise, printk |-> Cfg.printk]
  BY Zenon DEF Init
<1>2. IsSeq(console)
  BY <1>1, ShortIsSeq, Zenon
<1>3. PortOK
  <2>1. IsGuest(guest) /\ guest.isr = "off"
    BY <1>1 DEF IsGuest, NewGuest
  <2>2. IsSerial(uart) /\ uart.queue = <<>>
    BY <1>1 DEF IsSerial, NewSerial
  <2>3. <<>> \in Seq(Typable)
    OBVIOUS
  <2>4. Cfg.typed \in Seq(Seq(Typable))
    BY <1>1, CallsAssumption, Zenon DEF Cfg, Typable
  <2>5. left.typed = Cfg.typed
        /\ left = [typed |-> left.typed, noise |-> left.noise, printk |-> left.printk]
    BY <1>1
  <2>6. guest.isr # "rx"
    BY <2>1
  <2>. QED BY <1>1, <2>1, <2>2, <2>3, <2>4, <2>5, <2>6, Zenon DEF PortOK
<1>4. ASSUME NEW c \in Callers PROVE CallOK(c)
  <2>1. call[c] = NewCall
    BY <1>1, Zenon
  <2>2. IsCall(NewCall) /\ NewCall.pc = "idle" /\ NewCall.step = 1 /\ NewCall.alone = FALSE
    BY DEF IsCall, NewCall
  <2>3. /\ IsCall(call[c]) /\ call[c].pc = "idle" /\ call[c].step # 2 /\ call[c].alone = FALSE
        /\ call[c].pc \notin {"send", "wait", "late"}
    BY <2>1, <2>2
  <2>. QED BY <2>3, Zenon DEF CallOK
<1>5. call = [c \in Callers |-> call[c]]
  BY <1>1
<1>. QED BY <1>1, <1>2, <1>3, <1>4, <1>5, Zenon DEF ExecInv

(* For every number of calls, every set of commands that print no marker   *)
(* and every guest noise: an exec call that nobody disturbs returns the    *)
(* output of its own command and, if the poll saw the whole end line, its  *)
(* own exit code.  What is in console_output after the baseline is, in     *)
(* words, a beginning of the echo, the begin marker, the output and the    *)
(* end marker with the code, in this order and with noise in between; so   *)
(* the first end marker cuts it after the output, and the first begin      *)
(* marker before it.                                                       *)
THEOREM ConsoleExecAnswers == Spec => []ExecAnswersItself
<1>1. ExecInv => ExecAnswersItself
  BY Zenon DEF ExecInv, CallOK, ExecAnswersItself, Answer, Once
<1>2. ExecInv /\ [Next]_vars => ExecInv'
  BY ExecNextSafe, Zenon
<1>. QED BY <1>1, <1>2, ExecInitSafe, PTL DEF Spec

=============================================================================
