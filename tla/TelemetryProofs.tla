-------------------------- MODULE TelemetryProofs ---------------------------
(***************************************************************************)
(* The proof that a client of StreamEvents gets the events of its filter   *)
(* in order, each once, and misses none but those the broadcast had        *)
(* already dropped, for every number of clients, every filter and every    *)
(* capacity.                                                               *)
(*                                                                         *)
(* The invariant follows a client by its position in the broadcast (next): *)
(* what it has read, what waits in its channel and the event its task      *)
(* holds are, in this order, the events that pass its filter between the   *)
(* position it subscribed at and next, save for those that were a whole    *)
(* broadcast ring old when it skipped them.  The log only grows, so that a *)
(* gap once justified stays so.                                            *)
(*                                                                         *)
(* And the proof that every event a source took in is in one place only:   *)
(* still buffered, in the aggregator, in the channel, or decided on, in    *)
(* the order of its source, with its own action, and broadcast unless it   *)
(* is denied.  The invariant (Flow) says of these places, laid end to end, *)
(* that they hold just the events taken, each source's in the order it     *)
(* took them; that none is taken twice rests on the numbers events carry.  *)
(***************************************************************************)
EXTENDS Telemetry, TLAPS

\* A sequence of its own elements.
IsSeq(s) == s \in Seq({s[i] : i \in 1 .. Len(s)})

\* A record with the fields of a client.
IsSub(s) ==
  s \in [state : {s.state}, types : {s.types}, sandbox : {s.sandbox}, since : Nat,
         next : Nat, hold : Nat, out : Seq(Nat), got : Seq(Nat)]

\* What has passed the filter, read by the client or on its way to it.
Passed(s) == s.got \o s.out \o (IF s.hold = 0 THEN << >> ELSE <<s.hold>>)

\* The events `a' of the log l are the ones client s is to have.
Exact(a, s, l) ==
  /\ \A i, j \in 1 .. Len(a) : i < j => a[i] < a[j]
  /\ \A i \in 1 .. Len(a) : a[i] \in s.since + 1 .. s.next /\ Passes(s, l[a[i]])
  /\ \A n \in s.since + 1 .. s.next :
        \/ \E i \in 1 .. Len(a) : a[i] = n
        \/ ~Passes(s, l[n])
        \/ n + BroadcastCap <= Len(l)

\* One client, with the log at l.
SubOK(s, l) ==
  /\ IsSub(s) /\ s.since <= s.next /\ s.next <= Len(l)
  /\ s.state = "off" => s.hold = 0 /\ s.out = << >> /\ s.got = << >>
  /\ s.state \in {"on", "gone"} => Exact(Passed(s), s, l)

\* The inductive invariant of the clients.
Streams ==
  /\ IsSeq(log)
  /\ subs = [c \in Clients |-> subs[c]] /\ \A c \in Clients : SubOK(subs[c], log)

-----------------------------------------------------------------------------
(* Sequences.                                                              *)

\* The log of the broadcast grows at its end.
LEMMA Appended ==
  ASSUME NEW l, IsSeq(l), NEW x
  PROVE  /\ IsSeq(Append(l, x)) /\ Len(Append(l, x)) = Len(l) + 1 /\ Len(l) \in Nat
         /\ \A i \in 1 .. Len(l) : Append(l, x)[i] = l[i]
<1>. DEFINE S == {l[i] : i \in 1 .. Len(l)} \cup {x}
            m == Append(l, x)
<1>1. l \in Seq(S) /\ x \in S
  BY DEF IsSeq
<1>. HIDE DEF S
<1>2. m \in Seq(S) /\ Len(m) = Len(l) + 1 /\ Len(l) \in Nat /\ \A i \in 1 .. Len(l) : m[i] = l[i]
  BY <1>1
<1>3. IsSeq(m)
  <2>. HIDE DEF m
  <2>1. Len(m) \in Nat /\ m = [i \in 1 .. Len(m) |-> m[i]]
    BY <1>2
  <2>. QED BY <2>1 DEF IsSeq
<1>. QED BY <1>2, <1>3, Zenon

\* What is held comes last.
LEMMA PassedIs ==
  ASSUME NEW s, IsSub(s)
  PROVE  /\ s.got \o s.out \in Seq(Nat)
         /\ s.hold = 0 => Passed(s) = s.got \o s.out
         /\ s.hold # 0 => Passed(s) = Append(s.got \o s.out, s.hold)
<1>1. s.got \in Seq(Nat) /\ s.out \in Seq(Nat) /\ s.hold \in Nat
  BY DEF IsSub
<1>2. \A g, o \in Seq(Nat) : g \o o \in Seq(Nat)
  OBVIOUS
<1>3. \A a \in Seq(Nat) : a \o << >> = a
  OBVIOUS
<1>4. \A a \in Seq(Nat), h \in Nat : a \o <<h>> = Append(a, h)
  OBVIOUS
<1>. QED BY <1>1, <1>2, <1>3, <1>4, Zenon DEF Passed

\* The forwarder sends what it held.
LEMMA SentLast ==
  ASSUME NEW S, NEW g \in Seq(S), NEW o \in Seq(S), NEW h \in S
  PROVE  g \o Append(o, h) = Append(g \o o, h)
OBVIOUS

\* The client reads the first of its channel.
LEMMA ReadFirst ==
  ASSUME NEW S, NEW g \in Seq(S), NEW o \in Seq(S), o # << >>
  PROVE  /\ Append(g, Head(o)) \o Tail(o) = g \o o
         /\ Append(g, Head(o)) \in Seq(S) /\ Tail(o) \in Seq(S)
<1>1. Head(o) \in S /\ Tail(o) \in Seq(S) /\ Len(Tail(o)) = Len(o) - 1 /\ Len(o) \in Nat \ {0}
      /\ o[1] = Head(o) /\ \A i \in 1 .. Len(o) - 1 : Tail(o)[i] = o[i + 1]
  OBVIOUS
<1>. DEFINE t == Tail(o)
            x == Head(o)
<1>2. x \in S /\ t \in Seq(S) /\ Len(t) = Len(o) - 1 /\ Len(o) \in Nat \ {0}
      /\ o[1] = x /\ \A i \in 1 .. Len(o) - 1 : t[i] = o[i + 1]
  BY <1>1
<1>. HIDE DEF t, x
<1>3. Append(g, x) \in Seq(S)
  BY <1>2
<1>. DEFINE f == Append(g, x)
<1>4. f \in Seq(S) /\ Len(f) = Len(g) + 1 /\ Len(g) \in Nat /\ f[Len(g) + 1] = x
      /\ \A i \in 1 .. Len(g) : f[i] = g[i]
  BY <1>2
<1>. HIDE DEF f
<1>5. \A u, v \in Seq(S) :
        /\ u \o v \in Seq(S) /\ Len(u \o v) = Len(u) + Len(v)
        /\ \A i \in 1 .. Len(u) + Len(v) : (u \o v)[i] = IF i <= Len(u) THEN u[i] ELSE v[i - Len(u)]
  OBVIOUS
<1>. DEFINE a == f \o t
            b == g \o o
<1>6. /\ a \in Seq(S) /\ Len(a) = Len(f) + Len(t)
      /\ \A i \in 1 .. Len(f) + Len(t) : a[i] = IF i <= Len(f) THEN f[i] ELSE t[i - Len(f)]
  BY <1>2, <1>4, <1>5, Zenon
<1>7. /\ b \in Seq(S) /\ Len(b) = Len(g) + Len(o)
      /\ \A i \in 1 .. Len(g) + Len(o) : b[i] = IF i <= Len(g) THEN g[i] ELSE o[i - Len(g)]
  BY <1>5, Zenon
<1>. HIDE DEF a, b
<1>8. Len(a) = Len(b) /\ \A i \in 1 .. Len(a) : a[i] = b[i]
  <2>1. Len(a) = Len(g) + Len(o) /\ Len(b) = Len(g) + Len(o) /\ Len(f) + Len(t) = Len(g) + Len(o)
    BY <1>2, <1>4, <1>6, <1>7
  <2>2. ASSUME NEW i \in 1 .. Len(g) + Len(o)
        PROVE  a[i] = b[i]
    <3>1. a[i] = IF i <= Len(g) + 1 THEN f[i] ELSE t[i - (Len(g) + 1)]
      BY <1>4, <1>6, <2>1, Zenon
    <3>2. b[i] = IF i <= Len(g) THEN g[i] ELSE o[i - Len(g)]
      BY <1>7, Zenon
    <3>3. CASE i <= Len(g)
      <4>1. i <= Len(g) + 1 /\ i \in 1 .. Len(g)
        BY <1>4, <3>3
      <4>. QED BY <1>4, <3>1, <3>2, <3>3, <4>1, Zenon
    <3>4. CASE i = Len(g) + 1
      <4>1. ~(i <= Len(g)) /\ i - Len(g) = 1 /\ i <= Len(g) + 1
        BY <1>4, <3>4
      <4>. QED BY <1>2, <1>4, <3>1, <3>2, <3>4, <4>1, Zenon
    <3>5. CASE i > Len(g) + 1
      <4>. DEFINE k == i - (Len(g) + 1)
      <4>1. /\ ~(i <= Len(g)) /\ ~(i <= Len(g) + 1) /\ k \in 1 .. Len(o) - 1
            /\ i - Len(g) = k + 1
        BY <1>2, <1>4, <3>5
      <4>. HIDE DEF k
      <4>. QED BY <1>2, <3>1, <3>2, <4>1, Zenon DEF k
    <3>. QED BY <1>4, <3>3, <3>4, <3>5
  <2>. QED BY <2>1, <2>2, Zenon
<1>9. a = b
  <2>1. \A u \in Seq(S) : u = [i \in 1 .. Len(u) |-> u[i]]
    OBVIOUS
  <2>. QED BY <1>6, <1>7, <1>8, <2>1, Zenon
<1>. QED BY <1>2, <1>3, <1>9, Zenon DEF a, b, f, t, x

-----------------------------------------------------------------------------
(* The clients.                                                            *)

\* The filter and the start of a client.
SameFilter(s, t) == t.types = s.types /\ t.sandbox = s.sandbox /\ t.since = s.since

\* Events broadcast later change nothing for what a client has passed.
LEMMA ExactGrows ==
  ASSUME NEW a, NEW s, NEW l, NEW m, Exact(a, s, l), Len(l) \in Nat, Len(m) \in Nat,
         s.since \in Nat, s.next \in Nat, s.next <= Len(l), Len(l) <= Len(m),
         \A i \in 1 .. Len(l) : m[i] = l[i]
  PROVE  Exact(a, s, m)
<1>1. \A n \in s.since + 1 .. s.next : m[n] = l[n]
  OBVIOUS
<1>2. \A n \in s.since + 1 .. s.next : n + BroadcastCap <= Len(l) => n + BroadcastCap <= Len(m)
  BY CapAssumption
<1>. QED BY <1>1, <1>2, Zenon DEF Exact

\* The same events for the same filter.
LEMMA ExactSame ==
  ASSUME NEW a, NEW s, NEW t, NEW l, Exact(a, s, l), SameFilter(s, t), t.next = s.next
  PROVE  Exact(a, t, l)
BY Zenon DEF Exact, SameFilter, Passes

\* A receiver that was overtaken: what it skips is BroadcastCap behind.
LEMMA ExactSkips ==
  ASSUME NEW a, NEW s, NEW t, NEW l, Exact(a, s, l), SameFilter(s, t), s.since \in Nat,
         s.next \in Nat, Len(l) \in Nat, Len(l) - s.next > BroadcastCap,
         t.next = Len(l) - BroadcastCap
  PROVE  Exact(a, t, l)
<1>1. \A n \in t.since + 1 .. t.next : (n \in s.since + 1 .. s.next) \/ n + BroadcastCap <= Len(l)
  BY CapAssumption DEF SameFilter
<1>2. \A n \in s.since + 1 .. s.next : n \in t.since + 1 .. t.next
  BY CapAssumption DEF SameFilter
<1>. QED BY <1>1, <1>2, Zenon DEF Exact, SameFilter, Passes

\* A receiver that takes the next event: it passes the filter or it does not.
LEMMA ExactTakes ==
  ASSUME NEW a \in Seq(Nat), NEW s, NEW t, NEW l, Exact(a, s, l), SameFilter(s, t),
         s.since \in Nat, s.next \in Nat, s.since <= s.next, t.next = s.next + 1
  PROVE  /\ Passes(s, l[s.next + 1]) => Exact(Append(a, s.next + 1), t, l)
         /\ ~Passes(s, l[s.next + 1]) => Exact(a, t, l)
<1>. USE Zenon
<1>. DEFINE x == s.next + 1
<1>1. /\ x \in Nat /\ x \in t.since + 1 .. t.next
      /\ \A n \in t.since + 1 .. t.next : (n \in s.since + 1 .. s.next) \/ n = x
      /\ \A n \in s.since + 1 .. s.next : n \in t.since + 1 .. t.next /\ n < x
  BY SMT DEF SameFilter
<1>. HIDE DEF x
<1>2. CASE ~Passes(s, l[x])
  BY <1>1, <1>2 DEF Exact, SameFilter, Passes, x
<1>3. CASE Passes(s, l[x])
  <2>. DEFINE b == Append(a, x)
  <2>1. /\ Len(b) = Len(a) + 1 /\ Len(a) \in Nat /\ b[Len(a) + 1] = x
        /\ \A i \in 1 .. Len(a) : b[i] = a[i]
    BY <1>1, SMT
  <2>. HIDE DEF b
  <2>2. /\ \A i \in 1 .. Len(b) : (i \in 1 .. Len(a)) \/ i = Len(a) + 1
        /\ \A i \in 1 .. Len(a) : i \in 1 .. Len(b) /\ ~(Len(a) + 1 < i)
        /\ Len(a) + 1 \in 1 .. Len(b) /\ ~(Len(a) + 1 < Len(a) + 1)
    BY <2>1, SMT
  <2>3. \A i \in 1 .. Len(a) : a[i] < x
    BY <1>1 DEF Exact
  <2>4. \A i, j \in 1 .. Len(b) : i < j => b[i] < b[j]
    BY <2>1, <2>2, <2>3 DEF Exact
  <2>5. \A i \in 1 .. Len(b) : b[i] \in t.since + 1 .. t.next /\ Passes(t, l[b[i]])
    BY <1>1, <1>3, <2>1, <2>2 DEF Exact, SameFilter, Passes
  <2>6. \A n \in t.since + 1 .. t.next :
           (\E i \in 1 .. Len(b) : b[i] = n) \/ ~Passes(t, l[n]) \/ n + BroadcastCap <= Len(l)
    BY <1>1, <2>1, <2>2 DEF Exact, SameFilter, Passes
  <2>7. Exact(b, t, l)
    BY <2>4, <2>5, <2>6 DEF Exact
  <2>. QED BY <1>3, <2>7 DEF b, x
<1>. QED BY <1>2, <1>3 DEF x

\* The fields of a client after one of its steps.
IsLike(t, state, types, sandbox, since, next, hold, out, got) ==
  t \in [state : {state}, types : {types}, sandbox : {sandbox}, since : {since}, next : {next},
         hold : {hold}, out : {out}, got : {got}]

\* Its fields, one by one.
Holds(t, state, types, sandbox, since, next, hold, out, got) ==
  /\ IsSub(t) /\ t.state = state /\ t.types = types /\ t.sandbox = sandbox
  /\ t.since = since /\ t.next = next /\ t.hold = hold /\ t.out = out /\ t.got = got

\* A record with these fields has no others.
LEMMA LikeFields ==
  ASSUME NEW t, NEW state, NEW types, NEW sandbox, NEW since \in Nat, NEW next \in Nat,
         NEW hold \in Nat, NEW out \in Seq(Nat), NEW got \in Seq(Nat),
         IsLike(t, state, types, sandbox, since, next, hold, out, got)
  PROVE  Holds(t, state, types, sandbox, since, next, hold, out, got)
<1>1. /\ t.state = state /\ t.types = types /\ t.sandbox = sandbox
      /\ t.since = since /\ t.next = next /\ t.hold = hold /\ t.out = out /\ t.got = got
  BY DEF IsLike
<1>2. t \in [state : {t.state}, types : {t.types}, sandbox : {t.sandbox}, since : {t.since},
             next : {t.next}, hold : {t.hold}, out : {t.out}, got : {t.got}]
  BY <1>1, Zenon DEF IsLike
<1>3. IsSub(t)
  <2>1. t.since \in Nat /\ t.next \in Nat /\ t.hold \in Nat /\ t.out \in Seq(Nat) /\ t.got \in Seq(Nat)
    BY <1>1, Zenon
  <2>. DEFINE N == Nat
              Q == Seq(Nat)
  <2>2. t.since \in N /\ t.next \in N /\ t.hold \in N /\ t.out \in Q /\ t.got \in Q
    BY <2>1, Zenon
  <2>. HIDE DEF N, Q
  <2>3. t \in [state : {t.state}, types : {t.types}, sandbox : {t.sandbox}, since : N,
               next : N, hold : N, out : Q, got : Q]
    BY <1>2, <2>2
  <2>. QED BY <2>3, Zenon DEF IsSub, N, Q
<1>. QED BY <1>1, <1>3, Zenon DEF Holds

\* The steps of a client, each of which writes some of its fields.
LEMMA SubSteps ==
  ASSUME NEW s, IsSub(s), NEW x, NEW y, NEW z, NEW w
  PROVE  /\ IsLike([s EXCEPT !.state = "on", !.types = x, !.sandbox = y, !.since = z, !.next = w],
                   "on", x, y, z, w, s.hold, s.out, s.got)
         /\ IsLike([s EXCEPT !.next = x], s.state, s.types, s.sandbox, s.since, x, s.hold, s.out, s.got)
         /\ IsLike([s EXCEPT !.next = x, !.hold = y],
                   s.state, s.types, s.sandbox, s.since, x, y, s.out, s.got)
         /\ IsLike([s EXCEPT !.out = x, !.hold = y],
                   s.state, s.types, s.sandbox, s.since, s.next, y, x, s.got)
         /\ IsLike([s EXCEPT !.got = x, !.out = y],
                   s.state, s.types, s.sandbox, s.since, s.next, s.hold, y, x)
         /\ IsLike([s EXCEPT !.state = x, !.hold = y],
                   x, s.types, s.sandbox, s.since, s.next, y, s.out, s.got)
         /\ IsLike([s EXCEPT !.state = x],
                   x, s.types, s.sandbox, s.since, s.next, s.hold, s.out, s.got)
<1>. USE Zenon
<1>. DEFINE st == s.state
            ty == s.types
            sb == s.sandbox
            si == s.since
            ne == s.next
            ho == s.hold
            ou == s.out
            go == s.got
<1>1. s \in [state : {st}, types : {ty}, sandbox : {sb}, since : {si}, next : {ne}, hold : {ho},
             out : {ou}, got : {go}]
  BY SMT DEF IsSub
<1>. HIDE DEF st, ty, sb, si, ne, ho, ou, go
<1>2. IsLike([s EXCEPT !.state = "on", !.types = x, !.sandbox = y, !.since = z, !.next = w],
             "on", x, y, z, w, ho, ou, go)
  BY <1>1 DEF IsLike
<1>3. IsLike([s EXCEPT !.next = x], st, ty, sb, si, x, ho, ou, go)
  BY <1>1 DEF IsLike
<1>4. IsLike([s EXCEPT !.next = x, !.hold = y], st, ty, sb, si, x, y, ou, go)
  BY <1>1 DEF IsLike
<1>5. IsLike([s EXCEPT !.out = x, !.hold = y], st, ty, sb, si, ne, y, x, go)
  BY <1>1 DEF IsLike
<1>6. IsLike([s EXCEPT !.got = x, !.out = y], st, ty, sb, si, ne, ho, y, x)
  BY <1>1 DEF IsLike
<1>7. IsLike([s EXCEPT !.state = x, !.hold = y], x, ty, sb, si, ne, y, ou, go)
  BY <1>1 DEF IsLike
<1>8. IsLike([s EXCEPT !.state = x], x, ty, sb, si, ne, ho, ou, go)
  BY <1>1 DEF IsLike
<1>. QED
  BY <1>2, <1>3, <1>4, <1>5, <1>6, <1>7, <1>8 DEF st, ty, sb, si, ne, ho, ou, go

-----------------------------------------------------------------------------
(* The steps.                                                              *)

\* A step of one client.
LEMMA ClientSafe ==
  ASSUME Streams, NEW c \in Clients, NEW t, subs' = [subs EXCEPT ![c] = t], log' = log,
         SubOK(t, log)
  PROVE  Streams'
BY Zenon DEF Streams

\* A step that neither broadcasts nor is a client's.
LEMMA ElsewhereSafe ==
  ASSUME Streams, UNCHANGED <<log, subs>>
  PROVE  Streams'
BY Zenon DEF Streams

\* What is known of a client.
LEMMA ClientFields ==
  ASSUME Streams, NEW c \in Clients
  PROVE  /\ SubOK(subs[c], log) /\ IsSub(subs[c]) /\ IsSeq(log) /\ Len(log) \in Nat
         /\ subs[c].since \in Nat /\ subs[c].next \in Nat /\ subs[c].hold \in Nat
         /\ subs[c].out \in Seq(Nat) /\ subs[c].got \in Seq(Nat)
         /\ subs[c].since <= subs[c].next /\ subs[c].next <= Len(log)
         /\ subs = [k \in Clients |-> subs[k]]
<1>1. SubOK(subs[c], log) /\ IsSub(subs[c]) /\ IsSeq(log) /\ subs = [k \in Clients |-> subs[k]]
      /\ subs[c].since <= subs[c].next /\ subs[c].next <= Len(log)
  BY Zenon DEF Streams, SubOK
<1>2. Len(log) \in Nat
  BY <1>1 DEF IsSeq
<1>3. \A s : IsSub(s) => /\ s.since \in Nat /\ s.next \in Nat /\ s.hold \in Nat
                         /\ s.out \in Seq(Nat) /\ s.got \in Seq(Nat)
  BY DEF IsSub
<1>. QED BY <1>1, <1>2, <1>3, Zenon

\* A client that begins has passed nothing.
LEMMA StreamEventsSafe ==
  ASSUME Streams, NEW c \in Clients, StreamEvents(c)
  PROVE  Streams'
<1>. USE Zenon
<1>. DEFINE s == subs[c]
            n == Len(log)
<1>1. PICK f \in Cfg.filters :
         subs' = [subs EXCEPT ![c] = [subs[c] EXCEPT !.state = "on", !.types = f.types,
                     !.sandbox = f.sandbox, !.since = Len(log), !.next = Len(log)]]
  BY DEF StreamEvents
<1>2. s.state = "off" /\ log' = log
  BY DEF StreamEvents
<1>. DEFINE t == [s EXCEPT !.state = "on", !.types = f.types, !.sandbox = f.sandbox,
                           !.since = n, !.next = n]
<1>3. subs' = [subs EXCEPT ![c] = t]
  BY <1>1
<1>4. /\ IsSub(s) /\ n \in Nat /\ s.hold = 0 /\ s.out = << >> /\ s.got = << >>
      /\ s.out \in Seq(Nat) /\ s.got \in Seq(Nat) /\ s.hold \in Nat
  BY <1>2, ClientFields DEF SubOK
<1>. HIDE DEF s, n
<1>5. IsLike(t, "on", f.types, f.sandbox, n, n, s.hold, s.out, s.got)
  BY <1>4, SubSteps
<1>. HIDE DEF t
<1>6. /\ IsSub(t) /\ t.state = "on" /\ t.since = n /\ t.next = n /\ t.hold = 0
      /\ t.out = << >> /\ t.got = << >>
  <2>1. Holds(t, "on", f.types, f.sandbox, n, n, s.hold, s.out, s.got)
    BY <1>4, <1>5, LikeFields
  <2>. QED BY <1>4, <2>1 DEF Holds
<1>7. Passed(t) = << >>
  <2>1. << >> \o << >> \o << >> = << >>
    BY SMT
  <2>. QED BY <1>6, <2>1 DEF Passed
<1>8. Exact(Passed(t), t, log)
  <2>1. Len(<< >>) = 0 /\ 1 .. 0 = {} /\ n + 1 .. n = {}
    BY <1>4, SMT
  <2>. QED BY <1>6, <1>7, <2>1 DEF Exact
<1>9. n <= n /\ "on" # "off"
  BY <1>4, SMT
<1>10. SubOK(t, log)
  BY <1>6, <1>8, <1>9 DEF SubOK, n
<1>. QED BY <1>2, <1>3, <1>10, ClientSafe

\* The forwarder receives.
LEMMA ForwardSafe ==
  ASSUME Streams, NEW c \in Clients, Forward(c)
  PROVE  Streams'
<1>. USE Zenon
<1>. DEFINE s == subs[c]
            n == Len(log)
            t == Recv(s)
<1>1. /\ subs' = [subs EXCEPT ![c] = t] /\ log' = log /\ s.state \in {"on", "gone"}
      /\ s.hold = 0 /\ s.next < n
  BY DEF Forward
<1>2. /\ SubOK(s, log) /\ IsSub(s) /\ n \in Nat /\ s.since \in Nat /\ s.next \in Nat
      /\ s.hold \in Nat /\ s.out \in Seq(Nat) /\ s.got \in Seq(Nat) /\ s.since <= s.next
  BY ClientFields
<1>3. Exact(s.got \o s.out, s, log) /\ s.got \o s.out \in Seq(Nat)
  BY <1>1, <1>2, PassedIs DEF SubOK
<1>4. s.state # "off"
  BY <1>1, SMT
<1>. HIDE DEF s
<1>5. CASE n - s.next > BroadcastCap
  <2>. DEFINE m == n - BroadcastCap
  <2>1. m \in Nat /\ s.since <= m /\ m <= n
    BY <1>2, <1>5, CapAssumption, SMT
  <2>2. t = [s EXCEPT !.next = m]
    BY <1>5 DEF Recv
  <2>. HIDE DEF m, t
  <2>3. IsLike(t, s.state, s.types, s.sandbox, s.since, m, s.hold, s.out, s.got)
    BY <1>2, <2>2, SubSteps
  <2>4. /\ IsSub(t) /\ t.state = s.state /\ t.types = s.types /\ t.sandbox = s.sandbox
        /\ t.since = s.since /\ t.next = m /\ t.hold = s.hold /\ t.out = s.out /\ t.got = s.got
    <3>1. Holds(t, s.state, s.types, s.sandbox, s.since, m, s.hold, s.out, s.got)
      BY <1>2, <2>1, <2>3, LikeFields
    <3>. QED BY <3>1 DEF Holds
  <2>5. Passed(t) = s.got \o s.out
    BY <1>1, <2>4, PassedIs
  <2>6. Exact(Passed(t), t, log)
    <3>1. SameFilter(s, t)
      BY <2>4 DEF SameFilter
    <3>2. t.next = Len(log) - BroadcastCap
      BY <2>4 DEF m
    <3>. QED BY <1>2, <1>3, <1>5, <2>5, <3>1, <3>2, ExactSkips
  <2>7. SubOK(t, log)
    BY <1>4, <2>1, <2>4, <2>6 DEF SubOK
  <2>. QED BY <1>1, <2>7, ClientSafe
<1>6. CASE ~(n - s.next > BroadcastCap)
  <2>. DEFINE m == s.next + 1
              h == IF Passes(s, log[s.next + 1]) THEN m ELSE 0
  <2>1. m \in Nat /\ m # 0 /\ s.since <= m /\ m <= n /\ h \in Nat
    BY <1>1, <1>2, SMT
  <2>2. t = [s EXCEPT !.next = m, !.hold = h]
    BY <1>6 DEF Recv
  <2>. HIDE DEF h, t, n
  <2>3. IsLike(t, s.state, s.types, s.sandbox, s.since, m, h, s.out, s.got)
    <3>. HIDE DEF m
    <3>. QED BY <1>2, <2>2, SubSteps
  <2>4. /\ IsSub(t) /\ t.state = s.state /\ t.types = s.types /\ t.sandbox = s.sandbox
        /\ t.since = s.since /\ t.next = m /\ t.hold = h /\ t.out = s.out /\ t.got = s.got
    <3>. HIDE DEF m
    <3>1. Holds(t, s.state, s.types, s.sandbox, s.since, m, h, s.out, s.got)
      BY <1>2, <2>1, <2>3, LikeFields
    <3>. QED BY <3>1 DEF Holds
  <2>5. SameFilter(s, t)
    BY <2>4 DEF SameFilter
  <2>6. /\ Passes(s, log[s.next + 1]) => Exact(Append(s.got \o s.out, s.next + 1), t, log)
        /\ ~Passes(s, log[s.next + 1]) => Exact(s.got \o s.out, t, log)
    BY <1>2, <1>3, <2>4, <2>5, ExactTakes
  <2>7. Exact(Passed(t), t, log)
    <3>1. CASE Passes(s, log[s.next + 1])
      <4>1. t.hold = m /\ t.hold # 0
        BY <2>1, <2>4, <3>1 DEF h
      <4>2. Passed(t) = Append(s.got \o s.out, m)
        BY <2>4, <4>1, PassedIs
      <4>. QED BY <2>6, <3>1, <4>2
    <3>2. CASE ~Passes(s, log[s.next + 1])
      <4>1. t.hold = 0
        BY <2>4, <3>2 DEF h
      <4>2. Passed(t) = s.got \o s.out
        BY <2>4, <4>1, PassedIs
      <4>. QED BY <2>6, <3>2, <4>2
    <3>. QED BY <3>1, <3>2
  <2>8. SubOK(t, log)
    <3>. HIDE DEF m
    <3>. QED BY <1>4, <2>1, <2>4, <2>7 DEF SubOK, n
  <2>. QED BY <1>1, <2>8, ClientSafe
<1>. QED BY <1>5, <1>6

\* The forwarder sends.
LEMMA SendSafe ==
  ASSUME Streams, NEW c \in Clients, Send(c)
  PROVE  Streams'
<1>. USE Zenon
<1>. DEFINE s == subs[c]
<1>1. s.hold # 0 /\ log' = log
  BY DEF Send
<1>2. /\ SubOK(s, log) /\ IsSub(s) /\ s.since \in Nat /\ s.next \in Nat /\ s.hold \in Nat /\ 0 \in Nat
      /\ s.out \in Seq(Nat) /\ s.got \in Seq(Nat) /\ s.since <= s.next /\ s.next <= Len(log)
  <2>1. 0 \in Nat
    BY SMT
  <2>. QED BY <2>1, ClientFields
<1>3. CASE /\ s.state = "on"
           /\ subs' = [subs EXCEPT ![c].out = Append(@, s.hold), ![c].hold = 0]
  <2>. DEFINE o == Append(s.out, s.hold)
              t == [s EXCEPT !.out = o, !.hold = 0]
  <2>1. subs' = [subs EXCEPT ![c] = t]
    BY <1>3, ClientFields
  <2>2. o \in Seq(Nat)
    <3>. HIDE DEF s
    <3>. QED BY <1>2, SMT
  <2>. HIDE DEF s
  <2>3. IsLike(t, s.state, s.types, s.sandbox, s.since, s.next, 0, o, s.got)
    <3>. HIDE DEF o
    <3>. QED BY <1>2, SubSteps
  <2>4. /\ IsSub(t) /\ t.state = s.state /\ t.types = s.types /\ t.sandbox = s.sandbox
        /\ t.since = s.since /\ t.next = s.next /\ t.hold = 0 /\ t.out = o /\ t.got = s.got
    <3>. HIDE DEF t, o
    <3>1. Holds(t, s.state, s.types, s.sandbox, s.since, s.next, 0, o, s.got)
      BY <1>2, <2>2, <2>3, LikeFields
    <3>. QED BY <3>1 DEF Holds
  <2>. HIDE DEF t
  <2>5. Passed(t) = Passed(s)
    <3>1. Passed(t) = s.got \o o
      <4>. HIDE DEF o
      <4>. QED BY <2>4, PassedIs
    <3>2. Passed(s) = Append(s.got \o s.out, s.hold)
      BY <1>1, <1>2, PassedIs DEF s
    <3>3. \A x, y \in Seq(Nat), h \in Nat : x \o Append(y, h) = Append(x \o y, h)
      BY SentLast, SMT
    <3>4. s.got \in Seq(Nat) /\ s.out \in Seq(Nat) /\ s.hold \in Nat
      BY <1>2
    <3>. QED BY <3>1, <3>2, <3>3, <3>4
  <2>6. SubOK(t, log)
    <3>1. Exact(Passed(s), s, log) /\ s.state # "off"
      BY <1>2, <1>3, SMT DEF SubOK
    <3>2. SameFilter(s, t)
      BY <2>4 DEF SameFilter
    <3>3. Exact(Passed(t), t, log)
      BY <2>4, <2>5, <3>1, <3>2, ExactSame
    <3>. QED BY <1>2, <2>4, <3>1, <3>3 DEF SubOK
  <2>. QED BY <1>1, <2>1, <2>6, ClientSafe
<1>4. CASE subs' = [subs EXCEPT ![c].state = "ended", ![c].hold = 0]
  <2>. DEFINE t == [s EXCEPT !.state = "ended", !.hold = 0]
  <2>1. subs' = [subs EXCEPT ![c] = t]
    BY <1>4, ClientFields
  <2>. HIDE DEF s
  <2>2. IsLike(t, "ended", s.types, s.sandbox, s.since, s.next, 0, s.out, s.got)
    BY <1>2, SubSteps
  <2>. HIDE DEF t
  <2>3. IsSub(t) /\ t.state = "ended" /\ t.since = s.since /\ t.next = s.next
    <3>1. Holds(t, "ended", s.types, s.sandbox, s.since, s.next, 0, s.out, s.got)
      BY <1>2, <2>2, LikeFields
    <3>. QED BY <3>1 DEF Holds
  <2>4. t.state # "off" /\ t.state \notin {"on", "gone"}
    BY <2>3, SMT
  <2>5. SubOK(t, log)
    BY <1>2, <2>3, <2>4 DEF SubOK
  <2>. QED BY <1>1, <2>1, <2>5, ClientSafe
<1>. QED BY <1>3, <1>4 DEF Send

\* The client reads.
LEMMA ClientReadsSafe ==
  ASSUME Streams, NEW c \in Clients, ClientReads(c)
  PROVE  Streams'
<1>. USE Zenon
<1>. DEFINE s == subs[c]
            g == Append(s.got, Head(s.out))
            o == Tail(s.out)
            t == [s EXCEPT !.got = g, !.out = o]
<1>1. /\ s.state = "on" /\ s.out # << >> /\ log' = log
      /\ subs' = [subs EXCEPT ![c].got = Append(@, Head(s.out)), ![c].out = Tail(@)]
  BY DEF ClientReads
<1>2. /\ SubOK(s, log) /\ IsSub(s) /\ s.since \in Nat /\ s.next \in Nat /\ s.hold \in Nat
      /\ s.out \in Seq(Nat) /\ s.got \in Seq(Nat) /\ s.since <= s.next /\ s.next <= Len(log)
  BY ClientFields
<1>3. subs' = [subs EXCEPT ![c] = t]
  BY <1>1, ClientFields
<1>. HIDE DEF s
<1>4. g \o o = s.got \o s.out /\ g \in Seq(Nat) /\ o \in Seq(Nat)
  BY <1>1, <1>2, ReadFirst
<1>. HIDE DEF g, o
<1>5. IsLike(t, s.state, s.types, s.sandbox, s.since, s.next, s.hold, o, g)
  BY <1>2, SubSteps
<1>. HIDE DEF t
<1>6. /\ IsSub(t) /\ t.state = s.state /\ t.types = s.types /\ t.sandbox = s.sandbox
      /\ t.since = s.since /\ t.next = s.next /\ t.hold = s.hold /\ t.out = o /\ t.got = g
  <2>1. Holds(t, s.state, s.types, s.sandbox, s.since, s.next, s.hold, o, g)
    BY <1>2, <1>4, <1>5, LikeFields
  <2>. QED BY <2>1 DEF Holds
<1>7. Passed(t) = Passed(s)
  BY <1>4, <1>6 DEF Passed
<1>8. Exact(Passed(s), s, log) /\ s.state # "off"
  BY <1>1, <1>2, SMT DEF SubOK
<1>9. SameFilter(s, t)
  BY <1>6 DEF SameFilter
<1>10. Exact(Passed(t), t, log)
  BY <1>6, <1>7, <1>8, <1>9, ExactSame
<1>11. SubOK(t, log)
  BY <1>2, <1>6, <1>8, <1>10 DEF SubOK
<1>. QED BY <1>1, <1>3, <1>11, ClientSafe

\* The client hangs up; the forwarder has not noticed.
LEMMA ClientLeavesSafe ==
  ASSUME Streams, NEW c \in Clients, ClientLeaves(c)
  PROVE  Streams'
<1>. USE Zenon
<1>. DEFINE s == subs[c]
            t == [s EXCEPT !.state = "gone"]
<1>1. s.state = "on" /\ log' = log /\ subs' = [subs EXCEPT ![c].state = "gone"]
  BY DEF ClientLeaves
<1>2. /\ SubOK(s, log) /\ IsSub(s) /\ s.since \in Nat /\ s.next \in Nat /\ s.hold \in Nat
      /\ s.out \in Seq(Nat) /\ s.got \in Seq(Nat) /\ s.since <= s.next /\ s.next <= Len(log)
  BY ClientFields
<1>3. subs' = [subs EXCEPT ![c] = t]
  BY <1>1, ClientFields
<1>. HIDE DEF s
<1>4. IsLike(t, "gone", s.types, s.sandbox, s.since, s.next, s.hold, s.out, s.got)
  BY <1>2, SubSteps
<1>. HIDE DEF t
<1>5. /\ IsSub(t) /\ t.state = "gone" /\ t.types = s.types /\ t.sandbox = s.sandbox
      /\ t.since = s.since /\ t.next = s.next /\ t.hold = s.hold /\ t.out = s.out /\ t.got = s.got
  <2>1. Holds(t, "gone", s.types, s.sandbox, s.since, s.next, s.hold, s.out, s.got)
    BY <1>2, <1>4, LikeFields
  <2>. QED BY <2>1 DEF Holds
<1>6. Passed(t) = Passed(s)
  BY <1>5 DEF Passed
<1>7. Exact(Passed(s), s, log) /\ "gone" # "off"
  BY <1>1, <1>2, SMT DEF SubOK
<1>8. SameFilter(s, t)
  BY <1>5 DEF SameFilter
<1>9. Exact(Passed(t), t, log)
  BY <1>5, <1>6, <1>7, <1>8, ExactSame
<1>10. SubOK(t, log)
  BY <1>2, <1>5, <1>7, <1>9 DEF SubOK
<1>. QED BY <1>1, <1>3, <1>10, ClientSafe

\* An event is broadcast, or denied.
LEMMA DrainStreams ==
  ASSUME Streams, Drain
  PROVE  Streams'
<1>. USE Zenon
<1>1. /\ subs' = subs
      /\ log' = log \/ \E x : log' = Append(log, x)
  BY DEF Drain
<1>2. CASE log' = log
  BY <1>1, <1>2, ElsewhereSafe
<1>3. CASE \E x : log' = Append(log, x)
  <2>1. PICK x : log' = Append(log, x)
    BY <1>3
  <2>2. IsSeq(log) /\ \A c \in Clients : SubOK(subs[c], log)
    BY DEF Streams
  <2>3. /\ IsSeq(log') /\ Len(log') = Len(log) + 1 /\ Len(log) \in Nat
        /\ \A i \in 1 .. Len(log) : log'[i] = log[i]
    BY <2>1, <2>2, Appended
  <2>4. Len(log) <= Len(log') /\ Len(log') \in Nat
    BY <2>3, SMT
  <2>5. ASSUME NEW c \in Clients
        PROVE  SubOK(subs[c], log')
    <3>. DEFINE s == subs[c]
    <3>1. s.since \in Nat /\ s.next \in Nat /\ s.next <= Len(log) /\ SubOK(s, log)
      BY ClientFields
    <3>2. s.next <= Len(log')
      <4>. HIDE DEF s
      <4>. QED BY <2>3, <2>4, <3>1, SMT
    <3>3. Exact(Passed(s), s, log) => Exact(Passed(s), s, log')
      BY <2>3, <2>4, <3>1, ExactGrows
    <3>. QED BY <3>1, <3>2, <3>3 DEF SubOK
  <2>. QED BY <1>1, <2>3, <2>5 DEF Streams
<1>. QED BY <1>1, <1>2, <1>3

\* Every step keeps the clients right.
LEMMA StreamsStep == Streams /\ [Next]_vars => Streams'
<1>. USE Zenon
<1>. SUFFICES ASSUME Streams, [Next]_vars PROVE Streams'
  BY SMT
<1>1. CASE \E c \in Clients : Stream(c)
  BY <1>1, StreamEventsSafe, ForwardSafe, SendSafe, ClientReadsSafe, ClientLeavesSafe
     DEF Stream
<1>2. CASE Drain
  BY <1>2, DrainStreams
<1>3. CASE UNCHANGED vars
  <2>1. UNCHANGED <<log, subs>>
    BY <1>3 DEF vars, outVars
  <2>. QED BY <2>1, ElsewhereSafe
<1>4. CASE HostEvent \/ (Pipeline /\ ~Drain)
  <2>1. UNCHANGED <<log, subs>>
    BY <1>4 DEF HostEvent, Pipeline, PipelineStart, AddSource, Tick, Poll, PollEnd,
         Dispatch, DispatchEnd, Sleep, Wake, outVars
  <2>. QED BY <2>1, ElsewhereSafe
<1>5. CASE \E s \in Cfg.guests : GuestEvent(s) \/ Agent(s) \/ StartSandbox(s)
  <2>1. UNCHANGED <<log, subs>>
    BY <1>5 DEF GuestEvent, Agent, AgentStart, AgentLoad, AgentPoll, AgentBeat,
         StartSandbox, Spawn, BindSource, SendSource, outVars
  <2>. QED BY <2>1, ElsewhereSafe
<1>6. CASE \E c \in Callers : PolicyService(c) \/ SensorService(c)
  <2>1. PICK c \in Callers : PolicyService(c) \/ SensorService(c)
    BY <1>6
  <2>2. ASSUME NEW op, NEW new, NEW answer,
               PolicyReturns(c, op, new, answer) \/ SensorReturns(c, op, new, answer)
        PROVE  UNCHANGED <<log, subs>>
    BY <2>2 DEF PolicyReturns, SensorReturns, outVars
  <2>3. CASE PolicyService(c)
    <3>1. PolicyCall(c) \/ \E op, new, answer : PolicyReturns(c, op, new, answer)
      BY <2>3 DEF PolicyService, EvaluateReturns, LoadBundleReturns, RemoveBundleReturns,
           ListBundlesReturns, PolicyStatusReturns, AdmissionReturns
    <3>2. UNCHANGED <<log, subs>>
      BY <2>2, <3>1 DEF PolicyCall, outVars
    <3>. QED BY <3>2, ElsewhereSafe
  <2>4. CASE SensorService(c)
    <3>1. SensorCall(c) \/ \E op, new, answer : SensorReturns(c, op, new, answer)
      BY <2>4 DEF SensorService, LoadProgramReturns, UnloadProgramReturns,
           SensorStatusReturns
    <3>2. UNCHANGED <<log, subs>>
      BY <2>2, <3>1 DEF SensorCall, outVars
    <3>. QED BY <3>2, ElsewhereSafe
  <2>. QED BY <2>1, <2>3, <2>4
<1>. QED BY <1>1, <1>2, <1>3, <1>4, <1>5, <1>6 DEF Next

\* No client has begun.
LEMMA StreamsInit == Init => Streams
<1>. SUFFICES ASSUME Init PROVE Streams
  OBVIOUS
<1>1. log = << >> /\ subs = [c \in Clients |-> Off]
  BY Zenon DEF Init
<1>2. IsSeq(<< >>) /\ Len(<< >>) = 0 /\ 0 <= 0
  BY DEF IsSeq
<1>3. /\ IsSub(Off) /\ Off.state = "off" /\ Off.since = 0 /\ Off.next = 0
      /\ Off.hold = 0 /\ Off.out = << >> /\ Off.got = << >>
  BY DEF Off, IsSub
<1>4. "off" \notin {"on", "gone"}
  OBVIOUS
<1>5. SubOK(Off, << >>)
  BY <1>2, <1>3, <1>4, Zenon DEF SubOK
<1>. QED BY <1>1, <1>2, <1>5, Zenon DEF Streams

\* What the invariant gives.
LEMMA StreamsExact == Streams => StreamExact
<1>. USE Zenon
<1>. SUFFICES ASSUME Streams, NEW c \in Clients, subs[c].state \in {"on", "gone"}
     PROVE  LET a == Passed(subs[c])
                s == subs[c]
            IN  /\ \A i, j \in DOMAIN a : i < j => a[i] < a[j]
                /\ \A i \in DOMAIN a : a[i] \in s.since + 1 .. s.next /\ Passes(s, log[a[i]])
                /\ \A n \in s.since + 1 .. s.next :
                       \/ n \in Range(a)
                       \/ ~Passes(s, log[n])
                       \/ n + BroadcastCap <= Len(log)
  BY DEF StreamExact, Passed
<1>. DEFINE s == subs[c]
            a == Passed(s)
<1>1. IsSub(s) /\ Exact(a, s, log)
  BY ClientFields DEF SubOK
<1>2. a \in Seq(Nat)
  <2>1. s.got \o s.out \in Seq(Nat) /\ s.hold \in Nat
    BY ClientFields, PassedIs
  <2>2. \A b \in Seq(Nat), h \in Nat : Append(b, h) \in Seq(Nat)
    BY SMT
  <2>3. Passed(s) = s.got \o s.out \/ Passed(s) = Append(s.got \o s.out, s.hold)
    BY <1>1, PassedIs
  <2>. QED BY <2>1, <2>2, <2>3
<1>. HIDE DEF a
<1>3. DOMAIN a = 1 .. Len(a)
  BY <1>2, SMT
<1>4. \A n : (\E i \in 1 .. Len(a) : a[i] = n) => n \in Range(a)
  BY <1>3 DEF Range
<1>5. /\ \A i, j \in DOMAIN a : i < j => a[i] < a[j]
      /\ \A i \in DOMAIN a : a[i] \in s.since + 1 .. s.next /\ Passes(s, log[a[i]])
      /\ \A n \in s.since + 1 .. s.next :
            n \in Range(a) \/ ~Passes(s, log[n]) \/ n + BroadcastCap <= Len(log)
  BY <1>1, <1>3, <1>4 DEF Exact
<1>. QED BY <1>5 DEF a

-----------------------------------------------------------------------------
(* Loops: the recursive functions that stand for them.                     *)

\* A set of numbers has a least one: a hypothesis of the lemmas that need it.
\* LeastNumber, below, proves it.
LeastNumbers == \A T \in SUBSET Nat : T # {} => \E n \in T : \A k \in T : n <= k

\* What holds before a loop and after each of its rounds holds at its end.
LEMMA LoopInduction ==
  ASSUME LeastNumbers, NEW N \in Nat, NEW T, 0 \in T, \A n \in 1 .. N : n - 1 \in T => n \in T
  PROVE  \A n \in 0 .. N : n \in T
<1>. DEFINE U == (0 .. N) \ T
<1>. SUFFICES ASSUME U # {} PROVE FALSE
  OBVIOUS
<1>1. PICK n \in U : \A k \in U : n <= k
  <2>1. U \in SUBSET Nat
    OBVIOUS
  <2>. HIDE DEF U
  <2>. QED BY <2>1, Zenon DEF LeastNumbers
<1>2. n # 0
  OBVIOUS
<1>3. n \in 1 .. N /\ n - 1 \in 0 .. N /\ ~(n <= n - 1)
  BY <1>2
<1>4. n - 1 \in T
  BY <1>1, <1>3, Zenon
<1>. QED BY <1>3, <1>4, Zenon

\* f is what the rounds of a loop compute from base, round n by step[n].
Rounds(f, N, base, step) ==
  f[0] = base /\ \A n \in 1 .. N : f[n] = step[n][f[n - 1]]

\* A loop over values of V computes something.
LEMMA LoopRuns ==
  ASSUME LeastNumbers, NEW N \in Nat, NEW V, NEW base \in V, NEW step \in [1 .. N -> [V -> V]]
  PROVE  \E f \in [0 .. N -> V] : Rounds(f, N, base, step)
<1>. DEFINE T == {n \in 0 .. N : \E f \in [0 .. n -> V] : Rounds(f, n, base, step)}
<1>1. 0 \in T
  <2>. DEFINE f == [i \in 0 .. 0 |-> base]
  <2>1. f \in [0 .. 0 -> V] /\ f[0] = base /\ 1 .. 0 = {} /\ 0 \in 0 .. N
    OBVIOUS
  <2>2. Rounds(f, 0, base, step)
    <3>. HIDE DEF f
    <3>. QED BY <2>1, Zenon DEF Rounds
  <2>. QED BY <2>1, <2>2, Zenon
<1>2. ASSUME NEW n \in 1 .. N, n - 1 \in T PROVE n \in T
  <2>1. PICK f \in [0 .. n - 1 -> V] : Rounds(f, n - 1, base, step)
    BY <1>2, Zenon
  <2>. DEFINE g == [i \in 0 .. n |-> IF i = n THEN step[n][f[n - 1]] ELSE f[i]]
  <2>2. f[n - 1] \in V
    OBVIOUS
  <2>3. step[n][f[n - 1]] \in V
    <3>1. step[n] \in [V -> V]
      OBVIOUS
    <3>. HIDE DEF T
    <3>. QED BY <2>2, <3>1, Zenon
  <2>4. \A i \in 0 .. n : i # n => i \in 0 .. n - 1
    OBVIOUS
  <2>5. g \in [0 .. n -> V]
    BY <2>3, <2>4, Zenon
  <2>6. g[n] = step[n][f[n - 1]] /\ \A i \in 0 .. n - 1 : g[i] = f[i]
    OBVIOUS
  <2>. HIDE DEF g
  <2>7. 0 \in 0 .. n - 1 /\ n - 1 \in 0 .. n - 1 /\ n \in 0 .. N
    OBVIOUS
  <2>8. \A i \in 1 .. n : i # n => i \in 1 .. n - 1 /\ i \in 0 .. n - 1 /\ i - 1 \in 0 .. n - 1
    OBVIOUS
  <2>9. Rounds(g, n, base, step)
    BY <2>1, <2>6, <2>7, <2>8, Zenon DEF Rounds
  <2>. QED BY <2>5, <2>7, <2>9, Zenon
<1>3. N \in 0 .. N
  OBVIOUS
<1>. HIDE DEF T
<1>4. N \in T
  BY <1>1, <1>2, <1>3, LoopInduction, Zenon
<1>. QED BY <1>4 DEF T

-----------------------------------------------------------------------------
(* The rules.                                                              *)

\* Rules ask for actions there are.
AreRules(rules) == IsSeq(rules) /\ \A i \in 1 .. Len(rules) : rules[i].action \in Actions

\* The actions the first n rules ask for.
AskedBy(rules, n, type) ==
  {"allow"} \cup {rules[i].action : i \in {j \in 1 .. n : Matches(rules[j], type)}}

IsSeverest(a, asked) == a \in asked /\ \A b \in asked : Severity[b] <= Severity[a]

\* The more restrictive of two actions is one of them, and no less severe.
LEMMA MoreRestrictive ==
  ASSUME NEW a \in Actions, NEW b \in Actions
  PROVE  /\ MostRestrictive(a, b) \in Actions
         /\ MostRestrictive(a, b) \in {a, b}
         /\ Severity[a] <= Severity[MostRestrictive(a, b)]
         /\ Severity[b] <= Severity[MostRestrictive(a, b)]
<1>1. \A c \in Actions : Severity[c] \in Nat
  BY DEF Actions, Severity
<1>2. Severity[a] \in Nat /\ Severity[b] \in Nat
  BY <1>1, Zenon
<1>. HIDE DEF Severity
<1>. QED BY <1>2 DEF MostRestrictive

\* The severest of actions of which one is added.
LEMMA SeverestOfMore ==
  ASSUME NEW S \in SUBSET Actions, NEW a, IsSeverest(a, S), NEW b \in Actions
  PROVE  IsSeverest(MostRestrictive(a, b), S \cup {b})
<1>1. \A c \in Actions : Severity[c] \in Nat
  BY DEF Actions, Severity
<1>2. a \in Actions
  BY DEF IsSeverest
<1>. DEFINE m == MostRestrictive(a, b)
<1>3. /\ m \in Actions /\ m \in {a, b}
      /\ Severity[a] <= Severity[m] /\ Severity[b] <= Severity[m]
  BY <1>2, MoreRestrictive, Zenon
<1>4. \A i, j, k \in Nat : i <= j /\ j <= k => i <= k
  OBVIOUS
<1>. HIDE DEF m, Severity, Actions
<1>5. ASSUME NEW c \in S PROVE Severity[c] <= Severity[m]
  <2>1. Severity[c] <= Severity[a] /\ c \in Actions
    BY Zenon DEF IsSeverest
  <2>. QED BY <1>1, <1>2, <1>3, <1>4, <2>1, Zenon
<1>. QED BY <1>3, <1>5, Zenon DEF IsSeverest, m

\* EnforcementEngine::evaluate: its loop over the rules leaves the severest
\* of the actions they ask for.
LEMMA EvaluateIsSeverest ==
  ASSUME LeastNumbers, NEW rules, AreRules(rules), NEW type
  PROVE  IsSeverest(Evaluate(rules, type), AskedBy(rules, Len(rules), type))
<1>. USE Zenon
<1>. DEFINE N == Len(rules)
            Body(g) == [n \in 0 .. N |->
                          IF n = 0 THEN "allow"
                          ELSE IF Matches(rules[n], type)
                          THEN MostRestrictive(g[n - 1], rules[n].action)
                          ELSE g[n - 1]]
            step == [n \in 1 .. N |-> [a \in Actions |->
                       IF Matches(rules[n], type) THEN MostRestrictive(a, rules[n].action) ELSE a]]
            u == CHOOSE g : g = Body(g)
<1>1. N \in Nat
  BY SMT DEF AreRules, IsSeq
<1>2. \A n \in 1 .. N : rules[n].action \in Actions
  BY DEF AreRules
<1>3. "allow" \in Actions
  BY SMT DEF Actions
<1>4. step \in [1 .. N -> [Actions -> Actions]]
  <2>1. ASSUME NEW n \in 1 .. N, NEW a \in Actions
        PROVE  MostRestrictive(a, rules[n].action) \in Actions
    BY <1>2, MoreRestrictive
  <2>. HIDE DEF N
  <2>. QED BY <2>1
<1>5. PICK f \in [0 .. N -> Actions] : Rounds(f, N, "allow", step)
  <2>. HIDE DEF step
  <2>. QED BY <1>1, <1>3, <1>4, LoopRuns
<1>6. f = Body(f)
  <2>1. ASSUME NEW n \in 0 .. N PROVE f[n] = Body(f)[n]
    <3>1. CASE n = 0
      BY <1>5, <3>1 DEF Rounds
    <3>2. CASE n # 0
      <4>1. n \in 1 .. N /\ n - 1 \in 0 .. N
        BY <1>1, <3>2, SMT
      <4>2. f[n] = step[n][f[n - 1]] /\ f[n - 1] \in Actions
        BY <1>5, <4>1 DEF Rounds
      <4>. HIDE DEF N
      <4>. QED BY <3>2, <4>1, <4>2
    <3>. QED BY <3>1, <3>2
  <2>. HIDE DEF N
  <2>. QED BY <1>5, <2>1
<1>7. u = Body(u)
  <2>. HIDE DEF Body
  <2>. QED BY <1>6
<1>8. Evaluate(rules, type) = u[N]
  BY DEF Evaluate
<1>. HIDE DEF u
<1>9. /\ u[0] = "allow"
      /\ \A n \in 1 .. N : u[n] = IF Matches(rules[n], type)
                                  THEN MostRestrictive(u[n - 1], rules[n].action)
                                  ELSE u[n - 1]
  <2>1. 0 \in 0 .. N /\ \A n \in 1 .. N : n \in 0 .. N /\ n # 0
    BY <1>1, SMT
  <2>. HIDE DEF N
  <2>. QED BY <1>7, <2>1
<1>. HIDE DEF Body, step, N
<1>. DEFINE T == {n \in 0 .. N : IsSeverest(u[n], AskedBy(rules, n, type))}
<1>10. 0 \in T
  <2>1. 1 .. 0 = {} /\ 0 \in 0 .. N /\ Severity["allow"] <= Severity["allow"]
    BY <1>1, SMT DEF Severity
  <2>2. AskedBy(rules, 0, type) = {"allow"}
    BY <2>1 DEF AskedBy
  <2>. QED BY <1>9, <2>1, <2>2 DEF IsSeverest
<1>11. ASSUME NEW n \in 1 .. N, n - 1 \in T PROVE n \in T
  <2>1. n \in 0 .. N /\ 1 .. n = (1 .. n - 1) \cup {n} /\ (\A i \in 1 .. n - 1 : i \in 1 .. N)
    BY <1>1, SMT
  <2>2. CASE Matches(rules[n], type)
    <3>1. AskedBy(rules, n, type) = AskedBy(rules, n - 1, type) \cup {rules[n].action}
      BY <2>1, <2>2 DEF AskedBy
    <3>2. AskedBy(rules, n - 1, type) \in SUBSET Actions
      BY <1>2, <1>3, <2>1 DEF AskedBy
    <3>3. IsSeverest(u[n], AskedBy(rules, n, type))
      <4>. DEFINE S == AskedBy(rules, n - 1, type)
                  a == u[n - 1]
                  b == rules[n].action
      <4>1. S \in SUBSET Actions /\ IsSeverest(a, S) /\ b \in Actions
        BY <1>2, <1>11, <3>2
      <4>2. u[n] = MostRestrictive(a, b)
        BY <1>9, <2>2
      <4>3. AskedBy(rules, n, type) = S \cup {b}
        BY <3>1
      <4>. HIDE DEF S, a, b
      <4>4. IsSeverest(MostRestrictive(a, b), S \cup {b})
        BY <4>1, SeverestOfMore
      <4>. QED BY <4>2, <4>3, <4>4
    <3>. QED BY <2>1, <3>3
  <2>3. CASE ~Matches(rules[n], type)
    <3>1. AskedBy(rules, n, type) = AskedBy(rules, n - 1, type)
      BY <2>1, <2>3 DEF AskedBy
    <3>. QED BY <1>9, <1>11, <2>1, <2>3, <3>1
  <2>. QED BY <2>2, <2>3
<1>12. N \in T
  <2>1. N \in 0 .. N
    BY <1>1, SMT
  <2>. HIDE DEF T
  <2>. QED BY <1>1, <1>10, <1>11, <2>1, LoopInduction
<1>. QED BY <1>8, <1>12 DEF N

-----------------------------------------------------------------------------
(* The sources.                                                            *)

\* The files of which the pipeline thread makes a source.
HostFiles == {p.file : p \in {q \in Range(Cfg.probes) : HostLoads(q)}}

\* The known programs report events.
LEMMA ProgramTypes ==
  /\ HandleExec.type # 0 /\ HandleVfsOpen.type # 0 /\ HandleTcpConnect.type # 0
  /\ HandleSslWrite.type # 0 /\ HandleSslRead.type # 0
BY DEF HandleExec, HandleVfsOpen, HandleTcpConnect, HandleSslWrite, HandleSslRead

\* What a program of the host writes is an event.
LEMMA HostTypes ==
  ASSUME NEW f \in HostFiles PROVE TypeOf(f) # 0
<1>1. PICK p : p.file = f /\ HostLoads(p)
  BY Zenon DEF HostFiles
<1>2. Objects[f].program \in {HandleExec, HandleTcpConnect, HandleVfsOpen, HandleSslWrite}
  BY <1>1, Zenon DEF HostLoads, LoadProcessExec, LoadTcpConnect, LoadFileMonitor,
                     LoadSslMonitor, Loads
<1>. QED BY <1>2, ProgramTypes, Zenon DEF TypeOf

\* So is what one in a guest writes.
LEMMA GuestTypes ==
  ASSUME NEW f \in AgentProbes PROVE TypeOf(f) # 0
<1>1. PICK p : p.file = f /\ AgentLoads(p)
  BY Zenon DEF AgentProbes
<1>2. Objects[f].program \in {HandleExec, HandleVfsOpen, HandleTcpConnect, HandleSslWrite,
                              HandleSslRead}
  <2>1. FindProgramName(f) # None
    BY <1>1, Zenon DEF AgentLoads
  <2>. QED BY <2>1, Zenon DEF FindProgramName
<1>. QED BY <1>2, ProgramTypes, Zenon DEF TypeOf

\* The loop over the configured probes makes a sequence of sources.
LEMMA HostSourcesAre ==
  ASSUME LeastNumbers, conf \in DOMAIN Configs PROVE HostSources \in Seq(HostFiles)
<1>. USE Zenon
<1>. DEFINE probes == Cfg.probes
            N == Len(probes)
            V == Seq(HostFiles)
            Body(g) == [n \in 0 .. N |->
                          IF n = 0 THEN << >>
                          ELSE IF HostLoads(probes[n]) THEN Append(g[n - 1], probes[n].file)
                          ELSE g[n - 1]]
            step == [n \in 1 .. N |-> [s \in V |->
                       IF HostLoads(probes[n]) THEN Append(s, probes[n].file) ELSE s]]
            u == CHOOSE g : g = Body(g)
<1>1. N \in Nat /\ \A n \in 1 .. N : probes[n] \in Range(probes)
  <2>1. probes \in Seq(Range(probes))
    BY ConfAssumption DEF Cfg
  <2>. HIDE DEF probes
  <2>. QED BY <2>1, SMT
<1>2. ASSUME NEW n \in 1 .. N, HostLoads(probes[n]) PROVE probes[n].file \in HostFiles
  BY <1>1, <1>2 DEF HostFiles
<1>3. << >> \in V
  BY SMT
<1>4. step \in [1 .. N -> [V -> V]]
  <2>1. \A S : \A s \in Seq(S), x \in S : Append(s, x) \in Seq(S)
    BY SMT
  <2>2. ASSUME NEW n \in 1 .. N, NEW s \in V, HostLoads(probes[n])
        PROVE  Append(s, probes[n].file) \in V
    BY <1>2, <2>1, <2>2
  <2>. HIDE DEF N, V, probes
  <2>. QED BY <2>2
<1>5. PICK f \in [0 .. N -> V] : Rounds(f, N, << >>, step)
  <2>. HIDE DEF step, V
  <2>. QED BY <1>1, <1>3, <1>4, LoopRuns
<1>6. f = Body(f)
  <2>1. ASSUME NEW n \in 0 .. N PROVE f[n] = Body(f)[n]
    <3>1. CASE n = 0
      BY <1>5, <3>1 DEF Rounds
    <3>2. CASE n # 0
      <4>1. n \in 1 .. N /\ n - 1 \in 0 .. N
        BY <1>1, <3>2, SMT
      <4>2. f[n] = step[n][f[n - 1]] /\ f[n - 1] \in V
        BY <1>5, <4>1 DEF Rounds
      <4>. HIDE DEF N, V, probes
      <4>. QED BY <3>2, <4>1, <4>2
    <3>. QED BY <3>1, <3>2
  <2>. HIDE DEF N, V, probes
  <2>. QED BY <1>5, <2>1
<1>7. u = Body(u)
  <2>. HIDE DEF Body
  <2>. QED BY <1>6
<1>8. HostSources = u[N]
  BY DEF HostSources
<1>. HIDE DEF u
<1>9. /\ u[0] = << >>
      /\ \A n \in 1 .. N : u[n] = IF HostLoads(probes[n]) THEN Append(u[n - 1], probes[n].file)
                                  ELSE u[n - 1]
  <2>1. 0 \in 0 .. N /\ \A n \in 1 .. N : n \in 0 .. N /\ n # 0
    BY <1>1, SMT
  <2>. HIDE DEF N, probes
  <2>. QED BY <1>7, <2>1
<1>10. \A n \in 1 .. N : \A s \in V : step[n][s] =
         IF HostLoads(probes[n]) THEN Append(s, probes[n].file) ELSE s
  <2>. HIDE DEF N, V, probes
  <2>. QED OBVIOUS
<1>. DEFINE T == {n \in 0 .. N : u[n] \in V}
<1>. HIDE DEF Body, N, V, probes
<1>11. 0 \in T
  <2>1. 0 \in 0 .. N
    BY <1>1, SMT
  <2>. QED BY <1>3, <1>9, <2>1
<1>12. ASSUME NEW n \in 1 .. N, n - 1 \in T PROVE n \in T
  <2>1. n \in 0 .. N
    BY <1>1, SMT
  <2>2. step[n] \in [V -> V]
    <3>. HIDE DEF step
    <3>. QED BY <1>4
  <2>3. step[n][u[n - 1]] \in V
    <3>. HIDE DEF step
    <3>. QED BY <1>12, <2>2
  <2>. HIDE DEF step
  <2>. QED BY <1>9, <1>10, <1>12, <2>1, <2>3
<1>13. N \in T
  <2>1. N \in 0 .. N
    BY <1>1, SMT
  <2>. HIDE DEF T
  <2>. QED BY <1>1, <1>11, <1>12, <2>1, LoopInduction
<1>. QED BY <1>8, <1>13 DEF V

-----------------------------------------------------------------------------
(* What is on its way.  t are the events the sources took in, B what is    *)
(* still in the sources and L, the line, what was polled: it is decided    *)
(* on, in the channel or in the aggregator.                                *)

Among(x, s) == \E i \in 1 .. Len(s) : s[i] = x

\* If x and y are of one source, it took x in before y.
Earlier(x, y, t) ==
  \A m, n \in 1 .. Len(t) : t[m] = x /\ t[n] = y /\ x.src = y.src => m < n
Rising(s, t) == \A i, j \in 1 .. Len(s) : i < j => Earlier(s[i], s[j], t)
Before(s, r, t) == \A i \in 1 .. Len(s), j \in 1 .. Len(r) : Earlier(s[i], r[j], t)

Events(t, B, L) ==
  /\ \A m, n \in 1 .. Len(t) : t[m].id = t[n].id => m = n
  /\ \A n \in 1 .. Len(t) : /\ t[n].type # 0 /\ t[n].src \in DOMAIN B
                            /\ Among(t[n], L) \/ Among(t[n], B[t[n].src])

InSource(s, b, t) ==
  \A i \in 1 .. Len(b) : b[i].src = s /\ (b[i].type = 0 \/ Among(b[i], t))

Whole(L, B, t) ==
  /\ IsSeq(L) /\ IsSeq(t)
  /\ B = [s \in DOMAIN B |-> B[s]] /\ \A s \in DOMAIN B : IsSeq(B[s])
  /\ Events(t, B, L)
  /\ \A i \in 1 .. Len(L) : Among(L[i], t)
  /\ \A s \in DOMAIN B : InSource(s, B[s], t)
  /\ Rising(L, t)
  /\ \A s \in DOMAIN B : Rising(B[s], t) /\ Before(L, B[s], t)

\* Two sequences in a row.
Joins(c, a, b) ==
  /\ IsSeq(c) /\ Len(c) = Len(a) + Len(b)
  /\ \A i \in 1 .. Len(a) : i \in 1 .. Len(c) /\ c[i] = a[i]
  /\ \A i \in 1 .. Len(b) : Len(a) + i \in 1 .. Len(c) /\ c[Len(a) + i] = b[i]
  /\ \A k \in 1 .. Len(c) :
       \/ k \in 1 .. Len(a) /\ c[k] = a[k]
       \/ \E i \in 1 .. Len(b) : k = Len(a) + i /\ c[k] = b[i]

\* A sequence is one over any set that has its elements.
LEMMA SeqOver ==
  ASSUME NEW S, NEW s \in Seq(S) PROVE IsSeq(s)
<1>1. Len(s) \in Nat /\ s = [i \in 1 .. Len(s) |-> s[i]]
  OBVIOUS
<1>. QED BY <1>1 DEF IsSeq

\* Two sequences after each other have the elements of both.
LEMMA ConcatJoins ==
  ASSUME NEW a, NEW b, IsSeq(a), IsSeq(b)
  PROVE  Joins(a \o b, a, b) /\ Len(a) \in Nat /\ Len(b) \in Nat
<1>. DEFINE S == {a[i] : i \in 1 .. Len(a)} \cup {b[i] : i \in 1 .. Len(b)}
            c == a \o b
<1>1. a \in Seq(S) /\ b \in Seq(S)
  BY DEF IsSeq
<1>. HIDE DEF S
<1>2. /\ c \in Seq(S) /\ Len(c) = Len(a) + Len(b) /\ Len(a) \in Nat /\ Len(b) \in Nat
      /\ \A i \in 1 .. Len(a) : c[i] = a[i]
      /\ \A i \in 1 .. Len(b) : c[Len(a) + i] = b[i]
  BY <1>1
<1>3. IsSeq(c)
  BY <1>2, SeqOver, Zenon
<1>. HIDE DEF c
<1>4. ASSUME NEW k \in 1 .. Len(c)
      PROVE  \/ k \in 1 .. Len(a) /\ c[k] = a[k]
             \/ \E i \in 1 .. Len(b) : k = Len(a) + i /\ c[k] = b[i]
  <2>1. CASE k <= Len(a)
    BY <1>2, <2>1
  <2>2. CASE ~(k <= Len(a))
    <3>1. k - Len(a) \in 1 .. Len(b) /\ k = Len(a) + (k - Len(a))
      BY <1>2, <2>2
    <3>2. c[Len(a) + (k - Len(a))] = b[k - Len(a)]
      BY <1>2, <3>1, Zenon
    <3>. QED BY <3>1, <3>2, Zenon
  <2>. QED BY <2>1, <2>2, Zenon
<1>5. /\ \A i \in 1 .. Len(a) : i \in 1 .. Len(c)
      /\ \A i \in 1 .. Len(b) : Len(a) + i \in 1 .. Len(c)
  BY <1>2
<1>6. Joins(c, a, b)
  BY <1>2, <1>3, <1>4, <1>5, Zenon DEF Joins
<1>. QED BY <1>2, <1>6, Zenon DEF c

\* What is among a sequence and another in a row.
LEMMA AmongJoined ==
  ASSUME NEW a, NEW b, NEW c, Joins(c, a, b), NEW x
  PROVE  Among(x, c) <=> Among(x, a) \/ Among(x, b)
BY Zenon DEF Joins, Among

\* The order of a row is that of its parts.
LEMMA RisingJoined ==
  ASSUME NEW a, NEW b, NEW c, Joins(c, a, b), NEW t, Len(a) \in Nat, Len(b) \in Nat
  PROVE  Rising(c, t) <=> Rising(a, t) /\ Rising(b, t) /\ Before(a, b, t)
<1>. USE Zenon
<1>1. ASSUME Rising(c, t) PROVE Rising(a, t) /\ Rising(b, t) /\ Before(a, b, t)
  <2>1. Rising(a, t)
    BY <1>1 DEF Rising, Joins
  <2>2. ASSUME NEW i \in 1 .. Len(b), NEW j \in 1 .. Len(b), i < j PROVE Earlier(b[i], b[j], t)
    <3>1. Len(a) + i < Len(a) + j
      BY <2>2, SMT
    <3>. QED BY <1>1, <3>1 DEF Rising, Joins
  <2>3. ASSUME NEW i \in 1 .. Len(a), NEW j \in 1 .. Len(b) PROVE Earlier(a[i], b[j], t)
    <3>1. i < Len(a) + j
      BY SMT
    <3>. QED BY <1>1, <3>1 DEF Rising, Joins
  <2>. QED BY <2>1, <2>2, <2>3 DEF Rising, Before
<1>2. ASSUME Rising(a, t), Rising(b, t), Before(a, b, t) PROVE Rising(c, t)
  <2>1. SUFFICES ASSUME NEW i \in 1 .. Len(c), NEW j \in 1 .. Len(c), i < j
                 PROVE  Earlier(c[i], c[j], t)
    BY DEF Rising
  <2>2. CASE i \in 1 .. Len(a) /\ c[i] = a[i]
    <3>1. CASE j \in 1 .. Len(a) /\ c[j] = a[j]
      BY <1>2, <2>1, <2>2, <3>1 DEF Rising
    <3>2. ASSUME NEW k \in 1 .. Len(b), j = Len(a) + k, c[j] = b[k] PROVE Earlier(c[i], c[j], t)
      BY <1>2, <2>2, <3>2 DEF Before
    <3>. QED BY <3>1, <3>2 DEF Joins
  <2>3. ASSUME NEW l \in 1 .. Len(b), i = Len(a) + l, c[i] = b[l] PROVE Earlier(c[i], c[j], t)
    <3>1. CASE j \in 1 .. Len(a) /\ c[j] = a[j]
      BY <2>1, <2>3, <3>1, SMT
    <3>2. ASSUME NEW k \in 1 .. Len(b), j = Len(a) + k, c[j] = b[k] PROVE Earlier(c[i], c[j], t)
      <4>1. l < k
        BY <2>1, <2>3, <3>2, SMT
      <4>. QED BY <1>2, <2>3, <3>2, <4>1 DEF Rising
    <3>. QED BY <3>1, <3>2 DEF Joins
  <2>. QED BY <2>2, <2>3 DEF Joins
<1>. QED BY <1>1, <1>2

\* Two sequences after each other come before what each of them does, ...
LEMMA JoinedBefore ==
  ASSUME NEW a, NEW b, NEW c, Joins(c, a, b), NEW t, NEW d, Before(a, d, t), Before(b, d, t)
  PROVE  Before(c, d, t)
BY Zenon DEF Joins, Before

\* ... and each of them after what both do.
LEMMA BeforeJoined ==
  ASSUME NEW a, NEW b, NEW c, Joins(c, a, b), NEW t, NEW d, Before(d, c, t)
  PROVE  Before(d, a, t) /\ Before(d, b, t)
BY Zenon DEF Joins, Before

\* The places of a sequence.
LEMMA LengthIs ==
  ASSUME NEW s, IsSeq(s) PROVE Len(s) \in Nat /\ DOMAIN s = 1 .. Len(s)
BY DEF IsSeq

\* What push_back leaves: the elements and a last one.
LEMMA AppendsLast ==
  ASSUME NEW s, IsSeq(s), NEW x PROVE Append(s, x)[Len(s) + 1] = x
<1>. DEFINE S == {s[i] : i \in 1 .. Len(s)} \cup {x}
<1>1. s \in Seq(S) /\ x \in S
  BY DEF IsSeq
<1>. HIDE DEF S
<1>. QED BY <1>1

\* Appending is joining one.
LEMMA AppendJoins ==
  ASSUME NEW s, IsSeq(s), NEW x
  PROVE  Joins(Append(s, x), s, <<x>>) /\ IsSeq(<<x>>)
<1>. DEFINE S == {s[i] : i \in 1 .. Len(s)} \cup {x}
<1>1. s \in Seq(S) /\ x \in S
  BY DEF IsSeq
<1>2. IsSeq(<<x>>)
  <2>1. <<x>> \in Seq({x})
    OBVIOUS
  <2>. QED BY <2>1, SeqOver, Zenon
<1>. HIDE DEF S
<1>3. Append(s, x) = s \o <<x>>
  BY <1>1
<1>. QED BY <1>2, <1>3, ConcatJoins, Zenon

\* A sequence that is not empty begins with its head.
LEMMA HeadJoins ==
  ASSUME NEW s, IsSeq(s), s # << >>
  PROVE  Joins(s, <<Head(s)>>, Tail(s)) /\ IsSeq(Tail(s)) /\ IsSeq(<<Head(s)>>)
<1>. DEFINE S == {s[i] : i \in 1 .. Len(s)}
<1>1. s \in Seq(S)
  BY DEF IsSeq
<1>. HIDE DEF S
<1>2. s = <<Head(s)>> \o Tail(s) /\ Tail(s) \in Seq(S) /\ <<Head(s)>> \in Seq(S)
  BY <1>1
<1>3. IsSeq(Tail(s)) /\ IsSeq(<<Head(s)>>)
  BY <1>2, SeqOver, Zenon
<1>. QED BY <1>2, <1>3, ConcatJoins, Zenon

\* A sequence cut in two.
LEMMA CutJoins ==
  ASSUME NEW s, IsSeq(s), NEW n \in Nat, n <= Len(s)
  PROVE  /\ Joins(s, SubSeq(s, 1, n), SubSeq(s, n + 1, Len(s)))
         /\ IsSeq(SubSeq(s, 1, n)) /\ IsSeq(SubSeq(s, n + 1, Len(s)))
<1>. DEFINE S == {s[i] : i \in 1 .. Len(s)}
<1>1. s \in Seq(S)
  BY DEF IsSeq
<1>. HIDE DEF S
<1>. DEFINE a == SubSeq(s, 1, n)
            b == SubSeq(s, n + 1, Len(s))
<1>2. /\ a \in Seq(S) /\ Len(a) = n /\ Len(s) \in Nat
      /\ \A i \in 1 .. n : a[i] = s[i]
  BY <1>1
<1>3. /\ b \in Seq(S) /\ Len(b) = Len(s) - n
      /\ \A i \in 1 .. Len(s) - n : b[i] = s[n + i]
  BY <1>1
<1>. HIDE DEF a, b
<1>4. IsSeq(a) /\ IsSeq(b)
  BY <1>2, <1>3, SeqOver, Zenon
<1>5. ASSUME NEW k \in 1 .. Len(s)
      PROVE  \/ k \in 1 .. Len(a) /\ s[k] = a[k]
             \/ \E i \in 1 .. Len(b) : k = Len(a) + i /\ s[k] = b[i]
  <2>1. CASE k <= n
    BY <1>2, <2>1
  <2>2. CASE ~(k <= n)
    <3>1. k - n \in 1 .. Len(s) - n /\ k = n + (k - n)
      BY <1>2, <2>2
    <3>. QED BY <1>2, <1>3, <3>1, ZenonT(40)
  <2>. QED BY <2>1, <2>2, Zenon
<1>6. /\ Len(s) = Len(a) + Len(b)
      /\ \A i \in 1 .. Len(a) : i \in 1 .. Len(s)
      /\ \A i \in 1 .. Len(b) : Len(a) + i \in 1 .. Len(s)
  BY <1>2, <1>3
<1>7. Joins(s, a, b)
  BY <1>2, <1>3, <1>5, <1>6, Zenon DEF Joins
<1>. QED BY <1>4, <1>7, Zenon DEF a, b

\* A sequence and one more element.
LEMMA AppendIs ==
  ASSUME NEW s, IsSeq(s), NEW x PROVE Append(s, x) = s \o <<x>>
<1>. DEFINE S == {s[i] : i \in 1 .. Len(s)} \cup {x}
<1>1. s \in Seq(S) /\ x \in S
  BY DEF IsSeq
<1>. HIDE DEF S
<1>. QED BY <1>1

\* What source s took in, t, is in `all', in order and each once.
InOrder(s, t, all) ==
  SameOrder({n \in 1 .. Len(t) : t[n].src = s}, t,
            {i \in 1 .. Len(all) : all[i].src = s /\ all[i].type # 0}, all)

\* Nothing lost, repeated or out of order on the way from one source.
LEMMA WholeInOrder ==
  ASSUME NEW L, NEW B, NEW t, Whole(L, B, t), NEW s \in DOMAIN B, NEW all, Joins(all, L, B[s])
  PROVE  InOrder(s, t, all)
<1>. USE Zenon
<1>. DEFINE I == {n \in 1 .. Len(t) : t[n].src = s}
            J == {i \in 1 .. Len(all) : all[i].src = s /\ all[i].type # 0}
<1>1. ASSUME NEW n \in I PROVE \E j \in J : t[n] = all[j]
  <2>1. Among(t[n], L) \/ Among(t[n], B[s])
    BY DEF Whole, Events
  <2>2. Among(t[n], all)
    BY <2>1, AmongJoined
  <2>3. t[n].type # 0
    BY DEF Whole, Events
  <2>. QED BY <2>2, <2>3 DEF Among
<1>2. ASSUME NEW j \in J PROVE \E n \in I : t[n] = all[j]
  <2>1. CASE j \in 1 .. Len(L) /\ all[j] = L[j]
    <3>1. Among(L[j], t)
      BY <2>1 DEF Whole
    <3>. QED BY <2>1, <3>1 DEF Among
  <2>2. ASSUME NEW i \in 1 .. Len(B[s]), all[j] = B[s][i] PROVE \E n \in I : t[n] = all[j]
    <3>1. Among(B[s][i], t)
      BY <2>2 DEF Whole, InSource
    <3>. QED BY <2>2, <3>1 DEF Among
  <2>. QED BY <2>1, <2>2 DEF Joins
<1>3. Rising(all, t)
  <2>1. Len(L) \in Nat /\ Len(B[s]) \in Nat
    BY LengthIs DEF Whole
  <2>. QED BY <2>1, RisingJoined DEF Whole
<1>4. ASSUME NEW h \in I, NEW i \in I, NEW j \in J, NEW k \in J, t[h] = all[j], t[i] = all[k]
      PROVE  h < i <=> j < k
  <2>1. j < k => h < i
    BY <1>3, <1>4 DEF Rising, Earlier
  <2>2. k < j => i < h
    BY <1>3, <1>4 DEF Rising, Earlier
  <2>3. j = k => h = i
    BY <1>4 DEF Whole, Events
  <2>4. Len(t) \in Nat /\ Len(all) \in Nat
    BY LengthIs DEF Whole, Joins
  <2>5. h \in 1 .. Len(t) /\ i \in 1 .. Len(t) /\ j \in 1 .. Len(all) /\ k \in 1 .. Len(all)
    OBVIOUS
  <2>. HIDE DEF I, J
  <2>. QED BY <2>1, <2>2, <2>3, <2>4, <2>5, SMT
<1>. HIDE DEF I, J
<1>5. SameOrder(I, t, J, all)
  BY <1>1, <1>2, <1>4 DEF SameOrder
<1>. QED BY <1>5 DEF I, J, InOrder

\* An event that comes is behind the others of its source.
LEMMA EarlierGrows ==
  ASSUME NEW t, IsSeq(t), NEW e, \A n \in 1 .. Len(t) : t[n].id # e.id,
         NEW x, NEW y, Earlier(x, y, t), x # e, y # e
  PROVE  Earlier(x, y, Append(t, e))
<1>. DEFINE u == Append(t, e)
<1>1. Len(u) = Len(t) + 1 /\ Len(t) \in Nat /\ u[Len(t) + 1] = e
      /\ \A i \in 1 .. Len(t) : u[i] = t[i]
  BY Appended, AppendsLast, Zenon
<1>. HIDE DEF u
<1>2. \A i \in 1 .. Len(u) : i \in 1 .. Len(t) \/ i = Len(t) + 1
  BY <1>1
<1>. QED BY <1>1, <1>2, Zenon DEF Earlier, u

\* No event comes after the one appended.
LEMMA EarlierThanLast ==
  ASSUME NEW t, IsSeq(t), NEW e, \A n \in 1 .. Len(t) : t[n].id # e.id, NEW x, x # e
  PROVE  Earlier(x, e, Append(t, e))
<1>. DEFINE u == Append(t, e)
<1>1. Len(u) = Len(t) + 1 /\ Len(t) \in Nat /\ u[Len(t) + 1] = e
      /\ \A i \in 1 .. Len(t) : u[i] = t[i]
  BY Appended, AppendsLast, Zenon
<1>. HIDE DEF u
<1>2. \A i \in 1 .. Len(u) : i \in 1 .. Len(t) \/ i = Len(t) + 1
  BY <1>1
<1>3. \A i \in 1 .. Len(t) : i < Len(t) + 1
  BY <1>1
<1>. QED BY <1>1, <1>2, <1>3, Zenon DEF Earlier, u

\* C is B with y in source s.
Puts(C, B, s, y) ==
  /\ DOMAIN C = DOMAIN B /\ C = [r \in DOMAIN C |-> C[r]]
  /\ C[s] = y /\ \A r \in DOMAIN B : r # s => C[r] = B[r]

\* One entry of a table is replaced.
LEMMA ExceptPuts ==
  ASSUME NEW B, B = [r \in DOMAIN B |-> B[r]], NEW s \in DOMAIN B, NEW y
  PROVE  Puts([B EXCEPT ![s] = y], B, s, y)
BY Zenon DEF Puts

\* A sequence with one more element.
LEMMA AppendedIs ==
  ASSUME NEW s, IsSeq(s), NEW x
  PROVE  /\ Len(s) \in Nat /\ IsSeq(Append(s, x)) /\ Append(s, x)[Len(s) + 1] = x
         /\ Len(s) + 1 \in 1 .. Len(Append(s, x))
         /\ \A i \in 1 .. Len(s) : i \in 1 .. Len(Append(s, x)) /\ Append(s, x)[i] = s[i]
         /\ \A i \in 1 .. Len(Append(s, x)) : i \in 1 .. Len(s) \/ i = Len(s) + 1
<1>1. Len(Append(s, x)) = Len(s) + 1 /\ Len(s) \in Nat /\ IsSeq(Append(s, x))
      /\ \A i \in 1 .. Len(s) : Append(s, x)[i] = s[i]
  BY Appended, Zenon
<1>2. Append(s, x)[Len(s) + 1] = x
  BY AppendsLast, Zenon
<1>. DEFINE u == Append(s, x)
<1>3. \A i \in 1 .. Len(u) : i \in 1 .. Len(s) \/ i = Len(s) + 1
  <2>. HIDE DEF u
  <2>1. Len(u) = Len(s) + 1 /\ Len(s) \in Nat
    BY <1>1, Zenon DEF u
  <2>. QED BY <2>1
<1>4. Len(s) + 1 \in 1 .. Len(u) /\ \A i \in 1 .. Len(s) : i \in 1 .. Len(u)
  <2>. HIDE DEF u
  <2>1. Len(u) = Len(s) + 1 /\ Len(s) \in Nat
    BY <1>1, Zenon DEF u
  <2>. QED BY <2>1
<1>. QED BY <1>1, <1>2, <1>3, <1>4, Zenon DEF u

\* A later event after events in their order.
LEMMA RisingAppend ==
  ASSUME NEW s, IsSeq(s), NEW x, NEW t, Rising(s, t),
         \A i \in 1 .. Len(s) : Earlier(s[i], x, t)
  PROVE  Rising(Append(s, x), t)
<1>. DEFINE u == Append(s, x)
            n == Len(s)
<1>1. /\ n \in Nat /\ u[n + 1] = x
      /\ \A i \in 1 .. n : u[i] = s[i]
      /\ \A i \in 1 .. Len(u) : i \in 1 .. n \/ i = n + 1
  BY AppendedIs, Zenon
<1>2. \A i \in 1 .. n : ~(n + 1 < i)
  BY <1>1
<1>3. ~(n + 1 < n + 1)
  BY <1>1
<1>. HIDE DEF u, n
<1>4. ASSUME NEW i \in 1 .. Len(u), NEW j \in 1 .. Len(u), i < j PROVE Earlier(u[i], u[j], t)
  <2>1. i \in 1 .. n
    BY <1>1, <1>2, <1>3, <1>4, Zenon
  <2>. QED BY <1>1, <1>4, <2>1, Zenon DEF Rising, n
<1>. QED BY <1>4, Zenon DEF Rising, u

\* What comes before a queue comes before it with a later event appended.
LEMMA BeforeAppend ==
  ASSUME NEW s, IsSeq(s), NEW x, NEW t, NEW L, Before(L, s, t),
         \A i \in 1 .. Len(L) : Earlier(L[i], x, t)
  PROVE  Before(L, Append(s, x), t)
<1>. DEFINE u == Append(s, x)
            n == Len(s)
<1>1. /\ n \in Nat /\ u[n + 1] = x
      /\ \A i \in 1 .. n : u[i] = s[i]
      /\ \A i \in 1 .. Len(u) : i \in 1 .. n \/ i = n + 1
  BY AppendedIs, Zenon
<1>. HIDE DEF u
<1>2. Before(L, u, t)
  BY <1>1, Zenon DEF Before
<1>. QED BY <1>2, Zenon DEF u

\* A source takes an event in.
LEMMA WholeTakes ==
  ASSUME NEW L, NEW B, NEW t, Whole(L, B, t), NEW e, e.type # 0, e.src \in DOMAIN B,
         \A n \in 1 .. Len(t) : t[n].id # e.id,
         NEW C, Puts(C, B, e.src, Append(B[e.src], e))
  PROVE  Whole(L, C, Append(t, e))
<1>. USE Zenon
<1>. DEFINE u == Append(t, e)
            s == e.src
            b == B[s]
            c == Append(b, e)
<1>1. IsSeq(t) /\ IsSeq(L) /\ IsSeq(b) /\ \A r \in DOMAIN B : IsSeq(B[r])
  BY DEF Whole
<1>2. /\ Len(t) \in Nat /\ IsSeq(u) /\ u[Len(t) + 1] = e
      /\ Len(t) + 1 \in 1 .. Len(u)
      /\ \A i \in 1 .. Len(t) : i \in 1 .. Len(u) /\ u[i] = t[i]
      /\ \A i \in 1 .. Len(u) : i \in 1 .. Len(t) \/ i = Len(t) + 1
  BY <1>1, AppendedIs
<1>3. /\ Len(b) \in Nat /\ IsSeq(c) /\ c[Len(b) + 1] = e
      /\ Len(b) + 1 \in 1 .. Len(c)
      /\ \A i \in 1 .. Len(b) : i \in 1 .. Len(c) /\ c[i] = b[i]
      /\ \A i \in 1 .. Len(c) : i \in 1 .. Len(b) \/ i = Len(b) + 1
  BY <1>1, AppendedIs
<1>4. \A x : (x.type = 0 \/ Among(x, t)) => x # e
  BY DEF Among
<1>5. \A x, y : Earlier(x, y, t) /\ x # e /\ y # e => Earlier(x, y, u)
  BY <1>1, EarlierGrows
<1>6. \A x : x # e => Earlier(x, e, u)
  BY <1>1, EarlierThanLast
<1>7. \A i \in 1 .. Len(L) : L[i] # e
  BY <1>4 DEF Whole
<1>8. \A r \in DOMAIN B : \A i \in 1 .. Len(B[r]) : B[r][i] # e
  BY <1>4 DEF Whole, InSource
<1>9. Among(e, u) /\ \A x : Among(x, t) => Among(x, u)
  BY <1>2 DEF Among
<1>10. Among(e, c) /\ \A x : Among(x, b) => Among(x, c)
  BY <1>3 DEF Among
<1>11. DOMAIN C = DOMAIN B /\ C = [r \in DOMAIN C |-> C[r]] /\ C[s] = c
       /\ \A r \in DOMAIN B : r # s => C[r] = B[r]
  BY DEF Puts
<1>. HIDE DEF u, c
<1>12. \A r \in DOMAIN C : IsSeq(C[r])
  BY <1>1, <1>3, <1>11
<1>13. Events(u, C, L)
  <2>1. \A m, n \in 1 .. Len(u) : u[m].id = u[n].id => m = n
    BY <1>2 DEF Whole, Events
  <2>2. ASSUME NEW n \in 1 .. Len(u)
        PROVE  /\ u[n].type # 0 /\ u[n].src \in DOMAIN C
               /\ Among(u[n], L) \/ Among(u[n], C[u[n].src])
    <3>1. CASE n \in 1 .. Len(t)
      <4>1. u[n] = t[n] /\ t[n].type # 0 /\ t[n].src \in DOMAIN B
            /\ (Among(t[n], L) \/ Among(t[n], B[t[n].src]))
        BY <1>2, <3>1 DEF Whole, Events
      <4>. QED BY <4>1, <1>10, <1>11
    <3>2. CASE n = Len(t) + 1
      BY <1>2, <1>10, <1>11, <3>2
    <3>. QED BY <1>2, <3>1, <3>2
  <2>. QED BY <2>1, <2>2 DEF Events
<1>14. \A i \in 1 .. Len(L) : Among(L[i], u)
  BY <1>9 DEF Whole
<1>15. ASSUME NEW r \in DOMAIN C PROVE InSource(r, C[r], u)
  <2>1. CASE r = s
    <3>1. \A i \in 1 .. Len(b) : b[i].src = s /\ (b[i].type = 0 \/ Among(b[i], u))
      BY <1>9 DEF Whole, InSource
    <3>2. InSource(s, c, u)
      BY <1>3, <1>9, <3>1 DEF InSource
    <3>. QED BY <1>11, <2>1, <3>2
  <2>2. CASE r # s
    BY <1>9, <1>11, <2>2, ZenonT(40) DEF Whole, InSource
  <2>. QED BY <2>1, <2>2
<1>16. Rising(L, u)
  BY <1>5, <1>7 DEF Whole, Rising
<1>17. ASSUME NEW r \in DOMAIN B PROVE Rising(B[r], u) /\ Before(L, B[r], u)
  BY <1>5, <1>7, <1>8 DEF Whole, Rising, Before
<1>18. ASSUME NEW r \in DOMAIN C PROVE Rising(C[r], u) /\ Before(L, C[r], u)
  <2>1. CASE r = s
    <3>1. Rising(c, u)
      BY <1>1, <1>6, <1>8, <1>17, RisingAppend DEF c
    <3>2. Before(L, c, u)
      BY <1>1, <1>6, <1>7, <1>17, BeforeAppend DEF c
    <3>. QED BY <1>11, <2>1, <3>1, <3>2
  <2>2. CASE r # s
    BY <1>11, <1>17, <2>2
  <2>. QED BY <2>1, <2>2
<1>19. Whole(L, C, u)
  BY <1>1, <1>2, <1>11, <1>12, <1>13, <1>14, <1>15, <1>16, <1>18 DEF Whole
<1>. QED BY <1>19 DEF u

\* A source takes a datagram in that is too short to be an event.
LEMMA WholeTakesShort ==
  ASSUME NEW L, NEW B, NEW t, Whole(L, B, t), NEW e, e.type = 0, e.src \in DOMAIN B,
         NEW C, Puts(C, B, e.src, Append(B[e.src], e))
  PROVE  Whole(L, C, t)
<1>. USE Zenon
<1>. DEFINE s == e.src
            b == B[s]
            c == Append(b, e)
<1>1. IsSeq(b) /\ \A r \in DOMAIN B : IsSeq(B[r])
  BY DEF Whole
<1>2. /\ Len(b) \in Nat /\ IsSeq(c) /\ c[Len(b) + 1] = e
      /\ \A i \in 1 .. Len(b) : i \in 1 .. Len(c) /\ c[i] = b[i]
      /\ \A i \in 1 .. Len(c) : i \in 1 .. Len(b) \/ i = Len(b) + 1
  BY <1>1, AppendedIs
<1>3. \A x : Among(x, b) => Among(x, c)
  BY <1>2 DEF Among
<1>4. \A x : Earlier(x, e, t)
  BY DEF Earlier, Whole, Events
<1>5. DOMAIN C = DOMAIN B /\ C = [r \in DOMAIN C |-> C[r]] /\ C[s] = c
      /\ \A r \in DOMAIN B : r # s => C[r] = B[r]
  BY DEF Puts
<1>6. Rising(c, t) /\ Before(L, c, t)
  BY <1>1, <1>4, RisingAppend, BeforeAppend DEF Whole
<1>. HIDE DEF c
<1>7. InSource(s, c, t)
  <2>1. InSource(s, b, t)
    BY DEF Whole
  <2>. QED BY <1>2, <2>1 DEF InSource
<1>8. Events(t, C, L)
  BY <1>3, <1>5 DEF Events, Whole
<1>9. ASSUME NEW r \in DOMAIN C
      PROVE  IsSeq(C[r]) /\ InSource(r, C[r], t) /\ Rising(C[r], t) /\ Before(L, C[r], t)
  BY <1>2, <1>5, <1>6, <1>7, ZenonT(40) DEF Whole
<1>. QED BY <1>5, <1>8, <1>9 DEF Whole

\* The parts of what is in a source are in it.
LEMMA InSourceJoined ==
  ASSUME NEW a, NEW b, NEW c, Joins(c, a, b), NEW s, NEW t, InSource(s, c, t)
  PROVE  InSource(s, a, t) /\ InSource(s, b, t)
<1>. DEFINE P(x) == x.src = s /\ (x.type = 0 \/ Among(x, t))
<1>1. \A d : InSource(s, d, t) <=> \A i \in 1 .. Len(d) : P(d[i])
  BY Zenon DEF InSource
<1>. HIDE DEF P
<1>2. \A i \in 1 .. Len(c) : P(c[i])
  BY <1>1, Zenon
<1>3. (\A i \in 1 .. Len(a) : P(a[i])) /\ \A i \in 1 .. Len(b) : P(b[i])
  BY <1>2, Zenon DEF Joins
<1>. QED BY <1>1, <1>3, Zenon

\* Such a datagram is read and dropped.
LEMMA WholeDrops ==
  ASSUME NEW L, NEW B, NEW t, Whole(L, B, t), NEW s \in DOMAIN B, NEW h, NEW y,
         Joins(B[s], h, y), IsSeq(h), IsSeq(y), \A i \in 1 .. Len(h) : h[i].type = 0,
         NEW C, Puts(C, B, s, y)
  PROVE  Whole(L, C, t)
<1>. USE Zenon
<1>1. DOMAIN C = DOMAIN B /\ C = [r \in DOMAIN C |-> C[r]] /\ C[s] = y
      /\ \A r \in DOMAIN B : r # s => C[r] = B[r]
  BY DEF Puts
<1>2. \A x : x.type # 0 => ~Among(x, h)
  BY DEF Among
<1>3. \A x : Among(x, B[s]) <=> Among(x, h) \/ Among(x, y)
  BY AmongJoined
<1>4. Len(h) \in Nat /\ Len(y) \in Nat
  BY LengthIs
<1>5. Rising(y, t) /\ Before(L, y, t)
  <2>1. Rising(B[s], t) /\ Before(L, B[s], t)
    BY DEF Whole
  <2>2. Rising(y, t)
    BY <1>4, <2>1, RisingJoined
  <2>3. Before(L, y, t)
    BY <2>1, BeforeJoined
  <2>. QED BY <2>2, <2>3
<1>6. InSource(s, y, t)
  <2>1. InSource(s, B[s], t)
    BY DEF Whole
  <2>. QED BY <2>1, InSourceJoined
<1>7. Events(t, C, L)
  BY <1>1, <1>2, <1>3 DEF Events, Whole
<1>8. ASSUME NEW r \in DOMAIN C
      PROVE  IsSeq(C[r]) /\ InSource(r, C[r], t) /\ Rising(C[r], t) /\ Before(L, C[r], t)
  BY <1>1, <1>5, <1>6 DEF Whole
<1>. QED BY <1>1, <1>7, <1>8 DEF Whole

\* Events are read from a source.
LEMMA WholeReads ==
  ASSUME NEW L, NEW B, NEW t, Whole(L, B, t), NEW s \in DOMAIN B, NEW h, NEW y,
         Joins(B[s], h, y), IsSeq(h), IsSeq(y), \A i \in 1 .. Len(h) : h[i].type # 0,
         NEW C, Puts(C, B, s, y), NEW M, Joins(M, L, h)
  PROVE  Whole(M, C, t)
<1>. USE Zenon
<1>1. DOMAIN C = DOMAIN B /\ C = [r \in DOMAIN C |-> C[r]] /\ C[s] = y
      /\ \A r \in DOMAIN B : r # s => C[r] = B[r]
  BY DEF Puts
<1>2. \A x : Among(x, B[s]) <=> Among(x, h) \/ Among(x, y)
  BY AmongJoined
<1>3. \A x : Among(x, M) <=> Among(x, L) \/ Among(x, h)
  BY AmongJoined
<1>4. Len(h) \in Nat /\ Len(y) \in Nat /\ Len(L) \in Nat /\ IsSeq(M)
  BY LengthIs DEF Whole, Joins
<1>5. /\ Rising(h, t) /\ Rising(y, t) /\ Before(h, y, t)
      /\ Before(L, h, t) /\ Before(L, y, t)
  <2>1. Rising(B[s], t) /\ Before(L, B[s], t)
    BY DEF Whole
  <2>2. Rising(h, t) /\ Rising(y, t) /\ Before(h, y, t)
    BY <1>4, <2>1, RisingJoined
  <2>3. Before(L, h, t) /\ Before(L, y, t)
    BY <2>1, BeforeJoined
  <2>. QED BY <2>2, <2>3
<1>6. InSource(s, h, t) /\ InSource(s, y, t)
  <2>1. InSource(s, B[s], t)
    BY DEF Whole
  <2>. QED BY <2>1, InSourceJoined
<1>7. Rising(M, t)
  BY <1>4, <1>5, RisingJoined DEF Whole
<1>8. \A i \in 1 .. Len(M) : Among(M[i], t)
  <2>1. \A i \in 1 .. Len(L) : Among(L[i], t)
    BY DEF Whole
  <2>2. \A i \in 1 .. Len(h) : Among(h[i], t)
    BY <1>6 DEF InSource
  <2>. QED BY <2>1, <2>2 DEF Joins
<1>9. Events(t, C, M)
  BY <1>1, <1>2, <1>3 DEF Events, Whole
<1>10. ASSUME NEW r \in DOMAIN B, r # s PROVE Before(M, B[r], t)
  <2>1. Before(h, B[r], t)
    <3>1. \A i \in 1 .. Len(B[r]) : B[r][i].src = r
      BY DEF Whole, InSource
    <3>2. \A i \in 1 .. Len(h) : h[i].src = s
      BY <1>6 DEF InSource
    <3>3. ASSUME NEW i \in 1 .. Len(h), NEW j \in 1 .. Len(B[r]) PROVE h[i].src # B[r][j].src
      <4>1. h[i].src = s /\ B[r][j].src = r
        BY <3>1, <3>2
      <4>. QED BY <1>10, <4>1
    <3>. QED BY <3>3 DEF Before, Earlier
  <2>2. Before(L, B[r], t)
    BY DEF Whole
  <2>. QED BY <2>1, <2>2, JoinedBefore
<1>11. Before(M, y, t)
  BY <1>5, JoinedBefore
<1>12. ASSUME NEW r \in DOMAIN C
       PROVE  IsSeq(C[r]) /\ InSource(r, C[r], t) /\ Rising(C[r], t) /\ Before(M, C[r], t)
  <2>1. CASE r = s
    BY <1>1, <1>5, <1>6, <1>11, <2>1
  <2>2. CASE r # s
    BY <1>1, <1>10, <2>2 DEF Whole
  <2>. QED BY <2>1, <2>2
<1>. QED BY <1>1, <1>4, <1>7, <1>8, <1>9, <1>12 DEF Whole

-----------------------------------------------------------------------------
(* The line: decided on, in the channel, in the aggregator.                *)

Row(d, c, p) == d \o c \o p

\* What moves up in the line stays in it.
LEMMA RowMoves ==
  ASSUME NEW d, NEW c, NEW p, IsSeq(d), IsSeq(c), IsSeq(p)
  PROVE  /\ IsSeq(Row(d, c, p))
         /\ p # << >> => /\ Row(d, Append(c, Head(p)), Tail(p)) = Row(d, c, p)
                         /\ IsSeq(Append(c, Head(p))) /\ IsSeq(Tail(p))
         /\ c # << >> => /\ Row(Append(d, Head(c)), Tail(c), p) = Row(d, c, p)
                         /\ IsSeq(Append(d, Head(c))) /\ IsSeq(Tail(c))
<1>. DEFINE S == {d[i] : i \in 1 .. Len(d)} \cup {c[i] : i \in 1 .. Len(c)}
                 \cup {p[i] : i \in 1 .. Len(p)}
<1>1. d \in Seq(S) /\ c \in Seq(S) /\ p \in Seq(S)
  BY DEF IsSeq
<1>. HIDE DEF S
<1>2. \A a, b \in Seq(S) : a \o b \in Seq(S)
  OBVIOUS
<1>3. \A a \in Seq(S), x \in S : Append(a, x) \in Seq(S)
  OBVIOUS
<1>4. ASSUME p # << >>
      PROVE  /\ Row(d, Append(c, Head(p)), Tail(p)) = Row(d, c, p)
             /\ IsSeq(Append(c, Head(p))) /\ IsSeq(Tail(p))
  <2>. DEFINE x == Head(p)
              q == Tail(p)
              r == d \o c
  <2>1. x \in S /\ q \in Seq(S)
    BY <1>1, <1>4
  <2>2. r \in Seq(S)
    BY <1>1, <1>2, Zenon
  <2>3. d \o Append(c, x) = Append(r, x)
    BY <1>1, <2>1, SentLast, SMTT(20)
  <2>4. Append(r, x) \o q = r \o p
    <3>. HIDE DEF r
    <3>. QED BY <1>1, <1>4, <2>2, ReadFirst, Zenon
  <2>5. IsSeq(Append(c, x)) /\ IsSeq(q)
    BY <1>1, <1>3, <2>1, SeqOver, Zenon
  <2>. QED BY <2>3, <2>4, <2>5, Zenon DEF Row
<1>5. ASSUME c # << >>
      PROVE  /\ Row(Append(d, Head(c)), Tail(c), p) = Row(d, c, p)
             /\ IsSeq(Append(d, Head(c))) /\ IsSeq(Tail(c))
  <2>1. Append(d, Head(c)) \o Tail(c) = d \o c
        /\ Append(d, Head(c)) \in Seq(S) /\ Tail(c) \in Seq(S)
    BY <1>1, <1>5, ReadFirst, Zenon
  <2>. QED BY <2>1, SeqOver, Zenon DEF Row
<1>6. IsSeq(Row(d, c, p))
  BY <1>1, <1>2, SeqOver, Zenon DEF Row
<1>. QED BY <1>4, <1>5, <1>6, Zenon

\* What is polled joins the line.
LEMMA RowGrows ==
  ASSUME NEW d, NEW c, NEW p, NEW h, IsSeq(d), IsSeq(c), IsSeq(p), IsSeq(h)
  PROVE  Joins(Row(d, c, p \o h), Row(d, c, p), h) /\ IsSeq(p \o h)
<1>. DEFINE S == {d[i] : i \in 1 .. Len(d)} \cup {c[i] : i \in 1 .. Len(c)}
                 \cup {p[i] : i \in 1 .. Len(p)} \cup {h[i] : i \in 1 .. Len(h)}
<1>1. d \in Seq(S) /\ c \in Seq(S) /\ p \in Seq(S) /\ h \in Seq(S)
  BY DEF IsSeq
<1>. HIDE DEF S
<1>2. \A a, b \in Seq(S) : a \o b \in Seq(S)
  OBVIOUS
<1>3. \A a, b, e \in Seq(S) : a \o (b \o e) = (a \o b) \o e
  OBVIOUS
<1>4. Row(d, c, p \o h) = Row(d, c, p) \o h
  <2>. DEFINE r == d \o c
  <2>1. r \in Seq(S)
    BY <1>1, <1>2, Zenon
  <2>. HIDE DEF r
  <2>2. r \o (p \o h) = (r \o p) \o h
    BY <1>1, <1>3, <2>1, SMT
  <2>. QED BY <2>2, Zenon DEF Row, r
<1>5. IsSeq(Row(d, c, p)) /\ IsSeq(p \o h)
  BY <1>1, <1>2, SeqOver, Zenon DEF Row
<1>. QED BY <1>4, <1>5, ConcatJoins, Zenon

-----------------------------------------------------------------------------
(* The kernels number their events.  P are the perf buffers of the guests. *)

IsEvent(e) == e = [id |-> e.id, type |-> e.type, src |-> e.src]

\* An event of a guest that no source of the host has taken in.
Unsent(e, n, t) ==
  /\ IsEvent(e) /\ e.type # 0 /\ e.id \in Nat /\ n < e.id
  /\ \A k \in 1 .. Len(t) : t[k].id # e.id

\* Event n is the next; no two have one number.
Numbered(n, P, t) ==
  /\ n \in Nat /\ IsSeq(t)
  /\ P = [s \in Sandboxes |-> P[s]]
  /\ \A s \in Sandboxes : IsSeq(P[s]) /\ \A i \in 1 .. Len(P[s]) : Unsent(P[s][i], n, t)
  /\ \A s, r \in Sandboxes : \A i \in 1 .. Len(P[s]), j \in 1 .. Len(P[r]) :
         P[s][i].id = P[r][j].id => s = r /\ i = j
  /\ \A k \in 1 .. Len(t) : t[k].id \in Nat /\ n < t[k].id

\* A number is used.
LEMMA NumberedNext ==
  ASSUME NEW n, NEW P, NEW t, Numbered(n, P, t), n > 0
  PROVE  /\ Numbered(n - 1, P, t)
         /\ \A k \in 1 .. Len(t) : t[k].id # n
         /\ \A s \in Sandboxes : \A i \in 1 .. Len(P[s]) : P[s][i].id # n
<1>1. n \in Nat /\ n - 1 \in Nat /\ (\A x \in Nat : n < x => n - 1 < x /\ x # n)
  BY DEF Numbered
<1>2. \A e : Unsent(e, n, t) => Unsent(e, n - 1, t) /\ e.id # n
  BY <1>1, Zenon DEF Unsent
<1>3. \A k \in 1 .. Len(t) : t[k].id \in Nat /\ n - 1 < t[k].id /\ t[k].id # n
  BY <1>1, Zenon DEF Numbered
<1>4. \A s \in Sandboxes : \A i \in 1 .. Len(P[s]) : Unsent(P[s][i], n, t)
  BY Zenon DEF Numbered
<1>5. \A s \in Sandboxes : \A i \in 1 .. Len(P[s]) : Unsent(P[s][i], n - 1, t) /\ P[s][i].id # n
  BY <1>2, <1>4, Zenon
<1>. QED BY <1>1, <1>3, <1>5, Zenon DEF Numbered

\* The source of a probe on the host takes event n in.
LEMMA NumberedTaken ==
  ASSUME NEW n, NEW P, NEW t, Numbered(n, P, t), n > 0, NEW e, e.id = n
  PROVE  Numbered(n - 1, P, Append(t, e))
<1>. USE Zenon
<1>. DEFINE u == Append(t, e)
<1>1. /\ Numbered(n - 1, P, t)
      /\ \A s \in Sandboxes : \A i \in 1 .. Len(P[s]) : P[s][i].id # n
  BY NumberedNext
<1>2. /\ IsSeq(u) /\ u[Len(t) + 1] = e /\ \A i \in 1 .. Len(t) : u[i] = t[i]
      /\ \A i \in 1 .. Len(u) : i \in 1 .. Len(t) \/ i = Len(t) + 1
  BY AppendedIs DEF Numbered
<1>. HIDE DEF u
<1>3. n \in Nat /\ n - 1 < n
  BY SMT DEF Numbered
<1>4. \A k \in 1 .. Len(u) : u[k].id \in Nat /\ n - 1 < u[k].id
  BY <1>1, <1>2, <1>3 DEF Numbered
<1>5. \A d : Unsent(d, n - 1, t) /\ d.id # n => Unsent(d, n - 1, u)
  BY <1>2 DEF Unsent
<1>6. \A s \in Sandboxes : \A i \in 1 .. Len(P[s]) : Unsent(P[s][i], n - 1, u)
  BY <1>1, <1>5 DEF Numbered
<1>. QED BY <1>1, <1>2, <1>4, <1>6 DEF Numbered, u

\* A program in guest s writes event n into its perf buffer.
LEMMA NumberedWritten ==
  ASSUME NEW n, NEW P, NEW t, Numbered(n, P, t), n > 0,
         NEW e, IsEvent(e), e.id = n, e.type # 0, NEW s \in Sandboxes
  PROVE  Numbered(n - 1, [P EXCEPT ![s] = Append(@, e)], t)
<1>. USE Zenon
<1>. DEFINE c == Append(P[s], e)
            Q == [P EXCEPT ![s] = c]
            m == Len(P[s])
<1>1. /\ Numbered(n - 1, P, t)
      /\ \A r \in Sandboxes : \A i \in 1 .. Len(P[r]) : P[r][i].id # n
      /\ \A k \in 1 .. Len(t) : t[k].id # n
  BY NumberedNext
<1>2. /\ IsSeq(c) /\ c[m + 1] = e /\ \A i \in 1 .. m : c[i] = P[s][i]
      /\ \A i \in 1 .. Len(c) : i \in 1 .. m \/ i = m + 1
  BY AppendedIs DEF Numbered
<1>. HIDE DEF c, m
<1>3. /\ Q = [r \in Sandboxes |-> Q[r]] /\ Q[s] = c
      /\ \A r \in Sandboxes : r # s => Q[r] = P[r]
  BY DEF Numbered
<1>. HIDE DEF Q
<1>4. Unsent(e, n - 1, t)
  <2>1. n \in Nat /\ n - 1 < n
    BY SMT DEF Numbered
  <2>. QED BY <1>1, <2>1 DEF Unsent
<1>5. \A i \in 1 .. Len(c) : Unsent(c[i], n - 1, t)
  BY <1>1, <1>2, <1>4 DEF Numbered, m
<1>6. \A r \in Sandboxes : IsSeq(Q[r]) /\ \A i \in 1 .. Len(Q[r]) : Unsent(Q[r][i], n - 1, t)
  <2>. SUFFICES ASSUME NEW r \in Sandboxes
                PROVE  IsSeq(Q[r]) /\ \A i \in 1 .. Len(Q[r]) : Unsent(Q[r][i], n - 1, t)
    BY SMT
  <2>1. CASE r = s
    BY <1>2, <1>3, <1>5, <2>1
  <2>2. CASE r # s
    <3>1. Q[r] = P[r]
      BY <1>3, <2>2
    <3>. QED BY <1>1, <3>1 DEF Numbered
  <2>. QED BY <2>1, <2>2
<1>. DEFINE New(r, i) == r = s /\ i = m + 1
            Old(r, i) == i \in 1 .. Len(P[r]) /\ Q[r][i] = P[r][i] /\ Q[r][i].id # n
<1>7. \A r \in Sandboxes : \A i \in 1 .. Len(Q[r]) :
          (New(r, i) /\ Q[r][i].id = n) \/ Old(r, i)
  <2>. SUFFICES ASSUME NEW r \in Sandboxes, NEW i \in 1 .. Len(Q[r])
                PROVE  (New(r, i) /\ Q[r][i].id = n) \/ Old(r, i)
    BY SMT
  <2>1. CASE r = s
    <3>1. Q[r] = c
      BY <1>3, <2>1
    <3>2. CASE i \in 1 .. m
      <4>1. c[i] = P[s][i] /\ P[s][i].id # n
        BY <1>1, <1>2, <3>2 DEF m
      <4>. QED BY <2>1, <3>1, <3>2, <4>1 DEF m
    <3>3. CASE i = m + 1
      <4>1. Q[r][i] = e
        BY <1>2, <3>1, <3>3
      <4>. QED BY <2>1, <3>3, <4>1
    <3>. QED BY <1>2, <3>1, <3>2, <3>3
  <2>2. CASE r # s
    <3>1. Q[r] = P[r]
      BY <1>3, <2>2
    <3>. QED BY <1>1, <3>1
  <2>. QED BY <2>1, <2>2
<1>8. \A q, r \in Sandboxes : \A i \in 1 .. Len(Q[q]), j \in 1 .. Len(Q[r]) :
          Q[q][i].id = Q[r][j].id => q = r /\ i = j
  <2>. SUFFICES ASSUME NEW q \in Sandboxes, NEW r \in Sandboxes, NEW i \in 1 .. Len(Q[q]),
                       NEW j \in 1 .. Len(Q[r]), Q[q][i].id = Q[r][j].id
                PROVE  q = r /\ i = j
    BY SMT
  <2>1. CASE New(q, i) /\ Q[q][i].id = n
    <3>1. New(r, j)
      BY <1>7, <2>1
    <3>. QED BY <2>1, <3>1
  <2>2. CASE Old(q, i)
    <3>1. Old(r, j)
      <4>1. Q[r][j].id # n
        BY <2>2
      <4>. QED BY <1>7, <4>1
    <3>2. P[q][i].id = P[r][j].id /\ i \in 1 .. Len(P[q]) /\ j \in 1 .. Len(P[r])
      BY <2>2, <3>1
    <3>3. \A x, y \in Sandboxes : \A k \in 1 .. Len(P[x]), l \in 1 .. Len(P[y]) :
              P[x][k].id = P[y][l].id => x = y /\ k = l
      BY DEF Numbered
    <3>. QED BY <3>2, <3>3, SMT
  <2>. QED BY <1>7, <2>1, <2>2
<1>. QED BY <1>1, <1>3, <1>6, <1>8 DEF Numbered, Q, c

\* The first of a sequence and the rest.
LEMMA TailIs ==
  ASSUME NEW s, IsSeq(s), s # << >>
  PROVE  /\ IsSeq(Tail(s)) /\ Len(Tail(s)) \in Nat /\ 1 \in 1 .. Len(s) /\ Head(s) = s[1]
         /\ \A i \in 1 .. Len(Tail(s)) : i + 1 \in 1 .. Len(s) /\ Tail(s)[i] = s[i + 1]
<1>. DEFINE S == {s[i] : i \in 1 .. Len(s)}
<1>1. s \in Seq(S)
  BY DEF IsSeq
<1>. HIDE DEF S
<1>2. IsSeq(Tail(s))
  BY HeadJoins, Zenon
<1>. QED BY <1>1, <1>2

\* Guest s sends the first event of its perf buffer.
LEMMA NumberedSent ==
  ASSUME NEW n, NEW P, NEW t, Numbered(n, P, t), NEW s \in Sandboxes, P[s] # << >>
  PROVE  /\ Unsent(Head(P[s]), n, t)
         /\ Numbered(n, [P EXCEPT ![s] = Tail(@)], t)
         /\ \A e : e.id = Head(P[s]).id => Numbered(n, [P EXCEPT ![s] = Tail(@)], Append(t, e))
<1>. USE Zenon
<1>. DEFINE c == Tail(P[s])
            d == Head(P[s])
            Q == [P EXCEPT ![s] = c]
<1>1. IsSeq(P[s]) /\ IsSeq(t)
  BY DEF Numbered
<1>2. /\ IsSeq(c) /\ Len(c) \in Nat /\ 1 \in 1 .. Len(P[s]) /\ d = P[s][1]
      /\ \A i \in 1 .. Len(c) : i + 1 \in 1 .. Len(P[s]) /\ c[i] = P[s][i + 1]
  BY <1>1, TailIs
<1>3. /\ \A i \in 1 .. Len(c) : i + 1 # 1
      /\ \A i, j \in 1 .. Len(c) : i + 1 = j + 1 => i = j
  <2>. HIDE DEF c
  <2>. QED BY <1>2, SMT
<1>. HIDE DEF c, d
<1>4. /\ Q = [r \in Sandboxes |-> Q[r]] /\ Q[s] = c
      /\ \A r \in Sandboxes : r # s => Q[r] = P[r]
  BY DEF Numbered
<1>. HIDE DEF Q
<1>5. Unsent(d, n, t)
  BY <1>2 DEF Numbered
\* the place in P of what is in Q
<1>. DEFINE Was(r, i, k) == k \in 1 .. Len(P[r]) /\ Q[r][i] = P[r][k]
                            /\ (IF r = s THEN k = i + 1 ELSE k = i)
<1>6. \A r \in Sandboxes : \A i \in 1 .. Len(Q[r]) : \E k : Was(r, i, k)
  <2>. SUFFICES ASSUME NEW r \in Sandboxes, NEW i \in 1 .. Len(Q[r]) PROVE \E k : Was(r, i, k)
    BY SMT
  <2>1. CASE r = s
    <3>1. Q[r] = c
      BY <1>4, <2>1
    <3>2. Was(r, i, i + 1)
      BY <1>2, <2>1, <3>1
    <3>. QED BY <3>2
  <2>2. CASE r # s
    <3>1. Q[r] = P[r]
      BY <1>4, <2>2
    <3>2. Was(r, i, i)
      BY <2>2, <3>1
    <3>. QED BY <3>2
  <2>. QED BY <2>1, <2>2
<1>7. \A q, r \in Sandboxes : \A i \in 1 .. Len(Q[q]), j \in 1 .. Len(Q[r]) :
          Q[q][i].id = Q[r][j].id => q = r /\ i = j
  <2>. SUFFICES ASSUME NEW q \in Sandboxes, NEW r \in Sandboxes, NEW i \in 1 .. Len(Q[q]),
                       NEW j \in 1 .. Len(Q[r]), Q[q][i].id = Q[r][j].id
                PROVE  q = r /\ i = j
    BY SMT
  <2>1. PICK k : Was(q, i, k)
    BY <1>6
  <2>2. PICK l : Was(r, j, l)
    BY <1>6
  <2>3. q = r /\ k = l
    <3>1. P[q][k].id = P[r][l].id /\ k \in 1 .. Len(P[q]) /\ l \in 1 .. Len(P[r])
      BY <2>1, <2>2
    <3>2. \A x, y \in Sandboxes : \A i1 \in 1 .. Len(P[x]), j1 \in 1 .. Len(P[y]) :
              P[x][i1].id = P[y][j1].id => x = y /\ i1 = j1
      BY DEF Numbered
    <3>. QED BY <3>1, <3>2, SMT
  <2>4. CASE q = s
    <3>1. Q[q] = c /\ Q[r] = c /\ i + 1 = j + 1
      BY <1>4, <2>1, <2>2, <2>3, <2>4
    <3>. QED BY <1>3, <2>3, <3>1
  <2>5. CASE q # s
    BY <2>1, <2>2, <2>3, <2>5
  <2>. QED BY <2>4, <2>5
<1>8. \A r \in Sandboxes : \A i \in 1 .. Len(Q[r]) : Unsent(Q[r][i], n, t) /\ Q[r][i].id # d.id
  <2>. SUFFICES ASSUME NEW r \in Sandboxes, NEW i \in 1 .. Len(Q[r])
                PROVE  Unsent(Q[r][i], n, t) /\ Q[r][i].id # d.id
    BY SMT
  <2>1. PICK k : Was(r, i, k)
    BY <1>6
  <2>2. Unsent(P[r][k], n, t)
    BY <2>1 DEF Numbered
  <2>3. ASSUME P[r][k].id = d.id PROVE FALSE
    <3>1. r = s /\ k = 1
      BY <1>2, <2>1, <2>3 DEF Numbered
    <3>2. Q[r] = c /\ i + 1 = 1
      BY <1>4, <2>1, <3>1
    <3>. QED BY <1>3, <3>2
  <2>. QED BY <2>1, <2>2, <2>3
<1>9. \A r \in Sandboxes : IsSeq(Q[r])
  BY <1>2, <1>4 DEF Numbered
<1>10. Numbered(n, Q, t)
  BY <1>1, <1>4, <1>7, <1>8, <1>9 DEF Numbered
<1>11. ASSUME NEW e, e.id = d.id PROVE Numbered(n, Q, Append(t, e))
  <2>. DEFINE u == Append(t, e)
  <2>1. /\ IsSeq(u) /\ u[Len(t) + 1] = e /\ \A i \in 1 .. Len(t) : u[i] = t[i]
        /\ \A i \in 1 .. Len(u) : i \in 1 .. Len(t) \/ i = Len(t) + 1
    BY <1>1, AppendedIs
  <2>. HIDE DEF u
  <2>2. \A k \in 1 .. Len(u) : u[k].id \in Nat /\ n < u[k].id
    BY <1>5, <1>11, <2>1 DEF Numbered, Unsent
  <2>3. \A x : Unsent(x, n, t) /\ x.id # d.id => Unsent(x, n, u)
    BY <1>11, <2>1 DEF Unsent
  <2>4. \A r \in Sandboxes : \A i \in 1 .. Len(Q[r]) : Unsent(Q[r][i], n, u)
    BY <1>8, <2>3
  <2>5. Numbered(n, Q, u)
    BY <1>1, <1>4, <1>7, <1>9, <2>1, <2>2, <2>4 DEF Numbered
  <2>. QED BY <2>5 DEF u
<1>. QED BY <1>5, <1>10, <1>11 DEF Q, c, d

-----------------------------------------------------------------------------
(* Decisions.                                                              *)

\* The configuration stays, and with it the sources of the host.
LEMMA HostSourcesStay ==
  ASSUME conf' = conf PROVE HostSources' = HostSources /\ HostFiles' = HostFiles
  BY DEF HostSources, HostFiles, Cfg

\* What the rules ask for stays too.
LEMMA SeverestStays ==
  ASSUME conf' = conf, NEW a, NEW e PROVE Severest(a, e)' <=> Severest(a, e)
  BY DEF Severest, Asked, Cfg

\* One decision: the severest action the rules ask for, or none asked.
JudgedOne(d) == IF d.busy THEN d.action = "allow" ELSE Severest(d.action, d.event)

\* The broadcast has, in order, what was not denied.
Broadcast(f, l) ==
  SameOrder({i \in 1 .. Len(f) : f[i].action # "deny"},
            [i \in 1 .. Len(f) |-> SensorEvent(f[i].event)], 1 .. Len(l), l)

\* Both sequences get the same new element.
LEMMA OrderAppend ==
  ASSUME NEW n \in Nat, NEW m \in Nat, NEW I \in SUBSET (1 .. n), NEW s, NEW t, NEW u, NEW v,
         SameOrder(I, s, 1 .. m, t), NEW x, u[n + 1] = x, v[m + 1] = x,
         \A i \in I : u[i] = s[i] /\ s[i] # x, \A j \in 1 .. m : v[j] = t[j]
  PROVE  SameOrder(I \cup {n + 1}, u, 1 .. (m + 1), v)
<1>. USE Zenon
<1>1. /\ \A j \in 1 .. m : \E i \in I : s[i] = t[j]
      /\ \A i \in I : \E j \in 1 .. m : s[i] = t[j]
      /\ \A h, i \in I, j, k \in 1 .. m : s[h] = t[j] /\ s[i] = t[k] => (h < i <=> j < k)
  BY DEF SameOrder
<1>2. /\ \A j \in 1 .. m : j \in 1 .. (m + 1) /\ j < m + 1 /\ ~(m + 1 < j)
      /\ \A j \in 1 .. (m + 1) : j \in 1 .. m \/ j = m + 1
      /\ m + 1 \in 1 .. (m + 1) /\ ~(m + 1 < m + 1) /\ ~(n + 1 < n + 1)
      /\ \A i \in I : i < n + 1 /\ ~(n + 1 < i)
  BY SMT
<1>3. \A j \in 1 .. m : v[j] # x
  BY <1>1
<1>4. \A i \in I \cup {n + 1} : \E j \in 1 .. (m + 1) : u[i] = v[j]
  BY <1>1, <1>2
<1>5. \A j \in 1 .. (m + 1) : \E i \in I \cup {n + 1} : u[i] = v[j]
  BY <1>1, <1>2
<1>6. ASSUME NEW h \in I \cup {n + 1}, NEW i \in I \cup {n + 1},
             NEW j \in 1 .. (m + 1), NEW k \in 1 .. (m + 1), u[h] = v[j], u[i] = v[k]
      PROVE  h < i <=> j < k
  <2>1. (h = n + 1 <=> j = m + 1) /\ (i = n + 1 <=> k = m + 1)
    BY <1>2, <1>3, <1>6
  <2>2. CASE h # n + 1 /\ i # n + 1
    <3>1. h \in I /\ i \in I /\ j \in 1 .. m /\ k \in 1 .. m
      BY <1>2, <2>1, <2>2
    <3>2. s[h] = t[j] /\ s[i] = t[k]
      BY <1>6, <3>1
    <3>. QED BY <1>1, <3>1, <3>2, SMT
  <2>3. CASE h = n + 1 \/ i = n + 1
    BY <1>2, <2>1, <2>3
  <2>. QED BY <2>2, <2>3
<1>. QED BY <1>4, <1>5, <1>6 DEF SameOrder

\* One more decision.
LEMMA BroadcastGrows ==
  ASSUME NEW f, NEW l, IsSeq(f), IsSeq(l), Broadcast(f, l), NEW d,
         \A i \in 1 .. Len(f) : f[i].event.id # d.event.id
  PROVE  Broadcast(Append(f, d),
                   IF d.action = "deny" THEN l ELSE Append(l, SensorEvent(d.event)))
<1>. USE Zenon
<1>. DEFINE n == Len(f)
            m == Len(l)
            g == Append(f, d)
            I == {i \in 1 .. n : f[i].action # "deny"}
            J == {i \in 1 .. Len(g) : g[i].action # "deny"}
            s == [i \in 1 .. n |-> SensorEvent(f[i].event)]
            u == [i \in 1 .. Len(g) |-> SensorEvent(g[i].event)]
            x == SensorEvent(d.event)
            v == Append(l, x)
<1>1. /\ n \in Nat /\ g[n + 1] = d /\ n + 1 \in 1 .. Len(g)
      /\ \A i \in 1 .. n : i \in 1 .. Len(g) /\ g[i] = f[i]
      /\ \A i \in 1 .. Len(g) : i \in 1 .. n \/ i = n + 1
  BY AppendedIs
<1>2. m \in Nat /\ Len(v) = m + 1 /\ v[m + 1] = x /\ \A j \in 1 .. m : v[j] = l[j]
  <2>. HIDE DEF x
  <2>. QED BY Appended, AppendsLast, ZenonT(60)
<1>. HIDE DEF n, m, g, v
<1>3. /\ \A i \in I : u[i] = s[i]
      /\ u[n + 1] = x
  BY <1>1
<1>4. \A i \in I : s[i] # x
  <2>. SUFFICES ASSUME NEW i \in I, s[i] = x PROVE FALSE
    BY SMT
  <2>1. SensorEvent(f[i].event).id = SensorEvent(d.event).id
    OBVIOUS
  <2>2. \A e : SensorEvent(e).id = e.id
    BY DEF SensorEvent
  <2>. QED BY <2>1, <2>2 DEF n
<1>5. SameOrder(I, s, 1 .. m, l)
  BY DEF Broadcast, n, m
<1>6. CASE d.action = "deny"
  <2>1. J = I
    BY <1>1, <1>6
  <2>2. SameOrder(J, u, 1 .. m, l)
    <3>. HIDE DEF u, s, J, I
    <3>1. SameOrder(I, u, 1 .. m, l)
      <4>1. \A i \in I : \E j \in 1 .. m : u[i] = l[j]
        BY <1>3, <1>5 DEF SameOrder
      <4>2. ASSUME NEW j \in 1 .. m PROVE \E i \in I : u[i] = l[j]
        <5>1. PICK i \in I : s[i] = l[j]
          BY <1>5 DEF SameOrder
        <5>2. u[i] = l[j]
          BY <1>3, <5>1
        <5>. QED BY <5>2
      <4>3. ASSUME NEW h \in I, NEW i \in I, NEW j \in 1 .. m, NEW k \in 1 .. m,
                   u[h] = l[j], u[i] = l[k]
            PROVE  h < i <=> j < k
        <5>1. s[h] = l[j] /\ s[i] = l[k]
          BY <1>3, <4>3
        <5>. QED BY <1>5, <5>1 DEF SameOrder
      <4>. QED BY <4>1, <4>2, <4>3 DEF SameOrder
    <3>. QED BY <2>1, <3>1
  <2>. QED BY <1>6, <2>2 DEF Broadcast, g, m
<1>7. CASE d.action # "deny"
  <2>1. J = I \cup {n + 1}
    BY <1>1, <1>7
  <2>2. I \in SUBSET (1 .. n)
    OBVIOUS
  <2>3. SameOrder(I \cup {n + 1}, u, 1 .. (m + 1), v)
    <3>. HIDE DEF I, J, s, u, x
    <3>1. \A i \in I : u[i] = s[i] /\ s[i] # x
      BY <1>3, <1>4
    <3>2. u[n + 1] = x /\ v[m + 1] = x /\ n \in Nat /\ m \in Nat
          /\ \A j \in 1 .. m : v[j] = l[j]
      BY <1>1, <1>2, <1>3
    <3>. QED BY <1>5, <2>2, <3>1, <3>2, OrderAppend, SMT
  <2>4. SameOrder(J, u, 1 .. Len(v), v)
    BY <1>2, <2>1, <2>3
  <2>. QED BY <1>7, <2>4 DEF Broadcast, g, v
<1>. QED BY <1>6, <1>7

EventsOf(f) == [i \in DOMAIN f |-> f[i].event]

\* The events decided on, with one more.
LEMMA DecidedOn ==
  ASSUME NEW f, IsSeq(f)
  PROVE  /\ IsSeq(EventsOf(f))
         /\ \A d : EventsOf(Append(f, d)) = Append(EventsOf(f), d.event)
<1>. DEFINE E(g) == [i \in DOMAIN g |-> g[i].event]
            n == Len(f)
<1>1. n \in Nat /\ DOMAIN f = 1 .. n
  BY LengthIs, Zenon
<1>2. DOMAIN E(f) = 1 .. n /\ Len(E(f)) = n /\ IsSeq(E(f))
  <2>. HIDE DEF n
  <2>. DEFINE S == {f[i].event : i \in 1 .. n}
  <2>1. \A i \in 1 .. n : f[i].event \in S
    OBVIOUS
  <2>. HIDE DEF S
  <2>2. E(f) \in [1 .. n -> S]
    BY <1>1, <2>1, Zenon
  <2>3. E(f) \in Seq(S)
    <3>. HIDE DEF E
    <3>. QED BY <1>1, <2>2
  <2>4. IsSeq(E(f))
    <3>. HIDE DEF E
    <3>. QED BY <2>3, SeqOver, Zenon
  <2>5. Len(E(f)) = n /\ DOMAIN E(f) = 1 .. n
    <3>. HIDE DEF E
    <3>. QED BY <1>1, <2>2
  <2>. QED BY <2>4, <2>5, Zenon
<1>3. ASSUME NEW d PROVE E(Append(f, d)) = Append(E(f), d.event)
  <2>. DEFINE g == Append(f, d)
              a == Append(E(f), d.event)
  <2>1. /\ IsSeq(g) /\ Len(g) = n + 1 /\ g[n + 1] = d /\ \A i \in 1 .. n : g[i] = f[i]
    BY Appended, AppendsLast, Zenon
  <2>2. DOMAIN g = 1 .. (n + 1)
    BY <2>1, LengthIs, Zenon
  <2>3. /\ IsSeq(a) /\ Len(a) = n + 1 /\ a[n + 1] = d.event /\ \A i \in 1 .. n : a[i] = E(f)[i]
    <3>. HIDE DEF E, n
    <3>. QED BY <1>2, Appended, AppendsLast, Zenon
  <2>4. DOMAIN a = 1 .. (n + 1) /\ a = [i \in 1 .. (n + 1) |-> a[i]]
    <3>. HIDE DEF E, n, a
    <3>. QED BY <2>3 DEF IsSeq
  <2>5. \A i \in 1 .. (n + 1) : i \in 1 .. n \/ i = n + 1
    <3>. HIDE DEF n
    <3>. QED BY <1>1
  <2>6. \A i \in 1 .. (n + 1) : a[i] = g[i].event
    <3>. HIDE DEF g, a, n
    <3>. QED BY <1>1, <2>1, <2>3, <2>5, Zenon
  <2>7. E(g) = a
    <3>. HIDE DEF g, a, n
    <3>. QED BY <2>2, <2>4, <2>6
  <2>. QED BY <2>7, Zenon
<1>. QED BY <1>2, <1>3, Zenon DEF EventsOf

-----------------------------------------------------------------------------
(* The inductive invariant of the pipeline.                                *)

\* No datagram without an event.
NoneShort(b) == \A i \in 1 .. Len(b) : b[i].type # 0

\* The configuration and the sources.
Places ==
  /\ conf \in DOMAIN Configs /\ left \in [events : Nat, beats : Nat, calls : Nat]
  /\ DOMAIN buf = Sandboxes \cup Range(HostSources)
  /\ sources \in Seq(DOMAIN buf) /\ at \in Nat \ {0}
  /\ sourceq \in Seq(Sandboxes) /\ bound \in Seq(Sandboxes)
  /\ \A p \in DOMAIN buf \ Sandboxes : NoneShort(buf[p])

\* The line and the decisions at its end.
Moves ==
  /\ IsSeq(fate) /\ IsSeq(channel) /\ IsSeq(pending)
  /\ Whole(Row(Decisions, channel, pending), buf, taken)

Judges ==
  /\ IsSeq(log) /\ \A i \in 1 .. Len(fate) : JudgedOne(fate[i])
  /\ Broadcast(fate, log)

Flow == Places /\ Numbered(left.events, perf, taken) /\ Moves /\ Judges

\* The invariant says where every event is.
LEMMA FlowAccounts ==
  ASSUME Flow PROVE Accounted
<1>. USE Zenon
<1>. DEFINE L == Row(Decisions, channel, pending)
<1>1. /\ IsSeq(fate) /\ IsSeq(channel) /\ IsSeq(pending) /\ IsSeq(log) /\ IsSeq(taken) /\ IsSeq(L)
      /\ \A s \in DOMAIN buf : IsSeq(buf[s])
  BY DEF Flow, Moves, Judges, Whole
<1>2. /\ DOMAIN fate = 1 .. Len(fate) /\ DOMAIN log = 1 .. Len(log)
      /\ DOMAIN taken = 1 .. Len(taken)
  BY <1>1, LengthIs
<1>3. ASSUME NEW src \in DOMAIN buf
      PROVE  LET all == Decisions \o channel \o pending \o buf[src]
             IN  SameOrder({n \in DOMAIN taken : taken[n].src = src}, taken,
                           {i \in DOMAIN all : all[i].src = src /\ all[i].type # 0}, all)
  <2>. DEFINE all == L \o buf[src]
  <2>1. Joins(all, L, buf[src])
    <3>. HIDE DEF L
    <3>. QED BY <1>1, ConcatJoins
  <2>2. IsSeq(all)
    <3>. HIDE DEF L
    <3>. QED BY <2>1 DEF Joins
  <2>3. DOMAIN all = 1 .. Len(all)
    <3>. HIDE DEF all
    <3>. QED BY <2>2, LengthIs
  <2>4. SameOrder({n \in 1 .. Len(taken) : taken[n].src = src}, taken,
                  {i \in 1 .. Len(all) : all[i].src = src /\ all[i].type # 0}, all)
    <3>1. Whole(L, buf, taken)
      BY DEF Flow, Moves
    <3>. HIDE DEF all, L
    <3>2. InOrder(src, taken, all)
      BY <2>1, <3>1, WholeInOrder
    <3>. QED BY <3>2 DEF InOrder
  <2>5. SameOrder({n \in DOMAIN taken : taken[n].src = src}, taken,
                  {i \in DOMAIN all : all[i].src = src /\ all[i].type # 0}, all)
    <3>. HIDE DEF all
    <3>. QED BY <1>2, <2>3, <2>4
  <2>. QED BY <2>5 DEF Row
<1>4. \A i \in DOMAIN fate : IF fate[i].busy THEN fate[i].action = "allow"
                             ELSE Severest(fate[i].action, fate[i].event)
  BY <1>2 DEF Flow, Judges, JudgedOne
<1>5. SameOrder({i \in DOMAIN fate : fate[i].action # "deny"},
                [i \in DOMAIN fate |-> SensorEvent(fate[i].event)], DOMAIN log, log)
  BY <1>2 DEF Flow, Judges, Broadcast
<1>. QED BY <1>3, <1>4, <1>5 DEF Accounted

\* Nothing has happened yet.
LEMMA FlowInit ==
  ASSUME Init PROVE Flow
<1>. USE Zenon
<1>1. /\ fate = << >> /\ channel = << >> /\ pending = << >> /\ log = << >> /\ taken = << >>
      /\ sources = << >> /\ sourceq = << >> /\ bound = << >> /\ at = 1
      /\ conf \in DOMAIN Configs /\ left = Cfg.left
      /\ buf = [s \in Sandboxes \cup Range(HostSources) |-> << >>]
      /\ perf = [s \in Sandboxes |-> << >>]
  BY DEF Init
<1>2. /\ IsSeq(<< >>) /\ Len(<< >>) = 0 /\ 1 .. 0 = {} /\ << >> \o << >> = << >>
      /\ \A S : << >> \in Seq(S)
  <2>1. \A S : << >> \in Seq(S)
    BY SMT
  <2>. QED BY <2>1, SMT DEF IsSeq
<1>3. \A i \in 1 .. Len(<< >>) : FALSE
  BY <1>2
<1>4. Places
  <2>1. left \in [events : Nat, beats : Nat, calls : Nat]
    BY <1>1, ConfAssumption DEF Cfg
  <2>2. DOMAIN buf = Sandboxes \cup Range(HostSources) /\ \A p \in DOMAIN buf : buf[p] = << >>
    BY <1>1
  <2>3. at \in Nat \ {0}
    BY <1>1, SMT
  <2>. QED BY <1>1, <1>2, <1>3, <2>1, <2>2, <2>3 DEF Places, NoneShort
<1>5. Numbered(left.events, perf, taken)
  <2>1. left.events \in Nat
    BY <1>4, SMT DEF Places
  <2>2. \A s \in Sandboxes : perf[s] = << >>
    BY <1>1
  <2>3. perf = [s \in Sandboxes |-> perf[s]]
    BY <1>1
  <2>. QED BY <1>1, <1>2, <1>3, <2>1, <2>2, <2>3 DEF Numbered
<1>6. Moves
  <2>1. Decisions = << >>
    BY <1>1, SMT DEF Decisions
  <2>2. Row(Decisions, channel, pending) = << >>
    BY <1>1, <1>2, <2>1 DEF Row
  <2>3. /\ \A p \in DOMAIN buf : buf[p] = << >>
        /\ buf = [p \in DOMAIN buf |-> buf[p]]
    BY <1>1
  <2>. DEFINE e == << >>
  <2>4. Events(e, buf, e) /\ Rising(e, e) /\ Before(e, e, e) /\ \A p : InSource(p, e, e)
    <3>. HIDE DEF e
    <3>1. \A i \in 1 .. Len(e) : FALSE
      BY <1>3 DEF e
    <3>. QED BY <3>1 DEF Events, Rising, Before, InSource
  <2>5. \A p \in DOMAIN buf : InSource(p, buf[p], e) /\ Rising(buf[p], e) /\ Before(e, buf[p], e)
                              /\ IsSeq(buf[p])
    <3>1. IsSeq(e)
      BY <1>2
    <3>. HIDE DEF e
    <3>. QED BY <2>3, <2>4, <3>1 DEF e
  <2>6. Whole(e, buf, e)
    BY <1>2, <1>3, <2>3, <2>4, <2>5 DEF Whole
  <2>. QED BY <1>1, <1>2, <2>2, <2>6 DEF Moves
<1>7. Judges
  <2>1. Broadcast(fate, log)
    <3>1. {i \in 1 .. Len(fate) : fate[i].action # "deny"} = {} /\ 1 .. Len(log) = {}
      BY <1>1, <1>2
    <3>. QED BY <3>1 DEF Broadcast, SameOrder
  <2>. QED BY <1>1, <1>2, <1>3, <2>1 DEF Judges
<1>. QED BY <1>4, <1>5, <1>6, <1>7 DEF Flow

\* The decisions stay what they are while the pipeline thread decides nothing.
LEMMA JudgesStay ==
  ASSUME Judges, UNCHANGED <<conf, fate, log>> PROVE Judges'
<1>1. conf' = conf /\ fate' = fate /\ log' = log
  OBVIOUS
<1>2. \A d : JudgedOne(d) => JudgedOne(d)'
  BY <1>1, SeverestStays, Zenon DEF JudgedOne
<1>. QED BY <1>1, <1>2, Zenon DEF Judges

\* Nothing moves.
LEMMA MovesStay ==
  ASSUME Moves, UNCHANGED <<fate, channel, pending, buf, taken>> PROVE Moves'
BY Zenon DEF Moves, Decisions

\* What may change about the sources.
LEMMA PlacesStep ==
  ASSUME Places, conf' = conf, left' \in [events : Nat, beats : Nat, calls : Nat],
         DOMAIN buf' = DOMAIN buf, sources' \in Seq(DOMAIN buf), at' \in Nat \ {0},
         sourceq' \in Seq(Sandboxes), bound' \in Seq(Sandboxes),
         \A p \in DOMAIN buf \ Sandboxes : NoneShort(buf'[p])
  PROVE  Places'
<1>1. HostSources' = HostSources
  BY HostSourcesStay, Zenon
<1>. QED BY <1>1, Zenon DEF Places, NoneShort

-----------------------------------------------------------------------------
(* The kernels and the network.                                            *)

\* The sources of the guests are sources.
LEMMA GuestSource ==
  ASSUME LeastNumbers, Places
  PROVE  /\ \A s \in Sandboxes : s \in DOMAIN buf
         /\ left.events \in Nat
         /\ \A p \in DOMAIN buf \ Sandboxes : TypeOf(p) # 0 /\ NoneShort(buf[p])
<1>1. DOMAIN buf = Sandboxes \cup Range(HostSources)
  BY Zenon DEF Places
<1>2. HostSources \in Seq(HostFiles)
  BY HostSourcesAre, Zenon DEF Places
<1>3. \A p \in Range(HostSources) : p \in HostFiles
  BY <1>2 DEF Range
<1>4. left.events \in Nat
  BY DEF Places
<1>. QED BY <1>1, <1>3, <1>4, HostTypes, Zenon DEF Places

\* An event is counted.
LEMMA LeftCounts ==
  ASSUME left \in [events : Nat, beats : Nat, calls : Nat]
  PROVE  /\ left.events > 0 => /\ [left EXCEPT !.events = @ - 1] \in [events : Nat, beats : Nat, calls : Nat]
                               /\ [left EXCEPT !.events = @ - 1].events = left.events - 1
         /\ left.beats > 0 => /\ [left EXCEPT !.beats = @ - 1] \in [events : Nat, beats : Nat, calls : Nat]
                              /\ [left EXCEPT !.beats = @ - 1].events = left.events
         /\ left.calls > 0 => /\ [left EXCEPT !.calls = @ - 1] \in [events : Nat, beats : Nat, calls : Nat]
                              /\ [left EXCEPT !.calls = @ - 1].events = left.events
OBVIOUS

\* One more event.
LEMMA NoneShortGrows ==
  ASSUME NEW b, IsSeq(b), NoneShort(b), NEW e, e.type # 0 PROVE NoneShort(Append(b, e))
<1>. DEFINE P(x) == x.type # 0
            c == Append(b, e)
<1>1. /\ c[Len(b) + 1] = e /\ \A i \in 1 .. Len(b) : c[i] = b[i]
      /\ \A i \in 1 .. Len(c) : i \in 1 .. Len(b) \/ i = Len(b) + 1
  BY AppendedIs, Zenon
<1>2. P(e) /\ \A i \in 1 .. Len(b) : P(b[i])
  BY Zenon DEF NoneShort
<1>. HIDE DEF P, c
<1>3. \A i \in 1 .. Len(c) : P(c[i])
  BY <1>1, <1>2, Zenon
<1>. QED BY <1>3, Zenon DEF NoneShort, P, c

\* A program of the host writes.
LEMMA HostEventFlow ==
  ASSUME LeastNumbers, Flow, HostEvent PROVE Flow'
<1>. USE Zenon
<1>. DEFINE n == left.events
<1>1. /\ n > 0 /\ left' = [left EXCEPT !.events = @ - 1] /\ conf' = conf /\ perf' = perf
      /\ sources' = sources /\ at' = at /\ sourceq' = sourceq /\ bound' = bound
      /\ fate' = fate /\ channel' = channel /\ pending' = pending /\ log' = log
  BY DEF HostEvent, guestVars, pipeVars, outVars
<1>2. /\ left \in [events : Nat, beats : Nat, calls : Nat]
      /\ Places /\ Moves /\ Judges /\ Numbered(n, perf, taken)
  BY DEF Flow, Places
<1>3. left' \in [events : Nat, beats : Nat, calls : Nat] /\ left'.events = n - 1
  BY <1>1, <1>2, LeftCounts
<1>4. Judges'
  BY <1>1, <1>2, JudgesStay
<1>5. PICK p \in Range(sources) \ Sandboxes :
          LET e == NewEvent(TypeOf(p), p)
          IN  IF Len(buf[p]) < BufCap
              THEN buf' = [buf EXCEPT ![p] = Append(@, e)] /\ taken' = Append(taken, e)
              ELSE UNCHANGED <<buf, taken>>
  BY DEF HostEvent
<1>6. p \in DOMAIN buf \ Sandboxes
  <2>1. sources \in Seq(DOMAIN buf)
    BY <1>2 DEF Places
  <2>2. Range(sources) \subseteq DOMAIN buf
    BY <2>1, SMT DEF Range
  <2>. QED BY <2>2
<1>. DEFINE e == NewEvent(TypeOf(p), p)
<1>7. e.id = n /\ e.type # 0 /\ e.src = p /\ IsEvent(e)
  <2>1. TypeOf(p) # 0
    BY <1>2, <1>6, GuestSource
  <2>2. e = [id |-> n, type |-> TypeOf(p), src |-> p]
    BY DEF NewEvent
  <2>. HIDE DEF e
  <2>. QED BY <2>1, <2>2 DEF IsEvent
<1>. HIDE DEF e
<1>8. CASE UNCHANGED <<buf, taken>>
  <2>1. Moves'
    BY <1>1, <1>2, <1>8, MovesStay
  <2>2. Numbered(n - 1, perf, taken)
    BY <1>1, <1>2, NumberedNext
  <2>3. Places'
    <3>. HIDE DEF n
    <3>. QED BY <1>1, <1>2, <1>3, <1>8, PlacesStep DEF Places
  <2>. QED BY <1>1, <1>3, <1>4, <1>8, <2>1, <2>2, <2>3 DEF Flow
<1>9. CASE buf' = [buf EXCEPT ![p] = Append(@, e)] /\ taken' = Append(taken, e)
  <2>1. Whole(Row(Decisions, channel, pending), buf, taken) /\ IsSeq(buf[p])
        /\ buf = [r \in DOMAIN buf |-> buf[r]]
    BY <1>2, <1>6 DEF Moves, Whole
  <2>2. Puts(buf', buf, e.src, Append(buf[e.src], e))
    BY <1>6, <1>7, <1>9, <2>1, ExceptPuts
  <2>3. \A k \in 1 .. Len(taken) : taken[k].id # e.id
    BY <1>1, <1>2, <1>7, NumberedNext
  <2>4. Whole(Row(Decisions, channel, pending), buf', taken')
    BY <1>6, <1>7, <1>9, <2>1, <2>2, <2>3, WholeTakes
  <2>5. Moves'
    BY <1>1, <1>2, <2>4 DEF Moves, Decisions
  <2>6. Numbered(n - 1, perf, taken')
    BY <1>1, <1>2, <1>7, <1>9, NumberedTaken
  <2>7. /\ DOMAIN buf' = DOMAIN buf /\ \A r \in DOMAIN buf : r # p => buf'[r] = buf[r]
        /\ buf'[p] = Append(buf[p], e)
    BY <1>7, <2>2 DEF Puts
  <2>8. NoneShort(Append(buf[p], e))
    <3>1. NoneShort(buf[p])
      BY <1>2, <1>6 DEF Places
    <3>. QED BY <1>7, <2>1, <3>1, NoneShortGrows
  <2>9. \A r \in DOMAIN buf \ Sandboxes : NoneShort(buf'[r])
    BY <1>2, <2>7, <2>8 DEF Places
  <2>10. Places'
    <3>. HIDE DEF n
    <3>. QED BY <1>1, <1>2, <1>3, <2>7, <2>9, PlacesStep DEF Places
  <2>. QED BY <1>1, <1>3, <1>4, <2>5, <2>6, <2>10 DEF Flow
<1>. QED BY <1>5, <1>8, <1>9 DEF e

\* A program inside a guest writes.
LEMMA GuestEventFlow ==
  ASSUME Flow, NEW s \in Sandboxes, GuestEvent(s) PROVE Flow'
<1>. USE Zenon
<1>. DEFINE n == left.events
<1>1. /\ n > 0 /\ left' = [left EXCEPT !.events = @ - 1] /\ conf' = conf /\ buf' = buf
      /\ taken' = taken /\ sources' = sources /\ at' = at /\ sourceq' = sourceq /\ bound' = bound
      /\ fate' = fate /\ channel' = channel /\ pending' = pending /\ log' = log
  BY DEF GuestEvent, pipeVars, outVars
<1>2. /\ left \in [events : Nat, beats : Nat, calls : Nat]
      /\ Places /\ Moves /\ Judges /\ Numbered(n, perf, taken)
  BY DEF Flow, Places
<1>3. left' \in [events : Nat, beats : Nat, calls : Nat] /\ left'.events = n - 1
  BY <1>1, <1>2, LeftCounts
<1>4. Judges' /\ Moves'
  BY <1>1, <1>2, JudgesStay, MovesStay
<1>5. Places'
  <2>. HIDE DEF n
  <2>. QED BY <1>1, <1>2, <1>3, PlacesStep DEF Places
<1>6. PICK f \in AgentProbes :
          perf' = IF Len(perf[s]) < BufCap
                  THEN [perf EXCEPT ![s] = Append(@, NewEvent(TypeOf(f), s))] ELSE perf
  BY DEF GuestEvent
<1>. DEFINE e == NewEvent(TypeOf(f), s)
<1>7. e.id = n /\ e.type # 0 /\ IsEvent(e)
  <2>1. TypeOf(f) # 0
    BY GuestTypes
  <2>2. e = [id |-> n, type |-> TypeOf(f), src |-> s]
    BY DEF NewEvent
  <2>. HIDE DEF e
  <2>. QED BY <2>1, <2>2 DEF IsEvent
<1>. HIDE DEF e, n
<1>8. Numbered(n - 1, perf, taken)
  BY <1>1, <1>2, NumberedNext
<1>9. Numbered(n - 1, [perf EXCEPT ![s] = Append(@, e)], taken)
  BY <1>1, <1>2, <1>7, NumberedWritten
<1>10. perf' = perf \/ perf' = [perf EXCEPT ![s] = Append(@, e)]
  BY <1>6 DEF e
<1>11. Numbered(n - 1, perf', taken)
  BY <1>8, <1>9, <1>10
<1>. QED BY <1>1, <1>3, <1>4, <1>5, <1>11 DEF Flow

\* A datagram is lost or reaches the source bound last.
LEMMA DeliverFlow ==
  ASSUME LeastNumbers, Places, Moves, NEW d, IsEvent(d),
         d.type = 0 \/ \A k \in 1 .. Len(taken) : taken[k].id # d.id,
         Deliver(d), UNCHANGED <<fate, channel, pending>>
  PROVE  /\ Moves' /\ DOMAIN buf' = DOMAIN buf
         /\ \A p \in DOMAIN buf \ Sandboxes : NoneShort(buf'[p])
         /\ taken' = taken \/ \E e : e.id = d.id /\ taken' = Append(taken, e)
         /\ d.type = 0 => taken' = taken
<1>. USE Zenon
<1>1. CASE UNCHANGED <<buf, taken>>
  BY <1>1, MovesStay DEF Places
<1>. DEFINE to == bound[Len(bound)]
            e == [d EXCEPT !.src = to]
<1>2. CASE /\ bound # << >> /\ buf' = [buf EXCEPT ![to] = Append(@, e)]
           /\ taken' = IF d.type = 0 THEN taken ELSE Append(taken, e)
  <2>1. to \in Sandboxes
    <3>1. bound \in Seq(Sandboxes)
      BY DEF Places
    <3>. QED BY <1>2, <3>1, SMT
  <2>. HIDE DEF to
  <2>2. to \in DOMAIN buf
    BY <2>1, GuestSource
  <2>3. e.id = d.id /\ e.type = d.type /\ e.src = to
    BY SMT DEF IsEvent
  <2>. HIDE DEF e
  <2>4. Whole(Row(Decisions, channel, pending), buf, taken) /\ buf = [r \in DOMAIN buf |-> buf[r]]
    BY DEF Moves, Whole
  <2>5. Puts(buf', buf, to, Append(buf[to], e))
    BY <1>2, <2>2, <2>4, ExceptPuts
  <2>6. Puts(buf', buf, e.src, Append(buf[e.src], e)) /\ e.src \in DOMAIN buf
    BY <2>2, <2>3, <2>5
  <2>7. Whole(Row(Decisions, channel, pending), buf', taken')
    <3>1. CASE d.type = 0
      <4>1. e.type = 0 /\ taken' = taken
        BY <1>2, <2>3, <3>1
      <4>2. Whole(Row(Decisions, channel, pending), buf', taken)
        BY <2>4, <2>6, <4>1, WholeTakesShort
      <4>. QED BY <4>1, <4>2
    <3>2. CASE d.type # 0
      <4>1. e.type # 0 /\ taken' = Append(taken, e) /\ \A k \in 1 .. Len(taken) : taken[k].id # e.id
        BY <1>2, <2>3, <3>2
      <4>2. Whole(Row(Decisions, channel, pending), buf', Append(taken, e))
        BY <2>4, <2>6, <4>1, WholeTakes
      <4>. QED BY <4>1, <4>2
    <3>. QED BY <3>1, <3>2
  <2>8. Moves'
    BY <2>7 DEF Moves, Decisions
  <2>9. DOMAIN buf' = DOMAIN buf /\ \A r \in DOMAIN buf : r # to => buf'[r] = buf[r]
    BY <2>5 DEF Puts
  <2>10. \A p \in DOMAIN buf \ Sandboxes : NoneShort(buf'[p])
    BY <2>1, <2>9 DEF Places
  <2>11. /\ taken' = taken \/ \E x : x.id = d.id /\ taken' = Append(taken, x)
         /\ d.type = 0 => taken' = taken
    BY <1>2, <2>3
  <2>. QED BY <2>8, <2>9, <2>10, <2>11
<1>. QED BY <1>1, <1>2 DEF Deliver

\* Greetings and heartbeats reach the host or not.
LEMMA ShortFlow ==
  ASSUME LeastNumbers, Flow, NEW s \in Sandboxes, Deliver(Short(s)) \/ UNCHANGED <<buf, taken>>,
         UNCHANGED <<conf, perf, sources, at, sourceq, bound, fate, channel, pending, log>>,
         left' \in [events : Nat, beats : Nat, calls : Nat], left'.events = left.events
  PROVE  Flow'
<1>. USE Zenon
<1>. DEFINE d == Short(s)
<1>1. IsEvent(d) /\ d.type = 0
  <2>1. d = [id |-> 0, type |-> 0, src |-> s]
    BY DEF Short
  <2>. HIDE DEF d
  <2>. QED BY <2>1 DEF IsEvent
<1>. HIDE DEF d
<1>2. Places /\ Moves /\ Judges /\ Numbered(left.events, perf, taken)
  BY DEF Flow
<1>3. /\ Moves' /\ DOMAIN buf' = DOMAIN buf /\ taken' = taken
      /\ \A p \in DOMAIN buf \ Sandboxes : NoneShort(buf'[p])
  <2>1. CASE Deliver(d)
    BY <1>1, <1>2, <2>1, DeliverFlow
  <2>2. CASE UNCHANGED <<buf, taken>>
    BY <1>2, <2>2, MovesStay DEF Places
  <2>. QED BY <2>1, <2>2 DEF d
<1>4. Judges'
  BY <1>2, JudgesStay
<1>5. Places'
  BY <1>2, <1>3, PlacesStep DEF Places
<1>6. Numbered(left'.events, perf', taken')
  <2>1. perf' = perf
    BY SMT
  <2>. QED BY <1>2, <1>3, <2>1
<1>. QED BY <1>3, <1>4, <1>5, <1>6 DEF Flow

\* A guest's agent starts, loads its probes and reports.
LEMMA AgentFlow ==
  ASSUME LeastNumbers, Flow, NEW s \in Sandboxes, AgentStart(s) \/ AgentLoad(s) \/ AgentBeat(s)
  PROVE  Flow'
<1>. USE Zenon
<1>1. left \in [events : Nat, beats : Nat, calls : Nat]
  BY DEF Flow, Places
<1>2. CASE AgentStart(s) \/ AgentLoad(s)
  <2>1. /\ Deliver(Short(s)) \/ UNCHANGED <<buf, taken>>
        /\ UNCHANGED <<conf, perf, sources, at, sourceq, bound, fate, channel, pending, log>>
        /\ left' = left
    BY <1>2 DEF AgentStart, AgentLoad, envVars, pipeVars, outVars
  <2>. QED BY <1>1, <2>1, ShortFlow
<1>3. CASE AgentBeat(s)
  <2>1. /\ Deliver(Short(s)) /\ left.beats > 0 /\ left' = [left EXCEPT !.beats = @ - 1]
        /\ UNCHANGED <<conf, perf, sources, at, sourceq, bound, fate, channel, pending, log>>
    BY <1>3 DEF AgentBeat, guestVars, pipeVars, outVars
  <2>2. left' \in [events : Nat, beats : Nat, calls : Nat] /\ left'.events = left.events
    BY <1>1, <2>1, LeftCounts
  <2>. QED BY <2>1, <2>2, ShortFlow
<1>. QED BY <1>2, <1>3

\* It sends an event.
LEMMA AgentPollFlow ==
  ASSUME LeastNumbers, Flow, NEW s \in Sandboxes, AgentPoll(s) PROVE Flow'
<1>. USE Zenon
<1>. DEFINE d == Head(perf[s])
            Q == [perf EXCEPT ![s] = Tail(@)]
            n == left.events
<1>1. /\ perf[s] # << >> /\ perf' = Q /\ Deliver(d)
      /\ left' = left /\ conf' = conf /\ sources' = sources /\ at' = at
      /\ sourceq' = sourceq /\ bound' = bound
      /\ fate' = fate /\ channel' = channel /\ pending' = pending /\ log' = log
  BY DEF AgentPoll, envVars, pipeVars, outVars
<1>2. Places /\ Moves /\ Judges /\ Numbered(n, perf, taken)
  BY DEF Flow
<1>3. /\ Unsent(d, n, taken) /\ Numbered(n, Q, taken)
      /\ \A e : e.id = d.id => Numbered(n, Q, Append(taken, e))
  BY <1>1, <1>2, NumberedSent
<1>. HIDE DEF d, Q, n
<1>4. IsEvent(d) /\ \A k \in 1 .. Len(taken) : taken[k].id # d.id
  BY <1>3 DEF Unsent
<1>5. /\ Moves' /\ DOMAIN buf' = DOMAIN buf
      /\ \A p \in DOMAIN buf \ Sandboxes : NoneShort(buf'[p])
      /\ taken' = taken \/ \E e : e.id = d.id /\ taken' = Append(taken, e)
  BY <1>1, <1>2, <1>4, DeliverFlow
<1>6. Numbered(n, Q, taken')
  <2>1. CASE taken' = taken
    BY <1>3, <2>1
  <2>2. CASE \E e : e.id = d.id /\ taken' = Append(taken, e)
    BY <1>3, <2>2
  <2>. QED BY <1>5, <2>1, <2>2
<1>7. Judges'
  BY <1>1, <1>2, JudgesStay
<1>8. Places'
  BY <1>1, <1>2, <1>5, PlacesStep DEF Places
<1>9. Numbered(left'.events, perf', taken')
  BY <1>1, <1>6 DEF n
<1>. QED BY <1>5, <1>7, <1>8, <1>9 DEF Flow

-----------------------------------------------------------------------------
(* The sources and the pipeline thread.                                    *)

\* A step that moves no event.
LEMMA QuietFlow ==
  ASSUME Flow, UNCHANGED <<conf, perf, buf, taken, fate, channel, pending, log>>,
         left' \in [events : Nat, beats : Nat, calls : Nat], left'.events = left.events,
         sources' \in Seq(DOMAIN buf), at' \in Nat \ {0},
         sourceq' \in Seq(Sandboxes), bound' \in Seq(Sandboxes)
  PROVE  Flow'
<1>. USE Zenon
<1>1. Places /\ Moves /\ Judges /\ Numbered(left.events, perf, taken)
  BY DEF Flow
<1>2. Places'
  BY <1>1, PlacesStep DEF Places
<1>3. Moves' /\ Judges'
  BY <1>1, MovesStay, JudgesStay
<1>4. Numbered(left'.events, perf', taken')
  BY <1>1
<1>. QED BY <1>2, <1>3, <1>4 DEF Flow

\* start_sandbox binds a guest's socket and hands it over.
LEMMA StartSandboxFlow ==
  ASSUME Flow, NEW s \in Sandboxes, StartSandbox(s) PROVE Flow'
<1>1. /\ left \in [events : Nat, beats : Nat, calls : Nat]
      /\ sources \in Seq(DOMAIN buf) /\ at \in Nat \ {0}
      /\ sourceq \in Seq(Sandboxes) /\ bound \in Seq(Sandboxes)
  BY Zenon DEF Flow, Places
<1>2. /\ UNCHANGED <<conf, perf, buf, taken, fate, channel, pending, log>>
      /\ left' = left /\ sources' = sources /\ at' = at
      /\ sourceq' = sourceq \/ sourceq' = Append(sourceq, s)
      /\ bound' = bound \/ bound' = Append(bound, s)
  BY Zenon DEF StartSandbox, Spawn, BindSource, SendSource, envVars, pipeVars, outVars
<1>3. Append(sourceq, s) \in Seq(Sandboxes) /\ Append(bound, s) \in Seq(Sandboxes)
  BY <1>1
<1>4. sourceq' \in Seq(Sandboxes) /\ bound' \in Seq(Sandboxes)
  BY <1>1, <1>2, <1>3, Zenon
<1>. QED BY <1>1, <1>2, <1>4, QuietFlow, Zenon

\* The pipeline thread gets its sources and goes round.
LEMMA SourcesFlow ==
  ASSUME LeastNumbers, Flow,
         PipelineStart \/ AddSource \/ Tick \/ PollEnd \/ DispatchEnd \/ Sleep \/ Wake
  PROVE  Flow'
<1>. USE Zenon
<1>1. /\ left \in [events : Nat, beats : Nat, calls : Nat]
      /\ sources \in Seq(DOMAIN buf) /\ at \in Nat \ {0} /\ conf \in DOMAIN Configs
      /\ sourceq \in Seq(Sandboxes) /\ bound \in Seq(Sandboxes)
      /\ DOMAIN buf = Sandboxes \cup Range(HostSources)
  BY DEF Flow, Places
<1>2. CASE PipelineStart
  <2>1. /\ UNCHANGED <<conf, perf, buf, taken, fate, channel, pending, log>>
        /\ left' = left /\ sources' = HostSources /\ at' = at /\ sourceq' = sourceq /\ bound' = bound
    BY <1>2 DEF PipelineStart, envVars, guestVars, outVars
  <2>2. HostSources \in Seq(HostFiles)
    BY <1>1, HostSourcesAre
  <2>3. HostSources \in Seq(DOMAIN buf)
    <3>1. HostSources \in Seq(Range(HostSources))
      BY <2>2, SMT DEF Range
    <3>. QED BY <1>1, <3>1, SMT
  <2>. QED BY <1>1, <2>1, <2>3, QuietFlow
<1>3. CASE AddSource
  <2>1. /\ UNCHANGED <<conf, perf, buf, taken, fate, channel, pending, log>>
        /\ left' = left /\ at' = at /\ bound' = bound /\ sourceq # << >>
        /\ sources' = Append(sources, Head(sourceq)) /\ sourceq' = Tail(sourceq)
    BY <1>3 DEF AddSource, envVars, outVars
  <2>2. Head(sourceq) \in Sandboxes /\ Tail(sourceq) \in Seq(Sandboxes)
    BY <1>1, <2>1, SMT
  <2>3. Head(sourceq) \in DOMAIN buf
    BY <1>1, <2>2
  <2>4. Append(sources, Head(sourceq)) \in Seq(DOMAIN buf)
    BY <1>1, <2>3, SMT
  <2>. QED BY <1>1, <2>1, <2>2, <2>4, QuietFlow
<1>4. CASE Tick
  <2>1. /\ UNCHANGED <<conf, perf, buf, taken, fate, channel, pending, log>>
        /\ left' = left /\ sources' = sources /\ at' = 1 /\ sourceq' = sourceq /\ bound' = bound
    BY <1>4 DEF Tick, envVars, guestVars, outVars
  <2>2. 1 \in Nat \ {0}
    BY SMT
  <2>. QED BY <1>1, <2>1, <2>2, QuietFlow
<1>5. CASE PollEnd \/ DispatchEnd \/ Sleep \/ Wake
  <2>1. /\ UNCHANGED <<conf, perf, buf, taken, fate, channel, pending, log>>
        /\ left' = left /\ sources' = sources /\ at' = at /\ sourceq' = sourceq /\ bound' = bound
    BY <1>5 DEF PollEnd, DispatchEnd, Sleep, Wake, envVars, guestVars, outVars
  <2>. QED BY <1>1, <2>1, QuietFlow
<1>. QED BY <1>2, <1>3, <1>4, <1>5

\* The part h of a source is read: its events join the line.
LEMMA ReadFlow ==
  ASSUME Flow, NEW s \in DOMAIN buf, NEW h, NEW y, Joins(buf[s], h, y), IsSeq(h), IsSeq(y),
         buf' = [buf EXCEPT ![s] = y],
         \/ NoneShort(h) /\ pending' = pending \o h
         \/ (\A i \in 1 .. Len(h) : h[i].type = 0) /\ pending' = pending,
         UNCHANGED <<conf, left, perf, taken, fate, channel, log, sources, sourceq, bound>>,
         at' \in Nat \ {0}
  PROVE  Flow'
<1>. USE Zenon
<1>. DEFINE L == Row(Decisions, channel, pending)
<1>1. Places /\ Moves /\ Judges /\ Numbered(left.events, perf, taken)
  BY DEF Flow
<1>2. Whole(L, buf, taken) /\ buf = [r \in DOMAIN buf |-> buf[r]]
  BY <1>1 DEF Moves, Whole
<1>3. Puts(buf', buf, s, y)
  BY <1>2, ExceptPuts
<1>4. IsSeq(Decisions) /\ IsSeq(channel) /\ IsSeq(pending) /\ IsSeq(fate)
  BY <1>1, DecidedOn DEF Moves, Decisions, EventsOf
<1>5. Whole(Row(Decisions, channel, pending'), buf', taken) /\ IsSeq(pending')
  <2>1. CASE NoneShort(h) /\ pending' = pending \o h
    <3>. DEFINE M == Row(Decisions, channel, pending \o h)
    <3>1. Joins(M, L, h) /\ IsSeq(pending \o h)
      BY <1>4, RowGrows
    <3>. HIDE DEF L, M
    <3>2. Whole(M, buf', taken)
      BY <1>2, <1>3, <2>1, <3>1, WholeReads DEF NoneShort
    <3>. QED BY <2>1, <3>1, <3>2 DEF M
  <2>2. CASE (\A i \in 1 .. Len(h) : h[i].type = 0) /\ pending' = pending
    <3>1. Whole(L, buf', taken)
      <4>. HIDE DEF L
      <4>. QED BY <1>2, <1>3, <2>2, WholeDrops
    <3>. QED BY <1>4, <2>2, <3>1
  <2>. QED BY <2>1, <2>2
<1>6. Moves'
  BY <1>4, <1>5 DEF Moves, Decisions
<1>7. DOMAIN buf' = DOMAIN buf /\ buf'[s] = y /\ \A r \in DOMAIN buf : r # s => buf'[r] = buf[r]
  BY <1>3 DEF Puts
<1>8. NoneShort(buf[s]) => NoneShort(y)
  <2>. DEFINE P(x) == x.type # 0
  <2>1. \A b : NoneShort(b) <=> \A i \in 1 .. Len(b) : P(b[i])
    BY DEF NoneShort
  <2>. HIDE DEF P
  <2>. QED BY <2>1 DEF Joins
<1>9. \A p \in DOMAIN buf \ Sandboxes : NoneShort(buf'[p])
  BY <1>1, <1>7, <1>8 DEF Places
<1>10. Places'
  BY <1>1, <1>7, <1>9, PlacesStep DEF Places
<1>11. Judges'
  BY <1>1, JudgesStay
<1>12. Numbered(left'.events, perf', taken')
  BY <1>1
<1>. QED BY <1>6, <1>10, <1>11, <1>12 DEF Flow

\* The next source is polled.
LEMMA PollFlow ==
  ASSUME Flow, Poll PROVE Flow'
<1>. USE Zenon
<1>. DEFINE s == sources[at]
<1>1. /\ at <= Len(sources)
      /\ IF s \in Sandboxes THEN PollGuest(s) ELSE PollHost(s)
      /\ UNCHANGED <<conf, left, perf, taken, fate, channel, log, sources, sourceq, bound>>
  BY DEF Poll, envVars, guestVars, outVars
<1>2. /\ sources \in Seq(DOMAIN buf) /\ at \in Nat \ {0}
      /\ \A p \in DOMAIN buf \ Sandboxes : NoneShort(buf[p])
  BY DEF Flow, Places
<1>3. s \in DOMAIN buf /\ at + 1 \in Nat \ {0}
  BY <1>1, <1>2, SMT
<1>4. IsSeq(buf[s]) /\ IsSeq(pending)
  BY <1>3 DEF Flow, Moves, Whole
<1>. HIDE DEF s
<1>5. CASE s \in Sandboxes /\ buf[s] = << >>
  <2>1. at' = at + 1 /\ pending' = pending /\ buf' = buf
    BY <1>1, <1>5 DEF PollGuest
  <2>2. /\ left \in [events : Nat, beats : Nat, calls : Nat]
        /\ sourceq \in Seq(Sandboxes) /\ bound \in Seq(Sandboxes)
    BY DEF Flow, Places
  <2>. QED BY <1>1, <1>2, <1>3, <2>1, <2>2, QuietFlow
<1>6. CASE s \in Sandboxes /\ buf[s] # << >>
  <2>. DEFINE x == Head(buf[s])
              h == <<x>>
              y == Tail(buf[s])
  <2>1. /\ at' = at /\ buf' = [buf EXCEPT ![s] = y]
        /\ pending' = IF x.type = 0 THEN pending ELSE Append(pending, x)
    BY <1>1, <1>6 DEF PollGuest
  <2>2. Joins(buf[s], h, y) /\ IsSeq(h) /\ IsSeq(y)
    BY <1>4, <1>6, HeadJoins
  <2>3. Append(pending, x) = pending \o <<x>>
    <3>. HIDE DEF x
    <3>. QED BY <1>4, AppendIs
  <2>4. \A i \in 1 .. Len(h) : h[i] = x
    <3>. HIDE DEF x
    <3>. QED BY SMT
  <2>5. \/ NoneShort(h) /\ pending' = pending \o h
        \/ (\A i \in 1 .. Len(h) : h[i].type = 0) /\ pending' = pending
    <3>. HIDE DEF x
    <3>1. CASE x.type = 0
      BY <2>1, <2>4, <3>1
    <3>2. CASE x.type # 0
      BY <2>1, <2>3, <2>4, <3>2 DEF NoneShort
    <3>. QED BY <3>1, <3>2
  <2>. HIDE DEF h, y, x
  <2>. QED BY <1>1, <1>2, <1>3, <2>1, <2>2, <2>5, ReadFlow
<1>7. CASE s \notin Sandboxes
  <2>. DEFINE n == Readable(s)
              h == SubSeq(buf[s], 1, n)
              y == SubSeq(buf[s], n + 1, Len(buf[s]))
  <2>1. at' = at + 1 /\ buf' = [buf EXCEPT ![s] = y] /\ pending' = pending \o h
    BY <1>1, <1>7 DEF PollHost
  <2>2. n \in Nat /\ n <= Len(buf[s])
    <3>1. Len(buf[s]) \in Nat
      BY <1>4, LengthIs
    <3>. QED BY <3>1, CapAssumption, SMT DEF Readable
  <2>. HIDE DEF n
  <2>3. Joins(buf[s], h, y) /\ IsSeq(h) /\ IsSeq(y)
    BY <1>4, <2>2, CutJoins
  <2>. HIDE DEF h, y
  <2>4. NoneShort(h)
    <3>. DEFINE P(x) == x.type # 0
    <3>1. \A b : NoneShort(b) <=> \A i \in 1 .. Len(b) : P(b[i])
      BY DEF NoneShort
    <3>2. NoneShort(buf[s])
      BY <1>2, <1>3, <1>7
    <3>. HIDE DEF P
    <3>. QED BY <2>3, <3>1, <3>2 DEF Joins
  <2>. QED BY <1>1, <1>3, <2>1, <2>3, <2>4, ReadFlow
<1>. QED BY <1>5, <1>6, <1>7

-----------------------------------------------------------------------------
(* Dispatch and decision.                                                  *)

\* An event goes from the aggregator into the channel.
LEMMA DispatchFlow ==
  ASSUME Flow, Dispatch PROVE Flow'
<1>. USE Zenon
<1>. DEFINE e == Head(pending)
<1>1. /\ pending # << >> /\ pending' = Tail(pending) /\ channel' = Append(channel, e)
      /\ UNCHANGED <<conf, left, perf, buf, taken, fate, log, sources, at, sourceq, bound>>
  BY DEF Dispatch, FilterMatches, Filter, ChannelSend, envVars, guestVars, outVars
<1>2. Places /\ Moves /\ Judges /\ Numbered(left.events, perf, taken)
  BY DEF Flow
<1>3. IsSeq(Decisions) /\ IsSeq(channel) /\ IsSeq(pending) /\ IsSeq(fate)
  BY <1>2, DecidedOn DEF Moves, Decisions, EventsOf
<1>4. /\ Row(Decisions, channel', pending') = Row(Decisions, channel, pending)
      /\ IsSeq(channel') /\ IsSeq(pending')
  BY <1>1, <1>3, RowMoves
<1>5. Decisions' = Decisions
  BY <1>1 DEF Decisions
<1>6. Moves'
  BY <1>1, <1>2, <1>3, <1>4, <1>5 DEF Moves
<1>7. Places' /\ Judges'
  BY <1>1, <1>2, PlacesStep, JudgesStay DEF Places
<1>8. Numbered(left'.events, perf', taken')
  BY <1>1, <1>2
<1>. QED BY <1>6, <1>7, <1>8 DEF Flow

\* The event at the front of the channel is none of those decided on.
LEMMA FrontIsNew ==
  ASSUME NEW d, NEW c, NEW p, NEW B, NEW t, IsSeq(d), IsSeq(c), IsSeq(p), c # << >>,
         Whole(Row(d, c, p), B, t), NEW i \in 1 .. Len(d)
  PROVE  d[i].id # Head(c).id
<1>. USE Zenon
<1>. DEFINE r == d \o c
            L == r \o p
<1>1. Joins(r, d, c) /\ Len(d) \in Nat /\ Len(c) \in Nat
  BY ConcatJoins
<1>2. IsSeq(r) /\ Len(r) \in Nat
  <2>. HIDE DEF r
  <2>. QED BY <1>1, LengthIs DEF Joins
<1>3. Joins(L, r, p) /\ Len(p) \in Nat
  <2>. HIDE DEF r
  <2>. QED BY <1>2, ConcatJoins
<1>4. Whole(L, B, t)
  BY DEF Row
<1>5. 1 \in 1 .. Len(c) /\ Head(c) = c[1]
  BY TailIs
<1>. HIDE DEF r, L
<1>6. Rising(L, t) /\ \A k \in 1 .. Len(L) : Among(L[k], t)
  BY <1>4 DEF Whole
<1>7. Before(d, c, t)
  BY <1>1, <1>2, <1>3, <1>6, RisingJoined
<1>8. Earlier(d[i], c[1], t)
  BY <1>5, <1>7 DEF Before
<1>9. \A x : Among(x, L) => Among(x, t)
  BY <1>6 DEF Among
<1>10. Among(d[i], t) /\ Among(c[1], t)
  <2>1. Among(d[i], d) /\ Among(c[1], c)
    BY <1>5 DEF Among
  <2>2. Among(d[i], r) /\ Among(c[1], r)
    BY <1>1, <2>1, AmongJoined
  <2>. QED BY <1>3, <1>9, <2>2, AmongJoined
<1>11. PICK m \in 1 .. Len(t) : t[m] = d[i]
  BY <1>10 DEF Among
<1>12. PICK n \in 1 .. Len(t) : t[n] = c[1]
  BY <1>10 DEF Among
<1>13. ASSUME d[i].id = c[1].id PROVE FALSE
  <2>1. t[m].id = t[n].id
    BY <1>11, <1>12, <1>13
  <2>2. \A k, l \in 1 .. Len(t) : t[k].id = t[l].id => k = l
    BY <1>4 DEF Whole, Events
  <2>3. m = n
    BY <2>1, <2>2, SMT
  <2>4. d[i].src = c[1].src
    BY <1>11, <1>12, <2>3
  <2>5. m < n
    BY <1>8, <1>11, <1>12, <2>4 DEF Earlier
  <2>. QED BY <2>3, <2>5, SMT
<1>. QED BY <1>5, <1>13

\* The rules of a configuration.
LEMMA RulesAre ==
  ASSUME conf \in DOMAIN Configs PROVE AreRules(RulesOf(Cfg.policy))
<1>. USE Zenon
<1>. DEFINE P(r) == r.action \in Actions
            own == Cfg.policy.rules
            all(b) == b \o own
<1>1. \A s : AreRules(s) <=> IsSeq(s) /\ \A i \in 1 .. Len(s) : P(s[i])
  BY DEF AreRules
<1>2. AreRules(own)
  <2>1. own \in Seq(Range(own)) /\ \A r \in Range(own) : P(r)
    BY ConfAssumption DEF Cfg
  <2>. HIDE DEF own, P
  <2>2. IsSeq(own) /\ \A i \in 1 .. Len(own) : own[i] \in Range(own)
    BY <2>1, SMT DEF IsSeq
  <2>. QED BY <1>1, <2>1, <2>2
<1>3. \A x : AreRules(Builtin(x))
  <2>1. "alert" \in Actions /\ "deny" \in Actions /\ "kill" \in Actions
    BY DEF Actions
  <2>2. \A t, a, b : a \in Actions => P(Rule(t, a, b))
    BY DEF Rule
  <2>. DEFINE r1 == Rule("process_exec", "alert", TRUE)
              r2 == Rule("net_connect", "alert", TRUE)
              r3 == Rule("file_unlink", "alert", TRUE)
              r4 == Rule("dns_query", "deny", FALSE)
              r5 == Rule("http_request", "kill", FALSE)
              S == {r1, r2, r3, r4, r5}
  <2>3. \A r \in S : P(r)
    BY <2>1, <2>2
  <2>4. DefaultRules = <<r1, r2, r3>> /\ StrictRules = DefaultRules \o <<r4, r5>>
    BY DEF DefaultRules, StrictRules
  <2>5. r1 \in S /\ r2 \in S /\ r3 \in S /\ r4 \in S /\ r5 \in S
    OBVIOUS
  <2>. HIDE DEF r1, r2, r3, r4, r5, S, P
  <2>6. DefaultRules \in Seq(S) /\ << >> \in Seq(S) /\ <<r4, r5>> \in Seq(S)
    BY <2>4, <2>5, SMT
  <2>7. StrictRules \in Seq(S)
    BY <2>4, <2>6, SMT
  <2>8. \A s \in Seq(S) : IsSeq(s) /\ \A i \in 1 .. Len(s) : s[i] \in S
    BY SMT DEF IsSeq
  <2>9. \A s \in Seq(S) : AreRules(s)
    BY <1>1, <2>3, <2>8
  <2>. QED BY <2>6, <2>7, <2>9 DEF Builtin
<1>. HIDE DEF P, own
<1>4. ASSUME NEW b, AreRules(b) PROVE AreRules(all(b))
  <2>1. IsSeq(b) /\ IsSeq(own)
    BY <1>1, <1>2, <1>4
  <2>2. Joins(all(b), b, own)
    BY <2>1, ConcatJoins
  <2>. HIDE DEF all
  <2>. QED BY <1>1, <1>2, <1>4, <2>2 DEF Joins
<1>. QED BY <1>3, <1>4 DEF RulesOf, own

\* The decision is the one the rules ask for.
LEMMA ActionJudged ==
  ASSUME LeastNumbers, conf \in DOMAIN Configs, NEW e
  PROVE  JudgedOne([event |-> e, action |-> Action(e), busy |-> ~Enforced])
<1>. USE Zenon
<1>. DEFINE rules == RulesOf(Cfg.policy)
            type == EventTypeToStr(e.type)
            a == Evaluate(rules, type)
<1>1. CASE ~Enforced
  BY <1>1 DEF JudgedOne, Action
<1>2. CASE Enforced
  <2>1. AreRules(rules)
    BY RulesAre
  <2>2. IsSeverest(a, AskedBy(rules, Len(rules), type))
    <3>. HIDE DEF rules, type
    <3>. QED BY <2>1, EvaluateIsSeverest
  <2>3. Asked(e) = AskedBy(rules, Len(rules), type)
    <3>1. Asked(e) = {"allow"} \cup {r.action : r \in {q \in Range(rules) : Matches(q, type)}}
      BY DEF Asked
    <3>. HIDE DEF rules, type
    <3>2. DOMAIN rules = 1 .. Len(rules)
      BY <2>1, LengthIs DEF AreRules
    <3>3. Range(rules) = {rules[i] : i \in 1 .. Len(rules)}
      BY <3>2 DEF Range
    <3>4. \A x : (\E r \in Range(rules) : Matches(r, type) /\ x = r.action)
                 <=> \E i \in 1 .. Len(rules) : Matches(rules[i], type) /\ x = rules[i].action
      BY <3>3, SMT
    <3>. QED BY <3>1, <3>4 DEF AskedBy
  <2>4. Severest(a, e)
    <3>. HIDE DEF rules, type, a
    <3>. QED BY <2>2, <2>3 DEF IsSeverest, Severest
  <2>5. Action(e) = a
    BY <1>2 DEF Action
  <2>. HIDE DEF a, rules, type
  <2>. QED BY <1>2, <2>4, <2>5 DEF JudgedOne
<1>. QED BY <1>1, <1>2

\* The event at the front of the channel is decided on.
LEMMA DrainFlow ==
  ASSUME LeastNumbers, Flow, Drain PROVE Flow'
<1>. USE Zenon
<1>. DEFINE e == Head(channel)
            d == [event |-> e, action |-> Action(e), busy |-> ~Enforced]
<1>1. /\ channel # << >> /\ channel' = Tail(channel) /\ fate' = Append(fate, d)
      /\ log' = IF Action(e) = "deny" THEN log ELSE Append(log, SensorEvent(e))
      /\ UNCHANGED <<conf, left, perf, buf, taken, pending, sources, at, sourceq, bound>>
  BY DEF Drain, envVars, guestVars
<1>2. Places /\ Moves /\ Judges /\ Numbered(left.events, perf, taken)
  BY DEF Flow
<1>3. JudgedOne(d)
  <2>. HIDE DEF e
  <2>. QED BY <1>2, ActionJudged DEF Places
<1>4. d.event = e /\ d.action = Action(e)
  OBVIOUS
<1>. HIDE DEF d
<1>5. /\ IsSeq(fate) /\ IsSeq(Decisions) /\ Decisions' = Append(Decisions, e)
      /\ IsSeq(channel) /\ IsSeq(pending) /\ Len(Decisions) = Len(fate)
  <2>1. IsSeq(fate) /\ IsSeq(channel) /\ IsSeq(pending)
    BY <1>2 DEF Moves
  <2>2. IsSeq(Decisions)
    BY <2>1, DecidedOn DEF Decisions, EventsOf
  <2>3. Decisions' = Append(Decisions, d.event)
    <3>1. EventsOf(Append(fate, d)) = Append(EventsOf(fate), d.event)
      BY <2>1, DecidedOn
    <3>2. Decisions = EventsOf(fate) /\ Decisions' = EventsOf(fate')
      BY DEF Decisions, EventsOf
    <3>. QED BY <1>1, <3>1, <3>2
  <2>4. Len(Decisions) = Len(fate)
    <3>1. DOMAIN Decisions = DOMAIN fate
      BY DEF Decisions
    <3>2. DOMAIN fate = 1 .. Len(fate) /\ Len(fate) \in Nat
      BY <2>1, LengthIs
    <3>3. DOMAIN Decisions = 1 .. Len(Decisions) /\ Len(Decisions) \in Nat
      BY <2>2, LengthIs
    <3>. QED BY <3>1, <3>2, <3>3, SMT
  <2>. QED BY <1>4, <2>1, <2>2, <2>3, <2>4
<1>6. /\ Row(Decisions', channel', pending') = Row(Decisions, channel, pending)
      /\ IsSeq(channel') /\ IsSeq(fate')
  <2>1. Row(Append(Decisions, e), Tail(channel), pending) = Row(Decisions, channel, pending)
        /\ IsSeq(Tail(channel))
    BY <1>1, <1>5, RowMoves
  <2>2. IsSeq(Append(fate, d))
    BY <1>5, Appended
  <2>. QED BY <1>1, <1>5, <2>1, <2>2
<1>7. Moves'
  BY <1>1, <1>2, <1>5, <1>6 DEF Moves
<1>8. \A i \in 1 .. Len(fate) : fate[i].event.id # d.event.id
  <2>1. Whole(Row(Decisions, channel, pending), buf, taken)
    BY <1>2 DEF Moves
  <2>2. \A i \in 1 .. Len(Decisions) : Decisions[i].id # e.id
    BY <1>1, <1>5, <2>1, FrontIsNew
  <2>3. \A i \in 1 .. Len(fate) : Decisions[i] = fate[i].event
    <3>1. DOMAIN fate = 1 .. Len(fate)
      BY <1>5, LengthIs
    <3>. QED BY <3>1 DEF Decisions
  <2>. QED BY <1>4, <1>5, <2>2, <2>3
<1>9. Judges'
  <2>1. /\ IsSeq(log) /\ Broadcast(fate, log) /\ \A i \in 1 .. Len(fate) : JudgedOne(fate[i])
    BY <1>2 DEF Judges
  <2>2. log' = IF d.action = "deny" THEN log ELSE Append(log, SensorEvent(d.event))
    BY <1>1, <1>4
  <2>3. Broadcast(fate', log')
    BY <1>1, <1>5, <1>8, <2>1, <2>2, BroadcastGrows
  <2>4. IsSeq(log')
    <3>1. IsSeq(Append(log, SensorEvent(d.event)))
      BY <2>1, Appended
    <3>. QED BY <2>1, <2>2, <3>1
  <2>5. \A x : JudgedOne(x) => JudgedOne(x)'
    BY <1>1, SeverestStays DEF JudgedOne
  <2>6. (\A i \in 1 .. Len(fate) : JudgedOne(fate[i]))'
    <3>. DEFINE f == Append(fate, d)
    <3>1. /\ f[Len(fate) + 1] = d /\ \A i \in 1 .. Len(fate) : f[i] = fate[i]
          /\ \A i \in 1 .. Len(f) : i \in 1 .. Len(fate) \/ i = Len(fate) + 1
      BY <1>5, AppendedIs
    <3>. HIDE DEF f
    <3>2. \A i \in 1 .. Len(f) : JudgedOne(f[i])
      BY <1>3, <2>1, <3>1
    <3>. QED BY <1>1, <2>5, <3>2 DEF f
  <2>. QED BY <2>3, <2>4, <2>6 DEF Judges
<1>10. Places'
  BY <1>1, <1>2, PlacesStep DEF Places
<1>11. Numbered(left'.events, perf', taken')
  BY <1>1, <1>2
<1>. QED BY <1>7, <1>9, <1>10, <1>11 DEF Flow

-----------------------------------------------------------------------------
(* Clients and callers move no events.                                     *)

\* A client of StreamEvents or a call that holds a mutex.
LEMMA ServiceFlow ==
  ASSUME Flow,
         (\E c \in Clients : Stream(c)) \/ \E c \in Callers : PolicyService(c) \/ SensorService(c)
  PROVE  Flow'
<1>. USE Zenon
<1>1. /\ left \in [events : Nat, beats : Nat, calls : Nat]
      /\ sources \in Seq(DOMAIN buf) /\ at \in Nat \ {0}
      /\ sourceq \in Seq(Sandboxes) /\ bound \in Seq(Sandboxes)
  BY DEF Flow, Places
<1>. DEFINE Quiet == /\ UNCHANGED <<conf, perf, buf, taken, fate, channel, pending, log>>
                     /\ UNCHANGED <<sources, at, sourceq, bound>>
<1>2. ASSUME NEW c, Stream(c) PROVE Quiet /\ left' = left
  BY <1>2 DEF Stream, StreamEvents, Forward, Send, ClientReads, ClientLeaves,
     envVars, guestVars, pipeVars
<1>3. ASSUME NEW c, PolicyCall(c) \/ SensorCall(c)
      PROVE  Quiet /\ left.calls > 0 /\ left' = [left EXCEPT !.calls = @ - 1]
  BY <1>3 DEF PolicyCall, SensorCall, guestVars, pipeVars, outVars
<1>4. ASSUME NEW c, NEW o, NEW p, NEW a, PolicyReturns(c, o, p, a) PROVE Quiet /\ left' = left
  BY <1>4 DEF PolicyReturns, envVars, guestVars, pipeVars, outVars
<1>5. ASSUME NEW c, NEW o, NEW p, NEW a, SensorReturns(c, o, p, a) PROVE Quiet /\ left' = left
  BY <1>5 DEF SensorReturns, envVars, guestVars, pipeVars, outVars
<1>6. ASSUME NEW c, PolicyService(c) \/ SensorService(c)
      PROVE  PolicyCall(c) \/ SensorCall(c) \/ (Quiet /\ left' = left)
  <2>. HIDE DEF Quiet
  <2>1. CASE EvaluateReturns(c)
    BY <1>4, <2>1 DEF EvaluateReturns
  <2>2. CASE LoadBundleReturns(c)
    BY <1>4, <2>2 DEF LoadBundleReturns
  <2>3. CASE RemoveBundleReturns(c)
    BY <1>4, <2>3 DEF RemoveBundleReturns
  <2>4. CASE ListBundlesReturns(c)
    BY <1>4, <2>4 DEF ListBundlesReturns
  <2>5. CASE PolicyStatusReturns(c)
    BY <1>4, <2>5 DEF PolicyStatusReturns
  <2>6. CASE AdmissionReturns(c)
    BY <1>4, <2>6 DEF AdmissionReturns
  <2>7. CASE LoadProgramReturns(c)
    BY <1>5, <2>7 DEF LoadProgramReturns
  <2>8. CASE UnloadProgramReturns(c)
    BY <1>5, <2>8 DEF UnloadProgramReturns
  <2>9. CASE SensorStatusReturns(c)
    BY <1>5, <2>9 DEF SensorStatusReturns
  <2>. QED BY <1>6, <2>1, <2>2, <2>3, <2>4, <2>5, <2>6, <2>7, <2>8, <2>9
           DEF PolicyService, SensorService
<1>7. /\ Quiet /\ left' \in [events : Nat, beats : Nat, calls : Nat]
      /\ left'.events = left.events
  <2>. HIDE DEF Quiet
  <2>1. CASE Quiet /\ left' = left
    BY <1>1, <2>1
  <2>2. ASSUME NEW c, PolicyCall(c) \/ SensorCall(c)
        PROVE  /\ Quiet /\ left' \in [events : Nat, beats : Nat, calls : Nat]
               /\ left'.events = left.events
    <3>1. Quiet /\ left.calls > 0 /\ left' = [left EXCEPT !.calls = @ - 1]
      BY <1>3, <2>2
    <3>. QED BY <1>1, <3>1, LeftCounts
  <2>. QED BY <1>2, <1>6, <2>1, <2>2
<1>. QED BY <1>1, <1>7, QuietFlow

\* Every step keeps the invariant of the pipeline.
LEMMA FlowStep == ASSUME LeastNumbers, Flow, [Next]_vars PROVE Flow'
<1>. USE Zenon
<1>1. /\ left \in [events : Nat, beats : Nat, calls : Nat] /\ conf \in DOMAIN Configs
      /\ sources \in Seq(DOMAIN buf) /\ at \in Nat \ {0}
      /\ sourceq \in Seq(Sandboxes) /\ bound \in Seq(Sandboxes)
  BY DEF Flow, Places
<1>2. CASE UNCHANGED vars
  <2>1. /\ UNCHANGED <<conf, perf, buf, taken, fate, channel, pending, log>>
        /\ UNCHANGED <<left, sources, at, sourceq, bound>>
    BY <1>2 DEF vars, envVars, guestVars, pipeVars, outVars
  <2>. QED BY <1>1, <2>1, QuietFlow
<1>3. CASE HostEvent
  BY <1>3, HostEventFlow
<1>4. CASE Pipeline
  BY <1>4, SourcesFlow, PollFlow, DispatchFlow, DrainFlow DEF Pipeline
<1>5. ASSUME NEW s \in Cfg.guests, GuestEvent(s) \/ Agent(s) \/ StartSandbox(s) PROVE Flow'
  <2>1. s \in Sandboxes
    BY <1>1, ConfAssumption DEF Cfg
  <2>. QED BY <1>5, <2>1, GuestEventFlow, AgentFlow, AgentPollFlow, StartSandboxFlow DEF Agent
<1>6. CASE (\E c \in Clients : Stream(c)) \/ \E c \in Callers : PolicyService(c) \/ SensorService(c)
  BY <1>6, ServiceFlow
<1>. QED BY <1>2, <1>3, <1>4, <1>5, <1>6 DEF Next

-----------------------------------------------------------------------------
(* The theorems.                                                           *)

-----------------------------------------------------------------------------
(* Numbers.                                                                *)

LOCAL INSTANCE WellFoundedInduction

\* A set of numbers has a least one.
LEMMA LeastNumber == LeastNumbers
<1>. SUFFICES ASSUME NEW T \in SUBSET Nat, T # {} PROVE \E n \in T : \A k \in T : n <= k
  BY Zenon DEF LeastNumbers
<1>. DEFINE R == {ss \in Nat \X Nat : ss[1] < ss[2]}
<1>1. IsWellFoundedOn(R, Nat)
  BY NatLessThanWellFounded DEF OpToRel
<1>. HIDE DEF R
<1>2. PICK n \in T : \A k \in T : ~(<<k, n>> \in R)
  BY <1>1, WFMin, Zenon
<1>3. ASSUME NEW k \in T, ~(n <= k) PROVE FALSE
  <2>1. <<k, n>> \in R
    BY <1>3 DEF R
  <2>. QED BY <1>2, <2>1, Zenon
<1>. QED BY <1>3

\* A StreamEvents client gets the events of the broadcast in order, none twice,
\* none its filter excludes and none from before its call; one that passes the
\* filter is missing only where the Lagged arm of stream_events skipped it.
THEOREM SensorStreamsExact == Spec => []StreamExact
<1>1. Spec => []Streams
  BY StreamsInit, StreamsStep, PTL DEF Spec
<1>. QED BY <1>1, StreamsExact, PTL

\* Every event a source took in is, per source in its order and once, still in
\* the source, in the aggregator, in the channel or decided on, with the
\* severest action the rules ask for, or `allow' where try_lock failed; the
\* broadcast has all but the denied, in order (poll_sources, process_events and
\* the loops of start_sensor_pipeline).
THEOREM SensorAccounts == Spec => []Accounted
<1>1. Init => Flow
  BY FlowInit, Zenon
<1>2. Flow /\ [Next]_vars => Flow'
  BY FlowStep, LeastNumber, Zenon
<1>3. Spec => []Flow
  BY <1>1, <1>2, PTL DEF Spec
<1>4. Flow => Accounted
  BY FlowAccounts, Zenon
<1>. QED BY <1>3, <1>4, PTL
=============================================================================
