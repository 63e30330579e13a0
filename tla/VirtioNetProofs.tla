-------------------------- MODULE VirtioNetProofs ---------------------------
(***************************************************************************)
(* The theorems about VirtioNet, for every index width and every smaller   *)
(* queue size that divides it, every number of chains and frames, and      *)
(* every order of driver, device, TAP, resets, snapshots and restores.     *)
(*                                                                         *)
(* The invariant says of each ring how many of its posted chains the       *)
(* device has given back (u) and the driver has taken back (Len(re)): the  *)
(* two indices in guest memory and the two of the device are these counts  *)
(* modulo the index width, and the slots between them hold the chains that *)
(* are still out.  A ring never has more chains out than slots, so that    *)
(* the counts can be told apart by their remainders.  The frames that went *)
(* through are tied to the counts: F are the numbers of the frames given   *)
(* back on the receive queue.  A snapshot holds a VM of which the same is  *)
(* true, with all frames behind it that had arrived by then.               *)
(***************************************************************************)
EXTENDS VirtioNet, TLAPS

\* The counts of a ring, as the intervals that the invariant speaks of.
LEMMA Intervals ==
  ASSUME NEW r \in Nat, NEW u \in Nat, r <= u
  PROVE  /\ 1 .. u + 1 = (1 .. u) \cup {u + 1} /\ r + 1 .. u + 1 = (r + 1 .. u) \cup {u + 1}
         /\ (\A i \in 1 .. r : i \in 1 .. u) /\ (\A i \in r + 1 .. u : i \in 1 .. u)
         /\ \A n \in Nat : u <= n => \A i \in r + 1 .. u : i \in 1 .. n
OBVIOUS

-----------------------------------------------------------------------------
(* The invariant.                                                          *)

AvailRings == [idx : Nat, ring : [Slots -> Slots]]
UsedRings == [idx : Nat, ring : [Slots -> [id : Slots, len : Nat]]]
Chains == [head : Slots, what : Int]

\* Guest memory and the state of the driver.
Guests ==
  [step : Nat, avail : [Queues -> AvailRings], used : [Queues -> UsedRings],
   chain : [Queues -> [Slots -> Int]], free : [Queues -> SUBSET Slots],
   lastUsed : [Queues -> Nat], posted : [Queues -> Seq(Chains)],
   reaped : [Queues -> Seq(Slots)], got : Seq([frame : Int, len : Nat]),
   irq : {"none", "latched", "handling"}]

Frames == Seq(Int \X BOOLEAN)

\* A set of no more than n elements.
Room(S, n) ==
  n \in Nat /\ \E f \in [S -> 1 .. n] : \A x, y \in S : f[x] = f[y] => x = y

\* One ring of which the device has given u chains back: the available ring,
\* the used ring, the chains, the free heads, the used index the driver has
\* seen, and the chains it posted and took back.
RingOK(a, d, ch, fr, lu, po, re, u) ==
  /\ u \in Nat /\ Len(re) <= u /\ u <= Len(po)
  /\ a.idx = Len(po) % IdxMod /\ d.idx = u % IdxMod /\ lu = Len(re) % IdxMod
  /\ Room(fr, QSize - (Len(po) - Len(re)))
  /\ \A i \in Len(re) + 1 .. Len(po) : po[i].head \notin fr
  /\ \A i, j \in Len(re) + 1 .. Len(po) : po[i].head = po[j].head => i = j
  /\ \A i \in 1 .. Len(re) : re[i] = po[i].head
  /\ \A i \in u + 1 .. Len(po) :
        a.ring[(i - 1) % QSize] = po[i].head /\ ch[po[i].head] = po[i].what
  /\ \A i \in Len(re) + 1 .. u : d.ring[(i - 1) % QSize].id = po[i].head

Ring(g, n, u) ==
  RingOK(g.avail[n], g.used[n], g.chain[n], g.free[n], g.lastUsed[n],
         g.posted[n], g.reaped[n], u)

\* The first u chains of the transmit queue are sent.
TxOK(out, po, u) ==
  /\ \A i \in 1 .. Len(out) : out[i][1] \in 1 .. u /\ po[out[i][1]].what = out[i][1]
  /\ \A i, j \in 1 .. Len(out) : i < j => out[i][1] < out[j][1]
  /\ \A k \in 1 .. u : po[k].what = k => \E j \in 1 .. Len(out) : out[j][1] = k

TxPosted(po) == \A i \in 1 .. Len(po) : po[i].what \in {i, Empty, Bad}

\* The first frames given back on the receive queue are F, all of them among
\* the first `last' that arrived.
RxOK(got, ch, d, po, re, F, arr, last) ==
  /\ Len(got) = Len(re) /\ Len(re) <= Len(F)
  /\ \A i \in 1 .. Len(F) : F[i] \in 1 .. last
  /\ \A i, j \in 1 .. Len(F) : i < j => F[i] < F[j]
  /\ \A i \in 1 .. Len(re) :
        got[i].frame = F[i] /\ got[i].len = Min(BufLen, HdrLen + arr[F[i]])
  /\ \A i \in Len(re) + 1 .. Len(F) :
        /\ ch[po[i].head] = F[i]
        /\ d.ring[(i - 1) % QSize].len = Min(BufLen, HdrLen + arr[F[i]])

\* The queue n after the bring-up, x chains on.
Ready(n, x) ==
  [size |-> QSize, ready |-> TRUE, desc |-> RingAddr(n, 0), avail |-> RingAddr(n, 1),
   used |-> RingAddr(n, 2), next_avail |-> x % IdxMod, next_used |-> x % IdxMod]

\* A device without queues, or one that works on the rings.
Undriven(qs) == qs \in {<<>>, << <<>> >>}
Driven(qs, r, t) == Undriven(qs) \/ qs = << <<Ready(RX, r), Ready(TX, t)>> >>

\* The rings, the device's place in them, and what went through.
Moved(qs, g, out, arr, last, F, t) ==
  /\ Ring(g, RX, Len(F)) /\ Ring(g, TX, t)
  /\ Driven(qs, Len(F), t)
  /\ TxOK(out, g.posted[TX], t) /\ TxPosted(g.posted[TX])
  /\ RxOK(g.got, g.chain[RX], g.used[RX], g.posted[RX], g.reaped[RX], F, arr, last)
VmOK(qs, g, out, arr, last) ==
  /\ g \in Guests /\ out \in Frames
  /\ \E F \in Seq(Nat), t \in Nat : Moved(qs, g, out, arr, last, F, t)

\* A device that was reset has done nothing since.
DeadOK(dead, qs, g, out) ==
  dead => Undriven(qs) /\ out = <<>> /\ \A n \in Queues : g.used[n] = EmptyUsed

\* A driver with completions to look at knows, or will.
IrqOK(g, i) ==
  g.used[RX].idx # g.lastUsed[RX] => g.irq = "handling" \/ (g.irq = "latched" /\ i)

\* The selected halves of an address after k writes.
Half(k, n, part) == IF k <= 0 THEN <<0, 0>> ELSE IF k = 1 THEN <<0, 3 * n + part>>
                    ELSE RingAddr(n, part)
\* Queue n once its first w registers are written.
After(n, w) ==
  [size |-> IF w > 1 THEN QSize ELSE 256, ready |-> w > 8,
   desc |-> Half(w - 2, n, 0), avail |-> Half(w - 4, n, 1), used |-> Half(w - 6, n, 2),
   next_avail |-> 0, next_used |-> 0]

\* The bring-up of a network device, which has 9 registers for each queue.
BringUp ==
  /\ guest.step \in 0 .. 19
  /\ guest = [FreshDriver EXCEPT !.step = guest.step]
  /\ sent = <<>> /\ dqueues = <<>> /\ ~activated
  /\ tqueues = <<>> \/ tqueues = <<After(0, guest.step - 1), After(1, guest.step - 10)>>
  /\ guest.step \in 2 .. 10 => queueSel = 0
  /\ guest.step \in 11 .. 19 => queueSel = 1

TransportOK ==
  /\ kind # "net" => dqueues = <<>>
  /\ kind = "net" /\ ~DriverUp => BringUp
  /\ kind = "net" /\ DriverUp => tqueues \in {<<>>, <<NewQueue, NewQueue>>}
  /\ wasReset /\ ~DriverUp => tqueues = <<>>
  /\ mode # "guest" => ~Undriven(dqueues)

TapOK ==
  /\ arrived \in Seq(Nat) /\ tapIn \in Seq(Nat)
  /\ Len(tapIn) <= Len(arrived)
  /\ \A i \in 1 .. Len(tapIn) : tapIn[i] = Len(arrived) - Len(tapIn) + i

Flags == /\ kind \in Kinds /\ mode \in {"guest", "tx", "rx"}
         /\ {interrupt, received, wasReset, lostIrq} \subseteq BOOLEAN

Saved == [queues : {snapshot[1].queues}, guest : Guests, sent : Frames, interrupt : BOOLEAN,
          wasReset : BOOLEAN]
SnapshotOK ==
  IF snapshot = <<>> THEN ~lostIrq
  ELSE LET vm == snapshot[1] IN
       /\ snapshot = <<vm>> /\ vm \in Saved
       /\ VmOK(vm.queues, vm.guest, vm.sent, arrived, Len(arrived))
       /\ DeadOK(vm.wasReset, vm.queues, vm.guest, vm.sent)
       /\ IrqOK(vm.guest, vm.interrupt)
       /\ vm.guest.step = SetupSteps + 2

IInv ==
  /\ Flags /\ TransportOK /\ TapOK /\ SnapshotOK
  /\ VmOK(dqueues, guest, sent, arrived, Len(arrived) - Len(tapIn))
  /\ DeadOK(wasReset, dqueues, guest, sent)
  /\ RxAnnounced
-----------------------------------------------------------------------------
(* Indices modulo the number of their values, slots modulo the ring.       *)

\* Division with remainder.
LEMMA Remainder ==
  ASSUME NEW n \in Int, NEW m \in Nat \ {0}
  PROVE  n = m * (n \div m) + (n % m) /\ n % m \in 0 .. m - 1 /\ n \div m \in Int
OBVIOUS

\* The same with the quotient as a witness.
LEMMA Quotient ==
  ASSUME NEW n \in Nat, NEW m \in Nat \ {0}
  PROVE  \E k \in Int : n = m * k + (n % m)
<1>1. n = m * (n \div m) + (n % m) /\ n \div m \in Int
  <2>. n \in Int
    OBVIOUS
  <2>. QED BY Remainder, Zenon
<1>. QED BY <1>1, Zenon

\* A multiple of m that is closer to 0 than m is 0.
LEMMA Multiple ==
  ASSUME NEW m \in Nat \ {0}, NEW k \in Int, NEW r \in Int, r = m * k, -m < r, r < m
  PROVE  k = 0
<1>1. CASE k >= 1
  <2>1. m * k >= m
    BY <1>1
  <2>. QED BY <2>1
<1>2. CASE k <= -1
  <2>1. m * k <= -m
    BY <1>2
  <2>. QED BY <2>1
<1>. QED BY <1>1, <1>2

\* Quotient and remainder are unique.
LEMMA Unique ==
  ASSUME NEW n \in Int, NEW m \in Nat \ {0}, NEW k \in Int, NEW r \in 0 .. m - 1,
         n = m * k + r
  PROVE  n % m = r
<1>1. n = m * (n \div m) + (n % m) /\ n % m \in 0 .. m - 1 /\ n \div m \in Int
  BY Remainder
<1>2. r - (n % m) = m * ((n \div m) - k)
  BY <1>1
<1>. QED BY <1>1, <1>2, Multiple

\* Numbers less than m apart have different remainders: neither an index nor a
\* slot is met twice within a ring.
LEMMA Differ ==
  ASSUME NEW a \in Nat, NEW b \in Nat, NEW m \in Nat \ {0}, a < b, b - a < m
  PROVE  a % m # b % m
<1>. SUFFICES ASSUME a % m = b % m PROVE FALSE
  OBVIOUS
<1>1. PICK k \in Int : a = m * k + (a % m)
  BY Quotient, Zenon
<1>2. PICK l \in Int : b = m * l + (b % m)
  BY Quotient, Zenon
<1>3. a % m \in Int
  BY Remainder
<1>. DEFINE r == a % m
<1>4. a = m * k + r /\ b = m * l + r /\ r \in Int
  BY <1>1, <1>2, <1>3
<1>. HIDE DEF r
<1>5. b - a = m * (l - k)
  BY <1>4
<1>6. l - k \in Int /\ b - a \in Int /\ -m < b - a /\ b - a < m
  OBVIOUS
<1>7. l - k = 0
  BY <1>5, <1>6, Multiple, Zenon
<1>. QED BY <1>5, <1>7

\* wrapping_add on an index counts on.
LEMMA IncMod ==
  ASSUME NEW a \in Nat, NEW m \in Nat \ {0}
  PROVE  ((a % m) + 1) % m = (a + 1) % m
<1>1. a % m \in 0 .. m - 1
  BY Remainder
<1>2. PICK k \in Int : a = m * k + (a % m)
  BY Quotient, Zenon
<1>. DEFINE r == a % m
<1>3. r \in 0 .. m - 1 /\ a = m * k + r
  BY <1>1, <1>2
<1>. SUFFICES (r + 1) % m = (a + 1) % m
  OBVIOUS
<1>. HIDE DEF r
<1>4. CASE r = m - 1
  <2>1. r + 1 = m * 1 + 0 /\ a + 1 = m * (k + 1) + 0 /\ 0 \in 0 .. m - 1
    BY <1>3, <1>4
  <2>2. r + 1 \in Int /\ a + 1 \in Int /\ k + 1 \in Int /\ 1 \in Int
    BY <1>3
  <2>3. (r + 1) % m = 0
    BY <2>1, <2>2, Unique, Zenon
  <2>4. (a + 1) % m = 0
    BY <2>1, <2>2, Unique, Zenon
  <2>. QED BY <2>3, <2>4
<1>5. CASE r # m - 1
  <2>1. r + 1 = m * 0 + (r + 1) /\ a + 1 = m * k + (r + 1) /\ r + 1 \in 0 .. m - 1
    BY <1>3, <1>5
  <2>2. r + 1 \in Int /\ a + 1 \in Int /\ 0 \in Int
    BY <1>3
  <2>3. (r + 1) % m = r + 1
    BY <2>1, <2>2, Unique, Zenon
  <2>4. (a + 1) % m = r + 1
    BY <2>1, <2>2, Unique, Zenon
  <2>. QED BY <2>3, <2>4
<1>. QED BY <1>4, <1>5

\* The slot of a wrapped index is the slot of the count, because the size of
\* the ring divides the number of index values.
LEMMA ModMod ==
  ASSUME NEW a \in Nat, NEW m \in Nat \ {0}, NEW q \in Nat \ {0}, m % q = 0
  PROVE  (a % m) % q = a % q
<1>. DEFINE r == a % m
<1>. DEFINE s == r % q
<1>1. PICK k \in Int : a = m * k + r
  <2>1. \E k \in Int : a = m * k + (a % m)
    BY Quotient, Zenon
  <2>. QED BY <2>1, Zenon
<1>2. PICK c \in Int : m = q * c
  <2>. m \in Nat
    OBVIOUS
  <2>1. PICK c \in Int : m = q * c + (m % q)
    BY Quotient, Zenon
  <2>. QED BY <2>1
<1>3. r \in Nat
  BY Remainder
<1>. HIDE DEF r
<1>4. PICK l \in Int : r = q * l + s
  BY <1>3, Quotient, Zenon
<1>5. s \in 0 .. q - 1
  BY <1>3, Remainder
<1>. HIDE DEF s
<1>6. a = (q * c) * k + (q * l + s)
  BY <1>1, <1>2, <1>4
<1>7. a = q * (c * k + l) + s /\ c * k + l \in Int /\ a \in Int
  <2>1. (q * c) * k = q * (c * k) /\ c * k \in Int
    OBVIOUS
  <2>. DEFINE d == c * k
  <2>2. (q * c) * k = q * d /\ d \in Int
    BY <2>1
  <2>. HIDE DEF d
  <2>3. a = q * d + (q * l + s)
    BY <1>6, <2>2
  <2>4. q * (d + l) = q * d + q * l
    BY <2>2
  <2>5. a = q * (d + l) + s /\ d + l \in Int
    BY <2>2, <2>3, <2>4, <1>5
  <2>. QED BY <2>5 DEF d
<1>8. a % q = s
  BY <1>5, <1>7, Unique, Zenon
<1>. QED BY <1>8 DEF s, r

\* The difference of two wrapped indices less than m apart.
LEMMA DiffMod ==
  ASSUME NEW a \in Nat, NEW b \in Nat, NEW m \in Nat \ {0}, a <= b, b - a < m
  PROVE  ((b % m) - (a % m)) % m = b - a
<1>1. PICK k \in Int : a = m * k + (a % m)
  BY Quotient, Zenon
<1>2. PICK l \in Int : b = m * l + (b % m)
  BY Quotient, Zenon
<1>. DEFINE r == a % m
<1>. DEFINE s == b % m
<1>3. r \in Int /\ s \in Int
  BY Remainder
<1>4. a = m * k + r /\ b = m * l + s
  BY <1>1, <1>2
<1>. SUFFICES (s - r) % m = b - a
  OBVIOUS
<1>. HIDE DEF r, s
<1>5. m * (k - l) = m * k - m * l
  OBVIOUS
<1>6. s - r = m * (k - l) + (b - a) /\ s - r \in Int /\ k - l \in Int /\ b - a \in 0 .. m - 1
  BY <1>3, <1>4, <1>5
<1>. QED BY <1>6, Unique, Zenon

-----------------------------------------------------------------------------
(* The constants.                                                          *)

\* Ring sizes and index values.
LEMMA Sizes ==
  /\ QSize \in Nat \ {0} /\ IdxMod \in Nat \ {0} /\ QSize < IdxMod /\ IdxMod % QSize = 0
BY RingAssumption

\* A count has an index and a slot.
LEMMA SlotOf ==
  ASSUME NEW i \in Nat
  PROVE  i % QSize \in Slots /\ i % IdxMod \in Nat /\ (i % IdxMod) % QSize = i % QSize
<1>1. i % QSize \in 0 .. QSize - 1 /\ i % IdxMod \in 0 .. IdxMod - 1
  BY Sizes, Remainder
<1>2. (i % IdxMod) % QSize = i % QSize
  BY Sizes, ModMod, Zenon
<1>3. i % IdxMod \in Nat
  BY <1>1, Sizes
<1>. QED BY <1>1, <1>2, <1>3, Zenon DEF Slots

\* Counts of one ring's length have different slots.
LEMMA SlotsApart ==
  ASSUME NEW i \in Nat, NEW j \in Nat, i # j, i - j < QSize, j - i < QSize
  PROVE  i % QSize # j % QSize
<1>1. CASE i < j
  BY <1>1, Sizes, Differ, Zenon
<1>2. CASE j < i
  BY <1>2, Sizes, Differ, Zenon
<1>. QED BY <1>1, <1>2

\* Counts at most a ring apart have different indices.
LEMMA IndicesApart ==
  ASSUME NEW i \in Nat, NEW j \in Nat, i < j, j - i <= QSize
  PROVE  i % IdxMod # j % IdxMod
<1>1. j - i < IdxMod
  BY Sizes
<1>. QED BY <1>1, Sizes, Differ, Zenon

\* The next index.
LEMMA NextIndex ==
  ASSUME NEW i \in Nat
  PROVE  Inc(i % IdxMod) = (i + 1) % IdxMod
BY Sizes, IncMod, Zenon DEF Inc

\* The driver starts with all heads free.
LEMMA RoomForAll == Room(Slots, QSize)
<1>. DEFINE f == [x \in Slots |-> x + 1]
<1>1. \A x \in Slots : x \in Nat /\ x + 1 \in 1 .. QSize
  BY Sizes DEF Slots
<1>2. f \in [Slots -> 1 .. QSize] /\ \A x, y \in Slots : f[x] = f[y] => x = y
  BY <1>1
<1>. QED BY <1>2, Sizes, Zenon DEF Room

\* One head fewer.
LEMMA RoomTaken ==
  ASSUME NEW S, NEW n, Room(S, n), NEW h \in S
  PROVE  n - 1 \in Nat /\ Room(S \ {h}, n - 1)
<1>1. PICK f \in [S -> 1 .. n] : \A x, y \in S : f[x] = f[y] => x = y
  BY Zenon DEF Room
<1>2. n \in Nat /\ f[h] \in 1 .. n
  BY <1>1, Zenon DEF Room
<1>3. n - 1 \in Nat
  BY <1>2
<1>. DEFINE g == [x \in S \ {h} |-> IF f[x] = n THEN f[h] ELSE f[x]]
<1>4. \A x \in S \ {h} : f[x] \in 1 .. n /\ f[x] # f[h]
  BY <1>1, Zenon
<1>5. \A k \in 1 .. n : k # n => k \in 1 .. n - 1
  BY <1>2
<1>6. \A x \in S \ {h} : g[x] \in 1 .. n - 1
  BY <1>2, <1>4, <1>5, Zenon
<1>7. \A x, y \in S \ {h} : g[x] = g[y] => x = y
  BY <1>1, <1>4, Zenon
<1>. QED BY <1>3, <1>6, <1>7, Zenon DEF Room

\* One more.
LEMMA RoomGiven ==
  ASSUME NEW S, NEW n, Room(S, n), NEW h, h \notin S
  PROVE  Room(S \cup {h}, n + 1)
<1>1. PICK f \in [S -> 1 .. n] : \A x, y \in S : f[x] = f[y] => x = y
  BY Zenon DEF Room
<1>2. n \in Nat
  BY Zenon DEF Room
<1>3. n + 1 \in Nat /\ n + 1 \in 1 .. n + 1 /\ \A k \in 1 .. n : k \in 1 .. n + 1 /\ k # n + 1
  BY <1>2
<1>. DEFINE m == n + 1
            g == [x \in S \cup {h} |-> IF x = h THEN m ELSE f[x]]
<1>4. m \in Nat /\ m \in 1 .. m /\ \A k \in 1 .. n : k \in 1 .. m /\ k # m
  BY <1>3, Zenon
<1>. HIDE DEF m
<1>5. \A x \in S \cup {h} : g[x] \in 1 .. m
  BY <1>1, <1>4, Zenon
<1>6. \A x, y \in S \cup {h} : g[x] = g[y] => x = y
  BY <1>1, <1>4, Zenon
<1>7. Room(S \cup {h}, m)
  BY <1>4, <1>5, <1>6, Zenon DEF Room
<1>. QED BY <1>7, Zenon DEF m

-----------------------------------------------------------------------------
(* One ring.                                                               *)

\* No more chains are under way than the ring has slots.
LEMMA RingBound ==
  ASSUME NEW a, NEW d, NEW ch, NEW fr \in SUBSET Slots, NEW lu,
         NEW po \in Seq(Chains), NEW re \in Seq(Slots), NEW u,
         RingOK(a, d, ch, fr, lu, po, re, u)
  PROVE  /\ Len(re) \in Nat /\ u \in Nat /\ Len(po) \in Nat
         /\ Len(re) <= u /\ u <= Len(po) /\ Len(po) - Len(re) <= QSize
<1>1. u \in Nat /\ Len(re) <= u /\ u <= Len(po)
  BY Zenon DEF RingOK
<1>2. QSize - (Len(po) - Len(re)) \in Nat
  BY Zenon DEF RingOK, Room
<1>3. Len(re) \in Nat /\ Len(po) \in Nat
  OBVIOUS
<1>. QED BY <1>1, <1>2, <1>3, Sizes

\* The driver posts a chain: the head is free, its slot is not in use.
LEMMA RingPost ==
  ASSUME NEW a \in AvailRings, NEW d, NEW ch \in [Slots -> Int],
         NEW fr \in SUBSET Slots, NEW lu, NEW po \in Seq(Chains), NEW re \in Seq(Slots),
         NEW u, RingOK(a, d, ch, fr, lu, po, re, u), NEW head \in fr, NEW what \in Int
  PROVE  RingOK([idx |-> (a.idx + 1) % IdxMod, ring |-> [a.ring EXCEPT ![a.idx % QSize] = head]],
                d, [ch EXCEPT ![head] = what], fr \ {head}, lu,
                Append(po, [head |-> head, what |-> what]), re, u)
<1>. DEFINE P == Len(po)
            R == Len(re)
            b == [idx |-> (a.idx + 1) % IdxMod, ring |-> [a.ring EXCEPT ![a.idx % QSize] = head]]
            c == [ch EXCEPT ![head] = what]
            e == [head |-> head, what |-> what]
            p == Append(po, e)
<1>1. R \in Nat /\ u \in Nat /\ P \in Nat /\ R <= u /\ u <= P
  BY RingBound, Zenon
<1>2. Room(fr, QSize - (P - R))
  BY Zenon DEF RingOK
<1>3. (QSize - (P - R)) - 1 \in Nat /\ Room(fr \ {head}, (QSize - (P - R)) - 1)
  BY <1>2, RoomTaken, Zenon
<1>4. QSize - ((P + 1) - R) = (QSize - (P - R)) - 1
  BY <1>1, Sizes
<1>5. P - R < QSize
  BY <1>1, <1>3, Sizes
<1>6. e \in Chains /\ e.head = head /\ e.what = what
  BY DEF Chains
<1>7. /\ p \in Seq(Chains) /\ Len(p) = P + 1 /\ p[P + 1] = e
      /\ \A i \in 1 .. P : p[i] = po[i]
  <2>. HIDE DEF e
  <2>. QED BY <1>6
<1>8. a.idx = P % IdxMod /\ a.idx % QSize = P % QSize /\ P % QSize \in Slots
  <2>1. a.idx = P % IdxMod
    BY Zenon DEF RingOK
  <2>. QED BY <2>1, <1>1, SlotOf, Zenon
<1>9. b.idx = (P + 1) % IdxMod /\ b.ring[P % QSize] = head
      /\ \A s \in Slots : s # P % QSize => b.ring[s] = a.ring[s]
  <2>1. b.idx = (a.idx + 1) % IdxMod /\ b.ring = [a.ring EXCEPT ![a.idx % QSize] = head]
    BY DEF AvailRings
  <2>2. a.ring \in [Slots -> Slots]
    BY DEF AvailRings
  <2>3. (a.idx + 1) % IdxMod = (P + 1) % IdxMod
    BY <1>8, <1>1, NextIndex, Zenon DEF Inc
  <2>. HIDE DEF b, P
  <2>. QED BY <2>1, <2>2, <2>3, <1>8
<1>10. c[head] = what /\ \A h \in Slots : h # head => c[h] = ch[h]
  OBVIOUS
<1>11. \A i \in 1 .. P : po[i].head \in Slots
  <2>1. \A i \in 1 .. P : po[i] \in Chains
    OBVIOUS
  <2>. QED BY <2>1 DEF Chains
<1>. HIDE DEF b, c, e, p, P, R
<1>12. Room(fr \ {head}, QSize - ((P + 1) - R))
  BY <1>3, <1>4, Zenon
<1>13. \A i \in R + 1 .. P : p[i] = po[i] /\ po[i].head # head /\ po[i].head \notin fr
  BY <1>1, <1>7 DEF RingOK, P, R
<1>14. \A i \in R + 1 .. P + 1 : p[i].head \notin fr \ {head}
  <2>1. \A i \in R + 1 .. P + 1 : i = P + 1 \/ i \in R + 1 .. P
    BY <1>1
  <2>2. p[P + 1].head = head
    BY <1>6, <1>7
  <2>. QED BY <2>1, <2>2, <1>13, Zenon
<1>15. \A i, j \in R + 1 .. P : po[i].head = po[j].head => i = j
  BY Zenon DEF RingOK, P, R
<1>16. \A i, j \in R + 1 .. P + 1 : p[i].head = p[j].head => i = j
  <2>1. \A i \in R + 1 .. P + 1 : i \in R + 1 .. P \/ i = P + 1
    BY <1>1, Intervals
  <2>. QED BY <2>1, <1>6, <1>7, <1>13, <1>15, Zenon
<1>17. \A i \in 1 .. R : re[i] = p[i].head
  <2>1. \A i \in 1 .. R : re[i] = po[i].head
    BY Zenon DEF RingOK, R
  <2>2. \A i \in 1 .. R : p[i] = po[i]
    BY <1>1, <1>7
  <2>. QED BY <2>1, <2>2, Zenon
<1>18. \A i \in u + 1 .. P + 1 : b.ring[(i - 1) % QSize] = p[i].head /\ c[p[i].head] = p[i].what
  <2>. SUFFICES ASSUME NEW i \in u + 1 .. P + 1
                PROVE  b.ring[(i - 1) % QSize] = p[i].head /\ c[p[i].head] = p[i].what
    OBVIOUS
  <2>1. CASE i = P + 1
    BY <2>1, <1>1, <1>6, <1>7, <1>9, <1>10
  <2>2. CASE i # P + 1
    <3>1. i \in u + 1 .. P /\ i \in R + 1 .. P /\ i \in 1 .. P /\ i - 1 \in Nat /\ i - 1 # P
          /\ (i - 1) - P < QSize /\ P - (i - 1) < QSize
      BY <2>2, <1>1, <1>5, Sizes
    <3>2. a.ring[(i - 1) % QSize] = po[i].head /\ ch[po[i].head] = po[i].what
      BY <3>1, Zenon DEF RingOK, P
    <3>3. (i - 1) % QSize # P % QSize
      BY <3>1, <1>1, SlotsApart, Zenon
    <3>4. (i - 1) % QSize \in Slots
      BY <3>1, SlotOf, Zenon
    <3>. QED BY <3>1, <3>2, <3>3, <3>4, <1>7, <1>9, <1>10, <1>11, <1>13, Zenon
  <2>. QED BY <2>1, <2>2
<1>19. \A i \in R + 1 .. u : d.ring[(i - 1) % QSize].id = p[i].head
  <2>1. \A i \in R + 1 .. u : d.ring[(i - 1) % QSize].id = po[i].head
    BY Zenon DEF RingOK, R
  <2>2. \A i \in R + 1 .. u : i \in 1 .. P
    BY <1>1, Intervals
  <2>. QED BY <2>1, <2>2, <1>7, Zenon
<1>20. u <= P + 1 /\ d.idx = u % IdxMod /\ lu = R % IdxMod
  <2>1. d.idx = u % IdxMod /\ lu = R % IdxMod
    BY Zenon DEF RingOK, R
  <2>. QED BY <1>1, <2>1
<1>21. RingOK(b, d, c, fr \ {head}, lu, p, re, u)
  BY <1>1, <1>7, <1>9, <1>12, <1>14, <1>16, <1>17, <1>18, <1>19, <1>20, Zenon DEF RingOK, R
<1>. QED BY <1>21 DEF b, c, e, p

\* Chains have heads.
LEMMA HeadsAreSlots ==
  ASSUME NEW po \in Seq(Chains)
  PROVE  \A i \in 1 .. Len(po) : po[i].head \in Slots /\ po[i].what \in Int
<1>1. \A i \in 1 .. Len(po) : po[i] \in Chains
  OBVIOUS
<1>. QED BY <1>1 DEF Chains

\* The chain the device is at, if one is posted.
NextChain(a, ch, po, u) ==
  /\ (u % IdxMod = a.idx) <=> (u = Len(po))
  /\ u # Len(po) => /\ u + 1 \in 1 .. Len(po) /\ u < Len(po)
                    /\ a.ring[(u % IdxMod) % QSize] = po[u + 1].head
                    /\ ch[po[u + 1].head] = po[u + 1].what
                    /\ po[u + 1].head \in Slots

\* What Queue::pop finds at the device's place: nothing, if the driver posted
\* nothing more, or the next chain.
LEMMA RingNext ==
  ASSUME NEW a, NEW d, NEW ch, NEW fr \in SUBSET Slots, NEW lu,
         NEW po \in Seq(Chains), NEW re \in Seq(Slots), NEW u,
         RingOK(a, d, ch, fr, lu, po, re, u)
  PROVE  NextChain(a, ch, po, u)
<1>1. /\ Len(re) \in Nat /\ u \in Nat /\ Len(po) \in Nat
      /\ Len(re) <= u /\ u <= Len(po) /\ Len(po) - Len(re) <= QSize
  BY RingBound, Zenon
<1>2. a.idx = Len(po) % IdxMod
  BY Zenon DEF RingOK
<1>3. CASE u = Len(po)
  BY <1>2, <1>3, Zenon DEF NextChain
<1>4. CASE u # Len(po)
  <2>1. u < Len(po) /\ Len(po) - u <= QSize /\ u + 1 \in 1 .. Len(po) /\ u + 1 \in u + 1 .. Len(po)
        /\ (u + 1) - 1 = u
    BY <1>1, <1>4, Sizes
  <2>2. u % IdxMod # Len(po) % IdxMod
    BY <1>1, <2>1, IndicesApart, Zenon
  <2>3. a.ring[((u + 1) - 1) % QSize] = po[u + 1].head /\ ch[po[u + 1].head] = po[u + 1].what
    BY <2>1, Zenon DEF RingOK
  <2>4. (u % IdxMod) % QSize = u % QSize
    BY <1>1, SlotOf, Zenon
  <2>5. a.ring[(u % IdxMod) % QSize] = po[u + 1].head
    BY <2>1, <2>3, <2>4, Zenon
  <2>6. po[u + 1].head \in Slots
    BY <2>1, HeadsAreSlots, Zenon
  <2>. QED BY <1>2, <1>4, <2>1, <2>2, <2>3, <2>5, <2>6, Zenon DEF NextChain
<1>. QED BY <1>3, <1>4, Zenon

\* Queue::add_used after the pop: the chain the device is at goes back.  Its
\* buffer may have been written, no other.
LEMMA RingReturn ==
  ASSUME NEW a, NEW d \in UsedRings, NEW ch, NEW fr \in SUBSET Slots, NEW lu,
         NEW po \in Seq(Chains), NEW re \in Seq(Slots), NEW u,
         RingOK(a, d, ch, fr, lu, po, re, u), u < Len(po), NEW len, NEW c,
         \A h \in Slots : h # po[u + 1].head => c[h] = ch[h]
  PROVE  RingOK(a, [idx |-> Inc(u % IdxMod),
                 ring |-> [d.ring EXCEPT ![(u % IdxMod) % QSize] = [id |-> po[u + 1].head, len |-> len]]],
                c, fr, lu, po, re, u + 1)
<1>. DEFINE P == Len(po)
            R == Len(re)
            x == [id |-> po[u + 1].head, len |-> len]
            b == [idx |-> Inc(u % IdxMod),
                 ring |-> [d.ring EXCEPT ![(u % IdxMod) % QSize] = x]]
<1>1. R \in Nat /\ u \in Nat /\ P \in Nat /\ R <= u /\ u < P /\ P - R <= QSize
  BY RingBound, Zenon
<1>2. u + 1 \in Nat /\ R <= u + 1 /\ u + 1 <= P /\ (u + 1) - 1 = u
  BY <1>1
<1>3. u % QSize \in Slots /\ (u % IdxMod) % QSize = u % QSize
  BY <1>1, SlotOf, Zenon
<1>4. /\ b.idx = (u + 1) % IdxMod /\ b.ring[u % QSize].id = po[u + 1].head
      /\ \A s \in Slots : s # u % QSize => b.ring[s] = d.ring[s]
  <2>1. b.idx = Inc(u % IdxMod) /\ b.ring = [d.ring EXCEPT ![(u % IdxMod) % QSize] = x]
    BY DEF UsedRings
  <2>2. d.ring \in [Slots -> [id : Slots, len : Nat]] /\ x.id = po[u + 1].head
    BY DEF UsedRings
  <2>3. Inc(u % IdxMod) = (u + 1) % IdxMod
    BY <1>1, NextIndex, Zenon
  <2>. HIDE DEF b, x
  <2>. QED BY <2>1, <2>2, <2>3, <1>3
<1>. HIDE DEF b, x, P, R
<1>5. /\ a.idx = P % IdxMod /\ lu = R % IdxMod /\ Room(fr, QSize - (P - R))
      /\ \A i \in R + 1 .. P : po[i].head \notin fr
      /\ \A i, j \in R + 1 .. P : po[i].head = po[j].head => i = j
      /\ \A i \in 1 .. R : re[i] = po[i].head
  BY Zenon DEF RingOK, P, R
<1>6. \A i \in u + 2 .. P : a.ring[(i - 1) % QSize] = po[i].head /\ c[po[i].head] = po[i].what
  <2>. SUFFICES ASSUME NEW i \in u + 2 .. P
                PROVE  a.ring[(i - 1) % QSize] = po[i].head /\ c[po[i].head] = po[i].what
    OBVIOUS
  <2>1. i \in u + 1 .. P /\ i \in R + 1 .. P /\ u + 1 \in R + 1 .. P /\ i # u + 1 /\ i \in 1 .. P
    BY <1>1
  <2>2. a.ring[(i - 1) % QSize] = po[i].head /\ ch[po[i].head] = po[i].what
    BY <2>1, Zenon DEF RingOK, P
  <2>3. po[i].head # po[u + 1].head /\ po[i].head \in Slots
    BY <2>1, <1>5, HeadsAreSlots, Zenon DEF P
  <2>. QED BY <2>2, <2>3, Zenon
<1>7. \A i \in R + 1 .. u + 1 : b.ring[(i - 1) % QSize].id = po[i].head
  <2>. SUFFICES ASSUME NEW i \in R + 1 .. u + 1 PROVE b.ring[(i - 1) % QSize].id = po[i].head
    OBVIOUS
  <2>1. CASE i = u + 1
    BY <2>1, <1>2, <1>4, Zenon
  <2>2. CASE i # u + 1
    <3>1. i \in R + 1 .. u /\ i - 1 \in Nat /\ i - 1 # u /\ (i - 1) - u < QSize /\ u - (i - 1) < QSize
      BY <2>2, <1>1, Sizes
    <3>2. (i - 1) % QSize # u % QSize /\ (i - 1) % QSize \in Slots
      BY <3>1, <1>1, SlotsApart, SlotOf, Zenon
    <3>3. d.ring[(i - 1) % QSize].id = po[i].head
      BY <3>1, Zenon DEF RingOK, R
    <3>. QED BY <3>2, <3>3, <1>4, Zenon
  <2>. QED BY <2>1, <2>2, Zenon
<1>8. (u + 1) + 1 = u + 2
  BY <1>1
<1>9. RingOK(a, b, c, fr, lu, po, re, u + 1)
  BY <1>2, <1>4, <1>5, <1>6, <1>7, <1>8, Zenon DEF RingOK, P, R
<1>. QED BY <1>9 DEF b, x

\* The driver takes back the oldest chain that was returned.
LEMMA RingReap ==
  ASSUME NEW a, NEW d, NEW ch, NEW fr \in SUBSET Slots, NEW lu,
         NEW po \in Seq(Chains), NEW re \in Seq(Slots), NEW u,
         RingOK(a, d, ch, fr, lu, po, re, u), d.idx # lu
  PROVE  /\ Len(re) < u /\ Len(re) + 1 \in 1 .. Len(po)
         /\ d.ring[lu % QSize] = d.ring[Len(re) % QSize]
         /\ d.ring[lu % QSize].id = po[Len(re) + 1].head
         /\ RingOK(a, d, ch, fr \cup {d.ring[lu % QSize].id}, (lu + 1) % IdxMod, po,
                   Append(re, d.ring[lu % QSize].id), u)
<1>. DEFINE P == Len(po)
            R == Len(re)
            h == d.ring[lu % QSize].id
            r == Append(re, h)
<1>1. R \in Nat /\ u \in Nat /\ P \in Nat /\ R <= u /\ u <= P /\ P - R <= QSize
  BY RingBound, Zenon
<1>2. /\ a.idx = P % IdxMod /\ d.idx = u % IdxMod /\ lu = R % IdxMod
      /\ Room(fr, QSize - (P - R))
      /\ \A i \in R + 1 .. P : po[i].head \notin fr
      /\ \A i, j \in R + 1 .. P : po[i].head = po[j].head => i = j
      /\ \A i \in 1 .. R : re[i] = po[i].head
      /\ \A i \in u + 1 .. P : a.ring[(i - 1) % QSize] = po[i].head /\ ch[po[i].head] = po[i].what
      /\ \A i \in R + 1 .. u : d.ring[(i - 1) % QSize].id = po[i].head
  BY Zenon DEF RingOK
<1>3. R # u
  BY <1>2, Zenon
<1>4. R < u /\ R + 1 \in R + 1 .. u /\ R + 1 \in R + 1 .. P /\ R + 1 \in 1 .. P /\ (R + 1) - 1 = R
  BY <1>1, <1>3
<1>5. lu % QSize = R % QSize
  BY <1>1, <1>2, SlotOf, Zenon
<1>6. h = po[R + 1].head /\ h \in Slots
  <2>1. d.ring[((R + 1) - 1) % QSize].id = po[R + 1].head
    BY <1>2, <1>4, Zenon
  <2>2. po[R + 1].head \in Slots
    BY <1>4, HeadsAreSlots, Zenon
  <2>. QED BY <2>1, <2>2, <1>4, <1>5, Zenon
<1>7. r \in Seq(Slots) /\ Len(r) = R + 1 /\ r[R + 1] = h /\ \A i \in 1 .. R : r[i] = re[i]
  <2>. HIDE DEF h
  <2>. QED BY <1>6
<1>8. (lu + 1) % IdxMod = (R + 1) % IdxMod
  BY <1>1, <1>2, NextIndex, Zenon DEF Inc
<1>. HIDE DEF P, R, h, r
<1>9. h \notin fr
  BY <1>2, <1>4, <1>6, Zenon
<1>10. Room(fr \cup {h}, QSize - (P - (R + 1)))
  <2>1. Room(fr \cup {h}, (QSize - (P - R)) + 1)
    BY <1>2, <1>9, RoomGiven, Zenon
  <2>2. QSize - (P - (R + 1)) = (QSize - (P - R)) + 1
    BY <1>1, Sizes
  <2>. QED BY <2>1, <2>2, Zenon
<1>11. \A i \in (R + 1) + 1 .. P : i \in R + 1 .. P /\ i # R + 1
  BY <1>1
<1>12. \A i \in (R + 1) + 1 .. P : po[i].head \notin fr \cup {h}
  BY <1>2, <1>4, <1>6, <1>11, Zenon
<1>13. \A i, j \in (R + 1) + 1 .. P : po[i].head = po[j].head => i = j
  BY <1>2, <1>11, Zenon
<1>14. \A i \in 1 .. R + 1 : r[i] = po[i].head
  <2>1. \A i \in 1 .. R + 1 : i = R + 1 \/ i \in 1 .. R
    BY <1>1
  <2>. QED BY <2>1, <1>2, <1>6, <1>7, Zenon
<1>15. \A i \in (R + 1) + 1 .. u : d.ring[(i - 1) % QSize].id = po[i].head
  <2>1. \A i \in (R + 1) + 1 .. u : i \in R + 1 .. u
    BY <1>1
  <2>. QED BY <2>1, <1>2, Zenon
<1>16. R + 1 <= u
  BY <1>1, <1>4
<1>17. RingOK(a, d, ch, fr \cup {h}, (lu + 1) % IdxMod, po, r, u)
  BY <1>1, <1>2, <1>7, <1>8, <1>10, <1>12, <1>13, <1>14, <1>15, <1>16, Zenon DEF RingOK, P
<1>. QED BY <1>4, <1>5, <1>6, <1>17, Zenon DEF P, R, h, r

-----------------------------------------------------------------------------
(* What goes through the rings.                                            *)

\* A longer sequence.
LEMMA Appended ==
  ASSUME NEW S, NEW s \in Seq(S), NEW e \in S
  PROVE  /\ Append(s, e) \in Seq(S) /\ Len(s) \in Nat /\ Len(Append(s, e)) = Len(s) + 1
         /\ Append(s, e)[Len(s) + 1] = e
         /\ \A i \in 1 .. Len(s) : Append(s, e)[i] = s[i]
OBVIOUS

\* A chain posted for transmission is sent later.
LEMMA TxPost ==
  ASSUME NEW po \in Seq(Chains), NEW u \in Nat, u <= Len(po), NEW out \in Frames,
         TxOK(out, po, u), TxPosted(po), NEW e \in Chains, e.what \in {Len(po) + 1, Empty, Bad}
  PROVE  TxOK(out, Append(po, e), u) /\ TxPosted(Append(po, e))
<1>. DEFINE p == Append(po, e)
<1>1. Len(po) \in Nat /\ Len(p) = Len(po) + 1 /\ p[Len(po) + 1] = e
      /\ \A i \in 1 .. Len(po) : p[i] = po[i]
  BY Appended
<1>. HIDE DEF p
<1>2. \A i \in 1 .. u : p[i] = po[i]
  BY <1>1
<1>3. TxOK(out, p, u)
  BY <1>2, Zenon DEF TxOK
<1>4. \A i \in 1 .. Len(p) : i = Len(po) + 1 \/ i \in 1 .. Len(po)
  BY <1>1
<1>5. TxPosted(p)
  BY <1>1, <1>4, Zenon DEF TxPosted
<1>. QED BY <1>3, <1>5, Zenon DEF p

\* process_tx returns a chain without a frame.
LEMMA TxSkip ==
  ASSUME NEW po \in Seq(Chains), NEW u \in Nat, NEW out \in Frames,
         TxOK(out, po, u), po[u + 1].what = Empty
  PROVE  TxOK(out, po, u + 1)
<1>1. 1 .. u + 1 = (1 .. u) \cup {u + 1} /\ u + 1 # Empty
  BY DEF Empty
<1>. QED BY <1>1, Zenon DEF TxOK

\* process_tx writes the frame of the next chain.
LEMMA TxSend ==
  ASSUME NEW po \in Seq(Chains), NEW u \in Nat, NEW out \in Frames,
         TxOK(out, po, u), po[u + 1].what = u + 1, NEW ok \in BOOLEAN
  PROVE  TxOK(Append(out, <<u + 1, ok>>), po, u + 1) /\ Append(out, <<u + 1, ok>>) \in Frames
<1>. DEFINE e == <<u + 1, ok>>
            o == Append(out, e)
            N == Len(out)
<1>1. e \in Int \X BOOLEAN /\ e[1] = u + 1
  OBVIOUS
<1>2. o \in Frames /\ N \in Nat /\ Len(o) = N + 1 /\ o[N + 1] = e /\ \A i \in 1 .. N : o[i] = out[i]
  <2>1. out \in Seq(Int \X BOOLEAN)
    BY Zenon DEF Frames
  <2>2. /\ o \in Seq(Int \X BOOLEAN) /\ N \in Nat /\ Len(o) = N + 1 /\ o[N + 1] = e
        /\ \A i \in 1 .. N : o[i] = out[i]
    <3>. HIDE DEF e
    <3>. QED BY <1>1, <2>1, Appended
  <2>. QED BY <2>2, Zenon DEF Frames
<1>3. o[N + 1][1] = u + 1
  BY <1>1, <1>2, Zenon
<1>. HIDE DEF e, o, N
<1>4. /\ \A i \in 1 .. N : o[i][1] \in 1 .. u /\ po[o[i][1]].what = o[i][1]
      /\ \A i, j \in 1 .. N : i < j => o[i][1] < o[j][1]
      /\ \A k \in 1 .. u : po[k].what = k => \E j \in 1 .. N : o[j][1] = k
  BY <1>2, Zenon DEF TxOK, N
<1>5. 1 .. N + 1 = (1 .. N) \cup {N + 1} /\ 1 .. u + 1 = (1 .. u) \cup {u + 1}
  BY <1>2
<1>6. \A i \in 1 .. N + 1 : o[i][1] \in 1 .. u + 1 /\ po[o[i][1]].what = o[i][1]
  BY <1>3, <1>4, <1>5, Zenon
<1>7. \A i, j \in 1 .. N + 1 : i < j => o[i][1] < o[j][1]
  <2>. SUFFICES ASSUME NEW i \in 1 .. N + 1, NEW j \in 1 .. N + 1, i < j PROVE o[i][1] < o[j][1]
    OBVIOUS
  <2>1. i \in 1 .. N
    BY <1>2
  <2>2. CASE j = N + 1
    <3>1. o[i][1] \in 1 .. u
      BY <2>1, <1>4, Zenon
    <3>. QED BY <2>2, <3>1, <1>3
  <2>3. CASE j \in 1 .. N
    BY <2>1, <2>3, <1>4, Zenon
  <2>. QED BY <2>2, <2>3, <1>5, Zenon
<1>8. \A k \in 1 .. u + 1 : po[k].what = k => \E j \in 1 .. N + 1 : o[j][1] = k
  BY <1>3, <1>4, <1>5, Zenon
<1>9. TxOK(o, po, u + 1)
  BY <1>2, <1>6, <1>7, <1>8, Zenon DEF TxOK
<1>. QED BY <1>2, <1>9, Zenon DEF e, o

\* More frames arrived, or left the TAP.
LEMMA RxGrow ==
  ASSUME NEW got, NEW ch, NEW d, NEW po, NEW re, Len(re) \in Nat,
         NEW F \in Seq(Nat), NEW arr, NEW last \in Nat,
         RxOK(got, ch, d, po, re, F, arr, last), NEW more \in Nat, last <= more, NEW arr2,
         \A i \in 1 .. last : arr2[i] = arr[i]
  PROVE  RxOK(got, ch, d, po, re, F, arr2, more)
<1>1. \A f \in 1 .. last : f \in 1 .. more
  OBVIOUS
<1>2. \A i \in 1 .. Len(F) : F[i] \in 1 .. last /\ arr2[F[i]] = arr[F[i]]
  BY Zenon DEF RxOK
<1>3. Len(re) <= Len(F) => \A i \in 1 .. Len(re) : i \in 1 .. Len(F)
  OBVIOUS
<1>4. \A i \in 1 .. Len(re) : arr2[F[i]] = arr[F[i]]
  BY <1>2, <1>3, Zenon DEF RxOK
<1>5. Len(re) \in Nat /\ Len(F) \in Nat => \A i \in Len(re) + 1 .. Len(F) : i \in 1 .. Len(F)
  OBVIOUS
<1>6. Len(F) \in Nat
  OBVIOUS
<1>7. \A i \in Len(re) + 1 .. Len(F) : arr2[F[i]] = arr[F[i]]
  BY <1>2, <1>5, <1>6, Zenon
<1>. QED BY <1>1, <1>2, <1>4, <1>7, Zenon DEF RxOK

\* A buffer posted for receiving is not one that was filled.
LEMMA RxPost ==
  ASSUME NEW a, NEW d, NEW ch \in [Slots -> Int], NEW fr \in SUBSET Slots, NEW lu,
         NEW po \in Seq(Chains), NEW re \in Seq(Slots), NEW F \in Seq(Nat), NEW got,
         RingOK(a, d, ch, fr, lu, po, re, Len(F)), NEW arr, NEW last,
         RxOK(got, ch, d, po, re, F, arr, last),
         NEW e \in Chains, e.head \in fr, NEW what
  PROVE  RxOK(got, [ch EXCEPT ![e.head] = what], d, Append(po, e), re, F, arr, last)
<1>. DEFINE p == Append(po, e)
            c == [ch EXCEPT ![e.head] = what]
<1>1. Len(F) \in Nat /\ Len(re) \in Nat /\ Len(po) \in Nat /\ Len(re) <= Len(F) /\ Len(F) <= Len(po)
  BY RingBound, Zenon
<1>2. \A i \in 1 .. Len(po) : p[i] = po[i]
  BY Appended
<1>3. \A h \in Slots : h # e.head => c[h] = ch[h]
  OBVIOUS
<1>. HIDE DEF p, c
<1>4. \A i \in Len(re) + 1 .. Len(F) : i \in 1 .. Len(po) /\ i \in Len(re) + 1 .. Len(po)
  BY <1>1
<1>5. \A i \in Len(re) + 1 .. Len(F) : p[i] = po[i] /\ po[i].head # e.head /\ po[i].head \in Slots
  BY <1>2, <1>4, HeadsAreSlots, Zenon DEF RingOK
<1>6. \A i \in Len(re) + 1 .. Len(F) : c[p[i].head] = ch[po[i].head]
  BY <1>3, <1>5, Zenon
<1>7. RxOK(got, c, d, p, re, F, arr, last)
  BY <1>6, Zenon DEF RxOK
<1>. QED BY <1>7, Zenon DEF p, c

\* process_rx fills the next buffer with the frame it read.
LEMMA RxFill ==
  ASSUME NEW a, NEW d \in UsedRings, NEW ch \in [Slots -> Int], NEW fr \in SUBSET Slots, NEW lu,
         NEW po \in Seq(Chains), NEW re \in Seq(Slots), NEW F \in Seq(Nat), NEW got,
         RingOK(a, d, ch, fr, lu, po, re, Len(F)), NEW arr, NEW last \in Nat,
         RxOK(got, ch, d, po, re, F, arr, last), Len(F) < Len(po),
         NEW len, len = Min(BufLen, HdrLen + arr[last + 1])
  PROVE  RxOK(got, [ch EXCEPT ![po[Len(F) + 1].head] = last + 1],
              [idx |-> Inc(Len(F) % IdxMod),
                 ring |-> [d.ring EXCEPT ![(Len(F) % IdxMod) % QSize] = [id |-> po[Len(F) + 1].head, len |-> len]]],
              po, re, Append(F, last + 1), arr, last + 1)
<1>. DEFINE u == Len(F)
            R == Len(re)
            h == po[u + 1].head
            c == [ch EXCEPT ![h] = last + 1]
            x == [id |-> h, len |-> len]
            b == [idx |-> Inc(u % IdxMod),
                 ring |-> [d.ring EXCEPT ![(u % IdxMod) % QSize] = x]]
            G == Append(F, last + 1)
<1>1. u \in Nat /\ R \in Nat /\ Len(po) \in Nat /\ R <= u /\ u < Len(po) /\ Len(po) - R <= QSize
  BY RingBound, Zenon
<1>2. h \in Slots /\ \A i \in R + 1 .. u : po[i].head \in Slots /\ po[i].head # h
  <2>1. u + 1 \in 1 .. Len(po) /\ u + 1 \in R + 1 .. Len(po)
        /\ \A i \in R + 1 .. u : i \in 1 .. Len(po) /\ i \in R + 1 .. Len(po) /\ i # u + 1
    BY <1>1
  <2>2. \A i, j \in R + 1 .. Len(po) : po[i].head = po[j].head => i = j
    BY Zenon DEF RingOK
  <2>. QED BY <2>1, <2>2, HeadsAreSlots, Zenon
<1>3. u % QSize \in Slots /\ (u % IdxMod) % QSize = u % QSize
  BY <1>1, SlotOf, Zenon
<1>4. c[h] = last + 1 /\ \A i \in R + 1 .. u : c[po[i].head] = ch[po[i].head]
  <2>. HIDE DEF h
  <2>. QED BY <1>2
<1>5. b.ring[u % QSize].len = len /\ \A s \in Slots : s # u % QSize => b.ring[s] = d.ring[s]
  <2>1. b.ring = [d.ring EXCEPT ![(u % IdxMod) % QSize] = x]
    BY DEF UsedRings
  <2>2. d.ring \in [Slots -> [id : Slots, len : Nat]] /\ x.len = len
    BY DEF UsedRings
  <2>. HIDE DEF b, x, u
  <2>. QED BY <2>1, <2>2, <1>3
<1>6. last + 1 \in Nat
  OBVIOUS
<1>7. Len(G) = u + 1 /\ G[u + 1] = last + 1 /\ \A i \in 1 .. u : G[i] = F[i]
  BY <1>6, Appended
<1>8. 1 .. u + 1 = (1 .. u) \cup {u + 1} /\ R + 1 .. u + 1 = (R + 1 .. u) \cup {u + 1}
      /\ (\A i \in 1 .. R : i \in 1 .. u) /\ (\A i \in R + 1 .. u : i \in 1 .. u)
  BY <1>1, Intervals
<1>9. /\ Len(got) = R
      /\ \A i \in 1 .. u : F[i] \in 1 .. last
      /\ \A i, j \in 1 .. u : i < j => F[i] < F[j]
      /\ \A i \in 1 .. R : got[i].frame = F[i] /\ got[i].len = Min(BufLen, HdrLen + arr[F[i]])
      /\ \A i \in R + 1 .. u : /\ ch[po[i].head] = F[i]
                               /\ d.ring[(i - 1) % QSize].len = Min(BufLen, HdrLen + arr[F[i]])
  BY Zenon DEF RxOK
<1>. HIDE DEF u, R, h, c, x, b, G
<1>10. \A i \in R + 1 .. u : b.ring[(i - 1) % QSize] = d.ring[(i - 1) % QSize]
  <2>. SUFFICES ASSUME NEW i \in R + 1 .. u
                PROVE  b.ring[(i - 1) % QSize] = d.ring[(i - 1) % QSize]
    BY Zenon
  <2>1. i - 1 \in Nat /\ i - 1 # u /\ (i - 1) - u < QSize /\ u - (i - 1) < QSize
    BY <1>1, Sizes
  <2>2. (i - 1) % QSize # u % QSize /\ (i - 1) % QSize \in Slots
    BY <2>1, <1>1, SlotsApart, SlotOf, Zenon
  <2>. QED BY <2>2, <1>5, Zenon
<1>11. \A i \in 1 .. u + 1 : G[i] \in 1 .. last + 1
  <2>1. \A i \in 1 .. u : G[i] \in 1 .. last + 1
    BY <1>7, <1>9
  <2>2. G[u + 1] \in 1 .. last + 1
    BY <1>7
  <2>. QED BY <2>1, <2>2, <1>8, Zenon
<1>12. \A i, j \in 1 .. u + 1 : i < j => G[i] < G[j]
  <2>. SUFFICES ASSUME NEW i \in 1 .. u + 1, NEW j \in 1 .. u + 1, i < j PROVE G[i] < G[j]
    OBVIOUS
  <2>1. i \in 1 .. u
    BY <1>1
  <2>2. CASE j = u + 1
    <3>1. F[i] \in 1 .. last /\ G[i] = F[i]
      BY <2>1, <1>7, <1>9, Zenon
    <3>. QED BY <2>2, <3>1, <1>7
  <2>3. CASE j \in 1 .. u
    BY <2>1, <2>3, <1>7, <1>9, Zenon
  <2>. QED BY <2>2, <2>3, <1>8, Zenon
<1>13. \A i \in 1 .. R : got[i].frame = G[i] /\ got[i].len = Min(BufLen, HdrLen + arr[G[i]])
  BY <1>7, <1>8, <1>9, Zenon
<1>14. \A i \in R + 1 .. u + 1 : /\ c[po[i].head] = G[i]
                                 /\ b.ring[(i - 1) % QSize].len = Min(BufLen, HdrLen + arr[G[i]])
  <2>1. \A i \in R + 1 .. u : /\ c[po[i].head] = G[i]
                              /\ b.ring[(i - 1) % QSize].len = Min(BufLen, HdrLen + arr[G[i]])
    BY <1>4, <1>7, <1>8, <1>9, <1>10, Zenon
  <2>2. (u + 1) - 1 = u
    BY <1>1
  <2>3. c[po[u + 1].head] = G[u + 1]
    BY <1>4, <1>7, Zenon DEF h
  <2>4. b.ring[((u + 1) - 1) % QSize].len = Min(BufLen, HdrLen + arr[G[u + 1]])
    BY <2>2, <1>5, <1>7, Zenon
  <2>. QED BY <2>1, <2>3, <2>4, <1>8, Zenon
<1>15. R <= u + 1
  BY <1>1
<1>16. RxOK(got, c, b, po, re, G, arr, last + 1)
  BY <1>7, <1>9, <1>11, <1>12, <1>13, <1>14, <1>15, Zenon DEF RxOK, R
<1>. QED BY <1>16, Zenon DEF c, b, x, h, u, G

\* The driver takes a filled buffer back.
LEMMA RxReap ==
  ASSUME NEW ch, NEW d, NEW po, NEW re \in Seq(Slots), NEW F \in Seq(Nat),
         NEW got \in Seq([frame : Int, len : Nat]), NEW arr, NEW last,
         RxOK(got, ch, d, po, re, F, arr, last), Len(re) < Len(F),
         NEW x, x = d.ring[Len(re) % QSize], x.id = po[Len(re) + 1].head, x.id \in Slots,
         [frame |-> ch[x.id], len |-> x.len] \in [frame : Int, len : Nat]
  PROVE  RxOK(Append(got, [frame |-> ch[x.id], len |-> x.len]), ch, d, po, Append(re, x.id),
              F, arr, last)
<1>. DEFINE R == Len(re)
            e == [frame |-> ch[x.id], len |-> x.len]
            g == Append(got, e)
            r == Append(re, x.id)
<1>1. e.frame = ch[x.id] /\ e.len = x.len
  OBVIOUS
<1>. HIDE DEF e
<1>2. Len(got) = R /\ R \in Nat /\ Len(F) \in Nat /\ R < Len(F)
  <2>1. Len(got) = R
    BY Zenon DEF RxOK
  <2>. QED BY <2>1
<1>3. Len(g) = R + 1 /\ g[R + 1] = e /\ \A i \in 1 .. R : g[i] = got[i]
  BY <1>2, Appended DEF e
<1>4. Len(r) = R + 1
  BY Appended
<1>. HIDE DEF g, r
<1>5. R + 1 \in R + 1 .. Len(F) /\ (R + 1) - 1 = R /\ R + 1 <= Len(F)
      /\ 1 .. R + 1 = (1 .. R) \cup {R + 1}
      /\ \A i \in (R + 1) + 1 .. Len(F) : i \in R + 1 .. Len(F)
  BY <1>2
<1>6. ch[po[R + 1].head] = F[R + 1]
      /\ d.ring[((R + 1) - 1) % QSize].len = Min(BufLen, HdrLen + arr[F[R + 1]])
  BY <1>5, Zenon DEF RxOK
<1>7. g[R + 1].frame = F[R + 1] /\ g[R + 1].len = Min(BufLen, HdrLen + arr[F[R + 1]])
  <2>1. d.ring[R % QSize].len = Min(BufLen, HdrLen + arr[F[R + 1]])
    BY <1>5, <1>6, Zenon
  <2>. QED BY <2>1, <1>1, <1>3, <1>6, Zenon
<1>8. \A i \in 1 .. R + 1 : g[i].frame = F[i] /\ g[i].len = Min(BufLen, HdrLen + arr[F[i]])
  BY <1>3, <1>5, <1>7, Zenon DEF RxOK
<1>9. RxOK(g, ch, d, po, r, F, arr, last)
  BY <1>3, <1>4, <1>5, <1>8, Zenon DEF RxOK
<1>. QED BY <1>9, Zenon DEF g, r, e

-----------------------------------------------------------------------------
(* The fields of the guest.                                                *)

\* The fields of a guest have their types.
LEMMA GuestFields ==
  ASSUME NEW g \in Guests
  PROVE  /\ g.step \in Nat /\ g.avail \in [Queues -> AvailRings] /\ g.used \in [Queues -> UsedRings]
         /\ g.chain \in [Queues -> [Slots -> Int]] /\ g.free \in [Queues -> SUBSET Slots]
         /\ g.lastUsed \in [Queues -> Nat] /\ g.posted \in [Queues -> Seq(Chains)]
         /\ g.reaped \in [Queues -> Seq(Slots)] /\ g.got \in Seq([frame : Int, len : Nat])
         /\ g.irq \in {"none", "latched", "handling"}
BY DEF Guests

\* The fields of one ring.
LEMMA QueueFields ==
  ASSUME NEW g \in Guests, NEW n \in Queues
  PROVE  /\ g.avail[n] \in AvailRings /\ g.used[n] \in UsedRings
         /\ g.chain[n] \in [Slots -> Int] /\ g.free[n] \in SUBSET Slots
         /\ g.lastUsed[n] \in Nat /\ g.posted[n] \in Seq(Chains)
         /\ g.reaped[n] \in Seq(Slots)
<1>1. /\ g.avail \in [Queues -> AvailRings] /\ g.used \in [Queues -> UsedRings]
      /\ g.chain \in [Queues -> [Slots -> Int]] /\ g.free \in [Queues -> SUBSET Slots]
      /\ g.lastUsed \in [Queues -> Nat] /\ g.posted \in [Queues -> Seq(Chains)]
      /\ g.reaped \in [Queues -> Seq(Slots)]
  BY GuestFields, Zenon
<1>. QED BY <1>1, Zenon

\* A record with the fields of a guest.
Shaped(h) ==
  h \in [step : {h.step}, avail : {h.avail}, used : {h.used}, chain : {h.chain},
         free : {h.free}, lastUsed : {h.lastUsed}, posted : {h.posted}, reaped : {h.reaped},
         got : {h.got}, irq : {h.irq}]

\* One whose fields have their types is a guest.
LEMMA GuestOf ==
  ASSUME NEW h, Shaped(h),
         h.step \in Nat, h.avail \in [Queues -> AvailRings], h.used \in [Queues -> UsedRings],
         h.chain \in [Queues -> [Slots -> Int]], h.free \in [Queues -> SUBSET Slots],
         h.lastUsed \in [Queues -> Nat], h.posted \in [Queues -> Seq(Chains)],
         h.reaped \in [Queues -> Seq(Slots)], h.got \in Seq([frame : Int, len : Nat]),
         h.irq \in {"none", "latched", "handling"}
  PROVE  h \in Guests
BY DEF Guests, Shaped

\* The rings of queue m are those of another guest.
SameQueue(g, h, m) ==
  /\ h.avail[m] = g.avail[m] /\ h.used[m] = g.used[m] /\ h.chain[m] = g.chain[m]
  /\ h.free[m] = g.free[m] /\ h.lastUsed[m] = g.lastUsed[m] /\ h.posted[m] = g.posted[m]
  /\ h.reaped[m] = g.reaped[m]

\* What DriverPost leaves in guest memory.
Posted(g, n, head, what) ==
  [g EXCEPT !.chain[n][head] = what,
            !.avail[n] = [idx |-> (g.avail[n].idx + 1) % IdxMod,
                          ring |-> [@.ring EXCEPT ![g.avail[n].idx % QSize] = head]],
            !.free[n] = @ \ {head},
            !.posted[n] = Append(@, [head |-> head, what |-> what])]

\* h is g with one chain more on queue n.
IsPosted(g, h, n, head, what) ==
  /\ h \in Guests /\ h.step = g.step /\ h.got = g.got /\ h.irq = g.irq
  /\ \A m \in Queues : m # n => SameQueue(g, h, m)
  /\ h.avail[n] = [idx |-> (g.avail[n].idx + 1) % IdxMod,
                   ring |-> [g.avail[n].ring EXCEPT ![g.avail[n].idx % QSize] = head]]
  /\ h.used[n] = g.used[n] /\ h.chain[n] = [g.chain[n] EXCEPT ![head] = what]
  /\ h.free[n] = g.free[n] \ {head} /\ h.lastUsed[n] = g.lastUsed[n]
  /\ h.posted[n] = Append(g.posted[n], [head |-> head, what |-> what])
  /\ h.reaped[n] = g.reaped[n] /\ h.used = g.used

\* One chain more on one queue, and nothing else.
LEMMA PostedFields ==
  ASSUME NEW g \in Guests, NEW n \in Queues, NEW head \in g.free[n], NEW what \in Int
  PROVE  IsPosted(g, Posted(g, n, head, what), n, head, what)
<1>. DEFINE h == Posted(g, n, head, what)
<1>. DEFINE a == [idx |-> (g.avail[n].idx + 1) % IdxMod,
                  ring |-> [g.avail[n].ring EXCEPT ![g.avail[n].idx % QSize] = head]]
            c == [g.chain[n] EXCEPT ![head] = what]
            p == Append(g.posted[n], [head |-> head, what |-> what])
<1>1. h.avail = [g.avail EXCEPT ![n] = a]
  BY DEF Posted, Guests
<1>2. h.chain = [g.chain EXCEPT ![n] = c]
  BY DEF Posted, Guests
<1>3. h.free = [g.free EXCEPT ![n] = g.free[n] \ {head}]
  BY DEF Posted, Guests
<1>4. h.posted = [g.posted EXCEPT ![n] = p]
  BY DEF Posted, Guests
<1>5. /\ h.step = g.step /\ h.used = g.used /\ h.lastUsed = g.lastUsed
      /\ h.reaped = g.reaped /\ h.got = g.got /\ h.irq = g.irq
  BY DEF Posted, Guests
<1>6. Shaped(h)
  BY Zenon DEF Posted, Guests, Shaped
<1>7. a \in AvailRings /\ c \in [Slots -> Int] /\ p \in Seq(Chains)
  <2>1. g.avail[n] \in AvailRings /\ g.chain[n] \in [Slots -> Int] /\ g.posted[n] \in Seq(Chains)
        /\ head \in Slots
    BY QueueFields, Zenon
  <2>2. g.avail[n].idx \in Nat /\ g.avail[n].ring \in [Slots -> Slots]
    BY <2>1 DEF AvailRings
  <2>3. g.avail[n].idx + 1 \in Nat
    BY <2>2
  <2>4. (g.avail[n].idx + 1) % IdxMod \in Nat
    BY <2>3, SlotOf, Zenon
  <2>5. [g.avail[n].ring EXCEPT ![g.avail[n].idx % QSize] = head] \in [Slots -> Slots]
    BY <2>1, <2>2, Zenon
  <2>6. a \in AvailRings
    BY <2>4, <2>5 DEF AvailRings
  <2>7. c \in [Slots -> Int]
    BY <2>1
  <2>8. [head |-> head, what |-> what] \in Chains
    BY <2>1 DEF Chains
  <2>9. p \in Seq(Chains)
    BY <2>1, <2>8, Appended
  <2>. QED BY <2>6, <2>7, <2>9, Zenon
<1>. HIDE DEF a, c, p
<1>8. /\ g.avail \in [Queues -> AvailRings] /\ g.chain \in [Queues -> [Slots -> Int]]
      /\ g.free \in [Queues -> SUBSET Slots] /\ g.posted \in [Queues -> Seq(Chains)]
  BY GuestFields, Zenon
<1>9. h.avail \in [Queues -> AvailRings] /\ h.avail[n] = a
      /\ \A m \in Queues : m # n => h.avail[m] = g.avail[m]
  BY <1>1, <1>7, <1>8, Zenon
<1>10. h.chain \in [Queues -> [Slots -> Int]] /\ h.chain[n] = c
      /\ \A m \in Queues : m # n => h.chain[m] = g.chain[m]
  BY <1>2, <1>7, <1>8, Zenon
<1>11. h.free \in [Queues -> SUBSET Slots] /\ h.free[n] = g.free[n] \ {head}
      /\ \A m \in Queues : m # n => h.free[m] = g.free[m]
  <2>. DEFINE f == g.free[n] \ {head}
  <2>1. f \in SUBSET Slots
    BY <1>8
  <2>. HIDE DEF f
  <2>2. h.free = [g.free EXCEPT ![n] = f]
    BY <1>3 DEF f
  <2>3. h.free \in [Queues -> SUBSET Slots] /\ h.free[n] = f
        /\ \A m \in Queues : m # n => h.free[m] = g.free[m]
    BY <2>1, <2>2, <1>8, Zenon
  <2>. QED BY <2>3, Zenon DEF f
<1>12. h.posted \in [Queues -> Seq(Chains)] /\ h.posted[n] = p
      /\ \A m \in Queues : m # n => h.posted[m] = g.posted[m]
  BY <1>4, <1>7, <1>8, Zenon
<1>13. h \in Guests
  BY <1>5, <1>6, <1>9, <1>10, <1>11, <1>12, GuestFields, GuestOf, Zenon
<1>14. \A m \in Queues : m # n => SameQueue(g, h, m)
  BY <1>5, <1>9, <1>10, <1>11, <1>12, Zenon DEF SameQueue
<1>. QED BY <1>5, <1>9, <1>10, <1>11, <1>12, <1>13, <1>14, Zenon DEF a, c, p, IsPosted

\* What Queue::add_used leaves in guest memory, for a device x chains on.
Given(g, n, x, head, len) ==
  [g EXCEPT !.used[n] = [idx |-> Inc(x % IdxMod),
                         ring |-> [@.ring EXCEPT ![(x % IdxMod) % QSize] =
                                                    [id |-> head, len |-> len]]]]

\* h is g with one element more in the used ring of queue n.
IsGiven(g, h, n, x, head, len) ==
  /\ h \in Guests /\ h.step = g.step /\ h.got = g.got /\ h.irq = g.irq
  /\ \A m \in Queues : m # n => SameQueue(g, h, m)
  /\ h.used[n] = [idx |-> Inc(x % IdxMod),
                  ring |-> [g.used[n].ring EXCEPT ![(x % IdxMod) % QSize] =
                                                     [id |-> head, len |-> len]]]
  /\ h.avail = g.avail /\ h.chain = g.chain /\ h.free = g.free
  /\ h.lastUsed = g.lastUsed /\ h.posted = g.posted /\ h.reaped = g.reaped

\* The used ring of one queue, and nothing else.
LEMMA GivenFields ==
  ASSUME NEW g \in Guests, NEW n \in Queues, NEW head \in Slots, NEW len \in Nat,
         NEW x \in Nat
  PROVE  IsGiven(g, Given(g, n, x, head, len), n, x, head, len)
<1>. DEFINE h == Given(g, n, x, head, len)
<1>. DEFINE d == [idx |-> Inc(x % IdxMod),
                  ring |-> [g.used[n].ring EXCEPT ![(x % IdxMod) % QSize] =
                                                     [id |-> head, len |-> len]]]
<1>1. h.used = [g.used EXCEPT ![n] = d]
  BY DEF Given, Guests
<1>2. /\ h.step = g.step /\ h.avail = g.avail /\ h.lastUsed = g.lastUsed /\ h.chain = g.chain
      /\ h.reaped = g.reaped /\ h.got = g.got /\ h.irq = g.irq /\ h.free = g.free
      /\ h.posted = g.posted
  BY DEF Given, Guests
<1>3. Shaped(h)
  BY Zenon DEF Given, Guests, Shaped
<1>4. d \in UsedRings
  <2>1. g.used[n].ring \in [Slots -> [id : Slots, len : Nat]]
    <3>1. g.used[n] \in UsedRings
      BY QueueFields, Zenon
    <3>. QED BY <3>1 DEF UsedRings
  <2>2. Inc(x % IdxMod) \in Nat
    <3>1. x + 1 \in Nat
      OBVIOUS
    <3>2. (x + 1) % IdxMod \in Nat
      BY <3>1, SlotOf, Zenon
    <3>. QED BY <3>2, NextIndex, Zenon
  <2>3. [g.used[n].ring EXCEPT ![(x % IdxMod) % QSize] = [id |-> head, len |-> len]]
          \in [Slots -> [id : Slots, len : Nat]]
    BY <2>1, Zenon
  <2>. HIDE DEF Inc
  <2>. QED BY <2>2, <2>3 DEF UsedRings
<1>. HIDE DEF d
<1>5. g.used \in [Queues -> UsedRings]
  BY GuestFields, Zenon
<1>6. h.used \in [Queues -> UsedRings] /\ h.used[n] = d
      /\ \A m \in Queues : m # n => h.used[m] = g.used[m]
  BY <1>1, <1>4, <1>5, Zenon
<1>7. h \in Guests
  BY <1>2, <1>3, <1>6, GuestFields, GuestOf, Zenon
<1>8. \A m \in Queues : m # n => SameQueue(g, h, m)
  BY <1>2, <1>6, Zenon DEF SameQueue
<1>. QED BY <1>2, <1>6, <1>7, <1>8, Zenon DEF d, IsGiven

\* What process_rx leaves there: a frame in a buffer.
Filled(g, n, head, f) == [g EXCEPT !.chain[n][head] = f]

\* h is g with f in one buffer of queue n.
IsFilled(g, h, n, head, f) ==
  /\ h \in Guests /\ h.step = g.step /\ h.got = g.got /\ h.irq = g.irq
  /\ \A m \in Queues : m # n => SameQueue(g, h, m)
  /\ h.chain[n] = [g.chain[n] EXCEPT ![head] = f]
  /\ h.avail = g.avail /\ h.used = g.used /\ h.free = g.free
  /\ h.lastUsed = g.lastUsed /\ h.posted = g.posted /\ h.reaped = g.reaped

\* One buffer, and nothing else.
LEMMA FilledFields ==
  ASSUME NEW g \in Guests, NEW n \in Queues, NEW head \in Slots, NEW f \in Int
  PROVE  IsFilled(g, Filled(g, n, head, f), n, head, f)
<1>. DEFINE h == Filled(g, n, head, f)
<1>. DEFINE c == [g.chain[n] EXCEPT ![head] = f]
<1>1. h.chain = [g.chain EXCEPT ![n] = c]
  BY DEF Filled, Guests
<1>2. /\ h.step = g.step /\ h.avail = g.avail /\ h.lastUsed = g.lastUsed /\ h.used = g.used
      /\ h.reaped = g.reaped /\ h.got = g.got /\ h.irq = g.irq /\ h.free = g.free
      /\ h.posted = g.posted
  BY DEF Filled, Guests
<1>3. Shaped(h)
  BY Zenon DEF Filled, Guests, Shaped
<1>4. c \in [Slots -> Int] /\ g.chain \in [Queues -> [Slots -> Int]]
  <2>1. g.chain[n] \in [Slots -> Int]
    BY QueueFields, Zenon
  <2>2. c \in [Slots -> Int]
    BY <2>1
  <2>. QED BY <2>2, GuestFields, Zenon
<1>. HIDE DEF c
<1>5. h.chain \in [Queues -> [Slots -> Int]] /\ h.chain[n] = c
      /\ \A m \in Queues : m # n => h.chain[m] = g.chain[m]
  BY <1>1, <1>4, Zenon
<1>6. h \in Guests
  BY <1>2, <1>3, <1>5, GuestFields, GuestOf, Zenon
<1>7. \A m \in Queues : m # n => SameQueue(g, h, m)
  BY <1>2, <1>5, Zenon DEF SameQueue
<1>. QED BY <1>2, <1>5, <1>6, <1>7, Zenon DEF c, IsFilled

\* What DriverReap leaves in guest memory.
Reaped(g, n, x) ==
  [g EXCEPT !.lastUsed[n] = (@ + 1) % IdxMod, !.free[n] = @ \cup {x.id},
            !.reaped[n] = Append(@, x.id),
            !.got = IF n = RX THEN Append(@, [frame |-> g.chain[RX][x.id], len |-> x.len]) ELSE @]

\* h is g with the used element x taken back from queue n.
IsReaped(g, h, n, x) ==
  /\ h \in Guests /\ h.step = g.step /\ h.irq = g.irq
  /\ [frame |-> g.chain[RX][x.id], len |-> x.len] \in [frame : Int, len : Nat]
  /\ n = RX => h.got = Append(g.got, [frame |-> g.chain[RX][x.id], len |-> x.len])
  /\ n # RX => h.got = g.got
  /\ \A m \in Queues : m # n => SameQueue(g, h, m)
  /\ h.lastUsed[n] = (g.lastUsed[n] + 1) % IdxMod /\ h.free[n] = g.free[n] \cup {x.id}
  /\ h.reaped[n] = Append(g.reaped[n], x.id)
  /\ h.avail = g.avail /\ h.used = g.used /\ h.chain = g.chain /\ h.posted = g.posted

\* One chain more was taken back, and nothing else.
LEMMA ReapedFields ==
  ASSUME NEW g \in Guests, NEW n \in Queues, NEW x \in [id : Slots, len : Nat]
  PROVE  IsReaped(g, Reaped(g, n, x), n, x)
<1>. DEFINE h == Reaped(g, n, x)
<1>. DEFINE e == [frame |-> g.chain[RX][x.id], len |-> x.len]
            l == (g.lastUsed[n] + 1) % IdxMod
            f == g.free[n] \cup {x.id}
            r == Append(g.reaped[n], x.id)
<1>1. h.lastUsed = [g.lastUsed EXCEPT ![n] = l]
  BY DEF Reaped, Guests
<1>2. h.free = [g.free EXCEPT ![n] = f]
  BY DEF Reaped, Guests
<1>3. h.reaped = [g.reaped EXCEPT ![n] = r]
  BY DEF Reaped, Guests
<1>4. h.got = IF n = RX THEN Append(g.got, e) ELSE g.got
  BY DEF Reaped, Guests
<1>5. /\ h.step = g.step /\ h.avail = g.avail /\ h.used = g.used /\ h.chain = g.chain
      /\ h.irq = g.irq /\ h.posted = g.posted
  BY DEF Reaped, Guests
<1>6. Shaped(h)
  BY Zenon DEF Reaped, Guests, Shaped
<1>7. x.id \in Slots /\ x.len \in Nat
  OBVIOUS
<1>8. e \in [frame : Int, len : Nat]
  <2>1. g.chain[RX] \in [Slots -> Int]
    BY QueueFields, Zenon DEF Queues
  <2>2. g.chain[RX][x.id] \in Int
    BY <2>1, <1>7, Zenon
  <2>. QED BY <2>2, <1>7
<1>9. l \in Nat /\ f \in SUBSET Slots /\ r \in Seq(Slots)
  <2>1. g.lastUsed[n] \in Nat /\ g.free[n] \in SUBSET Slots /\ g.reaped[n] \in Seq(Slots)
    BY QueueFields, Zenon
  <2>2. g.lastUsed[n] + 1 \in Nat
    BY <2>1
  <2>3. l \in Nat
    BY <2>2, SlotOf, Zenon
  <2>4. f \in SUBSET Slots
    BY <2>1, <1>7
  <2>5. r \in Seq(Slots)
    BY <2>1, <1>7, Appended
  <2>. QED BY <2>3, <2>4, <2>5, Zenon
<1>. HIDE DEF e, l, f, r
<1>10. /\ g.lastUsed \in [Queues -> Nat] /\ g.free \in [Queues -> SUBSET Slots]
       /\ g.reaped \in [Queues -> Seq(Slots)] /\ g.got \in Seq([frame : Int, len : Nat])
  BY GuestFields, Zenon
<1>11. /\ h.lastUsed \in [Queues -> Nat] /\ h.lastUsed[n] = l
       /\ \A m \in Queues : m # n => h.lastUsed[m] = g.lastUsed[m]
  BY <1>1, <1>9, <1>10, Zenon
<1>12. /\ h.free \in [Queues -> SUBSET Slots] /\ h.free[n] = f
       /\ \A m \in Queues : m # n => h.free[m] = g.free[m]
  BY <1>2, <1>9, <1>10, Zenon
<1>13. /\ h.reaped \in [Queues -> Seq(Slots)] /\ h.reaped[n] = r
       /\ \A m \in Queues : m # n => h.reaped[m] = g.reaped[m]
  BY <1>3, <1>9, <1>10, Zenon
<1>14. h.got \in Seq([frame : Int, len : Nat])
  <2>1. Append(g.got, e) \in Seq([frame : Int, len : Nat])
    BY <1>8, <1>10, Appended
  <2>. QED BY <2>1, <1>4, <1>10, Zenon
<1>15. h \in Guests
  BY <1>5, <1>6, <1>11, <1>12, <1>13, <1>14, GuestFields, GuestOf, Zenon
<1>16. \A m \in Queues : m # n => SameQueue(g, h, m)
  BY <1>5, <1>11, <1>12, <1>13, Zenon DEF SameQueue
<1>. QED BY <1>4, <1>5, <1>8, <1>11, <1>12, <1>13, <1>15, <1>16, Zenon DEF e, l, f, r, IsReaped

\* The interrupt line, or the step of the bring-up, and nothing else.
LEMMA IrqFields ==
  ASSUME NEW g \in Guests, NEW i \in {"none", "latched", "handling"}
  PROVE  /\ [g EXCEPT !.irq = i] \in Guests /\ [g EXCEPT !.irq = i].irq = i
         /\ [g EXCEPT !.irq = i].step = g.step /\ [g EXCEPT !.irq = i].got = g.got
         /\ [g EXCEPT !.irq = i].used = g.used /\ [g EXCEPT !.irq = i].lastUsed = g.lastUsed
         /\ [g EXCEPT !.irq = i].posted = g.posted
         /\ [g EXCEPT !.irq = i].chain = g.chain /\ [g EXCEPT !.irq = i].reaped = g.reaped
         /\ \A m \in Queues : SameQueue(g, [g EXCEPT !.irq = i], m)
<1>. DEFINE h == [g EXCEPT !.irq = i]
<1>1. /\ h.irq = i /\ h.step = g.step /\ h.avail = g.avail /\ h.used = g.used /\ h.chain = g.chain
      /\ h.free = g.free /\ h.lastUsed = g.lastUsed /\ h.posted = g.posted
      /\ h.reaped = g.reaped /\ h.got = g.got
  BY DEF Guests
<1>2. Shaped(h)
  BY Zenon DEF Guests, Shaped
<1>3. h \in Guests
  BY <1>1, <1>2, GuestFields, GuestOf, Zenon
<1>. QED BY <1>1, <1>3, Zenon DEF SameQueue

-----------------------------------------------------------------------------
(* The rings, the device's place in them, and what went through.           *)

\* The two queues.
LEMMA TwoQueues ==
  /\ RX \in Queues /\ TX \in Queues /\ RX # TX
  /\ \A n \in Queues : n = RX \/ n = TX
BY DEF Queues, RX, TX

\* A ring that nobody touched.
LEMMA SameRing ==
  ASSUME NEW g, NEW h, NEW m, SameQueue(g, h, m), NEW u, Ring(g, m, u)
  PROVE  Ring(h, m, u)
BY Zenon DEF SameQueue, Ring

\* Nor what was received.
LEMMA SameRx ==
  ASSUME NEW g, NEW h, SameQueue(g, h, RX), h.got = g.got, NEW F, NEW arr, NEW last,
         RxOK(g.got, g.chain[RX], g.used[RX], g.posted[RX], g.reaped[RX], F, arr, last)
  PROVE  RxOK(h.got, h.chain[RX], h.used[RX], h.posted[RX], h.reaped[RX], F, arr, last)
BY Zenon DEF SameQueue

\* A step that leaves rings and history alone.
LEMMA VmSame ==
  ASSUME NEW qs, NEW g, NEW out, NEW arr, NEW last, VmOK(qs, g, out, arr, last),
         NEW h \in Guests, \A m \in Queues : SameQueue(g, h, m), h.got = g.got
  PROVE  VmOK(qs, h, out, arr, last)
<1>1. PICK F \in Seq(Nat), t \in Nat : Moved(qs, g, out, arr, last, F, t)
  BY Zenon DEF VmOK
<1>2. SameQueue(g, h, RX) /\ SameQueue(g, h, TX)
  BY TwoQueues, Zenon
<1>3. Ring(h, RX, Len(F)) /\ Ring(h, TX, t)
  BY <1>1, <1>2, SameRing, Zenon DEF Moved
<1>4. h.posted[TX] = g.posted[TX]
  BY <1>2, Zenon DEF SameQueue
<1>5. RxOK(h.got, h.chain[RX], h.used[RX], h.posted[RX], h.reaped[RX], F, arr, last)
  BY <1>1, <1>2, SameRx, Zenon DEF Moved
<1>6. Moved(qs, h, out, arr, last, F, t)
  BY <1>1, <1>3, <1>4, <1>5, Zenon DEF Moved
<1>. QED BY <1>6, Zenon DEF VmOK

\* More frames arrived, or left the TAP.
LEMMA VmGrow ==
  ASSUME NEW qs, NEW g, NEW out, NEW arr, NEW last \in Nat, VmOK(qs, g, out, arr, last),
         NEW more \in Nat, last <= more, NEW arr2, \A i \in 1 .. last : arr2[i] = arr[i]
  PROVE  VmOK(qs, g, out, arr2, more)
<1>1. PICK F \in Seq(Nat), t \in Nat : Moved(qs, g, out, arr, last, F, t)
  BY Zenon DEF VmOK
<1>2. g \in Guests
  BY Zenon DEF VmOK
<1>3. Len(g.reaped[RX]) \in Nat
  <2>1. g.reaped[RX] \in Seq(Slots)
    BY <1>2, QueueFields, TwoQueues, Zenon
  <2>. QED BY <2>1
<1>4. RxOK(g.got, g.chain[RX], g.used[RX], g.posted[RX], g.reaped[RX], F, arr2, more)
  <2>1. RxOK(g.got, g.chain[RX], g.used[RX], g.posted[RX], g.reaped[RX], F, arr, last)
    BY <1>1, Zenon DEF Moved
  <2>. QED BY <2>1, <1>3, RxGrow, Zenon
<1>5. Moved(qs, g, out, arr2, more, F, t)
  BY <1>1, <1>4, Zenon DEF Moved
<1>. QED BY <1>5, Zenon DEF VmOK

\* A post.
LEMMA VmPost ==
  ASSUME NEW qs, NEW g, NEW out, NEW arr, NEW last, VmOK(qs, g, out, arr, last),
         NEW n \in Queues, NEW head \in g.free[n], NEW what \in Int,
         n = TX => what \in {Len(g.posted[TX]) + 1, Empty, Bad}
  PROVE  VmOK(qs, Posted(g, n, head, what), out, arr, last)
<1>1. PICK F \in Seq(Nat), t \in Nat : Moved(qs, g, out, arr, last, F, t)
  BY Zenon DEF VmOK
<1>. DEFINE h == Posted(g, n, head, what)
            e == [head |-> head, what |-> what]
<1>2. g \in Guests /\ out \in Frames
  BY Zenon DEF VmOK
<1>3. /\ g.avail[n] \in AvailRings /\ g.chain[n] \in [Slots -> Int] /\ g.free[n] \in SUBSET Slots
      /\ g.posted[n] \in Seq(Chains) /\ g.reaped[n] \in Seq(Slots)
  BY <1>2, QueueFields, Zenon
<1>4. e \in Chains /\ e.head = head /\ e.what = what
  BY <1>3 DEF Chains
<1>5. /\ h \in Guests /\ h.got = g.got
      /\ \A m \in Queues : m # n => SameQueue(g, h, m)
      /\ h.avail[n] = [idx |-> (g.avail[n].idx + 1) % IdxMod,
                       ring |-> [g.avail[n].ring EXCEPT ![g.avail[n].idx % QSize] = head]]
      /\ h.used[n] = g.used[n] /\ h.chain[n] = [g.chain[n] EXCEPT ![head] = what]
      /\ h.free[n] = g.free[n] \ {head} /\ h.lastUsed[n] = g.lastUsed[n]
      /\ h.posted[n] = Append(g.posted[n], e)
      /\ h.reaped[n] = g.reaped[n]
  <2>1. IsPosted(g, h, n, head, what)
    BY <1>2, PostedFields, Zenon
  <2>. QED BY <2>1, Zenon DEF IsPosted
<1>. HIDE DEF h
<1>6. \A u : Ring(g, n, u) => Ring(h, n, u)
  <2>. SUFFICES ASSUME NEW u, Ring(g, n, u) PROVE Ring(h, n, u)
    OBVIOUS
  <2>1. RingOK(g.avail[n], g.used[n], g.chain[n], g.free[n], g.lastUsed[n], g.posted[n],
               g.reaped[n], u)
    BY Zenon DEF Ring
  <2>2. RingOK([idx |-> (g.avail[n].idx + 1) % IdxMod,
                ring |-> [g.avail[n].ring EXCEPT ![g.avail[n].idx % QSize] = head]],
               g.used[n], [g.chain[n] EXCEPT ![head] = what], g.free[n] \ {head}, g.lastUsed[n],
               Append(g.posted[n], e), g.reaped[n], u)
    BY <2>1, <1>3, RingPost, Zenon
  <2>. QED BY <2>2, <1>5, Zenon DEF Ring
<1>7. Ring(h, RX, Len(F)) /\ Ring(h, TX, t)
  <2>1. Ring(g, RX, Len(F)) /\ Ring(g, TX, t)
    BY <1>1, Zenon DEF Moved
  <2>2. \A m \in Queues : \A u : Ring(g, m, u) => Ring(h, m, u)
    BY <1>5, <1>6, SameRing, Zenon
  <2>. QED BY <2>1, <2>2, TwoQueues, Zenon
<1>8. TxOK(out, h.posted[TX], t) /\ TxPosted(h.posted[TX])
  <2>1. CASE n = TX
    <3>1. t <= Len(g.posted[TX])
      BY <1>1, Zenon DEF Moved, Ring, RingOK
    <3>2. TxOK(out, g.posted[TX], t) /\ TxPosted(g.posted[TX])
      BY <1>1, Zenon DEF Moved
    <3>3. TxOK(out, Append(g.posted[TX], e), t) /\ TxPosted(Append(g.posted[TX], e))
      <4>. HIDE DEF e
      <4>. QED BY <3>1, <3>2, <1>2, <1>3, <1>4, <2>1, TxPost, Zenon
    <3>. QED BY <3>3, <1>5, <2>1, Zenon
  <2>2. CASE n # TX
    BY <2>2, <1>1, <1>5, TwoQueues, Zenon DEF Moved, SameQueue
  <2>. QED BY <2>1, <2>2, Zenon
<1>9. RxOK(h.got, h.chain[RX], h.used[RX], h.posted[RX], h.reaped[RX], F, arr, last)
  <2>1. CASE n = RX
    <3>1. RingOK(g.avail[n], g.used[n], g.chain[n], g.free[n], g.lastUsed[n], g.posted[n],
               g.reaped[n], Len(F))
      BY <2>1, <1>1, Zenon DEF Moved, Ring
    <3>2. RxOK(g.got, g.chain[n], g.used[n], g.posted[n], g.reaped[n], F, arr, last)
      BY <2>1, <1>1, Zenon DEF Moved
    <3>3. RxOK(g.got, [g.chain[n] EXCEPT ![e.head] = what], g.used[n], Append(g.posted[n], e),
               g.reaped[n], F, arr, last)
      <4>. HIDE DEF e
      <4>. QED BY <3>1, <3>2, <1>3, <1>4, RxPost, Zenon
    <3>. QED BY <3>3, <1>4, <1>5, <2>1, Zenon
  <2>2. CASE n # RX
    BY <2>2, <1>1, <1>5, TwoQueues, SameRx, Zenon DEF Moved
  <2>. QED BY <2>1, <2>2, Zenon
<1>10. Moved(qs, h, out, arr, last, F, t)
  BY <1>1, <1>7, <1>8, <1>9, Zenon DEF Moved
<1>. QED BY <1>2, <1>5, <1>10, Zenon DEF VmOK, h


\* What a completion of queue n leaves of what the driver is told.
TookBack(g, h, n) ==
  /\ h.step = g.step /\ h.irq = g.irq /\ h.used = g.used
  /\ n # RX => h.lastUsed[RX] = g.lastUsed[RX]

\* A completion is taken back.
LEMMA VmReap ==
  ASSUME NEW qs, NEW g, NEW out, NEW arr, NEW last, VmOK(qs, g, out, arr, last),
         NEW n \in Queues, g.used[n].idx # g.lastUsed[n]
  PROVE  LET h == Reaped(g, n, g.used[n].ring[g.lastUsed[n] % QSize])
         IN  VmOK(qs, h, out, arr, last) /\ TookBack(g, h, n)
<1>1. PICK F \in Seq(Nat), t \in Nat : Moved(qs, g, out, arr, last, F, t)
  BY Zenon DEF VmOK
<1>. DEFINE x == g.used[n].ring[g.lastUsed[n] % QSize]
            h == Reaped(g, n, x)
            e == [frame |-> g.chain[RX][x.id], len |-> x.len]
<1>2. g \in Guests /\ out \in Frames
  BY Zenon DEF VmOK
<1>3. /\ g.used[n] \in UsedRings /\ g.free[n] \in SUBSET Slots /\ g.lastUsed[n] \in Nat
      /\ g.posted[n] \in Seq(Chains) /\ g.reaped[n] \in Seq(Slots)
  BY <1>2, QueueFields, Zenon
<1>4. x \in [id : Slots, len : Nat] /\ x.id \in Slots
  <2>1. g.lastUsed[n] % QSize \in Slots
    BY <1>3, SlotOf, Zenon
  <2>2. x \in [id : Slots, len : Nat]
    BY <2>1, <1>3 DEF UsedRings
  <2>. QED BY <2>2, Zenon
<1>5. IsReaped(g, h, n, x)
  <2>. HIDE DEF x
  <2>. QED BY <1>2, <1>4, ReapedFields, Zenon
<1>6. \A u : Ring(g, n, u) => /\ Ring(h, n, u) /\ Len(g.reaped[n]) < u
                              /\ x = g.used[n].ring[Len(g.reaped[n]) % QSize]
                              /\ x.id = g.posted[n][Len(g.reaped[n]) + 1].head
  <2>. SUFFICES ASSUME NEW u, Ring(g, n, u)
                PROVE  /\ Ring(h, n, u) /\ Len(g.reaped[n]) < u
                       /\ x = g.used[n].ring[Len(g.reaped[n]) % QSize]
                       /\ x.id = g.posted[n][Len(g.reaped[n]) + 1].head
    BY Zenon
  <2>1. RingOK(g.avail[n], g.used[n], g.chain[n], g.free[n], g.lastUsed[n], g.posted[n],
               g.reaped[n], u)
    BY Zenon DEF Ring
  <2>2. Len(g.reaped[n]) < u
    BY <2>1, <1>3, RingReap, Zenon
  <2>4. x = g.used[n].ring[Len(g.reaped[n]) % QSize]
    <3>1. g.lastUsed[n] = Len(g.reaped[n]) % IdxMod
      BY <2>1, Zenon DEF RingOK
    <3>2. Len(g.reaped[n]) \in Nat
      BY <1>3
    <3>3. g.lastUsed[n] % QSize = Len(g.reaped[n]) % QSize
      BY <3>1, <3>2, SlotOf, Zenon
    <3>. QED BY <3>3, Zenon
  <2>5. x.id = g.posted[n][Len(g.reaped[n]) + 1].head
    <3>1. \A i \in Len(g.reaped[n]) + 1 .. u :
             g.used[n].ring[(i - 1) % QSize].id = g.posted[n][i].head
      BY <2>1, Zenon DEF RingOK
    <3>2. Len(g.reaped[n]) + 1 \in Len(g.reaped[n]) + 1 .. u
      <4>1. u \in Nat
        BY <2>1, Zenon DEF RingOK
      <4>. QED BY <4>1, <2>2, <1>3
    <3>3. (Len(g.reaped[n]) + 1) - 1 = Len(g.reaped[n])
      BY <1>3
    <3>4. g.used[n].ring[((Len(g.reaped[n]) + 1) - 1) % QSize].id
            = g.posted[n][Len(g.reaped[n]) + 1].head
      BY <3>1, <3>2, Zenon
    <3>. QED BY <3>3, <3>4, <2>4, Zenon
  <2>3. RingOK(g.avail[n], g.used[n], g.chain[n], g.free[n] \cup {x.id},
               (g.lastUsed[n] + 1) % IdxMod, g.posted[n], Append(g.reaped[n], x.id), u)
    BY <2>1, <1>3, RingReap, Zenon
  <2>. HIDE DEF x, h
  <2>. QED BY <2>2, <2>3, <2>4, <2>5, <1>5, Zenon DEF Ring, IsReaped
<1>. HIDE DEF h, x
<1>7. Ring(h, RX, Len(F)) /\ Ring(h, TX, t)
  <2>1. Ring(g, RX, Len(F)) /\ Ring(g, TX, t)
    BY <1>1, Zenon DEF Moved
  <2>2. \A m \in Queues : \A u : Ring(g, m, u) => Ring(h, m, u)
    BY <1>5, <1>6, SameRing, Zenon DEF IsReaped
  <2>. QED BY <2>1, <2>2, TwoQueues, Zenon
<1>8. RxOK(h.got, h.chain[RX], h.used[RX], h.posted[RX], h.reaped[RX], F, arr, last)
  <2>1. CASE n = RX
    <3>1. Ring(g, n, Len(F))
      BY <2>1, <1>1, Zenon DEF Moved
    <3>2. RxOK(g.got, g.chain[n], g.used[n], g.posted[n], g.reaped[n], F, arr, last)
      BY <2>1, <1>1, Zenon DEF Moved
    <3>3. e \in [frame : Int, len : Nat] /\ e = [frame |-> g.chain[n][x.id], len |-> x.len]
      BY <1>5, <2>1, Zenon DEF IsReaped
    <3>4. g.got \in Seq([frame : Int, len : Nat])
      BY <1>2, GuestFields, Zenon
    <3>5. RxOK(Append(g.got, [frame |-> g.chain[n][x.id], len |-> x.len]), g.chain[n],
               g.used[n], g.posted[n], Append(g.reaped[n], x.id), F, arr, last)
      BY <3>1, <3>2, <3>3, <3>4, <1>3, <1>4, <1>6, RxReap, Zenon
    <3>6. /\ h.got = Append(g.got, [frame |-> g.chain[n][x.id], len |-> x.len])
          /\ h.chain = g.chain /\ h.used = g.used /\ h.posted = g.posted
          /\ h.reaped[n] = Append(g.reaped[n], x.id)
      BY <1>5, <2>1, Zenon DEF IsReaped
    <3>. QED BY <3>5, <3>6, <2>1, Zenon
  <2>2. CASE n # RX
    BY <2>2, <1>1, <1>5, TwoQueues, SameRx, Zenon DEF Moved, IsReaped
  <2>. QED BY <2>1, <2>2, Zenon
<1>9. h.posted = g.posted /\ h \in Guests
  BY <1>5, Zenon DEF IsReaped
<1>10. Moved(qs, h, out, arr, last, F, t)
  BY <1>1, <1>7, <1>8, <1>9, Zenon DEF Moved
<1>11. VmOK(qs, h, out, arr, last)
  BY <1>2, <1>9, <1>10, Zenon DEF VmOK
<1>12. h.step = g.step /\ h.irq = g.irq /\ h.used = g.used
  BY <1>5, Zenon DEF IsReaped
<1>13. n # RX => h.lastUsed[RX] = g.lastUsed[RX]
  BY <1>5, TwoQueues, Zenon DEF IsReaped, SameQueue
<1>. QED BY <1>11, <1>12, <1>13, Zenon DEF h, x, TookBack

\* The registers of a queue.
IsQueue(q, s, r, a, b, c, i) ==
  q = [size |-> s, ready |-> r, desc |-> a, avail |-> b, used |-> c,
       next_avail |-> i, next_used |-> i]

\* The two of them that add_used moves.
LEMMA MovedOn ==
  ASSUME NEW s, NEW r, NEW a, NEW b, NEW c, NEW i, NEW j, NEW q,
         IsQueue(q, s, r, a, b, c, i)
  PROVE  IsQueue([q EXCEPT !.next_avail = j, !.next_used = j], s, r, a, b, c, j)
<1>. DEFINE x == [q EXCEPT !.next_avail = j, !.next_used = j]
<1>1. x \in [size : {s}, ready : {r}, desc : {a}, avail : {b}, used : {c},
             next_avail : {j}, next_used : {j}]
  BY Zenon DEF IsQueue
<1>. HIDE DEF x
<1>2. IsQueue(x, s, r, a, b, c, j)
  BY <1>1 DEF IsQueue
<1>. QED BY <1>2, Zenon DEF x

\* The registers of a queue that is ready, which add_used moves one on.
LEMMA ReadyFields ==
  ASSUME NEW n \in Queues, NEW x \in Nat
  PROVE  /\ Ready(n, x).size = QSize /\ Ready(n, x).ready = TRUE /\ AtRings(Ready(n, x), n)
         /\ Ready(n, x).next_avail = x % IdxMod /\ Ready(n, x).next_used = x % IdxMod
         /\ Returned(Ready(n, x)) = Ready(n, x + 1)
<1>. DEFINE y == x % IdxMod
            z == (x + 1) % IdxMod
<1>1. /\ Ready(n, x).size = QSize /\ Ready(n, x).ready = TRUE
      /\ Ready(n, x).next_avail = y /\ Ready(n, x).next_used = y
  BY DEF Ready
<1>2. AtRings(Ready(n, x), n)
  BY DEF Ready, AtRings
<1>3. Inc(y) = z
  BY NextIndex, Zenon
<1>4. IsQueue(Ready(n, x), QSize, TRUE, RingAddr(n, 0), RingAddr(n, 1), RingAddr(n, 2), y)
  BY Zenon DEF Ready, IsQueue
<1>5. Returned(Ready(n, x)) = [Ready(n, x) EXCEPT !.next_avail = z, !.next_used = z]
  BY <1>1, <1>3, Zenon DEF Returned
<1>. HIDE DEF y, z
<1>6. IsQueue([Ready(n, x) EXCEPT !.next_avail = z, !.next_used = z], QSize, TRUE,
              RingAddr(n, 0), RingAddr(n, 1), RingAddr(n, 2), z)
  BY <1>4, MovedOn, Zenon
<1>7. Returned(Ready(n, x)) = Ready(n, x + 1)
  BY <1>5, <1>6, Zenon DEF IsQueue, Ready, z
<1>. QED BY <1>1, <1>2, <1>7, Zenon DEF y

\* What Queue::pop finds on a ring of which u chains were given back.
Popped(p, g, n, u) ==
  \/ p = NoChain /\ u = Len(g.posted[n])
  \/ p = Bad /\ u < Len(g.posted[n]) /\ g.posted[n][u + 1].what = Bad
  \/ /\ p \in Slots /\ p \notin {NoChain, Bad} /\ u < Len(g.posted[n])
     /\ p = g.posted[n][u + 1].head /\ g.chain[n][p] = g.posted[n][u + 1].what
     /\ g.posted[n][u + 1].what # Bad

\* The next chain that was posted, if there is one.
LEMMA PopIs ==
  ASSUME guest \in Guests, NEW n \in Queues, NEW u, Ring(guest, n, u)
  PROVE  Popped(Pop(Ready(n, u), n), guest, n, u)
<1>. DEFINE head == guest.avail[n].ring[(u % IdxMod) % QSize]
            x == guest.posted[n][u + 1]
<1>1. RingOK(guest.avail[n], guest.used[n], guest.chain[n], guest.free[n], guest.lastUsed[n],
             guest.posted[n], guest.reaped[n], u)
  BY Zenon DEF Ring
<1>2. u \in Nat
  BY <1>1, Zenon DEF RingOK
<1>3. /\ guest.free[n] \in SUBSET Slots
      /\ guest.posted[n] \in Seq(Chains) /\ guest.reaped[n] \in Seq(Slots)
  BY QueueFields, Zenon
<1>4. Pop(Ready(n, u), n) = IF u % IdxMod = guest.avail[n].idx THEN NoChain
                            ELSE IF guest.chain[n][head] = Bad THEN Bad ELSE head
  BY <1>2, ReadyFields, Zenon DEF Pop, Slot
<1>5. /\ (u % IdxMod = guest.avail[n].idx) <=> (u = Len(guest.posted[n]))
      /\ u # Len(guest.posted[n]) => /\ u < Len(guest.posted[n]) /\ head = x.head
                                     /\ guest.chain[n][x.head] = x.what /\ x.head \in Slots
  <2>1. NextChain(guest.avail[n], guest.chain[n], guest.posted[n], u)
    BY <1>1, <1>3, RingNext, Zenon
  <2>. QED BY <2>1, Zenon DEF NextChain
<1>6. \A s \in Slots : s \notin {NoChain, Bad}
  BY Sizes DEF Slots, NoChain, Bad
<1>. HIDE DEF head, x
<1>7. CASE u = Len(guest.posted[n])
  BY <1>4, <1>5, <1>7, Zenon DEF Popped
<1>8. CASE u # Len(guest.posted[n])
  BY <1>4, <1>5, <1>6, <1>8, Zenon DEF Popped, x
<1>. QED BY <1>7, <1>8, Zenon

\* The queues of a device that has some, and one chain on.
Works(qs, r, t) ==
  /\ qs[1][RX + 1] = Ready(RX, r) /\ qs[1][TX + 1] = Ready(TX, t)
  /\ qs = << <<Ready(RX, r), Ready(TX, t)>> >>
  /\ [qs EXCEPT ![1][RX + 1] = Returned(Ready(RX, r))] = << <<Ready(RX, r + 1), Ready(TX, t)>> >>
  /\ [qs EXCEPT ![1][TX + 1] = Returned(Ready(TX, t))] = << <<Ready(RX, r), Ready(TX, t + 1)>> >>

\* Those of a network device are two.
LEMMA DrivenBy ==
  ASSUME NEW qs, NEW r \in Nat, NEW t \in Nat, Driven(qs, r, t), ~Undriven(qs)
  PROVE  Works(qs, r, t)
<1>1. qs = << <<Ready(RX, r), Ready(TX, t)>> >>
  BY Zenon DEF Driven
<1>2. /\ Returned(Ready(RX, r)) = Ready(RX, r + 1) /\ Returned(Ready(TX, t)) = Ready(TX, t + 1)
  BY ReadyFields, TwoQueues, Zenon
<1>3. RX + 1 = 1 /\ TX + 1 = 2
  BY DEF RX, TX
<1>. DEFINE a == Ready(RX, r)
            b == Ready(TX, t)
            c == Ready(RX, r + 1)
            d == Ready(TX, t + 1)
<1>4. qs = << <<a, b>> >> /\ Returned(a) = c /\ Returned(b) = d
  BY <1>1, <1>2, Zenon
<1>. HIDE DEF a, b, c, d
<1>5. qs[1][1] = a /\ qs[1][2] = b
  BY <1>4
<1>6. [qs EXCEPT ![1][1] = c] = << <<c, b>> >>
  BY <1>4
<1>7. [qs EXCEPT ![1][2] = d] = << <<a, d>> >>
  BY <1>4
<1>8. qs[1][RX + 1] = a /\ qs[1][TX + 1] = b
  BY <1>3, <1>5, Zenon
<1>9. [qs EXCEPT ![1][RX + 1] = Returned(a)] = << <<c, b>> >>
  BY <1>3, <1>4, <1>6, Zenon
<1>10. [qs EXCEPT ![1][TX + 1] = Returned(b)] = << <<a, d>> >>
  BY <1>3, <1>4, <1>7, Zenon
<1>. QED BY <1>1, <1>8, <1>9, <1>10, Zenon DEF a, b, c, d, Works

\* Such a device is not one without queues.
LEMMA TwoAreDriven ==
  ASSUME NEW a, NEW b
  PROVE  ~Undriven(<< <<a, b>> >>)
BY DEF Undriven

\* A chain of one of its queues goes back.
LEMMA DrivenOn ==
  ASSUME NEW qs, NEW r \in Nat, NEW t \in Nat, Driven(qs, r, t), ~Undriven(qs)
  PROVE  /\ Driven([qs EXCEPT ![1][RX + 1] = Returned(Ready(RX, r))], r + 1, t)
         /\ Driven([qs EXCEPT ![1][TX + 1] = Returned(Ready(TX, t))], r, t + 1)
         /\ ~Undriven([qs EXCEPT ![1][RX + 1] = Returned(Ready(RX, r))])
         /\ ~Undriven([qs EXCEPT ![1][TX + 1] = Returned(Ready(TX, t))])
<1>. DEFINE a == [qs EXCEPT ![1][RX + 1] = Returned(Ready(RX, r))]
            b == [qs EXCEPT ![1][TX + 1] = Returned(Ready(TX, t))]
<1>1. Works(qs, r, t)
  BY DrivenBy, Zenon
<1>2. a = << <<Ready(RX, r + 1), Ready(TX, t)>> >>
  BY <1>1, Zenon DEF Works
<1>3. b = << <<Ready(RX, r), Ready(TX, t + 1)>> >>
  BY <1>1, Zenon DEF Works
<1>. HIDE DEF a, b
<1>4. Driven(a, r + 1, t) /\ Driven(b, r, t + 1)
  BY <1>2, <1>3, Zenon DEF Driven
<1>5. ~Undriven(<< <<Ready(RX, r + 1), Ready(TX, t)>> >>)
      /\ ~Undriven(<< <<Ready(RX, r), Ready(TX, t + 1)>> >>)
  BY TwoAreDriven, Zenon
<1>6. ~Undriven(a) /\ ~Undriven(b)
  BY <1>2, <1>3, <1>5, Zenon
<1>. QED BY <1>4, <1>6, Zenon DEF a, b

\* A transmit chain is given back: a frame, sent or not, or none.
LEMMA VmTx ==
  ASSUME NEW qs, NEW g \in Guests, NEW out \in Frames, NEW arr, NEW last, NEW F \in Seq(Nat),
         NEW t \in Nat, Moved(qs, g, out, arr, last, F, t), ~Undriven(qs),
         t < Len(g.posted[TX]), NEW out2,
         \/ g.posted[TX][t + 1].what = Empty /\ out2 = out
         \/ g.posted[TX][t + 1].what = t + 1 /\ \E ok \in BOOLEAN : out2 = Append(out, <<t + 1, ok>>)
  PROVE  LET qs2 == [qs EXCEPT ![1][TX + 1] = Returned(Ready(TX, t))]
             h == Given(g, TX, t, g.posted[TX][t + 1].head, 0)
         IN  VmOK(qs2, h, out2, arr, last) /\ ~Undriven(qs2) /\ IsGiven(g, h, TX, t, g.posted[TX][t + 1].head, 0)
<1>. DEFINE qs2 == [qs EXCEPT ![1][TX + 1] = Returned(Ready(TX, t))]
            head == g.posted[TX][t + 1].head
            h == Given(g, TX, t, head, 0)
<1>1. /\ g.used[TX] \in UsedRings /\ g.free[TX] \in SUBSET Slots
      /\ g.posted[TX] \in Seq(Chains) /\ g.reaped[TX] \in Seq(Slots) /\ Len(F) \in Nat
  <2>1. Len(F) \in Nat
    OBVIOUS
  <2>. QED BY <2>1, QueueFields, TwoQueues, Zenon
<1>2. Driven(qs, Len(F), t)
  BY Zenon DEF Moved
<1>3. ~Undriven(qs2) /\ Driven(qs2, Len(F), t + 1)
  BY <1>1, <1>2, DrivenOn, Zenon
<1>4. head \in Slots
  <2>1. t + 1 \in 1 .. Len(g.posted[TX])
    BY <1>1
  <2>. QED BY <1>1, <2>1, HeadsAreSlots, Zenon
<1>5. IsGiven(g, h, TX, t, head, 0)
  <2>. HIDE DEF head
  <2>. QED BY <1>4, GivenFields, TwoQueues, 0 \in Nat, Zenon
<1>. HIDE DEF qs2, h
<1>6. Ring(h, TX, t + 1)
  <2>1. RingOK(g.avail[TX], g.used[TX], g.chain[TX], g.free[TX], g.lastUsed[TX], g.posted[TX],
               g.reaped[TX], t)
    BY Zenon DEF Moved, Ring
  <2>2. RingOK(g.avail[TX],
               [idx |-> Inc(t % IdxMod),
                ring |-> [g.used[TX].ring EXCEPT ![(t % IdxMod) % QSize] = [id |-> head, len |-> 0]]],
               g.chain[TX], g.free[TX], g.lastUsed[TX], g.posted[TX], g.reaped[TX], t + 1)
    BY <2>1, <1>1, RingReturn, Zenon
  <2>. HIDE DEF head
  <2>. QED BY <2>2, <1>5, Zenon DEF Ring, IsGiven
<1>7. SameQueue(g, h, RX) /\ h.got = g.got /\ h.posted = g.posted /\ h \in Guests
  BY <1>5, TwoQueues, Zenon DEF IsGiven
<1>8. Ring(h, RX, Len(F))
  BY <1>7, SameRing, Zenon DEF Moved
<1>9. RxOK(h.got, h.chain[RX], h.used[RX], h.posted[RX], h.reaped[RX], F, arr, last)
  BY <1>7, SameRx, Zenon DEF Moved
<1>10. TxOK(out2, g.posted[TX], t + 1) /\ out2 \in Frames
  <2>1. TxOK(out, g.posted[TX], t)
    BY Zenon DEF Moved
  <2>2. CASE g.posted[TX][t + 1].what = Empty /\ out2 = out
    BY <2>1, <2>2, <1>1, TxSkip, Zenon
  <2>3. CASE g.posted[TX][t + 1].what = t + 1 /\ \E ok \in BOOLEAN : out2 = Append(out, <<t + 1, ok>>)
    <3>1. PICK ok \in BOOLEAN : out2 = Append(out, <<t + 1, ok>>)
      BY <2>3, Zenon
    <3>2. TxOK(Append(out, <<t + 1, ok>>), g.posted[TX], t + 1) /\ Append(out, <<t + 1, ok>>) \in Frames
      BY <2>1, <2>3, <1>1, TxSend, Zenon
    <3>. QED BY <3>1, <3>2, Zenon
  <2>. QED BY <2>2, <2>3, Zenon
<1>11. TxPosted(g.posted[TX])
  BY Zenon DEF Moved
<1>12. Moved(qs2, h, out2, arr, last, F, t + 1)
  BY <1>3, <1>6, <1>7, <1>8, <1>9, <1>10, <1>11, Zenon DEF Moved
<1>13. t + 1 \in Nat
  OBVIOUS
<1>14. VmOK(qs2, h, out2, arr, last)
  BY <1>7, <1>10, <1>12, <1>13, Zenon DEF VmOK
<1>. QED BY <1>3, <1>5, <1>14, Zenon DEF qs2, h

\* A step that the driver does not take.
Apart(g, h) == h.step = g.step /\ h.irq = g.irq

\* A frame is put in the next receive buffer, which is given back.
LEMMA VmRx ==
  ASSUME NEW qs, NEW g \in Guests, NEW out \in Frames, NEW arr, NEW last \in Nat, NEW F \in Seq(Nat),
         NEW t \in Nat, Moved(qs, g, out, arr, last, F, t), ~Undriven(qs),
         Len(F) < Len(g.posted[RX]), NEW len \in Nat, len = Min(BufLen, HdrLen + arr[last + 1])
  PROVE  LET qs2 == [qs EXCEPT ![1][RX + 1] = Returned(Ready(RX, Len(F)))]
             head == g.posted[RX][Len(F) + 1].head
             h == Given(Filled(g, RX, head, last + 1), RX, Len(F), head, len)
         IN  /\ VmOK(qs2, h, out, arr, last + 1) /\ ~Undriven(qs2)
             /\ Apart(g, h)
<1>. DEFINE qs2 == [qs EXCEPT ![1][RX + 1] = Returned(Ready(RX, Len(F)))]
            head == g.posted[RX][Len(F) + 1].head
            k == Filled(g, RX, head, last + 1)
            h == Given(k, RX, Len(F), head, len)
            u == Len(F)
            d == [idx |-> Inc(u % IdxMod),
                  ring |-> [g.used[RX].ring EXCEPT ![(u % IdxMod) % QSize] = [id |-> head, len |-> len]]]
            c == [g.chain[RX] EXCEPT ![head] = last + 1]
<1>1. /\ g.used[RX] \in UsedRings /\ g.free[RX] \in SUBSET Slots /\ g.chain[RX] \in [Slots -> Int]
      /\ g.posted[RX] \in Seq(Chains) /\ g.reaped[RX] \in Seq(Slots)
  BY QueueFields, TwoQueues, Zenon
<1>2. Driven(qs, Len(F), t) /\ Len(F) \in Nat /\ last + 1 \in Nat /\ last + 1 \in Int
  <2>1. Len(F) \in Nat /\ last + 1 \in Nat /\ last + 1 \in Int
    OBVIOUS
  <2>. QED BY <2>1, Zenon DEF Moved
<1>3. ~Undriven(qs2) /\ Driven(qs2, Len(F) + 1, t)
  BY <1>2, DrivenOn, Zenon
<1>4. head \in Slots
  <2>1. Len(F) + 1 \in 1 .. Len(g.posted[RX])
    BY <1>1, <1>2
  <2>. QED BY <1>1, <2>1, HeadsAreSlots, Zenon
<1>5. IsFilled(g, k, RX, head, last + 1)
  <2>. HIDE DEF head
  <2>. QED BY <1>2, <1>4, FilledFields, TwoQueues, Zenon
<1>6. k \in Guests
  BY <1>5, Zenon DEF IsFilled
<1>7. IsGiven(k, h, RX, Len(F), head, len)
  <2>. HIDE DEF head, k
  <2>. QED BY <1>2, <1>4, <1>6, GivenFields, TwoQueues, Zenon
<1>8. RingOK(g.avail[RX], g.used[RX], g.chain[RX], g.free[RX], g.lastUsed[RX], g.posted[RX],
             g.reaped[RX], Len(F))
  BY Zenon DEF Moved, Ring
<1>9. RingOK(g.avail[RX], d, c, g.free[RX], g.lastUsed[RX], g.posted[RX], g.reaped[RX], Len(F) + 1)
  <2>1. \A y \in Slots : y # g.posted[RX][Len(F) + 1].head => c[y] = g.chain[RX][y]
    BY <1>1
  <2>. HIDE DEF c
  <2>. QED BY <2>1, <1>1, <1>8, RingReturn, Zenon
<1>10. RxOK(g.got, c, d, g.posted[RX], g.reaped[RX], Append(F, last + 1), arr, last + 1)
  <2>1. RxOK(g.got, g.chain[RX], g.used[RX], g.posted[RX], g.reaped[RX], F, arr, last)
    BY Zenon DEF Moved
  <2>. QED BY <2>1, <1>1, <1>8, RxFill, Zenon
<1>. HIDE DEF qs2, head, k, h
<1>11. /\ h \in Guests /\ h.step = g.step /\ h.irq = g.irq /\ h.got = g.got /\ SameQueue(g, h, TX)
       /\ h.avail[RX] = g.avail[RX] /\ h.free[RX] = g.free[RX] /\ h.lastUsed[RX] = g.lastUsed[RX]
       /\ h.posted[RX] = g.posted[RX] /\ h.reaped[RX] = g.reaped[RX]
       /\ h.used[RX] = d /\ h.chain[RX] = c
  <2>1. h \in Guests /\ h.step = g.step /\ h.irq = g.irq /\ h.got = g.got
    BY <1>5, <1>7, Zenon DEF IsFilled, IsGiven
  <2>2. SameQueue(g, h, TX)
    <3>1. SameQueue(g, k, TX) /\ SameQueue(k, h, TX)
      BY <1>5, <1>7, TwoQueues, Zenon DEF IsFilled, IsGiven
    <3>. QED BY <3>1, Zenon DEF SameQueue
  <2>3. /\ h.avail = g.avail /\ h.free = g.free /\ h.lastUsed = g.lastUsed
        /\ h.posted = g.posted /\ h.reaped = g.reaped /\ h.chain[RX] = c /\ k.used = g.used
    BY <1>5, <1>7, Zenon DEF IsFilled, IsGiven
  <2>4. h.used[RX] = [idx |-> Inc(u % IdxMod),
                      ring |-> [k.used[RX].ring EXCEPT ![(u % IdxMod) % QSize] = [id |-> head, len |-> len]]]
    BY <1>7, Zenon DEF IsGiven
  <2>. QED BY <2>1, <2>2, <2>3, <2>4, Zenon
<1>. HIDE DEF c, d, u
<1>12. Ring(h, RX, Len(F) + 1)
  BY <1>9, <1>11, Zenon DEF Ring
<1>13. Ring(h, TX, t)
  BY <1>11, SameRing, Zenon DEF Moved
<1>14. TxOK(out, h.posted[TX], t) /\ TxPosted(h.posted[TX])
  BY <1>11, Zenon DEF Moved, SameQueue
<1>15. RxOK(h.got, h.chain[RX], h.used[RX], h.posted[RX], h.reaped[RX], Append(F, last + 1), arr, last + 1)
  BY <1>10, <1>11, Zenon
<1>16. Append(F, last + 1) \in Seq(Nat) /\ Len(Append(F, last + 1)) = Len(F) + 1
  BY <1>2, Appended
<1>17. Moved(qs2, h, out, arr, last + 1, Append(F, last + 1), t)
  BY <1>3, <1>12, <1>13, <1>14, <1>15, <1>16, Zenon DEF Moved
<1>18. VmOK(qs2, h, out, arr, last + 1)
  BY <1>11, <1>16, <1>17, Zenon DEF VmOK
<1>. QED BY <1>3, <1>11, <1>18, Zenon DEF qs2, h, k, head, Apart

\* A driver that has done nothing but s steps of the bring-up.
Fresh(s) == [FreshDriver EXCEPT !.step = s]

\* Its rings are empty.
LEMMA FreshFields ==
  ASSUME NEW s \in Nat
  PROVE  /\ Fresh(s) \in Guests /\ Fresh(s).step = s /\ Fresh(s).got = <<>> /\ Fresh(s).irq = "none"
         /\ \A n \in Queues :
              /\ Fresh(s).avail[n] = EmptyRing /\ Fresh(s).used[n] = EmptyUsed
              /\ Fresh(s).chain[n] = [i \in Slots |-> Empty] /\ Fresh(s).free[n] = Slots
              /\ Fresh(s).lastUsed[n] = 0 /\ Fresh(s).posted[n] = <<>> /\ Fresh(s).reaped[n] = <<>>
<1>. DEFINE h == Fresh(s)
<1>1. /\ h.step = s /\ h.got = <<>> /\ h.irq = "none"
      /\ h.avail = [n \in Queues |-> EmptyRing] /\ h.used = [n \in Queues |-> EmptyUsed]
      /\ h.chain = [n \in Queues |-> [i \in Slots |-> Empty]]
      /\ h.free = [n \in Queues |-> Slots] /\ h.lastUsed = [n \in Queues |-> 0]
      /\ h.posted = [n \in Queues |-> <<>>] /\ h.reaped = [n \in Queues |-> <<>>]
  BY DEF Fresh, FreshDriver
<1>2. Shaped(h)
  BY DEF Fresh, FreshDriver, Shaped
<1>3. 0 \in Slots
  BY Sizes DEF Slots
<1>4. EmptyRing \in AvailRings
  BY <1>3 DEF EmptyRing, AvailRings
<1>5. EmptyUsed \in UsedRings
  <2>1. [id |-> 0, len |-> 0] \in [id : Slots, len : Nat]
    BY <1>3
  <2>2. [i \in Slots |-> [id |-> 0, len |-> 0]] \in [Slots -> [id : Slots, len : Nat]]
    BY <2>1, Zenon
  <2>. QED BY <2>2 DEF EmptyUsed, UsedRings
<1>6. [i \in Slots |-> Empty] \in [Slots -> Int] /\ Slots \in SUBSET Slots /\ 0 \in Nat
      /\ <<>> \in Seq(Chains) /\ <<>> \in Seq(Slots) /\ <<>> \in Seq([frame : Int, len : Nat])
  BY DEF Empty
<1>. HIDE DEF h
<1>7. h \in Guests
  <2>1. /\ h.avail \in [Queues -> AvailRings] /\ h.used \in [Queues -> UsedRings]
        /\ h.chain \in [Queues -> [Slots -> Int]] /\ h.free \in [Queues -> SUBSET Slots]
        /\ h.lastUsed \in [Queues -> Nat]
    BY <1>1, <1>4, <1>5, <1>6, Zenon
  <2>2. h.posted \in [Queues -> Seq(Chains)] /\ h.reaped \in [Queues -> Seq(Slots)]
    BY <1>1, <1>6, Zenon
  <2>3. h.step \in Nat /\ h.got \in Seq([frame : Int, len : Nat]) /\ h.irq \in {"none", "latched", "handling"}
    BY <1>1, <1>6, Zenon
  <2>. QED BY <1>2, <2>1, <2>2, <2>3, GuestOf, Zenon
<1>8. \A n \in Queues :
        /\ h.avail[n] = EmptyRing /\ h.used[n] = EmptyUsed
        /\ h.chain[n] = [i \in Slots |-> Empty] /\ h.free[n] = Slots
        /\ h.lastUsed[n] = 0 /\ h.posted[n] = <<>> /\ h.reaped[n] = <<>>
  BY <1>1, Zenon
<1>. QED BY <1>1, <1>7, <1>8, Zenon DEF h

\* An empty ring.
LEMMA FreshRing ==
  RingOK(EmptyRing, EmptyUsed, [i \in Slots |-> Empty], Slots, 0, <<>>, <<>>, 0)
<1>1. 0 % IdxMod = 0
  <2>1. 0 = IdxMod * 0 + 0 /\ 0 \in 0 .. IdxMod - 1 /\ 0 \in Int
    BY Sizes
  <2>. QED BY <2>1, Sizes, Unique
<1>2. EmptyRing.idx = 0 /\ EmptyUsed.idx = 0
  BY DEF EmptyRing, EmptyUsed
<1>3. Room(Slots, QSize)
  BY RoomForAll, Zenon
<1>4. Len(<<>>) = 0 /\ 0 + 1 .. 0 = {} /\ 1 .. 0 = {} /\ QSize - (0 - 0) = QSize /\ 0 <= 0 /\ 0 \in Nat
  BY Sizes
<1>. DEFINE a == EmptyRing
            b == EmptyUsed
            c == [i \in Slots |-> Empty]
            S == Slots
            e == <<>>
<1>5. a.idx = 0 /\ b.idx = 0 /\ Len(e) = 0 /\ Room(S, QSize)
  BY <1>2, <1>3, <1>4, Zenon
<1>. HIDE DEF a, b, c, S, e
<1>6. RingOK(a, b, c, S, 0, e, e, 0)
  BY <1>1, <1>4, <1>5, Sizes DEF RingOK
<1>. QED BY <1>6, Zenon DEF a, b, c, S, e

\* Nothing has moved yet.
LEMMA FreshVm ==
  ASSUME NEW s \in Nat, NEW qs, Driven(qs, 0, 0), NEW arr, NEW last
  PROVE  VmOK(qs, Fresh(s), <<>>, arr, last)
<1>. DEFINE h == Fresh(s)
            e == <<>>
<1>1. /\ h \in Guests /\ h.got = <<>>
      /\ \A n \in Queues :
           /\ h.avail[n] = EmptyRing /\ h.used[n] = EmptyUsed
           /\ h.chain[n] = [i \in Slots |-> Empty] /\ h.free[n] = Slots
           /\ h.lastUsed[n] = 0 /\ h.posted[n] = <<>> /\ h.reaped[n] = <<>>
  BY FreshFields, Zenon
<1>2. e \in Frames /\ e \in Seq(Nat) /\ Len(e) = 0
  BY DEF Frames
<1>. HIDE DEF h
<1>3. \A n \in Queues : Ring(h, n, 0)
  BY <1>1, FreshRing, Zenon DEF Ring
<1>4. TxOK(e, e, 0) /\ TxPosted(e)
  BY <1>2 DEF TxOK, TxPosted
<1>5. \A c, d : RxOK(e, c, d, e, e, e, arr, last)
  <2>. SUFFICES ASSUME NEW c, NEW d PROVE RxOK(e, c, d, e, e, e, arr, last)
    OBVIOUS
  <2>. HIDE DEF e
  <2>. QED BY <1>2 DEF RxOK
<1>6. Moved(qs, h, e, arr, last, e, 0)
  <2>1. Driven(qs, Len(e), 0) /\ Ring(h, RX, Len(e)) /\ Ring(h, TX, 0)
    BY <1>2, <1>3, TwoQueues, Zenon
  <2>2. TxOK(e, h.posted[TX], 0) /\ TxPosted(h.posted[TX])
    BY <1>1, <1>4, TwoQueues, Zenon
  <2>3. RxOK(h.got, h.chain[RX], h.used[RX], h.posted[RX], h.reaped[RX], e, arr, last)
    BY <1>1, <1>5, TwoQueues, Zenon
  <2>. HIDE DEF e
  <2>. QED BY <2>1, <2>2, <2>3, Zenon DEF Moved
<1>7. 0 \in Nat
  OBVIOUS
<1>8. VmOK(qs, h, e, arr, last)
  <2>. HIDE DEF e
  <2>. QED BY <1>1, <1>2, <1>6, <1>7, Zenon DEF VmOK
<1>. QED BY <1>8, Zenon DEF h

-----------------------------------------------------------------------------
(* The steps keep the invariant.                                           *)

\* What is saved stays right while no frame arrives.
LEMMA SnapshotSame ==
  ASSUME SnapshotOK, UNCHANGED <<snapshot, arrived, kind, lostIrq>>
  PROVE  SnapshotOK'
BY Zenon DEF SnapshotOK, Saved, SetupSteps

\* A network device is brought up once it has queues or raises its line.
LEMMA NetUp ==
  ASSUME IInv, kind = "net", dqueues # <<>> \/ guest.irq # "none"
  PROVE  DriverUp
<1>. SUFFICES ASSUME ~DriverUp PROVE FALSE
  BY Zenon
<1>1. BringUp
  BY Zenon DEF IInv, TransportOK
<1>2. dqueues = <<>> /\ guest = Fresh(guest.step) /\ guest.step \in Nat
  <2>1. \A n \in 0 .. 19 : n \in Nat
    OBVIOUS
  <2>. QED BY <1>1, <2>1, Zenon DEF BringUp, Fresh
<1>3. Fresh(guest.step).irq = "none"
  BY <1>2, FreshFields, Zenon
<1>4. guest.irq = "none"
  BY <1>2, <1>3, Zenon
<1>. QED BY <1>2, <1>4, Zenon

\* A step of a device that is up, which leaves the transport's queues alone.
LEMMA TransportSame ==
  ASSUME TransportOK, kind = "net" => DriverUp, guest'.step = guest.step,
         UNCHANGED <<kind, tqueues, wasReset>>,
         kind # "net" => dqueues' = <<>>, mode' # "guest" => ~Undriven(dqueues')
  PROVE  TransportOK'
<1>1. DriverUp' <=> DriverUp
  BY Zenon DEF DriverUp, SetupSteps
<1>. QED BY <1>1, Zenon DEF TransportOK

\* MmioBus::poll_devices enters process_rx.
LEMMA PollDevicesSafe ==
  ASSUME IInv, PollDevices
  PROVE  IInv'
<1>1. UNCHANGED <<kind, tqueues, dqueues, interrupt, guest, tapIn, arrived, sent, snapshot, wasReset, lostIrq>>
  BY Zenon DEF PollDevices, transport, device, tap, history
<1>2. mode = "guest" /\ mode' = "rx" /\ received' = FALSE /\ dqueues # <<>> /\ Len(dqueues[1]) > RX
  BY Zenon DEF PollDevices
<1>3. ~Undriven(dqueues)
  <2>. SUFFICES ASSUME dqueues = << <<>> >> PROVE FALSE
    BY <1>2, Zenon DEF Undriven
  <2>1. Len(dqueues[1]) = 0
    OBVIOUS
  <2>. QED BY <2>1, <1>2 DEF RX
<1>4. kind = "net" => DriverUp
  BY <1>2, NetUp, Zenon
<1>5. TransportOK'
  <2>1. guest'.step = guest.step
    BY <1>1, Zenon
  <2>. QED BY <2>1, <1>1, <1>3, <1>4, TransportSame, Zenon DEF IInv, TransportOK
<1>6. SnapshotOK'
  BY <1>1, SnapshotSame, Zenon DEF IInv
<1>7. Flags' /\ TapOK'
  BY <1>1, <1>2, Zenon DEF IInv, Flags, TapOK
<1>8. VmOK(dqueues, guest, sent, arrived, Len(arrived) - Len(tapIn))'
  BY <1>1, Zenon DEF IInv
<1>9. DeadOK(wasReset, dqueues, guest, sent)'
  BY <1>1, Zenon DEF IInv
<1>10. RxAnnounced'
  BY <1>1, <1>2, Zenon DEF IInv, RxAnnounced, Unseen
<1>. QED BY <1>5, <1>6, <1>7, <1>8, <1>9, <1>10, Zenon DEF IInv

\* The guest notifies a queue: process_tx starts, or nothing happens.
LEMMA DriverKickSafe ==
  ASSUME IInv, NEW n \in Queues, DriverKick(n)
  PROVE  IInv'
<1>1. UNCHANGED <<kind, tqueues, dqueues, interrupt, guest, received, tapIn, arrived, sent, snapshot, wasReset, lostIrq>>
  BY Zenon DEF DriverKick, transport, device, tap, history
<1>2. DriverUp /\ mode = "guest"
      /\ (mode' = "guest" \/ (mode' = "tx" /\ dqueues # <<>> /\ Len(dqueues[1]) > TX))
  BY Zenon DEF DriverKick, QueueNotify
<1>3. mode' # "guest" => ~Undriven(dqueues)
  <2>. SUFFICES ASSUME dqueues = << <<>> >>, dqueues # <<>>, Len(dqueues[1]) > TX PROVE FALSE
    BY <1>2, Zenon DEF Undriven
  <2>1. Len(dqueues[1]) = 0
    OBVIOUS
  <2>. QED BY <2>1 DEF TX
<1>4. TransportOK'
  <2>1. guest'.step = guest.step
    BY <1>1, Zenon
  <2>. QED BY <2>1, <1>1, <1>2, <1>3, TransportSame, Zenon DEF IInv, TransportOK
<1>5. SnapshotOK'
  BY <1>1, SnapshotSame, Zenon DEF IInv
<1>6. Flags' /\ TapOK'
  BY <1>1, <1>2, Zenon DEF IInv, Flags, TapOK
<1>7. VmOK(dqueues, guest, sent, arrived, Len(arrived) - Len(tapIn))'
  BY <1>1, Zenon DEF IInv
<1>8. DeadOK(wasReset, dqueues, guest, sent)'
  BY <1>1, Zenon DEF IInv
<1>9. RxAnnounced'
  BY <1>1, <1>2, Zenon DEF IInv, RxAnnounced, Unseen
<1>. QED BY <1>4, <1>5, <1>6, <1>7, <1>8, <1>9, Zenon DEF IInv

\* A step of the driver that touches the rings alone: transport, TAP, device
\* and what is saved stay, and so does what the driver is told.
LEMMA GuestStep ==
  ASSUME IInv, mode = "guest", kind = "net" => DriverUp,
         UNCHANGED <<kind, tqueues, dqueues, mode, received, tapIn, arrived, sent, snapshot,
                     wasReset, lostIrq>>,
         interrupt' \in BOOLEAN, guest'.step = guest.step,
         VmOK(dqueues, guest', sent, arrived, Len(arrived) - Len(tapIn)),
         guest'.used = guest.used, RxAnnounced'
  PROVE  IInv'
<1>1. mode' = "guest" /\ dqueues' = dqueues
  BY Zenon
<1>2. TransportOK'
  BY <1>1, TransportSame, Zenon DEF IInv, TransportOK
<1>3. SnapshotOK'
  BY SnapshotSame, Zenon DEF IInv
<1>4. Flags' /\ TapOK'
  BY Zenon DEF IInv, Flags, TapOK
<1>5. VmOK(dqueues, guest, sent, arrived, Len(arrived) - Len(tapIn))'
  BY Zenon
<1>6. DeadOK(wasReset, dqueues, guest, sent)'
  BY Zenon DEF IInv, DeadOK
<1>. QED BY <1>2, <1>3, <1>4, <1>5, <1>6, Zenon DEF IInv

\* A chain is posted on queue n.
LEMMA DriverPostSafe ==
  ASSUME IInv, NEW n \in Queues, NEW what \in Int, DriverPost(n, what),
         n = TX => what \in {Len(guest.posted[TX]) + 1, Empty, Bad}
  PROVE  IInv'
<1>1. /\ UNCHANGED <<kind, tqueues, dqueues, interrupt, mode, received, tapIn, arrived, sent,
                     snapshot, wasReset, lostIrq>>
      /\ DriverUp /\ mode = "guest"
  BY Zenon DEF DriverPost, transport, device, loop, tap, history
<1>2. PICK head \in guest.free[n] : guest' = Posted(guest, n, head, what)
  BY Zenon DEF DriverPost, Posted
<1>. DEFINE last == Len(arrived) - Len(tapIn)
<1>3. guest \in Guests /\ VmOK(dqueues, guest, sent, arrived, last) /\ RxAnnounced /\ interrupt \in BOOLEAN
  BY Zenon DEF IInv, VmOK, Flags
<1>. HIDE DEF last
<1>4. VmOK(dqueues, guest', sent, arrived, last)
  <2>1. VmOK(dqueues, Posted(guest, n, head, what), sent, arrived, last)
    BY <1>3, VmPost, Zenon
  <2>. QED BY <2>1, <1>2, Zenon
<1>5. IsPosted(guest, guest', n, head, what)
  <2>1. IsPosted(guest, Posted(guest, n, head, what), n, head, what)
    BY <1>3, PostedFields, Zenon
  <2>. QED BY <2>1, <1>2, Zenon
<1>6. guest'.step = guest.step /\ guest'.used = guest.used /\ guest'.irq = guest.irq
      /\ guest'.lastUsed[RX] = guest.lastUsed[RX]
  BY <1>5, TwoQueues, Zenon DEF IsPosted, SameQueue
<1>7. RxAnnounced'
  BY <1>1, <1>3, <1>6, Zenon DEF RxAnnounced, Unseen
<1>. QED BY <1>1, <1>3, <1>4, <1>6, <1>7, GuestStep, Zenon DEF last

\* Whatever the driver posts.
LEMMA DriverPostAnySafe ==
  ASSUME IInv, DriverPostAny
  PROVE  IInv'
<1>1. guest \in Guests
  BY Zenon DEF IInv, VmOK
<1>2. Len(guest.posted[TX]) + 1 \in Int /\ Empty \in Int /\ Bad \in Int /\ Buffer \in Int
  <2>1. guest.posted[TX] \in Seq(Chains)
    BY <1>1, QueueFields, TwoQueues, Zenon
  <2>. QED BY <2>1 DEF Empty, Bad, Buffer
<1>3. CASE DriverPost(TX, Len(guest.posted[TX]) + 1)
  BY <1>2, <1>3, TwoQueues, DriverPostSafe, Zenon
<1>4. CASE DriverPost(RX, Buffer)
  BY <1>2, <1>4, TwoQueues, DriverPostSafe, Zenon
<1>5. CASE \E what \in {Empty, Bad} : DriverPost(TX, what)
  BY <1>2, <1>5, TwoQueues, DriverPostSafe, Zenon
<1>6. CASE DriverPost(RX, Bad)
  BY <1>2, <1>6, TwoQueues, DriverPostSafe, Zenon
<1>. QED BY <1>3, <1>4, <1>5, <1>6, Zenon DEF DriverPostAny

\* A completion is taken back.
LEMMA DriverReapSafe ==
  ASSUME IInv, NEW n \in Queues, DriverReap(n)
  PROVE  IInv'
<1>1. /\ UNCHANGED <<kind, tqueues, dqueues, interrupt, mode, received, tapIn, arrived, sent,
                     snapshot, wasReset, lostIrq>>
      /\ DriverUp /\ mode = "guest" /\ guest.used[n].idx # guest.lastUsed[n]
      /\ n = RX => guest.irq = "handling"
  BY Zenon DEF DriverReap, transport, device, loop, tap, history, Unseen
<1>. DEFINE last == Len(arrived) - Len(tapIn)
            x == guest.used[n].ring[guest.lastUsed[n] % QSize]
<1>2. guest' = Reaped(guest, n, x)
  BY Zenon DEF DriverReap, Reaped
<1>3. VmOK(dqueues, guest, sent, arrived, last) /\ RxAnnounced /\ interrupt \in BOOLEAN
  BY Zenon DEF IInv, Flags
<1>. HIDE DEF last
<1>4. VmOK(dqueues, Reaped(guest, n, x), sent, arrived, last) /\ TookBack(guest, Reaped(guest, n, x), n)
  BY <1>1, <1>3, VmReap, Zenon
<1>. HIDE DEF x
<1>5. /\ VmOK(dqueues, guest', sent, arrived, last)
      /\ guest'.step = guest.step /\ guest'.irq = guest.irq /\ guest'.used = guest.used
      /\ n # RX => guest'.lastUsed[RX] = guest.lastUsed[RX]
  BY <1>2, <1>4, Zenon DEF TookBack
<1>6. RxAnnounced'
  BY <1>1, <1>3, <1>5, Zenon DEF RxAnnounced, Unseen
<1>. QED BY <1>1, <1>3, <1>5, <1>6, GuestStep, Zenon DEF last

\* The driver's side of the interrupt line.
LEMMA IrqStep ==
  ASSUME IInv, mode = "guest", guest.irq # "none", NEW i \in {"none", "latched", "handling"},
         guest' = [guest EXCEPT !.irq = i],
         UNCHANGED <<kind, tqueues, dqueues, mode, received, tapIn, arrived, sent, snapshot,
                     wasReset, lostIrq>>,
         interrupt' \in BOOLEAN, ~Unseen(RX) \/ i = "handling" \/ lostIrq
  PROVE  IInv'
<1>. DEFINE last == Len(arrived) - Len(tapIn)
            h == [guest EXCEPT !.irq = i]
<1>1. guest \in Guests /\ VmOK(dqueues, guest, sent, arrived, last)
  BY Zenon DEF IInv, VmOK
<1>2. /\ h \in Guests /\ h.irq = i /\ h.step = guest.step /\ h.got = guest.got
      /\ h.used = guest.used /\ h.lastUsed = guest.lastUsed
      /\ \A m \in Queues : SameQueue(guest, h, m)
  BY <1>1, IrqFields, Zenon
<1>. HIDE DEF last, h
<1>3. VmOK(dqueues, h, sent, arrived, last)
  BY <1>1, <1>2, VmSame, Zenon
<1>4. guest' = h /\ (kind = "net" => DriverUp)
  BY NetUp, Zenon DEF h
<1>5. RxAnnounced'
  BY <1>2, <1>4, Zenon DEF RxAnnounced, Unseen
<1>6. VmOK(dqueues, guest', sent, arrived, last) /\ guest'.step = guest.step /\ guest'.used = guest.used
  BY <1>2, <1>3, <1>4, Zenon
<1>. QED BY <1>4, <1>5, <1>6, GuestStep, Zenon DEF last

\* The interrupt handler starts.
LEMMA DriverTakesIrqSafe ==
  ASSUME IInv, DriverTakesIrq
  PROVE  IInv'
<1>. DEFINE i == IF interrupt THEN "handling" ELSE "none"
<1>1. /\ UNCHANGED <<kind, tqueues, dqueues, mode, received, tapIn, arrived, sent, snapshot,
                     wasReset, lostIrq>>
      /\ mode = "guest" /\ guest.irq = "latched" /\ interrupt' = FALSE
      /\ guest' = [guest EXCEPT !.irq = i]
  BY Zenon DEF DriverTakesIrq, InterruptAck, device, loop, tap, history
<1>2. guest.irq # "none" /\ mode # "rx" /\ guest.irq # "handling"
  BY <1>1
<1>3. ~Unseen(RX) \/ i = "handling" \/ lostIrq
  BY <1>1, <1>2, Zenon DEF IInv, RxAnnounced
<1>4. i \in {"none", "latched", "handling"} /\ interrupt' \in BOOLEAN
  BY <1>1, Zenon
<1>. HIDE DEF i
<1>. QED BY <1>1, <1>2, <1>3, <1>4, IrqStep, Zenon

\* It ends once the driver has looked at everything.
LEMMA DriverLeavesIrqSafe ==
  ASSUME IInv, DriverLeavesIrq
  PROVE  IInv'
<1>1. /\ UNCHANGED <<kind, tqueues, dqueues, mode, received, tapIn, arrived, sent, snapshot,
                     wasReset, lostIrq>>
      /\ mode = "guest" /\ guest.irq = "handling" /\ interrupt' = interrupt
      /\ guest' = [guest EXCEPT !.irq = "none"] /\ ~Unseen(RX)
  BY Zenon DEF DriverLeavesIrq, transport, device, loop, tap, history
<1>2. guest.irq # "none"
  BY <1>1
<1>3. interrupt' \in BOOLEAN
  BY <1>1, Zenon DEF IInv, Flags
<1>. QED BY <1>1, <1>2, <1>3, IrqStep, Zenon

\* The frames that have left the TAP.
LEMMA TapBound ==
  ASSUME TapOK
  PROVE  /\ arrived \in Seq(Nat) /\ tapIn \in Seq(Nat)
         /\ Len(arrived) \in Nat /\ Len(arrived) - Len(tapIn) \in Nat
         /\ Len(arrived) - Len(tapIn) <= Len(arrived)
BY DEF TapOK

\* A frame reaches the TAP: the last one, and the earlier ones stay.
LEMMA TapGrows ==
  ASSUME TapOK, NEW len \in Nat, arrived' = Append(arrived, len), tapIn' = Append(tapIn, Len(arrived'))
  PROVE  /\ TapOK' /\ Len(arrived') - Len(tapIn') = Len(arrived) - Len(tapIn)
         /\ Len(arrived') \in Nat /\ Len(arrived) <= Len(arrived')
         /\ \A i \in 1 .. Len(arrived) : arrived'[i] = arrived[i]
<1>1. arrived \in Seq(Nat) /\ tapIn \in Seq(Nat)
  BY Zenon DEF TapOK
<1>2. /\ arrived' \in Seq(Nat) /\ Len(arrived) \in Nat /\ Len(arrived') = Len(arrived) + 1
      /\ \A i \in 1 .. Len(arrived) : arrived'[i] = arrived[i]
  BY <1>1, Appended
<1>3. Len(arrived') \in Nat
  BY <1>2
<1>4. /\ tapIn' \in Seq(Nat) /\ Len(tapIn) \in Nat /\ Len(tapIn') = Len(tapIn) + 1
      /\ tapIn'[Len(tapIn) + 1] = Len(arrived')
      /\ \A i \in 1 .. Len(tapIn) : tapIn'[i] = tapIn[i]
  BY <1>1, <1>3, Appended
<1>5. /\ Len(tapIn) <= Len(arrived)
      /\ \A i \in 1 .. Len(tapIn) : tapIn[i] = Len(arrived) - Len(tapIn) + i
  BY Zenon DEF TapOK
<1>6. \A i \in 1 .. Len(tapIn') : tapIn'[i] = Len(arrived') - Len(tapIn') + i
  <2>. SUFFICES ASSUME NEW i \in 1 .. Len(tapIn') PROVE tapIn'[i] = Len(arrived') - Len(tapIn') + i
    OBVIOUS
  <2>1. CASE i = Len(tapIn) + 1
    BY <1>2, <1>4, <2>1
  <2>2. CASE i \in 1 .. Len(tapIn)
    <3>1. tapIn'[i] = Len(arrived) - Len(tapIn) + i
      BY <1>4, <1>5, <2>2, Zenon
    <3>. QED BY <1>2, <1>4, <3>1
  <2>. QED BY <1>4, <2>1, <2>2
<1>7. Len(tapIn') <= Len(arrived') /\ Len(arrived') - Len(tapIn') = Len(arrived) - Len(tapIn)
      /\ Len(arrived) <= Len(arrived')
  BY <1>2, <1>4, <1>5
<1>. QED BY <1>2, <1>3, <1>4, <1>6, <1>7, Zenon DEF TapOK

\* A frame reaches the TAP.
LEMMA FrameArrivesSafe ==
  ASSUME IInv, FrameArrives
  PROVE  IInv'
<1>1. /\ UNCHANGED <<kind, tqueues, dqueues, interrupt, mode, received, guest, sent, snapshot,
                     wasReset, lostIrq>>
      /\ DriverUp
  BY Zenon DEF FrameArrives, transport, device, loop, history
<1>2. PICK len \in Nat : arrived' = Append(arrived, len)
  BY RingAssumption, Zenon DEF FrameArrives
<1>3. tapIn' = Append(tapIn, Len(arrived'))
  BY Zenon DEF FrameArrives
<1>. DEFINE last == Len(arrived) - Len(tapIn)
            more == Len(arrived')
<1>4. TapOK
  BY Zenon DEF IInv
<1>5. /\ TapOK' /\ Len(arrived') - Len(tapIn') = last
      /\ more \in Nat /\ Len(arrived) <= more
      /\ \A i \in 1 .. Len(arrived) : arrived'[i] = arrived[i]
  BY <1>2, <1>3, <1>4, TapGrows, Zenon
<1>6. last \in Nat /\ last <= Len(arrived) /\ Len(arrived) \in Nat
  BY <1>4, TapBound, Zenon
<1>7. VmOK(dqueues, guest, sent, arrived, Len(arrived) - Len(tapIn))'
  <2>1. VmOK(dqueues, guest, sent, arrived, last)
    BY Zenon DEF IInv
  <2>2. last <= last /\ \A i \in 1 .. last : arrived'[i] = arrived[i]
    <3>1. last <= last /\ \A i \in 1 .. last : i \in 1 .. Len(arrived)
      <4>. HIDE DEF last
      <4>. QED BY <1>6
    <3>. QED BY <3>1, <1>5, Zenon
  <2>. HIDE DEF last
  <2>3. VmOK(dqueues, guest, sent, arrived', last)
    BY <2>1, <2>2, <1>6, VmGrow, Zenon
  <2>. QED BY <2>3, <1>1, <1>5, Zenon
<1>8. SnapshotOK'
  <2>1. CASE snapshot = <<>>
    BY <2>1, <1>1, Zenon DEF IInv, SnapshotOK
  <2>2. CASE snapshot # <<>>
    <3>. DEFINE vm == snapshot[1]
    <3>1. /\ snapshot = <<vm>> /\ vm \in Saved
          /\ VmOK(vm.queues, vm.guest, vm.sent, arrived, Len(arrived))
          /\ DeadOK(vm.wasReset, vm.queues, vm.guest, vm.sent)
          /\ IrqOK(vm.guest, vm.interrupt)
          /\ vm.guest.step = SetupSteps + 2
      BY <2>2, Zenon DEF IInv, SnapshotOK
    <3>. HIDE DEF vm
    <3>2. VmOK(vm.queues, vm.guest, vm.sent, arrived', more)
      <4>. HIDE DEF more
      <4>. QED BY <3>1, <1>5, <1>6, VmGrow, Zenon
    <3>3. (SetupSteps + 2)' = SetupSteps + 2 /\ Saved' = Saved
      BY <1>1, Zenon DEF SetupSteps, Saved
    <3>4. snapshot' = snapshot /\ snapshot'[1] = vm
      BY <1>1, Zenon DEF vm
    <3>. QED BY <2>2, <3>1, <3>2, <3>3, <3>4, Zenon DEF SnapshotOK
  <2>. QED BY <2>1, <2>2, Zenon
<1>9. TransportOK'
  <2>1. guest'.step = guest.step
    BY <1>1, Zenon
  <2>. QED BY <2>1, <1>1, TransportSame, Zenon DEF IInv, TransportOK
<1>10. Flags' /\ RxAnnounced' /\ DeadOK(wasReset, dqueues, guest, sent)'
  BY <1>1, Zenon DEF IInv, Flags, RxAnnounced, Unseen, DeadOK
<1>. QED BY <1>5, <1>7, <1>8, <1>9, <1>10, Zenon DEF IInv

\* A step of process_tx or process_rx that leaves the queues of a device that
\* has some.
LEMMA DeviceStep ==
  ASSUME IInv, mode # "guest",
         UNCHANGED <<kind, tqueues, snapshot, arrived, wasReset, lostIrq>>,
         mode' \in {"guest", "tx", "rx"}, interrupt' \in BOOLEAN, received' \in BOOLEAN,
         guest'.step = guest.step, ~Undriven(dqueues'), TapOK',
         VmOK(dqueues, guest, sent, arrived, Len(arrived) - Len(tapIn))', RxAnnounced'
  PROVE  IInv'
<1>1. ~Undriven(dqueues)
  BY Zenon DEF IInv, TransportOK
<1>2. dqueues # <<>>
  BY <1>1, Zenon DEF Undriven
<1>3. kind = "net" /\ DriverUp
  BY <1>2, NetUp, Zenon DEF IInv, TransportOK
<1>4. ~wasReset
  BY <1>1, Zenon DEF IInv, DeadOK
<1>5. TransportOK'
  BY <1>3, TransportSame, Zenon DEF IInv
<1>6. SnapshotOK'
  BY SnapshotSame, Zenon DEF IInv
<1>7. Flags'
  BY Zenon DEF IInv, Flags
<1>8. DeadOK(wasReset, dqueues, guest, sent)'
  BY <1>4, Zenon DEF DeadOK
<1>. QED BY <1>5, <1>6, <1>7, <1>8, Zenon DEF IInv

\* One iteration of process_tx.
LEMMA ProcessTxSafe ==
  ASSUME IInv, ProcessTx
  PROVE  IInv'
<1>1. /\ UNCHANGED <<kind, tqueues, interrupt, received, tapIn, arrived, snapshot, wasReset, lostIrq>>
      /\ mode = "tx" /\ mode # "guest" /\ mode # "rx"
  BY Zenon DEF ProcessTx, transport, history
<1>. DEFINE last == Len(arrived) - Len(tapIn)
            q == dqueues[1][TX + 1]
            head == Pop(q, TX)
            frame == guest.chain[TX][head]
<1>2. /\ VmOK(dqueues, guest, sent, arrived, last) /\ TapOK /\ RxAnnounced
      /\ guest \in Guests /\ sent \in Frames /\ interrupt \in BOOLEAN /\ received \in BOOLEAN
  BY Zenon DEF IInv, VmOK, Flags
<1>3. ~Undriven(dqueues)
  BY <1>1, Zenon DEF IInv, TransportOK
<1>4. TapOK'
  BY <1>1, <1>2, Zenon DEF TapOK
<1>5. CASE mode' = "guest" /\ UNCHANGED <<dqueues, guest, sent>>
  <2>1. RxAnnounced'
    BY <1>1, <1>2, <1>5, Zenon DEF RxAnnounced, Unseen
  <2>2. VmOK(dqueues, guest, sent, arrived, Len(arrived) - Len(tapIn))'
    BY <1>1, <1>2, <1>5, Zenon
  <2>3. guest'.step = guest.step /\ ~Undriven(dqueues')
    BY <1>3, <1>5, Zenon
  <2>. QED BY <1>1, <1>2, <1>4, <1>5, <2>1, <2>2, <2>3, DeviceStep, Zenon
<1>6. CASE /\ head \notin {NoChain, Bad}
           /\ dqueues' = [dqueues EXCEPT ![1][TX + 1] = Returned(q)]
           /\ guest' = AddUsed(guest, q, TX, head, 0)
           /\ \/ frame = Empty /\ UNCHANGED sent
              \/ frame # Empty /\ \E ok \in BOOLEAN : sent' = Append(sent, <<frame, ok>>)
           /\ UNCHANGED mode
  <2>1. PICK F \in Seq(Nat), t \in Nat : Moved(dqueues, guest, sent, arrived, last, F, t)
    BY <1>2, Zenon DEF VmOK
  <2>2. Works(dqueues, Len(F), t)
    <3>1. Len(F) \in Nat
      OBVIOUS
    <3>. QED BY <2>1, <3>1, <1>3, DrivenBy, Zenon DEF Moved
  <2>3. q = Ready(TX, t)
    BY <2>2, Zenon DEF Works
  <2>4. Popped(head, guest, TX, t)
    <3>1. Popped(Pop(Ready(TX, t), TX), guest, TX, t)
      BY <1>2, <2>1, TwoQueues, PopIs, Zenon DEF Moved
    <3>. QED BY <3>1, <2>3, Zenon
  <2>5. /\ t < Len(guest.posted[TX]) /\ head = guest.posted[TX][t + 1].head
        /\ frame = guest.posted[TX][t + 1].what /\ frame # Bad
    BY <2>4, <1>6, Zenon DEF Popped
  <2>6. frame \in {t + 1, Empty, Bad}
    <3>1. t + 1 \in 1 .. Len(guest.posted[TX])
      <4>1. guest.posted[TX] \in Seq(Chains)
        BY <1>2, QueueFields, TwoQueues, Zenon
      <4>. QED BY <4>1, <2>5
    <3>. QED BY <3>1, <2>1, <2>5, Zenon DEF Moved, TxPosted
  <2>. DEFINE x == guest.posted[TX][t + 1]
              h == Given(guest, TX, t, x.head, 0)
              qs == [dqueues EXCEPT ![1][TX + 1] = Returned(Ready(TX, t))]
  <2>7. \/ x.what = Empty /\ sent' = sent
        \/ x.what = t + 1 /\ \E ok \in BOOLEAN : sent' = Append(sent, <<t + 1, ok>>)
    <3>. HIDE DEF frame, head, q
    <3>. QED BY <1>6, <2>5, <2>6, Zenon
  <2>8. VmOK(qs, h, sent', arrived, last) /\ ~Undriven(qs) /\ IsGiven(guest, h, TX, t, x.head, 0)
    <3>. HIDE DEF last, frame, head, q
    <3>. QED BY <1>2, <1>3, <2>1, <2>5, <2>7, VmTx, Zenon
  <2>9. guest' = h
    <3>. HIDE DEF head, q
    <3>1. Ready(TX, t).next_used = t % IdxMod /\ Ready(TX, t).size = QSize
      BY ReadyFields, TwoQueues, Zenon
    <3>2. AddUsed(guest, Ready(TX, t), TX, head, 0) = Given(guest, TX, t, head, 0)
      BY <3>1, Zenon DEF AddUsed, Given, Slot
    <3>. QED BY <1>6, <2>3, <2>5, <3>2, Zenon
  <2>10. dqueues' = qs
    <3>. HIDE DEF head, q
    <3>. QED BY <1>6, <2>3, Zenon
  <2>. HIDE DEF qs, h, last, frame, head, q, x
  <2>11. /\ guest'.step = guest.step /\ guest'.irq = guest.irq /\ guest'.used[RX] = guest.used[RX]
         /\ guest'.lastUsed = guest.lastUsed
    BY <2>8, <2>9, TwoQueues, Zenon DEF IsGiven, SameQueue
  <2>12. RxAnnounced'
    BY <1>1, <1>2, <1>6, <2>11, Zenon DEF RxAnnounced, Unseen
  <2>13. VmOK(dqueues, guest, sent, arrived, Len(arrived) - Len(tapIn))'
    BY <1>1, <2>8, <2>9, <2>10, Zenon DEF last
  <2>14. ~Undriven(dqueues') /\ mode' \in {"guest", "tx", "rx"}
    BY <1>1, <1>6, <2>8, <2>10, Zenon
  <2>. QED BY <1>1, <1>2, <1>4, <2>11, <2>12, <2>13, <2>14, DeviceStep, Zenon
<1>. QED BY <1>5, <1>6, Zenon DEF ProcessTx

\* What process_rx's return leaves of guest memory, and what the driver is told.
LEMMA PollReturnsIs ==
  ASSUME NEW got \in BOOLEAN, PollReturns(got), guest \in Guests, interrupt \in BOOLEAN,
         RxAnnounced, mode = "rx", received = got, lostIrq' = lostIrq
  PROVE  /\ guest' \in Guests /\ guest'.step = guest.step /\ guest'.got = guest.got
         /\ \A m \in Queues : SameQueue(guest, guest', m)
         /\ mode' = "guest" /\ interrupt' \in BOOLEAN /\ RxAnnounced'
<1>. DEFINE i == IF got THEN "latched" ELSE guest.irq
            h == [guest EXCEPT !.irq = i]
<1>1. mode' = "guest" /\ interrupt' = (interrupt \/ got) /\ guest' = h
  BY Zenon DEF PollReturns
<1>2. i \in {"none", "latched", "handling"}
  BY GuestFields, Zenon
<1>3. /\ h \in Guests /\ h.irq = i /\ h.step = guest.step /\ h.got = guest.got
      /\ h.used = guest.used /\ h.lastUsed = guest.lastUsed
      /\ \A m \in Queues : SameQueue(guest, h, m)
  <2>. HIDE DEF i
  <2>. QED BY <1>2, IrqFields, Zenon
<1>. HIDE DEF h
<1>4. interrupt' \in BOOLEAN
  BY <1>1, Zenon
<1>5. RxAnnounced'
  <2>1. CASE got
    BY <1>1, <1>3, <2>1, Zenon DEF RxAnnounced
  <2>2. CASE ~got
    BY <1>1, <1>3, <2>2, Zenon DEF RxAnnounced, Unseen
  <2>. QED BY <2>1, <2>2, Zenon
<1>. QED BY <1>1, <1>3, <1>4, <1>5, Zenon

\* process_rx reads a frame: the first of those that are left.
LEMMA TapTail ==
  ASSUME TapOK, tapIn # <<>>, tapIn' = Tail(tapIn), arrived' = arrived
  PROVE  /\ TapOK' /\ Len(arrived') - Len(tapIn') = Len(arrived) - Len(tapIn) + 1
         /\ Head(tapIn) = Len(arrived) - Len(tapIn) + 1 /\ Head(tapIn) \in 1 .. Len(arrived)
<1>1. /\ arrived \in Seq(Nat) /\ tapIn \in Seq(Nat) /\ Len(tapIn) <= Len(arrived)
      /\ \A i \in 1 .. Len(tapIn) : tapIn[i] = Len(arrived) - Len(tapIn) + i
  BY Zenon DEF TapOK
<1>2. /\ tapIn' \in Seq(Nat) /\ Len(tapIn) \in Nat \ {0} /\ Len(tapIn') = Len(tapIn) - 1
      /\ Head(tapIn) = tapIn[1] /\ \A i \in 1 .. Len(tapIn) - 1 : tapIn'[i] = tapIn[i + 1]
  BY <1>1
<1>3. Head(tapIn) = Len(arrived) - Len(tapIn) + 1
  <2>1. 1 \in 1 .. Len(tapIn)
    BY <1>2
  <2>. QED BY <1>1, <1>2, <2>1, Zenon
<1>4. Head(tapIn) \in 1 .. Len(arrived) /\ Len(tapIn') <= Len(arrived)
      /\ Len(arrived') - Len(tapIn') = Len(arrived) - Len(tapIn) + 1
  BY <1>1, <1>2, <1>3
<1>5. \A i \in 1 .. Len(tapIn') : tapIn'[i] = Len(arrived) - Len(tapIn') + i
  <2>. SUFFICES ASSUME NEW i \in 1 .. Len(tapIn') PROVE tapIn'[i] = Len(arrived) - Len(tapIn') + i
    OBVIOUS
  <2>1. i \in 1 .. Len(tapIn) - 1 /\ i + 1 \in 1 .. Len(tapIn)
    BY <1>2
  <2>2. tapIn'[i] = Len(arrived) - Len(tapIn) + (i + 1)
    BY <1>1, <1>2, <2>1, Zenon
  <2>. QED BY <1>1, <1>2, <2>2
<1>. QED BY <1>1, <1>2, <1>3, <1>4, <1>5, Zenon DEF TapOK

\* process_rx returns: the TAP is empty, or a frame found no chain.
LEMMA RxReturns ==
  ASSUME IInv, mode = "rx", PollReturns(received), TapOK',
         UNCHANGED <<kind, tqueues, dqueues, received, arrived, sent, snapshot, wasReset, lostIrq>>,
         Len(arrived) - Len(tapIn) <= Len(arrived') - Len(tapIn')
  PROVE  IInv'
<1>. DEFINE last == Len(arrived) - Len(tapIn)
            more == Len(arrived') - Len(tapIn')
<1>1. /\ VmOK(dqueues, guest, sent, arrived, last) /\ TapOK /\ RxAnnounced
      /\ guest \in Guests /\ interrupt \in BOOLEAN /\ received \in BOOLEAN
  BY Zenon DEF IInv, VmOK, Flags
<1>2. mode # "guest"
  OBVIOUS
<1>3. ~Undriven(dqueues')
  BY <1>2, Zenon DEF IInv, TransportOK
<1>4. /\ guest' \in Guests /\ guest'.step = guest.step /\ guest'.got = guest.got
      /\ \A m \in Queues : SameQueue(guest, guest', m)
      /\ mode' = "guest" /\ interrupt' \in BOOLEAN /\ RxAnnounced'
  BY <1>1, PollReturnsIs, Zenon
<1>5. last \in Nat /\ more \in Nat
  <2>1. last \in Nat
    BY <1>1, TapBound, Zenon
  <2>2. more \in Nat
    BY DEF TapOK
  <2>. QED BY <2>1, <2>2
<1>6. last <= more
  OBVIOUS
<1>. HIDE DEF last, more
<1>7. VmOK(dqueues, guest', sent, arrived, last)
  BY <1>1, <1>4, VmSame, Zenon
<1>8. VmOK(dqueues, guest', sent, arrived, more)
  BY <1>5, <1>6, <1>7, VmGrow, Zenon
<1>9. VmOK(dqueues, guest, sent, arrived, Len(arrived) - Len(tapIn))'
  BY <1>8, Zenon DEF more
<1>10. mode' \in {"guest", "tx", "rx"} /\ received' \in BOOLEAN
  BY <1>1, <1>4, Zenon
<1>. QED BY <1>2, <1>3, <1>4, <1>9, <1>10, DeviceStep, Zenon

\* One iteration of process_rx.
LEMMA ProcessRxSafe ==
  ASSUME IInv, ProcessRx
  PROVE  IInv'
<1>1. /\ UNCHANGED <<kind, tqueues, arrived, sent, snapshot, wasReset, lostIrq>>
      /\ mode = "rx"
  BY Zenon DEF ProcessRx, history
<1>. DEFINE last == Len(arrived) - Len(tapIn)
            q == dqueues[1][RX + 1]
            head == Pop(q, RX)
            frame == Head(tapIn)
<1>2. /\ VmOK(dqueues, guest, sent, arrived, last) /\ TapOK /\ RxAnnounced
      /\ guest \in Guests /\ sent \in Frames /\ interrupt \in BOOLEAN /\ received \in BOOLEAN
  BY Zenon DEF IInv, VmOK, Flags
<1>3. ~Undriven(dqueues) /\ mode # "guest"
  <2>1. mode # "guest"
    BY <1>1
  <2>. QED BY <2>1, Zenon DEF IInv, TransportOK
<1>4. CASE PollReturns(received) /\ UNCHANGED <<dqueues, tapIn, received>>
  <2>1. TapOK' /\ Len(arrived') - Len(tapIn') = last
    BY <1>1, <1>2, <1>4, Zenon DEF TapOK
  <2>2. last \in Nat
    BY <1>2, TapBound, Zenon
  <2>3. last <= Len(arrived') - Len(tapIn')
    BY <2>1, <2>2
  <2>. QED BY <1>1, <1>4, <2>1, <2>3, RxReturns, Zenon
<1>5. CASE tapIn # <<>> /\ tapIn' = Tail(tapIn) /\ PollReturns(received) /\ UNCHANGED <<dqueues, received>>
  <2>1. TapOK' /\ Len(arrived') - Len(tapIn') = last + 1
    BY <1>1, <1>2, <1>5, TapTail, Zenon
  <2>2. last \in Nat
    BY <1>2, TapBound, Zenon
  <2>3. last <= Len(arrived') - Len(tapIn')
    BY <2>1, <2>2
  <2>. QED BY <1>1, <1>5, <2>1, <2>3, RxReturns, Zenon
<1>6. CASE /\ tapIn # <<>> /\ tapIn' = Tail(tapIn)
           /\ head \notin {NoChain, Bad}
           /\ dqueues' = [dqueues EXCEPT ![1][RX + 1] = Returned(q)]
           /\ guest' = AddUsed([guest EXCEPT !.chain[RX][head] = frame],
                               q, RX, head, Min(BufLen, HdrLen + arrived[frame]))
           /\ received' = TRUE
           /\ UNCHANGED <<mode, interrupt>>
  <2>1. PICK F \in Seq(Nat), t \in Nat : Moved(dqueues, guest, sent, arrived, last, F, t)
    BY <1>2, Zenon DEF VmOK
  <2>. DEFINE r == Len(F)
              x == guest.posted[RX][r + 1]
              len == Min(BufLen, HdrLen + arrived[last + 1])
              h == Given(Filled(guest, RX, x.head, last + 1), RX, r, x.head, len)
              qs == [dqueues EXCEPT ![1][RX + 1] = Returned(Ready(RX, r))]
  <2>2. TapOK' /\ Len(arrived') - Len(tapIn') = last + 1 /\ frame = last + 1 /\ frame \in 1 .. Len(arrived)
    BY <1>1, <1>2, <1>6, TapTail, Zenon
  <2>3. last \in Nat /\ arrived \in Seq(Nat)
    BY <1>2, TapBound, Zenon
  <2>4. r \in Nat
    OBVIOUS
  <2>5. q = Ready(RX, r)
    <3>1. Works(dqueues, r, t)
      BY <2>1, <2>4, <1>3, DrivenBy, Zenon DEF Moved
    <3>. QED BY <3>1, Zenon DEF Works
  <2>6. Popped(head, guest, RX, r)
    <3>1. Popped(Pop(Ready(RX, r), RX), guest, RX, r)
      BY <1>2, <2>1, TwoQueues, PopIs, Zenon DEF Moved
    <3>. QED BY <3>1, <2>5, Zenon
  <2>7. r < Len(guest.posted[RX]) /\ head = x.head
    BY <2>6, <1>6, Zenon DEF Popped
  <2>8. len \in Nat
    <3>1. arrived[last + 1] \in Nat
      <4>1. \A i \in 1 .. Len(arrived) : arrived[i] \in Nat
        BY <2>3
      <4>. QED BY <4>1, <2>2, Zenon
    <3>2. BufLen \in Nat /\ HdrLen \in Nat
      BY RingAssumption, Zenon
    <3>. HIDE DEF last
    <3>. QED BY <3>1, <3>2 DEF Min
  <2>9. /\ VmOK(qs, h, sent, arrived, last + 1) /\ ~Undriven(qs)
        /\ Apart(guest, h)
    <3>1. len = Min(BufLen, HdrLen + arrived[last + 1])
      OBVIOUS
    <3>. HIDE DEF last, frame, head, q, len
    <3>. QED BY <3>1, <1>2, <1>3, <2>1, <2>3, <2>7, <2>8, VmRx, Zenon
  <2>. HIDE DEF len, last, head, frame, q, r, x
  <2>10. guest' = h
    <3>1. Ready(RX, r).next_used = r % IdxMod /\ Ready(RX, r).size = QSize
      BY <2>4, ReadyFields, TwoQueues, Zenon
    <3>2. Min(BufLen, HdrLen + arrived[frame]) = len
      BY <2>2, Zenon DEF len
    <3>3. AddUsed(Filled(guest, RX, head, frame), Ready(RX, r), RX, head, len)
            = Given(Filled(guest, RX, head, frame), RX, r, head, len)
      BY <3>1, Zenon DEF AddUsed, Given, Slot
    <3>4. guest' = AddUsed(Filled(guest, RX, head, frame), Ready(RX, r), RX, head, len)
      BY <1>6, <2>5, <3>2, Zenon DEF Filled
    <3>. QED BY <3>3, <3>4, <2>2, <2>7, Zenon
  <2>11. dqueues' = qs
    BY <1>6, <2>5, Zenon
  <2>. HIDE DEF qs, h
  <2>12. RxAnnounced'
    BY <1>1, <1>6, Zenon DEF RxAnnounced
  <2>13. VmOK(dqueues, guest, sent, arrived, Len(arrived) - Len(tapIn))'
    BY <1>1, <2>2, <2>9, <2>10, <2>11, Zenon
  <2>14. /\ guest'.step = guest.step /\ ~Undriven(dqueues') /\ mode' \in {"guest", "tx", "rx"}
         /\ interrupt' \in BOOLEAN /\ received' \in BOOLEAN
    BY <1>1, <1>2, <1>6, <2>9, <2>10, <2>11, Zenon DEF Apart
  <2>. QED BY <1>1, <1>3, <2>2, <2>12, <2>13, <2>14, DeviceStep, Zenon
<1>. QED BY <1>4, <1>5, <1>6, Zenon DEF ProcessRx

\* What is saved is a VM between two runs of its vCPU.
LEMMA SaveSnapshotSafe ==
  ASSUME IInv, SaveSnapshot
  PROVE  IInv'
<1>1. /\ UNCHANGED <<kind, tqueues, dqueues, interrupt, mode, received, guest, tapIn, arrived, sent,
                     wasReset, lostIrq>>
      /\ DriverUp /\ mode = "guest" /\ snapshot = <<>>
  BY Zenon DEF SaveSnapshot, transport, device, loop, tap
<1>. DEFINE last == Len(arrived) - Len(tapIn)
            vm == [queues |-> dqueues, guest |-> guest, sent |-> sent,
                   interrupt |-> interrupt, wasReset |-> wasReset]
<1>2. snapshot' = <<vm>>
  BY Zenon DEF SaveSnapshot
<1>3. /\ VmOK(dqueues, guest, sent, arrived, last) /\ TapOK /\ RxAnnounced /\ SnapshotOK
      /\ DeadOK(wasReset, dqueues, guest, sent)
      /\ guest \in Guests /\ sent \in Frames /\ interrupt \in BOOLEAN /\ wasReset \in BOOLEAN
  BY Zenon DEF IInv, VmOK, Flags
<1>4. /\ vm.queues = dqueues /\ vm.guest = guest /\ vm.sent = sent /\ vm.interrupt = interrupt
      /\ vm.wasReset = wasReset
  BY Zenon
<1>5. \A s : s = <<vm>> => s[1] = vm /\ s # <<>>
  OBVIOUS
<1>6. vm \in [queues : {dqueues}, guest : Guests, sent : Frames, interrupt : BOOLEAN,
              wasReset : BOOLEAN]
  <2>. HIDE DEF VmOK, Guests, Frames
  <2>. QED BY <1>3, Zenon
<1>. HIDE DEF vm
<1>7. snapshot'[1] = vm /\ snapshot' # <<>>
  BY <1>2, <1>5, Zenon
<1>8. vm \in Saved'
  BY <1>4, <1>6, <1>7, Zenon DEF Saved
<1>9. VmOK(vm.queues, vm.guest, vm.sent, arrived', Len(arrived'))
  <2>1. last \in Nat /\ last <= Len(arrived) /\ Len(arrived) \in Nat
    BY <1>3, TapBound, Zenon
  <2>. HIDE DEF last
  <2>2. VmOK(dqueues, guest, sent, arrived, Len(arrived))
    BY <2>1, <1>3, VmGrow, Zenon
  <2>. QED BY <2>2, <1>1, <1>4, Zenon
<1>10. IrqOK(vm.guest, vm.interrupt)
  <2>1. ~lostIrq
    BY <1>1, <1>3, Zenon DEF SnapshotOK
  <2>2. mode # "rx"
    BY <1>1
  <2>3. IrqOK(guest, interrupt)
    BY <1>3, <2>1, <2>2, Zenon DEF RxAnnounced, Unseen, IrqOK
  <2>. QED BY <2>3, <1>4, Zenon
<1>11. DeadOK(vm.wasReset, vm.queues, vm.guest, vm.sent)
  BY <1>3, <1>4, Zenon
<1>12. vm.guest.step = (SetupSteps + 2)'
  BY <1>1, <1>4, Zenon DEF DriverUp, SetupSteps
<1>13. SnapshotOK'
  BY <1>2, <1>7, <1>8, <1>9, <1>10, <1>11, <1>12, Zenon DEF SnapshotOK
<1>14. TransportOK'
  <2>1. guest'.step = guest.step /\ mode' = "guest"
    BY <1>1, Zenon
  <2>. QED BY <2>1, <1>1, TransportSame, Zenon DEF IInv, TransportOK
<1>15. Flags' /\ TapOK' /\ RxAnnounced' /\ DeadOK(wasReset, dqueues, guest, sent)'
  BY <1>1, Zenon DEF IInv, Flags, TapOK, RxAnnounced, Unseen
<1>16. VmOK(dqueues, guest, sent, arrived, Len(arrived) - Len(tapIn))'
  BY <1>1, <1>3, Zenon
<1>. QED BY <1>13, <1>14, <1>15, <1>16, Zenon DEF IInv

\* A device without queues, whatever the rings.
LEMMA VmUndriven ==
  ASSUME NEW qs, NEW g, NEW out, NEW arr, NEW last, VmOK(qs, g, out, arr, last), NEW q2, Undriven(q2)
  PROVE  VmOK(q2, g, out, arr, last)
<1>1. PICK F \in Seq(Nat), t \in Nat : Moved(qs, g, out, arr, last, F, t)
  BY Zenon DEF VmOK
<1>2. Moved(q2, g, out, arr, last, F, t)
  BY <1>1, Zenon DEF Moved, Driven
<1>. QED BY <1>2, Zenon DEF VmOK

\* The queues of the new bus: the saved ones, for a network device.
LEMMA RestoredQueuesOK ==
  ASSUME NEW qs, NEW g, NEW out, NEW arr, NEW last, VmOK(qs, g, out, arr, last), qs # <<>>
  PROVE  /\ <<RestoredQueues(qs[1])>> = qs
         /\ VmOK(Activated(RestoredQueues(qs[1])), g, out, arr, last)
         /\ Undriven(qs) => Undriven(Activated(RestoredQueues(qs[1])))
         /\ kind # "net" => Activated(RestoredQueues(qs[1])) = <<>>
<1>1. PICK F \in Seq(Nat), t \in Nat : Moved(qs, g, out, arr, last, F, t)
  BY Zenon DEF VmOK
<1>2. qs = << <<>> >> \/ qs = << <<Ready(RX, Len(F)), Ready(TX, t)>> >>
  BY <1>1, Zenon DEF Moved, Driven, Undriven
<1>3. \A a : << a >>[1] = a
  OBVIOUS
<1>4. <<RestoredQueues(qs[1])>> = qs
  BY <1>2, <1>3, Zenon DEF RestoredQueues
<1>5. Activated(RestoredQueues(qs[1])) = qs \/ (kind # "net" /\ Activated(RestoredQueues(qs[1])) = <<>>)
  BY <1>4, Zenon DEF Activated
<1>6. Undriven(<<>>)
  BY DEF Undriven
<1>7. kind # "net" => Activated(RestoredQueues(qs[1])) = <<>>
  BY Zenon DEF Activated
<1>. QED BY <1>4, <1>5, <1>6, <1>7, VmUndriven, Zenon

\* The number of queues of a network device, and how long its bring-up is.
LEMMA NetQueues ==
  ASSUME kind = "net"
  PROVE  NumQueues(kind) = 2 /\ SetupSteps = 18 /\ (DriverUp <=> guest.step = 20)
<1>1. NumQueues(kind) = 2
  BY DEF NumQueues
<1>2. SetupSteps = 18
  BY <1>1 DEF SetupSteps
<1>. QED BY <1>1, <1>2 DEF DriverUp

\* The queues of a new bus.
LEMMA NewQueues ==
  ASSUME kind = "net"
  PROVE  [i \in 1 .. NumQueues(kind) |-> NewQueue] = <<NewQueue, NewQueue>>
<1>. DEFINE q == NewQueue
<1>1. 1 .. NumQueues(kind) = 1 .. 2
  BY NetQueues, Zenon
<1>. HIDE DEF q
<1>2. [i \in 1 .. 2 |-> q] = <<q, q>>
  OBVIOUS
<1>. QED BY <1>1, <1>2, Zenon DEF q

\* restore_snapshot: a new bus, and the VM that was saved.
LEMMA RestoreSnapshotSafe ==
  ASSUME IInv, RestoreSnapshot
  PROVE  IInv'
<1>. DEFINE vm == snapshot[1]
            qs == Activated(RestoredQueues(vm.queues[1]))
<1>1. /\ UNCHANGED <<kind, mode, received, arrived, snapshot>>
      /\ mode = "guest" /\ snapshot # <<>> /\ tapIn' = <<>> /\ interrupt' = FALSE
      /\ tqueues' = [i \in 1 .. NumQueues(kind) |-> NewQueue]
      /\ guest' = vm.guest /\ sent' = vm.sent /\ wasReset' = vm.wasReset /\ lostIrq' = vm.interrupt
  BY Zenon DEF RestoreSnapshot, loop
<1>2. \/ vm.queues = <<>> /\ dqueues' = <<>>
      \/ vm.queues # <<>> /\ dqueues' = qs
  BY Zenon DEF RestoreSnapshot, ForceActivate
<1>3. /\ snapshot = <<vm>> /\ vm \in Saved
      /\ VmOK(vm.queues, vm.guest, vm.sent, arrived, Len(arrived))
      /\ DeadOK(vm.wasReset, vm.queues, vm.guest, vm.sent)
      /\ IrqOK(vm.guest, vm.interrupt)
      /\ vm.guest.step = SetupSteps + 2
  BY <1>1, Zenon DEF IInv, SnapshotOK
<1>4. vm.interrupt \in BOOLEAN /\ vm.wasReset \in BOOLEAN
  <2>1. vm \in Saved
    BY <1>3, Zenon
  <2>. HIDE DEF vm
  <2>. QED BY <2>1, Zenon DEF Saved
<1>. HIDE DEF vm
<1>5. /\ VmOK(dqueues', guest', sent', arrived, Len(arrived))
      /\ Undriven(vm.queues) => Undriven(dqueues')
      /\ kind # "net" => dqueues' = <<>>
  <2>1. CASE vm.queues = <<>> /\ dqueues' = <<>>
    BY <2>1, <1>1, <1>3, Zenon
  <2>2. CASE vm.queues # <<>> /\ dqueues' = qs
    <3>1. /\ VmOK(qs, vm.guest, vm.sent, arrived, Len(arrived))
          /\ Undriven(vm.queues) => Undriven(qs)
          /\ kind # "net" => qs = <<>>
      BY <2>2, <1>3, RestoredQueuesOK, Zenon
    <3>. HIDE DEF qs
    <3>. QED BY <2>2, <3>1, <1>1, Zenon
  <2>. QED BY <1>2, <2>1, <2>2, Zenon
<1>6. VmOK(dqueues, guest, sent, arrived, Len(arrived) - Len(tapIn))'
  <2>1. Len(arrived) - Len(tapIn') = Len(arrived)
    <3>1. arrived \in Seq(Nat)
      BY Zenon DEF IInv, TapOK
    <3>2. Len(tapIn') = 0
      BY <1>1
    <3>3. Len(arrived) \in Nat
      BY <3>1
    <3>. QED BY <3>2, <3>3
  <2>. QED BY <2>1, <1>1, <1>5, Zenon
<1>7. DeadOK(wasReset, dqueues, guest, sent)'
  BY <1>1, <1>3, <1>5, Zenon DEF DeadOK
<1>8. RxAnnounced'
  BY <1>1, <1>3, <1>4, Zenon DEF RxAnnounced, Unseen, IrqOK
<1>9. TapOK'
  <2>1. arrived \in Seq(Nat)
    BY Zenon DEF IInv, TapOK
  <2>. QED BY <2>1, <1>1 DEF TapOK
<1>10. Flags'
  <2>1. interrupt' \in BOOLEAN /\ wasReset' \in BOOLEAN /\ lostIrq' \in BOOLEAN
    BY <1>1, <1>4, Zenon
  <2>. QED BY <2>1, <1>1, Zenon DEF IInv, Flags
<1>11. SnapshotOK'
  <2>1. (SetupSteps + 2)' = SetupSteps + 2 /\ Saved' = Saved
    BY <1>1, Zenon DEF SetupSteps, Saved
  <2>. QED BY <2>1, <1>1, <1>3, Zenon DEF SnapshotOK, vm
<1>12. TransportOK'
  <2>1. DriverUp'
    BY <1>1, <1>3, Zenon DEF DriverUp, SetupSteps
  <2>2. kind = "net" => tqueues' = <<NewQueue, NewQueue>>
    BY <1>1, NewQueues, Zenon
  <2>3. mode' = "guest"
    BY <1>1, Zenon
  <2>. QED BY <2>1, <2>2, <2>3, <1>1, <1>5, Zenon DEF TransportOK
<1>. QED BY <1>6, <1>7, <1>8, <1>9, <1>10, <1>11, <1>12, Zenon DEF IInv

-----------------------------------------------------------------------------
(* The bring-up, register by register.                                     *)

\* A write to one register of a queue.
LEMMA OneRegister ==
  ASSUME NEW s, NEW r, NEW a, NEW b, NEW c, NEW i, NEW q, IsQueue(q, s, r, a, b, c, i), NEW x
  PROVE  /\ IsQueue([q EXCEPT !.size = x], x, r, a, b, c, i)
         /\ IsQueue([q EXCEPT !.ready = x], s, x, a, b, c, i)
         /\ IsQueue([q EXCEPT !.desc = x], s, r, x, b, c, i)
         /\ IsQueue([q EXCEPT !.avail = x], s, r, a, x, c, i)
         /\ IsQueue([q EXCEPT !.used = x], s, r, a, b, x, i)
<1>1. IsQueue([q EXCEPT !.size = x], x, r, a, b, c, i)
  BY DEF IsQueue
<1>2. IsQueue([q EXCEPT !.ready = x], s, x, a, b, c, i)
  BY DEF IsQueue
<1>3. IsQueue([q EXCEPT !.desc = x], s, r, x, b, c, i)
  BY DEF IsQueue
<1>4. IsQueue([q EXCEPT !.avail = x], s, r, a, x, c, i)
  BY DEF IsQueue
<1>5. IsQueue([q EXCEPT !.used = x], s, r, a, b, x, i)
  BY DEF IsQueue
<1>. QED BY <1>1, <1>2, <1>3, <1>4, <1>5, Zenon

\* An address is written in two halves.
LEMMA TwoHalves ==
  ASSUME NEW n \in Queues, NEW part \in Int
  PROVE  /\ WriteHalf(<<0, 0>>, 2, RingAddr(n, part)[2]) = <<0, 3 * n + part>>
         /\ WriteHalf(<<0, 3 * n + part>>, 1, RingAddr(n, part)[1]) = RingAddr(n, part)
BY DEF WriteHalf, RingAddr

\* A queue before its size is written, and after its last register.
LEMMA AfterEnds ==
  ASSUME NEW n, NEW w \in Int
  PROVE  /\ w <= 1 => After(n, w) = NewQueue
         /\ w >= 9 => After(n, w) = Ready(n, 0)
<1>1. CASE w <= 1
  <2>1. /\ (IF w > 1 THEN QSize ELSE 256) = 256 /\ (w > 8) = FALSE
        /\ w - 2 <= 0 /\ w - 4 <= 0 /\ w - 6 <= 0 /\ ~(w >= 9)
    BY <1>1
  <2>2. Half(w - 2, n, 0) = <<0, 0>> /\ Half(w - 4, n, 1) = <<0, 0>> /\ Half(w - 6, n, 2) = <<0, 0>>
    BY <2>1, Zenon DEF Half
  <2>. QED BY <2>1, <2>2, Zenon DEF After, NewQueue
<1>2. CASE w >= 9
  <2>1. /\ (IF w > 1 THEN QSize ELSE 256) = QSize /\ (w > 8) = TRUE
        /\ ~(w - 2 <= 0) /\ ~(w - 4 <= 0) /\ ~(w - 6 <= 0) /\ ~(w <= 1)
        /\ w - 2 # 1 /\ w - 4 # 1 /\ w - 6 # 1
    BY <1>2
  <2>2. /\ Half(w - 2, n, 0) = RingAddr(n, 0) /\ Half(w - 4, n, 1) = RingAddr(n, 1)
        /\ Half(w - 6, n, 2) = RingAddr(n, 2)
    BY <2>1, Zenon DEF Half
  <2>3. 0 % IdxMod = 0
    <3>1. 0 = IdxMod * 0 + 0 /\ 0 \in 0 .. IdxMod - 1 /\ 0 \in Int
      BY Sizes
    <3>. QED BY <3>1, Sizes, Unique
  <2>. QED BY <2>1, <2>2, <2>3, Zenon DEF After, Ready
<1>3. CASE ~(w <= 1) /\ ~(w >= 9)
  BY <1>3, Zenon
<1>. QED BY <1>1, <1>2, <1>3, Zenon

\* A queue after each write.
LEMMA AfterIs ==
  ASSUME NEW n \in Queues
  PROVE  /\ IsQueue(After(n, 1), 256, FALSE, <<0, 0>>, <<0, 0>>, <<0, 0>>, 0)
         /\ IsQueue(After(n, 2), QSize, FALSE, <<0, 0>>, <<0, 0>>, <<0, 0>>, 0)
         /\ IsQueue(After(n, 3), QSize, FALSE, <<0, 3 * n + 0>>, <<0, 0>>, <<0, 0>>, 0)
         /\ IsQueue(After(n, 4), QSize, FALSE, RingAddr(n, 0), <<0, 0>>, <<0, 0>>, 0)
         /\ IsQueue(After(n, 5), QSize, FALSE, RingAddr(n, 0), <<0, 3 * n + 1>>, <<0, 0>>, 0)
         /\ IsQueue(After(n, 6), QSize, FALSE, RingAddr(n, 0), RingAddr(n, 1), <<0, 0>>, 0)
         /\ IsQueue(After(n, 7), QSize, FALSE, RingAddr(n, 0), RingAddr(n, 1), <<0, 3 * n + 2>>, 0)
         /\ IsQueue(After(n, 8), QSize, FALSE, RingAddr(n, 0), RingAddr(n, 1), RingAddr(n, 2), 0)
         /\ IsQueue(After(n, 9), QSize, TRUE, RingAddr(n, 0), RingAddr(n, 1), RingAddr(n, 2), 0)
<1>. DEFINE z == <<0, 0>>
<1>1. \A p : /\ \A k \in {-5, -4, -3, -2, -1, 0} : Half(k, n, p) = z
             /\ Half(1, n, p) = <<0, 3 * n + p>>
             /\ \A k \in {2, 3, 4, 5, 6, 7} : Half(k, n, p) = RingAddr(n, p)
  <2>1. /\ \A k \in {-5, -4, -3, -2, -1, 0} : k <= 0
        /\ \A k \in {2, 3, 4, 5, 6, 7} : ~(k <= 0) /\ k # 1
        /\ ~(1 <= 0)
    OBVIOUS
  <2>. HIDE DEF RingAddr
  <2>. QED BY <2>1, Zenon DEF Half
<1>2. \A w : IsQueue(After(n, w), IF w > 1 THEN QSize ELSE 256, w > 8, Half(w - 2, n, 0),
                     Half(w - 4, n, 1), Half(w - 6, n, 2), 0)
  BY Zenon DEF After, IsQueue
<1>3. IsQueue(After(n, 1), 256, FALSE, z, z, z, 0)
  <2>1. ~(1 > 1) /\ (1 > 8) = FALSE /\ 1 - 2 = -1 /\ 1 - 4 = -3 /\ 1 - 6 = -5
    OBVIOUS
  <2>2. IsQueue(After(n, 1), IF 1 > 1 THEN QSize ELSE 256, 1 > 8, Half(1 - 2, n, 0),
                Half(1 - 4, n, 1), Half(1 - 6, n, 2), 0)
    BY <1>2, Zenon
  <2>. QED BY <1>1, <2>1, <2>2, Zenon
<1>4. IsQueue(After(n, 2), QSize, FALSE, z, z, z, 0)
  <2>1. (2 > 1) /\ (2 > 8) = FALSE /\ 2 - 2 = 0 /\ 2 - 4 = -2 /\ 2 - 6 = -4
    OBVIOUS
  <2>2. IsQueue(After(n, 2), IF 2 > 1 THEN QSize ELSE 256, 2 > 8, Half(2 - 2, n, 0),
                Half(2 - 4, n, 1), Half(2 - 6, n, 2), 0)
    BY <1>2, Zenon
  <2>. QED BY <1>1, <2>1, <2>2, Zenon
<1>5. IsQueue(After(n, 3), QSize, FALSE, <<0, 3 * n + 0>>, z, z, 0)
  <2>1. (3 > 1) /\ (3 > 8) = FALSE /\ 3 - 2 = 1 /\ 3 - 4 = -1 /\ 3 - 6 = -3
    OBVIOUS
  <2>2. IsQueue(After(n, 3), IF 3 > 1 THEN QSize ELSE 256, 3 > 8, Half(3 - 2, n, 0),
                Half(3 - 4, n, 1), Half(3 - 6, n, 2), 0)
    BY <1>2, Zenon
  <2>. QED BY <1>1, <2>1, <2>2, Zenon
<1>6. IsQueue(After(n, 4), QSize, FALSE, RingAddr(n, 0), z, z, 0)
  <2>1. (4 > 1) /\ (4 > 8) = FALSE /\ 4 - 2 = 2 /\ 4 - 4 = 0 /\ 4 - 6 = -2
    OBVIOUS
  <2>2. IsQueue(After(n, 4), IF 4 > 1 THEN QSize ELSE 256, 4 > 8, Half(4 - 2, n, 0),
                Half(4 - 4, n, 1), Half(4 - 6, n, 2), 0)
    BY <1>2, Zenon
  <2>. QED BY <1>1, <2>1, <2>2, Zenon
<1>7. IsQueue(After(n, 5), QSize, FALSE, RingAddr(n, 0), <<0, 3 * n + 1>>, z, 0)
  <2>1. (5 > 1) /\ (5 > 8) = FALSE /\ 5 - 2 = 3 /\ 5 - 4 = 1 /\ 5 - 6 = -1
    OBVIOUS
  <2>2. IsQueue(After(n, 5), IF 5 > 1 THEN QSize ELSE 256, 5 > 8, Half(5 - 2, n, 0),
                Half(5 - 4, n, 1), Half(5 - 6, n, 2), 0)
    BY <1>2, Zenon
  <2>. QED BY <1>1, <2>1, <2>2, Zenon
<1>8. IsQueue(After(n, 6), QSize, FALSE, RingAddr(n, 0), RingAddr(n, 1), z, 0)
  <2>1. (6 > 1) /\ (6 > 8) = FALSE /\ 6 - 2 = 4 /\ 6 - 4 = 2 /\ 6 - 6 = 0
    OBVIOUS
  <2>2. IsQueue(After(n, 6), IF 6 > 1 THEN QSize ELSE 256, 6 > 8, Half(6 - 2, n, 0),
                Half(6 - 4, n, 1), Half(6 - 6, n, 2), 0)
    BY <1>2, Zenon
  <2>. QED BY <1>1, <2>1, <2>2, Zenon
<1>9. IsQueue(After(n, 7), QSize, FALSE, RingAddr(n, 0), RingAddr(n, 1), <<0, 3 * n + 2>>, 0)
  <2>1. (7 > 1) /\ (7 > 8) = FALSE /\ 7 - 2 = 5 /\ 7 - 4 = 3 /\ 7 - 6 = 1
    OBVIOUS
  <2>2. IsQueue(After(n, 7), IF 7 > 1 THEN QSize ELSE 256, 7 > 8, Half(7 - 2, n, 0),
                Half(7 - 4, n, 1), Half(7 - 6, n, 2), 0)
    BY <1>2, Zenon
  <2>. QED BY <1>1, <2>1, <2>2, Zenon
<1>10. IsQueue(After(n, 8), QSize, FALSE, RingAddr(n, 0), RingAddr(n, 1), RingAddr(n, 2), 0)
  <2>1. (8 > 1) /\ (8 > 8) = FALSE /\ 8 - 2 = 6 /\ 8 - 4 = 4 /\ 8 - 6 = 2
    OBVIOUS
  <2>2. IsQueue(After(n, 8), IF 8 > 1 THEN QSize ELSE 256, 8 > 8, Half(8 - 2, n, 0),
                Half(8 - 4, n, 1), Half(8 - 6, n, 2), 0)
    BY <1>2, Zenon
  <2>. QED BY <1>1, <2>1, <2>2, Zenon
<1>11. IsQueue(After(n, 9), QSize, TRUE, RingAddr(n, 0), RingAddr(n, 1), RingAddr(n, 2), 0)
  <2>1. (9 > 1) /\ (9 > 8) = TRUE /\ 9 - 2 = 7 /\ 9 - 4 = 5 /\ 9 - 6 = 3
    OBVIOUS
  <2>2. IsQueue(After(n, 9), IF 9 > 1 THEN QSize ELSE 256, 9 > 8, Half(9 - 2, n, 0),
                Half(9 - 4, n, 1), Half(9 - 6, n, 2), 0)
    BY <1>2, Zenon
  <2>. QED BY <1>1, <2>1, <2>2, Zenon
<1>. QED BY <1>3, <1>4, <1>5, <1>6, <1>7, <1>8, <1>9, <1>10, <1>11, Zenon

\* A write to register r of queue n, when the earlier ones are written.
LEMMA SetupWrites ==
  ASSUME NEW n \in Queues, NEW r \in 1 .. 8, WriteSetup(n, r)
  PROVE  /\ \E q : WriteQueue(q)
         /\ Selected = After(n, r) => WriteQueue(After(n, r + 1))
<1>. DEFINE z == <<0, 0>>
            d == RingAddr(n, 0)
            a == RingAddr(n, 1)
            u == RingAddr(n, 2)
<1>0. /\ WriteHalf(z, 2, d[2]) = <<0, 3 * n + 0>> /\ WriteHalf(<<0, 3 * n + 0>>, 1, d[1]) = d
      /\ WriteHalf(z, 2, a[2]) = <<0, 3 * n + 1>> /\ WriteHalf(<<0, 3 * n + 1>>, 1, a[1]) = a
      /\ WriteHalf(z, 2, u[2]) = <<0, 3 * n + 2>> /\ WriteHalf(<<0, 3 * n + 2>>, 1, u[1]) = u
  BY TwoHalves
<1>1. CASE r = 1
  <2>1. WriteQueue([Selected EXCEPT !.size = QSize])
    BY <1>1 DEF WriteSetup
  <2>2. ASSUME Selected = After(n, 1)
        PROVE  [Selected EXCEPT !.size = QSize] = After(n, 2)
    <3>. DEFINE o == 256
    <3>1. IsQueue(Selected, o, FALSE, z, z, z, 0)
      BY <2>2, AfterIs, Zenon
    <3>. HIDE DEF o
    <3>4. IsQueue([Selected EXCEPT !.size = QSize], QSize, FALSE, z, z, z, 0)
      BY <3>1, OneRegister, Zenon
    <3>5. IsQueue(After(n, 2), QSize, FALSE, z, z, z, 0)
      BY AfterIs, Zenon
    <3>. QED BY <3>4, <3>5, Zenon DEF IsQueue
  <2>3. 1 + 1 = 2
    OBVIOUS
  <2>. QED BY <1>1, <2>1, <2>2, <2>3, Zenon
<1>2. CASE r = 2
  <2>1. WriteQueue([Selected EXCEPT !.desc = WriteHalf(@, 2, d[2])])
    BY <1>2 DEF WriteSetup
  <2>2. ASSUME Selected = After(n, 2)
        PROVE  [Selected EXCEPT !.desc = WriteHalf(@, 2, d[2])] = After(n, 3)
    <3>1. IsQueue(Selected, QSize, FALSE, z, z, z, 0)
      BY <2>2, AfterIs, Zenon
    <3>2. Selected.desc = z
      BY <3>1, Zenon DEF IsQueue
    <3>3. [Selected EXCEPT !.desc = WriteHalf(@, 2, d[2])] = [Selected EXCEPT !.desc = <<0, 3 * n + 0>>]
      BY <3>2, <1>0, Zenon
    <3>4. IsQueue([Selected EXCEPT !.desc = <<0, 3 * n + 0>>], QSize, FALSE, <<0, 3 * n + 0>>, z, z, 0)
      BY <3>1, OneRegister, Zenon
    <3>5. IsQueue(After(n, 3), QSize, FALSE, <<0, 3 * n + 0>>, z, z, 0)
      BY AfterIs, Zenon
    <3>. QED BY <3>3, <3>4, <3>5, Zenon DEF IsQueue
  <2>3. 2 + 1 = 3
    OBVIOUS
  <2>. QED BY <1>2, <2>1, <2>2, <2>3, Zenon
<1>3. CASE r = 3
  <2>1. WriteQueue([Selected EXCEPT !.desc = WriteHalf(@, 1, d[1])])
    BY <1>3 DEF WriteSetup
  <2>2. ASSUME Selected = After(n, 3)
        PROVE  [Selected EXCEPT !.desc = WriteHalf(@, 1, d[1])] = After(n, 4)
    <3>1. IsQueue(Selected, QSize, FALSE, <<0, 3 * n + 0>>, z, z, 0)
      BY <2>2, AfterIs, Zenon
    <3>2. Selected.desc = <<0, 3 * n + 0>>
      BY <3>1, Zenon DEF IsQueue
    <3>3. [Selected EXCEPT !.desc = WriteHalf(@, 1, d[1])] = [Selected EXCEPT !.desc = d]
      BY <3>2, <1>0, Zenon
    <3>4. IsQueue([Selected EXCEPT !.desc = d], QSize, FALSE, d, z, z, 0)
      BY <3>1, OneRegister, Zenon
    <3>5. IsQueue(After(n, 4), QSize, FALSE, d, z, z, 0)
      BY AfterIs, Zenon
    <3>. QED BY <3>3, <3>4, <3>5, Zenon DEF IsQueue
  <2>3. 3 + 1 = 4
    OBVIOUS
  <2>. QED BY <1>3, <2>1, <2>2, <2>3, Zenon
<1>4. CASE r = 4
  <2>1. WriteQueue([Selected EXCEPT !.avail = WriteHalf(@, 2, a[2])])
    BY <1>4 DEF WriteSetup
  <2>2. ASSUME Selected = After(n, 4)
        PROVE  [Selected EXCEPT !.avail = WriteHalf(@, 2, a[2])] = After(n, 5)
    <3>1. IsQueue(Selected, QSize, FALSE, d, z, z, 0)
      BY <2>2, AfterIs, Zenon
    <3>2. Selected.avail = z
      BY <3>1, Zenon DEF IsQueue
    <3>3. [Selected EXCEPT !.avail = WriteHalf(@, 2, a[2])] = [Selected EXCEPT !.avail = <<0, 3 * n + 1>>]
      BY <3>2, <1>0, Zenon
    <3>4. IsQueue([Selected EXCEPT !.avail = <<0, 3 * n + 1>>], QSize, FALSE, d, <<0, 3 * n + 1>>, z, 0)
      BY <3>1, OneRegister, Zenon
    <3>5. IsQueue(After(n, 5), QSize, FALSE, d, <<0, 3 * n + 1>>, z, 0)
      BY AfterIs, Zenon
    <3>. QED BY <3>3, <3>4, <3>5, Zenon DEF IsQueue
  <2>3. 4 + 1 = 5
    OBVIOUS
  <2>. QED BY <1>4, <2>1, <2>2, <2>3, Zenon
<1>5. CASE r = 5
  <2>1. WriteQueue([Selected EXCEPT !.avail = WriteHalf(@, 1, a[1])])
    BY <1>5 DEF WriteSetup
  <2>2. ASSUME Selected = After(n, 5)
        PROVE  [Selected EXCEPT !.avail = WriteHalf(@, 1, a[1])] = After(n, 6)
    <3>1. IsQueue(Selected, QSize, FALSE, d, <<0, 3 * n + 1>>, z, 0)
      BY <2>2, AfterIs, Zenon
    <3>2. Selected.avail = <<0, 3 * n + 1>>
      BY <3>1, Zenon DEF IsQueue
    <3>3. [Selected EXCEPT !.avail = WriteHalf(@, 1, a[1])] = [Selected EXCEPT !.avail = a]
      BY <3>2, <1>0, Zenon
    <3>4. IsQueue([Selected EXCEPT !.avail = a], QSize, FALSE, d, a, z, 0)
      BY <3>1, OneRegister, Zenon
    <3>5. IsQueue(After(n, 6), QSize, FALSE, d, a, z, 0)
      BY AfterIs, Zenon
    <3>. QED BY <3>3, <3>4, <3>5, Zenon DEF IsQueue
  <2>3. 5 + 1 = 6
    OBVIOUS
  <2>. QED BY <1>5, <2>1, <2>2, <2>3, Zenon
<1>6. CASE r = 6
  <2>1. WriteQueue([Selected EXCEPT !.used = WriteHalf(@, 2, u[2])])
    BY <1>6 DEF WriteSetup
  <2>2. ASSUME Selected = After(n, 6)
        PROVE  [Selected EXCEPT !.used = WriteHalf(@, 2, u[2])] = After(n, 7)
    <3>1. IsQueue(Selected, QSize, FALSE, d, a, z, 0)
      BY <2>2, AfterIs, Zenon
    <3>2. Selected.used = z
      BY <3>1, Zenon DEF IsQueue
    <3>3. [Selected EXCEPT !.used = WriteHalf(@, 2, u[2])] = [Selected EXCEPT !.used = <<0, 3 * n + 2>>]
      BY <3>2, <1>0, Zenon
    <3>4. IsQueue([Selected EXCEPT !.used = <<0, 3 * n + 2>>], QSize, FALSE, d, a, <<0, 3 * n + 2>>, 0)
      BY <3>1, OneRegister, Zenon
    <3>5. IsQueue(After(n, 7), QSize, FALSE, d, a, <<0, 3 * n + 2>>, 0)
      BY AfterIs, Zenon
    <3>. QED BY <3>3, <3>4, <3>5, Zenon DEF IsQueue
  <2>3. 6 + 1 = 7
    OBVIOUS
  <2>. QED BY <1>6, <2>1, <2>2, <2>3, Zenon
<1>7. CASE r = 7
  <2>1. WriteQueue([Selected EXCEPT !.used = WriteHalf(@, 1, u[1])])
    BY <1>7 DEF WriteSetup
  <2>2. ASSUME Selected = After(n, 7)
        PROVE  [Selected EXCEPT !.used = WriteHalf(@, 1, u[1])] = After(n, 8)
    <3>1. IsQueue(Selected, QSize, FALSE, d, a, <<0, 3 * n + 2>>, 0)
      BY <2>2, AfterIs, Zenon
    <3>2. Selected.used = <<0, 3 * n + 2>>
      BY <3>1, Zenon DEF IsQueue
    <3>3. [Selected EXCEPT !.used = WriteHalf(@, 1, u[1])] = [Selected EXCEPT !.used = u]
      BY <3>2, <1>0, Zenon
    <3>4. IsQueue([Selected EXCEPT !.used = u], QSize, FALSE, d, a, u, 0)
      BY <3>1, OneRegister, Zenon
    <3>5. IsQueue(After(n, 8), QSize, FALSE, d, a, u, 0)
      BY AfterIs, Zenon
    <3>. QED BY <3>3, <3>4, <3>5, Zenon DEF IsQueue
  <2>3. 7 + 1 = 8
    OBVIOUS
  <2>. QED BY <1>7, <2>1, <2>2, <2>3, Zenon
<1>8. CASE r = 8
  <2>1. WriteQueue([Selected EXCEPT !.ready = TRUE])
    BY <1>8 DEF WriteSetup
  <2>2. ASSUME Selected = After(n, 8)
        PROVE  [Selected EXCEPT !.ready = TRUE] = After(n, 9)
    <3>1. IsQueue(Selected, QSize, FALSE, d, a, u, 0)
      BY <2>2, AfterIs, Zenon
    <3>4. IsQueue([Selected EXCEPT !.ready = TRUE], QSize, TRUE, d, a, u, 0)
      BY <3>1, OneRegister, Zenon
    <3>5. IsQueue(After(n, 9), QSize, TRUE, d, a, u, 0)
      BY AfterIs, Zenon
    <3>. QED BY <3>4, <3>5, Zenon DEF IsQueue
  <2>3. 8 + 1 = 9
    OBVIOUS
  <2>. QED BY <1>8, <2>1, <2>2, <2>3, Zenon
<1>. QED
  <2>1. r \in {1, 2, 3, 4, 5, 6, 7, 8}
    OBVIOUS
  <2>. QED BY <2>1, <1>1, <1>2, <1>3, <1>4, <1>5, <1>6, <1>7, <1>8, Zenon

\* The queues of a network device after s steps of its bring-up; none if it was
\* reset before.
SetUp(qs, s) == qs = <<>> \/ qs = <<After(0, s - 1), After(1, s - 10)>>

\* Where nothing is written the next step changes nothing.
LEMMA AfterRest ==
  ASSUME NEW s \in 0 .. 18
  PROVE  /\ s \in {0, 1} \/ s >= 10 => After(0, s - 1) = After(0, s)
         /\ s <= 10 => After(1, s - 10) = After(1, s - 9)
<1>1. s - 1 \in Int /\ s \in Int /\ s - 10 \in Int /\ s - 9 \in Int
  OBVIOUS
<1>2. ASSUME s \in {0, 1} PROVE After(0, s - 1) = After(0, s)
  <2>1. s - 1 <= 1 /\ s <= 1
    BY <1>2
  <2>2. After(0, s - 1) = NewQueue /\ After(0, s) = NewQueue
    BY <1>1, <2>1, AfterEnds, Zenon
  <2>. QED BY <2>2, Zenon
<1>3. ASSUME s >= 10 PROVE After(0, s - 1) = After(0, s)
  <2>1. s - 1 >= 9 /\ s >= 9
    BY <1>3
  <2>2. After(0, s - 1) = Ready(0, 0) /\ After(0, s) = Ready(0, 0)
    BY <1>1, <2>1, AfterEnds, Zenon
  <2>. QED BY <2>2, Zenon
<1>4. ASSUME s <= 10 PROVE After(1, s - 10) = After(1, s - 9)
  <2>1. s - 10 <= 1 /\ s - 9 <= 1
    BY <1>4
  <2>2. After(1, s - 10) = NewQueue /\ After(1, s - 9) = NewQueue
    BY <1>1, <2>1, AfterEnds, Zenon
  <2>. QED BY <2>2, Zenon
<1>. QED BY <1>2, <1>3, <1>4, Zenon

\* A write to a register of a queue that is selected, or of none.
LEMMA WriteSelected ==
  ASSUME NEW n \in {0, 1}, queueSel = n, NEW a, NEW b, NEW q, WriteQueue(q),
         tqueues = <<>> \/ tqueues = <<a, b>>
  PROVE  /\ tqueues = <<>> => tqueues' = <<>>
         /\ tqueues = <<a, b>> => tqueues' = IF n = 0 THEN <<q, b>> ELSE <<a, q>>
         /\ UNCHANGED <<queueSel, activated, dqueues, mode, interrupt>>
<1>1. tqueues' = IF queueSel < Len(tqueues) THEN [tqueues EXCEPT ![queueSel + 1] = q] ELSE tqueues
  BY Zenon DEF WriteQueue
<1>2. UNCHANGED <<queueSel, activated, dqueues, mode, interrupt>>
  BY Zenon DEF WriteQueue, device
<1>3. ASSUME tqueues = <<>> PROVE tqueues' = <<>>
  <2>1. Len(tqueues) = 0
    BY <1>3
  <2>2. ~(queueSel < Len(tqueues))
    BY <2>1
  <2>. QED BY <2>2, <1>1, <1>3, Zenon
<1>4. ASSUME tqueues = <<a, b>> PROVE tqueues' = IF n = 0 THEN <<q, b>> ELSE <<a, q>>
  <2>1. Len(tqueues) = 2
    BY <1>4
  <2>2. tqueues' = [tqueues EXCEPT ![queueSel + 1] = q]
    BY <2>1, <1>1
  <2>3. CASE n = 0
    <3>1. queueSel + 1 = 1
      BY <2>3
    <3>2. [<<a, b>> EXCEPT ![1] = q] = <<q, b>>
      OBVIOUS
    <3>. QED BY <2>2, <2>3, <3>1, <3>2, <1>4, Zenon
  <2>4. CASE n = 1
    <3>1. queueSel + 1 = 2 /\ n # 0
      BY <2>4
    <3>2. [<<a, b>> EXCEPT ![2] = q] = <<a, q>>
      OBVIOUS
    <3>. QED BY <2>2, <3>1, <3>2, <1>4, Zenon
  <2>. QED BY <2>3, <2>4, Zenon
<1>. QED BY <1>2, <1>3, <1>4, Zenon

\* One register write of the bring-up.
LEMMA SetupStep ==
  ASSUME NEW s \in 1 .. 18, WriteSetup((s - 1) \div 9, (s - 1) % 9), SetUp(tqueues, s),
         s \in 2 .. 10 => queueSel = 0, s \in 11 .. 19 => queueSel = 1
  PROVE  /\ SetUp(tqueues', s + 1)
         /\ s + 1 \in 2 .. 10 => queueSel' = 0
         /\ s + 1 \in 11 .. 19 => queueSel' = 1
         /\ tqueues = <<>> => tqueues' = <<>>
         /\ UNCHANGED <<activated, dqueues, mode, interrupt>>
<1>. DEFINE n == (s - 1) \div 9
            r == (s - 1) % 9
<1>1. s \in 0 .. 18 /\ (s + 1) - 1 = s /\ (s + 1) - 10 = s - 9
  OBVIOUS
<1>2. 0 \in Queues /\ 1 \in Queues
  BY DEF Queues, RX, TX
<1>3. CASE s \in {1, 10}
  <2>1. r = 0 /\ n = (IF s = 1 THEN 0 ELSE 1)
    BY <1>3
  <2>2. WriteQueueSel(n)
    <3>1. WriteSetup(n, 0)
      BY <2>1, Zenon
    <3>. HIDE DEF n
    <3>. QED BY <3>1 DEF WriteSetup
  <2>3. /\ UNCHANGED <<tqueues, activated, dqueues, mode, interrupt>>
        /\ queueSel' = IF s = 1 THEN 0 ELSE 1
    BY <2>1, <2>2, Zenon DEF WriteQueueSel, device
  <2>4. s = 1 \/ s >= 10
    BY <1>3
  <2>5. After(0, s - 1) = After(0, s) /\ After(1, s - 10) = After(1, s - 9)
    BY <1>1, <1>3, <2>4, AfterRest
  <2>6. SetUp(tqueues', s + 1)
    BY <1>1, <2>3, <2>5, Zenon DEF SetUp
  <2>7. /\ s + 1 \in 2 .. 10 => queueSel' = 0
        /\ s + 1 \in 11 .. 19 => queueSel' = 1
    BY <1>3, <2>3
  <2>. QED BY <2>3, <2>6, <2>7, Zenon
<1>4. CASE s \in 2 .. 9
  <2>1. n = 0 /\ r = s - 1 /\ r \in 1 .. 8 /\ s - 1 \in 1 .. 8 /\ r + 1 = s /\ queueSel = 0
        /\ (s - 1) + 1 = s /\ s \in 2 .. 10
    BY <1>4
  <2>2. WriteSetup(0, s - 1)
    BY <2>1, Zenon
  <2>3. /\ \E q : WriteQueue(q)
        /\ Selected = After(0, s - 1) => WriteQueue(After(0, s))
    BY <1>2, <2>1, <2>2, SetupWrites, Zenon
  <2>4. After(1, s - 10) = After(1, s - 9)
    BY <1>1, <1>4, AfterRest
  <2>. DEFINE a == After(0, s - 1)
              b == After(1, s - 10)
              c == After(0, s)
  <2>5. tqueues = <<>> \/ tqueues = <<a, b>>
    BY Zenon DEF SetUp
  <2>. HIDE DEF a, b, c
  <2>6. /\ tqueues = <<>> => tqueues' = <<>>
        /\ UNCHANGED <<queueSel, activated, dqueues, mode, interrupt>>
    BY <2>1, <2>3, <2>5, WriteSelected, Zenon
  <2>7. ASSUME tqueues = <<a, b>> PROVE tqueues' = <<c, b>>
    <3>1. Selected = a
      BY <2>1, <2>7 DEF Selected
    <3>2. WriteQueue(c)
      BY <2>3, <3>1, Zenon DEF a, c
    <3>. QED BY <2>1, <2>5, <2>7, <3>2, WriteSelected
  <2>8. SetUp(tqueues', s + 1)
    BY <1>1, <2>4, <2>5, <2>6, <2>7, Zenon DEF SetUp, a, b, c
  <2>9. /\ s + 1 \in 2 .. 10 => queueSel' = 0
        /\ s + 1 \in 11 .. 19 => queueSel' = 1
    BY <1>4, <2>1, <2>6
  <2>. QED BY <2>6, <2>8, <2>9, Zenon
<1>5. CASE s \in 11 .. 18
  <2>1. n = 1 /\ r = s - 10 /\ r \in 1 .. 8 /\ s - 10 \in 1 .. 8 /\ queueSel = 1
        /\ (s - 10) + 1 = s - 9 /\ s \in 11 .. 19
    BY <1>5
  <2>2. WriteSetup(1, s - 10)
    BY <2>1, Zenon
  <2>3. /\ \E q : WriteQueue(q)
        /\ Selected = After(1, s - 10) => WriteQueue(After(1, s - 9))
    BY <1>2, <2>1, <2>2, SetupWrites, Zenon
  <2>4. After(0, s - 1) = After(0, s)
    BY <1>1, <1>5, AfterRest
  <2>. DEFINE a == After(0, s - 1)
              b == After(1, s - 10)
              c == After(1, s - 9)
  <2>5. tqueues = <<>> \/ tqueues = <<a, b>>
    BY Zenon DEF SetUp
  <2>. HIDE DEF a, b, c
  <2>6. /\ tqueues = <<>> => tqueues' = <<>>
        /\ UNCHANGED <<queueSel, activated, dqueues, mode, interrupt>>
    BY <2>1, <2>3, <2>5, WriteSelected, Zenon
  <2>7. ASSUME tqueues = <<a, b>> PROVE tqueues' = <<a, c>>
    <3>1. Selected = b
      BY <2>1, <2>7 DEF Selected
    <3>2. WriteQueue(c)
      BY <2>3, <3>1, Zenon DEF b, c
    <3>. QED BY <2>1, <2>5, <2>7, <3>2, WriteSelected
  <2>8. SetUp(tqueues', s + 1)
    BY <1>1, <2>4, <2>5, <2>6, <2>7, Zenon DEF SetUp, a, b, c
  <2>9. /\ s + 1 \in 2 .. 10 => queueSel' = 0
        /\ s + 1 \in 11 .. 19 => queueSel' = 1
    BY <1>5, <2>1, <2>6
  <2>. QED BY <2>6, <2>8, <2>9, Zenon
<1>6. s \in {1, 10} \/ s \in 2 .. 9 \/ s \in 11 .. 18
  OBVIOUS
<1>. QED BY <1>3, <1>4, <1>5, <1>6, Zenon

\* The step of the bring-up, and nothing else.
LEMMA StepFields ==
  ASSUME NEW g \in Guests, NEW s \in Nat
  PROVE  /\ [g EXCEPT !.step = s] \in Guests /\ [g EXCEPT !.step = s].got = g.got
         /\ [g EXCEPT !.step = s].irq = g.irq
         /\ \A m \in Queues : SameQueue(g, [g EXCEPT !.step = s], m)
<1>. DEFINE h == [g EXCEPT !.step = s]
<1>1. /\ h.irq = g.irq /\ h.step = s /\ h.avail = g.avail /\ h.used = g.used /\ h.chain = g.chain
      /\ h.free = g.free /\ h.lastUsed = g.lastUsed /\ h.posted = g.posted
      /\ h.reaped = g.reaped /\ h.got = g.got
  BY DEF Guests
<1>2. Shaped(h)
  BY Zenon DEF Guests, Shaped
<1>3. h \in Guests
  BY <1>1, <1>2, GuestFields, GuestOf, Zenon
<1>. QED BY <1>1, <1>3, Zenon DEF SameQueue

\* A write to STATUS.
LEMMA StatusWrites ==
  ASSUME NEW bits, WriteStatus(bits)
  PROVE  /\ UNCHANGED <<queueSel, interrupt, tapFd, mode>>
         /\ bits = {} => dqueues' = <<>> /\ activated' = FALSE /\ tqueues' = tqueues
         /\ bits = {"DRIVER"} => UNCHANGED <<dqueues, activated, tqueues>>
         /\ bits = {"DRIVER", "DRIVER_OK"} /\ ~activated =>
               dqueues' = Activated(tqueues) /\ tqueues' = <<>>
         /\ dqueues' \in {<<>>, dqueues, Activated(tqueues)} /\ tqueues' \in {tqueues, <<>>}
<1>1. /\ {"DRIVER"} # {} /\ "DRIVER_OK" \notin {"DRIVER"} /\ "DRIVER_OK" \notin {}
      /\ {"DRIVER", "DRIVER_OK"} # {} /\ "DRIVER_OK" \in {"DRIVER", "DRIVER_OK"}
  OBVIOUS
<1>. QED BY <1>1, Zenon DEF WriteStatus

\* A write to a register of a transport without queues finds none.
LEMMA SetupWithoutQueues ==
  ASSUME NEW n, NEW r, WriteSetup(n, r)
  PROVE  /\ UNCHANGED <<dqueues, activated, interrupt, mode>>
         /\ tqueues = <<>> => tqueues' = <<>>
<1>1. (\E q : WriteQueue(q)) \/ WriteQueueSel(n)
  BY Zenon DEF WriteSetup
<1>2. CASE WriteQueueSel(n)
  BY <1>2, Zenon DEF WriteQueueSel, device
<1>3. CASE \E q : WriteQueue(q)
  <2>1. PICK q : WriteQueue(q)
    BY <1>3, Zenon
  <2>2. UNCHANGED <<dqueues, activated, interrupt, mode>>
    BY <2>1, Zenon DEF WriteQueue, device
  <2>3. tqueues' = tqueues \/ tqueues' = [tqueues EXCEPT ![queueSel + 1] = q]
    BY <2>1, Zenon DEF WriteQueue
  <2>4. \A k : [<<>> EXCEPT ![k] = q] = <<>>
    OBVIOUS
  <2>. QED BY <2>2, <2>3, <2>4, Zenon
<1>. QED BY <1>1, <1>2, <1>3, Zenon

\* The bring-up of a network device, one step on.
LEMMA BringUpStep ==
  ASSUME kind = "net", UNCHANGED <<kind, sent>>, mode = "guest", BringUp, DriverSetup
  PROVE  /\ UNCHANGED <<interrupt, mode>> /\ guest.step + 1 \in Nat
         /\ guest' = Fresh(guest.step + 1) /\ guest'.step = guest.step + 1
         /\ guest.step # 19 => BringUp'
         /\ guest.step = 19 => /\ tqueues' = <<>> /\ Driven(dqueues', 0, 0)
                               /\ tqueues = <<>> => Undriven(dqueues')
         /\ tqueues = <<>> => tqueues' = <<>>
<1>. DEFINE s == guest.step
<1>1. /\ s \in 0 .. 19 /\ guest = Fresh(s) /\ sent = <<>> /\ dqueues = <<>> /\ ~activated
      /\ SetUp(tqueues, s)
  BY Zenon DEF BringUp, SetUp, Fresh
<1>2. s \in 2 .. 10 => queueSel = 0
  BY Zenon DEF BringUp
<1>3. s \in 11 .. 19 => queueSel = 1
  BY Zenon DEF BringUp
<1>4. SetupSteps = 18
  BY NetQueues, Zenon
<1>5. \/ s = 0 /\ WriteStatus({"DRIVER"})
      \/ s \in 1 .. 18 /\ WriteSetup((s - 1) \div 9, (s - 1) % 9)
      \/ s = 19 /\ WriteStatus({"DRIVER", "DRIVER_OK"})
  <2>1. \/ s = 0 /\ WriteStatus({"DRIVER"})
        \/ s \in 1 .. SetupSteps /\ WriteSetup((s - 1) \div 9, (s - 1) % 9)
        \/ s = SetupSteps + 1 /\ WriteStatus({"DRIVER", "DRIVER_OK"})
    BY Zenon DEF DriverSetup
  <2>2. 18 + 1 = 19
    OBVIOUS
  <2>. QED BY <1>4, <2>1, <2>2, Zenon
<1>6. guest' = Fresh(s + 1) /\ guest'.step = s + 1 /\ s + 1 \in Nat
  <2>1. guest' = [Fresh(s) EXCEPT !.step = Fresh(s).step + 1]
    <3>1. guest' = [guest EXCEPT !.step = guest.step + 1]
      BY Zenon DEF DriverSetup
    <3>. QED BY <1>1, <3>1, Zenon
  <2>2. s \in Nat /\ s + 1 \in Nat
    BY <1>1
  <2>3. Fresh(s).step = s /\ Fresh(s + 1).step = s + 1
    BY <2>2, FreshFields, Zenon
  <2>. DEFINE k == s + 1
  <2>4. \A f, x, y : [[f EXCEPT !.step = x] EXCEPT !.step = y] = [f EXCEPT !.step = y]
    BY Zenon
  <2>5. [Fresh(s) EXCEPT !.step = k] = Fresh(k)
    <3>. HIDE DEF k, s, FreshDriver
    <3>. QED BY <2>4, Zenon DEF Fresh
  <2>. QED BY <2>1, <2>2, <2>3, <2>5, Zenon
<1>7. guest' = [FreshDriver EXCEPT !.step = guest'.step]
  BY <1>6, Zenon DEF Fresh
<1>. HIDE DEF s
<1>8. CASE s = 0 /\ WriteStatus({"DRIVER"})
  <2>1. UNCHANGED <<queueSel, interrupt, mode, dqueues, activated, tqueues>>
    BY <1>8, StatusWrites, Zenon
  <2>2. After(0, s - 1) = After(0, s) /\ After(1, s - 10) = After(1, s - 9)
    BY <1>8, AfterRest
  <2>3. s + 1 = 1 /\ s # 19 /\ (s + 1) - 1 = s /\ (s + 1) - 10 = s - 9 /\ 1 \in 0 .. 19
        /\ 1 \notin 2 .. 10 /\ 1 \notin 11 .. 19
    BY <1>8
  <2>4. SetUp(tqueues', s + 1)
    BY <1>1, <2>1, <2>2, <2>3, Zenon DEF SetUp
  <2>5. BringUp'
    BY <1>1, <1>6, <1>7, <2>1, <2>3, <2>4, Zenon DEF BringUp, SetUp
  <2>. QED BY <1>6, <2>1, <2>3, <2>5, Zenon DEF s
<1>9. CASE s \in 1 .. 18 /\ WriteSetup((s - 1) \div 9, (s - 1) % 9)
  <2>1. /\ SetUp(tqueues', s + 1)
        /\ s + 1 \in 2 .. 10 => queueSel' = 0
        /\ s + 1 \in 11 .. 19 => queueSel' = 1
        /\ tqueues = <<>> => tqueues' = <<>>
        /\ UNCHANGED <<activated, dqueues, mode, interrupt>>
    BY <1>1, <1>2, <1>3, <1>9, SetupStep, Zenon
  <2>2. s # 19 /\ s + 1 \in 0 .. 19
    BY <1>9
  <2>3. BringUp'
    BY <1>1, <1>6, <1>7, <2>1, <2>2, Zenon DEF BringUp, SetUp
  <2>. QED BY <1>6, <2>1, <2>2, <2>3, Zenon DEF s
<1>10. CASE s = 19 /\ WriteStatus({"DRIVER", "DRIVER_OK"})
  <2>1. UNCHANGED <<interrupt, mode>> /\ dqueues' = Activated(tqueues) /\ tqueues' = <<>>
    BY <1>1, <1>10, StatusWrites, Zenon
  <2>2. dqueues' = <<tqueues>>
    BY <2>1, Zenon DEF Activated
  <2>3. After(0, s - 1) = Ready(0, 0) /\ After(1, s - 10) = Ready(1, 0)
    <3>1. s - 1 >= 9 /\ s - 10 >= 9 /\ s - 1 \in Int /\ s - 10 \in Int
      BY <1>10
    <3>. QED BY <3>1, AfterEnds, Zenon
  <2>4. tqueues = <<>> => Undriven(dqueues')
    BY <2>2, Zenon DEF Undriven
  <2>5. Driven(dqueues', 0, 0)
    BY <1>1, <2>2, <2>3, <2>4, Zenon DEF Driven, SetUp, RX, TX
  <2>. QED BY <1>6, <1>10, <2>1, <2>4, <2>5, Zenon DEF s
<1>. QED BY <1>5, <1>8, <1>9, <1>10, Zenon

\* The driver brings its device up.
LEMMA DriverSetupSafe ==
  ASSUME IInv, DriverSetup
  PROVE  IInv'
<1>. DEFINE last == Len(arrived) - Len(tapIn)
            s == guest.step
<1>1. /\ UNCHANGED <<kind, received, tapIn, arrived, sent, snapshot, wasReset, lostIrq>>
      /\ mode = "guest" /\ ~DriverUp /\ guest' = [guest EXCEPT !.step = guest.step + 1]
  BY Zenon DEF DriverSetup, tap, history
<1>2. /\ VmOK(dqueues, guest, sent, arrived, last) /\ TapOK /\ RxAnnounced /\ guest \in Guests
      /\ DeadOK(wasReset, dqueues, guest, sent)
  BY Zenon DEF IInv, VmOK
<1>3. /\ UNCHANGED <<mode, interrupt>> /\ (tqueues = <<>> => tqueues' = <<>>)
      /\ dqueues' \in {<<>>, dqueues, Activated(tqueues)}
  <2>1. CASE \E n, r : WriteSetup(n, r)
    BY <2>1, SetupWithoutQueues, Zenon
  <2>2. CASE \E bits : WriteStatus(bits)
    BY <2>2, StatusWrites, Zenon
  <2>. QED BY <2>1, <2>2, Zenon DEF DriverSetup
<1>4. /\ guest' \in Guests /\ guest'.got = guest.got /\ guest'.irq = guest.irq
      /\ \A m \in Queues : SameQueue(guest, guest', m)
  <2>1. s \in Nat
    BY <1>2, GuestFields, Zenon
  <2>2. s + 1 \in Nat
    BY <2>1
  <2>. DEFINE k == s + 1
  <2>. HIDE DEF k
  <2>3. /\ [guest EXCEPT !.step = k] \in Guests /\ [guest EXCEPT !.step = k].got = guest.got
        /\ [guest EXCEPT !.step = k].irq = guest.irq
        /\ \A m \in Queues : SameQueue(guest, [guest EXCEPT !.step = k], m)
    BY <1>2, <2>2, StepFields, Zenon DEF k
  <2>. QED BY <1>1, <2>3, Zenon DEF k
<1>5. guest'.used[RX] = guest.used[RX] /\ guest'.used[TX] = guest.used[TX]
      /\ guest'.lastUsed[RX] = guest.lastUsed[RX]
  BY <1>4, TwoQueues, Zenon DEF SameQueue
<1>6. Flags' /\ TapOK' /\ SnapshotOK'
  <2>1. SnapshotOK'
    BY <1>1, SnapshotSame, Zenon DEF IInv
  <2>. QED BY <2>1, <1>1, <1>3, Zenon DEF IInv, Flags, TapOK
<1>7. RxAnnounced'
  BY <1>1, <1>2, <1>3, <1>4, <1>5, Zenon DEF RxAnnounced, Unseen
<1>. HIDE DEF last, s
<1>8. CASE kind # "net"
  <2>1. dqueues = <<>> /\ dqueues' = <<>>
    BY <1>3, <1>8, Zenon DEF IInv, TransportOK, Activated
  <2>2. VmOK(dqueues', guest', sent', arrived', last)
    <3>1. VmOK(dqueues, guest', sent, arrived, last)
      BY <1>2, <1>4, VmSame, Zenon
    <3>. QED BY <1>1, <2>1, <3>1, Zenon
  <2>3. VmOK(dqueues, guest, sent, arrived, Len(arrived) - Len(tapIn))'
    BY <1>1, <2>2, Zenon DEF last
  <2>4. TransportOK'
    BY <1>1, <1>3, <1>8, <2>1, Zenon DEF IInv, TransportOK
  <2>5. DeadOK(wasReset, dqueues, guest, sent)'
    BY <1>1, <1>2, <1>5, <2>1, TwoQueues, Zenon DEF DeadOK
  <2>. QED BY <1>6, <1>7, <2>3, <2>4, <2>5, Zenon DEF IInv
<1>9. CASE kind = "net"
  <2>1. BringUp
    BY <1>1, <1>9, Zenon DEF IInv, TransportOK
  <2>2. /\ UNCHANGED <<interrupt, mode>> /\ guest.step + 1 \in Nat
        /\ guest' = Fresh(guest.step + 1) /\ guest'.step = guest.step + 1
        /\ guest.step # 19 => BringUp'
        /\ guest.step = 19 => /\ tqueues' = <<>> /\ Driven(dqueues', 0, 0)
                              /\ tqueues = <<>> => Undriven(dqueues')
        /\ tqueues = <<>> => tqueues' = <<>>
    BY <1>1, <1>9, <2>1, BringUpStep, Zenon
  <2>3. DriverUp' <=> guest.step = 19
    <3>1. DriverUp' <=> guest'.step = 20
      <4>1. SetupSteps = 18
        BY <1>9, NetQueues, Zenon
      <4>2. SetupSteps' = SetupSteps
        BY <1>1, Zenon DEF SetupSteps
      <4>. QED BY <4>1, <4>2 DEF DriverUp
    <3>2. guest.step \in Nat
      BY <1>2, GuestFields, Zenon
    <3>. QED BY <2>2, <3>1, <3>2
  <2>4. sent = <<>>
    BY <2>1, Zenon DEF BringUp
  <2>5. Driven(dqueues', 0, 0) /\ (tqueues = <<>> => Undriven(dqueues'))
    <3>1. CASE guest.step = 19
      BY <2>2, <3>1, Zenon
    <3>2. CASE guest.step # 19
      <4>1. dqueues' = <<>>
        BY <2>2, <3>2, Zenon DEF BringUp
      <4>. QED BY <4>1, Zenon DEF Undriven, Driven
    <3>. QED BY <3>1, <3>2, Zenon
  <2>6. VmOK(dqueues, guest, sent, arrived, Len(arrived) - Len(tapIn))'
    <3>1. VmOK(dqueues', Fresh(guest.step + 1), <<>>, arrived', Len(arrived') - Len(tapIn'))
      BY <2>2, <2>5, FreshVm, Zenon
    <3>. QED BY <1>1, <2>2, <2>4, <3>1, Zenon
  <2>7. TransportOK'
    BY <1>1, <1>3, <1>9, <2>2, <2>3, Zenon DEF IInv, TransportOK
  <2>8. DeadOK(wasReset, dqueues, guest, sent)'
    <3>1. wasReset => tqueues = <<>>
      BY <1>1, Zenon DEF IInv, TransportOK
    <3>. QED BY <1>1, <1>2, <1>5, <2>5, <3>1, TwoQueues, Zenon DEF DeadOK
  <2>. QED BY <1>6, <1>7, <2>6, <2>7, <2>8, Zenon DEF IInv
<1>. QED BY <1>8, <1>9, Zenon

\* A driver that has not begun.
LEMMA FreshStart ==
  /\ FreshDriver = Fresh(0) /\ FreshDriver.step = 0 /\ 0 \in Nat
  /\ FreshDriver = [FreshDriver EXCEPT !.step = 0]
<1>1. FreshDriver.step = 0
  BY DEF FreshDriver
<1>2. FreshDriver = [FreshDriver EXCEPT !.step = 0]
  <2>. DEFINE a == [n \in Queues |-> EmptyRing]
              b == [n \in Queues |-> EmptyUsed]
              c == [n \in Queues |-> [i \in Slots |-> Empty]]
              d == [n \in Queues |-> Slots]
              e == [n \in Queues |-> 0]
              f == [n \in Queues |-> <<>>]
              r == [step |-> 0, avail |-> a, used |-> b, chain |-> c, free |-> d,
                    lastUsed |-> e, posted |-> f, reaped |-> f, got |-> <<>>, irq |-> "none"]
  <2>1. FreshDriver = r
    BY Zenon DEF FreshDriver
  <2>. HIDE DEF a, b, c, d, e, f
  <2>2. r = [r EXCEPT !.step = 0]
    OBVIOUS
  <2>. HIDE DEF r
  <2>. QED BY <2>1, <2>2, Zenon
<1>. QED BY <1>1, <1>2, Zenon DEF Fresh

\* A write to STATUS that resets the device takes its queues away.
LEMMA DriverResetSafe ==
  ASSUME IInv, DriverReset
  PROVE  IInv'
<1>1. /\ UNCHANGED <<kind, received, tapIn, arrived, snapshot, lostIrq>>
      /\ mode = "guest" /\ DriverUp /\ WriteStatus({}) /\ guest' = FreshDriver /\ sent' = <<>>
      /\ wasReset' = (tqueues = <<>>)
  BY Zenon DEF DriverReset
<1>2. /\ UNCHANGED <<queueSel, interrupt, mode, tqueues>>
      /\ dqueues' = <<>> /\ activated' = FALSE
  BY <1>1, StatusWrites, Zenon
<1>3. guest' = Fresh(0) /\ guest'.step = 0 /\ 0 \in Nat
  BY <1>1, FreshStart, Zenon
<1>4. /\ guest'.irq = "none"
      /\ \A n \in Queues : guest'.used[n] = EmptyUsed /\ guest'.lastUsed[n] = 0
  BY <1>3, FreshFields, Zenon
<1>5. Undriven(dqueues') /\ Driven(dqueues', 0, 0)
  BY <1>2, Zenon DEF Undriven, Driven
<1>6. VmOK(dqueues, guest, sent, arrived, Len(arrived) - Len(tapIn))'
  <2>1. VmOK(dqueues', Fresh(0), <<>>, arrived', Len(arrived') - Len(tapIn'))
    BY <1>3, <1>5, FreshVm, Zenon
  <2>. QED BY <1>1, <1>3, <2>1, Zenon
<1>7. Flags' /\ TapOK' /\ SnapshotOK'
  <2>1. SnapshotOK'
    BY <1>1, SnapshotSame, Zenon DEF IInv
  <2>2. wasReset' \in BOOLEAN
    BY <1>1, Zenon
  <2>. QED BY <2>1, <2>2, <1>1, <1>2, Zenon DEF IInv, Flags, TapOK
<1>8. RxAnnounced'
  <2>1. EmptyUsed.idx = 0
    BY DEF EmptyUsed
  <2>. QED BY <1>4, <2>1, TwoQueues, Zenon DEF RxAnnounced, Unseen
<1>9. DeadOK(wasReset, dqueues, guest, sent)'
  BY <1>1, <1>4, <1>5, Zenon DEF DeadOK
<1>10. TransportOK'
  <2>1. kind = "net" => BringUp'
    <3>. SUFFICES ASSUME kind = "net" PROVE BringUp'
      OBVIOUS
    <3>1. tqueues \in {<<>>, <<NewQueue, NewQueue>>}
      BY <1>1, Zenon DEF IInv, TransportOK
    <3>2. After(0, 0 - 1) = NewQueue /\ After(1, 0 - 10) = NewQueue
      <4>1. 0 - 1 \in Int /\ 0 - 1 <= 1 /\ 0 - 10 \in Int /\ 0 - 10 <= 1
        OBVIOUS
      <4>. QED BY <4>1, AfterEnds, Zenon
    <3>3. 0 \in 0 .. 19 /\ 0 \notin 2 .. 10 /\ 0 \notin 11 .. 19
      OBVIOUS
    <3>4. guest' = [FreshDriver EXCEPT !.step = guest'.step]
      BY <1>1, <1>3, FreshStart, Zenon
    <3>. QED BY <1>1, <1>2, <1>3, <3>1, <3>2, <3>3, <3>4, Zenon DEF BringUp
  <2>2. wasReset' => tqueues' = <<>>
    BY <1>1, <1>2, Zenon
  <2>3. kind = "net" => ~DriverUp'
    <3>. SUFFICES ASSUME kind = "net" PROVE ~DriverUp'
      OBVIOUS
    <3>1. SetupSteps' = 18
      <4>1. SetupSteps' = SetupSteps
        BY <1>1, Zenon DEF SetupSteps
      <4>. QED BY <4>1, NetQueues, Zenon
    <3>. QED BY <1>3, <3>1 DEF DriverUp
  <2>. QED BY <1>1, <1>2, <2>1, <2>2, <2>3, Zenon DEF TransportOK
<1>. QED BY <1>6, <1>7, <1>8, <1>9, <1>10, Zenon DEF IInv

\* The VM before it runs.
LEMMA InitSafe == Init => IInv
<1>. SUFFICES ASSUME Init PROVE IInv
  OBVIOUS
<1>1. /\ kind \in Kinds /\ tqueues = [i \in 1 .. NumQueues(kind) |-> NewQueue]
      /\ queueSel = 0 /\ interrupt = FALSE /\ activated = FALSE /\ dqueues = <<>>
      /\ mode = "guest" /\ received = FALSE /\ guest = FreshDriver
      /\ tapIn = <<>> /\ arrived = <<>> /\ sent = <<>> /\ snapshot = <<>>
      /\ wasReset = FALSE /\ lostIrq = FALSE
  BY Zenon DEF Init
<1>2. guest = Fresh(0) /\ guest.step = 0 /\ 0 \in Nat
  BY <1>1, FreshStart, Zenon
<1>3. \A n \in Queues : guest.used[n] = EmptyUsed /\ guest.lastUsed[n] = 0
  BY <1>2, FreshFields, Zenon
<1>4. Flags /\ SnapshotOK
  BY <1>1, Zenon DEF Flags, SnapshotOK
<1>5. TapOK
  BY <1>1 DEF TapOK
<1>6. VmOK(dqueues, guest, sent, arrived, Len(arrived) - Len(tapIn))
  <2>1. Driven(dqueues, 0, 0)
    BY <1>1, Zenon DEF Driven, Undriven
  <2>2. VmOK(dqueues, Fresh(0), <<>>, arrived, Len(arrived) - Len(tapIn))
    BY <1>2, <2>1, FreshVm, Zenon
  <2>. QED BY <1>1, <1>2, <2>2, Zenon
<1>7. RxAnnounced
  <2>1. EmptyUsed.idx = 0
    BY DEF EmptyUsed
  <2>. QED BY <1>3, <2>1, TwoQueues, Zenon DEF RxAnnounced, Unseen
<1>8. DeadOK(wasReset, dqueues, guest, sent)
  BY <1>1, Zenon DEF DeadOK
<1>9. TransportOK
  <2>1. kind = "net" => BringUp
    <3>. SUFFICES ASSUME kind = "net" PROVE BringUp
      OBVIOUS
    <3>1. tqueues = <<NewQueue, NewQueue>>
      BY <1>1, NewQueues, Zenon
    <3>2. After(0, 0 - 1) = NewQueue /\ After(1, 0 - 10) = NewQueue
      <4>1. 0 - 1 \in Int /\ 0 - 1 <= 1 /\ 0 - 10 \in Int /\ 0 - 10 <= 1
        OBVIOUS
      <4>. QED BY <4>1, AfterEnds, Zenon
    <3>3. 0 \in 0 .. 19 /\ 0 \notin 2 .. 10 /\ 0 \notin 11 .. 19
      OBVIOUS
    <3>4. guest = [FreshDriver EXCEPT !.step = guest.step]
      BY <1>1, <1>2, FreshStart, Zenon
    <3>. QED BY <1>1, <1>2, <3>1, <3>2, <3>3, <3>4, Zenon DEF BringUp
  <2>2. kind = "net" => ~DriverUp
    <3>1. 0 # 20
      OBVIOUS
    <3>. QED BY <1>2, <3>1, NetQueues, Zenon
  <2>. QED BY <1>1, <2>1, <2>2, Zenon DEF TransportOK
<1>. QED BY <1>4, <1>5, <1>6, <1>7, <1>8, <1>9, Zenon DEF IInv

\* Every step keeps the invariant.
LEMMA NextSafe == IInv /\ [Next]_vars => IInv'
<1>. SUFFICES ASSUME IInv, [Next]_vars PROVE IInv'
  OBVIOUS
<1>1. CASE UNCHANGED vars
  <2>1. /\ UNCHANGED <<kind, tqueues, queueSel, interrupt, activated, dqueues, mode, received>>
        /\ UNCHANGED <<guest, tapIn, arrived, sent, snapshot, wasReset, lostIrq>>
    BY <1>1, Zenon DEF vars, transport, device, loop, tap, history
  <2>2. SnapshotOK'
    BY <2>1, SnapshotSame, Zenon DEF IInv
  <2>3. Flags' /\ TapOK' /\ RxAnnounced' /\ DeadOK(wasReset, dqueues, guest, sent)'
        /\ VmOK(dqueues, guest, sent, arrived, Len(arrived) - Len(tapIn))'
    BY <2>1, Zenon DEF IInv, Flags, TapOK, RxAnnounced, Unseen
  <2>4. TransportOK'
    <3>1. (DriverUp' <=> DriverUp) /\ (BringUp' <=> BringUp)
      BY <2>1, Zenon DEF DriverUp, SetupSteps, BringUp
    <3>. QED BY <2>1, <3>1, Zenon DEF IInv, TransportOK
  <2>. QED BY <2>2, <2>3, <2>4, Zenon DEF IInv
<1>2. CASE DriverSetup BY <1>2, DriverSetupSafe, Zenon
<1>3. CASE DriverReset BY <1>3, DriverResetSafe, Zenon
<1>4. CASE DriverPostAny BY <1>4, DriverPostAnySafe, Zenon
<1>5. CASE \E n \in Queues : DriverKick(n) \/ DriverReap(n)
  BY <1>5, DriverKickSafe, DriverReapSafe, Zenon
<1>6. CASE DriverTakesIrq BY <1>6, DriverTakesIrqSafe, Zenon
<1>7. CASE DriverLeavesIrq BY <1>7, DriverLeavesIrqSafe, Zenon
<1>8. CASE PollDevices BY <1>8, PollDevicesSafe, Zenon
<1>9. CASE ProcessRx BY <1>9, ProcessRxSafe, Zenon
<1>10. CASE ProcessTx BY <1>10, ProcessTxSafe, Zenon
<1>11. CASE FrameArrives BY <1>11, FrameArrivesSafe, Zenon
<1>12. CASE SaveSnapshot BY <1>12, SaveSnapshotSafe, Zenon
<1>13. CASE RestoreSnapshot BY <1>13, RestoreSnapshotSafe, Zenon
<1>. QED
  BY <1>1, <1>2, <1>3, <1>4, <1>5, <1>6, <1>7, <1>8, <1>9, <1>10, <1>11, <1>12, <1>13, Zenon
     DEF Next

-----------------------------------------------------------------------------
(* What the invariant gives.                                               *)

\* The chains taken back on one ring.
LEMMA RingInOrder ==
  ASSUME NEW g \in Guests, NEW n \in Queues, NEW u, Ring(g, n, u)
  PROVE  IsPrefixOf(g.reaped[n], [i \in DOMAIN g.posted[n] |-> g.posted[n][i].head])
<1>. DEFINE po == g.posted[n]
            re == g.reaped[n]
            hs == [i \in DOMAIN po |-> po[i].head]
<1>1. RingOK(g.avail[n], g.used[n], g.chain[n], g.free[n], g.lastUsed[n], po, re, u)
  BY Zenon DEF Ring
<1>2. po \in Seq(Chains) /\ re \in Seq(Slots) /\ g.free[n] \in SUBSET Slots
  BY QueueFields, Zenon
<1>3. Len(re) \in Nat /\ Len(po) \in Nat /\ Len(re) <= Len(po)
  <2>1. /\ Len(re) \in Nat /\ u \in Nat /\ Len(po) \in Nat
        /\ Len(re) <= u /\ u <= Len(po)
    <3>. HIDE DEF po, re
    <3>. QED BY <1>1, <1>2, RingBound, Zenon
  <2>. QED BY <2>1
<1>4. \A i \in 1 .. Len(re) : re[i] = po[i].head
  BY <1>1, Zenon DEF RingOK
<1>. HIDE DEF po, re
<1>5. hs \in Seq(Slots) /\ Len(hs) = Len(po) /\ \A i \in 1 .. Len(po) : hs[i] = po[i].head
  <2>1. DOMAIN po = 1 .. Len(po) /\ \A i \in 1 .. Len(po) : po[i].head \in Slots
    <3>1. DOMAIN po = 1 .. Len(po) /\ \A i \in 1 .. Len(po) : po[i] \in Chains
      BY <1>2
    <3>2. \A e \in Chains : e.head \in Slots
      BY DEF Chains
    <3>. QED BY <3>1, <3>2, Zenon
  <2>. QED BY <2>1, <1>3
<1>. HIDE DEF hs
<1>6. SubSeq(hs, 1, Len(re)) = re
  <2>. DEFINE p == SubSeq(hs, 1, Len(re))
  <2>1. p \in Seq(Slots) /\ Len(p) = Len(re) /\ \A i \in 1 .. Len(re) : p[i] = hs[i]
    BY <1>3, <1>5
  <2>2. \A i \in 1 .. Len(re) : p[i] = re[i]
    <3>1. \A i \in 1 .. Len(re) : i \in 1 .. Len(po)
      BY <1>3
    <3>. QED BY <1>4, <1>5, <2>1, <3>1, Zenon
  <2>. HIDE DEF p
  <2>3. p = re
    BY <1>2, <1>3, <2>1, <2>2
  <2>. QED BY <2>3, Zenon DEF p
<1>7. IsPrefixOf(re, hs)
  BY <1>3, <1>5, <1>6, Zenon DEF IsPrefixOf
<1>. QED BY <1>7, Zenon DEF hs, re, po

\* The rings of both queues.
LEMMA ReturnedFrom == IInv => ReturnedInOrder
<1>. SUFFICES ASSUME IInv, NEW n \in Queues
     PROVE  IsPrefixOf(guest.reaped[n], [i \in DOMAIN guest.posted[n] |-> guest.posted[n][i].head])
  BY Zenon DEF ReturnedInOrder
<1>1. guest \in Guests /\ \E u : Ring(guest, n, u)
  <2>1. PICK F \in Seq(Nat), t \in Nat :
           Moved(dqueues, guest, sent, arrived, Len(arrived) - Len(tapIn), F, t)
    BY Zenon DEF IInv, VmOK
  <2>2. Ring(guest, RX, Len(F)) /\ Ring(guest, TX, t)
    BY <2>1, Zenon DEF Moved
  <2>3. n = RX \/ n = TX
    BY DEF Queues, RX, TX
  <2>. QED BY <2>2, <2>3, Zenon DEF IInv, VmOK
<1>. QED BY <1>1, RingInOrder, Zenon

\* The frames sent.
LEMMA SentFrom == IInv => TxInOrder
<1>. SUFFICES ASSUME IInv PROVE TxInOrder
  OBVIOUS
<1>1. PICK F \in Seq(Nat), t \in Nat :
         Moved(dqueues, guest, sent, arrived, Len(arrived) - Len(tapIn), F, t)
  BY Zenon DEF IInv, VmOK
<1>. DEFINE po == guest.posted[TX]
<1>2. guest \in Guests /\ sent \in Frames /\ Ring(guest, TX, t) /\ TxOK(sent, po, t)
  BY <1>1, Zenon DEF Moved, IInv, VmOK
<1>3. t \in Nat /\ Len(po) \in Nat /\ t <= Len(po) /\ po \in Seq(Chains)
  <2>1. po \in Seq(Chains) /\ guest.reaped[TX] \in Seq(Slots) /\ guest.free[TX] \in SUBSET Slots
    BY <1>2, QueueFields, TwoQueues, Zenon
  <2>. QED BY <1>2, <2>1, RingBound, Zenon DEF Ring
<1>. HIDE DEF po
<1>4. /\ \A i \in 1 .. Len(sent) : sent[i][1] \in 1 .. t /\ po[sent[i][1]].what = sent[i][1]
      /\ \A i, j \in 1 .. Len(sent) : i < j => sent[i][1] < sent[j][1]
      /\ \A k \in 1 .. t : po[k].what = k => \E j \in 1 .. Len(sent) : sent[j][1] = k
  BY <1>2, Zenon DEF TxOK
<1>5. DOMAIN po = 1 .. Len(po) /\ DOMAIN sent = 1 .. Len(sent) /\ Len(sent) \in Nat
  BY <1>2, <1>3 DEF Frames
<1>6. ASSUME NEW i \in 1 .. Len(sent)
      PROVE  /\ sent[i][1] \in DOMAIN po /\ po[sent[i][1]].what = sent[i][1]
             /\ \A j \in 1 .. i - 1 : sent[j][1] < sent[i][1]
             /\ \A k \in 1 .. sent[i][1] - 1 :
                   po[k].what = k => \E j \in 1 .. i - 1 : sent[j][1] = k
  <2>1. sent[i][1] \in 1 .. t /\ po[sent[i][1]].what = sent[i][1]
    BY <1>4, Zenon
  <2>2. \A f \in 1 .. t : f \in 1 .. Len(po) /\ f \in Nat /\ \A k \in 1 .. f - 1 : k \in 1 .. t /\ k < f
    BY <1>3
  <2>3. \A j \in 1 .. i - 1 : j \in 1 .. Len(sent) /\ j < i
    BY <1>5
  <2>4. \A j \in 1 .. i - 1 : sent[j][1] < sent[i][1]
    BY <1>4, <2>3, Zenon
  <2>5. ASSUME NEW k \in 1 .. sent[i][1] - 1, po[k].what = k
        PROVE  \E j \in 1 .. i - 1 : sent[j][1] = k
    <3>1. k \in 1 .. t /\ k < sent[i][1]
      BY <2>1, <2>2, Zenon
    <3>2. PICK j \in 1 .. Len(sent) : sent[j][1] = k
      BY <1>4, <2>5, <3>1, Zenon
    <3>3. i < j => sent[i][1] < k
      BY <1>4, <3>2, Zenon
    <3>4. i = j => sent[i][1] = k
      BY <3>2, Zenon
    <3>5. sent[i][1] \in Nat
      BY <2>1, <2>2, Zenon
    <3>6. j \in 1 .. i - 1
      BY <1>5, <3>1, <3>3, <3>4, <3>5
    <3>. QED BY <3>2, <3>6, Zenon
  <2>. QED BY <1>5, <2>1, <2>2, <2>4, <2>5, Zenon
<1>. QED BY <1>5, <1>6, Zenon DEF TxInOrder, po

\* The frames received.
LEMMA ReceivedFrom == IInv => RxInOrder
<1>. SUFFICES ASSUME IInv PROVE RxInOrder
  OBVIOUS
<1>. DEFINE last == Len(arrived) - Len(tapIn)
            got == guest.got
<1>1. PICK F \in Seq(Nat), t \in Nat : Moved(dqueues, guest, sent, arrived, last, F, t)
  BY Zenon DEF IInv, VmOK
<1>2. guest \in Guests /\ Len(got) = Len(guest.reaped[RX]) /\ Len(got) <= Len(F)
  BY <1>1, Zenon DEF Moved, RxOK, IInv, VmOK
<1>3. /\ \A i \in 1 .. Len(F) : F[i] \in 1 .. last
      /\ \A i, j \in 1 .. Len(F) : i < j => F[i] < F[j]
      /\ \A i \in 1 .. Len(got) :
            got[i].frame = F[i] /\ got[i].len = Min(BufLen, HdrLen + arrived[F[i]])
  BY <1>1, <1>2, Zenon DEF Moved, RxOK
<1>4. got \in Seq([frame : Int, len : Nat])
  BY <1>2, GuestFields, Zenon
<1>5. DOMAIN got = 1 .. Len(got) /\ Len(got) \in Nat /\ DOMAIN arrived = 1 .. Len(arrived)
      /\ \A f \in 1 .. last : f \in 1 .. Len(arrived)
  <2>1. arrived \in Seq(Nat) /\ tapIn \in Seq(Nat)
    BY Zenon DEF IInv, TapOK
  <2>2. Len(arrived) \in Nat /\ Len(tapIn) \in Nat /\ DOMAIN arrived = 1 .. Len(arrived)
    BY <2>1
  <2>3. \A f \in 1 .. last : f \in 1 .. Len(arrived)
    BY <2>2
  <2>4. DOMAIN got = 1 .. Len(got) /\ Len(got) \in Nat
    <3>. HIDE DEF got
    <3>. QED BY <1>4
  <2>. QED BY <2>2, <2>3, <2>4, Zenon
<1>. HIDE DEF last, got
<1>6. \A i \in 1 .. Len(got) : i \in 1 .. Len(F) /\ \A j \in 1 .. i - 1 : j \in 1 .. Len(got) /\ j < i
  BY <1>2, <1>5
<1>7. ASSUME NEW i \in 1 .. Len(got)
      PROVE  /\ got[i].frame \in DOMAIN arrived
             /\ got[i].len = Min(BufLen, HdrLen + arrived[got[i].frame])
             /\ \A j \in 1 .. i - 1 : got[j].frame < got[i].frame
  <2>1. got[i].frame = F[i] /\ F[i] \in 1 .. last
    BY <1>3, <1>6, Zenon
  <2>2. \A j \in 1 .. i - 1 : got[j].frame = F[j] /\ F[j] < F[i]
    BY <1>3, <1>6, Zenon
  <2>. QED BY <1>3, <1>5, <2>1, <2>2, Zenon
<1>. QED BY <1>5, <1>7, Zenon DEF RxInOrder, got

\* The chains given back on the receive queue, by the indices of its used ring.
LEMMA ReturnedCount ==
  ASSUME NEW g \in Guests, NEW n \in Queues, NEW u, Ring(g, n, u)
  PROVE  Len(g.reaped[n]) + ((g.used[n].idx - g.lastUsed[n]) % IdxMod) = u
<1>. DEFINE re == g.reaped[n]
            po == g.posted[n]
<1>1. RingOK(g.avail[n], g.used[n], g.chain[n], g.free[n], g.lastUsed[n], po, re, u)
  BY Zenon DEF Ring
<1>2. po \in Seq(Chains) /\ re \in Seq(Slots) /\ g.free[n] \in SUBSET Slots
  BY QueueFields, Zenon
<1>3. g.used[n].idx = u % IdxMod /\ g.lastUsed[n] = Len(re) % IdxMod
  BY <1>1, Zenon DEF RingOK
<1>. HIDE DEF po, re
<1>4. /\ Len(re) \in Nat /\ u \in Nat /\ Len(po) \in Nat
      /\ Len(re) <= u /\ u <= Len(po) /\ Len(po) - Len(re) <= QSize
  BY <1>1, <1>2, RingBound, Zenon
<1>5. u - Len(re) < IdxMod /\ IdxMod \in Nat \ {0}
  BY <1>4, Sizes
<1>6. ((u % IdxMod) - (Len(re) % IdxMod)) % IdxMod = u - Len(re)
  BY <1>4, <1>5, DiffMod, Zenon
<1>7. Len(re) + (u - Len(re)) = u
  BY <1>4
<1>8. Len(re) + ((g.used[n].idx - g.lastUsed[n]) % IdxMod) = u
  BY <1>3, <1>6, <1>7, Zenon
<1>. QED BY <1>8, Zenon DEF re

\* What process_rx may lose.
Lossless ==
  mode = "rx" /\ tapIn # <<>> /\ tapIn' = Tail(tapIn) /\ mode' = "guest" =>
    LET returned == Len(guest.reaped[RX]) + ((guest.used[RX].idx - guest.lastUsed[RX]) % IdxMod)
    IN  \/ returned = Len(guest.posted[RX])
        \/ guest.posted[RX][returned + 1].what = Bad

\* A step of process_rx that ends its loop with a frame in hand.
LEMMA LossStep == IInv /\ [Next]_vars => Lossless
<1>. SUFFICES ASSUME IInv, [Next]_vars, mode = "rx", tapIn # <<>>, tapIn' = Tail(tapIn),
                     mode' = "guest"
     PROVE  LET returned == Len(guest.reaped[RX])
                              + ((guest.used[RX].idx - guest.lastUsed[RX]) % IdxMod)
            IN  \/ returned = Len(guest.posted[RX])
                \/ guest.posted[RX][returned + 1].what = Bad
  BY Zenon DEF Lossless
<1>1. mode # "guest" /\ mode # "tx" /\ mode' # mode
  OBVIOUS
<1>2. ProcessRx
  BY <1>1, Zenon DEF Next, vars, loop, DriverSetup, DriverReset, DriverPostAny, DriverPost,
       DriverKick, DriverReap, DriverTakesIrq, DriverLeavesIrq, PollDevices, ProcessTx,
       FrameArrives, SaveSnapshot, RestoreSnapshot
<1>. DEFINE head == Pop(dqueues[1][RX + 1], RX)
<1>3. head \in {NoChain, Bad}
  BY <1>1, <1>2, Zenon DEF ProcessRx
<1>. DEFINE last == Len(arrived) - Len(tapIn)
<1>4. PICK F \in Seq(Nat), t \in Nat : Moved(dqueues, guest, sent, arrived, last, F, t)
  BY Zenon DEF IInv, VmOK
<1>. DEFINE r == Len(F)
<1>5. guest \in Guests /\ Ring(guest, RX, r) /\ ~Undriven(dqueues) /\ r \in Nat
  <2>1. r \in Nat
    OBVIOUS
  <2>. QED BY <1>1, <1>4, <2>1, Zenon DEF Moved, IInv, VmOK, TransportOK
<1>6. dqueues[1][RX + 1] = Ready(RX, r)
  <2>1. Works(dqueues, r, t)
    BY <1>4, <1>5, DrivenBy, Zenon DEF Moved
  <2>. QED BY <2>1, Zenon DEF Works
<1>. HIDE DEF r, last
<1>7. Popped(head, guest, RX, r)
  <2>1. Popped(Pop(Ready(RX, r), RX), guest, RX, r)
    BY <1>5, TwoQueues, PopIs, Zenon
  <2>. QED BY <2>1, <1>6, Zenon
<1>. HIDE DEF head
<1>8. r = Len(guest.posted[RX]) \/ guest.posted[RX][r + 1].what = Bad
  BY <1>3, <1>7, Zenon DEF Popped
<1>9. Len(guest.reaped[RX]) + ((guest.used[RX].idx - guest.lastUsed[RX]) % IdxMod) = r
  BY <1>5, TwoQueues, ReturnedCount, Zenon
<1>. QED BY <1>8, <1>9, Zenon

-----------------------------------------------------------------------------
(* The theorems.                                                           *)

\* In every order of driver, device, TAP, resets, snapshots and restores, the
\* rings, the device's place in them and the frames that went through agree:
\* the inductive invariant of Queue, MmioTransport and the network device.
THEOREM VirtioInvariant == Spec => []IInv
<1>. QED BY InitSafe, NextSafe, PTL DEF Spec

\* Queue::pop and Queue::add_used give every chain back once, in the order in
\* which the driver posted them, for every queue size and index width.
THEOREM VirtioReturnsInOrder == Spec => []ReturnedInOrder
<1>. QED BY VirtioInvariant, ReturnedFrom, PTL

\* process_tx writes the posted frames to the TAP each once, in order and
\* without a gap, through resets and restores of the VM.
THEOREM VirtioSendsInOrder == Spec => []TxInOrder
<1>. QED BY VirtioInvariant, SentFrom, PTL

\* process_rx hands the guest TAP frames in order, each at most once, with the
\* length of header and frame cut at the buffer.
THEOREM VirtioReceivesInOrder == Spec => []RxInOrder
<1>. QED BY VirtioInvariant, ReceivedFrom, PTL

\* A received frame the driver has not looked at is announced by an interrupt
\* whose status MmioTransport::poll set, but in a VM restored from one whose
\* status was set.
THEOREM VirtioAnnounces == Spec => []RxAnnounced
<1>1. IInv => RxAnnounced
  BY Zenon DEF IInv
<1>. QED BY <1>1, VirtioInvariant, PTL

\* A reset after MmioTransport::write handed its queues to the device is final:
\* nothing the driver posts afterwards moves, until a restore.
THEOREM VirtioResetIsFinal == Spec => []ResetIsFinal
<1>1. IInv => ResetIsFinal
  BY Zenon DEF IInv, DeadOK, ResetIsFinal
<1>. QED BY <1>1, VirtioInvariant, PTL

\* process_rx drops a frame it has read only if the driver left it no chain, or
\* a malformed one.
THEOREM VirtioLosesOnlyWithoutBuffer == Spec => RxLosesOnlyWithoutBuffer
<1>1. IInv /\ [Next]_vars => [Lossless]_vars
  BY LossStep, Zenon
<1>2. RxLosesOnlyWithoutBuffer <=> [][Lossless]_vars
  BY DEF RxLosesOnlyWithoutBuffer, Lossless
<1>. QED BY <1>1, <1>2, VirtioInvariant, PTL DEF Spec
=============================================================================
