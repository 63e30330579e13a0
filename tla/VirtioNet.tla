------------------------------ MODULE VirtioNet ------------------------------
(***************************************************************************)
(* A virtio device behind its MMIO transport (crates/nova-virtio): the     *)
(* transport's registers, the split virtqueues in guest memory, virtio-net *)
(* with its TAP, the devices that only negotiate, and the bus that polls   *)
(* them (crates/nova-vmm/src/device_mgr.rs).  The guest's driver is        *)
(* external: it follows the bring-up order of the virtio MMIO transport,   *)
(* never posts more chains than the ring holds, and takes completions back *)
(* in ring order.                                                          *)
(*                                                                         *)
(* The bus belongs to the vCPU thread.  While it handles an MMIO exit or   *)
(* polls, the guest does not run: `mode' says which loop it is in, and one *)
(* iteration of process_tx or process_rx is one action.  Frames reach the  *)
(* TAP at any time.  Ring indices are taken modulo IdxMod (2^16 in the     *)
(* code).                                                                  *)
(***************************************************************************)
EXTENDS Integers, Sequences, FiniteSets

CONSTANTS
    Kinds,       \* the device types a behaviour may have
    IdxMod,      \* the number of values of a ring index
    QSize,       \* the queue size the driver writes to QUEUE_NUM
    HdrLen,      \* VNET_HDR_SIZE
    BufLen,      \* length of the driver's receive buffers
    FrameLens,   \* lengths of the frames that reach the TAP
    Workloads    \* bounds: chains posted on the queues, frames arriving, resets
                 \* and restores; and whether chains may be empty or malformed

ASSUME RingAssumption ==
    /\ Kinds \subseteq {"net", "blk", "console", "balloon", "fs", "vsock"}
    /\ QSize \in Nat \ {0}
    /\ IdxMod \in Nat
    /\ QSize < IdxMod
    /\ IdxMod % QSize = 0               \* sizes are powers of two
    /\ {HdrLen, BufLen} \subseteq Nat
    /\ Workloads \subseteq [rx : Nat, tx : Nat, frames : Nat, lives : Nat, odd : BOOLEAN]
    /\ FrameLens \subseteq Nat \ {0}

VARIABLES
    kind,        \* the device behind the transport
    tqueues,     \* MmioTransport.queues; empty once drained
    queueSel,    \* MmioTransport.queue_sel
    status,      \* MmioTransport.status, as its set of bits
    interrupt,   \* MmioTransport.interrupt_status: is the used-ring bit set
    activated,   \* MmioTransport.activated
    dqueues,     \* Net.queues: <<qs>> for Some(qs), <<>> for None
    tapFd,       \* Net.tap_fd is set
    mode,        \* "guest", "tx" (in process_tx) or "rx" (in process_rx)
    received,    \* process_rx's local of that name
    guest,       \* guest memory (rings, chains) and the driver's own state
    tapIn,       \* frames waiting in the TAP
    arrived,     \* lengths of the frames that have reached the TAP
    sent,        \* history: frames process_tx wrote, with the write's success
    snapshot,    \* <<vm>> once save_snapshot has run
    lives,       \* bound: resets and restores so far
    workload,    \* bound: what happens at most in this behaviour
    wasReset,    \* history: reset once the transport's queues were drained
    lostIrq      \* history: restored from a VM whose interrupt status was set

transport == <<tqueues, queueSel, status, interrupt, activated>>
device == <<dqueues, tapFd>>
loop == <<mode, received>>
tap == <<tapIn, arrived, sent>>
history == <<snapshot, lives, workload, wasReset, lostIrq>>
vars == <<kind, transport, device, loop, guest, tap, history>>

RX == 0
TX == 1
Queues == {RX, TX}
Slots == 0 .. QSize - 1

\* What a posted chain holds: a frame (its number, from 1), a header only, a
\* receive buffer not yet filled, or a chain that Queue::pop refuses.
Empty == 0
Buffer == -1
Bad == -2
NoChain == -3          \* Queue::pop's Ok(None)

-----------------------------------------------------------------------------
(* Virtqueues. *)

NumQueues(k) == CASE k = "net" -> 2 [] k = "blk" -> 1 [] k = "console" -> 2
                  [] k = "balloon" -> 2 [] k = "fs" -> 2 [] k = "vsock" -> 3

\* Queue::new(256); an address is kept as its <<high, low>> halves.
NewQueue == [size |-> 256, ready |-> FALSE,
             desc |-> <<0, 0>>, avail |-> <<0, 0>>, used |-> <<0, 0>>,
             next_avail |-> 0, next_used |-> 0]

\* wrapping_add on a ring index; mutant: the index stops at its largest value.
IncSaturates(i) == IF i = IdxMod - 1 THEN i ELSE i + 1
Inc(i) == (i + 1) % IdxMod

\* The slot of an index in a ring of queue q.
Slot(i, q) == i % q.size

\* Where the driver put the rings of queue n.
RingAddr(n, part) == <<1, 3 * n + part>>
AtRings(q, n) == /\ q.desc = RingAddr(n, 0)
                 /\ q.avail = RingAddr(n, 1)
                 /\ q.used = RingAddr(n, 2)

\* What Queue::pop finds: no chain, an error (queue not ready, unreadable or
\* overlong chain) that leaves next_avail alone, or the head of the next chain.
Pop(q, n) ==
    LET ring == guest.avail[n]
        head == ring.ring[Slot(q.next_avail, q)]
    IN  IF ~q.ready \/ ~AtRings(q, n) THEN Bad
        ELSE IF q.next_avail = ring.idx THEN NoChain
        ELSE IF guest.chain[n][head] = Bad THEN Bad ELSE head

\* Queue::add_used, after the pop: on the queue, and on guest memory g;
\* mutant: the used element goes to the slot after the one due.
Returned(q) == [q EXCEPT !.next_avail = Inc(@), !.next_used = Inc(@)]
AddUsedAfterInc(g, q, n, head, len) ==
    [g EXCEPT !.used[n] = [idx |-> Inc(q.next_used),
                           ring |-> [@.ring EXCEPT ![Slot(Inc(q.next_used), q)] =
                                                      [id |-> head, len |-> len]]]]
AddUsed(g, q, n, head, len) ==
    [g EXCEPT !.used[n] = [idx |-> Inc(q.next_used),
                           ring |-> [@.ring EXCEPT ![Slot(q.next_used, q)] =
                                                      [id |-> head, len |-> len]]]]

-----------------------------------------------------------------------------
(* The devices.  Only virtio-net keeps the queues it is activated with;    *)
(* the others drop them, ignore notifications and never have work.         *)

Activated(qs) == IF kind = "net" THEN <<qs>> ELSE <<>>

\* net::queue_notify, and process_tx up to its loop.
QueueNotify(n) ==
    mode' = IF kind = "net" /\ n = TX /\ tapFd /\ dqueues # <<>>
               /\ Len(dqueues[1]) > TX
            THEN "tx" ELSE mode

\* One iteration of process_tx: the chain goes back to the driver whether or
\* not the TAP took the frame.
ProcessTx ==
    /\ mode = "tx"
    /\ LET q == dqueues[1][TX + 1]
           head == Pop(q, TX)
           frame == guest.chain[TX][head]
       IN  \/ /\ head \in {NoChain, Bad}
              /\ mode' = "guest"
              /\ UNCHANGED <<dqueues, guest, sent>>
           \/ /\ head \notin {NoChain, Bad}
              /\ dqueues' = [dqueues EXCEPT ![1][TX + 1] = Returned(q)]
              /\ guest' = AddUsed(guest, q, TX, head, 0)
              /\ \/ frame = Empty /\ UNCHANGED sent
                 \/ /\ frame # Empty
                    /\ \E ok \in BOOLEAN : sent' = Append(sent, <<frame, ok>>)
              /\ UNCHANGED mode
    /\ UNCHANGED <<kind, transport, tapFd, received, tapIn, arrived, history>>

\* MmioBus::poll_devices, MmioTransport::poll and process_rx up to its loop.
PollDevices ==
    /\ mode = "guest"
    /\ activated /\ tapFd
    /\ dqueues # <<>> /\ Len(dqueues[1]) > RX
    /\ mode' = "rx"
    /\ received' = FALSE
    /\ UNCHANGED <<kind, transport, device, guest, tap, history>>

\* process_rx returns `got': the transport sets its interrupt status and the
\* bus pulses the line; mutant: the line is pulsed and the status left alone.
PollReturnsNoStatus(got) ==
    /\ mode' = "guest"
    /\ UNCHANGED interrupt
    /\ guest' = [guest EXCEPT !.irq = IF got THEN "latched" ELSE @]
PollReturns(got) ==
    /\ mode' = "guest"
    /\ interrupt' = (interrupt \/ got)
    /\ guest' = [guest EXCEPT !.irq = IF got THEN "latched" ELSE @]

Min(a, b) == IF a < b THEN a ELSE b

\* One iteration of process_rx.  The frame is read before a chain is popped:
\* without a chain it is lost, and the loop ends.
ProcessRx ==
    /\ mode = "rx"
    /\ \/ /\ tapIn = <<>>
          /\ PollReturns(received)
          /\ UNCHANGED <<dqueues, tapIn, received>>
       \/ /\ tapIn # <<>>
          /\ tapIn' = Tail(tapIn)
          /\ LET q == dqueues[1][RX + 1]
                 head == Pop(q, RX)
                 frame == Head(tapIn)
             IN  \/ /\ head \in {NoChain, Bad}
                    /\ PollReturns(received)
                    /\ UNCHANGED <<dqueues, received>>
                 \/ /\ head \notin {NoChain, Bad}
                    /\ dqueues' = [dqueues EXCEPT ![1][RX + 1] = Returned(q)]
                    /\ guest' = AddUsed([guest EXCEPT !.chain[RX][head] = frame],
                                        q, RX, head, Min(BufLen, HdrLen + arrived[frame]))
                    /\ received' = TRUE
                    /\ UNCHANGED <<mode, interrupt>>
    /\ UNCHANGED <<kind, tqueues, queueSel, status, activated, tapFd, arrived,
                   sent, history>>

-----------------------------------------------------------------------------
(* Register writes: MmioTransport::write.                                  *)

\* A write to a register of the selected queue, which then is q; ignored if
\* no queue is selected.
Selected == tqueues[queueSel + 1]
WriteQueue(q) ==
    /\ tqueues' = IF queueSel < Len(tqueues)
                  THEN [tqueues EXCEPT ![queueSel + 1] = q]
                  ELSE tqueues
    /\ UNCHANGED <<queueSel, status, interrupt, activated, device, mode>>

\* The low and high halves of a ring address; mutant: a half clears the other.
WriteHalfClears(addr, half, val) == [<<0, 0>> EXCEPT ![half] = val]
WriteHalf(addr, half, val) == [addr EXCEPT ![half] = val]

\* STATUS: zero resets the device but brings no queue back; DRIVER_OK hands
\* the queues over, once; mutant: a reset makes new queues.
WriteStatusNewQueues(bits) ==
    /\ status' = bits
    /\ IF bits = {}
       THEN /\ dqueues' = <<>> /\ activated' = FALSE
            /\ tqueues' = [i \in 1 .. NumQueues(kind) |-> NewQueue]
       ELSE IF "DRIVER_OK" \in bits /\ ~activated
       THEN dqueues' = Activated(tqueues) /\ activated' = TRUE /\ tqueues' = <<>>
       ELSE UNCHANGED <<dqueues, activated, tqueues>>
    /\ UNCHANGED <<queueSel, interrupt, tapFd, mode>>
WriteStatus(bits) ==
    /\ status' = bits
    /\ \/ /\ bits = {}
          /\ dqueues' = <<>>                             \* device.reset()
          /\ activated' = FALSE
          /\ UNCHANGED tqueues
       \/ /\ "DRIVER_OK" \in bits /\ ~activated
          /\ dqueues' = Activated(tqueues)
          /\ activated' = TRUE
          /\ tqueues' = <<>>                             \* drain(..)
       \/ /\ bits # {} /\ ("DRIVER_OK" \notin bits \/ activated)
          /\ UNCHANGED <<dqueues, activated, tqueues>>
    /\ UNCHANGED <<queueSel, interrupt, tapFd, mode>>

WriteQueueSel(n) ==
    /\ queueSel' = n
    /\ UNCHANGED <<tqueues, status, interrupt, activated, device, mode>>

\* INTERRUPT_ACK with what INTERRUPT_STATUS reads.
InterruptAck == interrupt' = FALSE

\* One write of the driver's bring-up of queue n: register number r.
WriteSetup(n, r) ==
    \/ r = 0 /\ WriteQueueSel(n)
    \/ r = 1 /\ WriteQueue([Selected EXCEPT !.size = QSize])
    \/ r = 2 /\ WriteQueue([Selected EXCEPT !.desc = WriteHalf(@, 2, RingAddr(n, 0)[2])])
    \/ r = 3 /\ WriteQueue([Selected EXCEPT !.desc = WriteHalf(@, 1, RingAddr(n, 0)[1])])
    \/ r = 4 /\ WriteQueue([Selected EXCEPT !.avail = WriteHalf(@, 2, RingAddr(n, 1)[2])])
    \/ r = 5 /\ WriteQueue([Selected EXCEPT !.avail = WriteHalf(@, 1, RingAddr(n, 1)[1])])
    \/ r = 6 /\ WriteQueue([Selected EXCEPT !.used = WriteHalf(@, 2, RingAddr(n, 2)[2])])
    \/ r = 7 /\ WriteQueue([Selected EXCEPT !.used = WriteHalf(@, 1, RingAddr(n, 2)[1])])
    \/ r = 8 /\ WriteQueue([Selected EXCEPT !.ready = TRUE])

-----------------------------------------------------------------------------
(* The driver (external).                                                  *)

EmptyRing == [idx |-> 0, ring |-> [i \in Slots |-> 0]]
EmptyUsed == [idx |-> 0, ring |-> [i \in Slots |-> [id |-> 0, len |-> 0]]]

FreshDriver ==
    [step |-> 0,                                  \* position in the bring-up
     avail |-> [n \in Queues |-> EmptyRing],
     used |-> [n \in Queues |-> EmptyUsed],
     chain |-> [n \in Queues |-> [i \in Slots |-> Empty]],
     free |-> [n \in Queues |-> Slots],
     lastUsed |-> [n \in Queues |-> 0],           \* used index seen so far
     posted |-> [n \in Queues |-> <<>>],          \* history of posted chains
     reaped |-> [n \in Queues |-> <<>>],          \* history of completions
     got |-> <<>>,                                \* history of received frames
     irq |-> "none"]                              \* "latched", "handling"

SetupSteps == 9 * NumQueues(kind)
DriverUp == guest.step = SetupSteps + 2

DriverSetup ==
    /\ mode = "guest" /\ ~DriverUp
    /\ \/ guest.step = 0 /\ WriteStatus({"DRIVER"})
       \/ /\ guest.step \in 1 .. SetupSteps
          /\ WriteSetup((guest.step - 1) \div 9, (guest.step - 1) % 9)
       \/ guest.step = SetupSteps + 1 /\ WriteStatus({"DRIVER", "DRIVER_OK"})
    /\ guest' = [guest EXCEPT !.step = @ + 1]
    /\ UNCHANGED <<kind, received, tap, history>>

\* The driver gives up what it had and starts over.
DriverReset ==
    /\ mode = "guest" /\ DriverUp
    /\ lives < workload.lives
    /\ WriteStatus({})
    /\ guest' = FreshDriver
    /\ sent' = <<>>
    /\ lives' = lives + 1
    /\ wasReset' = (tqueues = <<>>)
    /\ UNCHANGED <<kind, received, tapIn, arrived, snapshot, workload, lostIrq>>

DriverPost(n, what) ==
    /\ mode = "guest" /\ DriverUp /\ kind = "net"
    /\ Len(guest.posted[n]) < IF n = RX THEN workload.rx ELSE workload.tx
    /\ \E head \in guest.free[n] :
         LET idx == guest.avail[n].idx
         IN  guest' = [guest EXCEPT !.chain[n][head] = what,
                                    !.avail[n] = [idx |-> (idx + 1) % IdxMod,
                                                  ring |-> [@.ring EXCEPT ![idx % QSize] = head]],
                                    !.free[n] = @ \ {head},
                                    !.posted[n] = Append(@, [head |-> head, what |-> what])]
    /\ UNCHANGED <<kind, transport, device, loop, tap, history>>

\* Transmit chains carry a frame or, malformed or not, none.
DriverPostAny ==
    \/ DriverPost(TX, Len(guest.posted[TX]) + 1)
    \/ DriverPost(RX, Buffer)
    \/ /\ workload.odd
       /\ \/ \E what \in {Empty, Bad} : DriverPost(TX, what)
          \/ DriverPost(RX, Bad)

DriverKick(n) ==
    /\ mode = "guest" /\ DriverUp
    /\ QueueNotify(n)
    /\ UNCHANGED <<kind, transport, device, received, guest, tap, history>>

\* The interrupt handler reads InterruptStatus and writes it to InterruptAck.
DriverTakesIrq ==
    /\ mode = "guest" /\ guest.irq = "latched"
    /\ guest' = [guest EXCEPT !.irq = IF interrupt THEN "handling" ELSE "none"]
    /\ InterruptAck
    /\ UNCHANGED <<kind, tqueues, queueSel, status, activated, device, loop, tap,
                   history>>

Unseen(n) == guest.used[n].idx # guest.lastUsed[n]

\* Receive buffers are taken back in the handler, transmit chains at any time.
DriverReap(n) ==
    /\ mode = "guest" /\ DriverUp
    /\ Unseen(n)
    /\ n = RX => guest.irq = "handling"
    /\ LET elem == guest.used[n].ring[guest.lastUsed[n] % QSize]
       IN  guest' = [guest EXCEPT
                        !.lastUsed[n] = (@ + 1) % IdxMod,
                        !.free[n] = @ \cup {elem.id},
                        !.reaped[n] = Append(@, elem.id),
                        !.got = IF n = RX
                                THEN Append(@, [frame |-> guest.chain[RX][elem.id],
                                                len |-> elem.len])
                                ELSE @]
    /\ UNCHANGED <<kind, transport, device, loop, tap, history>>

DriverLeavesIrq ==
    /\ mode = "guest" /\ guest.irq = "handling" /\ ~Unseen(RX)
    /\ guest' = [guest EXCEPT !.irq = "none"]
    /\ UNCHANGED <<kind, transport, device, loop, tap, history>>

-----------------------------------------------------------------------------
(* The TAP and snapshots.                                                  *)

FrameArrives ==
    /\ DriverUp                          \* bound: none during the bring-up
    /\ Len(arrived) < workload.frames
    /\ \E len \in FrameLens : arrived' = Append(arrived, len)
    /\ tapIn' = Append(tapIn, Len(arrived'))
    /\ UNCHANGED <<kind, transport, device, loop, guest, sent, history>>

\* save_snapshot, between two runs of the vCPU: guest memory, and the queues of
\* the devices that have some; the transport's registers are not saved.
SaveSnapshot ==
    /\ mode = "guest" /\ DriverUp
    /\ snapshot = <<>>
    /\ snapshot' = <<[queues |-> dqueues, guest |-> guest, sent |-> sent,
                      interrupt |-> interrupt, wasReset |-> wasReset]>>
    /\ UNCHANGED <<kind, transport, device, loop, guest, tap, lives, workload,
                   wasReset, lostIrq>>

\* restore_snapshot makes a new bus, and force_activate gives a device its
\* saved queues; the TAP may or may not open.  Mutant: the queues start afresh.
RestoredQueuesAfresh(qs) == [i \in 1 .. Len(qs) |-> [qs[i] EXCEPT !.next_avail = 0]]
RestoredQueues(qs) == qs

ForceActivate(qs) ==
    /\ dqueues' = Activated(RestoredQueues(qs))
    /\ status' = {"ACKNOWLEDGE", "DRIVER", "FEATURES_OK", "DRIVER_OK"}
    /\ activated' = TRUE

RestoreSnapshot ==
    /\ mode = "guest"
    /\ snapshot # <<>> /\ lives < workload.lives
    /\ LET vm == snapshot[1]
       IN  /\ IF vm.queues # <<>> THEN ForceActivate(vm.queues[1])
              ELSE dqueues' = <<>> /\ status' = {} /\ activated' = FALSE
           /\ guest' = vm.guest
           /\ sent' = vm.sent
           /\ wasReset' = vm.wasReset
           /\ lostIrq' = vm.interrupt
    /\ tqueues' = [i \in 1 .. NumQueues(kind) |-> NewQueue]
    /\ queueSel' = 0
    /\ interrupt' = FALSE
    /\ tapFd' \in BOOLEAN
    /\ tapIn' = <<>>
    /\ lives' = lives + 1
    /\ UNCHANGED <<kind, loop, arrived, snapshot, workload>>

-----------------------------------------------------------------------------
Init ==
    /\ kind \in Kinds
    /\ tqueues = [i \in 1 .. NumQueues(kind) |-> NewQueue]
    /\ queueSel = 0
    /\ status = {}
    /\ interrupt = FALSE
    /\ activated = FALSE
    /\ dqueues = <<>>
    /\ tapFd \in IF kind = "net" THEN BOOLEAN ELSE {FALSE}
    /\ mode = "guest"
    /\ received = FALSE
    /\ guest = FreshDriver
    /\ tapIn = <<>>
    /\ arrived = <<>>
    /\ sent = <<>>
    /\ snapshot = <<>>
    /\ lives = 0
    /\ workload \in IF kind = "net" THEN Workloads
                     ELSE {[w EXCEPT !.rx = 0, !.tx = 0, !.frames = 0] : w \in Workloads}
    /\ wasReset = FALSE
    /\ lostIrq = FALSE

Next ==
    \/ DriverSetup \/ DriverReset \/ DriverPostAny
    \/ \E n \in Queues : DriverKick(n) \/ DriverReap(n)
    \/ DriverTakesIrq \/ DriverLeavesIrq
    \/ PollDevices \/ ProcessRx \/ ProcessTx
    \/ FrameArrives \/ SaveSnapshot \/ RestoreSnapshot

Spec == Init /\ [][Next]_vars

-----------------------------------------------------------------------------
(* Properties.                                                             *)

IsPrefixOf(s, t) == Len(s) <= Len(t) /\ SubSeq(t, 1, Len(s)) = s

\* The device gives every chain back once, in the order the driver posted
\* them, whatever the indices wrapped to (Queue::pop and Queue::add_used).
ReturnedInOrder ==
    \A n \in Queues :
        IsPrefixOf(guest.reaped[n], [i \in DOMAIN guest.posted[n] |->
                                        guest.posted[n][i].head])

\* The frames process_tx writes to the TAP are the posted ones, each once, in
\* order and without a gap, through resets and snapshots of the VM.  A frame's
\* number is its chain's.
TxInOrder ==
    \A i \in DOMAIN sent :
        /\ sent[i][1] \in DOMAIN guest.posted[TX]
        /\ guest.posted[TX][sent[i][1]].what = sent[i][1]
        /\ \A j \in 1 .. i - 1 : sent[j][1] < sent[i][1]
        /\ \A k \in 1 .. sent[i][1] - 1 :
              guest.posted[TX][k].what = k => \E j \in 1 .. i - 1 : sent[j][1] = k

\* The guest receives TAP frames in order, each at most once, and the length
\* it is told is the header and the frame, cut at its buffer (process_rx).
RxInOrder ==
    \A i \in DOMAIN guest.got :
        /\ guest.got[i].frame \in DOMAIN arrived
        /\ guest.got[i].len = Min(BufLen, HdrLen + arrived[guest.got[i].frame])
        /\ \A j \in 1 .. i - 1 : guest.got[j].frame < guest.got[i].frame

\* Received frames the driver has not looked at are announced: by an interrupt
\* it will find a reason for, or in the handler it is running.  The exception
\* is a VM restored from one whose interrupt status was set, which the snapshot
\* does not hold (MmioTransport::poll, force_activate).
RxAnnounced ==
    Unseen(RX) /\ ~lostIrq =>
        \/ guest.irq = "handling"
        \/ guest.irq = "latched" /\ interrupt
        \/ mode = "rx" /\ received

\* A reset after the transport handed its queues over is final: they are not
\* made again, so nothing the driver posts afterwards moves.  Only a restore,
\* which makes a new transport, brings queues back
\* (MmioTransport::write, STATUS).
ResetIsFinal ==
    wasReset => /\ sent = <<>>
                /\ \A n \in Queues : guest.used[n] = EmptyUsed

\* process_rx loses a frame only if the driver left it no chain it can use.
RxLosesOnlyWithoutBuffer ==
    [][mode = "rx" /\ tapIn # <<>> /\ tapIn' = Tail(tapIn) /\ mode' = "guest" =>
         LET returned == Len(guest.reaped[RX]) +
                         ((guest.used[RX].idx - guest.lastUsed[RX]) % IdxMod)
         IN  \/ returned = Len(guest.posted[RX])
             \/ guest.posted[RX][returned + 1].what = Bad]_vars

=============================================================================
