------------------------------ MODULE Console -------------------------------
(***************************************************************************)
(* The console of one sandbox.  The callers of server.rs and rest.rs put   *)
(* bytes into console_input; the vCPU loop of exit_handler.rs hands them   *)
(* to an emulated 8250 port; a shell loop in the guest's /init runs each   *)
(* line and prints its output between two markers; the loop appends what   *)
(* the guest sends to console_output, which exec calls search and streams  *)
(* copy, each from a position of its own.                                  *)
(*                                                                         *)
(* A token stands for a word of bytes: a marker, a digit of an exit code,  *)
(* a word of output, "cr", "nl".  The guest's kernel and shell are         *)
(* external: their serial driver is the one the comment on SerialState     *)
(* describes, which sends a character per interrupt, and their terminal    *)
(* echoes what it reads and sends "cr" before "nl".                        *)
(***************************************************************************)
EXTENDS Naturals, Sequences, FiniteSetsExt

CONSTANTS Configs,   \* name -> what the environment does, see MCConsole
          Programs,  \* command -> [out, code, ends]
          Callers,   \* the calls in flight
          Streams,   \* the clients of stream_console
          Digits     \* tokens that are digits

(* Callers and users send commands there are.  A command prints neither of *)
(* the markers, and its exit code is made of digits.                       *)
ASSUME CallsAssumption ==
  \A k \in DOMAIN Configs :
    /\ Configs[k].typed \in Seq(Seq(DOMAIN Programs \cup {"nl"}))
    /\ \A c \in DOMAIN Configs[k].calls :
         LET a == Configs[k].calls[c] IN
         /\ a.cmds[1] \in DOMAIN Programs
         /\ a.op = "run_code" => a.cmds[2] \in DOMAIN Programs
ASSUME ProgramsAssumption ==
  /\ "nl" \notin DOMAIN Programs /\ Digits \cap {"cr", "nl"} = {}
  /\ \A p \in DOMAIN Programs :
       LET out == Programs[p].out IN
       /\ out \in Seq(Range(out)) /\ {"BEGIN", "END"} \cap Range(out) = {}
       /\ Programs[p].code \in Seq(Digits) /\ Programs[p].code # <<>>
ASSUME CallersAssumption == "nobody" \notin Callers

VARIABLES conf,      \* the name of the configuration
          state,     \* the sandbox's state in the orchestrator
          handle,    \* vm_handles has the sandbox
          stop,      \* stop_sandbox
          flag,      \* the shutdown flag
          input,     \* console_input
          console,   \* console_output
          vm,        \* the thread that runs the VM
          uart,      \* SerialState
          guest,     \* the guest's driver, terminal and shell
          call,      \* the exec calls
          stream,    \* the console streams
          left       \* what the environment may still do

shared == <<state, handle, stop, flag>>
vars == <<conf, shared, input, console, vm, uart, guest, call, stream, left>>

Cfg == Configs[conf]
Eol == <<"cr", "nl">>
-----------------------------------------------------------------------------
(* SerialState.  The registers the driver only reads back are left out.    *)

NewSerial == [ier |-> {"thre"}, dlab |-> FALSE, thre_pending |-> FALSE, queue |-> <<>>]

HasInput(u) == u.queue # <<>>

(* Mutant: received data raise no interrupt.                               *)
NeedsIrqTxOnly(u) == u.thre_pending
NeedsIrq(u) == u.thre_pending \/ (HasInput(u) /\ "rda" \in u.ier)

(* A write to a register: the port after it.                               *)
WriteThr(u) == IF u.dlab THEN u
               ELSE [u EXCEPT !.thre_pending = @ \/ "thre" \in u.ier]

WriteIer(u, bits) == IF u.dlab THEN u
                     ELSE [u EXCEPT !.ier = bits,
                                    !.thre_pending = @ \/ "thre" \in bits]

WriteLcr(u, dlab) == [u EXCEPT !.dlab = dlab]

(* Reading IIR names the interrupt; reading "thre" takes it back.          *)
Iir(u) == IF HasInput(u) /\ "rda" \in u.ier THEN "rda"
          ELSE IF u.thre_pending THEN "thre" ELSE "none"
ReadIir(u) == IF Iir(u) = "thre" THEN [u EXCEPT !.thre_pending = FALSE] ELSE u

ReadRbr(u) == [u EXCEPT !.queue = Tail(@)]
-----------------------------------------------------------------------------
(* The guest before the loop starts.  A cold VM has not set up its serial  *)
(* port.  A VM that was stopped at the boot marker is in the middle of     *)
(* sending: its driver has the transmit interrupt on and waits for it.     *)
NewGuest(cold) == [boot |-> IF cold THEN 0 ELSE 4, isr |-> "off", irq |-> ~cold,
                   ier |-> IF cold THEN {} ELSE {"rda", "thre"},
                   xmit |-> IF cold THEN <<>> ELSE Eol,
                   line |-> <<>>, lines |-> <<>>, shell |-> "read", cmd |-> <<>>]

NewCall == [pc |-> "idle", step |-> 1, base |-> 0, seen |-> 0, alone |-> FALSE,
            out |-> <<>>, code |-> <<>>, result |-> "none"]

NewStream == [pc |-> "idle", cursor |-> 0, still |-> TRUE, got |-> <<>>]

Init == /\ conf \in DOMAIN Configs
        /\ state = "Running" /\ handle = TRUE /\ stop = "idle" /\ flag = FALSE
        /\ input = <<>> /\ console = <<>> /\ vm = "running"
        /\ uart = NewSerial
        /\ guest = NewGuest(Cfg.cold)
        /\ call = [c \in Callers |-> NewCall]
        /\ stream = [s \in Streams |-> NewStream]
        /\ left = [typed |-> Cfg.typed, noise |-> Cfg.noise, printk |-> Cfg.printk]
-----------------------------------------------------------------------------
(* The vCPU loop.  One step is an exit with its handling and the head of   *)
(* the next iteration: the tests, then the input queue into the port.      *)

(* An interrupt stays latched until the guest takes it.                    *)
Inject(g, u) == [g EXCEPT !.irq = @ \/ NeedsIrq(u)]

Drained(u) == [u EXCEPT !.queue = @ \o input]

LoopHead(g, u, sent) ==
  /\ console' = console \o sent
  /\ \/ /\ Len(console') >= Cfg.maxOutput \/ flag
        /\ vm' = "returned"
        /\ uart' = u /\ guest' = g /\ UNCHANGED input
     \/ /\ Len(console') < Cfg.maxOutput /\ ~flag
        /\ vm' = vm
        /\ uart' = Drained(u)
        /\ guest' = IF input = <<>> THEN g ELSE Inject(g, Drained(u))
        /\ input' = <<>>
  /\ UNCHANGED <<conf, shared, call, stream, left>>

(* IoOut to the port, and IoIn from it.                                    *)
IoOut(g, u, sent) == LoopHead(Inject(g, u), u, sent)
IoIn(g, u) == LoopHead(g, u, <<>>)

(* The poll timer interrupts the guest every 10 ms.                        *)
Kick == /\ vm = "running"
        /\ input # <<>> \/ flag
        /\ LoopHead(guest, uart, <<>>)

(* The thread's end.  A VM taken from the pool had its output written to   *)
(* console_output as it came, and has all of it written there once more.   *)
VmEnds == /\ vm = "returned"
          /\ vm' = "ended"
          /\ console' = IF Cfg.pooled THEN console \o console ELSE console
          /\ UNCHANGED <<conf, shared, input, uart, guest, call, stream, left>>
-----------------------------------------------------------------------------
(* The guest's serial driver.                                              *)

(* Opening the port: the divisor under DLAB, then the receive interrupt.   *)
Startup == /\ vm = "running"
           /\ LET g == [guest EXCEPT !.boot = @ + 1] IN
              \/ guest.boot = 0 /\ IoOut(g, WriteLcr(uart, TRUE), <<>>)
              \/ guest.boot = 1 /\ IoOut(g, WriteThr(uart), <<>>)
              \/ guest.boot = 2 /\ IoOut(g, WriteLcr(uart, FALSE), <<>>)
              \/ guest.boot = 3 /\ IoOut([g EXCEPT !.ier = {"rda"}],
                                         WriteIer(uart, {"rda"}), <<>>)

Up == vm = "running" /\ guest.boot = 4

StartTx == /\ Up /\ guest.isr = "off"
           /\ guest.xmit # <<>> /\ "thre" \notin guest.ier
           /\ LET bits == guest.ier \cup {"thre"} IN
              IoOut([guest EXCEPT !.ier = bits], WriteIer(uart, bits), <<>>)

Interrupt == /\ Up /\ guest.isr = "off" /\ guest.irq
             /\ guest' = [guest EXCEPT !.irq = FALSE, !.isr = "iir"]
             /\ UNCHANGED <<conf, shared, input, console, vm, uart, call, stream, left>>

(* LSR, read next, says whether there is data.                             *)
AfterLsr(u) == IF HasInput(u) THEN "rx" ELSE "tx"

IsrIir == /\ Up /\ guest.isr = "iir"
          /\ IoIn([guest EXCEPT !.isr = IF Iir(uart) = "none" THEN "off" ELSE AfterLsr(uart)],
                  ReadIir(uart))

(* The terminal echoes what it gets and keeps whole lines for the shell.   *)
Received(g, t) ==
  LET e == [g EXCEPT !.xmit = Append(@, "echo")] IN
  IF t = "nl" THEN [e EXCEPT !.lines = Append(@, g.line), !.line = <<>>]
              ELSE [e EXCEPT !.line = Append(@, t)]

IsrRx == /\ Up /\ guest.isr = "rx"
         /\ LET u == ReadRbr(uart) IN
            IoIn(Received([guest EXCEPT !.isr = AfterLsr(u)], Head(uart.queue)), u)

IsrTx == /\ Up /\ guest.isr = "tx"
         /\ \/ /\ "thre" \in guest.ier /\ guest.xmit # <<>>
               /\ LET rest == Tail(guest.xmit) IN
                  IoOut([guest EXCEPT !.xmit = rest,
                                      !.isr = IF rest = <<>> THEN "stop" ELSE "iir"],
                        WriteThr(uart), <<Head(guest.xmit)>>)
            \/ /\ "thre" \notin guest.ier
               /\ IoIn([guest EXCEPT !.isr = "iir"], uart)

StopTx == /\ Up /\ guest.isr = "stop"
          /\ LET bits == IF guest.xmit = <<>> THEN guest.ier \ {"thre"} ELSE guest.ier IN
             IoOut([guest EXCEPT !.ier = bits, !.isr = "iir"], WriteIer(uart, bits), <<>>)

(* A kernel message: interrupts off, the characters, IER as it was read.   *)
Printk == /\ Up /\ left.printk > 0 /\ guest.isr = "off" /\ ~guest.irq
          /\ LET u == WriteIer(WriteThr(WriteIer(uart, {})), uart.ier) IN
             /\ console' = Append(console, "noise")
             /\ uart' = u
             /\ guest' = Inject(guest, u)
          /\ left' = [left EXCEPT !.printk = @ - 1]
          /\ UNCHANGED <<conf, shared, input, vm, call, stream>>
-----------------------------------------------------------------------------
(* The shell loop at the end of /init.  The guest has one CPU: the shell   *)
(* runs when no interrupt is handled, and a write has started the sender   *)
(* when it returns.                                                        *)

Runs == /\ Up /\ guest.isr = "off" /\ ~guest.irq
        /\ guest.xmit = <<>> \/ "thre" \in guest.ier

Shell(g) == guest' = g /\ UNCHANGED <<conf, shared, input, console, vm, uart, call, stream>>
Puts(g, text) == [g EXCEPT !.xmit = @ \o text]

(* A line that is not one command is a command the shell does not find.    *)
Program(line) == IF Len(line) = 1 THEN Programs[line[1]]
                 ELSE [out |-> <<"notfound", "cr", "nl">>, code |-> <<"1", "2", "7">>,
                       ends |-> TRUE]

ShellRead == /\ Runs /\ guest.shell = "read" /\ guest.lines # <<>>
             /\ LET line == Head(guest.lines)
                    g == [guest EXCEPT !.lines = Tail(@)] IN
                Shell(IF line = <<>> THEN g
                      ELSE Puts([g EXCEPT !.shell = "eval", !.cmd = line],
                                <<"BEGIN">> \o Eol))
             /\ UNCHANGED left

ShellEval == /\ Runs /\ guest.shell = "eval"
             /\ LET p == Program(guest.cmd) IN
                Shell(Puts([guest EXCEPT !.shell = IF p.ends THEN "end" ELSE "hangs"], p.out))
             /\ UNCHANGED left

ShellEnd == /\ Runs /\ guest.shell = "end"
            /\ Shell(Puts([guest EXCEPT !.shell = "read", !.cmd = <<>>],
                          <<"END">> \o Program(guest.cmd).code \o Eol))
            /\ UNCHANGED left

(* A service the entry script started writes to the console.               *)
Noise == /\ Runs /\ left.noise > 0
         /\ Shell(Puts(guest, <<"noise">>))
         /\ left' = [left EXCEPT !.noise = @ - 1]
-----------------------------------------------------------------------------
(* Exec calls.  exec_in_sandbox exists twice and asks for a running        *)
(* sandbox; exec_inner, which run_code, write_file and read_file use, only *)
(* for a handle.                                                           *)

Op(c) == Cfg.calls[c].op
Command(c) == Cfg.calls[c].cmds[call[c].step]
IsInner(c) == Op(c) \in {"run_code", "write_file", "read_file"}

SetCall(c, r) == /\ call' = [call EXCEPT ![c] = r]
                 /\ UNCHANGED <<conf, shared, input, console, vm, uart, guest, stream, left>>

TableFree == stop # "joining"
GuestIdle == /\ input = <<>> /\ uart.queue = <<>> /\ guest.shell = "read"
             /\ guest.line = <<>> /\ guest.lines = <<>> /\ guest.xmit = <<>>

(* What the handler makes of the answer.  run_code runs the file only if   *)
(* it could be written; read_file does not look at the exit code.          *)
Conclude(c, r) ==
  IF Op(c) = "run_code" /\ r.step = 1 /\ r.code = <<"0">>
  THEN [NewCall EXCEPT !.pc = "lookup", !.step = 2]
  ELSE [r EXCEPT !.pc = "done",
                 !.result = IF Op(c) \in {"run_code", "write_file"} /\ r.step = 1
                               /\ r.code # <<"0">> THEN "error" ELSE @]

CheckRunning(c) == /\ call[c].pc = "idle" /\ c \in DOMAIN Cfg.calls
                   /\ SetCall(c, IF IsInner(c) \/ state = "Running"
                                 THEN [call[c] EXCEPT !.pc = "lookup"]
                                 ELSE [call[c] EXCEPT !.pc = "done", !.result = "not running"])

(* exec_inner without a handle: exit code 1.                               *)
NoHandle(c) == IF IsInner(c)
               THEN Conclude(c, [call[c] EXCEPT !.code = <<"1">>, !.result = "no handle"])
               ELSE [call[c] EXCEPT !.pc = "done", !.result = "no handle"]

(* alone, a history variable: nothing else is under way on the console     *)
(* when the baseline is taken, and nobody sends until the answer.          *)
Lookup(c) == /\ call[c].pc = "lookup" /\ TableFree
             /\ SetCall(c, IF handle THEN [call[c] EXCEPT !.pc = "send", !.base = Len(console),
                                                          !.alone = GuestIdle]
                                     ELSE NoHandle(c))

(* Those whose answer is still to come, other than me, are not alone.      *)
Disturbed(me) == [c \in Callers |->
                    [call[c] EXCEPT !.alone = @ /\ (c = me \/ call[c].pc = "done")]]

Send(c) == /\ call[c].pc = "send"
           /\ input' = input \o <<Command(c), "nl">>
           /\ call' = [Disturbed(c) EXCEPT ![c].pc = "wait"]
           /\ UNCHANGED <<conf, shared, console, vm, uart, guest, stream, left>>

(* What was printed after the baseline.                                    *)
(* Mutant: the whole buffer is searched.                                   *)
TextAll(c) == console
Text(c) == SubSeq(console, call[c].base + 1, Len(console))

(* str::find: the first place of a marker, 0 for none.                     *)
Find(text, marker) ==
  IF marker \in Range(text)
  THEN CHOOSE i \in DOMAIN text : text[i] = marker /\ \A j \in 1..(i - 1) : text[j] # marker
  ELSE 0

TrimMatches(s, cs) == LET keep == {i \in DOMAIN s : s[i] \notin cs} IN
                      IF keep = {} THEN <<>> ELSE SubSeq(s, Min(keep), Max(keep))

(* parse::<i32>().unwrap_or(0) of what follows the end marker.             *)
Parse(s) == IF s # <<>> /\ Range(s) \subseteq Digits THEN s ELSE <<"0">>

Extract(c, text) ==
  LET end == Find(text, "END")
      begin == Find(text, "BEGIN")
      content == IF begin = 0 THEN <<>>
                 ELSE TrimMatches(TrimMatches(SubSeq(text, begin + 1, end - 1), {"nl"}), {"cr"})
      after == SubSeq(text, end + 1, Len(text)) IN
  IF begin > end
  THEN [call[c] EXCEPT !.pc = "done", !.result = "panic"]   \* a slice out of order
  ELSE Conclude(c, [call[c] EXCEPT !.out = content, !.seen = Len(console),
                                   !.code = Parse(TrimMatches(after, {"cr", "nl"})),
                                   !.result = "answer"])

(* Every 100 ms, until there is an answer or, looked at after that, 30 s   *)
(* have passed.  Cfg.slow are the calls to which that may happen.          *)
Poll(c) == /\ call[c].pc = "wait"
           /\ \/ /\ "END" \in Range(Text(c))
                 /\ SetCall(c, Extract(c, Text(c)))
              \/ /\ c \in Cfg.slow /\ "END" \notin Range(Text(c))
                 /\ SetCall(c, [call[c] EXCEPT !.pc = "late"])

(* exec_in_sandbox of server.rs reads the buffer again and returns all of  *)
(* it, the others return nothing.                                          *)
Deadline(c) == /\ call[c].pc = "late"
               /\ SetCall(c, Conclude(c, [call[c] EXCEPT !.result = "timeout",
                                            !.out = IF Op(c) = "exec" THEN Text(c) ELSE <<>>,
                                            !.code = <<"-1">>]))

(* send_console_input.                                                     *)
Typed == /\ left.typed # <<>>
         /\ state = "Running" /\ handle /\ TableFree
         /\ input' = input \o Head(left.typed)
         /\ left' = [left EXCEPT !.typed = Tail(@)]
         /\ call' = Disturbed("nobody")
         /\ UNCHANGED <<conf, shared, console, vm, uart, guest, stream>>
-----------------------------------------------------------------------------
(* stream_console.                                                         *)

SetStream(s, r) == /\ stream' = [stream EXCEPT ![s] = r]
                   /\ UNCHANGED <<conf, shared, input, console, vm, uart, guest, call, left>>

StreamOpen(s) == /\ stream[s].pc = "idle" /\ s \in Cfg.streams
                 /\ TableFree
                 /\ SetStream(s, [stream[s] EXCEPT
                      !.pc = IF state = "Running" /\ handle THEN "check" ELSE "refused"])

StreamCheck(s) == /\ stream[s].pc = "check"
                  /\ SetStream(s, [stream[s] EXCEPT !.pc = "drain",
                                                    !.still = state = "Running"])

NewData(s) == SubSeq(console, stream[s].cursor + 1, Len(console))

(* Mutant: the cursor stays, as it does in the final drain.                *)
StreamDrainStays(s) ==
  /\ stream[s].pc = "drain"
  /\ SetStream(s, [stream[s] EXCEPT !.got = @ \o NewData(s),
                                    !.pc = IF stream[s].still THEN "check" ELSE "final"])
StreamDrain(s) ==
  /\ stream[s].pc = "drain"
  /\ SetStream(s, [stream[s] EXCEPT !.got = @ \o NewData(s),
                                    !.cursor = Len(console),
                                    !.pc = IF stream[s].still THEN "check" ELSE "final"])

StreamFinal(s) == /\ stream[s].pc = "final"
                  /\ SetStream(s, [stream[s] EXCEPT !.got = @ \o NewData(s), !.pc = "ended"])
-----------------------------------------------------------------------------
(* stop_sandbox: the handle is taken and the thread joined under the       *)
(* table's lock, for 5 s at most; then the sandbox is stopped.             *)

SetStop(s) == stop' = s /\ UNCHANGED <<conf, input, console, vm, uart, guest, call, stream, left>>

StopTake == /\ stop = "idle" /\ Cfg.stops
            /\ handle' = FALSE /\ flag' = TRUE
            /\ SetStop("joining") /\ UNCHANGED state

StopJoined == /\ stop = "joining" /\ vm = "ended"
              /\ SetStop("joined") /\ UNCHANGED <<state, handle, flag>>

StopTimesOut == /\ stop = "joining" /\ vm # "ended"
                /\ SetStop("timedout") /\ UNCHANGED <<state, handle, flag>>

StopOrch == /\ stop \in {"joined", "timedout"} /\ state = "Running"
            /\ state' = "Stopped"
            /\ SetStop(stop) /\ UNCHANGED <<handle, flag>>
-----------------------------------------------------------------------------
GuestStep == \/ Startup \/ StartTx \/ Interrupt \/ IsrIir \/ IsrRx \/ IsrTx \/ StopTx
             \/ ShellRead \/ ShellEval \/ ShellEnd

CallStep(c) == CheckRunning(c) \/ Lookup(c) \/ Send(c) \/ Poll(c) \/ Deadline(c)

StreamStep(s) == StreamOpen(s) \/ StreamCheck(s) \/ StreamDrain(s) \/ StreamFinal(s)

StopStep == StopTake \/ StopJoined \/ StopTimesOut \/ StopOrch

Next == \/ GuestStep \/ Kick \/ VmEnds
        \/ Printk \/ Noise \/ Typed
        \/ \E c \in Callers : CallStep(c)
        \/ \E s \in Streams : StreamStep(s)
        \/ StopStep

(* The vCPU runs, and the poll timer interrupts it; nothing is asked of    *)
(* the clients or of the kernel's messages.                                *)
Spec == /\ Init /\ [][Next]_vars
        /\ WF_vars(GuestStep) /\ WF_vars(Kick) /\ WF_vars(VmEnds)
-----------------------------------------------------------------------------
Answered(c) == call[c].pc = "done" /\ call[c].result = "answer"
Blank == {"cr", "nl", "noise"}
Words(s) == LET words[n \in 0 .. Len(s)] ==
                  IF n = 0 THEN <<>>
                  ELSE IF s[n] \in Blank THEN words[n - 1] ELSE Append(words[n - 1], s[n])
            IN  words[Len(s)]
Own(c) == Programs[Command(c)]
EndLine(c) == LET text == SubSeq(console, call[c].base + 1, call[c].seen) IN
              SubSeq(text, Find(text, "END") + 1, Len(text))

(* An exec call that nobody disturbs (the guest was idle when it took its  *)
(* baseline, nobody sent anything until its answer) returns the output of  *)
(* its own command, though a service may print in between and earlier      *)
(* commands' markers are in the buffer; and its own exit code, if the poll *)
(* saw the whole end line and nothing after it.  The second copy of the    *)
(* console that a pooled VM's thread appends when it ends is left out: a   *)
(* call still waiting then finds an earlier command's markers in it.       *)
ExecAnswersItself ==
  \A c \in Callers :
    Answered(c) /\ call[c].alone /\ ~(Cfg.pooled /\ vm = "ended") =>
      /\ Words(call[c].out) = Words(Own(c).out)
      /\ EndLine(c) = Own(c).code \o Eol => call[c].code = Own(c).code

(* A stream delivers the console from its first byte, in order and once;   *)
(* one that has ended after stop_sandbox joined the VM's thread has        *)
(* delivered all of it.                                                    *)
StreamWhole ==
  \A s \in Streams :
    /\ Len(stream[s].got) <= Len(console)
    /\ stream[s].got = SubSeq(console, 1, Len(stream[s].got))
    /\ stream[s].pc = "ended" /\ stop = "joined" => stream[s].got = console

(* Input reaches the guest, however idle it is: what is in console_input   *)
(* gets to the port at the next poll and is announced by an interrupt, or  *)
(* the VM ends.  Of a VM resumed at the boot marker this is true only once *)
(* the kernel has printed a message: the new SerialState has forgotten the *)
(* transmit interrupt the driver waits for and that it wants to be told of *)
(* input.                                                                  *)
Awake == Cfg.cold \/ left.printk < Cfg.printk
InputReachesGuest == (Awake /\ input # <<>>)
                     ~> (input = <<>> /\ uart.queue = <<>>) \/ vm # "running"
=============================================================================
