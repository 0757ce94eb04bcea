----------------------------- MODULE GdbSession -----------------------------
(***************************************************************************)
(* A debugger and the gdb server of the probe: class Gdb (ui/gdb.cpp) over *)
(* TapMcu, with the monitor commands that reach the CPU (ui/devcmd.cpp)    *)
(* and the packet link as far as it decides when a session ends            *)
(* (util/gdb_proto.cpp).                                                   *)
(*                                                                         *)
(* The server is one thread.  It opens the target, reads packets while     *)
(* idle, polls while the program runs, and after a session closes the      *)
(* target and opens it again.  The target runs beside it.  The debugger    *)
(* sends one packet at a time, and the interrupt character whenever it has *)
(* let the program run; they wait in the UART's FIFO, rx.  The line may    *)
(* damage a packet; the debugger then sends one again.                     *)
(***************************************************************************)
EXTENDS TapMcu, Sequences, Integers

CONSTANTS
    Set,       \* the pc values a debugger sets
    MaxRx,     \* bound on the characters and packets that wait in rx
    SendsPlus  \* whether the debugger ever sends "+" outside a packet

ASSUME SetAssumption == Set \subseteq Value

ASSUME BoundsAssumption == MaxRx \in Nat /\ SendsPlus \in BOOLEAN

VARIABLES
    phase,     \* where the server is
    rx,        \* the UART's receive FIFO
    reply,     \* the last packet sent to the debugger, and to what
    waiting,   \* the debugger waits for a reply
    send_ack,  \* GdbData::send_ack_
    told       \* the pc a P packet set last (not in the code)

serverVars == <<phase, rx, reply, waiting, send_ack, told>>
vars       == <<tapVars, serverVars>>

\* "closed": in Serve, before Open.  "opened", "captured", "identified": in Open, with
\* the port open, the target held, its record loaded.  "polling": in Gdb::Run, about to poll.
\* "draining": there, reading characters.  "halting": there, about to halt.
\* "monitor": in cmd_run's loop.  "closing": ReaderLoop has returned.
\* "aborted": McuCore::Abort.
Opening == {"opened", "captured", "identified"}
Phase == Opening \cup {"closed", "idle", "polling", "draining", "halting", "monitor",
          "closing", "aborted"}

\* Packets without an argument.  "memory" stands for every packet that
\* touches neither the CPU nor the session, "none" for an unknown one, and
\* "damaged" for any of them that the line did not leave whole.
Plain == {"?", "c", "g", "R", "s", "D", "k", "QStartNoAckMode", "memory", "none",
          "monitor run", "monitor reset", "monitor erase", "damaged"}
WithPc == {"c addr", "P", "G", "monitor set"}
Packet == [cmd : Plain] \cup [cmd : WithPc, val : Set]

\* "late" is an interrupt character whose run was answered before it was read.
Char    == [cmd : {"int", "late", "+"}]
CtrlC     == [cmd |-> "int"]
LateCtrlC == [cmd |-> "late"]

Runs(cmd) == cmd \in {"c", "c addr", "monitor run"}

NotTold == [by |-> "nobody", val |-> EmptyPc]
Told    == [by : {"P", "nobody"}, val : Value]
Reply   == [to : Plain \cup WithPc \cup {"nothing"},
            is : {"OK", "E05", "T05", "regs", "none", "-"}, val : Value]

NoReply == [to |-> "nothing", is |-> "none", val |-> EmptyPc]

Init ==
    /\ TapInit
    /\ phase = "closed" /\ rx = <<>> /\ waiting = FALSE /\ send_ack = 0
    /\ reply = NoReply
    /\ told = NotTold

-----------------------------------------------------------------------------
(* Replies *)

\* What is left of rx once its runs are answered.
Stale(s) == [i \in DOMAIN s |-> IF s[i] = CtrlC THEN LateCtrlC ELSE s[i]]

\* FlushAck: with send_ack_ set, the wait for the debugger's "+" gives up at
\* once, because the test of the stop watch is inverted, and the caller's -1
\* ends ReaderLoop.
AfterReply(ack) == IF ack = 0 THEN "idle" ELSE "closing"

Send(cmd, is, val, rest, next) ==
    /\ reply' = [to |-> cmd, is |-> is, val |-> val]
    /\ waiting' = FALSE
    /\ rx' = Stale(rest)
    /\ phase' = next

\* ErrorJtag, OK, and the empty reply to what is not supported.
Answer(cmd, is, rest) ==
    Send(cmd, is, EmptyPc, rest, AfterReply(send_ack)) /\ UNCHANGED send_ack

\* RunFinalStatus and ReadRegisters.
AnswerRegs(cmd, is, rest) ==
    Send(cmd, is, ReportedPc, rest, AfterReply(send_ack)) /\ UNCHANGED send_ack

-----------------------------------------------------------------------------
(* The reader of packets *)

\* Mutant: the packet is looked for, and what came before it stays in rx.
ReadingAhead ==
    LET packets == {i \in DOMAIN rx : rx[i] \in Packet}
        first   == IF packets = {} THEN 1
                   ELSE CHOOSE i \in packets : \A j \in packets : i <= j
    IN [packet |-> rx[first], rest |-> SubSeq(rx, 1, first - 1) \o SubSeq(rx, first + 1, Len(rx))]

\* gdb_read_packet.
Reading == [packet |-> Head(rx), rest |-> Tail(rx)]

\* ProcessCommand has command cmd before it.
Reads(cmd) == phase = "idle" /\ rx # <<>> /\ Reading.packet.cmd = cmd

\* Mutant: only a "+" is dropped.
DropPlusOnly ==
    /\ phase = "idle" /\ rx # <<>> /\ Head(rx).cmd = "+"
    /\ rx' = Tail(rx)
    /\ send_ack' = -1
    /\ UNCHANGED <<tapVars, phase, reply, waiting, told>>

\* Mutant: the acknowledgements to come are counted.
DropCounting ==
    /\ phase = "idle" /\ rx # <<>> /\ Head(rx) \in Char
    /\ rx' = Tail(rx)
    /\ send_ack' = send_ack - 1
    /\ UNCHANGED <<tapVars, phase, reply, waiting, told>>

\* What comes before a "$" is dropped; a "+" asks for acknowledgements.
DropChar ==
    /\ phase = "idle" /\ rx # <<>> /\ Head(rx) \in Char
    /\ rx' = Tail(rx)
    /\ send_ack' = IF Head(rx).cmd = "+" THEN -1 ELSE send_ack
    /\ UNCHANGED <<tapVars, phase, reply, waiting, told>>

\* A damaged packet has a wrong checksum, or no end within 100 ms: then what
\* comes behind it is taken for a part of it.  The debugger repeats it when it
\* gets the "-", or when it gets nothing because the "$" is missing.
DamagedPacket ==
    /\ Reads("damaged")
    /\ \E is \in {"-", "none"}, rest \in {Reading.rest, <<>>} :
          Send("damaged", is, EmptyPc, rest, "idle")
    /\ UNCHANGED <<tapVars, send_ack, told>>

QueryStatus ==
    /\ Reads("?")
    /\ AnswerRegs("?", "T05", Reading.rest)
    /\ UNCHANGED <<tapVars, told>>

ReadRegisters ==
    /\ Reads("g")
    /\ AnswerRegs("g", "regs", Reading.rest)
    /\ UNCHANGED <<tapVars, told>>

WriteRegister ==
    /\ Reads("P")
    /\ SetPcCached(Reading.packet.val)
    /\ Answer("P", "OK", Reading.rest)
    /\ told' = [by |-> "P", val |-> Reading.packet.val]

\* G, and monitor set, which reads all registers and writes them back.
WriteRegisters ==
    \E cmd \in {"G", "monitor set"} :
        /\ Reads(cmd)
        /\ SetAllRegs(Reading.packet.val)
        /\ Answer(cmd, "OK", Reading.rest)
        /\ told' = NotTold

\* R, r and monitor reset: ExecutePOR's result is compared with "< 0".
RestartProgram ==
    \E cmd \in {"R", "monitor reset"}, ok \in BOOLEAN :
        /\ Reads(cmd)
        /\ IF ok THEN SoftReset ELSE UNCHANGED tapVars
        /\ Answer(cmd, "OK", Reading.rest)
        /\ told' = NotTold

\* No other packet touches the CPU or the session.
OtherPacket ==
    \E cmd \in {"memory", "none"} :
        /\ Reads(cmd)
        /\ Answer(cmd, IF cmd = "none" THEN "none" ELSE "OK", Reading.rest)
        /\ UNCHANGED <<tapVars, told>>

\* send_ack_ is set before the answer, so the answer already waits.
StartNoAckMode ==
    /\ Reads("QStartNoAckMode")
    /\ send_ack' = 1
    /\ Send("QStartNoAckMode", "OK", EmptyPc, Reading.rest, AfterReply(1))
    /\ UNCHANGED <<tapVars, told>>

\* D and k return -1 whatever came of their reply.
EndSession ==
    \E cmd \in {"D", "k"} :
        /\ Reads(cmd)
        /\ Send(cmd, IF cmd = "D" THEN "OK" ELSE "none", EmptyPc, Reading.rest, "closing")
        /\ UNCHANGED <<tapVars, send_ack, told>>

\* TapMcu::OnSingleStep is not written yet.
SingleStep ==
    /\ Reads("s")
    /\ rx' = Reading.rest
    /\ phase' = "aborted"
    /\ UNCHANGED <<tapVars, reply, waiting, send_ack, told>>

\* cmd_erase halts first; the erasing is that of module TargetMemory.
MonitorErase ==
    /\ Reads("monitor erase")
    /\ HaltSucceeds \/ HaltFails
    /\ Answer("monitor erase", "OK", Reading.rest)
    /\ UNCHANGED told

-----------------------------------------------------------------------------
(* Running the program *)

Continue ==
    /\ \/ Reads("c") /\ Run
       \/ Reads("c addr") /\ RunTo(Reading.packet.val)
    /\ rx' = Reading.rest
    /\ phase' = "polling"
    /\ told' = NotTold
    /\ UNCHANGED <<reply, waiting, send_ack>>

\* TapMcu::OnPoll sees the program stopped ...
PollStopped ==
    /\ phase = "polling" /\ mode = "stopped"
    /\ phase' = "halting"
    /\ UNCHANGED <<tapVars, rx, reply, waiting, send_ack, told>>

\* ... or running; then the UART is read until it is empty.
PollRunning ==
    /\ phase = "polling" /\ mode # "stopped"
    /\ phase' = "draining"
    /\ UNCHANGED <<tapVars, rx, reply, waiting, send_ack, told>>

\* Mutant: the run ends at code 4, which the debugger does not send.
OtherCode == {}

\* The character with code 3, whenever it was sent.
Interrupts == {CtrlC, LateCtrlC}

Interrupted ==
    /\ phase = "draining" /\ rx # <<>> /\ Head(rx) \in Interrupts
    /\ rx' = Tail(rx)
    /\ phase' = "halting"
    /\ UNCHANGED <<tapVars, reply, waiting, send_ack, told>>

Ignored ==
    /\ phase = "draining" /\ rx # <<>> /\ Head(rx) \notin Interrupts
    /\ rx' = Tail(rx)
    /\ UNCHANGED <<tapVars, phase, reply, waiting, send_ack, told>>

Drained ==
    /\ phase = "draining" /\ rx = <<>>
    /\ phase' = "polling"
    /\ UNCHANGED <<tapVars, rx, reply, waiting, send_ack, told>>

HaltAndReport ==
    \/ HaltSucceeds /\ AnswerRegs("c", "T05", rx)
    \/ HaltFails /\ Answer("c", "E05", rx)

Stop ==
    /\ phase = "halting"
    /\ HaltAndReport
    /\ UNCHANGED told

\* cmd_run.  With a breakpoint at the pc it steps first, and that aborts.
MonitorRun ==
    /\ Reads("monitor run")
    /\ rx' = Reading.rest
    /\ \/ Run /\ phase' = "monitor" /\ told' = NotTold
       \/ phase' = "aborted" /\ UNCHANGED <<tapVars, told>>
    /\ UNCHANGED <<reply, waiting, send_ack>>

\* Its loop polls and reads no character.
MonitorStop ==
    /\ phase = "monitor" /\ mode = "stopped"
    /\ \/ HaltSucceeds /\ AnswerRegs("monitor run", "regs", rx)
       \/ HaltFails /\ Answer("monitor run", "OK", rx)
    /\ UNCHANGED told

-----------------------------------------------------------------------------
(* Sessions *)

\* A step of Open is done, or fails: Serve tries six times and returns, and main
\* calls it again.
OpenStep(from, done, fails, to) ==
    /\ phase = from
    /\ \/ done /\ phase' = to
       \/ fails /\ phase' = "closed"
    /\ told' = NotTold
    /\ UNCHANGED <<rx, reply, waiting, send_ack>>

ServeOpens ==
    \/ OpenStep("closed", OpenPort, OpenPort, "opened")
    \/ OpenStep("opened", InitDevice, InitDeviceFails, "captured")
    \/ OpenStep("captured", ProbeId, IdentificationFails, "identified")
    \/ OpenStep("identified", StartMcu, IdentificationFails, "idle")

\* Mutant: the UART is flushed between sessions.
ServeClosesAndFlushes ==
    /\ phase = "closing"
    /\ CloseTap
    /\ phase' = "closed"
    /\ told' = NotTold
    /\ rx' = <<>>
    /\ UNCHANGED <<reply, waiting, send_ack>>

ServeCloses ==
    /\ phase = "closing"
    /\ CloseTap
    /\ phase' = "closed"
    /\ told' = NotTold
    /\ UNCHANGED <<rx, reply, waiting, send_ack>>

-----------------------------------------------------------------------------
(* The debugger and the target *)

Room == Len(rx) < MaxRx

SendPacket ==
    /\ ~waiting /\ Room
    /\ \E p \in Packet : rx' = Append(rx, p)
    /\ waiting' = TRUE
    /\ reply' = NoReply
    /\ UNCHANGED <<tapVars, phase, send_ack, told>>

\* The interrupt character, while a run was asked for and is not answered.
SendInterrupt ==
    /\ waiting /\ Room
    /\ phase \in {"polling", "draining", "halting", "monitor"}
       \/ \E i \in DOMAIN rx : Runs(rx[i].cmd)
    /\ rx' = Append(rx, CtrlC)
    /\ UNCHANGED <<tapVars, phase, reply, waiting, send_ack, told>>

SendPlus ==
    /\ SendsPlus /\ Room
    /\ rx' = Append(rx, [cmd |-> "+"])
    /\ UNCHANGED <<tapVars, phase, reply, waiting, send_ack, told>>

Debugger == SendPacket \/ SendInterrupt \/ SendPlus

Target ==
    /\ ProgramRuns \/ EemStops \/ (phase = "closed" /\ PartReplaced)
    /\ UNCHANGED serverVars

Server ==
    \/ DropChar \/ DamagedPacket \/ QueryStatus \/ ReadRegisters \/ WriteRegister \/ WriteRegisters
    \/ RestartProgram \/ OtherPacket \/ StartNoAckMode \/ EndSession \/ SingleStep
    \/ MonitorErase \/ Continue \/ PollStopped \/ PollRunning \/ Interrupted
    \/ Ignored \/ Drained \/ Stop \/ MonitorRun \/ MonitorStop
    \/ ServeOpens \/ ServeCloses

\* McuCore::Abort does not return.
Aborted == phase = "aborted" /\ UNCHANGED vars

Next == Server \/ Debugger \/ Target \/ Aborted

Spec == Init /\ [][Next]_vars

\* The server's loop never rests: McuCore runs it and nothing else.
FairSpec == Spec /\ WF_vars(Server)

-----------------------------------------------------------------------------
(* What the checks look for *)

TypeOK ==
    /\ part \in Part /\ driver \in Driver /\ chip \in Chip /\ attached \in BOOLEAN
    /\ ctx \in Value /\ pc \in Value /\ mode \in Mode /\ wdt \in Watchdog
    /\ phase \in Phase /\ waiting \in BOOLEAN /\ send_ack \in {-1, 0, 1}
    /\ rx \in Seq(Packet \cup Char) /\ Len(rx) <= MaxRx
    /\ reply \in Reply /\ told \in Told

InSession == phase \notin Opening \cup {"closed"}

CpuOf(d) == CASE d = "430" -> "Cpu" [] d = "430X" -> "CpuX" [] OTHER -> "CpuXv2"

\* In a session the asserts of SoftReset, Run, SingleStep and Halt ("Check flag
\* before call") cannot fire and the calls go to the driver of the part at hand:
\* that of its CPU, the one for the erratum if its record asks for it, whatever
\* part, profile and driver an earlier, failed or ended session had, and also when
\* the database does not know the part (a CPUX part it does not know is the
\* exception: nothing tells it from a part with the older CPU).
CallsFitTheTarget ==
    InSession =>
        /\ attached
        /\ part.record # NoRecord \/ part.cpu # "CpuX" => CpuOf(driver) = part.cpu
        /\ part.record # NoRecord /\ part.cpu = "CpuXv2" =>
              (driver = "Xv2_1377" <=> part.record.issue_1377)

Packets == {i \in DOMAIN rx : rx[i] \in Packet}

Busy == phase \in {"polling", "draining", "halting", "monitor", "aborted"}

\* No packet is lost and none is answered twice, damaged or not and across the
\* ends of sessions too: while the debugger waits, its packet is either in the
\* FIFO, once, or in the hands of the server, and else there is none.
OneConversation ==
    /\ \A i, j \in Packets : i = j
    /\ waiting <=> (Busy \/ Packets # {})
    /\ ~(Busy /\ Packets # {})

Answers(cmd, is) == reply' # reply /\ reply'.to = cmd /\ reply'.is = is

\* The step that starts a run which a c packet without address asks for.
Continues == phase = "idle" /\ phase' = "polling" /\ Reading.packet.cmd = "c"

\* A run that c started is answered with a stop reply only when JTAG holds the
\* CPU; on Xv2 parts OnHalt only reads the identity of the CPU.
StopReplyUnderControl == [][Answers("c", "T05") /\ ~IsXv2 => mode' = "jtag"]_vars

\* An interrupt character stops the run it was sent for and no later one,
\* however long it waited behind the packets of the debugger.
LateInterruptIgnored ==
    [][phase = "draining" /\ phase' = "halting" => Head(rx) = CtrlC]_vars

\* The pc a P packet set is the one g reports and the one c starts at, until a
\* run, a reset, another write or the end of the session.
PcWriteKept ==
    [][told.by = "P" =>
          /\ Answers("g", "regs") => reply'.val = told.val
          /\ Continues /\ mode = "jtag" => pc' = told.val]_vars

-----------------------------------------------------------------------------
(* What the source says of itself, and does not keep *)

\* The pc that a stop reply or the answer to g reports is the CPU's, whatever
\* was run, halted, reset or written before (CpuContext::pc_, "Cached value of
\* the program counter").
ReportedPcTrue ==
    [][reply' # reply /\ reply'.is \in {"T05", "regs"} /\ mode' = "jtag" =>
          reply'.val = pc']_vars

\* Only D and k end a session, and an acknowledged reply does not.
SessionOutlivesReply ==
    [][reply' # reply /\ reply'.to \notin {"D", "k", "damaged", "nothing"} => phase' = "idle"]_vars

-----------------------------------------------------------------------------
(* Progress *)

Interruptible == phase \in {"polling", "draining"} /\ \E i \in DOMAIN rx : rx[i] = CtrlC

\* An interrupt ends a run that c started, breakpoint or no breakpoint.
InterruptAnswered == Interruptible ~> ~waiting

\* The server takes a packet that waits for it in a session to its answer,
\* starts the run it asks for, or gives up (SingleStep).
PacketTaken == phase = "idle" /\ Packets # {} ~> ~waiting \/ Busy
=============================================================================
