------------------------------ MODULE Gdb_proof ------------------------------
(***************************************************************************)
(* Proofs about the gdb server: its conversation with the debugger         *)
(* (GdbSession), its breakpoints (EemBreakpoints), and the frames its      *)
(* replies travel in (GdbFrame).                                           *)
(*                                                                         *)
(* The conversation is proved for every set of parts, pc values and every  *)
(* capacity of the FIFO.  Its inductive invariant, Conversing, is          *)
(* OneConversation with LateComeFirst: where the late characters stand in  *)
(* the FIFO.  That a pc which was written is kept rests on ToldIsCached.   *)
(*                                                                         *)
(* The breakpoints are proved for every size of the table, number of       *)
(* trigger blocks and set of addresses.  NoLostBreakpoint is not           *)
(* inductive.  It follows from CleanIsWritten and from the fact that a run *)
(* leaves nothing to be written; CleanIsWritten is kept because disabling  *)
(* an entry leaves its trigger block alone and enabling one marks it dirty.*)
(*                                                                         *)
(* A frame is readable whatever text it carries, however long it is and    *)
(* however long its runs are.                                              *)
(***************************************************************************)
EXTENDS GdbSession, EemBreakpoints, GdbFrame, Recursion, SequenceTheorems, TLAPS

\* What waits in the FIFO.
Item == Packet \cup Char

\* The state of the target and of the probe's view of it has its type.
TapTypeOK ==
    /\ part \in Part /\ driver \in Driver /\ chip \in Chip /\ attached \in BOOLEAN
    /\ ctx \in Value /\ pc \in Value /\ mode \in Mode /\ wdt \in Watchdog

-----------------------------------------------------------------------------
(* The FIFO. *)

\* Packets and characters are told apart by their command.
LEMMA ItemFacts ==
    ASSUME NEW x \in Item
    PROVE  /\ x \in Packet <=> x.cmd \in Plain \cup WithPc
           /\ x.cmd \in WithPc => x.val \in Set
           /\ x.cmd = "int" => x = CtrlC
           /\ x.cmd = "late" => x = LateCtrlC
  BY DEF Item, Packet, Char, Plain, WithPc, CtrlC, LateCtrlC

LEMMA CharFacts ==
    /\ CtrlC \in Char /\ LateCtrlC \in Char /\ [cmd |-> "+"] \in Char
    /\ CtrlC # LateCtrlC
    /\ CtrlC \notin Packet /\ LateCtrlC \notin Packet /\ [cmd |-> "+"] \notin Packet
  BY DEF Packet, Char, Plain, WithPc, CtrlC, LateCtrlC

LEMMA StaleFacts ==
    ASSUME NEW s \in Seq(Item)
    PROVE  /\ Stale(s) \in Seq(Item)
           /\ Len(Stale(s)) = Len(s)
           /\ \A i \in 1 .. Len(s) :
                 Stale(s)[i] = IF s[i] = CtrlC THEN LateCtrlC ELSE s[i]
  <1>1. DOMAIN s = 1 .. Len(s) /\ Len(s) \in Nat /\ \A i \in 1 .. Len(s) : s[i] \in Item
    BY LenProperties, ElementOfSeq
  <1>2. Stale(s) = [i \in 1 .. Len(s) |-> IF s[i] = CtrlC THEN LateCtrlC ELSE s[i]]
    BY <1>1 DEF Stale
  <1>3. \A i \in 1 .. Len(s) : Stale(s)[i] = IF s[i] = CtrlC THEN LateCtrlC ELSE s[i]
    BY <1>2
  <1>4. Stale(s) \in [1 .. Len(s) -> Item]
    BY <1>1, <1>2, CharFacts DEF Item
  <1>5. Stale(s) \in Seq(Item)
    BY <1>1, <1>4, SeqDef
  <1>6. Len(Stale(s)) = Len(s)
    BY <1>1, <1>2, <1>5, LenProperties
  <1> QED BY <1>3, <1>5, <1>6

\* A command is read from the head of the FIFO.
LEMMA ReadsFacts ==
    ASSUME NEW cmd, cmd \in Plain \cup WithPc, rx \in Seq(Item), Reads(cmd)
    PROVE  /\ phase = "idle"
           /\ rx # <<>> /\ Len(rx) >= 1 /\ 1 \in DOMAIN rx
           /\ Reading.packet = rx[1] /\ rx[1] \in Packet /\ rx[1].cmd = cmd
           /\ cmd \in WithPc => Reading.packet.val \in Set
           /\ Reading.rest = Tail(rx)
  <1>1. phase = "idle" /\ rx # <<>> /\ Reading.packet.cmd = cmd
    BY DEF Reads
  <1>2. Len(rx) >= 1 /\ DOMAIN rx = 1 .. Len(rx) /\ Len(rx) \in Nat
    BY <1>1, EmptySeq, LenProperties
  <1>3. Reading.packet = rx[1] /\ Reading.rest = Tail(rx)
    BY <1>1 DEF Reading
  <1>4. rx[1] \in Item
    BY <1>2, ElementOfSeq
  <1> QED BY <1>1, <1>2, <1>3, <1>4, ItemFacts

\* The FIFO behind what is taken from it.
LEMMA TailFacts ==
    ASSUME NEW s \in Seq(Item), s # <<>>
    PROVE  /\ Tail(s) \in Seq(Item)
           /\ Len(Tail(s)) = Len(s) - 1 /\ Len(s) \in Nat /\ Len(s) >= 1
           /\ \A i \in 1 .. Len(s) - 1 : Tail(s)[i] = s[i + 1]
  BY HeadTailProperties, EmptySeq, LenProperties

-----------------------------------------------------------------------------
(* Types of the target and of what is kept about it. *)

LEMMA StutterType == ASSUME TapTypeOK, UNCHANGED tapVars PROVE TapTypeOK'
  BY DEF TapTypeOK, tapVars, mcuVars, targetVars

LEMMA ChipFacts ==
    /\ \A d \in Driver : DefaultChip(d) \in Chip
    /\ \A c \in Chip : DriverOf(c) \in Driver
    /\ \A p \in Part : p.record \in Chip \cup {NoRecord} /\ p.cpu \in Cpu
    /\ GeneralDriver \in Driver /\ CapturingDriver \in Driver
  BY PartAssumption DEF DefaultChip, DriverOf, GeneralDriver, CapturingDriver, Driver, Chip, Cpu

\* A step of Open, done or failed.
OpenCall ==
    OpenPort \/ InitDevice \/ InitDeviceFails \/ ProbeId \/ IdentificationFails \/ StartMcu

LEMMA OpenType == ASSUME TapTypeOK, OpenCall PROVE TapTypeOK'
  <1>1. CASE OpenPort
    BY <1>1, ChipFacts DEF TapTypeOK, OpenPort, targetVars, Driver
  <1>2. CASE InitDevice
    BY <1>2, ChipFacts, ValueAssumption
       DEF TapTypeOK, InitDevice, SavedContext, Mode, Watchdog
  <1>3. CASE InitDeviceFails
    <2>1. driver' \in Driver /\ chip' \in Chip
      BY <1>3, ChipFacts DEF InitDeviceFails, TapTypeOK, Driver
    <2> QED
      BY <1>3, <2>1, ValueAssumption
         DEF TapTypeOK, InitDeviceFails, SavedContext, Mode, Watchdog
  <1>4. CASE ProbeId
    BY <1>4, ChipFacts DEF TapTypeOK, ProbeId, targetVars
  <1>5. CASE IdentificationFails
    BY <1>5, ValueAssumption DEF TapTypeOK, IdentificationFails, Driver, Mode, Watchdog
  <1>6. CASE StartMcu
    BY <1>6, ChipFacts, ValueAssumption DEF TapTypeOK, StartMcu, Mode, Watchdog
  <1> QED BY <1>1, <1>2, <1>3, <1>4, <1>5, <1>6 DEF OpenCall

LEMMA CloseType == ASSUME TapTypeOK, CloseTap PROVE TapTypeOK'
  BY DEF TapTypeOK, CloseTap, ReleaseDevice, Written, WatchdogUnlocked, Driver, Mode, Watchdog

LEMMA SetType ==
    ASSUME TapTypeOK, NEW v \in Value, SetPcCached(v) \/ SetAllRegs(v)
    PROVE  TapTypeOK'
  BY DEF TapTypeOK, SetPcCached, SetAllRegs, Written

LEMMA RunType ==
    ASSUME TapTypeOK, Run \/ \E v \in Value : RunTo(v)
    PROVE  TapTypeOK'
  BY DEF TapTypeOK, Run, RunTo, ReleaseDevice, Written, WatchdogUnlocked, Mode, Watchdog, mcuVars

LEMMA HaltType == ASSUME TapTypeOK, SoftReset \/ HaltSucceeds \/ HaltFails PROVE TapTypeOK'
  BY ValueAssumption
     DEF TapTypeOK, SoftReset, HaltSucceeds, HaltFails, Mode, Watchdog, mcuVars

LEMMA TargetType ==
    ASSUME TapTypeOK, ProgramRuns \/ EemStops \/ PartReplaced
    PROVE  TapTypeOK'
  BY ValueAssumption
     DEF TapTypeOK, ProgramRuns, EemStops, PartReplaced, Mode, Watchdog, mcuVars

-----------------------------------------------------------------------------
(* Types of the server's state. *)

ServerTypeOK ==
    /\ phase \in Phase /\ waiting \in BOOLEAN /\ send_ack \in {-1, 0, 1}
    /\ rx \in Seq(Item) /\ Len(rx) <= MaxRx
    /\ reply \in Reply /\ told \in Told

LEMMA TypeParts == TypeOK <=> TapTypeOK /\ ServerTypeOK
  BY DEF TypeOK, TapTypeOK, ServerTypeOK, Item

\* What is left in the FIFO fits.
Fits(rest) == rest \in Seq(Item) /\ Len(rest) \in Nat /\ Len(rest) <= MaxRx

LEMMA RestFits ==
    ASSUME ServerTypeOK
    PROVE  Fits(rx) /\ (rx # <<>> => Fits(Tail(rx)))
  <1>1. Len(rx) \in Nat
    BY LenProperties DEF ServerTypeOK
  <1> QED BY <1>1, TailFacts, BoundsAssumption DEF ServerTypeOK, Fits

Answered == {"OK", "E05", "T05", "regs", "none", "-"}

\* A reply leaves what is stale in the FIFO.
LEMMA SendType ==
    ASSUME NEW cmd \in Plain \cup WithPc, NEW is \in Answered, NEW val \in Value,
           NEW rest, Fits(rest), NEW next \in Phase, Send(cmd, is, val, rest, next)
    PROVE  /\ phase' \in Phase /\ waiting' \in BOOLEAN
           /\ rx' \in Seq(Item) /\ Len(rx') <= MaxRx
           /\ reply' \in Reply
  <1>1. rx' \in Seq(Item) /\ Len(rx') <= MaxRx
    BY StaleFacts DEF Send, Fits
  <1> QED BY <1>1 DEF Send, Reply, Answered

LEMMA AnswerType ==
    ASSUME ServerTypeOK, TapTypeOK,
           NEW cmd \in Plain \cup WithPc, NEW is \in Answered,
           NEW rest, Fits(rest),
           Answer(cmd, is, rest) \/ AnswerRegs(cmd, is, rest),
           told' \in Told
    PROVE  ServerTypeOK'
  <1>1. AfterReply(send_ack) \in Phase
    BY DEF AfterReply, Phase
  <1>2. EmptyPc \in Value /\ ReportedPc \in Value
    BY ValueAssumption DEF ReportedPc, TapTypeOK
  <1>3. PICK val \in Value : Send(cmd, is, val, rest, AfterReply(send_ack)) /\ send_ack' = send_ack
    BY <1>2 DEF Answer, AnswerRegs
  <1> QED BY <1>1, <1>3, SendType DEF ServerTypeOK

LEMMA ToldFacts == NotTold \in Told /\ \A v \in Value : [by |-> "P", val |-> v] \in Told
  BY ValueAssumption DEF NotTold, Told

LEMMA InitType == Init => TypeOK
  <1> SUFFICES ASSUME Init PROVE TypeOK
    OBVIOUS
  <1>1. TapTypeOK
    BY ChipFacts, ValueAssumption DEF Init, TapInit, TapTypeOK, Driver, Mode, Watchdog
  <1>2. <<>> \in Seq(Item) /\ Len(<<>>) = 0
    BY EmptySeq
  <1>3. NoReply \in Reply
    BY ValueAssumption DEF NoReply, Reply
  <1>4. ServerTypeOK
    <2>1. rx \in Seq(Item) /\ Len(rx) <= MaxRx
      BY <1>2, BoundsAssumption DEF Init
    <2>2. phase \in Phase /\ send_ack \in {-1, 0, 1} /\ reply \in Reply /\ told \in Told
      BY <1>3, ToldFacts DEF Init, Phase
    <2>3. waiting \in BOOLEAN
      BY DEF Init
    <2> QED BY <2>1, <2>2, <2>3 DEF ServerTypeOK
  <1> QED BY <1>1, <1>4, TypeParts

\* The handlers that answer their packet.
AnsweringHandler ==
    \/ QueryStatus \/ ReadRegisters \/ WriteRegister \/ WriteRegisters
    \/ RestartProgram \/ OtherPacket \/ MonitorErase

LEMMA AnsweringHandlerType ==
    ASSUME TapTypeOK, ServerTypeOK, AnsweringHandler
    PROVE  TapTypeOK' /\ ServerTypeOK'
  <1> USE DEF ServerTypeOK
  <1> DEFINE Taken(cmd) == /\ Fits(Reading.rest)
                           /\ cmd \in WithPc => Reading.packet.val \in Value
  <1>0. ASSUME NEW cmd \in Plain \cup WithPc, Reads(cmd)
        PROVE  Taken(cmd)
    BY <1>0, ReadsFacts, RestFits, SetAssumption
  <1>c. /\ {"?", "g", "R", "monitor reset", "memory", "none", "monitor erase"} \subseteq Plain
        /\ {"P", "G", "monitor set"} \subseteq WithPc
        /\ {"OK", "E05", "T05", "regs", "none"} \subseteq Answered
    BY DEF Plain, WithPc, Answered
  <1> HIDE DEF ServerTypeOK, Taken
  <1>1. CASE QueryStatus
    BY <1>0, <1>1, <1>c, AnswerType, StutterType DEF QueryStatus, ServerTypeOK, Taken
  <1>2. CASE ReadRegisters
    BY <1>0, <1>2, <1>c, AnswerType, StutterType DEF ReadRegisters, ServerTypeOK, Taken
  <1>3. CASE WriteRegister
    BY <1>0, <1>3, <1>c, AnswerType, SetType, ToldFacts DEF WriteRegister, Taken
  <1>4. CASE WriteRegisters
    BY <1>0, <1>4, <1>c, AnswerType, SetType, ToldFacts DEF WriteRegisters, Taken
  <1>5. CASE RestartProgram
    BY <1>0, <1>5, <1>c, AnswerType, HaltType, StutterType, ToldFacts DEF RestartProgram, Taken
  <1>6. CASE OtherPacket
    BY <1>0, <1>6, <1>c, AnswerType, StutterType DEF OtherPacket, ServerTypeOK, Taken
  <1>7. CASE MonitorErase
    BY <1>0, <1>7, <1>c, AnswerType, HaltType DEF MonitorErase, ServerTypeOK, Taken
  <1> QED BY <1>1, <1>2, <1>3, <1>4, <1>5, <1>6, <1>7 DEF AnsweringHandler

\* The packets that change where the server is.
LeavingHandler ==
    DamagedPacket \/ StartNoAckMode \/ EndSession \/ SingleStep \/ Continue \/ MonitorRun

LEMMA LeavingHandlerType ==
    ASSUME TapTypeOK, ServerTypeOK, LeavingHandler
    PROVE  TapTypeOK' /\ ServerTypeOK'
  <1>0. ASSUME NEW cmd \in Plain \cup WithPc, Reads(cmd)
        PROVE  /\ Fits(Reading.rest)
               /\ cmd \in WithPc => Reading.packet.val \in Value
    BY <1>0, ReadsFacts, RestFits, SetAssumption DEF ServerTypeOK
  <1>c. /\ {"damaged", "QStartNoAckMode", "D", "k", "s", "c", "monitor run"} \subseteq Plain
        /\ "c addr" \in WithPc
        /\ {"OK", "none", "-"} \subseteq Answered
        /\ AfterReply(1) \in Phase
        /\ {"closing", "aborted", "polling", "monitor", "idle"} \subseteq Phase
        /\ EmptyPc \in Value
    BY ValueAssumption DEF Plain, WithPc, Answered, AfterReply, Phase
  <1>1. CASE StartNoAckMode
    BY <1>0, <1>1, <1>c, SendType, StutterType DEF StartNoAckMode, ServerTypeOK
  <1>2. CASE EndSession
    BY <1>0, <1>2, <1>c, SendType, StutterType DEF EndSession, ServerTypeOK
  <1>3. CASE SingleStep
    BY <1>0, <1>3, <1>c, StutterType DEF SingleStep, ServerTypeOK, Fits
  <1>4. CASE Continue
    BY <1>0, <1>4, <1>c, RunType, ToldFacts DEF Continue, ServerTypeOK, Fits
  <1>5. CASE MonitorRun
    BY <1>0, <1>5, <1>c, RunType, StutterType, ToldFacts DEF MonitorRun, ServerTypeOK, Fits
  <1>6. CASE DamagedPacket
    <2>1. Fits(<<>>)
      BY EmptySeq, BoundsAssumption DEF Fits
    <2>2. Fits(Reading.rest)
      BY <1>0, <1>6, <1>c DEF DamagedPacket
    <2> QED BY <1>6, <1>c, <2>1, <2>2, SendType, StutterType DEF DamagedPacket, ServerTypeOK
  <1> QED BY <1>1, <1>2, <1>3, <1>4, <1>5, <1>6 DEF LeavingHandler

\* Polling, the drain of the UART and the halt at the end of a run.
PollLoop ==
    PollStopped \/ PollRunning \/ Interrupted \/ Ignored \/ Drained \/ Stop \/ MonitorStop

LEMMA PollLoopType ==
    ASSUME TapTypeOK, ServerTypeOK, PollLoop
    PROVE  TapTypeOK' /\ ServerTypeOK'
  <1>c. /\ {"halting", "draining", "polling"} \subseteq Phase
        /\ {"c", "monitor run"} \subseteq Plain
        /\ {"T05", "E05", "regs", "OK"} \subseteq Answered
        /\ Fits(rx) /\ (rx # <<>> => Fits(Tail(rx)))
    BY RestFits DEF Phase, Plain, Answered
  <1>1. CASE PollStopped \/ PollRunning \/ Interrupted \/ Ignored \/ Drained
    BY <1>c, <1>1, StutterType
       DEF PollStopped, PollRunning, Interrupted, Ignored, Drained, ServerTypeOK, Fits
  <1>2. CASE Stop
    BY <1>c, <1>2, AnswerType, HaltType DEF Stop, HaltAndReport, ServerTypeOK
  <1>3. CASE MonitorStop
    BY <1>c, <1>3, AnswerType, HaltType DEF MonitorStop, ServerTypeOK
  <1> QED BY <1>1, <1>2, <1>3 DEF PollLoop

\* Opening and closing, and what comes from the debugger.
LEMMA ServeType ==
    ASSUME TapTypeOK, ServerTypeOK, ServeOpens \/ ServeCloses \/ DropChar
    PROVE  TapTypeOK' /\ ServerTypeOK'
  <1>1. CASE ServeOpens
    <2>1. OpenCall /\ phase' \in Phase
      BY <1>1 DEF ServeOpens, OpenStep, OpenCall, Phase, Opening
    <2>2. told' = NotTold /\ UNCHANGED <<rx, reply, waiting, send_ack>>
      BY <1>1 DEF ServeOpens, OpenStep
    <2> QED BY <2>1, <2>2, OpenType, ToldFacts DEF ServerTypeOK
  <1>2. CASE ServeCloses
    BY <1>2, CloseType, ToldFacts DEF ServeCloses, ServerTypeOK, Phase
  <1>3. CASE DropChar
    BY <1>3, RestFits, StutterType DEF DropChar, ServerTypeOK, Fits
  <1> QED BY <1>1, <1>2, <1>3

\* One more in the FIFO.
LEMMA AppendFacts ==
    ASSUME ServerTypeOK, Room, NEW x \in Item
    PROVE  /\ Append(rx, x) \in Seq(Item)
           /\ Len(Append(rx, x)) = Len(rx) + 1 /\ Len(rx) \in Nat
           /\ Len(rx) + 1 <= MaxRx
           /\ \A i \in 1 .. Len(rx) : Append(rx, x)[i] = rx[i]
           /\ Append(rx, x)[Len(rx) + 1] = x
  BY AppendProperties, LenProperties, BoundsAssumption DEF Room, ServerTypeOK

LEMMA DebuggerType ==
    ASSUME TapTypeOK, ServerTypeOK, Debugger
    PROVE  TapTypeOK' /\ ServerTypeOK'
  <1>1. CASE SendPacket
    <2>1. PICK p \in Packet : rx' = Append(rx, p)
      BY <1>1 DEF SendPacket
    <2>2. NoReply \in Reply
      BY ValueAssumption DEF NoReply, Reply
    <2>3. rx' \in Seq(Item) /\ Len(rx') <= MaxRx
      BY <1>1, <2>1, AppendFacts DEF SendPacket, Item
    <2> QED BY <1>1, <2>2, <2>3, StutterType DEF SendPacket, ServerTypeOK
  <1>2. CASE SendInterrupt
    <2>1. rx' \in Seq(Item) /\ Len(rx') <= MaxRx
      BY <1>2, AppendFacts, CharFacts DEF SendInterrupt, Item
    <2> QED BY <1>2, <2>1, StutterType DEF SendInterrupt, ServerTypeOK
  <1>3. CASE SendPlus
    <2>1. rx' \in Seq(Item) /\ Len(rx') <= MaxRx
      BY <1>3, AppendFacts, CharFacts DEF SendPlus, Item
    <2> QED BY <1>3, <2>1, StutterType DEF SendPlus, ServerTypeOK
  <1> QED BY <1>1, <1>2, <1>3 DEF Debugger

\* The server's steps, by kind.
LEMMA ServerSteps ==
    Server <=> \/ AnsweringHandler \/ LeavingHandler \/ PollLoop
               \/ ServeOpens \/ ServeCloses \/ DropChar
  BY DEF Server, AnsweringHandler, LeavingHandler, PollLoop

\* Every variable keeps its type and the FIFO its bound: no step of the server,
\* the debugger or the target leads out of what the code declares.
THEOREM TypeCorrect == Spec => []TypeOK
  <1>1. TypeOK /\ [Next]_vars => TypeOK'
    <2> SUFFICES ASSUME TapTypeOK, ServerTypeOK, [Next]_vars
                 PROVE  TapTypeOK' /\ ServerTypeOK'
      BY TypeParts, PTL
    <2>1. CASE Server
      BY <2>1, ServerSteps, AnsweringHandlerType, LeavingHandlerType, PollLoopType, ServeType
    <2>2. CASE Debugger
      BY <2>2, DebuggerType
    <2>3. CASE Target
      BY <2>3, TargetType DEF Target, serverVars, ServerTypeOK
    <2>4. CASE Aborted \/ UNCHANGED vars
      BY <2>4, StutterType DEF Aborted, vars, serverVars, ServerTypeOK
    <2> QED BY <2>1, <2>2, <2>3, <2>4 DEF Next
  <1> QED BY <1>1, InitType, PTL DEF Spec

-----------------------------------------------------------------------------
(* Calls. *)

\* Between Open and Close no call changes the part, the driver or the profile.
SessionStep ==
    \/ AnsweringHandler \/ LeavingHandler \/ PollLoop \/ DropChar
    \/ Debugger \/ Target \/ Aborted

LEMMA CallsKeepDriver ==
    ASSUME SessionStep, phase # "closed"
    PROVE  UNCHANGED <<part, driver, chip, attached>>
  <1> USE DEF tapVars, mcuVars, targetVars
  <1>1. CASE AnsweringHandler
    BY <1>1 DEF AnsweringHandler, QueryStatus, ReadRegisters, WriteRegister, WriteRegisters,
                RestartProgram, OtherPacket, MonitorErase, SetPcCached, SetAllRegs,
                SoftReset, HaltSucceeds, HaltFails
  <1>2. CASE LeavingHandler
    BY <1>2 DEF LeavingHandler, DamagedPacket, StartNoAckMode, EndSession, SingleStep, Continue,
                MonitorRun, Run, RunTo, ReleaseDevice
  <1>3. CASE PollLoop \/ DropChar
    BY <1>3 DEF PollLoop, PollStopped, PollRunning, Interrupted, Ignored, Drained, Stop,
                MonitorStop, HaltAndReport, DropChar, HaltSucceeds, HaltFails
  <1>4. CASE Debugger \/ Target \/ Aborted
    BY <1>4 DEF Debugger, SendPacket, SendInterrupt, SendPlus, Target, ProgramRuns, EemStops,
                PartReplaced, Aborted, vars
  <1> QED BY <1>1, <1>2, <1>3, <1>4 DEF SessionStep

\* Nothing but Serve takes the steps of an opening.
LEMMA OnlyServeOpens ==
    ASSUME SessionStep, phase \in Opening \cup {"closed"}
    PROVE  phase' = phase
  <1>1. ~(AnsweringHandler \/ LeavingHandler)
    BY DEF AnsweringHandler, QueryStatus, ReadRegisters, WriteRegister, WriteRegisters,
           RestartProgram, OtherPacket, MonitorErase, LeavingHandler, DamagedPacket, StartNoAckMode,
           EndSession, SingleStep, Continue, MonitorRun, Reads, Opening
  <1>2. ~(PollLoop \/ DropChar \/ Aborted)
    BY DEF PollLoop, PollStopped, PollRunning, Interrupted, Ignored, Drained, Stop,
           MonitorStop, DropChar, Aborted, Opening
  <1> QED BY <1>1, <1>2
         DEF SessionStep, Debugger, SendPacket, SendInterrupt, SendPlus, Target, serverVars

\* No step leads back into an opening.
LEMMA NoneReopens ==
    ASSUME SessionStep, phase \notin Opening \cup {"closed"}
    PROVE  phase' \notin Opening
  <1>1. CASE AnsweringHandler
    BY <1>1 DEF AnsweringHandler, QueryStatus, ReadRegisters, WriteRegister, WriteRegisters,
           RestartProgram, OtherPacket, MonitorErase, Answer, AnswerRegs, Send, AfterReply, Opening
  <1>2. CASE LeavingHandler
    BY <1>2 DEF LeavingHandler, DamagedPacket, StartNoAckMode,
           EndSession, SingleStep, Continue, MonitorRun, Send, AfterReply, Opening
  <1>3. CASE PollLoop
    BY <1>3 DEF PollLoop, PollStopped, PollRunning, Interrupted, Ignored, Drained, Stop,
           MonitorStop, HaltAndReport, Answer, AnswerRegs, Send, AfterReply, Opening
  <1> QED BY <1>1, <1>2, <1>3
         DEF SessionStep, DropChar, Debugger, SendPacket, SendInterrupt, SendPlus, Target,
             Aborted, serverVars, vars, Opening

\* What the steps of an opening have found out by now.
SoFar ==
    /\ phase = "captured" => driver = GeneralDriver
    /\ phase = "identified" =>
          chip = IF part.record = NoRecord THEN DefaultChip(GeneralDriver) ELSE part.record

\* The record found names the part's CPU, and where none is found the default
\* profile of the general driver does: StartMcu's switch takes the right case.
LEMMA TheRightCase ==
    ASSUME part \in Part, SoFar, phase = "identified"
    PROVE  /\ part.record # NoRecord \/ part.cpu # "CpuX" => CpuOf(DriverOf(chip)) = part.cpu
           /\ part.record # NoRecord /\ part.cpu = "CpuXv2" =>
                 (DriverOf(chip) = "Xv2_1377" <=> part.record.issue_1377)
  <1>1. part.cpu \in Cpu /\ part.record \in Chip \cup {NoRecord}
    BY ChipFacts
  <1>2. CASE part.record # NoRecord
    <2>1. chip = part.record /\ chip.arch = part.cpu /\ chip \in Chip
      BY <1>1, <1>2, DatabaseAssumption DEF SoFar
    <2> QED BY <1>1, <1>2, <2>1 DEF CpuOf, DriverOf, Chip, Cpu
  <1>3. CASE part.record = NoRecord
    <2>1. chip = DefaultChip(GeneralDriver)
      BY <1>3 DEF SoFar
    <2>2. CASE part.cpu = "Cpu"
      <3>1. GeneralDriver = "430"
        BY <2>2, DatabaseAssumption DEF GeneralDriver, CapturingDriver
      <3> QED BY <1>3, <2>1, <2>2, <3>1 DEF DefaultChip, DriverOf, CpuOf
    <2>3. CASE part.cpu = "CpuXv2"
      <3>1. GeneralDriver = "Xv2"
        BY <2>3 DEF GeneralDriver, CapturingDriver
      <3> QED BY <1>3, <2>1, <2>3, <3>1 DEF DefaultChip, DriverOf, CpuOf
    <2> QED BY <1>1, <1>3, <2>2, <2>3 DEF Cpu
  <1> QED BY <1>2, <1>3

LEMMA OpeningFits ==
    ASSUME TapTypeOK, SoFar, CallsFitTheTarget, ServeOpens
    PROVE  SoFar' /\ CallsFitTheTarget'
  <1>1. CASE OpenStep("closed", OpenPort, OpenPort, "opened")
    BY <1>1 DEF OpenStep, SoFar, CallsFitTheTarget, InSession, Opening
  <1>2. CASE OpenStep("opened", InitDevice, InitDeviceFails, "captured")
    <2>1. phase' = "closed" \/ (phase' = "captured" /\ InitDevice)
      BY <1>2 DEF OpenStep
    <2>2. InitDevice => driver' = GeneralDriver'
      BY DEF InitDevice, GeneralDriver, CapturingDriver
    <2> QED BY <2>1, <2>2 DEF SoFar, CallsFitTheTarget, InSession, Opening
  <1>3. CASE OpenStep("captured", ProbeId, IdentificationFails, "identified")
    <2>1. phase' = "closed" \/ (phase = "captured" /\ phase' = "identified" /\ ProbeId)
      BY <1>3 DEF OpenStep
    <2>2. ProbeId => part' = part /\ GeneralDriver' = GeneralDriver
      BY DEF ProbeId, GeneralDriver, CapturingDriver
    <2> QED BY <2>1, <2>2 DEF SoFar, ProbeId, CallsFitTheTarget, InSession, Opening
  <1>4. CASE OpenStep("identified", StartMcu, IdentificationFails, "idle")
    <2>1. phase' = "closed" \/ (phase = "identified" /\ phase' = "idle" /\ StartMcu)
      BY <1>4 DEF OpenStep
    <2>2. CASE phase' = "closed"
      BY <2>2 DEF SoFar, CallsFitTheTarget, InSession, Opening
    <2>3. CASE phase = "identified" /\ phase' = "idle" /\ StartMcu
      <3>1. part' = part /\ driver' = DriverOf(chip) /\ attached'
        BY <2>3 DEF StartMcu
      <3> QED BY <2>3, <3>1, TheRightCase DEF TapTypeOK, SoFar, CallsFitTheTarget
    <2> QED BY <2>1, <2>2, <2>3
  <1> QED BY <1>1, <1>2, <1>3, <1>4 DEF ServeOpens

\* "Check flag before call": the asserts of TapMcu's calls cannot fire, and the
\* calls of a session go to the driver of the part at hand: what the steps of Open
\* leave in traits_ and chip_info_ is this part's, whatever was connected, found
\* and chosen before.
THEOREM CallsAreSafe == Spec => []CallsFitTheTarget
  <1>1. Init => SoFar /\ CallsFitTheTarget
    BY DEF Init, SoFar, CallsFitTheTarget, InSession
  <1>2. TypeOK /\ SoFar /\ CallsFitTheTarget /\ [Next]_vars => SoFar' /\ CallsFitTheTarget'
    <2> SUFFICES ASSUME TapTypeOK, SoFar, CallsFitTheTarget, [Next]_vars
                 PROVE  SoFar' /\ CallsFitTheTarget'
      BY TypeParts
    <2>1. CASE ServeOpens
      BY <2>1, OpeningFits
    <2>2. CASE ServeCloses
      BY <2>2 DEF ServeCloses, SoFar, CallsFitTheTarget, InSession
    <2>3. CASE UNCHANGED vars
      BY <2>3 DEF vars, tapVars, mcuVars, serverVars, SoFar, CallsFitTheTarget, InSession,
                  GeneralDriver, CapturingDriver
    <2>4. CASE SessionStep
      <3>1. CASE phase = "closed"
        <4>1. phase' = "closed"
          BY <2>4, <3>1, OnlyServeOpens
        <4> QED BY <4>1 DEF SoFar, CallsFitTheTarget, InSession
      <3>2. CASE phase # "closed"
        <4>1. UNCHANGED <<part, driver, chip, attached>> /\ GeneralDriver' = GeneralDriver
          BY <2>4, <3>2, CallsKeepDriver DEF GeneralDriver, CapturingDriver
        <4>2. phase' = phase \/ (InSession /\ phase' \notin Opening)
          BY <2>4, <3>2, OnlyServeOpens, NoneReopens DEF InSession
        <4> QED BY <4>1, <4>2 DEF SoFar, CallsFitTheTarget, InSession, Opening
      <3> QED BY <3>1, <3>2
    <2> QED BY <2>1, <2>2, <2>3, <2>4, ServerSteps DEF Next, SessionStep
  <1> QED BY <1>1, <1>2, TypeCorrect, PTL DEF Spec

-----------------------------------------------------------------------------
(* The conversation. *)

\* The interrupt characters that are late stand before the packet, and a run
\* has none of them: what is behind the packet came after it.
LateComeFirst ==
    /\ \A i, j \in DOMAIN rx : rx[i] \in Packet /\ rx[j] = LateCtrlC => j < i
    /\ Busy => \A j \in DOMAIN rx : rx[j] # LateCtrlC

Conversing == OneConversation /\ LateComeFirst

NoPacketIn(s) == \A i \in 1 .. Len(s) : s[i] \notin Packet
NoLateIn(s) == \A i \in 1 .. Len(s) : s[i] # LateCtrlC

\* The invariant where no packet waits ...
LEMMA WithoutPacket ==
    ASSUME rx \in Seq(Item), NoPacketIn(rx)
    PROVE  Conversing <=> /\ waiting <=> Busy
                          /\ Busy => NoLateIn(rx)
  <1>1. DOMAIN rx = 1 .. Len(rx)
    BY LenProperties
  <1> QED BY <1>1 DEF NoPacketIn, NoLateIn, Conversing, OneConversation, LateComeFirst, Packets

\* ... and where one does.
LEMMA WithPacket ==
    ASSUME rx \in Seq(Item), NEW n \in 1 .. Len(rx), rx[n] \in Packet
    PROVE  Conversing <=> /\ waiting /\ ~Busy
                          /\ \A i \in 1 .. Len(rx) : rx[i] \in Packet => i = n
                          /\ \A i \in 1 .. Len(rx) : rx[i] = LateCtrlC => i < n
  <1>1. DOMAIN rx = 1 .. Len(rx)
    BY LenProperties
  <1> QED BY <1>1 DEF Conversing, OneConversation, LateComeFirst, Packets

\* The same of the next state.
LEMMA WithoutPacketNext ==
    ASSUME rx' \in Seq(Item), NoPacketIn(rx')
    PROVE  Conversing' <=> /\ waiting' <=> Busy'
                           /\ Busy' => NoLateIn(rx')
  <1>1. DOMAIN rx' = 1 .. Len(rx')
    BY LenProperties
  <1> QED BY <1>1 DEF NoPacketIn, NoLateIn, Conversing, OneConversation, LateComeFirst, Packets

LEMMA WithPacketNext ==
    ASSUME rx' \in Seq(Item), NEW n \in 1 .. Len(rx'), rx'[n] \in Packet
    PROVE  Conversing' <=> /\ waiting' /\ ~Busy'
                           /\ \A i \in 1 .. Len(rx') : rx'[i] \in Packet => i = n
                           /\ \A i \in 1 .. Len(rx') : rx'[i] = LateCtrlC => i < n
  <1>1. DOMAIN rx' = 1 .. Len(rx')
    BY LenProperties
  <1> QED BY <1>1 DEF Conversing, OneConversation, LateComeFirst, Packets

LEMMA TailHasNoMore ==
    ASSUME NEW s \in Seq(Item), s # <<>>
    PROVE  /\ NoPacketIn(s) => NoPacketIn(Tail(s))
           /\ NoLateIn(s) => NoLateIn(Tail(s))
  <1>1. \A i \in 1 .. Len(Tail(s)) : i + 1 \in 1 .. Len(s) /\ Tail(s)[i] = s[i + 1]
    BY TailFacts
  <1> QED BY <1>1 DEF NoPacketIn, NoLateIn

LEMMA IdleIsNotBusy == phase \in {"closed", "idle", "closing"} => ~Busy
  BY DEF Busy

\* A reply ends the wait for it: what is left holds no packet.
LEMMA RepliedConverses ==
    ASSUME NEW cmd, NEW is, NEW val, NEW rest \in Seq(Item), NoPacketIn(rest),
           NEW next \in {"idle", "closing"}, Send(cmd, is, val, rest, next)
    PROVE  Conversing'
  <1>1. rx' \in Seq(Item) /\ NoPacketIn(rx')
    BY StaleFacts, CharFacts DEF Send, NoPacketIn
  <1>2. ~waiting' /\ ~Busy'
    BY IdleIsNotBusy DEF Send, Busy
  <1> QED BY <1>1, <1>2, WithoutPacketNext

\* Behind the packet that is read are neither another nor a late interrupt.
LEMMA BehindThePacket ==
    ASSUME rx \in Seq(Item), Conversing, NEW cmd \in Plain \cup WithPc, Reads(cmd)
    PROVE  /\ Reading.rest = Tail(rx) /\ Tail(rx) \in Seq(Item)
           /\ NoPacketIn(Tail(rx)) /\ NoLateIn(Tail(rx))
           /\ waiting /\ ~Busy
  <1>1. /\ rx # <<>> /\ 1 \in 1 .. Len(rx) /\ rx[1] \in Packet
        /\ Reading.rest = Tail(rx)
    BY ReadsFacts, TailFacts
  <1>2. /\ \A i \in 1 .. Len(rx) : rx[i] \in Packet => i = 1
        /\ \A i \in 1 .. Len(rx) : rx[i] = LateCtrlC => i < 1
        /\ waiting /\ ~Busy
    BY <1>1, WithPacket
  <1>3. \A i \in 1 .. Len(Tail(rx)) : i + 1 \in 1 .. Len(rx) /\ Tail(rx)[i] = rx[i + 1] /\ i + 1 # 1
    BY <1>1, TailFacts
  <1> QED BY <1>1, <1>2, <1>3, TailFacts DEF NoPacketIn, NoLateIn

\* While a run goes on there is no packet and no late interrupt.
LEMMA WhileBusy ==
    ASSUME rx \in Seq(Item), Conversing, Busy
    PROVE  waiting /\ NoPacketIn(rx) /\ NoLateIn(rx)
  <1>1. NoPacketIn(rx)
    BY WithPacket DEF NoPacketIn
  <1> QED BY <1>1, WithoutPacket

LEMMA AnsweringHandlerConverses ==
    ASSUME rx \in Seq(Item), Conversing, AnsweringHandler
    PROVE  Conversing'
  <1>1. \A ack : AfterReply(ack) \in {"idle", "closing"}
    BY DEF AfterReply
  <1>2. PICK cmd, is, val :
           /\ cmd \in Plain \cup WithPc /\ Reads(cmd)
           /\ Send(cmd, is, val, Reading.rest, AfterReply(send_ack))
    BY DEF AnsweringHandler, QueryStatus, ReadRegisters, WriteRegister, WriteRegisters,
           RestartProgram, OtherPacket, MonitorErase, Answer, AnswerRegs, Plain, WithPc
  <1> QED BY <1>1, <1>2, BehindThePacket, RepliedConverses

LEMMA LeavingHandlerConverses ==
    ASSUME rx \in Seq(Item), Conversing, LeavingHandler
    PROVE  Conversing'
  <1>1. CASE StartNoAckMode \/ EndSession
    <2>1. \E cmd \in {"QStartNoAckMode", "D", "k"}, is \in Answered, next \in {"idle", "closing"} :
             Reads(cmd) /\ Send(cmd, is, EmptyPc, Reading.rest, next)
      BY <1>1 DEF StartNoAckMode, EndSession, AfterReply, Answered
    <2>2. {"QStartNoAckMode", "D", "k"} \subseteq Plain \cup WithPc
      BY DEF Plain
    <2> QED BY <2>1, <2>2, BehindThePacket, RepliedConverses
  <1>2. CASE SingleStep \/ Continue \/ MonitorRun
    <2>1. PICK cmd \in Plain \cup WithPc : Reads(cmd)
      BY <1>2 DEF SingleStep, Continue, MonitorRun, Plain, WithPc
    <2>2. rx' = Tail(rx) /\ waiting' = waiting /\ Busy'
      BY <1>2, <2>1, BehindThePacket DEF SingleStep, Continue, MonitorRun, Busy
    <2> QED BY <2>1, <2>2, BehindThePacket, WithoutPacketNext
  <1>3. CASE DamagedPacket
    <2>1. PICK is \in Answered, rest \in {Reading.rest, <<>>} :
             Reads("damaged") /\ Send("damaged", is, EmptyPc, rest, "idle")
      BY <1>3 DEF DamagedPacket, Answered
    <2>2. "damaged" \in Plain \cup WithPc
      BY DEF Plain
    <2>3. <<>> \in Seq(Item) /\ NoPacketIn(<<>>)
      BY EmptySeq DEF NoPacketIn
    <2>4. Reading.rest \in Seq(Item) /\ NoPacketIn(Reading.rest)
      BY <2>1, <2>2, BehindThePacket
    <2>5. rest \in Seq(Item) /\ NoPacketIn(rest)
      BY <2>3, <2>4
    <2> QED BY <2>1, <2>5, RepliedConverses
  <1> QED BY <1>1, <1>2, <1>3 DEF LeavingHandler

LEMMA PollLoopConverses ==
    ASSUME rx \in Seq(Item), Conversing, PollLoop
    PROVE  Conversing'
  <1>0. Busy
    BY DEF PollLoop, PollStopped, PollRunning, Interrupted, Ignored, Drained, Stop,
           MonitorStop, Busy
  <1>1. CASE Stop \/ MonitorStop
    <2>1. PICK cmd, is, val : Send(cmd, is, val, rx, AfterReply(send_ack))
      BY <1>1 DEF Stop, MonitorStop, HaltAndReport, Answer, AnswerRegs
    <2> QED BY <1>0, <2>1, WhileBusy, RepliedConverses DEF AfterReply
  <1>2. CASE PollStopped \/ PollRunning \/ Interrupted \/ Ignored \/ Drained
    <2>1. waiting' = waiting /\ Busy' /\ (rx' = rx \/ (rx # <<>> /\ rx' = Tail(rx)))
      BY <1>2 DEF PollStopped, PollRunning, Interrupted, Ignored, Drained, Busy
    <2>2. rx' \in Seq(Item) /\ NoPacketIn(rx') /\ NoLateIn(rx')
      BY <1>0, <2>1, WhileBusy, TailFacts, TailHasNoMore
    <2> QED BY <1>0, <2>1, <2>2, WhileBusy, WithoutPacketNext
  <1> QED BY <1>1, <1>2 DEF PollLoop

LEMMA DropCharConverses ==
    ASSUME rx \in Seq(Item), Conversing, DropChar
    PROVE  Conversing'
  <1>1. /\ phase' = "idle" /\ phase = "idle" /\ waiting' = waiting /\ rx' = Tail(rx)
        /\ rx # <<>> /\ Head(rx) \in Char
    BY DEF DropChar
  <1>2. /\ rx' \in Seq(Item) /\ Len(rx') = Len(rx) - 1 /\ Len(rx) \in Nat
        /\ \A i \in 1 .. Len(rx') : rx'[i] = rx[i + 1]
    BY <1>1, TailFacts
  <1>3. rx[1] \notin Packet
    <2>1. rx[1] \in Char
      BY <1>1
    <2> QED BY <2>1, ItemFacts DEF Char, Plain, WithPc, Item
  <1>4. ~Busy /\ ~Busy'
    BY <1>1 DEF Busy
  <1>5. CASE NoPacketIn(rx)
    <2>1. NoPacketIn(rx')
      BY <1>1, <1>5, TailHasNoMore
    <2> QED BY <1>1, <1>2, <1>4, <1>5, <2>1, WithoutPacket, WithoutPacketNext
  <1>6. CASE ~NoPacketIn(rx)
    <2>1. PICK n \in 1 .. Len(rx) : rx[n] \in Packet
      BY <1>6 DEF NoPacketIn
    <2>2. n - 1 \in 1 .. Len(rx') /\ rx'[n - 1] \in Packet
      BY <1>2, <1>3, <2>1
    <2>3. /\ waiting
          /\ \A i \in 1 .. Len(rx) : rx[i] \in Packet => i = n
          /\ \A i \in 1 .. Len(rx) : rx[i] = LateCtrlC => i < n
      BY <2>1, WithPacket
    <2>4. ASSUME NEW i \in 1 .. Len(rx')
          PROVE  /\ rx'[i] \in Packet => i = n - 1
                 /\ rx'[i] = LateCtrlC => i < n - 1
      <3>1. i + 1 \in 1 .. Len(rx) /\ rx'[i] = rx[i + 1] /\ i \in Nat
        BY <1>2
      <3>2. rx'[i] \in Packet => i + 1 = n
        BY <2>3, <3>1
      <3>3. rx'[i] = LateCtrlC => i + 1 < n
        BY <2>3, <3>1
      <3> QED BY <3>1, <3>2, <3>3
    <2>5. /\ \A i \in 1 .. Len(rx') : rx'[i] \in Packet => i = n - 1
          /\ \A i \in 1 .. Len(rx') : rx'[i] = LateCtrlC => i < n - 1
      BY <2>4
    <2> QED BY <1>1, <1>2, <1>4, <2>2, <2>3, <2>5, WithPacketNext
  <1> QED BY <1>5, <1>6

LEMMA DebuggerConverses ==
    ASSUME ServerTypeOK, Conversing, Debugger
    PROVE  Conversing'
  <1>0. rx \in Seq(Item) /\ Room /\ (Busy' <=> Busy)
    BY DEF ServerTypeOK, Debugger, SendPacket, SendInterrupt, SendPlus, Busy
  <1>1. CASE SendPacket
    <2>1. PICK p \in Packet : rx' = Append(rx, p)
      BY <1>1 DEF SendPacket
    <2>2. ~waiting /\ waiting'
      BY <1>1 DEF SendPacket
    <2>3. NoPacketIn(rx) /\ ~Busy
      BY <1>0, <2>2, WithPacket, WithoutPacket DEF NoPacketIn
    <2>4. /\ rx' \in Seq(Item) /\ Len(rx') = Len(rx) + 1 /\ Len(rx) \in Nat
          /\ rx'[Len(rx')] \in Packet
          /\ \A i \in 1 .. Len(rx) : rx'[i] = rx[i]
      BY <1>0, <2>1, AppendFacts DEF Item
    <2>5. \A i \in 1 .. Len(rx') : i = Len(rx') \/ (i \in 1 .. Len(rx) /\ i < Len(rx'))
      BY <2>4
    <2>6. /\ \A i \in 1 .. Len(rx') : rx'[i] \in Packet => i = Len(rx')
          /\ \A i \in 1 .. Len(rx') : rx'[i] = LateCtrlC => i < Len(rx')
      BY <2>3, <2>4, <2>5, CharFacts DEF NoPacketIn
    <2>7. Len(rx') \in 1 .. Len(rx')
      BY <2>4
    <2> QED BY <1>0, <2>2, <2>3, <2>4, <2>6, <2>7, WithPacketNext
  <1>2. CASE SendInterrupt \/ SendPlus
    <2>1. PICK x \in {CtrlC, [cmd |-> "+"]} : rx' = Append(rx, x)
      BY <1>2 DEF SendInterrupt, SendPlus
    <2>2. x \in Item /\ x \notin Packet /\ x # LateCtrlC
      BY CharFacts DEF Item, LateCtrlC
    <2>3. /\ rx' \in Seq(Item) /\ Len(rx') = Len(rx) + 1 /\ Len(rx) \in Nat
          /\ rx'[Len(rx')] = x
          /\ \A i \in 1 .. Len(rx) : rx'[i] = rx[i]
      BY <1>0, <2>1, <2>2, AppendFacts
    <2>4. \A i \in 1 .. Len(rx') : i = Len(rx') \/ i \in 1 .. Len(rx)
      BY <2>3
    <2>5. \A i \in 1 .. Len(rx) : i \in 1 .. Len(rx')
      BY <2>3
    <2>6. waiting' = waiting
      BY <1>2 DEF SendInterrupt, SendPlus
    <2>7. CASE NoPacketIn(rx)
      <3>1. NoPacketIn(rx') /\ (NoLateIn(rx) => NoLateIn(rx'))
        BY <2>2, <2>3, <2>4, <2>7 DEF NoPacketIn, NoLateIn
      <3> QED BY <1>0, <2>3, <2>6, <2>7, <3>1, WithoutPacket, WithoutPacketNext
    <2>8. CASE ~NoPacketIn(rx)
      <3>1. PICK n \in 1 .. Len(rx) : rx[n] \in Packet
        BY <2>8 DEF NoPacketIn
      <3>2. /\ waiting /\ ~Busy
            /\ \A i \in 1 .. Len(rx) : rx[i] \in Packet => i = n
            /\ \A i \in 1 .. Len(rx) : rx[i] = LateCtrlC => i < n
        BY <1>0, <3>1, WithPacket
      <3>3. /\ n \in 1 .. Len(rx') /\ rx'[n] \in Packet
            /\ \A i \in 1 .. Len(rx') : rx'[i] \in Packet => i = n
            /\ \A i \in 1 .. Len(rx') : rx'[i] = LateCtrlC => i < n
        BY <2>2, <2>3, <2>4, <2>5, <3>1, <3>2
      <3> QED BY <1>0, <2>3, <2>6, <3>2, <3>3, WithPacketNext
    <2> QED BY <2>7, <2>8
  <1> QED BY <1>1, <1>2 DEF Debugger

LEMMA OthersConverse ==
    ASSUME Conversing,
           ServeOpens \/ ServeCloses \/ Target \/ Aborted \/ UNCHANGED vars
    PROVE  Conversing'
  <1>1. rx' = rx /\ waiting' = waiting /\ (Busy' <=> Busy)
    BY DEF ServeOpens, OpenStep, ServeCloses, Target, Aborted, vars, serverVars, Busy
  <1> QED BY <1>1 DEF Conversing, OneConversation, LateComeFirst, Packets

LEMMA InitConverses == Init => Conversing
  <1> SUFFICES ASSUME Init PROVE Conversing
    OBVIOUS
  <1>1. rx = <<>> /\ waiting = FALSE /\ phase = "closed"
    BY DEF Init
  <1>2. rx \in Seq(Item) /\ NoPacketIn(rx)
    BY <1>1, EmptySeq DEF NoPacketIn
  <1> QED BY <1>1, <1>2, WithoutPacket, IdleIsNotBusy

\* The debugger's packet is in one place, no interrupt that is late stands
\* behind it in the FIFO, and none is in the FIFO while a run goes on.
THEOREM ConversingHolds == Spec => [](TypeOK /\ Conversing)
  <1>1. TypeOK /\ Conversing /\ [Next]_vars => Conversing'
    <2> SUFFICES ASSUME ServerTypeOK, Conversing, [Next]_vars PROVE Conversing'
      BY TypeParts
    <2>1. rx \in Seq(Item)
      BY DEF ServerTypeOK
    <2>2. CASE Server
      BY <2>1, <2>2, ServerSteps, AnsweringHandlerConverses, LeavingHandlerConverses,
         PollLoopConverses, DropCharConverses, OthersConverse
    <2>3. CASE Debugger
      BY <2>3, DebuggerConverses
    <2>4. CASE Target \/ Aborted \/ UNCHANGED vars
      BY <2>4, OthersConverse
    <2> QED BY <2>2, <2>3, <2>4 DEF Next
  <1> QED BY <1>1, TypeCorrect, InitConverses, PTL DEF Spec

\* No packet is lost and none is answered twice, across the ends of sessions
\* too: while the debugger waits its packet is in one place, and else there is
\* none.
THEOREM PacketsAreKept == Spec => []OneConversation
  <1>1. Conversing => OneConversation
    BY DEF Conversing
  <1> QED BY <1>1, ConversingHolds, PTL

\* An interrupt that was read too late is dropped by the reader of packets, and
\* never ends a later run: those before a packet are gone when it is read, and
\* those behind it are its own.
THEOREM LateInterruptsEndNoRun == Spec => LateInterruptIgnored
  <1>1. TypeOK /\ Conversing /\ [Next]_vars
          => [phase = "draining" /\ phase' = "halting" => Head(rx) = CtrlC]_vars
    <2> SUFFICES ASSUME TypeOK, Conversing, [Next]_vars,
                        phase = "draining", phase' = "halting"
                 PROVE  Head(rx) = CtrlC
      OBVIOUS
    <2>1. rx \in Seq(Item) /\ Busy
      BY TypeParts DEF ServerTypeOK, Busy
    <2>2. Interrupted
      BY DEF Next, Server, DropChar, DamagedPacket, QueryStatus, ReadRegisters,
             WriteRegister, WriteRegisters, RestartProgram, OtherPacket, StartNoAckMode,
             EndSession, MonitorErase, Reads,
             SingleStep, Continue, PollStopped, PollRunning, Ignored, Drained, Stop, MonitorRun,
             MonitorStop, ServeOpens, OpenStep, ServeCloses, Debugger, SendPacket,
             SendInterrupt, SendPlus, Target, Aborted, vars, serverVars
    <2>3. rx # <<>> /\ Head(rx) \in {CtrlC, LateCtrlC}
      BY <2>2 DEF Interrupted, Interrupts
    <2>4. rx[1] # LateCtrlC
      BY <2>1, <2>3, WhileBusy, TailFacts DEF NoLateIn
    <2> QED BY <2>3, <2>4
  <1> QED BY <1>1, ConversingHolds, PTL DEF Spec, LateInterruptIgnored

-----------------------------------------------------------------------------
(* Replies. *)

LEMMA SendReplies ==
    ASSUME NEW cmd, NEW is, NEW val, NEW rest, NEW next, Send(cmd, is, val, rest, next)
    PROVE  reply'.to = cmd /\ reply'.is = is /\ reply'.val = val
  BY DEF Send

LEMMA AnswerReplies ==
    ASSUME NEW cmd, NEW is, NEW rest
    PROVE  /\ Answer(cmd, is, rest) => reply'.to = cmd /\ reply'.is = is
           /\ AnswerRegs(cmd, is, rest) =>
                reply'.to = cmd /\ reply'.is = is /\ reply'.val = ReportedPc
  BY SendReplies DEF Answer, AnswerRegs

\* A new reply is the server's, and to a packet it says which handler made it.
LEMMA WhoReplies ==
    ASSUME Next, reply' # reply
    PROVE  /\ reply'.to = "c" => Stop
           /\ reply'.to = "g" => ReadRegisters
  <1>1. CASE AnsweringHandler
    <2>1. ReadRegisters \/ reply'.to \in {"?", "P", "G", "monitor set", "R", "monitor reset",
                                          "memory", "none", "monitor erase"}
      BY <1>1, AnswerReplies DEF AnsweringHandler, QueryStatus, WriteRegister, WriteRegisters,
                                 RestartProgram, OtherPacket, MonitorErase
    <2>2. ReadRegisters => reply'.to = "g"
      BY AnswerReplies DEF ReadRegisters
    <2> QED BY <2>1, <2>2
  <1>2. CASE LeavingHandler
    <2>1. reply' = reply \/ reply'.to \in {"damaged", "QStartNoAckMode", "D", "k"}
      BY <1>2, SendReplies DEF LeavingHandler, DamagedPacket, StartNoAckMode, EndSession,
                               SingleStep, Continue, MonitorRun
    <2> QED BY <2>1
  <1>3. CASE PollLoop
    <2>1. reply' = reply \/ Stop \/ reply'.to = "monitor run"
      BY <1>3, AnswerReplies DEF PollLoop, PollStopped, PollRunning, Interrupted, Ignored, Drained,
                                 MonitorStop
    <2>2. Stop => reply'.to = "c"
      BY AnswerReplies DEF Stop, HaltAndReport
    <2> QED BY <2>1, <2>2
  <1>4. CASE ServeOpens \/ ServeCloses \/ DropChar \/ Target \/ Aborted
    BY <1>4 DEF ServeOpens, OpenStep, ServeCloses, DropChar, Target, Aborted, vars, serverVars
  <1>5. CASE Debugger
    BY <1>5 DEF Debugger, SendPacket, SendInterrupt, SendPlus, NoReply
  <1> QED BY <1>1, <1>2, <1>3, <1>4, <1>5, ServerSteps DEF Next

\* A run that c started is answered with a stop reply only when JTAG holds the
\* CPU, on the parts whose OnHalt takes it.
THEOREM StopRepliesUnderControl == Spec => StopReplyUnderControl
  <1>1. [Next]_vars => [Answers("c", "T05") /\ ~IsXv2 => mode' = "jtag"]_vars
    <2> SUFFICES ASSUME Next, Answers("c", "T05"), ~IsXv2
                 PROVE  mode' = "jtag"
      BY DEF vars
    <2>1. Stop /\ reply'.is = "T05"
      BY WhoReplies DEF Answers
    <2>2. CASE HaltSucceeds
      BY <2>2 DEF HaltSucceeds
    <2>3. CASE Answer("c", "E05", rx)
      BY <2>1, <2>3 DEF Answer, Send
    <2> QED BY <2>1, <2>2, <2>3 DEF Stop, HaltAndReport
  <1> QED BY <1>1, PTL DEF Spec, StopReplyUnderControl

\* What a P packet set is in the cache, and there is none outside of a session.
ToldIsCached ==
    /\ told.by = "P" => ctx = told.val
    /\ phase = "closed" => told.by # "P"

LEMMA ToldStaysCached == ToldIsCached /\ [Next]_vars => ToldIsCached'
  <1> SUFFICES ASSUME ToldIsCached, [Next]_vars PROVE ToldIsCached'
    OBVIOUS
  <1> USE DEF ToldIsCached, tapVars, mcuVars, targetVars
  <1>1. CASE QueryStatus \/ ReadRegisters \/ OtherPacket \/ MonitorErase
    <2>1. told' = told /\ ctx' = ctx /\ phase = "idle"
      BY <1>1 DEF QueryStatus, ReadRegisters, OtherPacket, MonitorErase, Reads, HaltSucceeds,
                  HaltFails
    <2>2. phase' # "closed"
      BY <1>1 DEF QueryStatus, ReadRegisters, OtherPacket, MonitorErase, Answer, AnswerRegs, Send,
                  AfterReply
    <2> QED BY <2>1, <2>2
  <1>2. CASE WriteRegister
    <2>1. ctx' = told'.val
      BY <1>2 DEF WriteRegister, SetPcCached
    <2>2. phase' # "closed"
      BY <1>2 DEF WriteRegister, Answer, Send, AfterReply
    <2> QED BY <2>1, <2>2
  <1>3. CASE WriteRegisters \/ RestartProgram \/ Continue
    <2>1. told' = NotTold
      BY <1>3 DEF WriteRegisters, RestartProgram, Continue
    <2> QED BY <2>1 DEF NotTold
  <1>4. CASE DamagedPacket \/ StartNoAckMode \/ EndSession \/ SingleStep
    <2>1. told' = told /\ ctx' = ctx
      BY <1>4 DEF DamagedPacket, StartNoAckMode, EndSession, SingleStep
    <2>2. phase' # "closed"
      BY <1>4 DEF DamagedPacket, StartNoAckMode, EndSession, SingleStep, Send, AfterReply
    <2> QED BY <2>1, <2>2
  <1>5. CASE MonitorRun
    <2>1. CASE phase' = "monitor" /\ told' = NotTold
      BY <2>1 DEF NotTold
    <2>2. CASE phase' = "aborted" /\ ctx' = ctx /\ told' = told
      BY <2>2
    <2> QED BY <1>5, <2>1, <2>2 DEF MonitorRun
  <1>6. CASE PollLoop
    BY <1>6 DEF PollLoop, PollStopped, PollRunning, Interrupted, Ignored, Drained, Stop,
                MonitorStop, HaltAndReport, HaltSucceeds, HaltFails, Answer, AnswerRegs, Send,
                AfterReply
  <1>7. CASE ServeOpens \/ ServeCloses \/ DropChar
    BY <1>7 DEF ServeOpens, OpenStep, ServeCloses, DropChar, CloseTap, serverVars, NotTold
  <1>8. CASE Debugger \/ Target \/ Aborted \/ UNCHANGED vars
    BY <1>8 DEF Debugger, SendPacket, SendInterrupt, SendPlus, Target, ProgramRuns, EemStops,
                PartReplaced, Aborted, vars, serverVars
  <1> QED BY <1>1, <1>2, <1>3, <1>4, <1>5, <1>6, <1>7, <1>8, ServerSteps
         DEF Next, AnsweringHandler, LeavingHandler

\* The pc a P packet set is the one g reports and the one c starts at, until a
\* run, a reset, another write or the end of the session.
THEOREM PcWritesAreKept == Spec => PcWriteKept
  <1>1. Init => ToldIsCached
    BY DEF Init, NotTold, ToldIsCached
  <1>2. ToldIsCached /\ [Next]_vars =>
          [told.by = "P" =>
             /\ Answers("g", "regs") => reply'.val = told.val
             /\ Continues /\ mode = "jtag" => pc' = told.val]_vars
    <2> SUFFICES ASSUME ToldIsCached, Next, told.by = "P"
                 PROVE  /\ Answers("g", "regs") => reply'.val = told.val
                        /\ Continues /\ mode = "jtag" => pc' = told.val
      BY DEF vars
    <2>1. ctx = told.val
      BY DEF ToldIsCached
    <2>2. ASSUME Answers("g", "regs") PROVE reply'.val = told.val
      <3>1. ReadRegisters
        BY <2>2, WhoReplies DEF Answers
      <3> QED BY <2>1, <3>1 DEF ReadRegisters, AnswerRegs, Send, ReportedPc
    <2>3. ASSUME Continues, mode = "jtag" PROVE pc' = told.val
      <3>1. Continue
        BY <2>3 DEF Continues, Next, Server, DropChar, DamagedPacket, QueryStatus, ReadRegisters,
             WriteRegister, WriteRegisters, RestartProgram, OtherPacket, StartNoAckMode, EndSession,
             MonitorErase, SingleStep, PollStopped, PollRunning, Interrupted, Ignored, Drained, Stop, MonitorRun,
             MonitorStop, ServeOpens, OpenStep, ServeCloses, Debugger, SendPacket, SendInterrupt,
             SendPlus, Target, Aborted, vars, serverVars, HaltAndReport, Answer, AnswerRegs, Send,
             AfterReply
      <3>2. Run
        BY <2>3, <3>1 DEF Continues, Continue, Reads
      <3> QED BY <2>1, <2>3, <3>2 DEF Run, ReleaseDevice, Written
    <2> QED BY <2>2, <2>3
  <1> QED BY <1>1, <1>2, ToldStaysCached, PTL DEF Spec, PcWriteKept

-----------------------------------------------------------------------------
(* The breakpoint table *)


\* A run wrote all there was to write.
WrittenWhilePolling ==
    stage = "polling" => \A i \in HwSlot : Enabled(i) => ~breakpoints[i].dirty

-----------------------------------------------------------------------------
\* The table has an entry 0, which is a trigger block and not the user's.
LEMMA SlotFacts ==
    /\ 0 \in Slot /\ 0 \in HwSlot /\ 0 \notin UserSlot
    /\ HwSlot \subseteq Slot
    /\ UserSlot \subseteq Slot
    /\ \A i \in Slot : i # 0 => i \in UserSlot
  BY TableAssumption DEF Slot, HwSlot, UserSlot

LEMMA EntryFacts ==
    /\ ClearedEntry \in Entry
    /\ \A i \in Slot, a \in Address, t \in BpType : NewEntry(i, a, t) \in Entry
    /\ \A d \in BOOLEAN : SwTrigger(d) \in Entry
  BY AddressAssumption, TableAssumption
     DEF ClearedEntry, NewEntry, SwTrigger, Entry, BpType, Slot

\* An entry's trigger is a function of its address.
LEMMA TriggerFacts ==
    /\ \A entry \in Entry : ProgrammedTrigger(entry) \in Trigger
    /\ \A d, e \in Entry : d.addr = e.addr => ProgrammedTrigger(d) = ProgrammedTrigger(e)
  BY DEF ProgrammedTrigger, Trigger, Entry

LEMMA ClearedFacts == ClearedTable \in [Slot -> Entry] /\ \A i \in Slot : ~ClearedTable[i].enabled
  BY EntryFacts DEF ClearedTable, ClearedEntry

\* PrepareEemSetup touches entry 0 only, and leaves it enabled exactly when a
\* software breakpoint is in the table; if it is clean it was there before.
LEMMA PreparedFacts ==
    ASSUME breakpoints \in [Slot -> Entry]
    PROVE  /\ PreparedTable \in [Slot -> Entry]
           /\ \A i \in UserSlot : PreparedTable[i] = breakpoints[i]
           /\ PreparedTable[0].enabled <=> UsesSw
           /\ PreparedTable[0].enabled /\ ~PreparedTable[0].dirty
                => PreparedTable[0] = breakpoints[0]
  <1>1. CASE ~UsesSw
    <2>1. PreparedTable = [breakpoints EXCEPT ![0].enabled = FALSE]
      BY <1>1 DEF PreparedTable
    <2>2. [breakpoints[0] EXCEPT !.enabled = FALSE] \in Entry
      BY SlotFacts DEF Entry
    <2> QED BY <1>1, <2>1, <2>2, SlotFacts DEF Entry
  <1>2. CASE UsesSw /\ breakpoints[0] = SwTrigger(FALSE)
    BY <1>2, SlotFacts DEF PreparedTable, SwTrigger
  <1>3. CASE UsesSw /\ breakpoints[0] # SwTrigger(FALSE)
    <2>1. PreparedTable = [breakpoints EXCEPT ![0] = SwTrigger(TRUE)]
      BY <1>3 DEF PreparedTable
    <2>2. SwTrigger(TRUE) \in Entry
      BY EntryFacts
    <2>3. SwTrigger(TRUE).enabled /\ SwTrigger(TRUE).dirty
      BY DEF SwTrigger
    <2> QED BY <1>3, <2>1, <2>2, <2>3, SlotFacts
  <1> QED BY <1>1, <1>2, <1>3

-----------------------------------------------------------------------------
(* Type correctness.                                                       *)

LEMMA EemMaskType == EemMask \subseteq HwSlot
  BY SlotFacts DEF EemMask

LEMMA UpdateType ==
    ASSUME EemTypeOK, UpdateEemBreakpoints
    PROVE  /\ breakpoints' \in [Slot -> Entry]
           /\ trigger' \in [HwSlot -> Trigger]
           /\ breakReact' \in SUBSET HwSlot
  <1>1. CASE DisableAll
    BY <1>1, PreparedFacts DEF DisableAll, EemTypeOK
  <1>2. CASE ProgramTriggers
    <2>1. \A i \in Slot : [PreparedTable[i] EXCEPT !.dirty = FALSE] \in Entry
      BY PreparedFacts, ZenonT(40) DEF Entry, EemTypeOK
    <2>2. breakpoints' \in [Slot -> Entry]
      BY <1>2, <2>1, PreparedFacts DEF ProgramTriggers, EemTypeOK
    <2>3. \A i \in HwSlot : ProgrammedTrigger(PreparedTable[i]) \in Trigger
      BY PreparedFacts, SlotFacts, TriggerFacts DEF EemTypeOK
    <2>4. trigger' \in [HwSlot -> Trigger]
      BY <1>2, <2>3 DEF ProgramTriggers, EemTypeOK
    <2>5. breakReact' \in SUBSET HwSlot
      BY <1>2, EemMaskType DEF ProgramTriggers, EemTypeOK
    <2> QED BY <2>2, <2>4, <2>5
  <1> QED BY <1>1, <1>2 DEF UpdateEemBreakpoints

\* Inserting and deleting keep the entries entries.
LEMMA CommandType ==
    ASSUME EemTypeOK, NEW a \in Address, NEW t \in BpType,
           InsertAccepted(a, t) \/ InsertRefused(a, t) \/ Delete(a, t)
    PROVE  EemTypeOK'
  <1>1. breakpoints' \in [Slot -> Entry]
    <2>1. CASE UNCHANGED breakpoints
      BY <2>1 DEF EemTypeOK
    <2>2. CASE AddPopulated(a, t)
      <3>1. PICK sel \in UserSlot :
                breakpoints' = [breakpoints EXCEPT ![sel] = NewEntry(sel, a, t)]
        BY <2>2 DEF AddPopulated
      <3> QED BY <3>1, EntryFacts, SlotFacts DEF EemTypeOK
    <2>3. CASE RemoveMatched(a, t)
      <3>1. PICK i \in UserSlot :
                breakpoints' = [breakpoints EXCEPT ![i].enabled = FALSE]
        BY <2>3 DEF RemoveMatched
      <3>2. [breakpoints[i] EXCEPT !.enabled = FALSE] \in Entry
        BY SlotFacts DEF Entry, EemTypeOK
      <3> QED BY <3>1, <3>2, SlotFacts DEF EemTypeOK
    <2> QED
      BY <2>1, <2>2, <2>3
         DEF InsertAccepted, InsertRefused, Delete, AddMatched, AddRefused, RemoveBreakpoint, RemoveNone
  <1> QED
    BY <1>1 DEF EemTypeOK, InsertAccepted, InsertRefused, Delete, eemVars

LEMMA TypeStep == EemTypeOK /\ [EemNext]_bkptVars => EemTypeOK'
  <1> SUFFICES ASSUME EemTypeOK, [EemNext]_bkptVars
               PROVE  EemTypeOK'
    OBVIOUS
  <1>1. CASE Open
    BY <1>1, ClearedFacts DEF Open, EemTypeOK, eemVars
  <1>2. CASE Close
    BY <1>2, ClearedFacts DEF Close, EemTypeOK, eemVars
  <1>3. CASE RunProgram
    BY <1>3, UpdateType DEF RunProgram, EemTypeOK
  <1>4. CASE StopProgram
    BY <1>4 DEF StopProgram, EemTypeOK, eemVars
  <1>5. CASE \E a \in Address, t \in BpType :
                 InsertAccepted(a, t) \/ InsertRefused(a, t) \/ Delete(a, t)
    BY <1>5, CommandType
  <1>6. CASE UNCHANGED bkptVars
    BY <1>6 DEF bkptVars, EemTypeOK
  <1> QED BY <1>1, <1>2, <1>3, <1>4, <1>5, <1>6 DEF EemNext

LEMMA EemInitType == EemInit => EemTypeOK
  <1> SUFFICES ASSUME EemInit PROVE EemTypeOK
    OBVIOUS
  <1>1. {ProgrammedTrigger(entry) : entry \in Entry} \subseteq Trigger
    BY TriggerFacts
  <1>2. trigger \in [HwSlot -> Trigger]
    BY <1>1 DEF EemInit
  <1> QED BY <1>2, ClearedFacts DEF EemInit, EemTypeOK

\* The table, the trigger blocks and BREAKREACT hold what their types allow: in
\* particular no bit of BREAKREACT is set that has no trigger block.
THEOREM EemTypeCorrect == EemSpec => []EemTypeOK
  <1> QED BY EemInitType, TypeStep, PTL DEF EemSpec

-----------------------------------------------------------------------------
(* No breakpoint of the table is lost while the target runs.               *)

\* With EemTypeOK, the inductive invariant.
Armed == CleanIsWritten /\ WrittenWhilePolling

LEMMA ClearedArmed ==
    ASSUME breakpoints' = ClearedTable
    PROVE  CleanIsWritten'
  BY ClearedFacts, SlotFacts DEF CleanIsWritten, Enabled

\* Between runs the trigger blocks stay as they are, and an entry that a command
\* changes ends up dirty or disabled.
LEMMA CommandArmed ==
    ASSUME EemTypeOK, Armed, NEW a \in Address, NEW t \in BpType,
           InsertAccepted(a, t) \/ InsertRefused(a, t) \/ Delete(a, t)
    PROVE  Armed'
  <1>1. stage' = stage /\ stage = "idle" /\ trigger' = trigger /\ breakReact' = breakReact
    BY DEF InsertAccepted, InsertRefused, Delete, eemVars
  <1>2. \A i \in Slot :
            \/ breakpoints'[i] = breakpoints[i]
            \/ i \in UserSlot /\ (breakpoints'[i].enabled => breakpoints'[i].dirty)
    <2>1. CASE UNCHANGED breakpoints
      BY <2>1
    <2>2. CASE AddPopulated(a, t)
      BY <2>2 DEF AddPopulated, NewEntry, EemTypeOK
    <2>3. CASE RemoveMatched(a, t)
      BY <2>3 DEF RemoveMatched, EemTypeOK, Entry
    <2> QED
      BY <2>1, <2>2, <2>3
         DEF InsertAccepted, InsertRefused, Delete, AddMatched, AddRefused, RemoveBreakpoint, RemoveNone
  <1>3. CleanIsWritten'
    BY <1>1, <1>2, SlotFacts DEF Armed, CleanIsWritten, Enabled
  <1>4. WrittenWhilePolling'
    BY <1>1 DEF WrittenWhilePolling
  <1> QED BY <1>3, <1>4 DEF Armed

\* With no breakpoint in the table a run disables everything.
LEMMA DisableAllArmed ==
    ASSUME EemTypeOK, DisableAll
    PROVE  Armed'
  <1>1. ~UsesSw /\ \A i \in HwSlot \cap UserSlot : ~Enabled(i)
    BY DEF DisableAll, EemMask
  <1>2. \A i \in HwSlot : ~breakpoints'[i].enabled
    BY <1>1, PreparedFacts, SlotFacts DEF DisableAll, EemTypeOK, Enabled
  <1> QED
    BY <1>2, SlotFacts DEF Armed, CleanIsWritten, WrittenWhilePolling, Enabled

\* Otherwise a run writes every dirty entry, and writes BREAKREACT if it wrote
\* one.  When it wrote none, every enabled entry was clean and so armed already.
LEMMA ProgramTriggersArmed ==
    ASSUME EemTypeOK, Armed, ProgramTriggers
    PROVE  Armed'
  <1> DEFINE stale == Outdated(PreparedTable)
  <1>1. /\ PreparedTable \in [Slot -> Entry]
        /\ \A i \in UserSlot : PreparedTable[i] = breakpoints[i]
        /\ PreparedTable[0].enabled <=> UsesSw
        /\ PreparedTable[0].enabled /\ ~PreparedTable[0].dirty
             => PreparedTable[0] = breakpoints[0]
    BY PreparedFacts DEF EemTypeOK
  <1>2. \A i \in Slot : /\ breakpoints'[i] \in Entry
                        /\ breakpoints'[i].enabled = PreparedTable[i].enabled
                        /\ breakpoints'[i].addr = PreparedTable[i].addr
                        /\ i \in HwSlot /\ PreparedTable[i].enabled
                             => ~breakpoints'[i].dirty
    BY <1>1 DEF ProgramTriggers, Outdated, Entry
  <1>3. \A i \in HwSlot : PreparedTable[i].enabled => i \in EemMask
    BY <1>1, SlotFacts DEF EemMask, Enabled
  <1>4. \A i \in HwSlot : PreparedTable[i].enabled /\ i \notin stale =>
            /\ PreparedTable[i] = breakpoints[i]
            /\ i \in breakReact /\ trigger[i] = ProgrammedTrigger(PreparedTable[i])
    BY <1>1, SlotFacts DEF Outdated, Armed, CleanIsWritten, Enabled
  <1>5. \A i \in HwSlot : PreparedTable[i].enabled =>
            i \in breakReact' /\ trigger'[i] = ProgrammedTrigger(PreparedTable[i])
    <2> SUFFICES ASSUME NEW i \in HwSlot, PreparedTable[i].enabled
                 PROVE  i \in breakReact' /\ trigger'[i] = ProgrammedTrigger(PreparedTable[i])
      OBVIOUS
    <2>1. CASE i \in stale
      BY <2>1, <1>3 DEF ProgramTriggers
    <2>2. CASE i \notin stale
      BY <2>2, <1>3, <1>4 DEF ProgramTriggers
    <2> QED BY <2>1, <2>2
  <1>6. \A i \in HwSlot : ProgrammedTrigger(breakpoints'[i]) = ProgrammedTrigger(PreparedTable[i])
    BY <1>1, <1>2, SlotFacts, TriggerFacts
  <1>7. CleanIsWritten'
    BY <1>2, <1>5, <1>6, SlotFacts DEF CleanIsWritten, Enabled
  <1>8. WrittenWhilePolling'
    BY <1>1, <1>2, SlotFacts DEF WrittenWhilePolling, Enabled
  <1> QED BY <1>7, <1>8 DEF Armed

LEMMA ArmedStep == EemTypeOK /\ Armed /\ [EemNext]_bkptVars => Armed'
  <1> SUFFICES ASSUME EemTypeOK, Armed, [EemNext]_bkptVars
               PROVE  Armed'
    OBVIOUS
  <1>1. CASE Open
    BY <1>1, ClearedArmed DEF Open, Armed, WrittenWhilePolling
  <1>2. CASE Close
    BY <1>2, ClearedArmed DEF Close, Armed, WrittenWhilePolling
  <1>3. CASE RunProgram
    BY <1>3, DisableAllArmed, ProgramTriggersArmed DEF RunProgram, UpdateEemBreakpoints
  <1>4. CASE StopProgram
    <2>1. CleanIsWritten'
      BY <1>4 DEF StopProgram, eemVars, Armed, CleanIsWritten, Enabled
    <2> QED BY <1>4, <2>1 DEF StopProgram, Armed, WrittenWhilePolling
  <1>5. CASE \E a \in Address, t \in BpType :
                 InsertAccepted(a, t) \/ InsertRefused(a, t) \/ Delete(a, t)
    BY <1>5, CommandArmed
  <1>6. CASE UNCHANGED bkptVars
    BY <1>6 DEF bkptVars, Armed, CleanIsWritten, WrittenWhilePolling, Enabled, UsesSw
  <1> QED BY <1>1, <1>2, <1>3, <1>4, <1>5, <1>6 DEF EemNext

LEMMA InitArmed == EemInit => Armed
  BY ClearedFacts, SlotFacts
     DEF EemInit, Armed, CleanIsWritten, WrittenWhilePolling, Enabled

LEMMA ArmedImpliesNoLost == EemTypeOK /\ Armed => NoLostBreakpoint
  BY SlotFacts
     DEF Armed, CleanIsWritten, WrittenWhilePolling, NoLostBreakpoint, HwEntry, StopsAt,
         ProgrammedTrigger, Enabled

\* A clean entry is written in the target, whatever commands and runs came before.
THEOREM CleanEntriesWritten == EemSpec => []CleanIsWritten
  <1>1. EemTypeOK /\ Armed => CleanIsWritten
    BY DEF Armed
  <1> QED BY <1>1, EemInitType, TypeStep, InitArmed, ArmedStep, PTL DEF EemSpec

\* While the target runs, the fetch of an instruction from the address of any
\* breakpoint the table holds with a trigger block stops it.
THEOREM NoBreakpointLost == EemSpec => []NoLostBreakpoint
  <1> QED
    BY EemInitType, TypeStep, InitArmed, ArmedStep, ArmedImpliesNoLost, PTL DEF EemSpec

-----------------------------------------------------------------------------
(* The table as the debugger sees it.                                      *)

\* What the debugger can tell of a user entry survives a run.
LEMMA RunKeepsRequests ==
    ASSUME EemTypeOK, UpdateEemBreakpoints, NEW i \in UserSlot
    PROVE  Enabled(i)' = Enabled(i) /\ Request(i)' = Request(i)
  <1>1. /\ PreparedTable \in [Slot -> Entry]
        /\ PreparedTable[i] = breakpoints[i]
    BY PreparedFacts DEF EemTypeOK
  <1>2. /\ breakpoints'[i].enabled = PreparedTable[i].enabled
        /\ breakpoints'[i].addr = PreparedTable[i].addr
        /\ breakpoints'[i].type = PreparedTable[i].type
    BY <1>1, SlotFacts DEF UpdateEemBreakpoints, DisableAll, ProgramTriggers, Entry
  <1> QED BY <1>1, <1>2 DEF Enabled, Request

\* An insertion fills one free entry with the request, which no other entry has.
LEMMA PopulatedFacts ==
    ASSUME EemTypeOK, NEW a \in Address, NEW t \in BpType, AddPopulated(a, t)
    PROVE  \E sel \in UserSlot :
              /\ IsFirst(sel, Free)
              /\ Usable(sel, t)
              /\ Enabled(sel)' /\ Request(sel)' = <<a, t>>
              /\ \A i \in UserSlot \ {sel} : Enabled(i)' = Enabled(i) /\ Request(i)' = Request(i)
              /\ \A i \in UserSlot : Enabled(i) => Request(i) # <<a, t>>
  <1>1. PICK sel \in UserSlot :
            /\ IsFirst(sel, Free)
            /\ Usable(sel, t)
            /\ breakpoints' = [breakpoints EXCEPT ![sel] = NewEntry(sel, a, t)]
    BY DEF AddPopulated
  <1>2. \A i \in UserSlot : Enabled(i) => Request(i) # <<a, t>>
    BY DEF AddPopulated, Matching
  <1>3. Enabled(sel)' /\ Request(sel)' = <<a, t>>
    BY <1>1, SlotFacts DEF Enabled, Request, NewEntry, EemTypeOK
  <1>4. \A i \in UserSlot \ {sel} : Enabled(i)' = Enabled(i) /\ Request(i)' = Request(i)
    BY <1>1, SlotFacts DEF Enabled, Request, EemTypeOK
  <1> QED BY <1>1, <1>2, <1>3, <1>4

\* A deletion disables one entry that has the request, and no other changes.
LEMMA RemovedFacts ==
    ASSUME EemTypeOK, NEW a \in Address, NEW t \in BpType, RemoveMatched(a, t)
    PROVE  \E k \in UserSlot :
              /\ Enabled(k) /\ Request(k) = <<a, t>>
              /\ ~Enabled(k)'
              /\ \A i \in UserSlot \ {k} : Enabled(i)' = Enabled(i) /\ Request(i)' = Request(i)
  <1>1. PICK k \in UserSlot :
            /\ IsFirst(k, Matching(a, t))
            /\ breakpoints' = [breakpoints EXCEPT ![k].enabled = FALSE]
    BY DEF RemoveMatched
  <1>2. Enabled(k) /\ Request(k) = <<a, t>>
    BY <1>1 DEF IsFirst, Matching
  <1>3. ~Enabled(k)'
    BY <1>1, SlotFacts DEF Enabled, EemTypeOK, Entry
  <1>4. \A i \in UserSlot \ {k} : Enabled(i)' = Enabled(i) /\ Request(i)' = Request(i)
    BY <1>1, SlotFacts DEF Enabled, Request, EemTypeOK
  <1> QED BY <1>1, <1>2, <1>3, <1>4

\* How a step treats the user entries: it leaves them, clears them, fills a free
\* one or disables one.
LEMMA StepFacts ==
    ASSUME EemTypeOK, [EemNext]_bkptVars
    PROVE  \/ \A i \in UserSlot : Enabled(i)' = Enabled(i) /\ Request(i)' = Request(i)
           \/ \A i \in UserSlot : ~Enabled(i)'
           \/ \E a \in Address, t \in BpType : AddPopulated(a, t)
           \/ \E a \in Address, t \in BpType : RemoveMatched(a, t)
  <1>1. CASE Open \/ Close
    BY <1>1, ClearedFacts, SlotFacts DEF Open, Close, Enabled
  <1>2. CASE RunProgram
    BY <1>2, RunKeepsRequests DEF RunProgram
  <1>3. CASE StopProgram
    BY <1>3 DEF StopProgram, Enabled, Request
  <1>4. CASE \E a \in Address, t \in BpType :
                 InsertAccepted(a, t) \/ InsertRefused(a, t) \/ Delete(a, t)
    <2>1. CASE UNCHANGED breakpoints
      BY <2>1 DEF Enabled, Request
    <2> QED
      BY <1>4, <2>1
         DEF InsertAccepted, InsertRefused, Delete, AddMatched, AddRefused, RemoveBreakpoint, RemoveNone
  <1>5. CASE UNCHANGED bkptVars
    BY <1>5 DEF bkptVars, Enabled, Request
  <1> QED BY <1>1, <1>2, <1>3, <1>4, <1>5 DEF EemNext

LEMMA NoDuplicatesStep == EemTypeOK /\ NoDuplicates /\ [EemNext]_bkptVars => NoDuplicates'
  <1> SUFFICES ASSUME EemTypeOK, NoDuplicates, [EemNext]_bkptVars
               PROVE  NoDuplicates'
    OBVIOUS
  <1>1. CASE \/ \A i \in UserSlot : Enabled(i)' = Enabled(i) /\ Request(i)' = Request(i)
             \/ \A i \in UserSlot : ~Enabled(i)'
    BY <1>1 DEF NoDuplicates
  <1>2. CASE \E a \in Address, t \in BpType : AddPopulated(a, t)
    BY <1>2, PopulatedFacts DEF NoDuplicates
  <1>3. CASE \E a \in Address, t \in BpType : RemoveMatched(a, t)
    BY <1>3, RemovedFacts DEF NoDuplicates
  <1> QED BY <1>1, <1>2, <1>3, StepFacts

\* No two entries of the table ask for the same, so that deleting the first match
\* deletes the breakpoint.
THEOREM EntriesAreDistinct == EemSpec => []NoDuplicates
  <1>1. EemInit => NoDuplicates
    BY ClearedFacts, SlotFacts DEF EemInit, NoDuplicates, Enabled
  <1> QED BY <1>1, EemInitType, TypeStep, NoDuplicatesStep, PTL DEF EemSpec

\* No step gives an entry in use to another request.
THEOREM EntriesAreStable == EemSpec => SlotStable
  <1> DEFINE A == \A i \in UserSlot : Enabled(i) /\ Enabled(i)' => Request(i)' = Request(i)
  <1>1. EemTypeOK /\ [EemNext]_bkptVars => A
    <2> SUFFICES ASSUME EemTypeOK, [EemNext]_bkptVars
                 PROVE  A
      OBVIOUS
    <2>1. CASE \E a \in Address, t \in BpType : AddPopulated(a, t)
      BY <2>1, PopulatedFacts DEF IsFirst, Free
    <2>2. CASE \E a \in Address, t \in BpType : RemoveMatched(a, t)
      BY <2>2, RemovedFacts
    <2> QED BY <2>1, <2>2, StepFacts
  <1>2. EemTypeOK /\ [EemNext]_bkptVars => [A]_bkptVars
    BY <1>1
  <1> HIDE DEF A
  <1>3. EemSpec => [][A]_bkptVars
    BY <1>2, EemInitType, TypeStep, PTL DEF EemSpec
  <1> QED BY <1>3 DEF SlotStable, A

-----------------------------------------------------------------------------
(* Watchpoints and the order in which entries are given away.              *)

LEMMA WatchesStep == EemTypeOK /\ WatchesInHw /\ [EemNext]_bkptVars => WatchesInHw'
  <1> SUFFICES ASSUME EemTypeOK, WatchesInHw, [EemNext]_bkptVars
               PROVE  WatchesInHw'
    OBVIOUS
  <1>1. CASE \/ \A i \in UserSlot : Enabled(i)' = Enabled(i) /\ Request(i)' = Request(i)
             \/ \A i \in UserSlot : ~Enabled(i)'
    BY <1>1 DEF WatchesInHw, Request
  <1>2. CASE \E a \in Address, t \in BpType : AddPopulated(a, t)
    <2>1. PICK a \in Address, t \in BpType, sel \in UserSlot :
              /\ Usable(sel, t)
              /\ Request(sel)' = <<a, t>>
              /\ \A i \in UserSlot \ {sel} :
                    Enabled(i)' = Enabled(i) /\ Request(i)' = Request(i)
      BY <1>2, PopulatedFacts
    <2>2. t # "break" => sel \in HwSlot
      BY <2>1, TableAssumption DEF Usable, HwSlot, UserSlot
    <2> QED BY <2>1, <2>2 DEF WatchesInHw, Request
  <1>3. CASE \E a \in Address, t \in BpType : RemoveMatched(a, t)
    BY <1>3, RemovedFacts DEF WatchesInHw, Request
  <1> QED BY <1>1, <1>2, <1>3, StepFacts

\* No watchpoint is accepted that has no trigger block to watch for it.
THEOREM WatchesHaveTriggers == EemSpec => []WatchesInHw
  <1>1. EemInit => WatchesInHw
    BY ClearedFacts, SlotFacts DEF EemInit, WatchesInHw, Enabled
  <1> QED BY <1>1, EemInitType, TypeStep, WatchesStep, PTL DEF EemSpec

\* No entry without a trigger block is taken while one with it is free: the
\* first free entry is the lowest, and those with trigger blocks come first.
THEOREM HardwareComesFirst == EemSpec => HwFirst
  <1> DEFINE A == \A i \in UserSlot \ HwSlot : ~Enabled(i) /\ Enabled(i)' =>
                      \A j \in UserSlot \cap HwSlot : Enabled(j)
  <1>1. EemTypeOK /\ [EemNext]_bkptVars => A
    <2> SUFFICES ASSUME EemTypeOK, [EemNext]_bkptVars
                 PROVE  A
      OBVIOUS
    <2>1. CASE \E a \in Address, t \in BpType : AddPopulated(a, t)
      <3>1. PICK sel \in UserSlot :
                /\ IsFirst(sel, Free)
                /\ \A i \in UserSlot \ {sel} : Enabled(i)' = Enabled(i)
        BY <2>1, PopulatedFacts
      <3>2. sel \notin HwSlot => \A j \in UserSlot \cap HwSlot : Enabled(j)
        BY <3>1, TableAssumption DEF IsFirst, Free, HwSlot, UserSlot
      <3> QED BY <3>1, <3>2
    <2>2. CASE \E a \in Address, t \in BpType : RemoveMatched(a, t)
      BY <2>2, RemovedFacts
    <2> QED BY <2>1, <2>2, StepFacts
  <1>2. EemTypeOK /\ [EemNext]_bkptVars => [A]_bkptVars
    BY <1>1
  <1> HIDE DEF A
  <1>3. EemSpec => [][A]_bkptVars
    BY <1>2, EemInitType, TypeStep, PTL DEF EemSpec
  <1> QED BY <1>3 DEF HwFirst, A

-----------------------------------------------------------------------------
(* The set of breakpoints the debugger sees.                               *)

LEMMA RequestedSame ==
    ASSUME \A i \in UserSlot : Enabled(i)' = Enabled(i) /\ Request(i)' = Request(i)
    PROVE  Requested' = Requested
  BY DEF Requested

LEMMA RequestedNone ==
    ASSUME \A i \in UserSlot : ~Enabled(i)'
    PROVE  Requested' = {}
  BY DEF Requested

LEMMA RequestedAdded ==
    ASSUME EemTypeOK, NEW a \in Address, NEW t \in BpType,
           AddMatched(a, t) \/ AddPopulated(a, t)
    PROVE  Requested' = Requested \cup {<<a, t>>}
  <1>1. CASE AddMatched(a, t)
    <2>1. <<a, t>> \in Requested
      BY <1>1 DEF AddMatched, Matching, Requested
    <2>2. Requested' = Requested
      BY <1>1 DEF AddMatched, Requested, Enabled, Request
    <2> QED BY <2>1, <2>2
  <1>2. CASE AddPopulated(a, t)
    <2>1. PICK sel \in UserSlot :
              /\ ~Enabled(sel)
              /\ Enabled(sel)' /\ Request(sel)' = <<a, t>>
              /\ \A i \in UserSlot \ {sel} :
                    Enabled(i)' = Enabled(i) /\ Request(i)' = Request(i)
      BY <1>2, PopulatedFacts DEF IsFirst, Free
    <2> QED BY <2>1 DEF Requested
  <1> QED BY <1>1, <1>2

\* Disabling the first match takes the request away because there is no second.
LEMMA RequestedRemoved ==
    ASSUME EemTypeOK, NoDuplicates, NEW a \in Address, NEW t \in BpType, RemoveBreakpoint(a, t)
    PROVE  Requested' = Requested \ {<<a, t>>}
  <1>1. CASE RemoveNone(a, t)
    <2>1. <<a, t>> \notin Requested
      BY <1>1 DEF RemoveNone, Matching, Requested
    <2>2. Requested' = Requested
      BY <1>1 DEF RemoveNone, Requested, Enabled, Request
    <2> QED BY <2>1, <2>2
  <1>2. CASE RemoveMatched(a, t)
    <2>1. PICK k \in UserSlot :
              /\ Enabled(k) /\ Request(k) = <<a, t>>
              /\ ~Enabled(k)'
              /\ \A i \in UserSlot \ {k} :
                    Enabled(i)' = Enabled(i) /\ Request(i)' = Request(i)
      BY <1>2, RemovedFacts
    <2>2. \A i \in UserSlot \ {k} : Enabled(i) => Request(i) # <<a, t>>
      BY <2>1 DEF NoDuplicates
    <2> QED BY <2>1, <2>2 DEF Requested
  <1> QED BY <1>1, <1>2 DEF RemoveBreakpoint

LEMMA RequestedRefused ==
    ASSUME NEW a \in Address, NEW t \in BpType, AddRefused(a, t)
    PROVE  Requested' = Requested
  BY DEF AddRefused, Requested, Enabled, Request

\* Each packet answered OK did to the set what it asked for.
THEOREM AnswersHold == EemSpec => AnswersAreTrue
  <1> DEFINE A == \A a \in Address, t \in BpType :
                    /\ InsertAccepted(a, t) => Requested' = Requested \cup {<<a, t>>}
                    /\ InsertRefused(a, t)  => Requested' = Requested
                    /\ Delete(a, t)         => Requested' = Requested \ {<<a, t>>}
  <1>1. EemTypeOK /\ NoDuplicates => A
    BY RequestedAdded, RequestedRemoved, RequestedRefused
       DEF InsertAccepted, InsertRefused, Delete
  <1>2. EemTypeOK /\ NoDuplicates /\ [EemNext]_bkptVars => [A]_bkptVars
    BY <1>1
  <1> HIDE DEF A
  <1>3. EemSpec => [][A]_bkptVars
    <2>1. EemInit => NoDuplicates
      BY ClearedFacts, SlotFacts DEF EemInit, NoDuplicates, Enabled
    <2> QED BY <2>1, <1>2, EemInitType, TypeStep, NoDuplicatesStep, PTL DEF EemSpec
  <1> QED BY <1>3 DEF AnswersAreTrue, A

LEMMA AbstractStep ==
    ASSUME EemTypeOK, NoDuplicates, [EemNext]_bkptVars
    PROVE  [Abstract!Next]_(Abstract!vars)
  <1>1. CASE Open \/ Close
    <2>1. Requested' = {}
      BY <1>1, ClearedFacts, SlotFacts, RequestedNone DEF Open, Close, Enabled
    <2> QED BY <1>1, <2>1 DEF Open, Close, Abstract!Next, Abstract!Open, Abstract!Close
  <1>2. CASE RunProgram
    <2>1. Requested' = Requested
      BY <1>2, RunKeepsRequests, RequestedSame DEF RunProgram
    <2> QED BY <1>2, <2>1 DEF RunProgram, Abstract!Next, Abstract!Run
  <1>3. CASE StopProgram
    <2>1. Requested' = Requested
      BY <1>3 DEF StopProgram, Requested, Enabled, Request
    <2> QED BY <1>3, <2>1 DEF StopProgram, Abstract!Next, Abstract!Stop
  <1>4. CASE \E a \in Address, t \in BpType :
                 InsertAccepted(a, t) \/ InsertRefused(a, t) \/ Delete(a, t)
    <2>1. PICK a \in Address, t \in BpType :
              InsertAccepted(a, t) \/ InsertRefused(a, t) \/ Delete(a, t)
      BY <1>4
    <2>2. CASE InsertAccepted(a, t)
      <3>1. Abstract!Insert(a, t)
        BY <2>2, RequestedAdded DEF InsertAccepted, Abstract!Insert
      <3> QED BY <3>1 DEF Abstract!Next
    <2>3. CASE InsertRefused(a, t)
      BY <2>3, RequestedRefused DEF InsertRefused, Abstract!vars
    <2>4. CASE Delete(a, t)
      <3>1. Abstract!Delete(a, t)
        BY <2>4, RequestedRemoved DEF Delete, Abstract!Delete
      <3> QED BY <3>1 DEF Abstract!Next
    <2> QED BY <2>1, <2>2, <2>3, <2>4
  <1>5. CASE UNCHANGED bkptVars
    BY <1>5 DEF bkptVars, Requested, Enabled, Request, Abstract!vars
  <1> QED BY <1>1, <1>2, <1>3, <1>4, <1>5 DEF EemNext

\* The table implements the set of breakpoints the debugger is promised.
THEOREM ImplementsBreakpointSet == EemSpec => RefinesBreakpointSet
  <1>1. EemInit => NoDuplicates
    BY ClearedFacts, SlotFacts DEF EemInit, NoDuplicates, Enabled
  <1>2. EemInit => Abstract!Init
    BY ClearedFacts, SlotFacts DEF EemInit, Abstract!Init, Requested, Enabled
  <1>3. EemTypeOK /\ NoDuplicates /\ [EemNext]_bkptVars => [Abstract!Next]_(Abstract!vars)
    BY AbstractStep
  <1>4. EemSpec => Abstract!Spec
    BY <1>1, <1>2, <1>3, EemInitType, TypeStep, NoDuplicatesStep, PTL DEF EemSpec, Abstract!Spec
  <1> QED BY <1>4 DEF RefinesBreakpointSet

-----------------------------------------------------------------------------
(* Frames *)

Code == 0 .. 127

Copies(ch, n) == [i \in 1 .. n |-> ch]

\* A code of three characters begins at k.
Packed(s, k) == k + 2 <= Len(s) /\ s[k + 1] = Star

\* R is what Unpacked computes on s, from every position on.
Scans(s, R) ==
    /\ R \in [1 .. Len(s) + 1 -> Seq(Code)]
    /\ R[Len(s) + 1] = <<>>
    /\ \A k \in 1 .. Len(s) :
          /\ Packed(s, k) =>
                R[k] = Copies(s[k], s[k + 2] - AsciiOffset + 1) \o R[k + 3]
          /\ ~Packed(s, k) => R[k] = <<s[k]>> \o R[k + 1]

LEMMA CopiesType ==
    ASSUME NEW ch \in Code, NEW n \in Int
    PROVE  Copies(ch, n) \in Seq(Code)
  <1>1. CASE n \in Nat
    BY <1>1 DEF Copies
  <1>2. CASE n \notin Nat
    <2>1. Copies(ch, n) = [i \in 1 .. 0 |-> ch]
      BY <1>2 DEF Copies
    <2> QED BY <2>1
  <1> QED BY <1>1, <1>2

LEMMA UnpackedScans ==
    ASSUME NEW s \in Seq(Code)
    PROVE  \E R : Scans(s, R) /\ Unpacked(s) = R[1]
  <1> DEFINE D == 1 .. Len(s) + 1
             A == Seq(Code)
             m == [k \in D |-> Len(s) + 1 - k]
             next == [k \in D |-> IF k > Len(s) THEN k
                                  ELSE IF Packed(s, k) THEN k + 3 ELSE k + 1]
             pre(k) == IF Packed(s, k) THEN Copies(s[k], s[k + 2] - AsciiOffset + 1)
                       ELSE <<s[k]>>
             g == [k \in D |-> [x \in A |-> IF k > Len(s) THEN <<>> ELSE pre(k) \o x]]
             Eqn(R) == R = [k \in D |->
                IF k > Len(s) THEN <<>>
                ELSE IF k + 2 <= Len(s) /\ s[k + 1] = Star
                THEN [i \in 1 .. s[k + 2] - AsciiOffset + 1 |-> s[k]] \o R[k + 3]
                ELSE <<s[k]>> \o R[k + 1]]
             Rest == CHOOSE R : Eqn(R)
  <1>1. Len(s) + 1 \in Nat /\ <<>> \in A
    OBVIOUS
  <1>2. m \in [D -> 0 .. Len(s) + 1]
    OBVIOUS
  <1>3. next \in [D -> D]
    BY DEF Packed
  <1>4. \A k \in D : k <= Len(s) => pre(k) \in Seq(Code)
    <2> SUFFICES ASSUME NEW k \in D, k <= Len(s) PROVE pre(k) \in Seq(Code)
      OBVIOUS
    <2>1. s[k] \in Code
      OBVIOUS
    <2>2. CASE Packed(s, k)
      <3>1. k + 2 \in 1 .. Len(s)
        BY <2>2 DEF Packed
      <3>2. s[k + 2] \in Code
        BY <3>1
      <3>3. s[k + 2] - AsciiOffset + 1 \in Int
        <4>1. \A x \in Code : x - AsciiOffset + 1 \in Int
          BY DEF AsciiOffset, Code
        <4> QED BY <3>2, <4>1, Zenon
      <3> QED BY <2>1, <2>2, <3>3, CopiesType
    <2>3. CASE ~Packed(s, k)
      BY <2>1, <2>3
    <2> QED BY <2>2, <2>3
  <1>5. g \in [D -> [A -> A]]
    <2> SUFFICES ASSUME NEW k \in D, k <= Len(s), NEW x \in A
                 PROVE  pre(k) \o x \in A
      OBVIOUS
    <2>1. pre(k) \in Seq(Code)
      BY <1>4
    <2> HIDE DEF pre
    <2> QED BY <2>1
  <1>6. Descends(D, Len(s) + 1, m, next)
    <2>1. \A k \in D : m[k] # 0 => m[next[k]] < m[k]
      BY DEF Packed
    <2> HIDE DEF D, m, next
    <2> QED BY <1>1, <1>2, <1>3, <2>1 DEF Descends
  <1>7. PICK f \in [D -> A] :
           f = [k \in D |-> IF m[k] = 0 THEN <<>> ELSE g[k][f[next[k]]]]
    <2>1. HasSolution(D, A, m, next, <<>>, g)
      <3> HIDE DEF D, A, m, next, g
      <3> QED BY <1>1, <1>5, <1>6, RecursionExists
    <2> QED BY <2>1 DEF HasSolution
  <1>8. ASSUME NEW k \in D
        PROVE  f[k] = 
                IF k > Len(s) THEN <<>>
                ELSE IF k + 2 <= Len(s) /\ s[k + 1] = Star
                THEN [i \in 1 .. s[k + 2] - AsciiOffset + 1 |-> s[k]] \o f[k + 3]
                ELSE <<s[k]>> \o f[k + 1]
    <2>1. f[k] = IF m[k] = 0 THEN <<>> ELSE g[k][f[next[k]]]
      <3> HIDE DEF m, g, next, A, D
      <3> QED BY <1>7
    <2>2. f[next[k]] \in A
      BY <1>3
    <2>3. CASE k > Len(s)
      BY <2>1, <2>3
    <2>4. CASE k <= Len(s)
      <3>1. m[k] # 0 /\ g[k][f[next[k]]] = pre(k) \o f[next[k]]
        <4> HIDE DEF pre, next
        <4> QED BY <2>2, <2>4
      <3>2. f[k] = pre(k) \o f[next[k]]
        <4> HIDE DEF pre, next, m, g
        <4> QED BY <2>1, <3>1
      <3>3. ~(k > Len(s)) /\ next[k] = IF Packed(s, k) THEN k + 3 ELSE k + 1
        BY <2>4
      <3> QED BY <3>2, <3>3, Zenon DEF Packed, Copies
    <2>5. k > Len(s) \/ k <= Len(s)
      OBVIOUS
    <2> QED BY <2>3, <2>4, <2>5, Zenon
  <1>9. Eqn(f)
    <2>1. f = [k \in D |-> f[k]]
      BY <1>7
    <2> QED BY <1>8, <2>1
  <1>10. Eqn(Rest)
    <2> HIDE DEF Eqn
    <2> QED BY <1>9
  <1>11. Rest = f
    <2>2. f = [k \in D |-> f[k]] /\ Rest = [k \in D |-> Rest[k]]
      <3> HIDE DEF Rest, D
      <3> QED BY <1>9, <1>10, Zenon
    <2>3. ASSUME NEW k \in D, m[k] = 0 \/ f[next[k]] = Rest[next[k]]
          PROVE  f[k] = Rest[k]
      <3> DEFINE E(R) == IF k > Len(s) THEN <<>>
                         ELSE IF Packed(s, k)
                         THEN Copies(s[k], s[k + 2] - AsciiOffset + 1) \o R[k + 3]
                         ELSE <<s[k]>> \o R[k + 1]
      <3>1. f[k] = E(f) /\ Rest[k] = E(Rest)
        <4> HIDE DEF Rest, D
        <4> QED BY <1>9, <1>10, Zenon DEF Packed, Copies
      <3>2. k > Len(s) \/ next[k] = IF Packed(s, k) THEN k + 3 ELSE k + 1
        OBVIOUS
      <3>3. m[k] = 0 <=> k > Len(s)
        OBVIOUS
      <3> HIDE DEF Rest, m, next
      <3> QED BY <2>3, <3>1, <3>2, <3>3, Zenon
    <2> HIDE DEF Rest, D, m, next
    <2>4. Alike(D, m, next, f, Rest)
      BY <2>2, <2>3, Zenon DEF Alike
    <2> QED BY <2>4, <1>6, SolutionUnique
  <1>12. Scans(s, f)
    <2>1. Len(s) + 1 \in D /\ Len(s) + 1 > Len(s)
      OBVIOUS
    <2>3. f[Len(s) + 1] = <<>>
      <3> HIDE DEF D
      <3> QED BY <1>8, <2>1, Zenon
    <2>2. ASSUME NEW k \in 1 .. Len(s)
          PROVE  /\ Packed(s, k) =>
                      f[k] = Copies(s[k], s[k + 2] - AsciiOffset + 1) \o f[k + 3]
                 /\ ~Packed(s, k) => f[k] = <<s[k]>> \o f[k + 1]
      <3>1. k \in D /\ ~(k > Len(s))
        OBVIOUS
      <3> HIDE DEF D
      <3> QED BY <1>8, <3>1, Zenon DEF Packed, Copies
    <2> QED BY <2>2, <2>3, Zenon DEF Scans
  <1>13. Unpacked(s) = Rest[1]
    BY DEF Unpacked
  <1> HIDE DEF Rest
  <1> QED BY <1>11, <1>12, <1>13, Zenon
-----------------------------------------------------------------------------
\* Where the scan of s begins a code.
Cut(s, B) ==
    /\ B \subseteq 1 .. Len(s) + 1 /\ 1 \in B /\ Len(s) + 1 \in B
    /\ \A k \in B : k <= Len(s) =>
          IF k < Len(s) /\ s[k + 1] = Star THEN k + 3 \in B ELSE k + 1 \in B

\* s consists of whole codes, and t is what they stand for.
Decodes(s, t) ==
    /\ s \in Seq(Code)
    /\ Unpacked(s) = t
    /\ \E B : Cut(s, B)

\* What can follow a code without becoming a part of it.
Separate(s) == s = <<>> \/ s[1] # Star

LEMMA ConcatFacts ==
    ASSUME NEW s \in Seq(Code), NEW r \in Seq(Code)
    PROVE  /\ s \o r \in Seq(Code) /\ Len(s \o r) = Len(s) + Len(r)
           /\ Len(s) \in Nat /\ Len(r) \in Nat
           /\ \A k \in 1 .. Len(s) : (s \o r)[k] = s[k]
           /\ \A k \in 1 .. Len(r) : (s \o r)[Len(s) + k] = r[k]
  OBVIOUS

LEMMA Assoc ==
    \A a, b, c \in Seq(Code) : (a \o b) \o c = a \o (b \o c)
  BY ConcatAssociative

\* Behind s, the scan of s \o r is the scan of r.
LEMMA ScanBehind ==
    ASSUME NEW s \in Seq(Code), NEW r \in Seq(Code), NEW R, NEW T,
           Scans(r, R), Scans(s \o r, T)
    PROVE  \A k \in 1 .. Len(r) + 1 : T[Len(s) + k] = R[k]
  <1> DEFINE S == {n \in Nat : \A k \in 1 .. Len(r) + 1 :
                                  Len(r) + 1 - k = n => T[Len(s) + k] = R[k]}
  <1>0. /\ Len(s \o r) = Len(s) + Len(r)
        /\ Len(s) \in Nat /\ Len(r) \in Nat
        /\ \A k \in 1 .. Len(r) : (s \o r)[Len(s) + k] = r[k]
    BY ConcatFacts
  <1>1. ASSUME NEW n \in Nat, \A k \in 0 .. n - 1 : k \in S
        PROVE  n \in S
    <2> SUFFICES ASSUME NEW k \in 1 .. Len(r) + 1, Len(r) + 1 - k = n
                 PROVE  T[Len(s) + k] = R[k]
      OBVIOUS
    <2>1. ASSUME NEW j \in 1 .. Len(r) + 1, j > k
          PROVE  T[Len(s) + j] = R[j]
      <3> DEFINE i == Len(r) + 1 - j
      <3>1. i \in 0 .. n - 1
        BY <1>0, <2>1
      <3>2. i \in S
        <4> HIDE DEF S, i
        <4> QED BY <1>1, <3>1
      <3> HIDE DEF i
      <3>3. i = Len(r) + 1 - j
        BY DEF i
      <3> QED BY <3>2, <3>3
    <2>2. CASE k = Len(r) + 1
      BY <1>0, <2>2 DEF Scans
    <2>3. CASE k # Len(r) + 1
      <3>1. k \in 1 .. Len(r) /\ Len(s) + k \in 1 .. Len(s \o r)
        BY <1>0, <2>3
      <3>2. Packed(s \o r, Len(s) + k) <=> Packed(r, k)
        <4>1. k + 2 <= Len(r) => (s \o r)[Len(s) + k + 1] = r[k + 1]
          <5>1. k + 2 <= Len(r) => k + 1 \in 1 .. Len(r)
            BY <1>0, <3>1
          <5>2. Len(s) + k + 1 = Len(s) + (k + 1)
            BY <1>0
          <5> QED BY <1>0, <5>1, <5>2
        <4> QED BY <1>0, <4>1 DEF Packed
      <3>3. (s \o r)[Len(s) + k] = r[k]
        BY <1>0, <3>1
      <3>4. CASE Packed(r, k)
        <4>1. k + 2 \in 1 .. Len(r) /\ k + 3 \in 1 .. Len(r) + 1 /\ k + 3 > k
          BY <1>0, <3>1, <3>4 DEF Packed
        <4>2. (s \o r)[Len(s) + (k + 2)] = r[k + 2] /\ T[Len(s) + (k + 3)] = R[k + 3]
          BY <1>0, <2>1, <4>1
        <4>3. Len(s) + (k + 2) = Len(s) + k + 2 /\ Len(s) + (k + 3) = Len(s) + k + 3
          BY <1>0
        <4>4. T[Len(s) + k] = Copies((s \o r)[Len(s) + k], (s \o r)[Len(s) + k + 2] - AsciiOffset + 1)
                                 \o T[Len(s) + k + 3]
          BY <3>1, <3>2, <3>4, Zenon DEF Scans
        <4>5. R[k] = Copies(r[k], r[k + 2] - AsciiOffset + 1) \o R[k + 3]
          BY <3>1, <3>4, Zenon DEF Scans
        <4> QED BY <3>3, <4>2, <4>3, <4>4, <4>5, Zenon
      <3>5. CASE ~Packed(r, k)
        <4>1. k + 1 \in 1 .. Len(r) + 1 /\ k + 1 > k /\ Len(s) + (k + 1) = Len(s) + k + 1
          BY <1>0, <3>1
        <4>2. T[Len(s) + (k + 1)] = R[k + 1]
          BY <2>1, <4>1
        <4>3. T[Len(s) + k] = <<(s \o r)[Len(s) + k]>> \o T[Len(s) + k + 1]
          BY <3>1, <3>2, <3>5, Zenon DEF Scans
        <4>4. R[k] = <<r[k]>> \o R[k + 1]
          BY <3>1, <3>5, Zenon DEF Scans
        <4> QED BY <3>3, <4>1, <4>2, <4>3, <4>4, Zenon
      <3> QED BY <3>4, <3>5
    <2> QED BY <2>2, <2>3
  <1>2. Nat \subseteq S
    <2> HIDE DEF S
    <2> QED BY <1>1, StrongInduction
  <1> SUFFICES ASSUME NEW k \in 1 .. Len(r) + 1 PROVE T[Len(s) + k] = R[k]
    OBVIOUS
  <1>3. Len(r) + 1 - k \in Nat
    BY <1>0
  <1> QED BY <1>2, <1>3

\* Q, R and T are the scans of s, of r, and of s \o r; r separates from s.
Joint(s, r, Q, R, T) ==
    /\ s \in Seq(Code) /\ r \in Seq(Code) /\ Separate(r) /\ \E B : Cut(s, B)
    /\ Scans(s, Q) /\ Scans(r, R) /\ Scans(s \o r, T)

Joined(Q, R, T) == T[1] = Q[1] \o R[1]

\* Up to the end of s, the scan of s \o r is that of s, followed by r's.
LEMMA ScanThrough ==
    ASSUME NEW s, NEW r, NEW R, NEW Q, NEW T, Joint(s, r, Q, R, T)
    PROVE  Joined(Q, R, T)
  <1> /\ s \in Seq(Code) /\ r \in Seq(Code) /\ Separate(r)
      /\ Scans(s, Q) /\ Scans(r, R) /\ Scans(s \o r, T)
    BY Zenon DEF Joint
  <1> PICK B : Cut(s, B)
    BY Zenon DEF Joint
  <1> DEFINE S == {n \in Nat : \A k \in B : Len(s) + 1 - k = n => T[k] = Q[k] \o R[1]}
  <1>0. /\ Len(s \o r) = Len(s) + Len(r)
        /\ Len(s) \in Nat /\ Len(r) \in Nat
        /\ \A k \in 1 .. Len(s) : (s \o r)[k] = s[k]
        /\ \A k \in 1 .. Len(r) : (s \o r)[Len(s) + k] = r[k]
    BY ConcatFacts
  <1>r. R[1] \in Seq(Code)
    <2>1. 1 \in 1 .. Len(r) + 1
      BY <1>0
    <2> QED BY <2>1, Zenon DEF Scans
  <1>b. \A k \in B : k \in 1 .. Len(s) + 1
    BY DEF Cut
  <1>q. \A k \in 1 .. Len(s) + 1 : Q[k] \in Seq(Code)
    BY DEF Scans
  <1>1. ASSUME NEW n \in Nat, \A k \in 0 .. n - 1 : k \in S
        PROVE  n \in S
    <2> SUFFICES ASSUME NEW k \in B, Len(s) + 1 - k = n
                 PROVE  T[k] = Q[k] \o R[1]
      OBVIOUS
    <2>0. k \in 1 .. Len(s) + 1
      BY <1>b
    <2>1. ASSUME NEW j \in B, j > k
          PROVE  T[j] = Q[j] \o R[1]
      <3> DEFINE i == Len(s) + 1 - j
      <3>1. i \in 0 .. n - 1
        <4>1. j \in 1 .. Len(s) + 1
          BY <1>b
        <4> QED BY <1>0, <2>0, <2>1, <4>1
      <3>2. i \in S
        <4> HIDE DEF S, i
        <4> QED BY <1>1, <3>1
      <3> HIDE DEF i
      <3>3. i = Len(s) + 1 - j
        BY DEF i
      <3> QED BY <3>2, <3>3, Zenon
    <2>2. CASE k = Len(s) + 1
      <3>1. 1 \in 1 .. Len(r) + 1
        BY <1>0
      <3>2. T[Len(s) + 1] = R[1]
        BY <3>1, ScanBehind
      <3>3. Q[k] = <<>>
        BY <2>2 DEF Scans
      <3> QED BY <1>r, <2>2, <3>2, <3>3
    <2>3. CASE k # Len(s) + 1
      <3>1. k \in 1 .. Len(s) /\ k \in 1 .. Len(s \o r) /\ k <= Len(s)
        BY <1>0, <2>0, <2>3
      <3>2. (s \o r)[k] = s[k] /\ s[k] \in Code
        BY <1>0, <3>1
      <3>3. CASE k < Len(s) /\ s[k + 1] = Star
        <4>1. k + 3 \in B
          BY <3>1, <3>3 DEF Cut
        <4>2. k + 3 \in 1 .. Len(s) + 1 /\ k + 1 \in 1 .. Len(s) /\ k + 2 \in 1 .. Len(s)
          BY <1>0, <1>b, <3>1, <4>1
        <4>3. (s \o r)[k + 1] = s[k + 1] /\ (s \o r)[k + 2] = s[k + 2] /\ s[k + 2] \in Code
          BY <1>0, <4>2
        <4>4. Packed(s, k) /\ Packed(s \o r, k)
          BY <1>0, <3>1, <3>3, <4>2, <4>3 DEF Packed
        <4>5. T[k] = Copies(s[k], s[k + 2] - AsciiOffset + 1) \o T[k + 3]
          BY <3>1, <3>2, <4>3, <4>4, Zenon DEF Scans
        <4>6. Q[k] = Copies(s[k], s[k + 2] - AsciiOffset + 1) \o Q[k + 3]
          BY <3>1, <4>4, Zenon DEF Scans
        <4>7. T[k + 3] = Q[k + 3] \o R[1]
          <5>1. k + 3 > k
            BY <3>1
          <5> QED BY <2>1, <4>1, <5>1, Zenon
        <4>8. Copies(s[k], s[k + 2] - AsciiOffset + 1) \in Seq(Code)
          <5>1. \A x \in Code : x - AsciiOffset + 1 \in Int
            BY DEF AsciiOffset, Code
          <5>2. s[k + 2] - AsciiOffset + 1 \in Int
            BY <4>3, <5>1, Zenon
          <5> QED BY <3>2, <5>2, CopiesType
        <4> DEFINE c == Copies(s[k], s[k + 2] - AsciiOffset + 1)
        <4>9. Q[k + 3] \in Seq(Code)
          BY <1>q, <4>2, Zenon
        <4>10. (c \o Q[k + 3]) \o R[1] = c \o (Q[k + 3] \o R[1])
          BY <1>r, <4>8, <4>9, Assoc, Zenon
        <4> QED BY <4>5, <4>6, <4>7, <4>10, Zenon
      <3>4. CASE ~(k < Len(s) /\ s[k + 1] = Star)
        <4>1. k + 1 \in B /\ k + 1 \in 1 .. Len(s) + 1
          BY <3>1, <3>4 DEF Cut
        <4>2. ~Packed(s, k)
          BY <1>0, <3>1, <3>4 DEF Packed
        <4>3. ~Packed(s \o r, k)
          <5>1. CASE k < Len(s)
            <6>1. (s \o r)[k + 1] = s[k + 1]
              BY <1>0, <3>1, <5>1
            <6> QED BY <3>4, <5>1, <6>1 DEF Packed
          <5>2. CASE ~(k < Len(s))
            <6>1. k = Len(s)
              BY <1>0, <3>1, <5>2
            <6>2. k + 2 <= Len(s \o r) => Len(r) # 0
              BY <1>0, <6>1
            <6>3. Len(r) # 0 => (s \o r)[k + 1] = r[1] /\ r[1] # Star
              BY <1>0, <6>1 DEF Separate
            <6> QED BY <6>2, <6>3 DEF Packed
          <5> QED BY <5>1, <5>2
        <4>4. T[k] = <<s[k]>> \o T[k + 1]
          BY <3>1, <3>2, <4>3, Zenon DEF Scans
        <4>5. Q[k] = <<s[k]>> \o Q[k + 1]
          BY <3>1, <4>2, Zenon DEF Scans
        <4>6. T[k + 1] = Q[k + 1] \o R[1]
          <5>1. k + 1 > k
            BY <3>1
          <5> QED BY <2>1, <4>1, <5>1, Zenon
        <4>7. <<s[k]>> \in Seq(Code)
          BY <3>2
        <4>8. Q[k + 1] \in Seq(Code)
          BY <1>q, <4>1, Zenon
        <4>9. (<<s[k]>> \o Q[k + 1]) \o R[1] = <<s[k]>> \o (Q[k + 1] \o R[1])
          BY <1>r, <4>7, <4>8, Assoc, Zenon
        <4> QED BY <4>4, <4>5, <4>6, <4>9, Zenon
      <3> QED BY <3>3, <3>4
    <2> QED BY <2>2, <2>3
  <1>2. Nat \subseteq S
    <2> HIDE DEF S
    <2> QED BY <1>1, StrongInduction
  <1>3. Len(s) + 1 - 1 \in Nat /\ 1 \in B
    BY <1>0 DEF Cut
  <1> QED BY <1>2, <1>3 DEF Joined

\* Whole codes put behind whole codes stand for both texts in a row.
LEMMA DecodesConcat ==
    ASSUME NEW s, NEW t, NEW r, NEW u, Decodes(s, t), Decodes(r, u), Separate(r)
    PROVE  Decodes(s \o r, t \o u)
  <1>0. s \in Seq(Code) /\ r \in Seq(Code) /\ s \o r \in Seq(Code)
    BY ConcatFacts DEF Decodes
  <1>1. PICK B : Cut(s, B)
    BY DEF Decodes
  <1>2. PICK C : Cut(r, C)
    BY DEF Decodes
  <1>3. PICK Q : Scans(s, Q) /\ Unpacked(s) = Q[1]
    BY <1>0, UnpackedScans
  <1>4. PICK R : Scans(r, R) /\ Unpacked(r) = R[1]
    BY <1>0, UnpackedScans
  <1>5. PICK T : Scans(s \o r, T) /\ Unpacked(s \o r) = T[1]
    BY <1>0, UnpackedScans
  <1>6. T[1] = Q[1] \o R[1]
    <2>1. Joint(s, r, Q, R, T)
      BY <1>0, <1>1, <1>3, <1>4, <1>5, Zenon DEF Joint
    <2>2. Joined(Q, R, T)
      BY <2>1, ScanThrough
    <2> QED BY <2>2, Zenon DEF Joined
  <1>7. Unpacked(s \o r) = t \o u
    BY <1>3, <1>4, <1>5, <1>6, Zenon DEF Decodes
  <1> DEFINE L == Len(s)
             E == B \cup {L + c : c \in C}
  <1>8. Cut(s \o r, E)
    <2>0. /\ Len(s \o r) = L + Len(r) /\ L \in Nat /\ Len(r) \in Nat
          /\ \A k \in 1 .. L : (s \o r)[k] = s[k]
          /\ \A k \in 1 .. Len(r) : (s \o r)[L + k] = r[k]
      BY <1>0, ConcatFacts
    <2>b. /\ \A k \in B : k \in 1 .. L + 1
          /\ 1 \in B
      BY <1>1 DEF Cut
    <2>c. /\ \A k \in C : k \in 1 .. Len(r) + 1
          /\ 1 \in C /\ Len(r) + 1 \in C
      BY <1>2 DEF Cut
    <2>1. E \subseteq 1 .. Len(s \o r) + 1
      <3>1. \A k \in B : k \in 1 .. Len(s \o r) + 1
        BY <2>0, <2>b
      <3>2. \A k \in C : L + k \in 1 .. Len(s \o r) + 1
        BY <2>0, <2>c
      <3> QED BY <3>1, <3>2, Zenon
    <2>2. 1 \in E /\ Len(s \o r) + 1 \in E
      <3>1. Len(s \o r) + 1 = L + (Len(r) + 1)
        BY <2>0
      <3> QED BY <2>b, <2>c, <3>1, Zenon
    <2>3. ASSUME NEW k \in B, k <= L
          PROVE  IF k < Len(s \o r) /\ (s \o r)[k + 1] = Star THEN k + 3 \in E ELSE k + 1 \in E
      <3>1. k \in 1 .. L
        BY <2>b, <2>3
      <3>2. CASE k < L
        <4>1. k + 1 \in 1 .. L /\ k < Len(s \o r)
          BY <2>0, <3>1, <3>2
        <4>2. (s \o r)[k + 1] = s[k + 1]
          BY <2>0, <4>1
        <4>3. IF s[k + 1] = Star THEN k + 3 \in B ELSE k + 1 \in B
          BY <1>1, <2>3, <3>2, Zenon DEF Cut
        <4> QED BY <4>1, <4>2, <4>3, Zenon
      <3>3. CASE ~(k < L)
        <4>1. k = L
          BY <2>0, <3>1, <3>3
        <4>2. k + 1 \in B
          BY <1>1, <2>3, <3>3, Zenon DEF Cut
        <4>3. k < Len(s \o r) => (s \o r)[k + 1] # Star
          <5> SUFFICES ASSUME k < Len(s \o r) PROVE (s \o r)[k + 1] # Star
            OBVIOUS
          <5>1. 1 \in 1 .. Len(r)
            BY <2>0, <4>1
          <5>2. (s \o r)[L + 1] = r[1] /\ r # <<>>
            BY <2>0, <5>1
          <5> QED BY <4>1, <5>2, Zenon DEF Separate
        <4> QED BY <4>2, <4>3, Zenon
      <3> QED BY <3>2, <3>3
    <2>4. ASSUME NEW c \in C, L + c <= Len(s \o r)
          PROVE  IF L + c < Len(s \o r) /\ (s \o r)[L + c + 1] = Star
                 THEN L + c + 3 \in E ELSE L + c + 1 \in E
      <3>1. c \in 1 .. Len(r) /\ (L + c < Len(s \o r) <=> c < Len(r))
        BY <2>0, <2>c, <2>4
      <3>2. c < Len(r) => (s \o r)[L + c + 1] = r[c + 1]
        <4> SUFFICES ASSUME c < Len(r) PROVE (s \o r)[L + c + 1] = r[c + 1]
          OBVIOUS
        <4>1. c + 1 \in 1 .. Len(r) /\ L + c + 1 = L + (c + 1)
          BY <2>0, <3>1
        <4>2. (s \o r)[L + (c + 1)] = r[c + 1]
          BY <2>0, <4>1, Zenon
        <4> QED BY <4>1, <4>2, Zenon
      <3>3. c <= Len(r)
        BY <3>1
      <3>4. IF c < Len(r) /\ r[c + 1] = Star THEN c + 3 \in C ELSE c + 1 \in C
        BY <1>2, <3>3, Zenon DEF Cut
      <3>5. L + c + 3 = L + (c + 3) /\ L + c + 1 = L + (c + 1)
        BY <2>0, <3>1
      <3>6. /\ c + 3 \in C => L + (c + 3) \in E
            /\ c + 1 \in C => L + (c + 1) \in E
        BY Zenon
      <3> HIDE DEF E
      <3> QED BY <3>1, <3>2, <3>4, <3>5, <3>6
    <2>5. \A k \in E : k <= Len(s \o r) =>
             IF k < Len(s \o r) /\ (s \o r)[k + 1] = Star THEN k + 3 \in E ELSE k + 1 \in E
      <3> SUFFICES ASSUME NEW k \in E, k <= Len(s \o r)
                   PROVE IF k < Len(s \o r) /\ (s \o r)[k + 1] = Star
                         THEN k + 3 \in E ELSE k + 1 \in E
        OBVIOUS
      <3>1. CASE \E c \in C : k = L + c
        <4>1. PICK c \in C : k = L + c
          BY <3>1
        <4> HIDE DEF E
        <4> QED BY <2>4, <4>1, Zenon
      <3>2. CASE k \in B
        <4>1. CASE k <= L
          <5> HIDE DEF E
          <5> QED BY <2>3, <3>2, <4>1, Zenon
        <4>2. CASE ~(k <= L)
          <5>1. k = L + 1
            BY <2>0, <2>b, <3>2, <4>2
          <5> QED BY <2>c, <3>1, <5>1
        <4> QED BY <4>1, <4>2
      <3> QED BY <3>1, <3>2
    <2> HIDE DEF E
    <2> QED BY <2>1, <2>2, <2>5, Zenon DEF Cut
  <1> HIDE DEF E
  <1> QED BY <1>0, <1>7, <1>8, Zenon DEF Decodes

LEMMA DecodesNothing == Decodes(<<>>, <<>>)
  <1>1. <<>> \in Seq(Code) /\ Len(<<>>) = 0
    OBVIOUS
  <1>2. PICK R : Scans(<<>>, R) /\ Unpacked(<<>>) = R[1]
    BY <1>1, UnpackedScans
  <1>3. Unpacked(<<>>) = <<>>
    <2>1. R[Len(<<>>) + 1] = <<>>
      BY <1>2, Zenon DEF Scans
    <2>2. Len(<<>>) + 1 = 1
      OBVIOUS
    <2> QED BY <1>2, <2>1, <2>2, Zenon
  <1>4. Cut(<<>>, {1})
    BY <1>1 DEF Cut
  <1> QED BY <1>1, <1>3, <1>4, Zenon DEF Decodes

\* A code is read as it is meant.
LEMMA DecodesCode ==
    ASSUME NEW ch \in Code, NEW n \in 1 .. Longest
    PROVE  Decodes(RleCode(ch, n), Copies(ch, n))
  <1> DEFINE s == RleCode(ch, n)
  <1>1. CASE n = 1
    <2>1. s = <<ch>> /\ s \in Seq(Code) /\ Len(s) = 1
      BY <1>1 DEF RleCode
    <2>2. PICK R : Scans(s, R) /\ Unpacked(s) = R[1]
      BY <2>1, UnpackedScans
    <2>3. R[1] = <<ch>>
      <3>1. 1 \in 1 .. Len(s) /\ ~Packed(s, 1) /\ 1 + 1 = Len(s) + 1 /\ s[1] = ch
        BY <2>1 DEF Packed
      <3>2. R[1] = <<s[1]>> \o R[1 + 1] /\ R[Len(s) + 1] = <<>>
        BY <2>2, <3>1, Zenon DEF Scans
      <3>3. <<ch>> \o <<>> = <<ch>>
        OBVIOUS
      <3> QED BY <3>1, <3>2, <3>3, Zenon
    <2>4. Copies(ch, n) = <<ch>>
      BY <1>1 DEF Copies
    <2>5. Cut(s, {1, 2})
      BY <2>1 DEF Cut
    <2> QED BY <2>1, <2>2, <2>3, <2>4, <2>5, Zenon DEF Decodes
  <1>2. CASE n # 1
    <2> DEFINE count == n - 1 + AsciiOffset
    <2>1. count \in Code /\ Star \in Code /\ count - AsciiOffset + 1 = n
      BY DEF AsciiOffset, AsciiMax, Longest, Code, Star
    <2>2. s = <<ch, Star, count>>
      BY <1>2 DEF RleCode
    <2> HIDE DEF count
    <2>3. s \in Seq(Code) /\ Len(s) = 3 /\ s[1] = ch /\ s[2] = Star /\ s[3] = count
      BY <2>1, <2>2
    <2> HIDE DEF s
    <2>4. PICK R : Scans(s, R) /\ Unpacked(s) = R[1]
      BY <2>3, UnpackedScans
    <2>5. R[1] = Copies(ch, n)
      <3>1. 1 \in 1 .. Len(s) /\ Packed(s, 1) /\ 1 + 3 = Len(s) + 1 /\ 1 + 2 = 3
        BY <2>3 DEF Packed
      <3>2. /\ R[1] = Copies(s[1], s[1 + 2] - AsciiOffset + 1) \o R[1 + 3]
            /\ R[Len(s) + 1] = <<>>
        BY <2>4, <3>1, Zenon DEF Scans
      <3>3. R[1] = Copies(ch, n) \o <<>>
        BY <2>1, <2>3, <3>1, <3>2, Zenon
      <3>4. Copies(ch, n) \in Seq(Code)
        BY CopiesType
      <3> QED BY <3>3, <3>4
    <2>6. Cut(s, {1, 4})
      BY <2>3 DEF Cut
    <2> QED BY <2>3, <2>4, <2>5, <2>6, Zenon DEF Decodes, s
  <1> QED BY <1>1, <1>2

-----------------------------------------------------------------------------
\* The first code of a run stands for some of its characters; its count is a
\* printable character that is neither # nor $.
LEMMA TakenFacts ==
    ASSUME NEW n \in Nat \ {0}
    PROVE  /\ CodeSpan(n) \in 1 .. n /\ CodeSpan(n) \in 1 .. Longest
           /\ n - CodeSpan(n) \in 0 .. n - 1
           /\ CodeSpan(n) # 1 => /\ CodeSpan(n) - 1 + AsciiOffset \in 32 .. 126
                              /\ CodeSpan(n) - 1 + AsciiOffset \notin {Hash, Dollar}
  BY DEF CodeSpan, Longest, AsciiMax, AsciiOffset, Forbidden, Hash, Dollar

LEMMA CopiesConcat ==
    ASSUME NEW ch, NEW a \in Nat, NEW b \in Nat
    PROVE  Copies(ch, a) \o Copies(ch, b) = Copies(ch, a + b)
  <1>1. /\ Copies(ch, a) \in Seq({ch}) /\ Len(Copies(ch, a)) = a
        /\ Copies(ch, b) \in Seq({ch}) /\ Len(Copies(ch, b)) = b
        /\ Copies(ch, a + b) \in Seq({ch}) /\ Len(Copies(ch, a + b)) = a + b
    BY DEF Copies
  <1> DEFINE x == Copies(ch, a) \o Copies(ch, b)
             y == Copies(ch, a + b)
  <1>2. x \in Seq({ch}) /\ Len(x) = a + b
    BY <1>1
  <1>3. \A i \in 1 .. a + b : x[i] = ch /\ y[i] = ch
    BY <1>1, <1>2
  <1> HIDE DEF x, y
  <1>4. y \in Seq({ch}) /\ Len(y) = a + b
    BY <1>1 DEF y
  <1>5. x = y
    BY <1>2, <1>3, <1>4
  <1> QED BY <1>5 DEF x, y

\* f[n] is what RunCode puts into the buffer for n times ch.
Codes(ch, cnt, f) ==
    /\ f \in [0 .. cnt -> Seq(Code)] /\ f[0] = <<>>
    /\ \A n \in 1 .. cnt : f[n] = RleCode(ch, CodeSpan(n)) \o f[n - CodeSpan(n)]

LEMMA RleCodeType ==
    ASSUME NEW ch \in Code, NEW n \in 1 .. Longest
    PROVE  RleCode(ch, n) \in Seq(Code)
  <1>1. Decodes(RleCode(ch, n), Copies(ch, n))
    BY DecodesCode
  <1> QED BY <1>1, Zenon DEF Decodes

LEMMA RunCodes ==
    ASSUME NEW ch \in Code, NEW cnt \in Nat
    PROVE  \E f : Codes(ch, cnt, f) /\ RunCode(ch, cnt) = f[cnt]
  <1> DEFINE D == 0 .. cnt
             A == Seq(Code)
             m == [n \in D |-> n]
             next == [n \in D |-> IF n = 0 THEN 0 ELSE n - CodeSpan(n)]
             g == [n \in D |-> [x \in A |-> IF n = 0 THEN <<>> ELSE RleCode(ch, CodeSpan(n)) \o x]]
             Eqn(R) == R = [n \in D |->
                IF n = 0 THEN <<>> ELSE RleCode(ch, CodeSpan(n)) \o R[n - CodeSpan(n)]]
             Rest == CHOOSE R : Eqn(R)
  <1>1. <<>> \in A /\ m \in [D -> 0 .. cnt]
    OBVIOUS
  <1>2. \A n \in D : n # 0 => /\ n - CodeSpan(n) \in D /\ n - CodeSpan(n) < n
                              /\ RleCode(ch, CodeSpan(n)) \in A
    <2> SUFFICES ASSUME NEW n \in D, n # 0
                 PROVE  /\ n - CodeSpan(n) \in D /\ n - CodeSpan(n) < n
                        /\ RleCode(ch, CodeSpan(n)) \in A
      OBVIOUS
    <2>1. n \in Nat \ {0}
      OBVIOUS
    <2>2. CodeSpan(n) \in 1 .. Longest /\ n - CodeSpan(n) \in 0 .. n - 1
      BY <2>1, TakenFacts
    <2> QED BY <2>2, RleCodeType
  <1>3. next \in [D -> D]
    BY <1>2
  <1>4. g \in [D -> [A -> A]]
    <2> SUFFICES ASSUME NEW n \in D, n # 0, NEW x \in A
                 PROVE  RleCode(ch, CodeSpan(n)) \o x \in A
      OBVIOUS
    <2> QED BY <1>2
  <1>5. Descends(D, cnt, m, next)
    <2>1. \A n \in D : m[n] # 0 => m[next[n]] < m[n]
      BY <1>2
    <2> HIDE DEF D, m, next
    <2> QED BY <1>1, <1>3, <2>1 DEF Descends
  <1>6. PICK f \in [D -> A] :
           f = [n \in D |-> IF m[n] = 0 THEN <<>> ELSE g[n][f[next[n]]]]
    <2>1. HasSolution(D, A, m, next, <<>>, g)
      <3> HIDE DEF D, A, m, next, g
      <3> QED BY <1>1, <1>4, <1>5, RecursionExists
    <2> QED BY <2>1 DEF HasSolution
  <1>7. ASSUME NEW n \in D
        PROVE  f[n] = IF n = 0 THEN <<>> ELSE RleCode(ch, CodeSpan(n)) \o f[n - CodeSpan(n)]
    <2>1. f[n] = IF m[n] = 0 THEN <<>> ELSE g[n][f[next[n]]]
      <3> HIDE DEF m, g, next, A, D
      <3> QED BY <1>6
    <2>2. CASE n = 0
      BY <2>1, <2>2
    <2>3. CASE n # 0
      <3>1. n - CodeSpan(n) \in D
        BY <1>2, <2>3
      <3>2. f[n - CodeSpan(n)] \in A
        <4> HIDE DEF A, D
        <4> QED BY <3>1
      <3>3. g[n][f[next[n]]] = RleCode(ch, CodeSpan(n)) \o f[n - CodeSpan(n)]
        BY <2>3, <3>2
      <3> QED BY <2>1, <2>3, <3>3
    <2> QED BY <2>2, <2>3
  <1>8. Eqn(f)
    <2>1. f = [n \in D |-> f[n]]
      BY <1>6
    <2> QED BY <1>7, <2>1
  <1>9. Eqn(Rest)
    <2> HIDE DEF Eqn
    <2> QED BY <1>8
  <1>10. Rest = f
    <2>1. f = [n \in D |-> f[n]] /\ Rest = [n \in D |-> Rest[n]]
      <3> HIDE DEF Rest, D
      <3> QED BY <1>8, <1>9, Zenon
    <2>2. ASSUME NEW n \in D, m[n] = 0 \/ f[next[n]] = Rest[next[n]]
          PROVE  f[n] = Rest[n]
      <3> DEFINE E(R) == IF n = 0 THEN <<>> ELSE RleCode(ch, CodeSpan(n)) \o R[n - CodeSpan(n)]
      <3>1. f[n] = E(f) /\ Rest[n] = E(Rest)
        <4> HIDE DEF Rest, D
        <4> QED BY <1>8, <1>9, Zenon
      <3>2. m[n] = n /\ (n # 0 => next[n] = n - CodeSpan(n))
        OBVIOUS
      <3> HIDE DEF Rest, m, next
      <3> QED BY <2>2, <3>1, <3>2, Zenon
    <2> HIDE DEF Rest, D, m, next
    <2>3. Alike(D, m, next, f, Rest)
      BY <2>1, <2>2, Zenon DEF Alike
    <2> QED BY <1>5, <2>3, SolutionUnique
  <1>11. Codes(ch, cnt, f)
    <2>1. 0 \in D /\ \A n \in 1 .. cnt : n \in D /\ n # 0
      OBVIOUS
    <2>2. f[0] = <<>> /\ \A n \in 1 .. cnt : f[n] = RleCode(ch, CodeSpan(n)) \o f[n - CodeSpan(n)]
      <3> HIDE DEF D
      <3> QED BY <1>7, <2>1, Zenon
    <2> QED BY <2>2, Zenon DEF Codes
  <1>12. RunCode(ch, cnt) = Rest[cnt]
    BY DEF RunCode
  <1> HIDE DEF Rest
  <1> QED BY <1>10, <1>11, <1>12, Zenon

\* Only characters that may be part of a frame's payload.
Clean(s) == \A i \in 1 .. Len(s) : s[i] \notin {Hash, Dollar} /\ s[i] \in TextChar \cup (32 .. 126)

\* s begins with ch.
Leads(s, ch) == s # <<>> /\ s[1] = ch

LEMMA CleanConcat ==
    ASSUME NEW s \in Seq(Code), NEW r \in Seq(Code), Clean(s), Clean(r)
    PROVE  Clean(s \o r)
  BY DEF Clean

LEMMA CodeClean ==
    ASSUME NEW ch \in TextChar, NEW n \in Nat \ {0}
    PROVE  Clean(RleCode(ch, CodeSpan(n))) /\ Leads(RleCode(ch, CodeSpan(n)), ch)
  <1>1. ch \in TextChar /\ ch \notin {Hash, Dollar}
    BY CharAssumption
  <1>2. CodeSpan(n) # 1 => /\ CodeSpan(n) - 1 + AsciiOffset \in 32 .. 126
                        /\ CodeSpan(n) - 1 + AsciiOffset \notin {Hash, Dollar}
    BY TakenFacts
  <1> QED BY <1>1, <1>2 DEF Clean, Leads, RleCode, Hash, Dollar, Star

\* What a run of characters becomes is read as that run, whatever its length.
LEMMA RunDecodes ==
    ASSUME NEW ch \in TextChar, NEW cnt \in Nat
    PROVE  /\ Decodes(RunCode(ch, cnt), Copies(ch, cnt)) /\ Clean(RunCode(ch, cnt))
           /\ Separate(RunCode(ch, cnt)) /\ (cnt # 0 => Leads(RunCode(ch, cnt), ch))
  <1>1. ch \in Code /\ ch # Star
    BY CharAssumption DEF Code, Star
  <1>2. PICK f : Codes(ch, cnt, f) /\ RunCode(ch, cnt) = f[cnt]
    BY <1>1, RunCodes
  <1> DEFINE Good(n) == /\ Decodes(f[n], Copies(ch, n)) /\ Clean(f[n])
                        /\ Separate(f[n]) /\ (n # 0 => Leads(f[n], ch))
             S == {n \in Nat : n <= cnt => Good(n)}
  <1>3. ASSUME NEW n \in Nat, \A k \in 0 .. n - 1 : k \in S
        PROVE  n \in S
    <2> SUFFICES ASSUME n <= cnt PROVE Good(n)
      OBVIOUS
    <2>1. CASE n = 0
      <3>1. f[0] = <<>>
        BY <1>2 DEF Codes
      <3>2. Copies(ch, 0) = <<>> /\ Clean(<<>>) /\ Separate(<<>>)
        BY DEF Copies, Clean, Separate
      <3> QED BY <2>1, <3>1, <3>2, DecodesNothing, Zenon
    <2>2. CASE n # 0
      <3> DEFINE a == CodeSpan(n)
                 b == n - CodeSpan(n)
                 c == RleCode(ch, CodeSpan(n))
      <3>1. n \in Nat \ {0} /\ n \in 1 .. cnt
        BY <2>2
      <3>2. a \in 1 .. Longest /\ a \in Nat /\ b \in 0 .. n - 1 /\ b \in Nat /\ b <= cnt
            /\ a + b = n
        BY <3>1, TakenFacts
      <3>3. f[n] = c \o f[b]
        BY <1>2, <3>1, Zenon DEF Codes
      <3>4. Clean(c) /\ Leads(c, ch)
        BY <3>1, CodeClean
      <3>5. Decodes(c, Copies(ch, a))
        BY <1>1, <3>2, DecodesCode
      <3> HIDE DEF a, b, c
      <3>6. Good(b)
        <4>1. b \in S
          <5> HIDE DEF S
          <5> QED BY <1>3, <3>2
        <4> QED BY <3>2, <4>1
      <3>7. Decodes(c \o f[b], Copies(ch, a) \o Copies(ch, b))
        <4>1. Decodes(f[b], Copies(ch, b)) /\ Separate(f[b])
          BY <3>6, Zenon
        <4> QED BY <3>5, <4>1, DecodesConcat, Zenon
      <3>8. Copies(ch, a) \o Copies(ch, b) = Copies(ch, n)
        BY <3>2, CopiesConcat
      <3>9. c \in Seq(Code) /\ f[b] \in Seq(Code)
        BY <3>5, <3>6, Zenon DEF Decodes
      <3>10. Clean(c \o f[b])
        BY <3>4, <3>6, <3>9, CleanConcat
      <3>11. Leads(c \o f[b], ch)
        BY <3>4, <3>9 DEF Leads
      <3>12. Separate(c \o f[b])
        BY <1>1, <3>11, Zenon DEF Separate, Leads
      <3> QED BY <3>3, <3>7, <3>8, <3>10, <3>11, <3>12, Zenon
    <2> QED BY <2>1, <2>2
  <1>4. Nat \subseteq S
    <2> HIDE DEF S
    <2> QED BY <1>3, StrongInduction
  <1>5. Good(cnt)
    BY <1>4
  <1> QED BY <1>2, <1>5, Zenon

\* The $ is pending on its own, and put as it is.
LEMMA RunDollar == RunCode(Dollar, 1) = <<Dollar>>
  <1>1. Dollar \in Code
    BY DEF Dollar, Code
  <1>2. PICK f : Codes(Dollar, 1, f) /\ RunCode(Dollar, 1) = f[1]
    BY <1>1, RunCodes
  <1>3. CodeSpan(1) = 1 /\ 1 - 1 = 0 /\ 1 \in 1 .. 1
    BY DEF CodeSpan, Longest, AsciiMax, AsciiOffset
  <1>4. f[1] = RleCode(Dollar, 1) \o f[0] /\ f[0] = <<>>
    BY <1>2, <1>3, Zenon DEF Codes
  <1>5. RleCode(Dollar, 1) \o <<>> = <<Dollar>>
    BY DEF RleCode
  <1> QED BY <1>2, <1>4, <1>5, Zenon

-----------------------------------------------------------------------------
LEMMA SumType ==
    ASSUME NEW s \in Seq(Code)
    PROVE  Sum(s) \in 0 .. 255
  <1> DEFINE D == 0 .. Len(s)
             A == 0 .. 255
             m == [n \in D |-> n]
             next == [n \in D |-> IF n = 0 THEN 0 ELSE n - 1]
             g == [n \in D |-> [x \in A |-> IF n = 0 THEN 0 ELSE (x + s[n]) % 256]]
             Eqn(R) == R = [n \in D |-> IF n = 0 THEN 0 ELSE (R[n - 1] + s[n]) % 256]
             Upto == CHOOSE R : Eqn(R)
  <1>1. Len(s) \in Nat /\ 0 \in A /\ m \in [D -> 0 .. Len(s)] /\ next \in [D -> D]
    OBVIOUS
  <1>2. \A n \in D : n # 0 => s[n] \in Nat
    <2>1. \A n \in D : n # 0 => s[n] \in Code
      OBVIOUS
    <2>2. \A x \in Code : x \in Nat
      BY DEF Code
    <2> QED BY <2>1, <2>2, Zenon
  <1>3. g \in [D -> [A -> A]]
    <2>1. ASSUME NEW n \in D, NEW x \in A
          PROVE  (IF n = 0 THEN 0 ELSE (x + s[n]) % 256) \in A
      <3>1. n # 0 => s[n] \in Nat
        BY <1>2, Zenon
      <3>2. \A y \in Nat : (x + y) % 256 \in A
        OBVIOUS
      <3> HIDE DEF A
      <3> QED BY <1>1, <3>1, <3>2, Zenon
    <2> HIDE DEF A, D
    <2> QED BY <2>1, Zenon
  <1>4. Descends(D, Len(s), m, next)
    <2>1. \A n \in D : m[n] # 0 => m[next[n]] < m[n]
      OBVIOUS
    <2> HIDE DEF D, m, next
    <2> QED BY <1>1, <2>1 DEF Descends
  <1>5. PICK f \in [D -> A] :
           f = [n \in D |-> IF m[n] = 0 THEN 0 ELSE g[n][f[next[n]]]]
    <2>1. HasSolution(D, A, m, next, 0, g)
      <3> HIDE DEF D, A, m, next, g
      <3> QED BY <1>1, <1>3, <1>4, RecursionExists
    <2> QED BY <2>1 DEF HasSolution
  <1>6. ASSUME NEW n \in D
        PROVE  f[n] = IF n = 0 THEN 0 ELSE (f[n - 1] + s[n]) % 256
    <2>1. f[n] = IF m[n] = 0 THEN 0 ELSE g[n][f[next[n]]]
      <3> HIDE DEF m, g, next, A, D
      <3> QED BY <1>5
    <2>2. CASE n = 0
      BY <2>1, <2>2
    <2>3. CASE n # 0
      <3>1. f[n - 1] \in A
        <4>1. n - 1 \in D
          BY <2>3
        <4> HIDE DEF A, D
        <4> QED BY <4>1
      <3>2. g[n][f[next[n]]] = (f[n - 1] + s[n]) % 256
        BY <2>3, <3>1
      <3> QED BY <2>1, <2>3, <3>2
    <2> QED BY <2>2, <2>3
  <1>7. Eqn(f)
    <2>1. f = [n \in D |-> f[n]]
      BY <1>5
    <2> QED BY <1>6, <2>1
  <1>8. Eqn(Upto)
    <2> HIDE DEF Eqn
    <2> QED BY <1>7
  <1>9. Upto = f
    <2>1. f = [n \in D |-> f[n]] /\ Upto = [n \in D |-> Upto[n]]
      <3> HIDE DEF Upto, D
      <3> QED BY <1>7, <1>8, ZenonT(40)
    <2>2. ASSUME NEW n \in D, m[n] = 0 \/ f[next[n]] = Upto[next[n]]
          PROVE  f[n] = Upto[n]
      <3> DEFINE E(R) == IF n = 0 THEN 0 ELSE (R[n - 1] + s[n]) % 256
      <3>1. f[n] = E(f) /\ Upto[n] = E(Upto)
        <4> HIDE DEF Upto, D
        <4> QED BY <1>7, <1>8, Zenon
      <3>2. m[n] = n /\ (n # 0 => next[n] = n - 1)
        OBVIOUS
      <3> HIDE DEF Upto, m, next
      <3> QED BY <2>2, <3>1, <3>2, Zenon
    <2> HIDE DEF Upto, D, m, next
    <2>3. Alike(D, m, next, f, Upto)
      BY <2>1, <2>2, Zenon DEF Alike
    <2> QED BY <1>4, <2>3, SolutionUnique
  <1>10. Sum(s) = Upto[Len(s)]
    BY DEF Sum
  <1>11. f[Len(s)] \in 0 .. 255
    <2>1. Len(s) \in D
      OBVIOUS
    <2> HIDE DEF D
    <2> QED BY <2>1
  <1> HIDE DEF Upto
  <1> QED BY <1>9, <1>10, <1>11, Zenon

LEMMA HexType ==
    ASSUME NEW c \in 0 .. 255
    PROVE  Hex(c) \in Seq(Code) /\ Len(Hex(c)) = 2
  <1>1. c \div 16 \in 0 .. 15 /\ c % 16 \in 0 .. 15
    OBVIOUS
  <1>2. \A d \in 0 .. 15 : HexDigit(d) \in Code
    BY DEF HexDigit, Code
  <1> QED BY <1>1, <1>2 DEF Hex

-----------------------------------------------------------------------------
(* The frame *)

\* P and t are the payload so far and what it stands for, with the pending run
\* in both.
Pending ==
    \/ outbuf = <<>> /\ last_char = Dollar /\ rle_cnt = 1 /\ text = <<Dollar>>
    \/ /\ last_char \in TextChar /\ rle_cnt \in Nat \ {0}
       /\ \E p, u : /\ outbuf = <<Dollar>> \o p /\ Clean(p) /\ Decodes(p, u)
                    /\ u \in Seq(TextChar)
                    /\ text = <<Dollar>> \o (u \o Copies(last_char, rle_cnt))

\* The inductive invariant: what is in the buffer is read as the text without
\* its last run, and that run is pending.
IInv == FrameTypeOK /\ (~done => Pending) /\ FrameReadable

\* A buffer whose last run is put into it: P is read as t.
Ended(buf, P, t) ==
    /\ buf = <<Dollar>> \o P /\ Clean(P) /\ Decodes(P, t) /\ t \in Seq(TextChar)
    /\ text = <<Dollar>> \o t

LEMMA CharCodes == TextChar \subseteq Code /\ Dollar \notin TextChar /\ Dollar \in Code /\ Hash \in Code
  BY CharAssumption DEF Code, Dollar, Hash

LEMMA CopiesChar ==
    ASSUME NEW ch \in TextChar, NEW n \in Nat
    PROVE  Copies(ch, n) \in Seq(TextChar)
  BY DEF Copies

LEMMA EndPending ==
    ASSUME Pending
    PROVE  \E P, t : Ended(EndOfRLE(outbuf, last_char, rle_cnt), P, t)
  <1>1. CASE outbuf = <<>> /\ last_char = Dollar /\ rle_cnt = 1 /\ text = <<Dollar>>
    <2>1. EndOfRLE(outbuf, last_char, rle_cnt) = <<>> \o <<Dollar>>
      BY <1>1, RunDollar, Zenon DEF EndOfRLE
    <2>2. <<>> \o <<Dollar>> = <<Dollar>> \o <<>> /\ <<Dollar>> = <<Dollar>> \o <<>>
          /\ <<>> \in Seq(TextChar)
      OBVIOUS
    <2>3. Clean(<<>>)
      BY DEF Clean
    <2> QED BY <1>1, <2>1, <2>2, <2>3, DecodesNothing, Zenon DEF Ended
  <1>2. CASE /\ last_char \in TextChar /\ rle_cnt \in Nat \ {0}
             /\ \E p, u : /\ outbuf = <<Dollar>> \o p /\ Clean(p) /\ Decodes(p, u)
                          /\ u \in Seq(TextChar)
                          /\ text = <<Dollar>> \o (u \o Copies(last_char, rle_cnt))
    <2>1. PICK p, u : /\ outbuf = <<Dollar>> \o p /\ Clean(p) /\ Decodes(p, u)
                      /\ u \in Seq(TextChar)
                      /\ text = <<Dollar>> \o (u \o Copies(last_char, rle_cnt))
      BY <1>2
    <2> DEFINE r == RunCode(last_char, rle_cnt)
               c == Copies(last_char, rle_cnt)
    <2>2. Decodes(r, c) /\ Clean(r) /\ Separate(r)
      BY <1>2, RunDecodes
    <2>3. c \in Seq(TextChar)
      BY <1>2, CopiesChar
    <2>4. p \in Seq(Code) /\ r \in Seq(Code)
      BY <2>1, <2>2, Zenon DEF Decodes
    <2> HIDE DEF r
    <2>5. Decodes(p \o r, u \o c)
      BY <2>1, <2>2, DecodesConcat, Zenon
    <2>6. Clean(p \o r)
      BY <2>1, <2>2, <2>4, CleanConcat
    <2> HIDE DEF c
    <2>7. u \o c \in Seq(TextChar)
      BY <2>1, <2>3
    <2>8. (<<Dollar>> \o p) \o r = <<Dollar>> \o (p \o r)
      <3>1. <<Dollar>> \in Seq(Code)
        BY CharCodes
      <3> QED BY <2>4, <3>1, Assoc, Zenon
    <2>9. EndOfRLE(outbuf, last_char, rle_cnt) = <<Dollar>> \o (p \o r)
      BY <2>1, <2>8, Zenon DEF EndOfRLE, r
    <2> QED BY <2>1, <2>5, <2>6, <2>7, <2>9, Zenon DEF Ended, c
  <1> QED BY <1>1, <1>2, Zenon DEF Pending

LEMMA InitInv == FrameInit => IInv
  <1> SUFFICES ASSUME FrameInit PROVE IInv
    OBVIOUS
  <1>1. FrameTypeOK
    <2>1. <<>> \in Seq(0 .. 127) /\ <<Dollar>> \in Seq(TextChar \cup {Dollar}) /\ Dollar \in 0 .. 127
      BY DEF Dollar
    <2> QED BY <2>1 DEF FrameInit, FrameTypeOK
  <1>2. Pending /\ FrameReadable
    BY DEF FrameInit, Pending, FrameReadable
  <1> QED BY <1>1, <1>2 DEF IInv

\* A character put.
LEMMA PutCharInv ==
    ASSUME IInv, NEW ch \in TextChar, PutChar(ch)
    PROVE  IInv'
  <1>0. ~done /\ Pending /\ FrameTypeOK /\ done' = done
    BY Zenon DEF IInv, PutChar
  <1>1. last_char' = ch /\ text' = Append(text, ch)
    BY DEF PutChar
  <1>c. ch \in Code /\ <<ch>> \in Seq(Code) /\ Copies(ch, 1) = <<ch>> /\ <<ch>> \in Seq(TextChar)
        /\ <<Dollar>> \in Seq(Code)
    BY CharCodes DEF Copies
  <1>s. Seq(TextChar) \subseteq Seq(Code)
    BY CharCodes
  <1>2. CASE ch = last_char
    <2>1. rle_cnt' = rle_cnt + 1 /\ outbuf' = outbuf
      BY <1>2 DEF PutChar
    <2>2. rle_cnt \in Nat \ {0} /\ last_char \in TextChar
      BY <1>0, <1>2, CharCodes DEF Pending
    <2>3. PICK p, u : /\ outbuf = <<Dollar>> \o p /\ Clean(p) /\ Decodes(p, u)
                      /\ u \in Seq(TextChar)
                      /\ text = <<Dollar>> \o (u \o Copies(last_char, rle_cnt))
      BY <1>0, <2>2, CharCodes, Zenon DEF Pending
    <2> DEFINE c == Copies(ch, rle_cnt)
    <2>4. c \in Seq(TextChar) /\ c \o <<ch>> = Copies(ch, rle_cnt + 1)
      <3>1. c \in Seq(TextChar)
        BY <1>2, <2>2, CopiesChar
      <3>2. c \o Copies(ch, 1) = Copies(ch, rle_cnt + 1)
        BY <2>2, CopiesConcat
      <3> HIDE DEF c
      <3> QED BY <1>c, <3>1, <3>2, Zenon
    <2> HIDE DEF c
    <2>5. (<<Dollar>> \o (u \o c)) \o <<ch>> = <<Dollar>> \o (u \o (c \o <<ch>>))
      <3>1. u \in Seq(Code) /\ c \in Seq(Code) /\ u \o c \in Seq(Code)
        BY <1>s, <2>3, <2>4
      <3>2. (<<Dollar>> \o (u \o c)) \o <<ch>> = <<Dollar>> \o ((u \o c) \o <<ch>>)
        BY <1>c, <3>1, Assoc, Zenon
      <3>3. (u \o c) \o <<ch>> = u \o (c \o <<ch>>)
        BY <1>c, <3>1, Assoc, ZenonT(40)
      <3> QED BY <3>2, <3>3, Zenon
    <2>6. text \in Seq(TextChar \cup {Dollar}) /\ text' = text \o <<ch>>
      BY <1>0, <1>1 DEF FrameTypeOK
    <2>7. text' = <<Dollar>> \o (u \o Copies(ch, rle_cnt + 1))
      BY <1>2, <2>3, <2>4, <2>5, <2>6, Zenon DEF c
    <2>8. rle_cnt + 1 \in Nat \ {0}
      BY <2>2
    <2>9. Pending'
      BY <1>1, <2>1, <2>3, <2>7, <2>8, Zenon DEF Pending
    <2>10. FrameTypeOK'
      BY <1>0, <1>1, <1>2, <2>1 DEF FrameTypeOK
    <2>11. FrameReadable'
      BY <1>0 DEF FrameReadable
    <2> QED BY <2>9, <2>10, <2>11, Zenon DEF IInv
  <1>3. CASE ch # last_char
    <2>1. rle_cnt' = 1 /\ outbuf' = EndOfRLE(outbuf, last_char, rle_cnt)
      BY <1>3 DEF PutChar
    <2>2. PICK P, t : Ended(EndOfRLE(outbuf, last_char, rle_cnt), P, t)
      BY <1>0, EndPending
    <2>3. P \in Seq(Code) /\ t \in Seq(TextChar) /\ t \in Seq(Code)
      BY <1>s, <2>2, Zenon DEF Ended, Decodes
    <2>4. outbuf' = <<Dollar>> \o P /\ Clean(P) /\ Decodes(P, t) /\ text = <<Dollar>> \o t
      BY <2>1, <2>2, Zenon DEF Ended
    <2>5. text' = text \o <<ch>>
      BY <1>0, <1>1 DEF FrameTypeOK
    <2>6. (<<Dollar>> \o t) \o <<ch>> = <<Dollar>> \o (t \o <<ch>>)
      BY <1>c, <2>3, Assoc, Zenon
    <2>7. text' = <<Dollar>> \o (t \o Copies(ch, 1))
      BY <1>c, <2>4, <2>5, <2>6, Zenon
    <2>8. Pending'
      <3>1. 1 \in Nat \ {0}
        OBVIOUS
      <3> QED BY <1>1, <2>1, <2>3, <2>4, <2>7, <3>1, Zenon DEF Pending
    <2>9. FrameTypeOK'
      <3>1. outbuf' \in Seq(0 .. 127)
        BY <1>c, <2>3, <2>4 DEF Code
      <3> QED BY <1>0, <1>1, <1>c, <2>1, <3>1 DEF FrameTypeOK, Code
    <2>10. FrameReadable'
      BY <1>0 DEF FrameReadable
    <2> QED BY <2>8, <2>9, <2>10, Zenon DEF IInv
  <1> QED BY <1>2, <1>3

\* f is put together from a payload and its checksum.
Built(f, P, h) ==
    /\ P \in Seq(Code) /\ h \in Seq(Code) /\ Len(h) = 2
    /\ f = (<<Dollar>> \o P) \o <<Hash>> \o h

\* f has the parts of a frame where a debugger looks for them.
Framed(f, P, h) ==
    /\ f \in Seq(Code) /\ Len(f) = Len(P) + 4 /\ f[1] = Dollar
    /\ f[Len(f) - 2] = Hash /\ SubSeq(f, 2, Len(f) - 3) = P
    /\ SubSeq(f, Len(f) - 1, Len(f)) = h

LEMMA FrameParts ==
    ASSUME NEW f, NEW P, NEW h, Built(f, P, h)
    PROVE  Framed(f, P, h)
  <1> /\ P \in Seq(Code) /\ h \in Seq(Code) /\ Len(h) = 2
      /\ f = (<<Dollar>> \o P) \o <<Hash>> \o h
    BY Zenon DEF Built
  <1> DEFINE x == <<Dollar>> \o P
             y == x \o <<Hash>>
  <1>0. Len(P) \in Nat /\ <<Dollar>> \in Seq(Code) /\ <<Hash>> \in Seq(Code)
    BY CharCodes
  <1>1. x \in Seq(Code) /\ Len(x) = Len(P) + 1 /\ x[1] = Dollar
        /\ \A i \in 1 .. Len(P) : x[1 + i] = P[i]
    BY <1>0
  <1> HIDE DEF x
  <1>2. y \in Seq(Code) /\ Len(y) = Len(P) + 2 /\ y[Len(P) + 2] = Hash
        /\ \A i \in 1 .. Len(P) + 1 : y[i] = x[i]
    BY <1>0, <1>1
  <1> HIDE DEF y
  <1>3. f = y \o h
    BY DEF x, y
  <1>4. /\ f \in Seq(Code) /\ Len(f) = Len(P) + 4
        /\ \A i \in 1 .. Len(P) + 2 : f[i] = y[i]
        /\ \A i \in 1 .. 2 : f[Len(P) + 2 + i] = h[i]
    <2>1. /\ y \o h \in Seq(Code) /\ Len(y \o h) = Len(y) + Len(h)
          /\ \A k \in 1 .. Len(y) : (y \o h)[k] = y[k]
          /\ \A k \in 1 .. Len(h) : (y \o h)[Len(y) + k] = h[k]
      BY <1>2, ConcatFacts
    <2>2. Len(f) = Len(P) + 4
      BY <1>0, <1>2, <1>3, <2>1
    <2> QED BY <1>2, <1>3, <2>1, <2>2, Zenon
  <1>5. f[1] = Dollar
    <2>1. 1 \in 1 .. Len(P) + 2 /\ 1 \in 1 .. Len(P) + 1
      BY <1>0
    <2> QED BY <1>1, <1>2, <1>4, <2>1
  <1>6. f[Len(f) - 2] = Hash
    <2>1. Len(f) - 2 = Len(P) + 2 /\ Len(P) + 2 \in 1 .. Len(P) + 2
      BY <1>0, <1>4
    <2> QED BY <1>2, <1>4, <2>1, Zenon
  <1>7. SubSeq(f, 2, Len(f) - 3) = P
    <2> DEFINE z == SubSeq(f, 2, Len(f) - 3)
    <2>1. Len(f) - 3 = Len(P) + 1
      BY <1>0, <1>4
    <2>2. z \in Seq(Code) /\ Len(z) = Len(P) /\ \A i \in 1 .. Len(P) : z[i] = f[1 + i]
      BY <1>0, <1>4, <2>1
    <2>3. \A i \in 1 .. Len(P) : z[i] = P[i]
      <3> SUFFICES ASSUME NEW i \in 1 .. Len(P) PROVE z[i] = P[i]
        OBVIOUS
      <3>1. 1 + i \in 1 .. Len(P) + 1 /\ 1 + i \in 1 .. Len(P) + 2
        BY <1>0
      <3> HIDE DEF z
      <3> QED BY <1>1, <1>2, <1>4, <2>2, <3>1
    <2> HIDE DEF z
    <2>4. z = P
      BY <2>2, <2>3, SeqEqual, Zenon
    <2> QED BY <2>4 DEF z
  <1>8. SubSeq(f, Len(f) - 1, Len(f)) = h
    <2> DEFINE z == SubSeq(f, Len(f) - 1, Len(f))
    <2>1. Len(f) - 1 = Len(P) + 3 /\ Len(f) = Len(P) + 4
      BY <1>0, <1>4
    <2>2. z \in Seq(Code) /\ Len(z) = 2 /\ \A i \in 1 .. 2 : z[i] = f[Len(P) + 2 + i]
      BY <1>0, <1>4, <2>1
    <2> HIDE DEF z
    <2>3. z = h
      BY <1>4, <2>2
    <2> QED BY <2>3 DEF z
  <1> QED BY <1>4, <1>5, <1>6, <1>7, <1>8, Zenon DEF Framed

\* The frame ended.
LEMMA FlushAckInv ==
    ASSUME IInv, FlushAck
    PROVE  IInv'
  <1>0. ~done /\ Pending /\ FrameTypeOK /\ done' = TRUE /\ rle_cnt' = 0 /\ text' = text
        /\ outbuf' = MakeCheckSum /\ last_char' = Last(outbuf')
    BY Zenon DEF IInv, FlushAck
  <1>1. PICK P, t : Ended(EndOfRLE(outbuf, last_char, rle_cnt), P, t)
    BY <1>0, EndPending
  <1>2. P \in Seq(Code) /\ t \in Seq(TextChar) /\ Clean(P) /\ Unpacked(P) = t
        /\ text = <<Dollar>> \o t
    BY <1>1, Zenon DEF Ended, Decodes
  <1>3. <<Dollar>> \o P # <<>> /\ Tail(<<Dollar>> \o P) = P
    BY <1>2, CharCodes
  <1> DEFINE h == Hex(Sum(P))
  <1>4. h \in Seq(Code) /\ Len(h) = 2
    BY <1>2, SumType, HexType
  <1>5. GetCheckSum(<<Dollar>> \o P) = Sum(P)
    BY <1>3, Zenon DEF GetCheckSum
  <1>6. outbuf' = (<<Dollar>> \o P) \o <<Hash>> \o h
    BY <1>0, <1>1, <1>5, Zenon DEF MakeCheckSum, Ended
  <1> HIDE DEF h
  <1>7. /\ outbuf' \in Seq(Code) /\ Len(outbuf') = Len(P) + 4 /\ outbuf'[1] = Dollar
        /\ outbuf'[Len(outbuf') - 2] = Hash /\ SubSeq(outbuf', 2, Len(outbuf') - 3) = P
        /\ SubSeq(outbuf', Len(outbuf') - 1, Len(outbuf')) = h
    <2>1. Built(outbuf', P, h)
      BY <1>2, <1>4, <1>6, Zenon DEF Built
    <2>2. Framed(outbuf', P, h)
      BY <2>1, FrameParts
    <2> QED BY <2>2, Zenon DEF Framed
  <1>8. Payload' = P
    BY <1>7, Zenon DEF Payload
  <1>9. Tail(text') = t
    BY <1>0, <1>2
  <1>10. FrameReadable'
    <2>1. \A i \in DOMAIN P : P[i] \notin {Hash, Dollar} /\ P[i] \in TextChar \cup (32 .. 126)
      <3>1. DOMAIN P = 1 .. Len(P)
        BY <1>2
      <3> QED BY <1>2, <3>1, Zenon DEF Clean
    <2> QED BY <1>2, <1>7, <1>8, <1>9, <2>1, Zenon DEF FrameReadable, h
  <1>11. FrameTypeOK'
    <2>1. Last(outbuf') \in Code
      <3>1. Len(outbuf') \in 1 .. Len(outbuf')
        BY <1>2, <1>7
      <3> QED BY <1>7, <3>1 DEF Last
    <2> QED BY <1>0, <1>7, <2>1 DEF FrameTypeOK, Code
  <1> QED BY <1>0, <1>10, <1>11, Zenon DEF IInv

LEMMA StutterInv ==
    ASSUME IInv, UNCHANGED frameVars
    PROVE  IInv'
  <1>1. outbuf' = outbuf /\ text' = text /\ last_char' = last_char
        /\ rle_cnt' = rle_cnt /\ done' = done
    BY DEF frameVars
  <1> QED BY <1>1, Zenon DEF IInv, FrameTypeOK, Pending, FrameReadable, Payload

LEMMA SpecInv == FrameSpec => []IInv
  <1>1. ASSUME IInv, [FrameNext]_frameVars PROVE IInv'
    <2>1. CASE \E ch \in TextChar : PutChar(ch)
      BY <1>1, <2>1, PutCharInv
    <2>2. CASE FlushAck
      BY <1>1, <2>2, FlushAckInv
    <2>3. CASE UNCHANGED frameVars
      BY <1>1, <2>3, StutterInv
    <2> QED BY <1>1, <2>1, <2>2, <2>3 DEF FrameNext
  <1> QED BY <1>1, InitInv, PTL DEF FrameSpec

\* The buffer holds codes that fit a char, whatever is put.
THEOREM FrameTypeCorrect == FrameSpec => []FrameTypeOK
  <1>1. IInv => FrameTypeOK
    BY DEF IInv
  <1> QED BY <1>1, SpecInv, PTL

\* A complete frame (GdbData::FlushAck) begins with $, ends with # and the
\* checksum of what is between them, has nothing between them that a debugger
\* would take for a frame's end, nor any count that cannot be printed, and is
\* unpacked as the text that was put: for every text of codes up to 127 without
\* #, $ and *, which no handler puts, and every length of its runs.
THEOREM FramesAreReadable == FrameSpec => []FrameReadable
  <1>1. IInv => FrameReadable
    BY DEF IInv
  <1> QED BY <1>1, SpecInv, PTL

=============================================================================
