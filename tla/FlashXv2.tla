------------------------------ MODULE FlashXv2 ------------------------------
(***************************************************************************)
(* How flash of an Xv2 part is written and erased: the probe               *)
(* (TapDev430Xv2::WriteFlash and EraseFlash) puts a program into the       *)
(* target's RAM (Funclets/WriteFlashXv2, Funclets/EraseXv2), lets it run   *)
(* and talks to it over the JTAG mailbox (JtagDev::OnReadJmbOut,           *)
(* OnWriteJmbIn16).  From the release of the CPU to the sync that stops it *)
(* again the two run side by side.                                         *)
(*                                                                         *)
(* The mailbox is not part of the repository.  Of its output half the      *)
(* target writes SYSJMBO1 and SYSJMBO0 one after the other, each with a    *)
(* ready flag; a JTAG read takes both and clears both flags.  Of the input *)
(* half one word is used; its flag JMBIN0FG is set by a JTAG write and     *)
(* cleared by a program that writes a 0 to it in SYSJMBC, and the mailbox  *)
(* is ready for JTAG when it is clear.                                     *)
(*                                                                         *)
(* Time is not modelled: the target takes any time for a step, so a wait   *)
(* of the probe may end by its stopwatch whenever the code looks at it.    *)
(* "late" tells that one did in the current operation.  The sync too polls *)
(* only so many times; nobody is told when it was in vain, and RAM and     *)
(* registers are put back all the same.  What a CPU does that still runs   *)
(* then is anybody's guess; "lost" tells that it happened.                 *)
(***************************************************************************)
EXTENDS Integers, Sequences

CONSTANTS
    Size,     \* the flash has words 1 .. Size; it is one segment
    Bits      \* the bits of a word

ASSUME SizeAssumption == Size \in Nat \ {0}

VARIABLES
    pc,      \* the probe: where it is in its operation
    job,     \* the probe: what was asked, with the flash as it was
    sent,    \* the probe: words it has passed to OnWriteJmbIn16
    answer,  \* the probe: success of the last operation
    late,    \* a wait of the operation has timed out
    lost,    \* a sync was in vain since the target was taken over
    cpu,     \* the target: running, asked to stop, or held by JTAG
    at,      \* the target: where its program is
    addr,    \* the target: the word its program writes next (R12)
    cnt,     \* the target: the words its program still expects (R13)
    ram,     \* the target: whose the start of the RAM is
    regs,    \* the target: whose the registers R11 to R15 are
    flash,   \* the target: the words
    open,    \* the target: LOCK of FCTL3 is 0
    old,     \* the target: what EraseXv2 found there (old_fctl3)
    out,     \* the mailbox: SYSJMBO1 and SYSJMBO0, and the flag of the first
    in       \* the mailbox: SYSJMBI0, and its flag

probe  == <<pc, job, sent, answer, late, lost>>
target == <<cpu, at, addr, cnt, ram, regs, flash, open, old>>
vars   == <<pc, job, sent, answer, late, lost,
            cpu, at, addr, cnt, ram, regs, flash, open, old, out, in>>

Word    == SUBSET Bits
Erased  == Bits
Cells   == 1 .. Size
Flash   == [Cells -> Word]

\* A job writes data from word first on, or erases; before is the flash when
\* it was asked for.
WriteJobs == [kind : {"write"}, first : Cells, data : UNION {[1 .. n -> Word] : n \in Cells},
              before : Flash]
EraseJobs == [kind : {"erase"}, first : {1}, data : {<<>>}, before : Flash]
Job       == {j \in WriteJobs : j.first + Len(j.data) - 1 \in Cells} \cup EraseJobs

\* Before there was one.
NoJob(f) == [kind |-> "erase", first |-> 1, data |-> <<>>, before |-> f]

Range(j) == IF j.kind = "write" THEN j.first .. j.first + Len(j.data) - 1 ELSE Cells

\* The two messages, 0xABADBABE and 0xCAFEBABE, and what a register leaves in
\* the mailbox: twenty bits, of which the low word may be anything.
Started  == [o1 |-> "ABAD", o0 |-> "BABE"]
Finished == [o1 |-> "CAFE", o0 |-> "BABE"]

Outbox == [o1 : {"ABAD", "CAFE", "Rx"}, o0 : {"BABE", "Rx"}, rdy : BOOLEAN]
Inbox  == [word : Word, full : BOOLEAN]

-----------------------------------------------------------------------------
(* The probe *)

\* Mutant: the registers are not read through the mailbox.
DrainedNot == out' = out

\* GetRegInternal stores a register at the mailbox, and reads it from there to
\* empty it.
Drained == \E low \in {"BABE", "Rx"} : out' = [o1 |-> "Rx", o0 |-> low, rdy |-> FALSE]

\* Registers and RAM are saved, the program and its parameters are put in
\* their place, and the CPU is released at its start: all of it presupposes a
\* CPU that is held, which nothing tests.
Begin ==
    /\ pc = "idle"
    /\ \E j \in Job :
          /\ j.before = flash
          /\ job' = j
          /\ at' = IF lost THEN "astray" ELSE IF j.kind = "write" THEN "start1" ELSE "open"
          /\ pc' = IF j.kind = "write" THEN "poll_start" ELSE "poll_end"
          /\ addr' = j.first /\ cnt' = Len(j.data)
    /\ Drained
    /\ ram' = "funclet" /\ regs' = "funclet" /\ cpu' = "running"
    /\ sent' = 0 /\ answer' = TRUE /\ late' = FALSE
    /\ UNCHANGED <<lost, flash, open, old, in>>

Waits    == {"start", "end"}
Poll(w)  == IF w = "start" THEN "poll_start" ELSE "poll_end"
Ready(w) == IF w = "start" THEN "ready_start" ELSE "ready_end"
Miss(w)  == IF w = "start" THEN "miss_start" ELSE "miss_end"

\* OnReadJmbOut looks at the flag of SYSJMBO1 only.
TestReady(w) ==
    /\ pc = Poll(w)
    /\ pc' = IF out.rdy THEN Ready(w) ELSE Miss(w)
    /\ UNCHANGED <<job, sent, answer, late, lost, target, out, in>>

Expected(w) == IF w = "start" THEN Started ELSE Finished

\* Both words are read a few scans later.
TakeMessage(w) ==
    /\ pc = Ready(w)
    /\ out' = [out EXCEPT !.rdy = FALSE]
    /\ pc' = IF [o1 |-> out.o1, o0 |-> out.o0] # Expected(w) THEN Miss(w)
             ELSE IF w = "start" THEN "send" ELSE "sync"
    /\ UNCHANGED <<job, sent, answer, late, lost, target, in>>

\* After a poll in vain the stopwatch decides.
PollAgain(w) ==
    /\ pc = Miss(w)
    /\ pc' = Poll(w)
    /\ UNCHANGED <<job, sent, answer, late, lost, target, out, in>>

GiveUp(w) ==
    /\ pc = Miss(w)
    /\ pc' = "sync" /\ answer' = FALSE /\ late' = TRUE
    /\ UNCHANGED <<job, sent, lost, target, out, in>>

\* OnWriteJmbIn16, when the mailbox gets empty in time.
SendWord ==
    /\ pc = "send" /\ sent < Len(job.data)
    /\ ~in.full
    /\ in' = [word |-> job.data[sent + 1], full |-> TRUE]
    /\ sent' = sent + 1
    /\ UNCHANGED <<pc, job, answer, late, lost, target, out>>

\* Mutant: no stopwatch runs here.
DropWordNever ==
    /\ pc = "send" /\ sent < Len(job.data)
    /\ in.full
    /\ UNCHANGED vars

\* When it does not the word is dropped: nobody looks at the result.
DropWord ==
    /\ pc = "send" /\ sent < Len(job.data)
    /\ in.full
    /\ sent' = sent + 1 /\ late' = TRUE
    /\ UNCHANGED <<pc, job, answer, lost, target, out, in>>

\* Mutant: the end is not waited for.
AllSentDone ==
    /\ pc = "send" /\ sent = Len(job.data)
    /\ pc' = "sync"
    /\ UNCHANGED <<job, sent, answer, late, lost, target, out, in>>

AllSent ==
    /\ pc = "send" /\ sent = Len(job.data)
    /\ pc' = "poll_end"
    /\ UNCHANGED <<job, sent, answer, late, lost, target, out, in>>

\* SyncJtagXv2 writes the control signals that ask the CPU to stop, and polls.
AskStop ==
    /\ pc = "sync"
    /\ pc' = "stopping" /\ cpu' = "asked"
    /\ UNCHANGED <<job, sent, answer, late, lost, at, addr, cnt, ram, regs, flash, open, old,
                   out, in>>

\* Mutant: the signal that is looked at does not tell of the CPU.
StopSeenNever ==
    /\ pc = "stopping"
    /\ pc' = "ram"
    /\ UNCHANGED <<job, sent, answer, late, lost, target, out, in>>

StopSeen ==
    /\ pc = "stopping" /\ cpu = "held"
    /\ pc' = "ram"
    /\ UNCHANGED <<job, sent, answer, late, lost, target, out, in>>

\* The polls run out; SyncJtagXv2 returns as if the CPU had stopped.
StopMissed ==
    /\ pc = "stopping" /\ cpu # "held"
    /\ pc' = "ram" /\ lost' = TRUE
    /\ UNCHANGED <<job, sent, answer, late, target, out, in>>

\* RAM gets its contents back, then the registers.
RestoreRam ==
    /\ pc = "ram"
    /\ pc' = "regs" /\ ram' = "program"
    /\ UNCHANGED <<job, sent, answer, late, lost, cpu, at, addr, cnt, regs, flash, open, old,
                   out, in>>

RestoreRegs ==
    /\ pc = "regs"
    /\ pc' = "idle" /\ regs' = "program"
    /\ UNCHANGED <<job, sent, answer, late, lost, cpu, at, addr, cnt, ram, flash, open, old,
                   out, in>>

ProbeStep ==
    \/ \E w \in Waits : TestReady(w) \/ TakeMessage(w) \/ PollAgain(w) \/ GiveUp(w)
    \/ SendWord \/ DropWord \/ AllSent
    \/ AskStop \/ StopSeen \/ StopMissed \/ RestoreRam \/ RestoreRegs

\* Outside of the operations: the target is reset, which locks the flash and
\* empties the mailbox.
Reset ==
    /\ pc = "idle"
    /\ open' = FALSE
    /\ in' = [in EXCEPT !.full = FALSE] /\ out' = [out EXCEPT !.rdy = FALSE]
    /\ UNCHANGED <<probe, cpu, at, addr, cnt, ram, regs, flash, old>>

\* A target whose CPU was lost is taken over anew, with whatever its flash holds.
Recapture ==
    /\ pc = "idle" /\ lost
    /\ lost' = FALSE /\ cpu' = "held" /\ at' = "forever"
    /\ flash' \in Flash /\ open' = FALSE
    /\ job' = NoJob(flash') /\ sent' = 0 /\ answer' = TRUE /\ late' = FALSE
    /\ in' = [in EXCEPT !.full = FALSE] /\ out' = [out EXCEPT !.rdy = FALSE]
    /\ UNCHANGED <<pc, addr, cnt, ram, regs, old>>

-----------------------------------------------------------------------------
(* The programs in the target's RAM *)

Goes(from, to) == cpu # "held" /\ ram = "funclet" /\ at = from /\ at' = to

Kept == UNCHANGED <<probe, cpu, ram, regs>>

\* A message goes out first half first.
WriteOut1(from, to, half) ==
    /\ Goes(from, to)
    /\ out' = [out EXCEPT !.o1 = half, !.rdy = TRUE]
    /\ Kept /\ UNCHANGED <<addr, cnt, flash, open, old, in>>

WriteOut0(from, to) ==
    /\ Goes(from, to)
    /\ out' = [out EXCEPT !.o0 = "BABE"]
    /\ Kept /\ UNCHANGED <<addr, cnt, flash, open, old, in>>

\* The flash is unlocked, and SYSJMBC written: with JMBIN0FG clear.
Prepare ==
    /\ Goes("prepare", "take")
    /\ open' = TRUE /\ in' = [in EXCEPT !.full = FALSE]
    /\ Kept /\ UNCHANGED <<addr, cnt, flash, old, out>>

\* Mutant: the address is stepped in bytes.
TakeWordBytes ==
    /\ Goes("take", "clear")
    /\ in.full
    /\ flash' = [flash EXCEPT ![addr] = @ \cap in.word]
    /\ addr' = addr + 2
    /\ Kept /\ UNCHANGED <<cnt, open, old, out, in>>

\* The word in the mailbox is programmed; flash takes no bit from 0 to 1.
TakeWord ==
    /\ Goes("take", "clear")
    /\ in.full
    /\ flash' = [flash EXCEPT ![addr] = @ \cap in.word]
    /\ addr' = addr + 1
    /\ Kept /\ UNCHANGED <<cnt, open, old, out, in>>

ClearFlag ==
    /\ Goes("clear", IF cnt > 1 THEN "take" ELSE "lock")
    /\ in' = [in EXCEPT !.full = FALSE] /\ cnt' = cnt - 1
    /\ Kept /\ UNCHANGED <<addr, flash, open, old, out>>

Lock ==
    /\ Goes("lock", "end1")
    /\ open' = FALSE
    /\ Kept /\ UNCHANGED <<addr, cnt, flash, old, out, in>>

\* EraseXv2 keeps the lock's state and unlocks, starts the erase with a dummy
\* write, has it done when BUSY is clear, and puts back what it found.
OpenForErase ==
    /\ Goes("open", "erase")
    /\ old' = open /\ open' = TRUE
    /\ Kept /\ UNCHANGED <<addr, cnt, flash, out, in>>

Erase ==
    /\ Goes("erase", "restore")
    /\ flash' = [a \in Cells |-> Erased]
    /\ Kept /\ UNCHANGED <<addr, cnt, open, old, out, in>>

Restore ==
    /\ Goes("restore", "end1")
    /\ open' = old
    /\ Kept /\ UNCHANGED <<addr, cnt, flash, old, out, in>>

\* A CPU that was asked to stop does so between two instructions.
Stop ==
    /\ cpu = "asked"
    /\ cpu' = "held"
    /\ UNCHANGED <<probe, at, addr, cnt, ram, regs, flash, open, old, out, in>>

\* Where the program was there are other instructions now, or registers: the
\* CPU may send any message and take any word.  What it does to the flash
\* shows when the target is taken over again.
Astray ==
    /\ cpu # "held"
    /\ at = "astray" \/ ram = "program"
    /\ at' = "astray"
    /\ out' \in {out} \cup {[o1 |-> m.o1, o0 |-> m.o0, rdy |-> TRUE] : m \in {Started, Finished}}
    /\ in' \in [word : {in.word}, full : {in.full, FALSE}]
    /\ Kept /\ UNCHANGED <<addr, cnt, flash, open, old>>

\* In the end they loop forever.
TargetStep ==
    \/ WriteOut1("start1", "start0", "ABAD") \/ WriteOut0("start0", "prepare")
    \/ Prepare \/ TakeWord \/ ClearFlag
    \/ OpenForErase \/ Erase \/ Restore
    \/ Lock \/ WriteOut1("end1", "end0", "CAFE") \/ WriteOut0("end0", "forever")
    \/ Stop \/ Astray

-----------------------------------------------------------------------------
(* The specification *)

Init ==
    /\ pc = "idle" /\ sent = 0 /\ answer = TRUE /\ late = FALSE /\ lost = FALSE
    /\ cpu = "held" /\ at = "forever" /\ addr = 1 /\ cnt = 0
    /\ ram = "program" /\ regs = "program" /\ open = FALSE /\ old = FALSE
    /\ flash \in Flash
    /\ job = NoJob(flash)
    /\ out = [o1 |-> "Rx", o0 |-> "Rx", rdy |-> FALSE]
    /\ \E w \in Word : in = [word |-> w, full |-> FALSE]

Next == Begin \/ ProbeStep \/ Reset \/ TargetStep \/ Recapture

Spec == Init /\ [][Next]_vars

\* The probe keeps working, and its stopwatches run out: a wait that is polled
\* in vain forever is given up.
Fairness ==
    /\ WF_vars(ProbeStep)
    /\ SF_vars(\E w \in Waits : GiveUp(w))

FairSpec == Spec /\ Fairness

-----------------------------------------------------------------------------
(* Properties *)

\* The probe's and the target's programs are somewhere in their code, and the
\* mailbox holds one of the values they put there.
TypeOK ==
    /\ \/ pc \in {"idle", "send", "sync", "stopping", "ram", "regs"}
       \/ \E w \in Waits : pc \in {Poll(w), Ready(w), Miss(w)}
    /\ job \in Job /\ sent \in 0 .. Len(job.data)
    /\ answer \in BOOLEAN /\ late \in BOOLEAN /\ lost \in BOOLEAN
    /\ cpu \in {"running", "asked", "held"}
    /\ at \in {"start1", "start0", "prepare", "take", "clear", "open", "erase",
               "restore", "lock", "end1", "end0", "forever", "astray"}
    /\ addr \in 1 .. Size + 1 /\ cnt \in 0 .. Size
    /\ ram \in {"program", "funclet"} /\ regs \in {"program", "funclet"}
    /\ flash \in Flash /\ open \in BOOLEAN /\ old \in BOOLEAN
    /\ out \in Outbox /\ in \in Inbox

\* The operation is over but for the sync and the way back.
Over == pc \in {"sync", "stopping", "ram", "regs"}

\* As long as no sync was in vain: what runs in the target has RAM and registers
\* for itself until the CPU stands, which takes its time after the probe has asked
\* for it; a target that is given back stands and has its own, and nothing is left
\* behind by a wait that was given up.
RamWhileRunning ==
    ~lost =>
        /\ cpu # "held" => ram = "funclet" /\ regs = "funclet"
        /\ pc = "idle" => cpu = "held" /\ ram = "program" /\ regs = "program"

\* A word that is not to be written or erased keeps its contents, whatever
\* words were lost, left over or late, as long as no sync was in vain.
OnlyTheRange == ~lost => \A a \in Cells \ Range(job) : flash[a] = job.before[a]

\* An erase ends with success only if it was made and the lock is as it was,
\* even when the operation before it went wrong and left its message or its
\* program half way.
EraseTrue ==
    Over /\ ~lost /\ answer /\ job.kind = "erase" =>
        /\ \A a \in Cells : flash[a] = Erased
        /\ open = old

\* A write none of whose waits timed out was made: its words are in the flash,
\* in their order, and it is locked; a word left in the mailbox by an operation
\* that went wrong is not among them.
WriteMade ==
    Over /\ ~lost /\ ~late /\ job.kind = "write" =>
        /\ \A i \in 1 .. Len(job.data) :
              flash[job.first + i - 1] = job.before[job.first + i - 1] \cap job.data[i]
        /\ ~open

\* The probe gets the target back, whatever the target does or does not do.
ComesBack == pc # "idle" ~> pc = "idle"

=============================================================================
