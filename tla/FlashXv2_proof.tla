--------------------------- MODULE FlashXv2_proof ---------------------------
(***************************************************************************)
(* What FlashXv2's runs check for three words of one bit, for flash of any *)
(* size and words of any width.                                            *)
(*                                                                         *)
(* The invariant says, for each place the target's program can be at, what *)
(* it has done by then.  The probe sees none of that but the message of    *)
(* the end, which comes from two places only, and a word of a write counts *)
(* as arrived when it was taken or waits in the mailbox: no more than were *)
(* sent ever are, and as long as that many are, they are the ones sent.    *)
(*                                                                         *)
(* All that is said of a target whose CPU was lost is that the probe stays *)
(* within its code; it counts again from when the target is taken over.    *)
(***************************************************************************)
EXTENDS FlashXv2, TLAPS

WritePlaces == {"start1", "start0", "prepare", "take", "clear", "lock", "end1", "end0", "forever"}
ErasePlaces == {"open", "erase", "restore", "end1", "end0", "forever"}
Ended       == {"end0", "forever"}
\* A write is past the point where the mailbox was cleared.
Prepared    == {"take", "clear", "lock", "end1", "end0", "forever"}

Writes == job.kind = "write"
Length == Len(job.data)
Taken  == addr - job.first
Waiting == IF in.full /\ at # "clear" THEN 1 ELSE 0

\* Who is at work, and what there is in RAM and registers, by the place of the probe.
Held ==
    /\ pc \in {"idle", "ram", "regs"} => cpu = "held"
    /\ pc \notin {"idle", "stopping", "ram", "regs"} => cpu = "running"
    /\ pc # "idle" => regs = "funclet"
    /\ pc \notin {"idle", "regs"} => ram = "funclet"

\* The program is that of the job, unless the CPU was lost.
Placed ==
    /\ at = "astray" \/ at \in IF Writes THEN WritePlaces ELSE ErasePlaces
    /\ at = "astray" => lost
    /\ pc \in {"idle", "regs"} => ram = "program"
    /\ pc = "idle" => regs = "program"
    /\ ~lost => Held

\* The words taken and the words expected add up.
Counted ==
    Writes =>
        /\ Taken \in 0 .. Length
        /\ at \in {"start1", "start0", "prepare"} => Taken = 0 /\ cnt = Length
        /\ at = "take"  => cnt = Length - Taken /\ cnt > 0
        /\ at = "clear" => cnt = Length - Taken + 1
        /\ at \in {"lock", "end1", "end0", "forever"} => Taken = Length

\* Words outside of the job, and those a write has not come to, are as before.
Untouched ==
    /\ \A a \in Cells \ Range(job) : flash[a] = job.before[a]
    /\ Writes => \A a \in Cells : a >= addr => flash[a] = job.before[a]

\* The message of the end comes from the end, and only it makes success.
Truthful ==
    /\ out.o1 = "CAFE" => at \in Ended
    /\ ~late => answer
    /\ Over /\ answer => at \in Ended

\* What the program has done, by its place.
Done ==
    pc # "idle" =>
        /\ Writes /\ at \in {"end1", "end0", "forever"} => ~open
        /\ ~Writes /\ at \in {"restore", "end1", "end0", "forever"} =>
               \A a \in Cells : flash[a] = Erased
        /\ ~Writes /\ at \in {"end1", "end0", "forever"} => open = old

Programmed(i) ==
    flash[job.first + i - 1] = job.before[job.first + i - 1] \cap job.data[i]

\* The words that arrived, if they are as many as were sent, are those.
Arrived ==
    pc # "idle" /\ Writes /\ ~late /\ at \in Prepared =>
        /\ Taken + Waiting <= sent
        /\ Taken + Waiting = sent =>
              /\ \A i \in 1 .. Taken : Programmed(i)
              /\ Waiting = 1 => in.word = job.data[sent]

Truths == Untouched /\ Truthful /\ Done /\ Arrived

IInv == TypeOK /\ Placed /\ Counted /\ (~lost => Truths)

-----------------------------------------------------------------------------
(* What a job is *)

\* A tuple of n words is a sequence of length n.
LEMMA TupleLength ==
    ASSUME NEW n \in Nat, NEW d \in [1 .. n -> Word]
    PROVE  d \in Seq(Word) /\ Len(d) = n
  OBVIOUS

\* What is written fits the flash.
LEMMA WriteJobFacts ==
    ASSUME NEW j \in Job, j.kind = "write"
    PROVE  /\ j.first \in Cells /\ j.data \in Seq(Word)
           /\ Len(j.data) \in 1 .. Size
           /\ j.first + Len(j.data) - 1 <= Size
           /\ \A i \in 1 .. Len(j.data) : j.data[i] \in Word
           /\ j.before \in Flash
  <1>1. j \in WriteJobs /\ j.first + Len(j.data) - 1 \in Cells
    BY DEF Job, EraseJobs
  <1>2. PICK n \in Cells : j.data \in [1 .. n -> Word]
    BY <1>1 DEF WriteJobs
  <1>3. n \in Nat /\ n >= 1 /\ n <= Size
    BY SizeAssumption DEF Cells
  <1>4. j.data \in Seq(Word) /\ Len(j.data) = n
    BY <1>2, <1>3, TupleLength
  <1> QED
    BY <1>1, <1>2, <1>3, <1>4 DEF WriteJobs, Cells

\* Every job has a flash that was, and a kind.
LEMMA JobFacts ==
    ASSUME NEW j \in Job
    PROVE  /\ j.kind \in {"write", "erase"} /\ j.before \in Flash
           /\ j.first \in Cells /\ Len(j.data) \in 0 .. Size
  <1>1. CASE j \in EraseJobs
    BY <1>1, SizeAssumption DEF EraseJobs, Cells
  <1>2. CASE j \in WriteJobs
    <2>1. j.kind = "write"
      BY <1>2 DEF WriteJobs
    <2> QED
      BY <2>1, WriteJobFacts, SizeAssumption DEF Cells
  <1> QED
    BY <1>1, <1>2 DEF Job

-----------------------------------------------------------------------------
(* The steps *)

\* Where the probe is, without the abbreviations.
ProbePlaces == {"idle", "send", "sync", "stopping", "ram", "regs", "poll_start", "poll_end", "ready_start", "ready_end",
                "miss_start", "miss_end"}

LEMMA PlacesOfProbe ==
    ASSUME NEW p
    PROVE  (p \in {"idle", "send", "sync", "stopping", "ram", "regs"} \/ \E w \in Waits : p \in {Poll(w), Ready(w), Miss(w)})
           <=> p \in ProbePlaces
  BY DEF ProbePlaces, Waits, Poll, Ready, Miss

\* The polls, whichever message they wait for.
Wait == TestReady("start") \/ TestReady("end") \/ PollAgain("start") \/ PollAgain("end")
        \/ GiveUp("start") \/ GiveUp("end") \/ TakeMessage("start") \/ TakeMessage("end")

\* What the probe's polls have in common: they touch nothing of the target's,
\* and stay in the operation.
LEMMA WaitFacts ==
    ASSUME Wait, out \in Outbox, answer \in BOOLEAN, late \in BOOLEAN
    PROVE  /\ UNCHANGED <<job, sent, lost, target, in>>
           /\ pc \notin {"idle", "stopping", "ram", "regs"}
           /\ pc' \in ProbePlaces \ {"idle", "stopping", "ram", "regs"}
           /\ out' \in Outbox /\ out'.o1 = out.o1
           /\ answer' \in BOOLEAN /\ late' \in BOOLEAN
  BY DEF Wait, TestReady, PollAgain, GiveUp, TakeMessage, Poll, Ready, Miss, Outbox, ProbePlaces

\* The sync and the way back.
Ending == AskStop \/ StopSeen \/ StopMissed \/ RestoreRam \/ RestoreRegs \/ Stop

LEMMA EndingFacts ==
    ASSUME Ending
    PROVE  /\ UNCHANGED <<job, sent, answer, late, at, addr, cnt, flash, open, old, out, in>>
           /\ lost => lost'
           /\ pc = "idle" => pc' = "idle"
           /\ pc' = pc \/ (Over /\ pc' \in {"stopping", "ram", "regs", "idle"})
  BY DEF Ending, AskStop, StopSeen, StopMissed, RestoreRam, RestoreRegs, Stop, Over, target, probe

\* The steps there are.
LEMMA Steps ==
    ASSUME [Next]_vars
    PROVE  \/ Begin \/ Wait \/ SendWord \/ DropWord \/ AllSent \/ Ending \/ Reset
           \/ Astray \/ Recapture
           \/ WriteOut1("start1", "start0", "ABAD") \/ WriteOut0("start0", "prepare")
           \/ Prepare \/ TakeWord \/ ClearFlag
           \/ OpenForErase \/ Erase \/ Restore
           \/ Lock \/ WriteOut1("end1", "end0", "CAFE") \/ WriteOut0("end0", "forever")
           \/ UNCHANGED vars
  BY DEF Next, ProbeStep, TargetStep, Wait, Waits, Ending

\* The types, by what changes together.
Flags     == /\ answer \in BOOLEAN /\ late \in BOOLEAN /\ lost \in BOOLEAN
             /\ open \in BOOLEAN /\ old \in BOOLEAN
Boxes     == out \in Outbox /\ in \in Inbox
Asked     == pc \in ProbePlaces /\ job \in Job /\ sent \in 0 .. Len(job.data)
Registers == addr \in 1 .. Size + 1 /\ cnt \in 0 .. Size

Owned == /\ cpu \in {"running", "asked", "held"}
         /\ ram \in {"program", "funclet"} /\ regs \in {"program", "funclet"}

Parts ==
    /\ Flags /\ Boxes /\ Asked /\ Registers /\ flash \in Flash /\ Owned
    /\ at \in WritePlaces \cup ErasePlaces \cup {"astray"}

LEMMA TypeParts == TypeOK <=> Parts
  <1>1. at \in WritePlaces \cup ErasePlaces \cup {"astray"} <=>
            at \in {"start1", "start0", "prepare", "take", "clear", "open", "erase",
                    "restore", "lock", "end1", "end0", "forever", "astray"}
    BY DEF WritePlaces, ErasePlaces
  <1> QED
    BY <1>1, PlacesOfProbe DEF TypeOK, Parts, Flags, Boxes, Asked, Registers, Owned

\* Nothing but these parts is needed for the types.
Base ==
    /\ Flags /\ Boxes /\ Asked /\ Registers /\ flash \in Flash /\ Owned
    /\ Placed /\ Counted

LEMMA BaseParts == Base <=> Parts /\ Placed /\ Counted
  BY DEF Base, Parts, Placed

LEMMA BaseInit == Init => Base
  <1> SUFFICES ASSUME Init PROVE Base
    OBVIOUS
  <1>1. job \in EraseJobs /\ Len(job.data) = 0 /\ ~Writes
    BY SizeAssumption DEF Init, NoJob, EraseJobs, Cells, Writes
  <1>2. Boxes
    BY DEF Init, Boxes, Outbox, Inbox
  <1>3. Asked
    BY <1>1 DEF Init, Asked, Job, ProbePlaces
  <1>4. Registers
    BY SizeAssumption DEF Init, Registers
  <1>5. Flags
    BY DEF Init, Flags
  <1>6. Placed /\ Counted
    BY <1>1 DEF Init, Placed, Held, Counted, ErasePlaces
  <1> QED
    BY <1>2, <1>3, <1>4, <1>5, <1>6 DEF Base, Init, Owned

LEMMA BaseBegin == Base /\ Begin => Base'
  <1> SUFFICES ASSUME Base, Begin PROVE Base'
    OBVIOUS
  <1>1. PICK j \in Job :
            /\ j.before = flash /\ job' = j
            /\ at' = (IF lost THEN "astray" ELSE IF j.kind = "write" THEN "start1" ELSE "open")
            /\ pc' = (IF j.kind = "write" THEN "poll_start" ELSE "poll_end")
            /\ addr' = j.first /\ cnt' = Len(j.data)
    BY DEF Begin
  <1>2. /\ j.kind \in {"write", "erase"} /\ j.first \in Cells
        /\ Len(j.data) \in 0 .. Size
    BY JobFacts
  <1>3. Boxes'
    BY DEF Begin, Drained, Outbox, Boxes, Base
  <1>4. Asked'
    BY <1>1, <1>2, SizeAssumption DEF Begin, Asked, ProbePlaces
  <1>5. Registers'
    BY <1>1, <1>2, SizeAssumption DEF Registers, Cells
  <1>6. Flags'
    BY DEF Begin, Flags, Base
  <1>7. Placed'
    BY <1>1, <1>2 DEF Begin, Placed, Held, Writes, WritePlaces, ErasePlaces
  <1>8. Counted'
    BY <1>1, <1>2, SizeAssumption DEF Counted, Writes, Taken, Length, Cells
  <1> QED
    BY <1>3, <1>4, <1>5, <1>6, <1>7, <1>8 DEF Base, Begin, Owned

\* The probe's own steps leave the program's counting alone.
LEMMA BaseProbe == Base /\ (Wait \/ SendWord \/ DropWord \/ AllSent \/ Ending \/ Reset) => Base'
  <1> SUFFICES ASSUME Base, Wait \/ SendWord \/ DropWord \/ AllSent \/ Ending \/ Reset
               PROVE  Base'
    OBVIOUS
  <1>1. UNCHANGED <<job, at, addr, cnt, flash, old>> /\ sent' \in 0 .. Len(job'.data)
    <2>1. CASE Wait
      BY <2>1, WaitFacts DEF Base, Flags, Boxes, Asked, target
    <2>2. CASE SendWord \/ DropWord
      BY <2>2, JobFacts, SizeAssumption DEF SendWord, DropWord, Base, Asked, target
    <2>3. CASE AllSent \/ Reset
      BY <2>3 DEF AllSent, Reset, Base, Asked, target, probe
    <2>4. CASE Ending
      BY <2>4, EndingFacts DEF Base, Asked
    <2> QED BY <2>1, <2>2, <2>3, <2>4
  <1>2. Flags' /\ Boxes'
    <2>1. CASE Wait
      BY <2>1, WaitFacts DEF Base, Flags, Boxes, target
    <2>2. CASE SendWord
      <3>1. job.kind = "write"
        BY <2>2, JobFacts DEF SendWord, Base, Asked, Job, EraseJobs, WriteJobs
      <3>2. job.data[sent + 1] \in Word
        BY <2>2, <3>1, WriteJobFacts DEF SendWord, Base, Asked
      <3> QED
        BY <2>2, <3>2 DEF SendWord, Base, Flags, Boxes, Inbox, target
    <2>3. CASE Reset
      BY <2>3 DEF Reset, Base, Flags, Boxes, Outbox, Inbox, probe
    <2>4. CASE DropWord \/ AllSent
      BY <2>4 DEF DropWord, AllSent, Base, Flags, Boxes, target
    <2>5. CASE Ending
      <3>1. lost' = lost \/ lost' = TRUE
        BY <2>5 DEF Ending, AskStop, StopSeen, StopMissed, RestoreRam, RestoreRegs, Stop, probe
      <3> QED
        BY <2>5, <3>1, EndingFacts DEF Base, Flags, Boxes
    <2> QED BY <2>1, <2>2, <2>3, <2>4, <2>5
  <1>3. /\ pc' \in ProbePlaces /\ Owned' /\ (lost => lost') /\ (~lost' => Held')
        /\ pc' \in {"idle", "regs"} => ram' = "program"
        /\ pc' = "idle" => regs' = "program"
    <2>1. CASE Wait
      BY <2>1, WaitFacts DEF Base, Flags, Boxes, Owned, Placed, Held, ProbePlaces, target
    <2>2. CASE SendWord \/ DropWord \/ AllSent
      BY <2>2 DEF SendWord, DropWord, AllSent, Base, Asked, Owned, Placed, Held, ProbePlaces, target
    <2>3. CASE Reset
      BY <2>3 DEF Reset, Base, Asked, Owned, Placed, Held, ProbePlaces, probe
    <2>4. CASE Ending
      <3> USE DEF Base, Asked, Owned, Placed, Held, ProbePlaces, target, probe
      <3>1. CASE AskStop
        BY <3>1 DEF AskStop
      <3>2. CASE StopSeen \/ StopMissed
        BY <3>2 DEF StopSeen, StopMissed
      <3>3. CASE RestoreRam \/ RestoreRegs
        BY <3>3 DEF RestoreRam, RestoreRegs
      <3>4. CASE Stop
        BY <3>4 DEF Stop
      <3> QED
        BY ONLY <2>4, <3>1, <3>2, <3>3, <3>4 DEF Ending
    <2> QED BY <2>1, <2>2, <2>3, <2>4
  <1>4. Asked' /\ Registers' /\ flash' \in Flash
    BY <1>1, <1>3 DEF Base, Asked, Registers
  <1>5. Placed'
    BY <1>1, <1>3 DEF Base, Placed, Writes
  <1>6. Counted'
    BY <1>1 DEF Base, Counted, Writes, Taken, Length
  <1> QED
    BY <1>2, <1>3, <1>4, <1>5, <1>6 DEF Base

\* What every step of the program leaves alone.
Program ==
    \/ WriteOut1("start1", "start0", "ABAD") \/ WriteOut0("start0", "prepare")
    \/ Prepare \/ TakeWord \/ ClearFlag \/ OpenForErase \/ Erase \/ Restore
    \/ Lock \/ WriteOut1("end1", "end0", "CAFE") \/ WriteOut0("end0", "forever")

LEMMA ProgramFacts ==
    ASSUME Program
    PROVE  /\ UNCHANGED <<pc, job, sent, answer, late, lost, cpu, ram, regs>>
           /\ cpu # "held" /\ at # "astray" /\ at' # "astray"
  BY DEF Program, WriteOut1, WriteOut0, Prepare, TakeWord, ClearFlag, OpenForErase, Erase,
         Restore, Lock, Goes, Kept, probe

\* A word that is taken is one of the job's, and more are expected.
LEMMA TakeWordFacts ==
    ASSUME Base, TakeWord
    PROVE  /\ Writes /\ job.first \in Cells /\ Length \in 1 .. Size
           /\ Taken \in 0 .. Length - 1 /\ cnt = Length - Taken
           /\ addr = job.first + Taken /\ addr \in Cells /\ addr + 1 \in 1 .. Size + 1
  <1>1. Writes /\ at = "take"
    BY DEF TakeWord, Goes, Base, Placed, ErasePlaces
  <1>2. /\ job.first \in Cells /\ Length \in 1 .. Size
        /\ job.first + Length - 1 <= Size
    BY <1>1, WriteJobFacts DEF Base, Asked, Writes, Length
  <1>3. Taken \in 0 .. Length /\ cnt = Length - Taken /\ cnt > 0
    BY <1>1 DEF Base, Counted
  <1>4. addr = job.first + Taken
    BY <1>2 DEF Taken, Base, Registers, Cells
  <1>5. Taken \in 0 .. Length - 1
    BY <1>2, <1>3
  <1> QED
    BY <1>1, <1>2, <1>3, <1>4, <1>5, SizeAssumption DEF Cells

LEMMA BaseProgram == Base /\ Program => Base'
  <1> SUFFICES ASSUME Base, Program PROVE Base'
    OBVIOUS
  <1>1. UNCHANGED <<pc, job, sent, answer, late, lost, cpu, ram, regs>>
    BY ProgramFacts
  <1>9. Owned' /\ (~lost' => Held')
    BY <1>1 DEF Base, Placed, Owned, Held
  <1>2. Writes => /\ job.first \in Cells /\ Length \in 1 .. Size
    BY WriteJobFacts DEF Base, Asked, Writes, Length
  <1>3. CASE WriteOut1("start1", "start0", "ABAD") \/ WriteOut1("end1", "end0", "CAFE")
    <2>1. Boxes'
      BY <1>3 DEF WriteOut1, Base, Boxes, Outbox
    <2>2. UNCHANGED <<addr, cnt, flash, open, old>>
      BY <1>3 DEF WriteOut1
    <2>3. Placed' /\ Counted'
      BY <1>1, <1>3 DEF WriteOut1, Goes, Base, Placed, Held, Counted, Writes, Taken, Length,
                        WritePlaces, ErasePlaces
    <2> QED
      BY <1>1, <2>1, <2>2, <2>3 DEF Base, Owned, Flags, Asked, Registers
  <1>4. CASE WriteOut0("start0", "prepare") \/ WriteOut0("end0", "forever")
    <2>1. Boxes'
      BY <1>4 DEF WriteOut0, Base, Boxes, Outbox
    <2>2. UNCHANGED <<addr, cnt, flash, open, old>>
      BY <1>4 DEF WriteOut0
    <2>3. Placed' /\ Counted'
      BY <1>1, <1>4 DEF WriteOut0, Goes, Base, Placed, Held, Counted, Writes, Taken, Length,
                        WritePlaces, ErasePlaces
    <2> QED
      BY <1>1, <2>1, <2>2, <2>3 DEF Base, Owned, Flags, Asked, Registers
  <1>5. CASE Prepare
    <2>1. Boxes'
      BY <1>5 DEF Prepare, Base, Boxes, Inbox
    <2>2. Flags'
      BY <1>1, <1>5 DEF Prepare, Base, Flags
    <2>3. Placed' /\ Counted'
      BY <1>1, <1>2, <1>5 DEF Prepare, Goes, Base, Placed, Held, Counted, Writes, Taken, Length,
                        WritePlaces, ErasePlaces
    <2> QED
      BY <1>1, <1>5, <2>1, <2>2, <2>3 DEF Prepare, Base, Owned, Asked, Registers
  <1>6. CASE TakeWord
    <2>1. /\ Writes /\ job.first \in Cells /\ Length \in 1 .. Size
          /\ Taken \in 0 .. Length - 1 /\ cnt = Length - Taken
          /\ addr = job.first + Taken /\ addr \in Cells /\ addr + 1 \in 1 .. Size + 1
      BY <1>6, TakeWordFacts
    <2>2. flash' \in Flash
      BY <1>6 DEF TakeWord, Base, Flash, Word
    <2>3. Registers'
      BY <1>6, <2>1 DEF TakeWord, Base, Registers
    <2>4. Placed'
      BY <1>1, <1>6, <2>1 DEF TakeWord, Goes, Base, Placed, Held, Writes, WritePlaces
    <2>5. Taken' = Taken + 1 /\ Length' = Length /\ cnt' = cnt /\ at' = "clear"
      BY <1>1, <1>6, <2>1 DEF TakeWord, Goes, Taken, Length, Cells
    <2>6. Counted'
      BY <2>1, <2>5 DEF Counted
    <2> QED
      BY <1>1, <1>6, <2>2, <2>3, <2>4, <2>6 DEF TakeWord, Base, Owned, Flags, Boxes, Asked
  <1>7. CASE ClearFlag
    <2>1. Writes /\ at = "clear"
      BY <1>7 DEF ClearFlag, Goes, Base, Placed, ErasePlaces
    <2>2. Taken \in 0 .. Length /\ cnt = Length - Taken + 1
      BY <2>1 DEF Base, Counted
    <2>3. Boxes'
      BY <1>7 DEF ClearFlag, Base, Boxes, Inbox
    <2>4. Registers'
      <3>1. addr' = addr /\ cnt' = cnt - 1
        BY <1>7 DEF ClearFlag
      <3>2. cnt >= 1
        BY <1>2, <2>1, <2>2
      <3> QED
        BY <3>1, <3>2, SizeAssumption DEF Base, Registers
    <2>5. Placed'
      BY <1>1, <1>7, <2>1 DEF ClearFlag, Goes, Base, Placed, Held, Writes, WritePlaces
    <2>6. Taken' = Taken /\ Length' = Length /\ cnt' = cnt - 1
          /\ at' = (IF cnt > 1 THEN "take" ELSE "lock")
      BY <1>1, <1>7 DEF ClearFlag, Goes, Kept, Taken, Length
    <2>7. Counted'
      BY <1>2, <2>1, <2>2, <2>6 DEF Counted
    <2> QED
      BY <1>1, <1>7, <2>3, <2>4, <2>5, <2>7 DEF ClearFlag, Base, Owned, Flags, Asked
  <1>8. CASE OpenForErase \/ Erase \/ Restore \/ Lock
    <2>1. UNCHANGED <<addr, cnt, out, in>>
      BY <1>8 DEF OpenForErase, Erase, Restore, Lock
    <2>2. Flags' /\ flash' \in Flash
      BY <1>1, <1>8 DEF OpenForErase, Erase, Restore, Lock, Base, Flags, Flash, Word, Erased
    <2>3. Placed' /\ Counted'
      BY <1>1, <1>8, <2>1 DEF OpenForErase, Erase, Restore, Lock, Goes, Base, Placed, Held, Counted,
                        Writes, Taken, Length, WritePlaces, ErasePlaces
    <2> QED
      BY <1>1, <2>1, <2>2, <2>3 DEF Base, Owned, Boxes, Asked, Registers
  <1> QED
    BY <1>3, <1>4, <1>5, <1>6, <1>7, <1>8 DEF Program

\* A CPU that is lost, and one that is taken over again.
LEMMA BaseAstray == Base /\ (Astray \/ Recapture) => Base'
  <1> SUFFICES ASSUME Base, Astray \/ Recapture PROVE Base'
    OBVIOUS
  <1>1. CASE Astray
    <2>1. lost /\ at' = "astray"
      BY <1>1 DEF Astray, Base, Placed, Held, Asked
    <2>2. UNCHANGED <<pc, job, sent, answer, late, lost, cpu, ram, regs, addr, cnt, flash, open, old>>
      BY <1>1 DEF Astray, Kept, probe
    <2>3. out' \in Outbox
      <3>1. out' = out \/ \E m \in {Started, Finished} : out' = [o1 |-> m.o1, o0 |-> m.o0, rdy |-> TRUE]
        BY <1>1 DEF Astray
      <3>2. \/ out' = out
            \/ out' = [o1 |-> "ABAD", o0 |-> "BABE", rdy |-> TRUE]
            \/ out' = [o1 |-> "CAFE", o0 |-> "BABE", rdy |-> TRUE]
        BY <3>1 DEF Started, Finished
      <3>3. out \in Outbox
        BY DEF Base, Boxes
      <3>4. /\ [o1 |-> "ABAD", o0 |-> "BABE", rdy |-> TRUE] \in Outbox
            /\ [o1 |-> "CAFE", o0 |-> "BABE", rdy |-> TRUE] \in Outbox
        BY ONLY DEF Outbox
      <3> QED
        BY ONLY <3>2, <3>3, <3>4
    <2>4. in' \in Inbox
      BY <1>1 DEF Astray, Inbox, Base, Boxes
    <2>5. Placed' /\ Counted'
      BY <2>1, <2>2 DEF Placed, Counted, Writes, Taken, Length, Base
    <2> QED
      BY <2>2, <2>3, <2>4, <2>5 DEF Base, Flags, Boxes, Asked, Registers, Owned
  <1>2. CASE Recapture
    <2>1. /\ pc = "idle" /\ UNCHANGED <<pc, addr, cnt, ram, regs, old>>
          /\ answer' = TRUE /\ late' = FALSE
          /\ lost' = FALSE /\ cpu' = "held" /\ at' = "forever" /\ open' = FALSE
          /\ flash' \in Flash /\ job' = NoJob(flash') /\ sent' = 0
      BY <1>2 DEF Recapture
    <2>2. job' \in EraseJobs /\ job'.kind = "erase" /\ Len(job'.data) = 0
      BY <2>1, SizeAssumption DEF NoJob, EraseJobs, Cells
    <2>3. Boxes'
      BY <1>2 DEF Recapture, Boxes, Base, Outbox, Inbox
    <2>4. Asked'
      BY <2>1, <2>2 DEF Asked, Base, Job
    <2>5. ram = "program" /\ regs = "program"
      BY <2>1 DEF Base, Placed
    <2>6. Placed' /\ Counted'
      BY <2>1, <2>2, <2>5 DEF Placed, Held, Counted, Writes, ErasePlaces
    <2> QED
      BY <2>1, <2>3, <2>4, <2>6 DEF Base, Flags, Registers, Owned
  <1> QED
    BY <1>1, <1>2

LEMMA BaseStep == Base /\ [Next]_vars => Base'
  <1>1. Base /\ UNCHANGED vars => Base'
    BY DEF vars, Base, Flags, Boxes, Asked, Registers, Owned, Placed, Held, Counted, Writes, Taken,
           Length
  <1> QED
    BY <1>1, Steps, BaseBegin, BaseProbe, BaseProgram, BaseAstray DEF Program

\* A CPU that was never lost does not go astray, and is not taken over.
LEMMA Tame ==
    ASSUME Base, ~lost, [Next]_vars
    PROVE  /\ ~Astray /\ ~Recapture
           /\ Program => pc # "idle"
  <1>1. ~Astray /\ ~Recapture
    BY DEF Astray, Recapture, Base, Placed, Held, Asked
  <1>2. Program => pc # "idle"
    BY ProgramFacts DEF Base, Placed, Held
  <1> QED BY <1>1, <1>2

-----------------------------------------------------------------------------
(* What the flash holds *)

\* All but the start of an operation and the steps of its program keep the
\* flash, the job and where the program is.
LEMMA Still ==
    ASSUME Base, Wait \/ SendWord \/ DropWord \/ AllSent \/ Ending \/ Reset \/ UNCHANGED vars
    PROVE  /\ UNCHANGED <<job, at, addr, cnt, flash, old>>
           /\ pc # "idle" => UNCHANGED open
  <1>1. CASE Wait
    <2>1. UNCHANGED target /\ UNCHANGED job
      BY <1>1, WaitFacts DEF Base, Flags, Boxes
    <2> QED BY <2>1 DEF target
  <1>2. CASE SendWord \/ DropWord \/ AllSent
    <2>1. UNCHANGED target /\ UNCHANGED job
      BY <1>2 DEF SendWord, DropWord, AllSent
    <2> QED BY <2>1 DEF target
  <1>3. CASE Ending
    BY <1>3, EndingFacts
  <1>4. CASE Reset
    BY <1>4 DEF Reset, probe
  <1>5. CASE UNCHANGED vars
    BY <1>5 DEF vars
  <1> QED BY <1>1, <1>2, <1>3, <1>4, <1>5

\* A job keeps its words while the program runs.
LEMMA UntouchedStep == Base /\ ~lost /\ Untouched /\ [Next]_vars => Untouched'
  <1> SUFFICES ASSUME Base, ~lost, Untouched, [Next]_vars PROVE Untouched'
    OBVIOUS
  <1> USE DEF Untouched, Writes, Range
  <1>1. CASE Begin
    BY <1>1 DEF Begin
  <1>2. CASE Wait \/ SendWord \/ DropWord \/ AllSent \/ Ending \/ Reset \/ UNCHANGED vars
    BY <1>2, Still
  <1>3. CASE TakeWord
    <2>1. /\ Writes /\ job.first \in Cells /\ Length \in 1 .. Size
          /\ Taken \in 0 .. Length - 1
          /\ addr = job.first + Taken /\ addr \in Cells
      BY <1>3, TakeWordFacts
    <2>2. job' = job /\ addr' = addr + 1
      BY <1>3, ProgramFacts DEF Program, TakeWord
    <2>3. \A a \in Cells : a # addr => flash'[a] = flash[a]
      BY <1>3 DEF TakeWord, Base, Flash
    <2>4. addr \in job.first .. job.first + Len(job.data) - 1
      BY <2>1 DEF Length, Cells
    <2>5. \A a \in Cells : a >= addr + 1 => a # addr /\ a >= addr
      BY <2>1 DEF Cells
    <2> QED BY <2>1, <2>2, <2>3, <2>4, <2>5
  <1>4. CASE Erase
    <2>1. ~Writes /\ job' = job
      BY <1>4, ProgramFacts DEF Program, Erase, Goes, Base, Placed, WritePlaces
    <2> QED BY <2>1
  <1>5. CASE Program /\ ~TakeWord /\ ~Erase
    <2>1. UNCHANGED <<job, flash>>
      BY <1>5, ProgramFacts DEF Program, WriteOut1, WriteOut0, Prepare, ClearFlag,
                                OpenForErase, Restore, Lock
    <2>2. addr' = addr
      BY <1>5 DEF Program, WriteOut1, WriteOut0, Prepare, ClearFlag, OpenForErase, Restore, Lock
    <2> QED BY <2>1, <2>2
  <1> QED
    BY <1>1, <1>2, <1>3, <1>4, <1>5, Steps, Tame DEF Program

\* The message of the end comes from the end.
LEMMA TruthfulStep == Base /\ ~lost /\ Truthful /\ [Next]_vars => Truthful'
  <1> SUFFICES ASSUME Base, ~lost, Truthful, [Next]_vars PROVE Truthful'
    OBVIOUS
  <1>1. CASE Begin
    BY <1>1 DEF Begin, Drained, Truthful, Over
  <1>2. CASE Wait
    <2>1. UNCHANGED at /\ out'.o1 = out.o1
      BY <1>2, WaitFacts DEF Base, Flags, Boxes, target
    <2>2. (~late => answer) => (~late' => answer')
      BY <1>2 DEF Wait, TestReady, PollAgain, GiveUp, TakeMessage
    <2>3. Over' /\ answer' => out.o1 = "CAFE"
      BY <1>2 DEF Wait, TestReady, PollAgain, GiveUp, TakeMessage, Poll, Ready, Miss,
                  Expected, Started, Finished, Over
    <2> QED BY <2>1, <2>2, <2>3 DEF Truthful
  <1>3. CASE SendWord \/ DropWord \/ AllSent \/ Ending \/ Reset \/ UNCHANGED vars
    <2>1. UNCHANGED at
      BY <1>3, Still
    <2>2. out'.o1 = out.o1
      BY <1>3, EndingFacts DEF SendWord, DropWord, AllSent, Reset, vars, Base, Boxes, Outbox
    <2>3. answer' = answer /\ (late' = late \/ late')
      BY <1>3, EndingFacts DEF SendWord, DropWord, AllSent, Reset, vars, probe
    <2>4. Over' => Over
      BY <1>3, EndingFacts DEF SendWord, DropWord, AllSent, Reset, vars, probe, Over
    <2> QED BY <2>1, <2>2, <2>3, <2>4 DEF Truthful
  <1>4. CASE Program
    <2>1. UNCHANGED <<pc, answer, late>>
      BY <1>4, ProgramFacts
    <2>2. at \in Ended => at' \in Ended
      BY <1>4 DEF Program, WriteOut1, WriteOut0, Prepare, TakeWord, ClearFlag, OpenForErase,
                  Erase, Restore, Lock, Goes, Ended
    <2>3. out'.o1 = "CAFE" => at' \in Ended \/ out.o1 = "CAFE"
      BY <1>4 DEF Program, WriteOut1, WriteOut0, Prepare, TakeWord, ClearFlag, OpenForErase,
                  Erase, Restore, Lock, Goes, Ended, Base, Boxes, Outbox
    <2> QED BY <2>1, <2>2, <2>3 DEF Truthful, Over
  <1> QED
    BY <1>1, <1>2, <1>3, <1>4, Steps, Tame DEF Program

\* What the program has done stays done.
LEMMA DoneStep == Base /\ ~lost /\ Done /\ [Next]_vars => Done'
  <1> SUFFICES ASSUME Base, ~lost, Done, [Next]_vars PROVE Done'
    OBVIOUS
  <1> USE DEF Done, Writes
  <1>1. CASE Begin
    BY <1>1 DEF Begin
  <1>2. CASE Wait \/ SendWord \/ DropWord \/ AllSent \/ Ending \/ Reset \/ UNCHANGED vars
    <2>1. CASE pc = "idle" /\ Wait
      BY <2>1, WaitFacts DEF Base, Flags, Boxes
    <2>2. CASE pc = "idle" /\ ~Wait
      BY <1>2, <2>2, EndingFacts DEF SendWord, DropWord, AllSent, Reset, vars, probe
    <2>3. CASE pc # "idle"
      BY <1>2, <2>3, Still
    <2> QED BY <2>1, <2>2, <2>3
  <1>3. CASE Program
    <2>1. UNCHANGED <<pc, job>> /\ pc # "idle"
      BY <1>3, ProgramFacts, Tame
    <2>2. CASE Erase
      <3>1. at = "erase" /\ at' = "restore"
        BY <2>2 DEF Erase, Goes
      <3>2. \A a \in Cells : flash'[a] = Erased
        BY <2>2 DEF Erase
      <3> QED BY <2>1, <3>1, <3>2
    <2>3. CASE TakeWord \/ Prepare \/ ClearFlag \/ OpenForErase
                \/ WriteOut1("start1", "start0", "ABAD") \/ WriteOut0("start0", "prepare")
      BY <2>1, <2>3 DEF TakeWord, Prepare, ClearFlag, OpenForErase, WriteOut1, WriteOut0, Goes
    <2>4. CASE Restore
      BY <2>1, <2>4 DEF Restore, Goes, Base, Placed, WritePlaces
    <2>5. CASE Lock
      BY <2>1, <2>5 DEF Lock, Goes, Base, Placed, ErasePlaces
    <2>6. CASE WriteOut1("end1", "end0", "CAFE") \/ WriteOut0("end0", "forever")
      BY <2>1, <2>6 DEF WriteOut1, WriteOut0, Goes
    <2> QED BY <1>3, <2>2, <2>3, <2>4, <2>5, <2>6 DEF Program
  <1> QED
    BY <1>1, <1>2, <1>3, Steps, Tame DEF Program

\* A step that moves no word changes nothing of what has arrived.
LEMMA ArrivedSame ==
    ASSUME Arrived, UNCHANGED <<job, sent, addr, flash, in>>,
           pc' # "idle" => pc # "idle",
           late' = late,
           Writes /\ at' \in Prepared => at \in Prepared /\ (at = "clear" <=> at' = "clear")
    PROVE  Arrived'
  BY DEF Arrived, Writes, Taken, Waiting, Programmed

\* The words that arrived are the first that were sent.
LEMMA ArrivedStep == Base /\ ~lost /\ Untouched /\ Arrived /\ [Next]_vars => Arrived'
  <1> SUFFICES ASSUME Base, ~lost, Untouched, Arrived, [Next]_vars PROVE Arrived'
    OBVIOUS
  <1>1. CASE Begin
    BY <1>1 DEF Begin, Arrived, Writes, Prepared
  <1>2. CASE Wait
    <2>1. UNCHANGED <<job, sent, addr, flash, in, at>> /\ pc # "idle"
      BY <1>2, WaitFacts, Still DEF Base, Flags, Boxes
    <2>2. CASE late' = late
      BY <2>1, <2>2, ArrivedSame
    <2>3. CASE late' # late
      BY <1>2, <2>3 DEF Wait, TestReady, PollAgain, GiveUp, TakeMessage, Arrived
    <2> QED BY <2>2, <2>3
  <1>3. CASE SendWord
    <2>1. /\ UNCHANGED <<pc, job, late, at, addr, flash>>
          /\ sent' = sent + 1 /\ ~in.full /\ in'.word = job.data[sent + 1]
      BY <1>3 DEF SendWord, target
    <2> SUFFICES ASSUME pc # "idle", Writes, ~late, at \in Prepared
                 PROVE  Arrived'
      BY <2>1 DEF Arrived, Writes
    <2>2. Waiting = 0 /\ (Waiting' = 0 \/ Waiting' = 1)
      BY <2>1 DEF Waiting
    <2>3. Taken' = Taken /\ Taken \in Int /\ sent \in Int
      BY <2>1, JobFacts DEF Taken, Base, Asked, Counted
    <2>4. Taken = sent => \A i \in 1 .. Taken : Programmed(i)
      BY <2>2, <2>3 DEF Arrived
    <2>5. Taken <= sent
      BY <2>2, <2>3 DEF Arrived
    <2>7. \A i \in 1 .. Taken : Programmed(i)' <=> Programmed(i)
      BY <2>1 DEF Programmed
    <2>6. sent' = sent + 1
      BY <2>1
    <2>8. Taken' + Waiting' <= sent'
      BY <2>2, <2>3, <2>5, <2>6
    <2>9. Taken' + Waiting' = sent' => Taken = sent
      BY <2>2, <2>3, <2>5, <2>6
    <2> QED
      BY <2>1, <2>3, <2>4, <2>7, <2>8, <2>9 DEF Arrived
  <1>4. CASE DropWord
    BY <1>4 DEF DropWord, Arrived
  <1>5. CASE AllSent
    BY <1>5, ArrivedSame DEF AllSent, target
  <1>6. CASE Reset
    BY <1>6 DEF Reset, probe, Arrived
  <1>12. CASE Ending
    BY <1>12, EndingFacts, ArrivedSame
  <1>7. CASE UNCHANGED vars
    BY <1>7, ArrivedSame DEF vars
  <1>8. CASE Prepare
    <2> SUFFICES ASSUME Writes PROVE Arrived'
      BY <1>8, ProgramFacts DEF Program, Arrived, Writes
    <2>1. UNCHANGED <<pc, job, sent, late, addr>> /\ at = "prepare" /\ at' = "take"
      BY <1>8, ProgramFacts DEF Program, Prepare, Goes
    <2>2. Taken' = 0
      BY <2>1 DEF Taken, Base, Counted
    <2>3. ~in'.full
      BY <1>8 DEF Prepare, Base, Boxes, Inbox
    <2>4. Waiting' = 0 /\ sent' \in Nat
      BY <2>1, <2>3, JobFacts DEF Waiting, Base, Asked
    <2> QED BY <2>2, <2>4 DEF Arrived
  <1>9. CASE TakeWord
    <2>1. /\ Writes /\ job.first \in Cells /\ Length \in 1 .. Size
          /\ Taken \in 0 .. Length - 1
          /\ addr = job.first + Taken /\ addr \in Cells
      BY <1>9, TakeWordFacts
    <2>8. Program
      BY <1>9 DEF Program
    <2>9. UNCHANGED <<pc, job, sent, late>> /\ pc # "idle"
      BY <2>8, ProgramFacts, Tame
    <2>2. /\ UNCHANGED <<pc, job, sent, late, in>> /\ pc # "idle"
          /\ at = "take" /\ at' = "clear" /\ in.full /\ addr' = addr + 1
          /\ flash' = [flash EXCEPT ![addr] = @ \cap in.word]
      <3>1. at = "take" /\ at' = "clear" /\ in.full
        BY ONLY <1>9 DEF TakeWord, Goes
      <3>2. addr' = addr + 1 /\ in' = in
        BY ONLY <1>9 DEF TakeWord
      <3>3. flash' = [flash EXCEPT ![addr] = @ \cap in.word]
        BY ONLY <1>9 DEF TakeWord
      <3> QED BY ONLY <2>9, <3>1, <3>2, <3>3
    <2> SUFFICES ASSUME ~late PROVE Arrived'
      BY <2>2 DEF Arrived
    <2>3. Waiting = 1 /\ Waiting' = 0 /\ Taken' = Taken + 1
      <3>1. Waiting = 1
        BY ONLY <2>2 DEF Waiting
      <3>2. Waiting' = 0
        BY ONLY <2>2 DEF Waiting
      <3>3. addr \in Int /\ job.first \in Int /\ job' = job /\ addr' = addr + 1
        BY ONLY <2>1, <2>2, SizeAssumption DEF Cells
      <3>4. Taken' = Taken + 1
        BY ONLY <3>3 DEF Taken
      <3> QED BY ONLY <3>1, <3>2, <3>4
    <2>4. /\ Taken + 1 <= sent
          /\ Taken + 1 = sent =>
                (\A i \in 1 .. Taken : Programmed(i)) /\ in.word = job.data[sent]
      BY <2>1, <2>2, <2>3 DEF Arrived, Prepared
    <2>5. ASSUME Taken + 1 = sent PROVE \A i \in 1 .. Taken + 1 : Programmed(i)'
      <3> SUFFICES ASSUME NEW i \in 1 .. Taken + 1
                   PROVE  flash'[job.first + i - 1] = job.before[job.first + i - 1] \cap job.data[i]
        BY <2>2 DEF Programmed
      <3>1. CASE i \in 1 .. Taken
        <4>1. job.first + i - 1 # addr /\ job.first + i - 1 \in Cells
          BY <2>1, <3>1, SizeAssumption DEF Cells
        <4>2. flash'[job.first + i - 1] = flash[job.first + i - 1]
          BY <2>2, <4>1 DEF Base, Flash
        <4>3. Programmed(i)
          BY <2>4, <2>5, <3>1
        <4> QED BY <4>2, <4>3 DEF Programmed
      <3>2. CASE i = Taken + 1
        <4>1. job.first + i - 1 = addr
          BY <2>1, <3>2 DEF Cells
        <4>2. flash[addr] = job.before[addr]
          BY <2>1 DEF Untouched, Cells
        <4>3. flash'[addr] = flash[addr] \cap in.word
          BY <2>1, <2>2 DEF Base, Flash
        <4>4. in.word = job.data[i]
          BY <2>4, <2>5, <3>2
        <4> QED BY <4>1, <4>2, <4>3, <4>4
      <3> QED BY <2>1, <3>1, <3>2
    <2>6. Taken' + Waiting' = Taken + 1 /\ sent' = sent
      BY <2>1, <2>2, <2>3
    <2> QED
      BY <2>3, <2>4, <2>5, <2>6 DEF Arrived
  <1>10. CASE ClearFlag
    <2>1. UNCHANGED <<pc, job, sent, late, addr, flash>> /\ at = "clear"
      BY <1>10, ProgramFacts DEF Program, ClearFlag, Goes
    <2>2. ~in'.full
      BY <1>10 DEF ClearFlag, Base, Boxes, Inbox
    <2>3. Taken' = Taken /\ Waiting = 0 /\ Waiting' = 0 /\ at \in Prepared
      BY <2>1, <2>2 DEF Taken, Waiting, Prepared
    <2> QED
      BY <2>1, <2>3 DEF Arrived, Writes, Programmed
  <1>11. CASE Program /\ ~Prepare /\ ~TakeWord /\ ~ClearFlag
    <2>1. UNCHANGED <<pc, job, sent, late>>
      BY <1>11, ProgramFacts
    <2>2. CASE Writes
      <3>1. UNCHANGED <<addr, in, flash>>
        BY <1>11, <2>2 DEF Program, WriteOut1, WriteOut0, OpenForErase, Erase, Restore, Lock,
                           Goes, Base, Placed, WritePlaces
      <3>2. at' \in Prepared => at \in Prepared /\ (at = "clear" <=> at' = "clear")
        BY <1>11, <2>2 DEF Program, WriteOut1, WriteOut0, OpenForErase, Erase, Restore, Lock,
                           Goes, Base, Placed, WritePlaces, Prepared
      <3> QED BY <2>1, <3>1, <3>2, ArrivedSame
    <2>3. CASE ~Writes
      BY <2>1, <2>3 DEF Arrived, Writes
    <2> QED BY <2>2, <2>3
  <1> QED
    BY <1>1, <1>2, <1>3, <1>4, <1>5, <1>6, <1>7, <1>8, <1>9, <1>10, <1>11, <1>12, Steps, Tame
       DEF Program

-----------------------------------------------------------------------------
(* The invariant, and what follows from it *)

LEMMA InvariantInit == Init => IInv
  <1> SUFFICES ASSUME Init PROVE IInv
    OBVIOUS
  <1>1. Base /\ TypeOK /\ Placed /\ Counted
    BY BaseInit, BaseParts, TypeParts
  <1>2. job.kind = "erase" /\ job.before = flash
    BY DEF Init, NoJob
  <1>3. Truths
    BY <1>2 DEF Init, Truths, Untouched, Truthful, Done, Arrived, Writes, Over
  <1> QED
    BY <1>1, <1>3 DEF IInv

\* Only taking over the target brings a lost CPU back.
LEMMA RecaptureTruths ==
    ASSUME Base, lost, ~lost', [Next]_vars
    PROVE  Truths'
  <1>1. Recapture
    <2>1. CASE Ending
      BY <2>1, EndingFacts
    <2>2. CASE Program
      BY <2>2, ProgramFacts
    <2>3. CASE Wait
      BY <2>3, WaitFacts DEF Base, Flags, Boxes
    <2>4. CASE Begin \/ SendWord \/ DropWord \/ AllSent \/ Reset \/ Astray \/ UNCHANGED vars
      BY <2>4 DEF Begin, SendWord, DropWord, AllSent, Reset, Astray, Kept, vars, probe
    <2> QED
      BY <2>1, <2>2, <2>3, <2>4, Steps DEF Program
  <1>2. /\ pc' = "idle" /\ job'.kind = "erase" /\ job'.before = flash'
    BY <1>1 DEF Recapture, NoJob
  <1>3. out'.o1 = "CAFE" => at' \in Ended
    BY <1>1 DEF Recapture, Ended
  <1>4. ~late' => answer'
    BY <1>1 DEF Recapture
  <1> QED
    BY <1>2, <1>3, <1>4 DEF Truths, Untouched, Truthful, Done, Arrived, Writes, Over

LEMMA InvariantStep == IInv /\ [Next]_vars => IInv'
  <1> SUFFICES ASSUME IInv, [Next]_vars PROVE IInv'
    OBVIOUS
  <1>1. Base
    BY TypeParts, BaseParts DEF IInv
  <1>2. Base'
    BY <1>1, BaseStep
  <1>3. TypeOK' /\ Placed' /\ Counted'
    BY <1>2, TypeParts, BaseParts, PTL
  <1>4. ~lost' => Truths'
    <2>1. CASE ~lost
      <3>1. Untouched' /\ Truthful' /\ Done' /\ Arrived'
        BY <1>1, <2>1, UntouchedStep, TruthfulStep, DoneStep, ArrivedStep DEF IInv, Truths
      <3> QED BY <3>1 DEF Truths
    <2>2. CASE lost
      BY <1>1, <2>2, RecaptureTruths
    <2> QED BY <2>1, <2>2
  <1> QED
    BY <1>3, <1>4 DEF IInv

LEMMA Invariant == Spec => []IInv
  <1> QED
    BY InvariantInit, InvariantStep, PTL DEF Spec

\* At the end of a write whose waits all held, every word sent was taken.
LEMMA AllArrived ==
    ASSUME IInv, Over, ~lost, ~late, Writes
    PROVE  /\ ~open
           /\ \A i \in 1 .. Length : Programmed(i)
  <1>1. at \in {"end0", "forever"} /\ at \in {"end1", "end0", "forever"} /\ at \in Prepared
    BY DEF IInv, Truths, Truthful, Ended, Prepared
  <1>2. ~open
    BY <1>1 DEF IInv, Truths, Done, Over
  <1>3. Taken = Length /\ Length \in Nat
    BY <1>1, JobFacts DEF IInv, TypeOK, Counted, Length
  <1>4. Waiting \in {0, 1} /\ sent \in 0 .. Length
    BY DEF Waiting, IInv, TypeOK, Length
  <1>5. Taken + Waiting <= sent
    BY <1>1 DEF IInv, Truths, Arrived, Over
  <1>6. Waiting = 0 /\ sent = Length
    BY <1>3, <1>4, <1>5
  <1>7. Taken + Waiting = sent
    BY <1>3, <1>6
  <1> QED
    BY <1>1, <1>2, <1>3, <1>7 DEF IInv, Truths, Arrived, Over

\* The probe and the program in the target's RAM stay within their code, and
\* the registers within the flash, for flash of any size.
THEOREM TypesKept == Spec => []TypeOK
  <1>1. IInv => TypeOK
    BY DEF IInv
  <1> QED
    BY <1>1, Invariant, PTL

\* Unless a sync was in vain, the program has RAM and registers to itself until the
\* CPU stands, and a target that is given back stands and has its own.
THEOREM RamIsTheFunclets == Spec => []RamWhileRunning
  <1>1. IInv => RamWhileRunning
    BY DEF IInv, Placed, Held, RamWhileRunning
  <1> QED
    BY <1>1, Invariant, PTL

\* Words out of the range asked for are never changed, whatever was dropped or
\* left over.
THEOREM OthersUntouched == Spec => []OnlyTheRange
  <1>1. IInv => OnlyTheRange
    BY DEF IInv, Truths, Untouched, OnlyTheRange
  <1> QED
    BY <1>1, Invariant, PTL

\* The success of an erase is true.
THEOREM EraseIsTrue == Spec => []EraseTrue
  <1>1. IInv => EraseTrue
    <2> SUFFICES ASSUME IInv, Over, ~lost, answer, job.kind = "erase"
                 PROVE  (\A a \in Cells : flash[a] = Erased) /\ open = old
      BY DEF EraseTrue
    <2>1. at \in Ended
      BY DEF IInv, Truths, Truthful
    <2>2. at \in {"end1", "end0", "forever"} /\ ~Writes
      BY <2>1 DEF Ended, Writes
    <2> QED
      BY <2>2 DEF IInv, Truths, Done, Over
  <1> QED
    BY <1>1, Invariant, PTL

\* A write whose waits all held is in the flash, word by word.
THEOREM WriteIsMade == Spec => []WriteMade
  <1>1. IInv => WriteMade
    BY AllArrived DEF WriteMade, Writes, Length, Programmed
  <1> QED
    BY <1>1, Invariant, PTL

=============================================================================
