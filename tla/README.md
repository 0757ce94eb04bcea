# Glossy MSP430: a verification project

Glossy MSP430 is the firmware of a debug probe for TI's MSP430 microcontrollers
(`Firmware.shared/`). It runs on an STM32, speaks gdb's remote protocol over a UART and drives
the target over JTAG. This directory holds TLA+ models of its parts, the TLC configurations that
check them on small instances, and theorems about them that the TLA+ proof system checks for every
instance. Paths below are relative to `Firmware.shared/` unless they say otherwise.

To check a module: `tlc -workers 2 -config X.cfg M`, where M is the module the table of runs names;
to prove: `tlapm Gdb_proof.tla`, and the same for `TargetMemory_proof`, `JtagDev_proof`, `FlashXv2_proof`,
`ChipProfile_proof`, `TapScripts_proof`, `TapAccess_proof` and `Recursion`.

## 1. Inventory

| Part | Source | State it keeps | Operations |
| --- | --- | --- | --- |
| gdb server | `ui/gdb.cpp`, `main.cpp` | the session it is in (control flow), `wide_regs_` | one handler per packet, `Run` with its poll loop, `ReaderLoop`, `Serve` |
| Monitor commands | `ui/cmddb.cpp`, `ui/devcmd.cpp`, `ui/reader.cpp` | none | `run`, `reset`, `set`, `erase ...`, `regs`, `help` |
| Packet link and frames | `util/gdb_proto.cpp` | `send_ack_`; the frame buffer with a pending run of characters | read a packet, put characters, close the frame, wait for the acknowledgement |
| Target session | `drivers/TapMcu.cpp` | `attached_`, `traits_` (the driver), `cpu_ctx_` (cached pc, sr, watchdog), `chip_info_`, `failed_` | open, identify, read and write registers and memory, erase, run, halt, poll, reset, close |
| Breakpoints | `util/Breakpoints.cpp`, `UpdateEemBreakpoints` in `drivers/TapDev430.cpp`, `TapDev430X.cpp` | the table; in the target the trigger blocks and BREAKREACT | add, remove, prepare, write to the EEM |
| Chip database | `ChipInfoDB.h` (generated), `util/ChipProfile.cpp` | the profile of the chip | find a record, load it, look an address up |
| Device drivers | `drivers/TapDev430*.cpp` | none of their own; LOCKA and the CPU's state in the target | take and release the CPU, reset, registers, memory, flash |
| Funclets | `/Funclets/EraseXv2`, `/Funclets/WriteFlashXv2` | in the target's RAM | erase and write flash from inside of the target |
| JTAG scripts | `drivers/TapPlayer.*` | the interface in use | unpack and play a table of JTAG operations |
| JTAG driver | `drivers/JtagDev*.cpp`, `util/SpiJtagDataShift.h`, `TmsAutoShaper.h`, `WaveJtag.h`, ... | level of TDI, timers, DMA tables | IR and DR shifts, TAP reset, TCLK pulses |
| Text utilities, CRC | `util/parser.cpp`, `expr.cpp`, `vector.cpp`, `crc32.cpp`, ... | none | pure |
| Platform | `/target.*`, `main.cpp` | peripherals | boot, UART, pins |
| Offline tools | `/ChipInfo/*` | files | produce `ChipInfoDB.h` from TI's XML |
| Host test program | `/UnitTest` | | exercises a probe with a real target |

**Interaction.** One thread runs everything: `Gdb::Serve` opens the target (`TapMcu::Open`), reads a
packet, calls a handler, and the handler calls `TapMcu`, which calls the driver `traits_` points to,
which plays scripts of JTAG operations on the interface `g_Player.itf_`. What runs beside that thread is the
outside world: the debugger, whose characters wait in the UART's FIFO; the target, whose CPU runs,
stops at a breakpoint, runs the probe's own programs when flash of an Xv2 part is written, and keeps
its registers and flash across sessions; and the timers and DMA channels that play the clocks of a shift.

**What is hard here.** Nothing is protected by locks, so the hazards are those of a sequential
program with two independent partners and a memory that outlives it:

* *Stale state.* The pc and sr are answered from a cache; breakpoints that are not dirty are not
  written again; BREAKREACT and trigger blocks outlive sessions; the profile is a static object.
* *Ordering.* An interrupt character races the end of the run it was sent for. A session ends
  between a debugger's packets. A packet arrives damaged and is sent again.
* *Interleaving.* While a program of the probe writes flash in the target, probe and target talk over
  a mailbox of two words and one, and either may find there what an earlier operation left.
* *Sequences.* Every script of a driver starts from what the one before left in the JTAG port: the
  instruction, the level of TCLK, the control signals.
* *Partial failure.* Open has about ten steps and every one can fail; a halt can fail; a program in
  the target can be late; a write can run into unmapped memory.
* *Boundaries.* Odd addresses, borders of regions, segments; run lengths whose code is a reserved
  character; bits that fill the last byte of an SPI frame; a table of breakpoints with more entries
  than trigger blocks; a database searched by partial matches.
* *Position.* Nothing is read back from the target's JTAG port, so every edge of every shift must be
  right by construction.

`PROJECT.json` lists these hazards, each at its line with the properties that would notice it.

**What makes each part correct.** Breakpoints: the debugger sees a set; a breakpoint that has a trigger
block stops the target while it runs. Session: no packet is lost or answered twice; a stop reply means
the CPU is held; the calls go to the driver of the part that is connected. Memory: a transfer touches its bytes and no other; an erase erases
what it stands for; INFO A stays locked. Frames: what was put is what is read. Device drivers: an
operation changes what it names, in order, and nothing else, and a target that is let go is as asked.
Funclets: an erase that is answered with success was made, so was a write that met no timeout, and
the target's RAM comes back. JTAG driver: a shift is one exchange of one register and no clock for the CPU,
a TCLK operation gives the CPU its clocks and no other. Database: the record that fits best, its memory map
and its driver, with nothing of the chip before.

## 2. Modules

```
BreakpointSet            what the debugger is promised about breakpoints
  ^ implemented by
Breakpoints  <-  EemBreakpoints  <-  Gdb_proof
TapMcu       <-  GdbSession      <-  Gdb_proof
                                 <-  MCGdbSession
GdbFrame                         <-  Gdb_proof
TargetMemory <-  TargetMemory_proof
             <-  MCTargetMemory
FlashXv2     <-  FlashXv2_proof
TapPort                  what callers of ITapDev count on
  ^ implemented by
TapPlayer    <-  Msp430Target               <-  TapAccess
             <-  TapDev430  <-  TapDev430X  <-  TapAccess
             <-  TapDev430Xv2               <-  TapAccess
TapAccess    <-  MCTapAccess
             <-  TapInvariant  <-  TapScripts_proof  <-  TapAccess_proof
JtagScan                 what callers of ITapInterface count on
  ^ implemented by
JtagTap      <-  JtagDev  <-  JtagDev_proof
                          <-  MCJtagDev
Absent       <-  ChipProfile  <-  ChipProfile_proof
                              <-  MCChipProfile
             <-  ChipInfoDB   <-  MCChipProfile
Recursion    <-  TargetMemory_proof, Gdb_proof, ChipProfile_proof, TapScripts_proof
```

(`<-`: is extended by.) The layers meet where the code's do: GdbSession's packet "memory" and monitor
erase are the operations of TargetMemory; the words TargetMemory moves on an attached target are moved
by the calls of TapPort, which TapAccess implements with primitives; a primitive is an operation of
JtagScan, which JtagDev implements with clocks; and what TargetMemory lets a late program of an Xv2
part leave behind is what FlashXv2 shows step by step. They are not composed into one state space:
each layer's promise is what the layer above assumes.

**Breakpoints, EemBreakpoints, BreakpointSet.** `breakpoints` is `Breakpoints::breakpoints_`; an entry
has the fields of `DeviceBreakpoint`. `Add`'s three ways out
are `AddMatched`, `AddPopulated` and `AddRefused`. `PreparedTable` and `EemMask` are what
`PrepareEemSetup` leaves. `trigger` and `breakReact` are registers of the target; `Init` gives them
every value an earlier session may have left. A run is `UpdateEemBreakpoints` as one action, with the
detail that matters: a trigger block waits for a value on the address or the data bus in a fetch or
a data cycle (`Trigger`), and the code makes every block wait for an instruction fetch
(`ProgrammedTrigger`), whatever its entry is for; BREAKREACT is reached only when `IR_EMEX_DATA_EXCHANGE` is the loaded
instruction, that is, when at least one trigger block was programmed.

**TapMcu, GdbSession.** The operators of `TapMcu` are the calls of the class on the state of the probe
(`driver`, `chip`, `attached`, `ctx`) and the target (`part`, `pc`, `mode`, `wdt`); one register stands for
the two that are cached. A part has a CPU, a version that `IsCpuX_ID` knows or does not, and the record the
database has for it, if any; of the profile `chip` there are the two attributes `StartMcu` switches on.
Opening takes four steps: the port, `InitDevice` (which chooses a driver from the two ids and loads its
default profile), `ProbeId` (the record's profile, or that default again) and `StartMcu` (the driver of
the profile). Each may fail and leaves what the earlier ones did; while the probe is closed the part may be
replaced by another. `GdbSession` makes actions of them: one per packet that does something of its own,
the poll loop of `Gdb::Run` in its steps (poll, drain the UART, halt), monitor's `run` loop, `Serve`'s
opening and closing, and the debugger and the target beside it. `rx` is the UART's FIFO. A debugger
sends one packet at a time and the interrupt character while a run it asked for is not answered;
a "+" may come at any time if `SendsPlus`. The line may damage a packet (`"damaged"`): the server answers
"-", or nothing when the `$` is missing, may take what comes behind for a part of it, and the debugger
sends the packet again.

**TargetMemory.** A byte is the set of its bits that are 1, so that programming flash is intersection
and an erased byte is all bits. `ReadMem`, `WriteMem` and the five erases are functions from the state
to the set of outcomes, block by block and segment by segment as the code goes, with the early
returns. `locka` is LOCKA as the target has it; every operation that toggles it is followed through
its toggles. On Xv2 parts the work is done by a program in the target that may be late: then each
byte it was to change is as it was or as it should be, and LOCKA is where it left it.

**GdbFrame.** `PutChar`, `EndOfRLE` and the closing of the frame, character by character; the variable
`text` is what a reader should recover.

**JtagTap, JtagDev, JtagScan.** `JtagTap` is the TAP controller's state machine (IEEE 1149.1), which the
target has. `JtagDev` renders an operation into the clocks the hardware will play (`tx`) with the rules
of each driver class: `"spi"` and `"vhc"` (an SPI port gives TCK and TDI, a timer with two compare
channels shapes TMS) and `"tim"` (DMA tables). `Clock` plays one. A TCLK operation is the levels TDI runs
through; `strobe` is the operation that came last and `cycles` the rising edges it gave the CPU. The pulses
of `OnFlashTclk` come from the timer and its DMA (`OPT_TIMER_DMA_WAVE_GEN`), which is taken to give as many as
it is programmed for (`util/TimDmaWave.h:22`, "exact programmed DMA count"). `JtagScan` is the promise:
a scan has its whole effect in one step, and each TCLK operation gives a number of edges that depends on
nothing but the level of TCLK before it (for flash, also on the driver: the SPI drivers raise a TCLK that was low
before they begin to count).

**TapPlayer, TapDev430, TapDev430X, TapDev430Xv2.** A driver's operation is a script: a sequence of
primitives (IR scan, DR scan, level of TCLK, strobes, delay, mailbox) with branches on what was read.
`TapPlayer` has the packed steps and `Play`, which unpacks them and takes the variable arguments in the
order they are met, one step each time it comes to the head of the script (`Unpack`); `Loop` is a loop of a
driver, unrolled in the same way (`Iterate`). A script that one driver has in another form than `TapDev430` is
named after its class (`_X`, `_Xv2`, `_1377`). The other three have the scripts of the three drivers, among them the variant for
the erratum 1377.

**Msp430Target.** The target behind the port. The repository does not contain it; it is modelled from
how the scripts use it, and marked external. `TargetStep` is the effect of one primitive: a rising edge
of TCLK makes the CPU consume a word of the program JTAG feeds it, or makes the bus read or write.
Flash has its controller with lock, LOCKA, write and erase modes, and a `busy` count that only the
strobes of TCLK run down; an access that comes too early sets `violated`.

**TapAccess, TapPort.** `TapAccess` calls an operation on a part and plays its script one primitive at a
time, each a step of its own; the next operation finds the port as the last left it. `Primitive` is such a
step, `Control` what the driver does between two of them (the next step of a list, the next round of a loop,
a test of what was read), `Local` a value it computes. `TapPort` is the
abstract promise: an operation has a list of changes, made one after the other, and an answer.

**FlashXv2.** The probe's side of `WriteFlash` and `EraseFlash` of the Xv2 driver and the two funclets side
by side, from the release of the CPU to the sync that stops it. Probe, funclet and the mailbox between
them take their steps in any order. The target may be arbitrarily slow, so a stopwatch of the probe may
expire whenever the code looks at it; a program that was stopped half way leaves the mailbox and the lock
as they were, and the next operation starts from there, with a reset between them or without. The sync is
modelled in its steps: the control signals ask the CPU to stop (`AskStop`), which does so in its own time
(`Stop`) while the program goes on; the probe sees it stand (`StopSeen`) or has polled often enough
(`StopMissed`), and in both cases puts back RAM and registers, one after the other. Once a sync was in
vain, `lost` is set: the CPU may then run in what it finds in RAM (`Astray`), until the target is taken over
anew (`Recapture`).

**ChipProfile, ChipInfoDB.** `Match` and `Find` on records, `FillBlock`, `FillMemory` and `FillDevice` on a
profile, `DecodeEemTimer`, `FindMemByAddress`, `GetRamMem`, `IsCpuX_ID`, and the steps of `TapMcu` that load
profiles and choose drivers while a session opens, the driver for the erratum 1377 among them (`DriverOf`). The tables are constants. `ChipInfoDB` is the whole database, row by
row: 495 records, 157 configurations of 166 blocks, 49 timer groups, and the codes the 495 parts answer
with; `MCChipProfile` gives it to `ChipProfile`. `FillBlocks` is the loop of `FillMemory` over the blocks of
a configuration, and `Sorted` the `stable_sort` of `CompleteLoad`: an entry stands behind as many others as
come before it. Such loops are recursive functions and counts, which can be reasoned about.

## 3. Runs

| Run | Module | What it asks | Bounds |
| --- | --- | --- | --- |
| `EemBreakpoints` | EemBreakpoints | the table, its programming and the answers, in every order of packets, runs and sessions | 4 entries, 3 trigger blocks, 2 addresses, 2 types |
| `GdbSession` | MCGdbSession | the conversation, its interrupts, damaged packets, opening, and the calls to the target; liveness | 5 kinds of parts, 3 pc values, FIFO of 2 |
| `TargetMemory` | MCTargetMemory | all transfers and erases from all contents | 3 regions in 12 addresses, 1 bit, transfers of up to 4 bytes, 3 families |
| `TapAccess` | MCTapAccess | every driver's scripts on a target; refinement of TapPort | 9 parts, two calls in a row, both levels of TCLK after strobes |
| `FlashXv2` | FlashXv2 | probe and funclet over the mailbox, all timeouts; liveness | 3 words of 1 bit |
| `GdbFrame` | GdbFrame | run lengths and frames | 200 characters in 2 runs and the `$`, 3 characters |
| `JtagDev` | MCJtagDev | the position of every edge; refinement of JtagScan | the four widths the code shifts, two patterns each, three driver classes |
| `ChipProfile` | MCChipProfile | search, memory map, lookups, choice of the driver | the whole database |
| `EemBreakpoints_OnlyEnabledArmed` | EemBreakpoints | *violated*: see section 6 | as above |
| `GdbSession_ReportedPcTrue`, `GdbSession_SessionOutlivesReply` | MCGdbSession | *violated* | 2 pc values |
| `ChipProfile_TimersOfTheGroup` | MCChipProfile | *violated* | as above |

**Why the bounds are enough.**

* *EemBreakpoints.* Three trigger blocks, of which entry 0 takes one, and one entry without a block
  give: full, nearly full, hardware only, software needed, and every order of reuse among entries.
  Two addresses are enough to fill the table because an entry is a pair of address and type; one of
  them is the address 0, which a cleared entry has, and the other the value 0x4343, which entry 0 has.
  The proofs cover every other size.
* *GdbSession.* Pc values matter only by being equal or not: the reset vector, 0xFFFE of a fresh
  cache, and one the debugger sets. The parts are one of each CPU with a record, on Xv2 one with the
  erratum and one without, and an Xv2 part without a record. Two places in the FIFO let an interrupt or a "+" wait before and
  behind a packet; a debugger has one packet under way.
* *TargetMemory.* The map has an unmapped stretch below and above, two adjacent regions of flash, one
  of them with two segments, and RAM beside it. Transfers of four bytes at every address meet every
  combination of odd and even ends, of region borders and of gaps; one bit per byte is enough because
  no operation moves bits within a byte.
* *GdbFrame.* A run longer than 98 characters is split and the rest can be as long as 98 again, so that
  200 reaches every remainder, the two reserved codes and what follows them; two runs reach every
  junction. The characters are a newline, the `+` of `QStartNoAckMode+` and a hexadecimal digit.
* *JtagDev.* No clock depends on more than the operation, the width, the level of TDI before and the
  bits of the argument; patterns differ in every position and at both ends. `Pulses = 2` stands for the
  number a caller asks for: the pulses between the first and the last are alike.
* *TapAccess.* What one operation can leave for the next is the state of the port, and no operation
  looks further back; so two calls in a row meet every pair. The parts are one per driver, flash timing,
  presence of LOCKA and kind of clock control. `WriteWords` and `ReadWords` of two words enter their loops
  a second time; addresses above 64K and values of 20 bits are in the X and Xv2 drivers' calls.
* *FlashXv2.* With three words a write has a first, an inner and a last one, and can begin and end inside
  of the segment. The bits of a word do not interact; the proofs cover every size and width.
* *ChipProfile.* The queries are the codes of all parts, every combination of the values that records of
  a shared version tell apart (with others that differ only in masked bits), and one of no known part.
  Addresses are the borders of every block and their neighbours. Profiles are loaded over those of an
  earlier session.

Deadlock is checked in every run but `GdbFrame`, where a frame that is complete stays so.
`McuCore::Abort` is an action that does nothing for ever (`Aborted`), and thus no deadlock.

**Fairness.** `GdbSession` has `WF_vars(Server)`: the firmware is one loop that nothing suspends. Nothing is
assumed of the debugger or the target: a run without a breakpoint goes on for ever unless the debugger
interrupts it. `FlashXv2` has `WF_vars(ProbeStep)` for the same reason, and
`SF_vars(\E w \in Waits : GiveUp(w))`: the stopwatch is looked at after every poll in vain and runs out in
the end, but as each poll takes the probe away from the place where it gives up, weak fairness would not
say so. Nothing is assumed of the funclet, nor that the CPU ever stops when it is asked to.

**What the runs show.**

* *Breakpoints*: whatever packets, runs and sessions came before, while the target runs the block of each
  breakpoint that has one waits for the fetch of an instruction from its address, and may stop the CPU
  (`NoLostBreakpoint`). Watchpoints, and breakpoints beyond the number of blocks, are not among these:
  what the code programs for them does not do what they are for (section 6). `AnswersAreTrue` says that OK and the error tell what was done, and
  `RefinesBreakpointSet` that to the debugger the table is a set.
* *Session*: `OneConversation`: no packet is lost or answered twice, across the ends of sessions and when
  the line damages packets; `LateInterruptIgnored`: an interrupt read too late is dropped by the packet
  reader and never stops another run; `CallsFitTheTarget`: the asserts "check flag before call" cannot
  fire, and the driver is that of the connected part's CPU and of its record's erratum, after any number of
  failed openings and exchanged parts (but for a CPUX part the database does not know, which is driven
  as a part with the older CPU). `InterruptAnswered` and
  `PacketTaken` are the progress of the server.
* *Memory*: `WritesExactly`, `ReadsExactly`, `RangeErased` quantify over all arguments in every state;
  `InfoAProtected`, `ErasedWhenAnswered` and `LockaRestored` over all steps. The first has the premise that
  LOCKA is as a reset leaves it: the drivers assume so ("always 1 after reset",
  `drivers/TapDev430.cpp:1010`), and once a program cleared it every toggle is inverted.
* *Drivers*: `Implements`: every operation of every driver, after any other, changes the words, flash
  cells and registers it names in their order and nothing else, and returns what the target holds.
  `FlashClosed`: between operations the flash is locked, LOCKA as it was, and the strobes were enough for
  the controller; `ReleasedAsAsked`: a target that is let go has its trigger blocks untouched and its debug
  unit as asked; `RegistersReadQuietly`: reading registers of an Xv2 part, which goes through the program
  counter and the mailbox, leaves both as they were.
* *Funclets*, as long as no sync was in vain: `EraseTrue`: an erase that reports success was made, even after an operation that went
  wrong, because the registers saved before a funclet starts are read through the mailbox and so drain
  it. `WriteMade`: a write none of whose waits timed out has its words in the flash; `OnlyTheRange`: no other
  word changes; `RamWhileRunning`: RAM and registers belong to the funclet until the CPU stands, also while
  it is only asked to. `ComesBack` is the progress: the probe's operation ends whatever the target does.
  A write that did time out may be answered OK without having been made (section 6), hence `late`
  in `WriteMade`.
* *Frames*: `FrameReadable` compares with a decoder written from the protocol.
* *JTAG driver*: `ImplementsScan` says that a train of clocks has exactly the effect of the operation, and
  that each TCLK operation gives the CPU exactly the rising edges its name promises, from either level of
  TCLK, and leaves the level it is named for; `IdleBetweenCalls` is what the callers' TCLK operations rest on.
* *Database*: `FullMatchWins`; `FoundByItsCode`: every part of the table gets its own record or one the
  table does not tell from it; `MapIsOverride` (against a definition by nearest base instead of by
  filling); `LookupExact`; `FuncletRamIsRam`: the RAM that flash commands save and load is the RAM found by
  address; `DriverFitsThePart`: the class that captures and resets the part before its record is known is the
  one that controls it afterwards, if the JTAG id is right about the CPU, and the reading of registers
  changes over to the workaround for the erratum 1377 for exactly the parts whose own row asks for it; `TypeOK`
  includes that 13 entries are enough for every memory map.

## 4. Proofs

The first part of `Gdb_proof`, about EemBreakpoints, holds for every size of the table, number of trigger blocks and set of addresses,
under `TableAssumption` and `AddressAssumption` of module Breakpoints:

* `EemTypeCorrect`, `CleanEntriesWritten`, `NoBreakpointLost`, `EntriesAreDistinct`, `WatchesHaveTriggers`
  (invariants), `EntriesAreStable`, `HardwareComesFirst`, `AnswersHold` (what no step does) and
  `ImplementsBreakpointSet` (refinement).
* `NoLostBreakpoint` is not inductive: that a block is written and selected while the target runs rests on
  what was clean before the run. The inductive invariant adds `CleanIsWritten`, that entry 0 holds the software
  breakpoint instruction whenever it is enabled, and that nothing is left to be written while polling.
  `CleanIsWritten` is kept because an insertion marks its entry dirty, a deletion leaves the
  trigger block and BREAKREACT alone, and a run either programs every dirty entry and then reaches
  BREAKREACT, or programs none, and then every enabled one was selected already; that last case is the
  reason why the missing write of BREAKREACT (section 6) loses no breakpoint.
* The refinement needs `NoDuplicates`: `RemoveBreakpoint` disables the first match only.

`ChipProfile_proof` holds for every database, under the assumptions of ChipProfile on its tables (records
may miss any field; chains of base configurations end; the classes of a part fit in `mem_`; `None` is no
entry), which TLC evaluates on the real one:

* `FullMatchFound`: Spec => []FullMatchWins. The steps are that a set of fields has fewer points than
  one that contains it (`PointsOfParts`), that `3 * ok / lvl` is 3 only when all points were made
  (`Thirds`, for the sums 1 to 8 that occur), hence that level 4 means agreement in all named fields
  (`MatchLevels`), and that the search returns a record of the highest level any has. The invariant
  says the profile of a probed session is of the record found for its query.
* `ProfileTypeCorrect`: Spec => []TypeOK. A map never has two entries of a class (`Distinct`), since
  `MemoryBlock_::Fill` overwrites the entry that is there, and its classes are among those of the
  configuration and its bases (`ClassesOf`): so counting classes shows that 13 entries are enough, also for
  the map that is loaded over the default's.
* `MapResolves`: Spec => []MapIsOverride. The code fills along the bases, the oldest first, block by block;
  the property names the value of the nearest configuration that has one. One loop over blocks keeps the
  last value given for a class (`Fills`, `InClass`, `LastValue`); and both what `ConfigBlocks` fills and
  what `Nearest` names are recursions along the same chain of bases (`AlongBases`), which agree by
  induction on `Depth`. `Resolved` is the invariant of the loop.
* `LookupsAreExact`: Spec => []LookupExact. The rank of an entry in the sort is one to one, so that `Sorted` is
  a permutation in order; in a map in order the first block that holds an address is the one the lookup
  stops at.
* The inductive invariant of these three says of the profile at all times that it is all zero, or that its map
  is the one resolved from its record, in order (`ProfileInv`).

`TargetMemory_proof` holds for every map of regions, bits of a byte, and family of parts, for transfers and
erases of every length, under `FamilyAssumption`, `MapAssumption` (regions of whole words that do not
overlap, of whole segments) and `BoundsAssumption`:

* `MemoryTypeCorrect`, `WritesAreExact`, `ReadsAreExact`, `RangesAreErased` (invariants that quantify over all
  arguments), `InfoAIsProtected`, `ErasesAreDone`, `LockaIsRestored` (over all steps). They are about
  what the code's loops compute: blocks, words and segments, one after the other. For each loop there
  is a statement of what has been done so far, proved by induction over the number of passes.
* A transfer is cut in blocks at the borders of regions: `Chain` says that the blocks met are consecutive,
  each in one region, and end with the transfer or at the first address that is not mapped. `ReadSoFar`
  is then the invariant of `ReadMem`, `WrittenTo` that of `WriteMem`: the bytes before the place reached are
  as the data wants them, all others as they were, and LOCKA as it was or where a late program on an Xv2
  part left it (`LockKept`). Within a block, `Bounded` and `Worded` say that the words the block is widened to
  for an odd address or length carry the old byte of the neighbour.
* An erase of segments rests on their arithmetic (`DivMod`, `SegNoFacts`: an address lies in exactly one
  segment). `ErasedBy` says what one erase changes in each mode and with each use of LOCKA; `ClearedAlong`
  follows a row of them: what was erased stays erased, and the row goes on only while none fails.
* INFO A is safe for two reasons: on a part with LOCKA a locked segment takes no erase (`Protected` is kept
  along every loop), and only `erase infoa` toggles the lock before it. The drivers' toggles come in pairs;
  a late program on Xv2 is the only one to leave it toggled, which the property excepts.
* `WritesExactly` keeps the premise of its run, that LOCKA is as after a reset.

The part of `Gdb_proof` about GdbFrame holds for every text of codes up to 127 but `#`, `$` and `*`, which no
handler puts (`CharAssumption`), and for runs of every length (`TextAssumption`):

* `FrameTypeCorrect` and `FramesAreReadable`: Spec => []FrameReadable.
* The decoder is a recursion over the frame from behind. `RunDecodes` says what it makes of the code
  `EndOfRLE` gives a run, for every length: short runs as they are, the two lengths whose code would be `#`
  or `$` and the split of long ones. `DecodesConcat` says that a decoded prefix can be followed by another
  code: the decoder looks two characters ahead, so this needs that what follows does not begin with `*`.
* `FrameReadable` speaks of complete frames only; the invariant `Pending` says of one under way that the
  buffer decodes to the text without its last run, and that the run is the character and the count that
  wait in `last_char` and `rle_cnt`.

`Recursion` has what these proofs need of recursive definitions and of induction. The library's theorems
of this kind take an operator for their statement; here it is a set of numbers (`StrongInduction`,
`SimpleInduction`, `UpTo`) or a function (`RecursionExists`, `IterationExists`, `SolutionUnique`: that an equation
over the numbers has a solution, which is what a recursive function's definition chooses, and one only).

`FlashXv2_proof` holds for flash of every size and words of every width, under `SizeAssumption`:

* `TypesKept`, `RamIsTheFunclets`, `OthersUntouched`, `EraseIsTrue`, `WriteIsMade`, each
  Spec => [] of the property of the run; fairness plays no part in them.
* None of them but the first is inductive. The invariant `IInv` is `TypeOK`, `Placed` and `Counted` at all times,
  and `Truths` unless a sync was in vain (`lost`): after that nothing is known of the target until it is
  taken over again. `RamIsTheFunclets` covers the time between the probe's asking the CPU to stop and its
  stopping, when the program still runs and takes its steps. `IInv` says for each place the target's program can be
  at what it has done by then (`Placed`, `Counted`, `Done`, `Untouched`). The probe sees nothing of that but
  the message of the end, so `Truthful` says that the message in the mailbox comes only from the end, and
  that only it lets the probe report success: the one left by an earlier operation was drained by `Begin`.
  For a write, `Arrived` counts a word as arrived when it was taken or waits in the mailbox: never more
  have arrived than were sent, since `Prepare` clears the mailbox, and while as many have as were
  sent, they are the ones sent. That fails from the first dropped word on, and with it `late` is set.
* The steps are proved in two layers: `Base` (types, places, counts) is inductive on its own
  (`BaseStep`), and the other parts follow one by one from it.

The part of `Gdb_proof` about GdbSession holds for every set of parts, pc values and capacity of the FIFO, under
the assumptions of TapMcu and GdbSession on these constants:

* `TypeCorrect`: types, and the bound of the FIFO.
* `CallsAreSafe`: `CallsFitTheTarget`. The invariant `SoFar` follows the opening: once the target is held the
  driver is the one its two ids choose, and once it is identified the profile is its record's, or that driver's
  default; so `StartMcu`'s switch on the profile gives the driver of the part. It rests on
  `DatabaseAssumption` (records have the CPU of their parts, `McuXs` lists the CPUX parts and no older
  one), which the run of ChipProfile checks on the rows. Between Open and Close no call changes the driver
  (`CallsKeepDriver`), and only `ServeOpens` begins a session (`OnlyServeOpens`).
* `PacketsAreKept` and `LateInterruptsEndNoRun` follow from one invariant, `Conversing`
  (`ConversingHolds`). To `OneConversation` it adds `LateComeFirst`: the interrupt characters that are
  older than the last reply stand before the packet in the FIFO, and a run has none. That holds
  because a reply ends the wait with no packet in the FIFO (`RepliedConverses`), so that the next
  packet comes behind everything that is late, and reading it takes what stands before it
  (`BehindThePacket`). Then the character that ends a run can only be one sent during it. A damaged
  packet ends the wait without a run; what it takes with it is what stood before the next packet.
* `StopRepliesUnderControl`: T05 to `c` is sent by the step `Stop` alone, and only when `OnHalt` held
  the CPU, unless the driver is the Xv2 one.
* `PcWritesAreKept`: while the debugger's P is the last word on the pc, the cache holds it
  (`ToldStaysCached`), over all packets that read or halt.

`JtagDev_proof` holds for all values shifted, all contents of the registers and every choice of driver
classes, under `DriversAssumption` (the three classes) and `WordsAssumption` (the widths are 8, 16, 20 and 32 bits, the
instruction register has 8):

* `TypeSafe`, `ReturnsToIdle` and `KeepsThePromise`: Spec => []TypeOK, Spec => []IdleBetweenCalls, and the
  refinement Spec => ImplementsScan.
* The invariant is one statement about a train of clocks of which `Played` have been played. `Scanning` and
  `Resetting` give, as functions of that number, the state of the port (`ScanTap`), what the timer that shapes
  TMS has counted (`ScanTimer`, `ResetTimer`), the slots still to play, the bits that have left the register
  and entered it (`Moved`) and the samples taken (`Sampled`).
* `ScanTimerSteps` is the arithmetic of the shaper: two edges per clock, two buffered pairs of compare and
  reload values, one edge of delay in the class for high rates; TMS comes out as `ScanTms`, and the third pulse
  is not reached because `StreamBytes` rounds up to whole bytes only. `ScanTapSteps` then moves the port.
  A reset uses `Highs`, how many high levels the port needs at most to reach Test-Logic-Reset: it falls
  with every clock.
* For the refinement, the exchange takes place at the clock that enters Update: then `Moved` says that the
  register holds the argument and `Sampled` that the answer is complete (`ScanClockRefines`). Every other
  clock is a step nobody above can see, because TDI keeps its level while the port is in Run-Test/Idle. That
  the clocks of a scan give no edge in that state is part of the invariant, so `cycles` counts the TCLK operations'
  own.

`TapScripts_proof` and `TapAccess_proof` hold for every part the three drivers know, all sets of addresses in RAM,
flash, INFO A and peripherals, all values, lengths of blocks and contents of the target, and every order
of calls, under these assumptions of TapAccess: `MemoryAssumption` (words lie at even addresses below 2^20 and
are RAM or flash, not both; no memory at the registers of the flash controller or the watchdog),
`PartsAssumption` (the profile has the part's LOCKA, and the strobes of its timings, or of the driver's own
where it has none, are enough for its flash: `Suffice`) and `CallsAssumption` (`LegalCall`: addresses of memory,
values of the driver's width, erases with the words of `EraseModeFctl`; INFO A is erased in one run, since
every run toggles LOCKA).

* `TypeCorrect`, `FlashStaysClosed`, `LetGoAsAsked`, `ReadQuietly`: Spec => [] of the four invariants of the run;
  `PromiseKept`: Spec => Implements, the refinement of TapPort.
* `TapInvariant` has the invariant and the words the proofs are put in. `Moves` takes the first
  step of <<target, locals, rest of the script>>; `Path(E, c, d)` is a run from c to d during which each change
  of memory or registers is the next of the list E. `Does(E, s, u, g, w, h)` says that s takes target u and
  locals g to w and h, whatever is to be played behind it, so that it composes (`DoesBoth`).
* `TapScripts_proof` executes the parts the scripts are made of on symbolic values, up to the operations
  on registers of the older drivers. One lemma per primitive (`Falls`, `RisesReading`, `DrShows`, ...)
  says what it makes of the port's columns; what is behind the port is kept apart (`P`, and `F` for the
  flash controller). The packed steps are unpacked once for each kind (`PackIrDr`, ..., `StepArgv`): a
  step survives packing because its instruction, clock and data fit their fields. `LoopDoes` is the
  induction for the loops.
* `TapAccess_proof` puts them together. `Ready` is what an operation may find: at rest behind the port, the
  flash shut, the blocks armed, and the instruction, control signals and TCLK as one of the driver's
  scripts leaves them; that is where an erase, which ends without `kReleaseCpu` (section 6), differs from all
  others. For each script there is a lemma of what it does from there (`ReadManyCall`, `BlockFlashCall`,
  `EraseCall`, `ReleaseCall`, `GetRegCall_1377`, ...), for each operation that it serves its call (`Served`).
* The invariant `Inv` of theorem `Invariance`: an idle target is `Ready` or has been let go; during a call what is
  left of the script is a `Path` to an end that keeps the promise. The properties alone are not
  inductive: half way through a script the target is in no state a caller could name, and what makes it
  come right is the rest of the script. A step of the model is the first step of that path (`StepUnder`),
  so the path goes on, and the step is the next change promised or none, which is the refinement. TLC
  cannot evaluate `Inv`, which speaks of runs of any length; it checks what `Inv` implies.
* A release is different: the CPU must go at its last step, so its path leads to the step in front of
  it (`Parting`), and that step lets go a target that is as asked (`Gone`).
* Flash is where the numbers matter: a write sets `busy`, only strobes run it down (`WordBurnt`), an erase wears the
  cells through several runs (`EraseLoopDoes`), and `EnoughIs` is where `Suffice` meets the numbers of
  `EraseStrobes` and `EraseRuns`.

Of what the theorems state, `CleanIsWritten`, `NoDuplicates`, `SlotStable`, `HwFirst`, `WatchesInHw`,
`StopReplyUnderControl` and `PcWriteKept` are proved without a run of their own.

Model-checked only:

* liveness (fairness is outside of the prover's logic here): `InterruptAnswered`, `PacketTaken`, `ComesBack`;
* `FoundByItsCode`, `FuncletRamIsRam` and `DriverFitsThePart` of ChipProfile: they are true of the rows of this
  database and would be false of another, so that checking the rows is all there is to do.

## 5. Not modelled

* The drivers' sequences that take a running CPU over (`GetDevice`, `SyncJtag*`, `ExecutePOR`, `SingleStep`) and
  identify the chip. They poll status bits of a CPU in an unknown state, which the repository does not
  describe; to the layer above they are outcomes: they succeed, and the CPU is held, or they fail.
  `TapAccess` begins with a CPU that is held, and takes a running one over in one step (`Capture`).
* The opening and closing of the JTAG interface and the entry sequences on TEST and RST, which are pins and
  delays. The DMA variant of the SPI driver is compiled for no target (`OPT_JTAG_USING_DMA` is 0).
* In `Msp430Target`: the status bits of a captured control signal register are those of a CPU that is held;
  the program counter is not read through `GetReg`, the stack pointer and the constant generator are left
  out (`GpRegs` are among r4 to r15, one in the run). In `FlashXv2`:
  which registers a funclet clobbers. The compiled funclets in the repository are git-LFS pointers,
  so they cannot be compared with the registers the probe saves.
* Lost bytes in a reply, and the debugger's "-": `FlushAck` would retransmit, but its loop cannot be reached
  because of the inverted test of the stop watch (section 6).
* FRAM parts in TargetMemory. The watchdog of FR41xx parts, and the pc correction of a sleeping Xv2 CPU.
* The lookups of ChipProfile by class that only print (`GetInfoMem`, `GetMainMem`), and attributes copied
  from a record: clock control, FLL, the type and banks of a block.
* What the drivers do to a target whose CPU a sync has lost, beyond that the probe comes back from it
  (`ComesBack`): what runs there depends on what RAM, registers and peripherals happen to hold.
* Three details. `DisableLpmx5` tests two masks of the profile, one for each test register; the profiles set
  both or neither, and `TapAccess` has one flag. `TargetMemory` lets a late program of an Xv2 part leave each word
  written or not, but not shifted by a word that was dropped on the way; `FlashXv2` has that. A one-byte read
  stores two bytes in the caller's buffer (`TapMcu.cpp:294`), which the model of reads, a function to bytes, does
  not show.
* Text utilities, CRC, platform files, offline tools, hardware, the host test program: no state, or
  no part of the running system.

## 6. Where the code and what it says of itself differ

Shown by a run that is violated (the findings of `PROJECT.json` quote both sides):

* `OnlyEnabledArmed`: a run that programs no trigger block does not reach BREAKREACT; deleted
  breakpoints go on stopping the target.
* `ReportedPcTrue`: `ReadRegisters` and the stop reply give the cached pc, which halts do not refresh.
* `SessionOutlivesReply`: with acknowledgements on, the inverted test of the stop watch ends the
  session with the first reply.
* `TimersOfTheGroup`: `DecodeEemTimer` decodes the group before the one it is asked for, without its
  first record.

Seen while reading, and in the models as the code has it, without a run of their own:

* Every trigger block is programmed for an instruction fetch from an address (`TapDev430.cpp:1395`; in the model
  `ProgrammedTrigger`). A watchpoint that is accepted for its block ("Watch, Read and Write breaks can only be
  implemented using HW", `Breakpoints.cpp:58`) does not stop the target when data are accessed. Block 0 waits
  for a fetch from the address 0x4343, while "Software BKPT are fired when instruction 0x4343 (NOP variant) is
  fetched" (`Breakpoints.cpp:146`); `datafetch_`, "Data for datafetch_ == true" (`Breakpoints.h:42`), is not looked at;
  and nobody writes 0x4343 into the target's memory. So a breakpoint without a block is answered OK and
  never stops anything.
* `SyncJtagXv2` polls 51 times and returns nothing (`TapDev430Xv2.cpp:1136-1148`). Behind its call, "Capture MCU"
  (`:1063`), RAM and registers are put back whether or not the CPU has stopped (`:998-1003`, `:1066-1071`); the
  compiled-out `SyncJtag` looked at the count (`:1100`).
* A CPUX part without a record whose version is not in `McuXs` is driven as a part with the older CPU; an Xv2 part without one
  gets the driver for the erratum 1377, as the record of its default profile asks.
* On Xv2 parts `OnHalt` only identifies the device (`TapMcu.cpp:833`); the CPU keeps running.
* A late or refused write on Xv2 is answered OK: the result is commented out (`TapDev430Xv2.cpp:1005`).
* `WriteFlashXv2` announces its start before it writes SYSJMBC (`WriteFlashXv2.cpp:21`), which clears the
  mailbox in the model: a word the probe sends before that is lost, the funclet waits for a last word that
  never comes, and the operation ends by its stopwatch.
* The saved watchdog value is written back without its password (`TapDev430.cpp:530`, `TapDev430X.cpp:378`,
  `TapDev430Xv2.cpp:1200`).
* `ReleaseDevice` writes the value for GENCNTRL to the address of GCLKCTRL (`TapDev430.cpp:600`). `EraseFlash`
  ends with `kReleaseCpu` commented out (`TapDev430.cpp:1065`); the next script finds TCLK and the control signals
  as it leaves them, and copes (`Implements`).
* `erase segrange` erases to the end of the region whatever its size (`TapMcu.cpp:601`, against
  `cmddb.cpp:53-58`).
* R answers OK when the reset failed (a bool compared with `< 0`, `gdb.cpp:421`); `s` reaches
  `McuCore::Abort` (`TapMcu.cpp:824`); `monitor run` reads no interrupt.
* `InitDevice` ignores the result of `SyncJtagAssertPorSaveContext` (`TapMcu.cpp:170`), and the check of the
  watchdog value parses as `wdt_ & (0xff00 != ETKEY)` (`TapMcu.cpp:172`).
* A damaged packet is answered "-" also when acknowledgements are off (`gdb_proto.cpp:265`), and an empty
  packet, `$#00`, is acknowledged and never answered.
* `CheckRange` trims a read that starts outside of the map only in its comment (`TapMcu.cpp:326`): the
  whole rest reads as 0x55.
* `Match` divides by zero for a record without fields; on the probe's CPU that gives 0, and the model
  says level 1. The records of C092 and L092 answer alike (`Twins`). In the maps of F47126 and F47127 a
  RAM block overlaps main flash, and about 31 parts without an INFO block are given the default's.

Seen while reading, in parts that are not modelled: `vCmds` is searched with the size of `qCmds`
(`gdb.cpp:793`); `p` reads its register number as decimal (`gdb.cpp:62`); `cmdDrShift32_argv_p` shifts 20
bits (`TapPlayer.cpp:158`); `AnyPingPongBuffer`'s two halves overlap (`buf_[count_][2]`,
`PingPongBuffer.h:33`); `TapDev430Xv2::GetDeviceSignature` returns -1 from a bool (`:532`); the loop that waits
for an empty pipe never counts (`TapDev430Xv2.cpp:379`), the one that waits for the EEM polls once
(`while (--lTimeout < 0)`, `:307`), and `ExecutePOR` takes any bit of 0x0301 for all (`:489`); `SetInstructionFetch` tests
`IsInstrLoad() == 0` where `InstrLoad` tests the opposite (`TapDev430.cpp:1234`);
`quick_mem_read_` is set from `NoQuickMemRead` uninverted (`ChipProfile.cpp:165`).

## 7. Plan

Done, in this order: breakpoints with their proofs; session with its proofs; memory; frames; JTAG driver,
its refinement and its proofs; database with the proof of its search; scripts of the three device drivers on a target and their
refinement; the whole database; flash of Xv2 parts with mailbox, timeouts and proofs; damaged packets;
proofs about memory, frames, and the database's maps and lookups; proof that the scripts of all three drivers
implement TapPort.

Next:

1. *Taking over and identification.* `GetDevice`, `SyncJtag*` and `ExecutePOR` as scripts of TapAccess, against
   a CPU that runs, is in reset or asleep; `Capture` is then refined, and with it Open's outcomes.
2. *FRAM* in TargetMemory, and one map for TargetMemory and ChipProfile.
3. *Liveness* in TapAccess: a call returns (the branches of its scripts do not loop; the retries of the
   synchronization will).
