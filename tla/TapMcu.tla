------------------------------- MODULE TapMcu -------------------------------
(***************************************************************************)
(* The target behind the probe, and the probe's view of it: class TapMcu   *)
(* (drivers/TapMcu.cpp, drivers/TapMcu.h) with the parts of the four       *)
(* device drivers that take, keep, reset and release the CPU.              *)
(*                                                                         *)
(* One register, the program counter, stands for the two that TapMcu       *)
(* caches (CpuContext::pc_ and sr_): every handler treats them alike, but  *)
(* for the correction of a sleeping Xv2 CPU's pc, which is left out.  The  *)
(* watchdog is the one of the parts whose register ExecutePOR knows        *)
(* (0x0120, 0x015C); the FR41xx one lives elsewhere.                       *)
(*                                                                         *)
(* Of the profile (chip_info_) there are the two attributes that choose    *)
(* the driver; module ChipProfile has the rest, and the search for the     *)
(* record.  The operators are the calls of TapMcu; GdbSession makes        *)
(* actions of them.  What a call finds on the wire is chosen by \E.        *)
(***************************************************************************)

CONSTANTS
    Part,         \* the parts that may be connected
    NoRecord,     \* what the database has for a part it does not know
    Value,        \* program counter values
    ResetVector,  \* the value the program starts at
    EmptyPc       \* 0xFFFE, what InitDevice puts in the cache first

Cpu == {"Cpu", "CpuX", "CpuXv2"}

\* ChipProfile::arch_ and issue_1377_.
Chip == [arch : Cpu, issue_1377 : BOOLEAN]

\* A part has its CPU (its JTAG id tells an Xv2 one from the others), a version that
\* is among McuXs or not (IsCpuX_ID), and the record Load finds for it.
ASSUME PartAssumption ==
    Part \subseteq [cpu : Cpu, cpuXId : BOOLEAN, record : Chip \cup {NoRecord}]

\* The database is right about the CPU of what it finds, and McuXs lists versions of
\* CPUX parts, those of all records: ChipProfile's run compares the two tables.
ASSUME DatabaseAssumption ==
    \A p \in Part :
        /\ p.record # NoRecord => p.record.arch = p.cpu
        /\ p.cpu = "Cpu" => ~p.cpuXId
        /\ p.cpu = "CpuX" /\ p.record # NoRecord => p.cpuXId

ASSUME ValueAssumption == {ResetVector, EmptyPc} \subseteq Value

VARIABLES
    part,      \* the part that is connected
    driver,    \* TapMcu::traits_
    chip,      \* TapMcu::chip_info_
    attached,  \* TapMcu::attached_
    ctx,       \* TapMcu::cpu_ctx_: the cached pc (pc_)
    pc,        \* the target: its program counter
    mode,      \* the target: free running, stopped by the EEM, or held by JTAG
    wdt        \* the target's watchdog register

mcuVars    == <<driver, chip, attached, ctx>>
targetVars == <<pc, mode, wdt>>
tapVars    == <<part, mcuVars, targetVars>>

Driver == {"430", "430X", "Xv2", "Xv2_1377"}
Mode   == {"running", "stopped", "jtag"}

\* "reset": as a reset leaves it (counting), "held": stopped by the probe,
\* "program": as the program set it.
Watchdog == {"reset", "held", "program"}

\* Virtual calls go to the class of TapDev430Xv2: that of the erratum differs from it
\* in GetReg only.
IsXv2 == driver \in {"Xv2", "Xv2_1377"}

\* InitDefaultChip of each driver: the records of MSP430F133, MSP430F2416 and
\* MSP430F5418A, of which the last has the erratum.
DefaultChip(d) ==
    CASE d = "430"  -> [arch |-> "Cpu", issue_1377 |-> FALSE]
      [] d = "430X" -> [arch |-> "CpuX", issue_1377 |-> FALSE]
      [] OTHER      -> [arch |-> "CpuXv2", issue_1377 |-> TRUE]

TapInit ==
    /\ part \in Part
    /\ driver = "430" /\ attached = FALSE /\ ctx = EmptyPc
    /\ chip = DefaultChip("430")
    /\ pc = ResetVector /\ mode = "running" /\ wdt = "reset"

\* What a register write through JTAG leaves in a register that held old:
\* only a CPU that is held is sure to take it.
Written(old, v) == IF mode = "jtag" THEN {v} ELSE {old, v}

-----------------------------------------------------------------------------
(* Open, step by step: the interface, InitDevice, ProbeId and StartMcu.  A  *)
(* step that fails leaves what the steps before it did to traits_ and       *)
(* chip_info_.                                                              *)

\* Open up to OnOpen, which may fail.
OpenPort ==
    /\ attached' = FALSE /\ driver' = "430" /\ chip' = DefaultChip("430")
    /\ UNCHANGED <<part, ctx, targetVars>>

\* The driver that captures the target, by JTAG id ...
CapturingDriver == IF part.cpu = "CpuXv2" THEN "Xv2" ELSE "430"

\* ... and the one that resets it, with the device id.
GeneralDriver ==
    IF part.cpu # "CpuXv2" /\ part.cpuXId THEN "430X" ELSE CapturingDriver

\* SyncJtagAssertPorSaveContext may fail without anybody looking.
SavedContext == {ResetVector, EmptyPc}

\* InitDevice until the context is saved.
InitDevice ==
    /\ driver' = GeneralDriver /\ chip' = DefaultChip(driver')
    /\ ctx' \in SavedContext
    /\ pc' = ResetVector /\ mode' = "jtag" /\ wdt' = "held"
    /\ UNCHANGED <<part, attached>>

\* No target, a blown fuse, a target GetDevice does not get hold of, or a
\* watchdog value that is not liked: the port stays as it is, with the target
\* reset by the entry sequence.
InitDeviceFails ==
    /\ \/ driver' \in {"430", CapturingDriver} /\ UNCHANGED <<chip, ctx>>
       \/ driver' = GeneralDriver /\ chip' = DefaultChip(driver') /\ ctx' \in SavedContext
    /\ pc' = ResetVector /\ mode' \in {"running", "jtag"} /\ wdt' \in {"reset", "held"}
    /\ UNCHANGED <<part, attached>>

\* ProbeId: the profile of the record found, or the default one of the driver.
ProbeId ==
    /\ chip' = IF part.record = NoRecord THEN DefaultChip(driver) ELSE part.record
    /\ UNCHANGED <<part, driver, attached, ctx, targetVars>>

\* Mutant: the switch misses its case for CPUX and falls into the default.
DriverOfWithoutX(c) ==
    IF c.arch = "CpuXv2" THEN IF c.issue_1377 THEN "Xv2_1377" ELSE "Xv2" ELSE "430"

\* The switch of StartMcu.
DriverOf(c) ==
    CASE c.arch = "CpuXv2" -> IF c.issue_1377 THEN "Xv2_1377" ELSE "Xv2"
      [] c.arch = "CpuX"   -> "430X"
      [] OTHER             -> "430"

\* StartMcu, and the end of Open.
StartMcu ==
    /\ driver' = DriverOf(chip)
    /\ attached' = TRUE
    /\ pc' = ResetVector /\ mode' = "jtag" /\ wdt' = "held"
    /\ UNCHANGED <<part, chip, ctx>>

\* ProbeId or StartMcu's reset fails: Close, which does not release what is not
\* attached.
IdentificationFails ==
    /\ mode' = "running" /\ wdt' \in {wdt, "reset"} /\ pc' = ResetVector
    /\ driver' = "430"
    /\ UNCHANGED <<part, chip, attached, ctx>>

-----------------------------------------------------------------------------
(* Release *)

\* The watchdog's saved value goes out as the byte CpuContext::wdt_, without
\* WDT_PASSWD.  Without it the register keeps its value, or the key violation
\* resets the device; the pc is written after that.
WatchdogUnlocked == {wdt, "reset"}

\* Mutant: the pc the CPU has is left alone.
ReleaseKeepingPc ==
    /\ pc' = pc
    /\ wdt' \in WatchdogUnlocked
    /\ mode' = "running"

\* ReleaseDevice: the cached context goes back into the CPU.
ReleaseDevice ==
    /\ pc' \in Written(pc, ctx)
    /\ wdt' \in WatchdogUnlocked
    /\ mode' = "running"

\* TapMcu::Close.  OnClose takes the probe off the target in any case.
CloseTap ==
    /\ IF attached THEN ReleaseDevice ELSE mode' = "running" /\ UNCHANGED <<pc, wdt>>
    /\ attached' = FALSE
    /\ driver' = "430"
    /\ UNCHANGED <<part, chip, ctx>>

-----------------------------------------------------------------------------
(* Registers *)

\* OnSetReg(0, v), of P and of the address of a c packet.
SetPcCached(v) ==
    /\ ctx' = v
    /\ pc' \in Written(pc, v)
    /\ UNCHANGED <<part, driver, chip, attached, mode, wdt>>

\* OnSetRegs, of G and of monitor set: the CPU only.
SetAllRegs(v) ==
    /\ pc' \in Written(pc, v)
    /\ UNCHANGED <<part, driver, chip, attached, ctx, mode, wdt>>

\* What OnGetReg(0) and OnGetRegs report.
ReportedPc == ctx

-----------------------------------------------------------------------------
(* Run, halt and reset *)

\* ExecutePOR: the cached context stays.
SoftReset ==
    /\ pc' = ResetVector /\ mode' = "jtag" /\ wdt' = "held"
    /\ UNCHANGED <<part, driver, chip, attached, ctx>>

\* SetPc of a c packet's address, if there is one, and ReleaseDevice.
RunTo(v) ==
    /\ ctx' = v
    /\ pc' \in Written(pc, v)
    /\ wdt' \in WatchdogUnlocked
    /\ mode' = "running"
    /\ UNCHANGED <<part, driver, chip, attached>>

\* OnRun; the breakpoints are those of module EemBreakpoints.
Run == ReleaseDevice /\ UNCHANGED <<part, mcuVars>>

\* OnHalt is the driver's GetDevice and no more: the legacy drivers take the
\* CPU, the Xv2 ones read the identification registers.
HaltSucceeds ==
    /\ mode' = IF IsXv2 THEN mode ELSE "jtag"
    /\ UNCHANGED <<part, mcuVars, pc, wdt>>

\* The CPU did not synchronize, or the JTAG id is wrong.
HaltFails ==
    /\ mode' \in IF IsXv2 THEN {mode} ELSE {mode, "jtag"}
    /\ UNCHANGED <<part, mcuVars, pc, wdt>>

-----------------------------------------------------------------------------
(* The target *)

\* The program goes on, and may program its watchdog.
ProgramRuns ==
    /\ mode = "running"
    /\ pc' \in Value
    /\ wdt' \in {wdt, "program"}
    /\ UNCHANGED <<part, mcuVars, mode>>

\* The EEM, which only a run arms, stops the program.
EemStops ==
    /\ mode = "running" /\ attached
    /\ mode' = "stopped"
    /\ UNCHANGED <<part, mcuVars, pc, wdt>>

\* Somebody connects another part, or powers this one again.
PartReplaced ==
    /\ part' \in Part
    /\ pc' = ResetVector /\ mode' = "running" /\ wdt' = "reset"
    /\ UNCHANGED mcuVars
=============================================================================
