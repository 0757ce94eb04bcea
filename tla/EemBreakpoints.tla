--------------------------- MODULE EemBreakpoints ---------------------------
(***************************************************************************)
(* The breakpoint table at work in a debug session: the z and Z packets    *)
(* change the table while the target is stopped, a run writes it into the  *)
(* target's EEM (TapDev430::UpdateEemBreakpoints and the override of       *)
(* TapDev430X, which the Xv2 driver inherits), and the session polls the   *)
(* target until it stops.                                                  *)
(*                                                                         *)
(* The trigger blocks and BREAKREACT are registers of the target.  Nothing *)
(* in the firmware resets them, so they outlive a session.                 *)
(***************************************************************************)
EXTENDS Breakpoints

VARIABLES
    trigger,      \* the trigger blocks MB0 .. of the EEM
    breakReact,   \* the blocks BREAKREACT lets stop the CPU
    stage         \* "closed", "idle" (between packets) or "polling" (in Gdb::Run)

eemVars == <<trigger, breakReact>>
bkptVars == <<breakpoints, trigger, breakReact, stage>>

\* What a trigger block waits for.  MBTRIGxCTL names the bus it compares (MAB, the
\* addresses, or MDB, the data) and the kind of bus cycle, MBTRIGxVAL the value.
Trigger == [bus : {"MAB", "MDB"}, cycle : {"fetch", "data"}, value : Address]

\* MBTRIGxCTL is MAB + TRIG_0 + CMP_EQUAL, an instruction fetched from the address,
\* whatever the type of the entry and its datafetch flag are.
ProgrammedTrigger(entry) == [bus |-> "MAB", cycle |-> "fetch", value |-> entry.addr]

\* The trigger blocks are as an earlier session of this firmware left them, or as
\* a reset does: MAB, TRIG_0 and CMP_EQUAL are all zero.
EemInit ==
    /\ breakpoints = ClearedTable
    /\ trigger \in [HwSlot -> {ProgrammedTrigger(entry) : entry \in Entry}]
    /\ breakReact \in SUBSET HwSlot
    /\ stage = "closed"

-----------------------------------------------------------------------------
\* The table is cleared by TapMcu::Open and again by TapMcu::Close.
Open ==
    /\ stage = "closed"
    /\ stage' = "idle"
    /\ breakpoints' = ClearedTable
    /\ UNCHANGED eemVars

Close ==
    /\ stage = "idle"
    /\ stage' = "closed"
    /\ breakpoints' = ClearedTable
    /\ UNCHANGED eemVars

\* Gdb::SetBreakpoint answers OK to Z, or E05 when the entry is refused ...
InsertAccepted(a, t) ==
    /\ stage = "idle"
    /\ AddMatched(a, t) \/ AddPopulated(a, t)
    /\ UNCHANGED <<eemVars, stage>>

InsertRefused(a, t) ==
    /\ stage = "idle"
    /\ AddRefused(a, t)
    /\ UNCHANGED <<eemVars, stage>>

\* ... and OK to z, whether or not there was such a breakpoint.
Delete(a, t) ==
    /\ stage = "idle"
    /\ RemoveBreakpoint(a, t)
    /\ UNCHANGED <<eemVars, stage>>

-----------------------------------------------------------------------------
(* UpdateEemBreakpoints.  BREAKREACT is written with two bare DR shifts.   *)
(* They reach it only when IR_EMEX_DATA_EXCHANGE is the JTAG instruction,  *)
(* and at the end of the loop that is so when a trigger block was          *)
(* programmed: every other driver call leaves another instruction behind.  *)

\* Entries the loop over the trigger blocks programs, given the prepared table.
Outdated(table) == {i \in HwSlot : table[i].enabled /\ table[i].dirty}

DisableAll ==
    /\ EemMask = {}
    /\ breakpoints' = PreparedTable
    /\ breakReact' = {}
    /\ UNCHANGED trigger

ProgramTriggers ==
    LET stale == Outdated(PreparedTable) IN
    /\ EemMask # {}
    /\ breakpoints' = [i \in Slot |-> IF i \in stale
                                      THEN [PreparedTable[i] EXCEPT !.dirty = FALSE]
                                      ELSE PreparedTable[i]]
    /\ trigger' = [i \in HwSlot |-> IF i \in stale
                                    THEN ProgrammedTrigger(PreparedTable[i])
                                    ELSE trigger[i]]
    /\ breakReact' = IF stale # {} THEN EemMask ELSE breakReact

UpdateEemBreakpoints == DisableAll \/ ProgramTriggers

\* The c packet: TapMcu::OnRun updates the EEM and releases the CPU.
RunProgram ==
    /\ stage = "idle"
    /\ stage' = "polling"
    /\ UpdateEemBreakpoints

\* The poll loop ends by a stop or by the interrupt character of the debugger;
\* TapMcu::Halt succeeds or not, and the session waits for a packet again.
StopProgram ==
    /\ stage = "polling"
    /\ stage' = "idle"
    /\ UNCHANGED <<breakpoints, eemVars>>

EemNext ==
    \/ Open \/ Close \/ RunProgram \/ StopProgram
    \/ \E a \in Address, t \in BpType :
          InsertAccepted(a, t) \/ InsertRefused(a, t) \/ Delete(a, t)

EemSpec == EemInit /\ [][EemNext]_bkptVars

-----------------------------------------------------------------------------
(* Properties.                                                             *)

\* The variables range over what the code declares.
EemTypeOK ==
    /\ breakpoints \in [Slot -> Entry]
    /\ trigger \in [HwSlot -> Trigger]
    /\ breakReact \in SUBSET HwSlot
    /\ stage \in {"closed", "idle", "polling"}

\* Add never keeps two entries for one request, so Remove, which disables the
\* first match only, really takes the breakpoint away.
NoDuplicates ==
    \A i, j \in UserSlot :
        Enabled(i) /\ Enabled(j) /\ Request(i) = Request(j) => i = j

\* A watchpoint the debugger was told is set has a trigger block.
WatchesInHw == \A i \in UserSlot : Enabled(i) /\ breakpoints[i].type # "break" => i \in HwSlot

\* An entry is clean only when its trigger block is written for it and BREAKREACT
\* selects the block: UpdateEemBreakpoints skips clean entries, so this is what
\* makes skipping them right over any sequence of commands.
CleanIsWritten ==
    \A i \in HwSlot : Enabled(i) /\ ~breakpoints[i].dirty =>
        /\ i \in breakReact
        /\ trigger[i] = ProgrammedTrigger(breakpoints[i])

\* Block i stops the CPU when a cycle of this kind has the value on the bus.
StopsAt(i, bus, cycle, value) ==
    /\ i \in breakReact
    /\ trigger[i] = [bus |-> bus, cycle |-> cycle, value |-> value]

HwEntry(type) == {i \in UserSlot \cap HwSlot : Enabled(i) /\ breakpoints[i].type = type}

\* While the target runs, the fetch of an instruction from the address of any
\* breakpoint the table holds with a trigger block stops it: whatever was inserted,
\* deleted, reused, run and left by earlier sessions before, and although a clean
\* entry is not written and a run without dirty entries does not reach BREAKREACT.
\* A watchpoint is not among them, its block waits for a fetch, too; nor is a
\* breakpoint without a block, for which block 0 waits for a fetch from 0x4343.
NoLostBreakpoint ==
    stage = "polling" =>
        \A i \in HwEntry("break") : StopsAt(i, "MAB", "fetch", breakpoints[i].addr)

\* An enabled entry keeps its request until it is disabled: no insertion takes
\* an entry that is in use.
SlotStable ==
    [][\A i \in UserSlot : Enabled(i) /\ Enabled(i)' => Request(i)' = Request(i)]_bkptVars

\* A software breakpoint is a last resort: a new entry has no trigger block
\* only when every trigger block for the user is taken.
HwFirst ==
    [][\A i \in UserSlot \ HwSlot : ~Enabled(i) /\ Enabled(i)' =>
          \A j \in UserSlot \cap HwSlot : Enabled(j)]_bkptVars

\* What the debugger sees is a set of breakpoints.
Requested == {Request(i) : i \in {j \in UserSlot : Enabled(j)}}

Abstract == INSTANCE BreakpointSet WITH inserted <- Requested, phase <- stage

RefinesBreakpointSet == Abstract!Spec

\* A packet answered with OK did to that set what it asked for, and a refused one
\* did nothing: Set returns no more than the number of an entry.
AnswersAreTrue ==
    [][\A a \in Address, t \in BpType :
          /\ InsertAccepted(a, t) => Requested' = Requested \cup {<<a, t>>}
          /\ InsertRefused(a, t)  => Requested' = Requested
          /\ Delete(a, t)         => Requested' = Requested \ {<<a, t>>}]_bkptVars

-----------------------------------------------------------------------------
(* What the source says and the code does not keep.                        *)

\* Breakpoints.cpp:182 "Mask to be programmed into BREAKREACT": while the target
\* runs no other trigger block can stop it.
OnlyEnabledArmed == stage = "polling" => breakReact \subseteq EemMask
=============================================================================
