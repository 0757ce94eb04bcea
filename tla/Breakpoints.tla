---------------------------- MODULE Breakpoints ----------------------------
(***************************************************************************)
(* The breakpoint table of Glossy MSP430 (class Breakpoints of             *)
(* util/Breakpoints.h and util/Breakpoints.cpp).                           *)
(*                                                                         *)
(* The table has MaxBreakpoints entries.  Entry 0 is reserved for the      *)
(* software breakpoint instruction.  The entries below NumHw have a trigger *)
(* block of the target's Embedded Emulation Module (EEM) behind them, the  *)
(* others are called software breakpoints.                                 *)
(*                                                                         *)
(* Breakpoints::sw_bkp_ is set by the constructor and never cleared, so    *)
(* GetCount() is always the size of the table and every loop starts at 1.  *)
(***************************************************************************)
EXTENDS Naturals

CONSTANTS
    MaxBreakpoints,   \* kMaxBreakpoints
    NumHw,            \* ChipProfile::num_breakpoints_
    Address,          \* the addresses a debugger may name
    ZeroAddress,      \* the address of an entry cleared by memset
    SwBkpInstr,       \* kSwBkpInstr (0x4343) read as an address
    WatchType         \* the members of DeviceBpType besides kBpTypeBreak

\* num_breakpoints_ is 2, 3, 5 or 8 and the table has 20 entries.
ASSUME TableAssumption ==
    /\ MaxBreakpoints \in Nat
    /\ NumHw \in Nat
    /\ 1 < NumHw /\ NumHw < MaxBreakpoints

ASSUME AddressAssumption == {ZeroAddress, SwBkpInstr} \subseteq Address

ASSUME WatchAssumption == WatchType \subseteq {"watch", "read", "write"}

VARIABLE breakpoints  \* Breakpoints::breakpoints_

Slot     == 0 .. MaxBreakpoints - 1
HwSlot   == 0 .. NumHw - 1
UserSlot == 1 .. MaxBreakpoints - 1

BpType == {"break"} \cup WatchType

Entry == [type      : BpType,
          enabled   : BOOLEAN,
          dirty     : BOOLEAN,
          datafetch : BOOLEAN,
          is_sw     : BOOLEAN,
          addr      : Address]

\* Every entry after Breakpoints::ctor(): memset to zero.
ClearedEntry == [type      |-> "break",
                 enabled   |-> FALSE,
                 dirty     |-> FALSE,
                 datafetch |-> FALSE,
                 is_sw     |-> FALSE,
                 addr      |-> ZeroAddress]

ClearedTable == [i \in Slot |-> ClearedEntry]

Enabled(i) == breakpoints[i].enabled

\* What an enabled entry was asked for.
Request(i) == <<breakpoints[i].addr, breakpoints[i].type>>

Matching(addr, type) == {i \in UserSlot : Enabled(i) /\ Request(i) = <<addr, type>>}

\* Mutant: an entry that was written to the target counts as free.
FreeWhenClean == {i \in UserSlot : ~breakpoints[i].dirty}

Free == {i \in UserSlot : ~Enabled(i)}

\* The entry a loop that counts upwards stops at.
IsFirst(i, S) == i \in S /\ \A j \in S : i <= j

\* Mutant: an entry that had the address before is not marked for writing.
NewEntryIfMoved(i, a, t) == [type      |-> t,
                             enabled   |-> TRUE,
                             dirty     |-> breakpoints[i].addr # a,
                             datafetch |-> FALSE,
                             is_sw     |-> i < NumHw,
                             addr      |-> a]

NewEntry(i, a, t) == [type      |-> t,
                      enabled   |-> TRUE,
                      dirty     |-> TRUE,
                      datafetch |-> FALSE,
                      is_sw     |-> i < NumHw,
                      addr      |-> a]

-----------------------------------------------------------------------------
(* Breakpoints::Add(): the entry that already matches is returned as it is, *)
(* or the first free one is filled; a watchpoint needs a trigger block.     *)

AddMatched(addr, type) ==
    /\ Matching(addr, type) # {}
    /\ UNCHANGED breakpoints

Usable(sel, type) == type = "break" \/ sel < NumHw

AddPopulated(addr, type) ==
    /\ Matching(addr, type) = {}
    /\ \E sel \in UserSlot :
          /\ IsFirst(sel, Free)
          /\ Usable(sel, type)
          /\ breakpoints' = [breakpoints EXCEPT ![sel] = NewEntry(sel, addr, type)]

\* kInvalidBkpt: the table is full, or the first free entry has no trigger block.
AddRefused(addr, type) ==
    /\ Matching(addr, type) = {}
    /\ \A sel \in UserSlot : ~(IsFirst(sel, Free) /\ Usable(sel, type))
    /\ UNCHANGED breakpoints

-----------------------------------------------------------------------------
(* Breakpoints::Remove(): disables the first matching entry, if any.        *)

\* Mutant: the type is not compared.
RemoveMatchedAnyType(addr, type) ==
    \E i \in UserSlot :
        /\ IsFirst(i, {j \in UserSlot : Enabled(j) /\ breakpoints[j].addr = addr})
        /\ breakpoints' = [breakpoints EXCEPT ![i].enabled = FALSE]

RemoveMatched(addr, type) ==
    \E i \in UserSlot :
        /\ IsFirst(i, Matching(addr, type))
        /\ breakpoints' = [breakpoints EXCEPT ![i].enabled = FALSE]

RemoveNone(addr, type) ==
    /\ Matching(addr, type) = {}
    /\ UNCHANGED breakpoints

RemoveBreakpoint(addr, type) == RemoveMatched(addr, type) \/ RemoveNone(addr, type)

-----------------------------------------------------------------------------
(* Breakpoints::PrepareEemSetup().                                          *)

\* swbp_dirty, and swbp_set with the dirty flag off.
SwTrigger(dirty) == [type      |-> "break",
                     enabled   |-> TRUE,
                     dirty     |-> dirty,
                     datafetch |-> TRUE,
                     is_sw     |-> FALSE,
                     addr      |-> SwBkpInstr]

UsesSw == \E i \in UserSlot \ HwSlot : Enabled(i)

\* Mutant: software entries get a bit of the mask, too.
EemMaskUnbounded == {i \in UserSlot : Enabled(i)} \cup (IF UsesSw THEN {0} ELSE {})

\* The value returned for BREAKREACT, as a set of trigger blocks.
EemMask == {i \in UserSlot \cap HwSlot : Enabled(i)} \cup (IF UsesSw THEN {0} ELSE {})

\* Entry 0 follows the need for software breakpoints.
PreparedTable ==
    IF ~UsesSw
    THEN [breakpoints EXCEPT ![0].enabled = FALSE]
    ELSE IF breakpoints[0] = SwTrigger(FALSE)
         THEN breakpoints
         ELSE [breakpoints EXCEPT ![0] = SwTrigger(TRUE)]
=============================================================================
