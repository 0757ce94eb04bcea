---------------------------- MODULE ChipProfile ----------------------------
(***************************************************************************)
(* The chip database and the profile built from it: ChipProfile and the    *)
(* private classes of util/ChipProfile.cpp, with the tables and decoders   *)
(* of ChipInfoDB.h they use, as TapMcu calls them while a session opens    *)
(* (Open, InitDevice, ProbeId in drivers/TapMcu.cpp).                      *)
(*                                                                         *)
(* The tables are constants: MCChipProfile gives them the whole database.  *)
(* A field without a value is None where the tables have one of the codes  *)
(* kNoSubver ... kNoFuse. mem_ is the sequence of its valid entries:       *)
(* entries are filled from the first to the last and the sort keeps the    *)
(* invalid ones behind.  Attributes that are copied from the record and    *)
(* decide nothing here (clk_ctrl_, stop_fll_, the name's text) are left    *)
(* out.                                                                    *)
(***************************************************************************)
EXTENDS Absent, Integers, Sequences, FiniteSets, SequencesExt

CONSTANTS
    Devices,         \* msp430_mcus_set: the records, in order
    FirstX,          \* kMcuX_: the index of the first CPUX part
    FirstXv2,        \* kMcuXv2_: the index of the first CPUXv2 part
    DefaultDevice,   \* the record each driver's InitDefaultChip loads
    MemConfigs,      \* mem_config_blob: the configurations by name
    MemBlocks,       \* all_mem_blocks, with their layouts, by name
    MemoryKeys,      \* EnumMemoryKey: the classes of memory, in order
    MaxMemConfigs,   \* kMaxMemConfigs: entries of mem_
    EemTimers,       \* all_eem_timers: the records of all groups, in order
    CpuXVersions,    \* McuXs: the versions that are taken for CPUX parts
    PartCodes,       \* all_part_codes: parts and what they answer with
    Queries          \* identifications a target may answer with

\* The classes of memory.
Classes == {MemoryKeys[i] : i \in DOMAIN MemoryKeys}

ASSUME DevicesAssumption ==
    /\ Devices \in Seq([name : STRING, ver : Nat, sub : Nat \cup {None}, rev : Nat \cup {None},
                        cfg : Nat \cup {None}, fuse : Nat \cup {None},
                        fuseMask : Nat, fab : Nat \cup {None},
                        self : Nat \cup {None}, slau : Nat, eem : STRING,
                        tlvClash : BOOLEAN, config : DOMAIN MemConfigs,
                        timers : Nat \cup {None}, issue1377 : BOOLEAN])
    /\ FirstX \in Nat /\ FirstXv2 \in Nat
    /\ DefaultDevice \in [{"430", "430X", "430Xv2"} -> DOMAIN Devices]

\* Blocks are of the classes there are, configurations name blocks and a base
\* that is a configuration, and the two blocks of every part are what they are
\* called (EnumMemoryKey, all_mem_blocks, mem_config_blob).
ASSUME TablesAssumption ==
    /\ MemoryKeys \in Seq(STRING)
    /\ MemBlocks \in [DOMAIN MemBlocks ->
                         [key : Classes, access : STRING, start : Nat, size : Nat,
                          wrProt : Nat \cup {None}]]
    /\ MemConfigs \in [DOMAIN MemConfigs ->
                          [base : DOMAIN MemConfigs \cup {None},
                           blocks : Seq(DOMAIN MemBlocks)]]
    /\ {"Cpu_0", "Eem_0"} \subseteq DOMAIN MemBlocks
    /\ MemBlocks["Cpu_0"].key = "Cpu" /\ MemBlocks["Eem_0"].key = "Eem"

ASSUME QueriesAssumption ==
    Queries \subseteq [ver : Nat, sub : Nat, rev : Nat, cfg : Nat,
                       fuse : Nat, fab : Nat, self : Nat]

\* None is no configuration, no entry of a map, and no place of one.
ASSUME NoneAssumption ==
    /\ None \notin DOMAIN MemConfigs
    /\ None \notin [key : Classes, access : STRING, start : Nat, size : Nat,
                     mapped : BOOLEAN, wrProt : Nat \cup {None}]
    /\ None \notin [start : Nat, size : Nat, access : STRING]

\* The first and the last index of a set.
Least(S) == CHOOSE n \in S : \A k \in S : n <= k
Greatest(S) == CHOOSE n \in S : \A k \in S : k <= n

VARIABLES
    phase,   \* "closed", "opened", "default", "probed": how far TapMcu is
    driver,  \* traits_: the class of the driver
    query,   \* the DieInfo the driver read, or None
    chip     \* chip_info_

vars == <<phase, driver, query, chip>>
-----------------------------------------------------------------------------
(* The search for the record that fits an identification best. *)

Fields == {"sub", "self", "rev", "cfg", "fab", "fuse"}

\* The fields a record has a value for.
Named(d) == {f \in Fields : d[f] # None}

\* The fields of a set count twice, the sub-version and the configuration, or
\* once.
Points(S) ==
    LET In(f) == IF f \in S THEN 1 ELSE 0
    IN 2 * In("sub") + In("self") + In("rev") + 2 * In("cfg") + In("fab") + In("fuse")

\* The bits of a field that are compared: seven of the configuration, and of
\* the fuses those of the record's mask, which is a power of 2 less 1.
Compared(d, f, value) ==
    CASE f = "cfg"  -> value % 128
      [] f = "fuse" -> value % (d.fuseMask + 1)
      [] OTHER      -> value

\* Mutant: the configuration is left out, although it counts.
AgreeingNoCfg(d, q) ==
    {f \in Named(d) \ {"cfg"} : Compared(d, f, q[f]) = Compared(d, f, d[f])}

\* The named fields the target agrees with.
Agreeing(d, q) == {f \in Named(d) : Compared(d, f, q[f]) = Compared(d, f, d[f])}

\* Mutant: the fields of the record count once, those that agree with weights.
MatchUnweighted(d, q) ==
    IF q.ver # d.ver THEN 0
    ELSE IF Named(d) = {} THEN 1
    ELSE (3 * Points(Agreeing(d, q))) \div Cardinality(Named(d)) + 1

\* kNoMatch is 0, kLevel0 to kFull are 1 to 4.  A record that names no field
\* divides by zero, which the Cortex-M's SDIV answers with 0: kLevel0.
Match(d, q) ==
    IF q.ver # d.ver THEN 0
    ELSE IF Named(d) = {} THEN 1
    ELSE (3 * Points(Agreeing(d, q))) \div Points(Named(d)) + 1

\* The last of the records that match best, or 0: kMcu_None.  (matchlevel keeps
\* the last record of each level; only records of the version have one.)
Find(q) ==
    LET of == {i \in DOMAIN Devices : Devices[i].ver = q.ver}
        best == {i \in of : \A j \in of : Match(Devices[j], q) <= Match(Devices[i], q)}
    IN IF of = {} THEN 0 ELSE Greatest(best)
-----------------------------------------------------------------------------
(* The memory map: a configuration adds its blocks to those of its base. *)

Key(k) == CHOOSE i \in DOMAIN MemoryKeys : MemoryKeys[i] = k

\* The blocks of a configuration in the order they are filled in, base first.
ConfigBlocks[c \in DOMAIN MemConfigs] ==
    IF MemConfigs[c].base = None THEN MemConfigs[c].blocks
    ELSE ConfigBlocks[MemConfigs[c].base] \o MemConfigs[c].blocks

\* How many bases a configuration has, one below the other.
Depth[c \in DOMAIN MemConfigs] ==
    IF MemConfigs[c].base = None THEN 0 ELSE Depth[MemConfigs[c].base] + 1

\* The chain of bases ends: FillMemory comes back.
ASSUME BasesAssumption ==
    /\ IsFiniteSet(DOMAIN MemConfigs)
    /\ \A c \in DOMAIN MemConfigs :
          /\ Depth[c] \in 0 .. Cardinality(DOMAIN MemConfigs)
          /\ MemConfigs[c].base # None => Depth[MemConfigs[c].base] < Depth[c]

\* The classes of memory a part has.
ClassesOf(c) ==
    {"Cpu", "Eem"} \cup {MemBlocks[ConfigBlocks[c][i]].key : i \in DOMAIN ConfigBlocks[c]}

\* mem_ has room for those of every part.
ASSUME MaxMemConfigsAssumption ==
    /\ MaxMemConfigs \in Nat
    /\ \A i \in DOMAIN Devices :
          Cardinality(ClassesOf(Devices[i].config)) <= MaxMemConfigs

FramAccess == {"kAccFramMemoryAccessBase", "kAccFramMemoryAccessFRx9"}
TimingAccess == {"kAccFlashTimingGen1", "kAccFlashTimingGen2a", "kAccFlashTimingGen2b"}

\* Mutant: the search for an entry stops at the first free one.
FillBlockNew(o, block) ==
    [o EXCEPT
       !.mem = Append(@, [key |-> block.key, access |-> block.access,
                          start |-> block.start, size |-> block.size,
                          mapped |-> block.key \notin {"Cpu", "Eem"},
                          wrProt |-> block.wrProt]),
       !.isFram = @ \/ block.access \in FramAccess,
       !.flashTimings = IF block.access \in TimingAccess THEN block.access ELSE @]

\* The profile after MemoryBlock_::Fill: the block takes the entry of its
\* class, or the first free one: TypeOK says there is one, where the code has an
\* assert(false).  The write protection of an entry stays when the block has
\* none of its own.
FillBlock(o, block) ==
    LET mem == o.mem
        same == {i \in DOMAIN mem : mem[i].key = block.key}
        entry == IF same = {} THEN Len(mem) + 1 ELSE Least(same)
        kept == IF same = {} THEN None ELSE mem[entry].wrProt
        filled == [key |-> block.key, access |-> block.access,
                   start |-> block.start, size |-> block.size,
                   mapped |-> block.key \notin {"Cpu", "Eem"},
                   wrProt |-> IF block.wrProt = None THEN kept ELSE block.wrProt]
    IN [o EXCEPT
          !.mem = IF same = {} THEN Append(mem, filled) ELSE [mem EXCEPT ![entry] = filled],
          !.isFram = @ \/ block.access \in FramAccess,
          !.flashTimings = IF block.access \in TimingAccess THEN block.access ELSE @]

\* The profile after the blocks of a list are filled in, the first one first.
FillBlocks(o, blocks) ==
    LET after[n \in 0 .. Len(blocks)] ==
            IF n = 0 THEN o ELSE FillBlock(after[n - 1], MemBlocks[blocks[n]])
    IN after[Len(blocks)]

\* Mutant: the base is not resolved.
FillMemoryOwn(o, config) == FillBlocks(o, MemConfigs[config].blocks)

\* FillMemory, after the entries every part has.
FillMemory(o, config) == FillBlocks(o, ConfigBlocks[config])

\* The order of qsort with cmp.
Before(l, r) ==
    \/ l.start < r.start
    \/ l.start = r.start /\ l.size < r.size
    \/ l.start = r.start /\ l.size = r.size /\ Key(l.key) > Key(r.key)

\* The entries in that order: an entry's place is behind those that are before it.
Sorted(mem) ==
    LET rank == [i \in DOMAIN mem |->
                    Cardinality({j \in DOMAIN mem : Before(mem[j], mem[i])}) + 1]
    IN [n \in DOMAIN mem |-> mem[CHOOSE i \in DOMAIN mem : rank[i] = n]]
-----------------------------------------------------------------------------
(* The codes of the EEM's clock control: records in groups, each beginning  *)
(* with a record that has group_start_.                                     *)

GroupStarts == {i \in DOMAIN EemTimers : EemTimers[i].first}

\* The start of the n-th group, n = 1, 2, ...
GroupStart(n) ==
    CHOOSE i \in GroupStarts : Cardinality({j \in GroupStarts : j <= i}) = n

\* Records decoded from p on: p itself, and those up to the next start.
GroupFrom(p) == p .. Least({i \in GroupStarts : i > p}) - 1

\* DecodeEemTimer.  The scan ends behind the record it counted: for group 0 it
\* counts none, and for the others it ends on the second record of the group
\* before.
DecodeEemTimer(g) ==
    LET p == IF g = 0 THEN 1 ELSE GroupStart(g) + 1
        taken == IF g = None THEN {} ELSE GroupFrom(p)   \* kEemTimer_None
    IN [codes |-> {<<EemTimers[i].index, EemTimers[i].value>> : i \in taken},
        clkCtrl |-> {EemTimers[i].index : i \in taken \cap GroupStarts}]
-----------------------------------------------------------------------------
(* The profile. *)

\* The families that matter to CompleteLoad, by their EnumSlau.
kSLAU056 == 1
kSLAU144 == 2

Arch(i) == IF i < FirstX THEN "Cpu" ELSE IF i < FirstXv2 THEN "CpuX" ELSE "CpuXv2"

NumBreakpoints(eem) ==
    CASE eem \in {"kEmexLow", "kEmexExtraSmall5xx"} -> 2
      [] eem \in {"kEmexMedium", "kEmexSmall5xx"} -> 3
      [] eem = "kEmexMedium5xx" -> 5
      [] OTHER -> 8

\* ChipProfile::Init: all zero.
ClearedProfile ==
    [mcu |-> 0, arch |-> "Cpu", numBreakpoints |-> 0, hasLocka |-> FALSE,
     onePassErase |-> FALSE, issue1377 |-> FALSE, isFram |-> FALSE, flashTimings |-> None,
     mem |-> <<>>, timers |-> DecodeEemTimer(None)]

\* Device_::Fill and CompleteLoad on what is there before.
FillDevice(o, i) ==
    LET d == Devices[i]
        standard == FillBlock(FillBlock(o, MemBlocks["Cpu_0"]), MemBlocks["Eem_0"])
        map == FillMemory(standard, d.config)
    IN [mcu |-> i,
        arch |-> Arch(i),
        numBreakpoints |-> NumBreakpoints(d.eem),
        hasLocka |-> d.tlvClash \/ d.slau >= kSLAU144,
        onePassErase |-> d.slau <= kSLAU056,
        issue1377 |-> d.issue1377,
        isFram |-> map.isFram,
        flashTimings |-> map.flashTimings,
        mem |-> Sorted(map.mem),
        timers |-> DecodeEemTimer(d.timers)]

\* Mutant: the flag of the erratum is merged, as isFram is, and not cleared.
LoadRecordMerging(old, i) ==
    [FillDevice(ClearedProfile, i) EXCEPT !.issue1377 = @ \/ old.issue1377]

\* Load with the record found, and the DefaultMcu functions.  Init clears what
\* an earlier chip left.
LoadRecord(old, i) == FillDevice(ClearedProfile, i)
-----------------------------------------------------------------------------
(* Questions to the profile. *)

\* Mutant: the end of a block belongs to it.
FindMemByAddressLong(a) ==
    LET mem == chip.mem
        holding == {i \in DOMAIN mem : /\ mem[i].mapped
                                       /\ mem[i].start <= a
                                       /\ a <= mem[i].start + mem[i].size}
    IN IF holding = {} THEN None ELSE mem[Least(holding)]

\* The first entry on the bus that holds the address, or None.
FindMemByAddress(a) ==
    LET mem == chip.mem
        holding == {i \in DOMAIN mem : /\ mem[i].mapped
                                       /\ mem[i].start <= a
                                       /\ a < mem[i].start + mem[i].size}
    IN IF holding = {} THEN None ELSE mem[Least(holding)]

\* The entry of a class of memory, or what the profile has in its place.
MemOfClass(k, default) ==
    LET of == {i \in DOMAIN chip.mem : chip.mem[i].key = k}
    IN IF of = {} THEN default ELSE chip.mem[Least(of)]

\* The RAM a funclet is loaded to.
DefaultRam == [key |-> "Ram", access |-> "kAccNone", start |-> 7168, size |-> 256,
               mapped |-> TRUE, wrProt |-> None]
GetRamMem == MemOfClass("Ram", MemOfClass("Ram2", DefaultRam))

\* Mutant: the scan leaves out the last version.
IsCpuX_IDShort(id) == id \in CpuXVersions \ {Greatest(CpuXVersions)}

\* What InitDevice has before the record is known.
IsCpuX_ID(id) == id \in CpuXVersions
-----------------------------------------------------------------------------
(* What TapMcu does with the profile while a session opens and closes. *)

\* The switch of StartMcu, with HasIssue1377.
DriverOf(o) ==
    CASE o.arch = "CpuXv2" -> IF o.issue1377 THEN "430Xv2_1377" ELSE "430Xv2"
      [] o.arch = "CpuX"   -> "430X"
      [] o.arch = "Cpu"    -> "430"

\* g_TapMcu is static storage.
Init ==
    /\ phase = "closed"
    /\ driver = "430"
    /\ query = None
    /\ chip = ClearedProfile

Open ==
    /\ phase = "closed"
    /\ phase' = "opened"
    /\ driver' = "430"
    /\ query' = None
    /\ chip' = LoadRecord(chip, DefaultDevice["430"])

\* InitDevice up to the power-on reset: the driver depends on what the target
\* answers, and so does the profile the reset is done with.  Whether the JTAG id
\* is one of an Xv2 part is the target's to say.
InitDevice ==
    /\ phase = "opened"
    /\ phase' = "default"
    /\ query' \in Queries
    /\ \E isXv2 \in BOOLEAN :
          driver' = IF isXv2 THEN "430Xv2"
                    ELSE IF IsCpuX_ID(query'.ver) THEN "430X" ELSE "430"
    /\ chip' = LoadRecord(chip, DefaultDevice[driver'])

\* ProbeId, and StartMcu's choice of the driver, of the profile as it is now: the
\* record's or the default one.
ProbeId ==
    /\ phase = "default"
    /\ phase' = "probed"
    /\ LET found == Find(query)
       IN chip' = LoadRecord(chip, IF found = 0 THEN DefaultDevice[driver] ELSE found)
    /\ driver' = DriverOf(chip')
    /\ UNCHANGED query

\* Close, also after a step of InitDevice that failed.
Close ==
    /\ phase # "closed"
    /\ phase' = "closed"
    /\ driver' = "430"
    /\ UNCHANGED <<query, chip>>

Next == Open \/ InitDevice \/ ProbeId \/ Close

Spec == Init /\ [][Next]_vars
-----------------------------------------------------------------------------
(* Properties. *)

\* The profile keeps its shape: no class of memory has two entries, and the
\* entries there are hold the largest of the parts.
TypeOK ==
    /\ phase \in {"closed", "opened", "default", "probed"}
    /\ driver \in {"430", "430X", "430Xv2", "430Xv2_1377"}
    /\ query # None => DOMAIN query = Fields \cup {"ver"}
    /\ chip.mcu \in 0 .. Len(Devices)
    /\ Len(chip.mem) <= MaxMemConfigs
    /\ \A i, j \in DOMAIN chip.mem : i # j => chip.mem[i].key # chip.mem[j].key

MatchesFully(i) ==
    /\ Devices[i].ver = query.ver
    /\ Named(Devices[i]) # {}
    /\ Agreeing(Devices[i], query) = Named(Devices[i])

\* If any record agrees with the target in all the fields it names, the
\* profile is of such a record, whatever stands before and after it in the
\* table: a part is not taken for a relative of its version (Find and Match).
FullMatchWins ==
    phase = "probed" =>
        ((\E i \in DOMAIN Devices : MatchesFully(i)) => MatchesFully(chip.mcu))

\* Records that ask for the same answer.
Twins(i, j) ==
    \A f \in Fields \cup {"ver", "fuseMask"} : Devices[i][f] = Devices[j][f]

\* A part that answers with its own code gets its own profile, or that of a part
\* the table does not tell from it: what TestDB looks for, for every part of
\* all_part_codes and not only in a profile no chip was in before.
FoundByItsCode ==
    phase = "probed" =>
        \A n \in DOMAIN PartCodes :
            query = PartCodes[n].code =>
                \E i \in DOMAIN Devices : /\ Devices[i].name = PartCodes[n].part
                                          /\ Twins(i, chip.mcu)

\* What the blocks of a class have for a value: the last one of a configuration
\* that has any or, without one, that of its base; None when there is none
\* anywhere.
Nearest(value, k) ==
    LET own(c) == {i \in DOMAIN MemConfigs[c].blocks :
                      /\ MemBlocks[MemConfigs[c].blocks[i]].key = k
                      /\ value[MemConfigs[c].blocks[i]] # None}
        nearest[c \in DOMAIN MemConfigs] ==
            IF own(c) # {} THEN value[MemConfigs[c].blocks[Greatest(own(c))]]
            ELSE IF MemConfigs[c].base # None THEN nearest[MemConfigs[c].base]
            ELSE None
    IN nearest

Place(b) == [start |-> b.start, size |-> b.size, access |-> b.access]
Places == [n \in DOMAIN MemBlocks |-> Place(MemBlocks[n])]
Protections == [n \in DOMAIN MemBlocks |-> MemBlocks[n].wrProt]

\* The memory map of a part has one entry for each class of memory its
\* configurations name, with the place of the most derived one, the write
\* protection of the most derived one that has any, and nothing of a chip
\* that was loaded before (Device_::FillMemory, MemoryBlock_::Fill).
MapIsOverride ==
    chip.mcu # 0 =>
        LET c == Devices[chip.mcu].config
        IN \A k \in Classes \ {"Cpu", "Eem"} :
              LET entry == {j \in DOMAIN chip.mem : chip.mem[j].key = k}
              IN IF entry = {} THEN Nearest(Places, k)[c] = None
                 ELSE \A j \in entry :
                        /\ Place(chip.mem[j]) = Nearest(Places, k)[c]
                        /\ chip.mem[j].wrProt = Nearest(Protections, k)[c]

\* Both sides of both borders of every block: the addresses between two borders
\* are alike.
Borders ==
    UNION {{m.start - 1, m.start, m.start + m.size - 1, m.start + m.size} : m \in Range(chip.mem)}

Holds(m, a) == m.mapped /\ a \in m.start .. m.start + m.size - 1

\* An address is looked up in the block that holds it, in the lowest where
\* blocks overlap and the smaller of two that begin together; an address no
\* block holds, or only the registers of the CPU and the EEM, is in none
\* (FindMemByAddress on the entries as CompleteLoad sorts them).
LookupExact ==
    \A a \in Borders :
        LET b == FindMemByAddress(a)
            holding == {i \in DOMAIN chip.mem : Holds(chip.mem[i], a)}
        IN IF b = None THEN holding = {}
           ELSE /\ Holds(b, a)
                /\ \A i \in holding :
                      \/ b.start < chip.mem[i].start
                      \/ b.start = chip.mem[i].start /\ b.size <= chip.mem[i].size

\* The RAM that a flash command saves, loads with a funclet, lets the CPU run in
\* and puts back is RAM of the part, and the block that answers when the debugger
\* reads or writes there (GetRamMem looks up by class, FindMemByAddress by address,
\* in maps with up to three kinds of RAM and blocks that overlap).
FuncletRamIsRam ==
    chip.arch = "CpuXv2" =>
        \A a \in {GetRamMem.start, GetRamMem.start + GetRamMem.size - 1} :
            FindMemByAddress(a) = GetRamMem

\* TapDev430Xv2_1377 derives from TapDev430Xv2 and overrides GetReg only: what it
\* captures, resets, runs and releases a part with is that class's.
ControlledBy(d) == IF d = "430Xv2_1377" THEN "430Xv2" ELSE d

\* The registers of a part that answers with its own code are read around the
\* erratum 1377 exactly when its own row says so, whichever of the records that fit
\* its answer was taken.
WorkaroundAsItsRow(q, d) ==
    \A n \in DOMAIN PartCodes, i \in DOMAIN Devices :
        q = PartCodes[n].code /\ Devices[i].name = PartCodes[n].part =>
            (d = "430Xv2_1377" <=> Arch(i) = "CpuXv2" /\ Devices[i].issue1377)

\* The code that takes the part over and resets it, before its record is known, is
\* that of the driver the record asks for: a part whose JTAG id is right about its
\* CPU never changes hands with the CPU already captured, but for the reading of
\* registers, which changes for the parts with the erratum 1377 and no others
\* (IsCpuX_ID in InitDevice and the switch of StartMcu look into two tables).
DriverFitsThePart ==
    [][phase = "default" /\ phase' = "probed" =>
          /\ (driver = "430Xv2" <=> chip'.arch = "CpuXv2") => ControlledBy(driver') = driver
          /\ WorkaroundAsItsRow(query', driver')]_vars

\* The codes of the clock control are those of the group the record names:
\* "Scan up to the start of the desired group" (DecodeEemTimer).
TimersOfTheGroup ==
    (chip.mcu # 0 /\ Devices[chip.mcu].timers # None) =>
        LET start == GroupStart(Devices[chip.mcu].timers + 1)
        IN chip.timers.codes =
             {<<EemTimers[i].index, EemTimers[i].value>> : i \in GroupFrom(start)}
=============================================================================
