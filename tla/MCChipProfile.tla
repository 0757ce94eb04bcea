--------------------------- MODULE MCChipProfile ---------------------------
(* The whole database as the tables, and as the targets every part of       *)
(* all_part_codes, targets of every shared version that agree with a record *)
(* in some fields only, and one of no known version.                        *)
EXTENDS ChipProfile, ChipInfoDB

\* The tables, named here for the configurations.
MCDevices    == LET table == msp430_mcus_set IN table
MCMemConfigs == LET table == mem_config_blob IN table
MCMemBlocks  == LET table == all_mem_blocks IN table
MCEemTimers  == LET table == all_eem_timers IN table
MCPartCodes  == LET table == all_part_codes IN table

\* DefaultMcu, DefaultMcuX and DefaultMcuXv2.
MCDefaultDevice ==
    ("430" :> Mcu("MSP430F133") @@ "430X" :> Mcu("MSP430F2416")
     @@ "430Xv2" :> Mcu("MSP430F5418A"))

\* The values of a field the records of a version tell apart, with bits the
\* comparison leaves out, and one no record has; 85 where none names it, as
\* the drivers fill in.
ValuesOf(records, f) ==
    LET of == {d \in records : d[f] # None}
        named == {d[f] : d \in of}
    IN IF of = {} THEN {85}
       ELSE named \cup {9}
              \cup (IF f = "fuse" THEN {d.fuse + d.fuseMask + 1 : d \in of} ELSE {})
              \cup (IF f = "cfg" THEN {n + 128 : n \in named} ELSE {})

\* What a target may answer whose version is that of some records.
AnswersLike(records) ==
    [ver : {d.ver : d \in records}, sub : ValuesOf(records, "sub"),
     rev : ValuesOf(records, "rev"), cfg : ValuesOf(records, "cfg"),
     fuse : ValuesOf(records, "fuse"), fab : ValuesOf(records, "fab"),
     self : ValuesOf(records, "self")]

MCQueries ==
    LET records == Range(msp430_mcus_set)
        versions == {d.ver : d \in records}
        sharing == {{d \in records : d.ver = v} : v \in versions}
    IN {p.code : p \in Range(all_part_codes)}
       \cup UNION {AnswersLike(same) : same \in {s \in sharing : Cardinality(s) > 1}}
       \cup {[ver |-> \hFFFF, sub |-> \hFFFF, rev |-> 255, cfg |-> 255, fuse |-> 255,
              fab |-> 255, self |-> \hFFFF]}
=============================================================================
