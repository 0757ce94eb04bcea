---------------------------- MODULE MCGdbSession ----------------------------
(* A part of every kind of record: each CPU, and an Xv2 part with the      *)
(* erratum 1377 and one without; and an Xv2 part without a record, which   *)
(* gets the default profile.                                               *)
EXTENDS GdbSession

Known(cpu, issue) ==
    [cpu |-> cpu, cpuXId |-> cpu = "CpuX", record |-> [arch |-> cpu, issue_1377 |-> issue]]

UnknownXv2 == [cpu |-> "CpuXv2", cpuXId |-> FALSE, record |-> NoRecord]

MCPart ==
    {Known("Cpu", FALSE), Known("CpuX", FALSE), Known("CpuXv2", FALSE),
     Known("CpuXv2", TRUE), UnknownXv2}
=============================================================================
