--------------------------- MODULE MCTargetMemory ---------------------------
(* A map with every kind of border: a gap before and after, two segments of *)
(* information memory, a segment of main memory next to them, and RAM.      *)
EXTENDS TargetMemory

MCRegions ==
    {[class |-> "info", start |-> 2, size |-> 4, segsize |-> 2],
     [class |-> "main", start |-> 6, size |-> 2, segsize |-> 2],
     [class |-> "ram",  start |-> 8, size |-> 2, segsize |-> 1]}

=============================================================================
