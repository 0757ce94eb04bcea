--------------------------- MODULE BreakpointSet ---------------------------
(***************************************************************************)
(* What the debugger is promised about breakpoints: a set it inserts into  *)
(* and deletes from while the target is stopped, and that does not change  *)
(* while the target runs.  An insertion may be refused, and then the set   *)
(* is as it was.  A new session starts with an empty set.                  *)
(***************************************************************************)
CONSTANTS Address, BpType

VARIABLES
    inserted,   \* the breakpoints the debugger has inserted
    phase       \* "closed", "idle" (waiting for a command) or "polling"

vars == <<inserted, phase>>

Init == inserted = {} /\ phase = "closed"

Open == phase = "closed" /\ phase' = "idle" /\ inserted' = {}

Insert(a, t) ==
    /\ phase = "idle"
    /\ inserted' = inserted \cup {<<a, t>>}
    /\ UNCHANGED phase

Delete(a, t) ==
    /\ phase = "idle"
    /\ inserted' = inserted \ {<<a, t>>}
    /\ UNCHANGED phase

Run  == phase = "idle" /\ phase' = "polling" /\ UNCHANGED inserted

Stop == phase = "polling" /\ phase' = "idle" /\ UNCHANGED inserted

Close == phase = "idle" /\ phase' = "closed" /\ inserted' = {}

Next ==
    \/ Open \/ Run \/ Stop \/ Close
    \/ \E a \in Address, t \in BpType : Insert(a, t) \/ Delete(a, t)

Spec == Init /\ [][Next]_vars
=============================================================================
