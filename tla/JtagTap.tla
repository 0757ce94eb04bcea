------------------------------ MODULE JtagTap ------------------------------
(***************************************************************************)
(* The test access port of the target: the state machine of IEEE 1149.1,   *)
(* which is outside the repository.  The drivers rely on it by counting    *)
(* the clocks of each state (util/JtagStates.h) and never read it back.    *)
(***************************************************************************)

\* The states in which the two register columns are traversed.
Column(r) == {<<s, r>> : s \in {"Select", "Capture", "Shift", "Exit1",
                                "Pause", "Exit2", "Update"}}

Reset == <<"Test-Logic-Reset", "none">>
Idle  == <<"Run-Test/Idle", "none">>

TapStates == {Reset, Idle} \cup Column("DR") \cup Column("IR")

\* Where a rising edge of TCK leads to from the states of a column: with TMS
\* low, and high.
Branches(r) ==
  [Select  |-> << <<"Capture", r>>, IF r = "DR" THEN <<"Select", "IR">> ELSE Reset >>,
   Capture |-> << <<"Shift", r>>, <<"Exit1", r>> >>,
   Shift   |-> << <<"Shift", r>>, <<"Exit1", r>> >>,
   Exit1   |-> << <<"Pause", r>>, <<"Update", r>> >>,
   Pause   |-> << <<"Pause", r>>, <<"Exit2", r>> >>,
   Exit2   |-> << <<"Shift", r>>, <<"Update", r>> >>,
   Update  |-> << Idle, <<"Select", "DR">> >>]

\* The state reached from s by a rising edge of TCK.
NextTap(s, tms) ==
  IF s = Reset THEN (IF tms = 1 THEN Reset ELSE Idle)
  ELSE IF s = Idle THEN (IF tms = 1 THEN <<"Select", "DR">> ELSE Idle)
  ELSE Branches(s[2])[s[1]][IF tms = 1 THEN 2 ELSE 1]
=============================================================================
