----------------------------- MODULE MCJtagDev -----------------------------
(***************************************************************************)
(* The widths the firmware shifts, with bit patterns that tell every       *)
(* position, the order and both levels of the first and last bit apart.    *)
(***************************************************************************)
EXTENDS JtagDev

Widths == {8, 16, 20, 32}

MCWords == UNION { { [i \in 1 .. w |-> IF i = 1 THEN 1 ELSE 0],
                     [i \in 1 .. w |-> IF i \in {1, 2, w - 2} THEN 0 ELSE 1] } : w \in Widths }

MCJtagId == <<1, 0, 0, 0, 1, 0, 0, 1>>
MCBypass == <<1, 1, 1, 1, 1, 1, 1, 1>>
=============================================================================
