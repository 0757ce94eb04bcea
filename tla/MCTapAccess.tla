---------------------------- MODULE MCTapAccess ----------------------------
(* One part of each driver, with the timings of the chip database.          *)
EXTENDS TapAccess

MCRam   == {\h200, \h202}
MCFlash == {\hF000, \hF002, \h1F000}
MCInfoA == {\h10C0}
MCPer8  == {\h27, \h28}

Prof(timing, locka, clk, fll, lpmx5) ==
    [timed |-> TRUE, mass_erase |-> timing[1], mass_erase_rep |-> timing[2],
     seg_erase |-> timing[3], word_wr |-> timing[4],
     has_locka |-> locka, clk_ctrl |-> clk, stop_fll |-> fll, lpmx5 |-> lpmx5]
NoTiming(p) == [p EXCEPT !.timed = FALSE]

gen1  == <<5300, 19, 4820, 35>>
gen2a == <<10600, 1, 4820, 30>>
Need1  == [word |-> 30, seg |-> 4819, mass |-> 5297, rep |-> 19]
Need2a == [word |-> 25, seg |-> 4819, mass |-> 10593, rep |-> 1]

Part(drv, id, need, prof) ==
    [drv |-> drv, id |-> id, need |-> need, has_locka |-> prof.has_locka, prof |-> prof]

MCParts ==
    {Part("std", \h89, Need1, Prof(gen1, FALSE, "none", FALSE, FALSE)),
     Part("std", \h89, Need2a, Prof(gen2a, TRUE, "extended", TRUE, FALSE)),
     Part("std", \h89, Need1, NoTiming(Prof(gen1, FALSE, "standardI", FALSE, FALSE))),
     Part("x", \h89, Need2a, Prof(gen2a, TRUE, "extended", FALSE, FALSE)),
     Part("x", \h89, Need2a, NoTiming(Prof(gen2a, FALSE, "none", FALSE, FALSE))),
     Part("xv2", \h91, Need2a, Prof(gen2a, TRUE, "none", FALSE, FALSE)),
     Part("xv2", \h98, Need2a, Prof(gen2a, FALSE, "none", FALSE, TRUE)),
     Part("xv2", \h99, Need2a, Prof(gen2a, FALSE, "none", FALSE, TRUE)),
     Part("xv2_1377", \h91, Need2a, Prof(gen2a, TRUE, "none", FALSE, FALSE))}

\* EraseFlash as TapMcu calls it: fctl1 and fctl3 of EraseModeFctl.
Erase(a, mass, fctl1, fctl3, cells) ==
    [op |-> "EraseFlash", a |-> a, mass |-> mass, cells |-> cells,
     flags |-> [fctl1 |-> fctl1, fctl3 |-> fctl3]]

MCErases(p) ==
    LET locked   == IF p.has_locka THEN \hA540 ELSE \hA500
        unlocked == \hA500
    IN  {Erase(\hF000, FALSE, \hA502, locked, MCFlash),
         Erase(\hF000, TRUE, \hA504, locked, MCFlash)}
        \cup {Erase(\h10C0, FALSE, \hA502, unlocked, MCInfoA)}
        \cup (IF p.has_locka THEN {} ELSE {Erase(\hF000, TRUE, \hA506, locked, MCFlash \cup MCInfoA)})

Release(pc, sr, bkpt, mdb) ==
    [op |-> "ReleaseDevice", ctx |-> [pc |-> pc, sr |-> sr, wdt |-> 0], bkpt |-> bkpt, mdb |-> mdb]

MCCalls(p) ==
    LET legacy == p.drv \in {"std", "x"}
        far    == p.drv # "std"
    IN  {[op |-> "ReadByte", a |-> \h203], [op |-> "ReadBytes", a |-> IF legacy THEN \h27 ELSE \h201, n |-> 2],
         [op |-> "ReadWords", a |-> \h200, n |-> 2], [op |-> "ReadWord", a |-> \h202],
         [op |-> "WriteWord", a |-> \h202, v |-> \hBEEF],
         [op |-> "WriteWords", a |-> \h200, v |-> <<\hCAFE, \hFFFF>>],
         [op |-> "SetPC", v |-> \hF002], [op |-> "GetRegs", r |-> 5],
         Release(\hF002, 8, TRUE, \h4343), Release(\hF002, 8, FALSE, \h1234)}
        \cup {[op |-> "SetReg", r |-> 5, v |-> v] :
                 v \in IF far THEN {\h54321} ELSE {\h4321}}
        \cup (IF far THEN {[op |-> "ReadWord", a |-> \h1F000],
                           Release(\h1F000, \h18, FALSE, \h4343)} ELSE {})
        \cup (IF legacy THEN {[op |-> "WriteFlash", a |-> \hF000, v |-> v] :
                                 v \in {<<\h00F1, \hFFFF>>, <<\hFFFF, \h00F2>>, <<\h1200, \h0034>>}}
                             \cup MCErases(p)
              ELSE {})

=============================================================================
