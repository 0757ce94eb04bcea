------------------------------ MODULE JtagScan ------------------------------
(***************************************************************************)
(* What the driver's callers (TapPlayer, the TapDev classes) count on when *)
(* they use ITapInterface: a scan exchanges the whole content of the       *)
(* selected register with the argument, leaves every other register alone  *)
(* and gives the CPU of the target no clock; a TCLK operation gives it     *)
(* exactly its clocks, leaves its level, and touches no register.          *)
(***************************************************************************)
EXTENDS Integers, Sequences

CONSTANTS JtagId,      \* what Capture-IR loads: the identification code
          Bypass,      \* the instruction Test-Logic-Reset selects
          Pulses       \* how many pulses a caller asks for

VARIABLES reg,         \* the content of the registers "IR" and "DR"
          call,        \* the operation in progress, or NoCall
          done,        \* it has had its effect on the target
          answer,      \* what the last scan returned
          tclk,        \* the level of the target clock
          strobe,      \* the TCLK operation that came last, "none" after a scan
          cycles       \* rising edges the CPU of the target saw in the last operation

vars == <<reg, call, done, answer, tclk, strobe, cycles>>

NoCall   == [op |-> "none"]
NoAnswer == <<>>

IsScan(c) == c.op \in {"IR", "DR"}

\* A 20 bit address register comes out rotated by 4 bits; the driver undoes it.
Unrotate(v) == IF Len(v) = 20 THEN SubSeq(v, 17, 20) \o SubSeq(v, 1, 16) ELSE v

Old(r) == IF r = "IR" THEN JtagId ELSE Unrotate(reg["DR"])

Init ==
  /\ call = NoCall /\ done = FALSE /\ answer = NoAnswer
  /\ tclk \in {0, 1} /\ strobe = "none" /\ cycles = 0

Begin ==
  /\ call = NoCall /\ call' # NoCall
  /\ done' = FALSE /\ answer' = NoAnswer
  /\ strobe' = "none" /\ cycles' = 0
  /\ UNCHANGED <<reg, tclk>>

Exchange ==
  /\ IsScan(call) /\ ~done
  /\ reg' = [reg EXCEPT ![call.op] = call.data]
  /\ done' = TRUE
  /\ answer' = Old(call.op)
  /\ UNCHANGED <<call, tclk, strobe, cycles>>

\* Until the reset is complete the state of the registers is unspecified, and
\* TDI may be raised while the port is in Run-Test/Idle.
Settle ==
  /\ call.op = "Reset" /\ ~done
  /\ done' => reg'["IR"] = Bypass
  /\ tclk' \in {tclk, 1}
  /\ cycles' \in {cycles, cycles + tclk' - tclk}
  /\ UNCHANGED <<call, answer, strobe>>

Return ==
  /\ call # NoCall /\ done
  /\ call' = NoCall /\ done' = FALSE
  /\ UNCHANGED <<reg, answer, tclk, strobe, cycles>>

\* `rises' clocks with TAP and registers untouched.
Strobe(op, rises, level) ==
  /\ call = NoCall
  /\ strobe' = op /\ cycles' = rises /\ tclk' = level
  /\ UNCHANGED <<reg, call, done, answer>>

\* A pulse is a rise and a fall, a negative one a fall and a rise; the first edge is
\* none when TCLK has that level already.
SetTclk        == Strobe("set", 1 - tclk, 1)
ClearTclk      == Strobe("clear", 0, 0)
PulseTclk      == Strobe("pulse", 1 - tclk, 0)
PulseTclkN     == Strobe("pulseN", 1, 1)
PulseTclkCount == Strobe("pulses", Pulses - tclk, 0)

\* The pulses asked for, and one more only where TCLK was low and is raised first;
\* the level it leaves depends on the driver.
FlashTclk ==
  \E extra \in 0 .. 1 - tclk, level \in {tclk, 1} : Strobe("flash", Pulses + extra, level)

\* The target executes an instruction: the data register holds something else.
TargetLoads ==
  /\ call = NoCall
  /\ reg'["IR"] = reg["IR"]
  /\ UNCHANGED <<call, done, answer, tclk, strobe, cycles>>

Next == \/ Begin \/ Exchange \/ Settle \/ Return
        \/ SetTclk \/ ClearTclk \/ PulseTclk \/ PulseTclkN \/ PulseTclkCount \/ FlashTclk
        \/ TargetLoads

Spec == Init /\ [][Next]_vars
=============================================================================
