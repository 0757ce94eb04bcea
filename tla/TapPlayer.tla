----------------------------- MODULE TapPlayer -----------------------------
(***************************************************************************)
(* The scripts of the drivers (drivers/TapPlayer.h, TapPlayer.cpp).  A     *)
(* TapStep is a command with 24 bits of packed arguments; Play unpacks a   *)
(* list of them, takes the arguments of the argv commands from the list of *)
(* variable arguments in the order they are met, and so produces a         *)
(* sequence of primitives of ITapInterface.                                *)
(*                                                                         *)
(* A primitive is an instruction scan "ir", a data scan "dr", a level of   *)
(* TCLK ("set", "clr"), a number of TCLK pulses "strobe", a wait "delay"   *)
(* or a read of the mailbox "jmbout".  Its argument is n or, when from     *)
(* names a local variable of the driver, that variable without the bit     *)
(* off; what it returns goes to the local variable to.  "play" and "loop"  *)
(* are steps of the driver itself that other steps take the place of, and  *)
(* so are "if" and "setpc", which depend on such variables; "combine" is   *)
(* arithmetic on them.                                                     *)
(***************************************************************************)
EXTENDS Integers, Sequences

Prim(p, n, to) == [p |-> p, n |-> n, from |-> "", off |-> 0, to |-> to]

Ir(n)      == <<Prim("ir", n, "")>>
IrTo(n, v) == <<Prim("ir", n, v)>>
Dr(n)      == <<Prim("dr", n, "")>>
DrTo(n, v) == <<Prim("dr", n, v)>>

\* The value of a local variable is shifted in, with one bit cleared or none (0).
DrFrom(v, off) == <<[Prim("dr", 0, "") EXCEPT !.from = v, !.off = off]>>

Set        == <<Prim("set", 0, "")>>
Clr        == <<Prim("clr", 0, "")>>
PulseP     == Set \o Clr     \* OnPulseTclk
PulseN     == Clr \o Set     \* OnPulseTclkN
Strobe(n)  == <<Prim("strobe", n, "")>>
Delay(n)   == <<Prim("delay", n, "")>>
ReadJmbOut == <<Prim("jmbout", 0, "")>>

Bit(n, b)       == (n \div b) % 2
AnyBit(n, bits) == \E b \in bits : Bit(n, b) = 1

\* Bits 16 to 19 of a value, where MOVA #imm20 has them.
High(value) == (value \div 2^16) * 256

\* What software breakpoints are made of.
kSwBkpInstr == \h4343

\* Branches: on some bit of a variable, and on its value.
IfBits(v, bits, then)  == <<[p |-> "if", of |-> v, bits |-> bits, values |-> {}, then |-> then]>>
IfValue(v, vals, then) == <<[p |-> "if", of |-> v, bits |-> {}, values |-> vals, then |-> then]>>

\* A register read in two halves, and the program counter set from a variable.
Combine(v)           == <<Prim("combine", 0, v)>>
SetPcFrom(v, offset) == <<[Prim("setpc", offset, "") EXCEPT !.from = v]>>

-----------------------------------------------------------------------------
(* Instructions of the JTAG port the drivers use.                          *)

IR_ADDR_16BIT           == \hC1
IR_ADDR_CAPTURE         == \h21
IR_DATA_TO_ADDR         == \hA1
IR_DATA_16BIT           == \h82
IR_DATA_CAPTURE         == \h42
IR_DATA_QUICK           == \hC2
IR_CNTRL_SIG_16BIT      == \hC8
IR_CNTRL_SIG_CAPTURE    == \h28
IR_CNTRL_SIG_RELEASE    == \hA8
IR_CNTRL_SIG_HIGH_BYTE  == \h88
IR_CNTRL_SIG_LOW_BYTE   == \h48
IR_CONFIG_FUSES         == \h94
IR_EMEX_DATA_EXCHANGE   == \h90
IR_EMEX_READ_CONTROL    == \hD0
IR_EMEX_WRITE_CONTROL   == \h30
IR_EMEX_DATA_EXCHANGE32 == \hB0
IR_TEST_REG             == \h54
IR_TEST_3V_REG          == \hF4

-----------------------------------------------------------------------------
(* Clocking around a scan: enum DataClk.                                   *)

kdTclk0  == 0
kdTclk1  == 1
kdTclkP  == 2
kdTclkN  == 3
kdTclk2P == 4
kdTclk2N == 5
kdNone   == 7

OnTclk(clk) ==
    CASE clk = kdTclk0  -> Clr
      [] clk = kdTclk1  -> Set
      [] clk = kdTclkP  -> PulseP
      [] clk = kdTclkN  -> PulseN
      [] clk = kdTclk2P -> PulseP \o PulseP
      [] clk = kdTclk2N -> PulseN \o PulseN
      [] OTHER          -> <<>>

OnData16(clk0, data, clk1) == Ir(IR_DATA_16BIT) \o OnTclk(clk0) \o Dr(data) \o OnTclk(clk1)

-----------------------------------------------------------------------------
(* Packing.  A step is one word of 32 bits: what an argument field cannot  *)
(* hold is lost.                                                           *)

TapStep(cmd, arg) == [cmd |-> cmd, arg |-> arg % 2^24]

kIr(clk1, ir, clk2)         == TapStep("IrShift", ir * 256 + clk2 * 16 + clk1)
kIrRet(ir)                  == TapStep("IrShift_argv_p", ir)
kIrDr8(ir, d)               == TapStep("IrShiftDr", (d % 256) * 256 + ir)
kIrDr16(ir, d)              == TapStep("IrShiftDr", (d % 2^16) * 256 + ir)
kIrDr20(ir, d)              == kIrDr16(ir, d)
kIrDr32(ir, d)              == kIrDr16(ir, d)
kIrData16(clk1, d, clk2)    == TapStep("IrData16", d * 256 + clk1 + clk2 * 16)
kIrDr16Argv(clk1, ir, clk2) == TapStep("IrShift16_argv", ir * 256 + clk2 * 16 + clk1)
kIrDr20Argv(ir)             == TapStep("IrShift20_argv", ir)
kDr16(d)                    == TapStep("DrShift", d)
kDr32(d)                    == kDr16(d)
kDr16_ret(d)                == TapStep("DrShift16_argv_p", d)
kDr16Argv                   == TapStep("DrShift16_argv", 0)
kDr16ArgvI                  == TapStep("DrShift16_argv_i", 0)
kIrData16Argv(clk1, clk2)   == TapStep("IrData16_argv", clk1 + clk2 * 16)
kTclk0                      == TapStep("ClrTclk", 0)
kTclk1                      == TapStep("SetTclk", 0)
kPulseTclk                  == TapStep("PulseTclk", 0)
kPulseTclkN                 == TapStep("PulseTclkN", 0)
kStrobeTclkArgv             == TapStep("Strobe_argv", 0)
kReleaseCpu                 == TapStep("ReleaseCpu", 0)

\* The fields of TapStep2, TapStep3 and TapStep4.
arg8(s)  == s.arg % 256
arg16(s) == s.arg \div 256
arg4a(s) == s.arg % 16
arg4b(s) == (s.arg \div 16) % 16

-----------------------------------------------------------------------------
(* Playing.                                                                *)

\* A step without variable arguments.
Play1(s) ==
    CASE s.cmd = "IrShift"    -> OnTclk(arg4a(s)) \o Ir(arg16(s)) \o OnTclk(arg4b(s))
      [] s.cmd = "IrShiftDr"  -> Ir(arg8(s)) \o Dr(arg16(s))
      [] s.cmd = "DrShift"    -> Dr(s.arg)
      [] s.cmd = "IrData16"   -> OnData16(arg4a(s), arg16(s), arg4b(s))
      [] s.cmd = "ClrTclk"    -> Clr
      [] s.cmd = "SetTclk"    -> Set
      [] s.cmd = "PulseTclk"  -> PulseP
      [] s.cmd = "PulseTclkN" -> PulseN

\* The target is let go from the controlled stop: HALT_JTAG is cleared.
ReleaseCpu ==
    Clr \o Play1(kIrDr16(IR_CNTRL_SIG_16BIT, \h2401))
        \o Play1(kIr(kdNone, IR_ADDR_CAPTURE, kdNone)) \o Set

\* A step that consumes one variable argument: a number, or the name of the
\* variable a pointer points to.
PlayArgv(s, a) ==
    CASE s.cmd = "IrShift_argv_p"   -> IrTo(s.arg, a)
      [] s.cmd = "IrShift16_argv"   -> OnTclk(arg4a(s)) \o Ir(arg16(s)) \o Dr(a % 2^16)
                                           \o OnTclk(arg4b(s))
      [] s.cmd = "IrShift20_argv"   -> Ir(s.arg) \o Dr(a)
      [] s.cmd = "DrShift16_argv"   -> Dr(a % 2^16)
      [] s.cmd = "DrShift16_argv_i" -> DrFrom(a, 0)
      [] s.cmd = "DrShift16_argv_p" -> DrTo(s.arg, a)
      [] s.cmd = "IrData16_argv"    -> OnData16(arg4a(s), a % 2^16, arg4b(s))
      [] s.cmd = "Strobe_argv"      -> Strobe(a)

ArgvCommands ==
    {"IrShift_argv_p", "IrShift16_argv", "IrShift20_argv", "DrShift16_argv",
     "DrShift16_argv_i", "DrShift16_argv_p", "IrData16_argv", "Strobe_argv"}

\* The step at i is next and takes, if it takes one, the argument at j.
Playing(steps, argv, i, j) ==
    <<[p |-> "play", steps |-> steps, argv |-> argv, i |-> i, j |-> j]>>

Play(steps, argv) == Playing(steps, argv, 1, 1)

\* What takes the place of the rest e of a list.
Unpack(e) ==
    LET s == e.steps[e.i]
    IN  CASE e.i > Len(e.steps) -> <<>>
          [] e.i <= Len(e.steps) /\ s.cmd \in ArgvCommands ->
                PlayArgv(s, e.argv[e.j]) \o Playing(e.steps, e.argv, e.i + 1, e.j + 1)
          [] e.i <= Len(e.steps) /\ s.cmd = "ReleaseCpu" ->
                ReleaseCpu \o Playing(e.steps, e.argv, e.i + 1, e.j)
          [] OTHER -> Play1(s) \o Playing(e.steps, e.argv, e.i + 1, e.j)

\* A loop of the driver: its body, as a script, for each item from the i-th on.
Looping(bodies, i) == <<[p |-> "loop", bodies |-> bodies, i |-> i]>>

Loop(bodies) == Looping(bodies, 1)

Iterate(e) ==
    IF e.i > Len(e.bodies) THEN <<>> ELSE e.bodies[e.i] \o Looping(e.bodies, e.i + 1)

\* JTAG has control, the CPU runs, word read; the answer is the JTAG version.
SetJtagRunReadLegacy(v) ==
    Ir(IR_CNTRL_SIG_16BIT) \o Dr(\h2401) \o IrTo(IR_CNTRL_SIG_CAPTURE, v)

GetCtrlSigReg(v) == Ir(IR_CNTRL_SIG_CAPTURE) \o DrTo(0, v)

=============================================================================
