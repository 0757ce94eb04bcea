----------------------------- MODULE TapDev430 -----------------------------
(***************************************************************************)
(* The scripts of the driver for the MSP430 CPU (drivers/TapDev430.cpp):   *)
(* what each operation of ITapDev sends through the JTAG port.             *)
(***************************************************************************)
EXTENDS TapPlayer

kFctl1Addr     == \h128
kFctl2Addr     == \h12A
kFctl3Addr     == \h12C
kFctl1Lock     == \hA500
kFctl1Wrt      == \hA540
kFctl2MclkDiv0 == \hA540
kFctl3Unlock   == \hA500
kFctl3UnlockA  == \hA540
LOCK           == \h10
LOCKA          == \h40

WDT_ADDR_CPU   == \h120
MX_GCLKCTRL    == \h88
MX_WRITE       == 0
MX_READ        == 1

-----------------------------------------------------------------------------
(* CPU control and registers                                               *)

\* A JMP $ keeps the CPU where it is, and HALT_JTAG stops it.
HaltCpu ==
    Play(<<kIrData16(kdNone, \h3FFF, kdTclk0),
           kIrDr16(IR_CNTRL_SIG_16BIT, \h2409),
           kTclk1>>, <<>>)

SetPC(address) ==
    Play(<<kIrDr16(IR_CNTRL_SIG_16BIT, \h3401),
           kIrData16(kdNone, \h4030, kdTclkN),
           kDr16Argv,
           kIr(kdTclkN, IR_ADDR_CAPTURE, kdTclk0),
           kIrDr16(IR_CNTRL_SIG_16BIT, \h2401),
           kTclk1>>, <<address>>)

SetReg(reg, value) ==
    Play(<<kIrDr16(IR_CNTRL_SIG_16BIT, \h3401),
           kIrData16Argv(kdNone, kdTclk0),
           kIr(kdNone, IR_DATA_CAPTURE, kdNone),
           kIrData16Argv(kdTclk1, kdTclk0),
           kIr(kdNone, IR_DATA_CAPTURE, kdTclk1),
           kIrData16(kdNone, \h3FFD, kdTclk0),
           kIr(kdNone, IR_DATA_CAPTURE, kdTclkP),
           kIrDr16(IR_CNTRL_SIG_16BIT, \h2401),
           kTclk1>>, <<\h4030 + reg, value>>)

GetReg(reg) ==
    Play(<<kIrDr16(IR_CNTRL_SIG_16BIT, \h3401),
           kIrDr16Argv(kdNone, IR_DATA_16BIT, kdNone),
           kIr(kdTclk0, IR_DATA_CAPTURE, kdTclk1),
           kIrData16(kdNone, \h00FE, kdTclk0),
           kIr(kdNone, IR_DATA_CAPTURE, kdTclkP),
           kTclk1,
           kDr16_ret(0),
           kTclk0,
           kIrDr16(IR_CNTRL_SIG_16BIT, \h2401),
           kTclk1>>, <<reg * 256 + \h4082, "data">>)

-----------------------------------------------------------------------------
(* Memory                                                                  *)

\* The step that loads the address register; a CPUX takes 20 bits.
kAddr16 == kIrDr16Argv(kdNone, IR_ADDR_16BIT, kdNone)
kAddr20 == kIrDr20Argv(IR_ADDR_16BIT)

ReadOne(cntrl, address) ==
    HaltCpu \o
    Play(<<kTclk0,
           kIrDr16(IR_CNTRL_SIG_16BIT, cntrl),
           kAddr16,
           kIr(kdNone, IR_DATA_TO_ADDR, kdTclkP),
           kDr16_ret(0),
           kReleaseCpu>>, <<address, "data">>)

ReadByte(address) == ReadOne(\h2419, address)
ReadWord(address) == ReadOne(\h2409, address)

ReadMany(cntrl, address, count, size) ==
    HaltCpu \o Clr \o Play1(kIrDr16(IR_CNTRL_SIG_16BIT, cntrl))
    \o Loop([i \in 1 .. count |->
               Ir(IR_ADDR_16BIT) \o Dr((address + (i - 1) * size) % 2^16)
               \o Ir(IR_DATA_TO_ADDR) \o PulseP \o DrTo(0, "buf")])
    \o ReleaseCpu

ReadBytes(address, count) == ReadMany(\h2419, address, count, 1)
ReadWords(address, count) == ReadMany(\h2409, address, count, 2)

WriteWord(address, data) ==
    HaltCpu \o
    Play(<<kTclk0,
           kIrDr8(IR_CNTRL_SIG_LOW_BYTE, \h08),
           kAddr16,
           kIrDr16Argv(kdNone, IR_DATA_TO_ADDR, kdTclk1),
           kReleaseCpu>>, <<address, data>>)
    \o ReleaseCpu

WriteWords(address, buf) ==
    HaltCpu \o Clr \o Play1(kIrDr16(IR_CNTRL_SIG_16BIT, \h2408))
    \o Loop([i \in 1 .. Len(buf) |->
               Play(<<kAddr16,
                      kIrDr16Argv(kdNone, IR_DATA_TO_ADDR, kdTclkP)>>,
                    <<address + (i - 1) * 2, buf[i]>>)])
    \o ReleaseCpu

-----------------------------------------------------------------------------
(* Flash                                                                   *)

\* Words that are all ones are not written; the others rely on the control
\* signal register being selected when their turn comes.
WriteFlashBy(kAddr, default, address, buf, prof) ==
    LET strobes == IF prof.timed THEN prof.word_wr ELSE default
        fctl3   == IF prof.has_locka THEN kFctl3UnlockA ELSE kFctl3Unlock
    IN  HaltCpu
        \o Play(<<kTclk0,
                  kIrDr16(IR_CNTRL_SIG_16BIT, \h2408),
                  kIrDr16(IR_ADDR_16BIT, kFctl1Addr),
                  kIrDr16(IR_DATA_TO_ADDR, kFctl1Wrt),
                  kPulseTclk,
                  kIrDr16(IR_ADDR_16BIT, kFctl2Addr),
                  kIrDr16(IR_DATA_TO_ADDR, kFctl2MclkDiv0),
                  kPulseTclk,
                  kIrDr16(IR_ADDR_16BIT, kFctl3Addr),
                  kIrDr16Argv(kdNone, IR_DATA_TO_ADDR, kdNone),
                  kIr(kdTclkP, IR_CNTRL_SIG_16BIT, kdNone)>>, <<fctl3>>)
        \o Loop([i \in 1 .. Len(buf) |->
                   IF buf[i] = \hFFFF THEN <<>>
                   ELSE Play(<<kDr16(\h2408),
                               kAddr,
                               kIrDr16Argv(kdNone, IR_DATA_TO_ADDR, kdTclkP),
                               kIrDr16(IR_CNTRL_SIG_16BIT, \h2409),
                               kStrobeTclkArgv>>,
                             <<address + (i - 1) * 2, buf[i], strobes>>)])
        \o Play(<<kIrDr16(IR_CNTRL_SIG_16BIT, \h2408),
                  kIrDr16(IR_ADDR_16BIT, kFctl1Addr),
                  kIrDr16(IR_DATA_TO_ADDR, kFctl1Lock),
                  kPulseTclk,
                  kIrDr16(IR_ADDR_16BIT, kFctl3Addr),
                  kIrDr16Argv(kdNone, IR_DATA_TO_ADDR, kdTclk1),
                  kReleaseCpu>>, <<fctl3 + LOCK>>)

WriteFlash(address, buf, prof) == WriteFlashBy(kAddr16, 35, address, buf, prof)

\* Mutant: the time of a mass erase is given to a segment and vice versa.
EraseStrobesSwapped(prof, mass, default) ==
    CASE prof.timed /\ mass  -> prof.seg_erase
      [] prof.timed /\ ~mass -> prof.mass_erase
      [] ~prof.timed /\ mass -> 4820
      [] OTHER               -> default

\* How long and how often: from the chip's timings, or by default.
EraseStrobes(prof, mass, default) ==
    CASE prof.timed /\ mass  -> prof.mass_erase
      [] prof.timed /\ ~mass -> prof.seg_erase
      [] ~prof.timed /\ mass -> default
      [] OTHER               -> 4820

EraseRuns(prof, mass, default) ==
    CASE prof.timed /\ mass  -> prof.mass_erase_rep
      [] ~prof.timed /\ mass -> default
      [] OTHER               -> 1

\* LOCKA is 1 after reset and toggled by writing 1.
EraseFctl3(flags, prof) ==
    IF ~prof.has_locka THEN flags.fctl3
    ELSE IF Bit(flags.fctl3, LOCKA) = 1 THEN flags.fctl3 - LOCKA ELSE flags.fctl3 + LOCKA

EraseOnce(kAddr, address, fctl1, fctl3n, strobe_amount) ==
    Play(<<kTclk0,
           kIrDr16(IR_CNTRL_SIG_16BIT, \h2408),
           kIrDr16(IR_ADDR_16BIT, kFctl1Addr),
           kIrDr16Argv(kdNone, IR_DATA_TO_ADDR, kdTclkP),
           kIrDr16(IR_ADDR_16BIT, kFctl2Addr),
           kIrDr16(IR_DATA_TO_ADDR, \hA540),
           kPulseTclk,
           kIrDr16(IR_ADDR_16BIT, kFctl3Addr),
           kIrDr16Argv(kdNone, IR_DATA_TO_ADDR, kdTclkP),
           kAddr,
           kIrDr16(IR_DATA_TO_ADDR, \h55AA),
           kPulseTclk,
           kIrDr16(IR_CNTRL_SIG_16BIT, \h2409),
           kStrobeTclkArgv,
           kIrDr16(IR_CNTRL_SIG_16BIT, \h2408),
           kIrDr16(IR_ADDR_16BIT, kFctl1Addr),
           kIrDr16(IR_DATA_TO_ADDR, kFctl1Lock),
           kTclk1>>, <<fctl1, fctl3n, address, strobe_amount>>)

EraseFlashBy(kAddr, runs, strobes, address, flags, mass, prof) ==
    LET fctl3n == EraseFctl3(flags, prof)
    IN  HaltCpu
        \o Loop([i \in 1 .. EraseRuns(prof, mass, runs) |->
                   EraseOnce(kAddr, address, flags.fctl1, fctl3n,
                             EraseStrobes(prof, mass, strobes))])
        \o Play(<<kTclk0,
                  kIrDr16(IR_ADDR_16BIT, kFctl3Addr),
                  kIrDr16Argv(kdNone, IR_DATA_TO_ADDR, kdTclk1)>>, <<fctl3n + LOCK>>)

EraseFlash(address, flags, mass, prof) ==
    EraseFlashBy(kAddr16, 19, 5300, address, flags, mass, prof)

-----------------------------------------------------------------------------
(* Release                                                                 *)

\* Mutant: the control words are cleared and not written back.
WorkaroundF149Clears ==
    Play(<<kIr(kdNone, IR_EMEX_DATA_EXCHANGE, kdNone),
           kDr16(\h02), kDr16(0),
           kDr16(\h0A), kDr16(0),
           kDr16(\h12), kDr16(0)>>, <<>>)

\* The trigger blocks of a MSP430F149 are read, cleared and written back.
WorkaroundF149 ==
    Play(<<kIr(kdNone, IR_EMEX_DATA_EXCHANGE, kdNone),
           kDr16(\h03), kDr16_ret(0),
           kDr16(\h0B), kDr16_ret(0),
           kDr16(\h13), kDr16_ret(0),
           kDr16(\h02), kDr16(0),
           kDr16(\h0A), kDr16(0),
           kDr16(\h12), kDr16(0),
           kDr16(\h02), kDr16ArgvI,
           kDr16(\h0A), kDr16ArgvI,
           kDr16(\h12), kDr16ArgvI>>,
         <<"backup0", "backup1", "backup2", "backup0", "backup1", "backup2">>)

ReleaseFll ==
    Play(<<kIrDr16(IR_EMEX_DATA_EXCHANGE, MX_GCLKCTRL + MX_READ),
           kDr16_ret(0)>>, <<"clk_ctrl">>)
    \o Play1(kIrDr16(IR_EMEX_DATA_EXCHANGE, MX_GCLKCTRL + MX_WRITE))
    \o DrFrom("clk_ctrl", \h10)

EemControl(run_to_bkpt) ==
    Play1(kIrDr16(IR_EMEX_WRITE_CONTROL, IF run_to_bkpt THEN 7 ELSE 6))

PreloadMdb(mdbval) ==
    IF mdbval = kSwBkpInstr THEN Ir(IR_ADDR_CAPTURE)
    ELSE Play(<<kIrDr16Argv(kdNone, IR_DATA_16BIT, kdTclk0),
                kIr(kdNone, IR_ADDR_CAPTURE, kdTclk1)>>, <<mdbval>>)

ReleaseDevice(ctx, prof, run_to_bkpt, mdbval) ==
    SetReg(2, ctx.sr) \o WriteWord(WDT_ADDR_CPU, ctx.wdt) \o SetPC(ctx.pc)
    \o WorkaroundF149
    \o (IF prof.clk_ctrl # "none" /\ prof.stop_fll THEN ReleaseFll ELSE <<>>)
    \o (CASE prof.clk_ctrl = "extended"  ->
               Play(<<kIrDr16(IR_EMEX_DATA_EXCHANGE, MX_GCLKCTRL + MX_WRITE), kDr16Argv>>, <<\h0F>>)
          [] prof.clk_ctrl = "standardI" ->
               Play(<<kIrDr16(IR_EMEX_DATA_EXCHANGE, MX_GCLKCTRL + MX_WRITE), kDr16Argv>>, <<\h08>>)
          [] OTHER -> <<>>)
    \o EemControl(run_to_bkpt)
    \o PreloadMdb(mdbval)
    \o Ir(IR_CNTRL_SIG_RELEASE)

=============================================================================
