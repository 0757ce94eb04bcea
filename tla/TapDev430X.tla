---------------------------- MODULE TapDev430X ----------------------------
(***************************************************************************)
(* The scripts of the driver for the MSP430X CPU (drivers/TapDev430X.cpp): *)
(* registers and addresses have 20 bits.  It shares the flash sequences    *)
(* and the halt of TapDev430, its base class.                              *)
(***************************************************************************)
EXTENDS TapDev430

SetPC_X(address) ==
    Play(<<kIrDr16(IR_CNTRL_SIG_HIGH_BYTE, \h34),
           kIrDr16Argv(kdNone, IR_DATA_16BIT, kdTclkN),
           kDr16Argv,
           kIr(kdTclkN, IR_ADDR_CAPTURE, kdTclk0),
           kIrDr16(IR_CNTRL_SIG_HIGH_BYTE, \h24),
           kTclk1>>, <<\h0080 + High(address), address>>)

SetReg_X(reg, value) ==
    Play(<<kIrDr8(IR_CNTRL_SIG_HIGH_BYTE, \h34),
           kIrData16Argv(kdTclk1, kdTclk0),
           kIr(kdNone, IR_DATA_CAPTURE, kdTclk1),
           kIrData16Argv(kdTclk1, kdTclk0),
           kIr(kdNone, IR_DATA_CAPTURE, kdTclk1),
           kIrData16(kdTclk1, \h3FFD, kdTclk0),
           kIr(kdNone, IR_DATA_CAPTURE, kdTclkP),
           kIrDr8(IR_CNTRL_SIG_HIGH_BYTE, \h24),
           kTclk1>>, <<\h0080 + reg + High(value), value>>)

GetReg_X(reg) ==
    Play(<<kIrDr8(IR_CNTRL_SIG_HIGH_BYTE, \h34),
           kIrData16Argv(kdTclk1, kdTclk0),
           kIr(kdNone, IR_DATA_CAPTURE, kdTclk1),
           kIrData16(kdTclk1, \h00FC, kdTclk0),
           kIr(kdNone, IR_DATA_CAPTURE, kdTclk1),
           kDr16_ret(0),
           kPulseTclkN,
           kDr16_ret(0),
           kTclk0,
           kIrDr8(IR_CNTRL_SIG_HIGH_BYTE, \h24),
           kTclk1>>, <<reg * 256 + \h60, "rx_l", "rx_h">>)

-----------------------------------------------------------------------------
(* Memory                                                                  *)

\* Only the low byte of the control signals is changed: word or byte read.
ReadOne_X(low, address) ==
    HaltCpu \o
    Play(<<kTclk0,
           kIrDr16(IR_CNTRL_SIG_LOW_BYTE, low),
           kAddr20,
           kIr(kdNone, IR_DATA_TO_ADDR, kdTclkP),
           kDr16_ret(0),
           kReleaseCpu>>, <<address, "data">>)

ReadByte_X(address) == ReadOne_X(\h19, address)
ReadWord_X(address) == ReadOne_X(\h09, address)

\* Bytes are read as words: the caller uses this for 8 bit peripherals only.
ReadMany_X(address, count, size) ==
    HaltCpu \o Clr \o Play1(kIrDr16(IR_CNTRL_SIG_16BIT, \h2409))
    \o Loop([i \in 1 .. count |->
               Ir(IR_ADDR_16BIT) \o Dr(address + (i - 1) * size)
               \o Ir(IR_DATA_TO_ADDR) \o PulseP \o DrTo(0, "buf")])
    \o ReleaseCpu

ReadBytes_X(address, count) == ReadMany_X(address, count, 1)
ReadWords_X(address, count) == ReadMany_X(address, count, 2)

WriteWord_X(address, data) ==
    HaltCpu \o
    Play(<<kTclk0,
           kIrDr8(IR_CNTRL_SIG_LOW_BYTE, \h08),
           kAddr20,
           kIrDr16Argv(kdNone, IR_DATA_TO_ADDR, kdTclk1),
           kReleaseCpu>>, <<address, data>>)

\* Mutant: the address advances by one per word.
WriteWordsDense_X(address, buf) ==
    HaltCpu \o Clr \o Play1(kIrDr8(IR_CNTRL_SIG_LOW_BYTE, \h08))
    \o Loop([i \in 1 .. Len(buf) |->
               Play(<<kAddr20, kIrDr16Argv(kdNone, IR_DATA_TO_ADDR, kdTclkP)>>,
                    <<address + (i - 1), buf[i]>>)])
    \o ReleaseCpu

WriteWords_X(address, buf) ==
    HaltCpu \o Clr \o Play1(kIrDr8(IR_CNTRL_SIG_LOW_BYTE, \h08))
    \o Loop([i \in 1 .. Len(buf) |->
               Play(<<kAddr20, kIrDr16Argv(kdNone, IR_DATA_TO_ADDR, kdTclkP)>>,
                    <<address + (i - 1) * 2, buf[i]>>)])
    \o ReleaseCpu

WriteFlash_X(address, buf, prof) == WriteFlashBy(kAddr20, 30, address, buf, prof)

EraseFlash_X(address, flags, mass, prof) ==
    EraseFlashBy(kAddr20, 1, 10600, address, flags, mass, prof)

-----------------------------------------------------------------------------
(* Release                                                                 *)

ReleaseDevice_X(ctx, prof, run_to_bkpt, mdbval) ==
    SetReg_X(2, ctx.sr) \o WriteWord_X(WDT_ADDR_CPU, ctx.wdt) \o SetPC_X(ctx.pc)
    \o (IF prof.clk_ctrl = "extended"
        THEN Play1(kIrDr32(IR_EMEX_DATA_EXCHANGE32, \h82)) \o Play1(kDr32(\h0F))
        ELSE <<>>)
    \o EemControl(run_to_bkpt)
    \o PreloadMdb(mdbval)
    \o Ir(IR_CNTRL_SIG_RELEASE)

=============================================================================
