---------------------------- MODULE TapDev430Xv2 ----------------------------
(***************************************************************************)
(* The scripts of the driver for the MSP430Xv2 CPU (TapDev430Xv2.cpp, and  *)
(* TapDev430Xv2_1377.cpp for the parts with that erratum).  Here SetPC     *)
(* leaves the CPU in control with TCLK low; every other script begins by   *)
(* taking the bus back.  Flash is written by programs of the target and is *)
(* not modelled here.                                                      *)
(***************************************************************************)
EXTENDS TapPlayer

kMsp_91         == \h91
kMsp_98         == \h98
kMsp_99         == \h99
SAFE_PC_ADDRESS == 4
STATUS_REG_CPUOFF == \h10

SetPC_Xv2(address) ==
    GetCtrlSigReg("ctrl")
    \o IfBits("ctrl", {1, \h100, \h200},
           Play(<<kTclk0,
                  kIrData16Argv(kdTclk1, kdTclk0),
                  kIrDr16(IR_CNTRL_SIG_16BIT, \h1400),
                  kIrData16Argv(kdTclkN, kdTclkN),
                  kDr16(\h4303),
                  kTclk0,
                  kIrDr20(IR_ADDR_CAPTURE, 0)>>, <<\h0080 + High(address), address>>))

SetReg_Xv2(reg, value) ==
    Play(<<kTclk0,
           kIrData16Argv(kdTclk1, kdNone),
           kIrDr16(IR_CNTRL_SIG_16BIT, \h1401),
           kIrData16Argv(kdTclkN, kdTclkN),
           kDr16(\h3FFD),
           kPulseTclkN,
           kTclk0,
           kIrDr20(IR_DATA_CAPTURE, 0),
           kTclk1,
           kIrDr16(IR_CNTRL_SIG_16BIT, \h0501),
           kPulseTclkN,
           kIr(kdTclk0, IR_DATA_CAPTURE, kdTclk1)>>, <<\h0080 + High(value) + reg, value>>)

\* The register is stored at the output mailbox, which is then emptied.
GetRegAt(reg, jmbAddr) ==
    Play(<<kTclk0,
           kIrData16Argv(kdTclk1, kdNone),
           kIrDr16(IR_CNTRL_SIG_16BIT, \h1401),
           kIrData16Argv(kdTclkN, kdTclkN),
           kDr16(\h3FFD),
           kIr(kdTclk0, IR_DATA_CAPTURE, kdTclk1),
           kDr16_ret(0),
           kPulseTclkN,
           kDr16_ret(0),
           kPulseTclkN,
           kPulseTclkN,
           kPulseTclkN,
           kIrDr16(IR_CNTRL_SIG_16BIT, \h0501),
           kIr(kdTclk0, IR_DATA_CAPTURE, kdTclk1)>>,
         <<reg * 256 + \h60, jmbAddr, "rx_l", "rx_h">>)

GetRegInternal(reg, id) ==
    IrTo(IR_CNTRL_SIG_CAPTURE, "jtagId")
    \o GetRegAt(reg, IF id = kMsp_98 THEN \h14C ELSE \h18C)
    \o ReadJmbOut

\* TapDev430Xv2_1377::GetReg
GetReg_1377(reg) ==
    IrTo(IR_CNTRL_SIG_CAPTURE, "jtagId")
    \o Play(<<kTclk0,
              kIrData16Argv(kdTclk1, kdNone),
              kIrDr16(IR_CNTRL_SIG_16BIT, \h1401),
              kIrData16Argv(kdTclkN, kdTclkN),
              kDr16(\h3FFD),
              kTclk0,
              kIrDr16(IR_CNTRL_SIG_16BIT, \h0501),
              kIr(kdNone, IR_DATA_CAPTURE, kdNone),
              kTclk1,
              kDr16_ret(0),
              kPulseTclkN,
              kDr16_ret(0),
              kPulseTclkN,
              kPulseTclkN,
              kPulseTclkN,
              kTclk0,
              kIr(kdNone, IR_DATA_CAPTURE, kdNone),
              kTclk1>>,
            <<reg * 256 + \h60, \h0FF6, "rx_l", "rx_h">>)
    \o IfValue("jtagId", {kMsp_91, kMsp_98, kMsp_99},
           SetPC_Xv2(SAFE_PC_ADDRESS)
           \o Play1(kIrDr16(IR_CNTRL_SIG_16BIT, \h0501))
           \o Set \o Ir(IR_ADDR_CAPTURE))
    \o ReadJmbOut

\* Register transfers move the program counter: it is read first and set back
\* at the end, to the value before the two words of the first store.
GetRegs_Begin(id) == GetRegInternal(0, id) \o Combine("back_r0")

\* Mutant: the program counter is set back to where it was read.
GetRegs_EndAsRead == SetPcFrom("back_r0", 0)

GetRegs_End == SetPcFrom("back_r0", -4)

-----------------------------------------------------------------------------
(* Memory                                                                  *)

ReadWord_Xv2(address) ==
    Play(<<kTclk0,
           kIrDr16(IR_CNTRL_SIG_16BIT, \h0501),
           kIrDr20Argv(IR_ADDR_16BIT),
           kIr(kdNone, IR_DATA_TO_ADDR, kdTclkP),
           kDr16_ret(0),
           kPulseTclk,
           kTclk1>>, <<address, "buf">>)

\* Of an odd byte the word around it is read: see ByteOf.
ReadByte_Xv2(address)         == ReadWord_Xv2(address - (address % 2))
ReadBytes_Xv2(address, count) == Loop([i \in 1 .. count |-> ReadByte_Xv2(address + i - 1)])
ByteOf(address, word)         == IF address % 2 = 1 THEN word \div 256 ELSE word % 256

\* Words are read at the program counter, which is moved to a safe place
\* afterwards on the parts that need it.
ReadWords_Xv2(address, count) ==
    IrTo(IR_CNTRL_SIG_CAPTURE, "jtag_id")
    \o SetPC_Xv2(address)
    \o Play(<<kTclk1,
              kIrDr16(IR_CNTRL_SIG_16BIT, \h0501),
              kIr(kdNone, IR_ADDR_CAPTURE, kdNone),
              kIr(kdNone, IR_DATA_QUICK, kdNone)>>, <<>>)
    \o Loop([i \in 1 .. count |-> PulseP \o DrTo(0, "buf")])
    \o IfValue("jtag_id", {kMsp_98, kMsp_99}, SetPC_Xv2(SAFE_PC_ADDRESS))
    \o Set

\* The data is applied during the high phase of the clock only.
WriteWord_Xv2(address, data) ==
    Play(<<kTclk0,
           kIrDr16(IR_CNTRL_SIG_16BIT, \h0500),
           kIrDr20Argv(IR_ADDR_16BIT),
           kIrDr16Argv(kdTclk1, IR_DATA_TO_ADDR, kdTclk0),
           kIrDr16(IR_CNTRL_SIG_16BIT, \h0501),
           kTclk1,
           kPulseTclkN>>, <<address, data>>)

WriteWords_Xv2(address, buf) ==
    Loop([i \in 1 .. Len(buf) |-> WriteWord_Xv2(address + (i - 1) * 2, buf[i])])

-----------------------------------------------------------------------------
(* Release                                                                 *)

\* The settings that keep LPMx.5 off, for the parts that have them.
DisableLpmx5(prof) ==
    IF ~prof.lpmx5 THEN <<>>
    ELSE Ir(IR_TEST_3V_REG) \o DrTo(0, "reg_3V") \o DrFrom("reg_3V", 1) \o Delay(20)
         \o Ir(IR_TEST_REG) \o DrTo(0, "reg_test") \o DrFrom("reg_test", 1) \o Delay(20)

ClearDbgJtagOn == Ir(IR_TEST_3V_REG) \o DrTo(0, "tmp") \o DrFrom("tmp", \h80)

\* Where the program goes on; a CPU that is off is sent back one word.
ResumePc(ctx) == IF Bit(ctx.sr, STATUS_REG_CPUOFF) = 1 THEN ctx.pc - 2 ELSE ctx.pc

ReleaseDevice_Xv2(ctx, prof, run_to_bkpt, mdbval, id, wdt_addr) ==
    SetReg_Xv2(2, ctx.sr) \o WriteWord_Xv2(wdt_addr, ctx.wdt) \o SetPC_Xv2(ResumePc(ctx))
    \o (IF mdbval # kSwBkpInstr
        THEN Play(<<kIrDr16(IR_CNTRL_SIG_16BIT, \h0401),
                    kIrData16Argv(kdTclk1, kdTclk0),
                    kIr(kdNone, IR_ADDR_CAPTURE, kdNone),
                    kIr(kdNone, IR_CNTRL_SIG_CAPTURE, kdNone),
                    kDr16_ret(0)>>, <<mdbval, "sig">>)
        ELSE Play(<<kTclk1,
                    kIrDr16(IR_CNTRL_SIG_16BIT, \h0401),
                    kIr(kdNone, IR_ADDR_CAPTURE, kdNone),
                    kIr(kdNone, IR_CNTRL_SIG_CAPTURE, kdTclk0),
                    kDr16_ret(0)>>, <<"sig">>))
    \o IfBits("sig", {2}, Play1(kIrDr16(IR_CNTRL_SIG_16BIT, \h0403)))
    \o Play(<<kIrDr16Argv(kdTclk1, IR_EMEX_WRITE_CONTROL, kdNone)>>,
            <<IF run_to_bkpt THEN 7 ELSE 6>>)
    \o DisableLpmx5(prof)
    \o (IF id = kMsp_99 THEN ClearDbgJtagOn ELSE <<>>)
    \o Ir(IR_CNTRL_SIG_RELEASE)

=============================================================================
