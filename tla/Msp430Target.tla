---------------------------- MODULE Msp430Target ----------------------------
(***************************************************************************)
(* The target as its JTAG port shows it to the drivers.  It is not part of *)
(* the repository: it is modelled from the way the scripts of TapDev430,   *)
(* TapDev430X and TapDev430Xv2 use it, and is one state t and the step a   *)
(* primitive of TapPlayer takes it through.                                *)
(*                                                                         *)
(* The level of TCLK clocks the CPU (bit 0x1000 of the control signal      *)
(* register) or the bus.  With the CPU in control a rising edge makes it   *)
(* consume the word in the data register as the next word of its program;  *)
(* a MOV #imm,Rn takes two of them and a store drives the bus on the next  *)
(* edges.  With JTAG in control a rising edge reads the word or byte at    *)
(* the address register; with the READ bit clear the data register of      *)
(* IR_DATA_TO_ADDR, while that is selected, drives the bus during the high *)
(* phase of TCLK and is written.                                           *)
(***************************************************************************)
EXTENDS TapPlayer, FiniteSets

CONSTANTS
    RamAddr,     \* even addresses of RAM words
    FlashAddr,   \* even addresses of words of main flash
    InfoAAddr,   \* even addresses of words of the segment INFO A
    Per8Addr,    \* addresses of 8 bit peripherals
    GpRegs       \* the general registers looked at

FctlAddr  == {\h128, \h12A, \h12C}
FlashCell == FlashAddr \cup InfoAAddr
MemAddr   == RamAddr \cup FlashCell

\* The program counter, the status register and the general registers.
Regs == {0, 2} \cup GpRegs

Legacy(t) == t.drv \in {"std", "x"}

\* The watchdog and the mailbox.
WdtAddr(t) == IF Legacy(t) THEN \h120 ELSE IF t.id = \h98 THEN \h1CC ELSE \h15C
JmbAddr(t) == IF t.id = \h98 THEN \h14C ELSE \h18C

\* A register has 16 bits in a MSP430 CPU and 20 in the others.
RegSize(t)   == IF t.drv = "std" THEN 2^16 ELSE 2^20
PcPlus(t, n) == (t.reg[0] + n) % RegSize(t)

CpuMode(t)  == Bit(t.cntrl, \h1000) = 1
Reading(t)  == Bit(t.cntrl, 1) = 1
HaltJtag(t) == Bit(t.cntrl, 8) = 1
ByteMode(t) == Bit(t.cntrl, \h10) = 1

Fetch == [k |-> "fetch"]

-----------------------------------------------------------------------------
(* Reading the bus.                                                        *)

Word(t, a) == IF a \in DOMAIN t.mem THEN t.mem[a] ELSE \h3FFF

BusRead(t, a, byte) ==
    IF a \in Per8Addr THEN t.per[a]
    ELSE LET w == Word(t, a - (a % 2))
         IN  CASE ~byte             -> w
               [] byte /\ a % 2 = 0 -> w % 256
               [] byte /\ a % 2 = 1 -> w \div 256

-----------------------------------------------------------------------------
(* Writing the bus.  n counts the writes that reached a cell.              *)

Both(a, b, k) == IF Bit(a, k) = 1 /\ Bit(b, k) = 1 THEN k ELSE 0

And16(a, b) ==
    Both(a, b, \h8000) + Both(a, b, \h4000) + Both(a, b, \h2000) + Both(a, b, \h1000)
    + Both(a, b, \h800) + Both(a, b, \h400) + Both(a, b, \h200) + Both(a, b, \h100)
    + Both(a, b, \h80) + Both(a, b, \h40) + Both(a, b, \h20) + Both(a, b, \h10)
    + Both(a, b, 8) + Both(a, b, 4) + Both(a, b, 2) + Both(a, b, 1)

Violate(t) == [t EXCEPT !.violated = TRUE]

\* Registers of the flash controller take a value with the key 0xA5 only.
WriteFctl(t, a, v) ==
    CASE v \div 256 # \hA5 -> Violate(t)
      [] v \div 256 = \hA5 /\ a = \h128 ->
            [t EXCEPT !.wrt = Bit(v, \h40) = 1,
                      !.erase = {b \in {2, 4, 8} : Bit(v, b) = 1}]
      [] v \div 256 = \hA5 /\ a = \h12A -> t
      [] v \div 256 = \hA5 /\ a = \h12C ->
            [t EXCEPT !.lock  = Bit(v, \h10) = 1,
                      !.locka = IF Bit(v, \h40) = 1 /\ t.has_locka THEN ~t.locka ELSE @,
                      !.spent = IF Bit(v, \h10) = 1 THEN [x \in DOMAIN @ |-> 0] ELSE @]

\* The cells a dummy write at a erases: a segment, or main flash with INFO A.
Doomed(erase, a) ==
    CASE erase = {2}    -> IF a \in InfoAAddr THEN InfoAAddr ELSE FlashAddr
      [] erase = {4}    -> FlashAddr
      [] erase = {2, 4} -> FlashCell
      [] OTHER          -> {}

WriteFlashCell(t, a, v) ==
    CASE t.lock \/ t.busy > 0 \/ (~t.wrt /\ t.erase = {}) -> Violate(t)
      [] ~t.lock /\ t.busy = 0 /\ t.erase # {} ->
            [t EXCEPT !.busy   = IF t.erase = {2} THEN t.need.seg ELSE t.need.mass,
                      !.doomed = Doomed(t.erase, a) \ (IF t.locka THEN InfoAAddr ELSE {})]
      [] ~t.lock /\ t.busy = 0 /\ t.erase = {} /\ t.wrt /\ a \in InfoAAddr /\ t.locka -> t
      [] OTHER -> [t EXCEPT !.mem[a] = And16(@, v), !.busy = t.need.word, !.n = @ + 1]

BusWrite(t, a, v) ==
    CASE a \in FctlAddr  -> WriteFctl(t, a, v)
      [] a = WdtAddr(t)  -> IF v \div 256 = \h5A THEN [t EXCEPT !.wdt = v % 256] ELSE t
      [] a \in RamAddr   -> [t EXCEPT !.mem[a] = v, !.n = @ + 1]
      [] a \in FlashCell -> IF Legacy(t) THEN WriteFlashCell(t, a, v) ELSE t
      [] OTHER           -> t

\* Pulses while the controller is busy let it go on; an erase is complete when
\* its cells have had all the pulses they need, in one or several goes.
FlashClock(t, n) ==
    IF t.busy = 0 THEN t
    ELSE LET spent == [x \in DOMAIN t.spent |->
                          IF x \in t.doomed THEN t.spent[x] + n ELSE t.spent[x]]
             full  == IF t.erase = {2} THEN t.need.seg ELSE t.need.mass * t.need.rep
             gone  == {x \in t.doomed : spent[x] >= full}
         IN  [t EXCEPT !.busy   = IF n >= @ THEN 0 ELSE @ - n,
                       !.spent  = spent,
                       !.doomed = IF n >= t.busy THEN {} ELSE @,
                       !.n      = IF \E x \in gone : t.spent[x] < full THEN @ + 1 ELSE @,
                       !.mem    = [x \in DOMAIN @ |-> IF x \in gone THEN \hFFFF ELSE @[x]]]

-----------------------------------------------------------------------------
(* The CPU consumes words of program.                                      *)

\* The instructions the drivers feed: MOV(A) #imm,Rn and MOV(A) Rn,&abs.
Decode(t, w) ==
    CASE t.drv = "std" /\ w \div 16 = \h403 -> [k |-> "imm", r |-> w % 16, hi |-> 0]
      [] t.drv = "std" /\ w \div 4096 = 4 /\ w % 256 = \h82 ->
            [k |-> "abs", r |-> (w \div 256) % 16, hi |-> 0]
      [] t.drv # "std" /\ w \div 4096 = 0 /\ (w \div 16) % 16 = 8 ->
            [k |-> "imm", r |-> w % 16, hi |-> w \div 256]
      [] t.drv # "std" /\ w \div 4096 = 0 /\ w % 256 = \h60 ->
            [k |-> "abs", r |-> w \div 256, hi |-> 0]
      [] OTHER -> Fetch

\* What the bus shows of the register stored, edge by edge.
Shown(t, r) ==
    LET v    == IF r = 0 THEN PcPlus(t, 4) ELSE t.reg[r]
        low  == v % 2^16
        high == v \div 2^16
    IN  CASE t.drv = "std" -> <<low>>
          [] t.drv = "x"   -> <<low, high>>
          [] OTHER         -> <<low, high>>

Showing(words) == [k |-> "store", rest |-> words]

Store(t, r, a) ==
    LET post(u) == IF ~Legacy(t) /\ a = JmbAddr(t)
                   THEN [u EXCEPT !.jmb = Shown(t, r)] ELSE u
    IN  post(IF t.drv = "x"
             THEN [t EXCEPT !.cpu = Showing(Tail(Shown(t, r))), !.mdb = Head(Shown(t, r)),
                            !.pcok = FALSE, !.reg[0] = PcPlus(t, 4)]
             ELSE [t EXCEPT !.cpu = Showing(Shown(t, r)), !.pcok = FALSE,
                            !.reg[0] = PcPlus(t, 4)])

LoadReg(t, r, v) ==
    [t EXCEPT !.cpu = Fetch, !.pcok = (r = 0), !.n = IF r = 0 THEN @ ELSE @ + 1,
              !.reg = [[@ EXCEPT ![0] = PcPlus(t, 4)] EXCEPT ![r] = v]]

StoreClock(t) ==
    [t EXCEPT !.mdb = Head(t.cpu.rest),
              !.cpu = IF Len(t.cpu.rest) = 1 THEN Fetch ELSE Showing(Tail(t.cpu.rest))]

CpuClock(t) ==
    CASE t.cpu.k = "fetch" -> [t EXCEPT !.cpu = Decode(t, t.din)]
      [] t.cpu.k = "imm"   -> LoadReg(t, t.cpu.r, t.cpu.hi * 2^16 + t.din)
      [] t.cpu.k = "abs"   -> Store(t, t.cpu.r, t.din)

-----------------------------------------------------------------------------
(* The primitives.                                                         *)

JtagHasBus(t) == ~CpuMode(t) /\ (HaltJtag(t) \/ ~Legacy(t))

\* A write takes place in the high phase.
Commit(t) ==
    IF JtagHasBus(t) /\ ~Reading(t) /\ t.tclk = 1 /\ t.ir = IR_DATA_TO_ADDR
    THEN BusWrite(t, t.mab - (t.mab % 2), t.dto) ELSE t

Rise(t) ==
    LET u == FlashClock([t EXCEPT !.tclk = 1], 1)
    IN  CASE t.cpu.k = "store" -> StoreClock(u)
          [] t.cpu.k # "store" /\ CpuMode(t) -> CpuClock(u)
          [] t.cpu.k # "store" /\ ~CpuMode(t) ->
                IF JtagHasBus(t) /\ Reading(t) /\ t.ir # IR_DATA_QUICK
                THEN [u EXCEPT !.cpu = Fetch, !.mdb = BusRead(t, t.mab, ByteMode(t))]
                ELSE Commit([u EXCEPT !.cpu = Fetch])

\* The quick register reads on at the program counter.
Fall(t) ==
    LET u == [t EXCEPT !.tclk = 0]
    IN  IF ~CpuMode(t) /\ t.ir = IR_DATA_QUICK
        THEN [u EXCEPT !.mdb = Word(t, t.reg[0]), !.reg[0] = PcPlus(t, 2), !.pcok = FALSE]
        ELSE u

Level(t, l) == IF t.tclk = l THEN t ELSE IF l = 1 THEN Rise(t) ELSE Fall(t)

\* A strobe is n pulses; the bus must be reading meanwhile.  Where it ends
\* depends on the generator of the probe.
Strobes(t, n) ==
    LET u == IF Reading(t) THEN FlashClock(t, n) ELSE Violate(t) IN [u EXCEPT !.tclk = t.strobe_end]

\* Data scans: the register the instruction selects.
WithHigh(cntrl, n) == (n % 256) * 256 + (cntrl % 256)
WithLow(cntrl, n)  == (cntrl \div 256) * 256 + (n % 256)
EemSelected(t)     == t.ir \in {IR_EMEX_DATA_EXCHANGE, IR_EMEX_DATA_EXCHANGE32}

EmexScan(t, n) ==
    IF t.eemaddr = -1 THEN [t EXCEPT !.eemaddr = n]
    ELSE [t EXCEPT !.eemaddr = -1,
                   !.eem = IF t.eemaddr % 2 = 0 /\ t.eemaddr \in DOMAIN @
                           THEN [@ EXCEPT ![t.eemaddr] = n] ELSE @]

DrScan(t, n) ==
    CASE t.ir = IR_CNTRL_SIG_16BIT     -> [t EXCEPT !.cntrl = n]
      [] t.ir = IR_CNTRL_SIG_HIGH_BYTE -> [t EXCEPT !.cntrl = WithHigh(@, n)]
      [] t.ir = IR_CNTRL_SIG_LOW_BYTE  -> [t EXCEPT !.cntrl = WithLow(@, n)]
      [] t.ir = IR_ADDR_16BIT          -> [t EXCEPT !.mab = n]
      [] t.ir = IR_DATA_TO_ADDR        -> Commit([t EXCEPT !.dto = n])
      [] t.ir = IR_DATA_16BIT          -> [t EXCEPT !.din = n]
      [] t.ir = IR_EMEX_WRITE_CONTROL  -> [t EXCEPT !.eemctl = n]
      [] EemSelected(t)                -> EmexScan(t, n)
      [] OTHER                         -> t

\* What the scan shifts out.  A captured control signal register has its two
\* status bits set: the CPU is held in full emulation state.
DrOut(t) ==
    CASE t.ir = IR_CNTRL_SIG_CAPTURE ->
            t.cntrl + (1 - Bit(t.cntrl, \h100)) * \h100 + (1 - Bit(t.cntrl, \h200)) * \h200
      [] t.ir \in {IR_DATA_TO_ADDR, IR_DATA_CAPTURE, IR_DATA_QUICK} -> t.mdb
      [] EemSelected(t) ->
            IF t.eemaddr - 1 \in DOMAIN t.eem THEN t.eem[t.eemaddr - 1] ELSE 0
      [] OTHER -> 0

IrScan(t, n) ==
    [t EXCEPT !.ir = n, !.eemaddr = -1, !.running = (n = IR_CNTRL_SIG_RELEASE)]

\* The state after a primitive with argument n.
TargetStep(t, p, n) ==
    CASE p = "ir"     -> IrScan(t, n)
      [] p = "dr"     -> DrScan(t, n)
      [] p = "set"    -> Level(t, 1)
      [] p = "clr"    -> Level(t, 0)
      [] p = "strobe" -> Strobes(t, n)
      [] p = "jmbout" -> [t EXCEPT !.jmb = <<>>]
      [] p = "delay"  -> t

\* What the primitive returns.
TargetOut(t, p) == CASE p = "ir" -> t.id [] p = "dr" -> DrOut(t) [] OTHER -> 0

=============================================================================
