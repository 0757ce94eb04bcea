------------------------------ MODULE JtagDev ------------------------------
(***************************************************************************)
(* The 4-wire JTAG driver clock by clock.  Every shift is turned into a    *)
(* fixed train of TCK cycles played by hardware nobody interferes with:    *)
(*   "spi", "vhc": the SPI port drives TCK and TDI while a timer that      *)
(*     counts both edges of TCK shapes TMS (drivers/JtagDev.spi.cpp,       *)
(*     util/SpiJtagDataShift.h, util/TmsAutoShaper.h); "vhc" is the class  *)
(*     for the high clock rates, JtagDevVhc;                               *)
(*   "tim": three DMA channels write TMS and TDI, raise TCK and sample TDO *)
(*     from a rendered table (drivers/JtagDev.tim.cpp, util/WaveJtag.h).   *)
(* Nothing is read back from the port of the target, so the position of    *)
(* every edge must be right for the exchange to happen at all.  A value is *)
(* the sequence of its bits, most significant first: the order on the wire.*)
(***************************************************************************)
EXTENDS Integers, Sequences, SequencesExt, JtagTap

CONSTANTS Drivers,     \* the driver classes: a subset of {"spi", "vhc", "tim"}
          Words,       \* values of registers and arguments, as bit sequences
          JtagId, Bypass

ASSUME DriversAssumption == Drivers \subseteq {"spi", "vhc", "tim"}

\* OnIrShift, and OnDrShift8, 16, 20 and 32.
ASSUME WordsAssumption ==
  /\ \A w \in Words \cup {JtagId, Bypass} : w \in Seq({0, 1}) /\ Len(w) \in {8, 16, 20, 32}
  /\ Len(JtagId) = 8 /\ Len(Bypass) = 8

\* Bound: the pulses OnFlashTclk and OnPulseTclk(count) are asked for.
Pulses == 2

VARIABLES driver,      \* the class of the open device
          tap, sr,     \* state and shift register of the port of the target
          reg,         \* the registers of the target
          tdi, mosi,   \* the level of TDI; the one the SPI port last sent
          call,        \* the operation in progress, or NoCall
          shaper,      \* the timer that shapes TMS
          tx, rx,      \* clocks still to play, TDO sampled by those played
          answer,      \* what the last scan returned
          up,          \* OnResetTap has been called
          strobe,      \* the TCLK operation that came last (not in the code)
          cycles       \* rising edges of TDI in Run-Test/Idle since the last
                       \* operation began (not in the code)

vars == <<driver, tap, sr, reg, tdi, mosi, call, shaper, tx, rx, answer, up, strobe, cycles>>

NoCall   == [op |-> "none"]
NoAnswer == <<>>
IsScan(c) == c.op \in {"IR", "DR"}
Bit  == {0, 1}
Tims == driver = "tim"

ByTimer  == 2          \* a TMS level that the timer decides
Floating == 2          \* TDO outside the Shift states: neither level

Rise(from, to) == IF from = 0 /\ to = 1 THEN 1 ELSE 0

-----------------------------------------------------------------------------
(* The SPI frame.  A dummy bit, the clocks that select and capture, the    *)
(* argument and the way back to Run-Test/Idle, rounded up to whole bytes;  *)
(* the bits that are not payload repeat the level of TDI.                  *)

DummyBits     == 1
SelectScan(r) == IF r = "DR" THEN 1 ELSE 2
CaptureBits   == 2
Shift(n)      == n - 1
ExitBits      == 2
HeadClocks(r) == DummyBits + SelectScan(r) + CaptureBits
NecessaryBits(r, n) == SelectScan(r) + CaptureBits + Shift(n) + ExitBits + 1
\* Mutant: a byte to spare.
StreamBytesSpare(r, n) == (DummyBits + NecessaryBits(r, n) + 7) \div 8 + 1

StreamBytes(r, n) == (DummyBits + NecessaryBits(r, n) + 7) \div 8
ContainerBits(n)  == IF n = 32 THEN 64 ELSE 32

SpiFrame(r, data) ==
  [i \in 1 .. 8 * StreamBytes(r, Len(data)) |->
     [tms |-> ByTimer,
      tdi |-> IF i - HeadClocks(r) \in DOMAIN data THEN data[i - HeadClocks(r)] ELSE tdi]]

(* The timer counts both edges of TCK and is high from ccr on, until arr   *)
(* is reached; then it starts again from 0 with the second pair.           *)

\* Mutant: the high clock rates use the timing of the others.
AnticipationNone == 0

Anticipation == IF driver = "vhc" THEN 1 ELSE 0

DoublePwm(t1, p1, t2, p2) == [cnt |-> 0, ccr |-> t1, arr |-> p1, ccr2 |-> t2, arr2 |-> p2]

ScanPulses(r, n) ==
  DoublePwm(2 * DummyBits + 1 - Anticipation,
            2 * (DummyBits + SelectScan(r)) - Anticipation,
            2 * (CaptureBits + Shift(n)) - Anticipation,
            2 * (CaptureBits + Shift(n) + ExitBits) - 1)

ResetPulses == DoublePwm(0, 12 - Anticipation, 4095, 4095)

CountEdge(t) ==
  IF t.cnt = t.arr THEN DoublePwm(t.ccr2, t.arr2, t.ccr2, t.arr2)
  ELSE [t EXCEPT !.cnt = @ + 1]

TmsLevel(t) == IF t.cnt >= t.ccr THEN 1 ELSE 0

\* TMS as the target samples it on the rising edge: at the high clock rates the
\* timer reacts one edge late, and misses the falling edge of the same clock.
ShapedTms == TmsLevel(IF driver = "vhc" THEN shaper ELSE CountEdge(shaper))

-----------------------------------------------------------------------------
(* The table of the timer driver: one entry per falling edge.              *)

Entry(tms, level) == [tms |-> tms, tdi |-> level]

RenderTransaction(r, data) ==
  [i \in 1 .. SelectScan(r) |-> Entry(1, tdi)]
  \o [i \in 1 .. CaptureBits |-> Entry(0, tdi)]
  \o [i \in 1 .. Len(data) |-> Entry(IF i = Len(data) THEN 1 ELSE 0, data[i])]
  \o << Entry(1, tdi), Entry(0, tdi) >>

\* Mutant: TMS is high for as many clocks as it takes from Run-Test/Idle.
GoIdleShort == [i \in 1 .. 3 |-> Entry(1, tdi)] \o << Entry(0, tdi) >>

\* The first of the eight entries makes no edge: TCK is high already.
GoIdle == [i \in 1 .. 6 |-> Entry(1, tdi)] \o << Entry(0, tdi) >>

\* How many samples precede the first one that belongs to the answer.
ResultPos(r) == IF Tims THEN SelectScan(r) + CaptureBits ELSE HeadClocks(r)

-----------------------------------------------------------------------------
(* The operations of ITapInterface.  A frame starts with Start.            *)

Frame(c) == IF Tims THEN RenderTransaction(c.op, c.data) ELSE SpiFrame(c.op, c.data)

Start(c, frame, pulses) ==
  /\ call = NoCall
  /\ call' = c
  /\ tx' = frame
  /\ rx' = <<>>
  /\ answer' = NoAnswer
  /\ shaper' = pulses
  /\ strobe' = "none" /\ cycles' = 0
  /\ UNCHANGED <<driver, tap, sr, reg, tdi, mosi, up>>

OnScan(c) == up /\ Start(c, Frame(c), ScanPulses(c.op, Len(c.data)))

OnIrShift(data) == Len(data) = 8 /\ OnScan([op |-> "IR", data |-> data])

\* OnDrShift8, 16, 20 and 32: the argument has the width of the register.
OnDrShift(data) == Len(data) = Len(reg["DR"]) /\ OnScan([op |-> "DR", data |-> data])

OnResetTap ==
  Start([op |-> "Reset"],
        IF Tims THEN GoIdle ELSE [i \in 1 .. 8 |-> [tms |-> ByTimer, tdi |-> 1]],
        ResetPulses)

\* One TCK cycle: TDI changes on the falling edge, while the port is still in
\* its old state, and the rising edge moves the port.
Clock ==
  /\ call # NoCall /\ tx # <<>>
  /\ LET slot == Head(tx)
         tms  == IF slot.tms = ByTimer THEN ShapedTms ELSE slot.tms
         new  == NextTap(tap, tms)
         r    == tap[2]
         shifted == IF tap[1] = "Shift" THEN Append(Tail(sr), slot.tdi) ELSE sr
     IN  /\ tx' = Tail(tx)
         /\ tdi' = slot.tdi
         /\ mosi' = slot.tdi
         /\ tap' = new
         /\ cycles' = cycles + IF tap = Idle THEN Rise(tdi, slot.tdi) ELSE 0
         /\ rx' = Append(rx, IF tap[1] = "Shift" THEN Head(sr) ELSE Floating)
         /\ sr' = IF tap[1] # "Capture" THEN shifted
                  ELSE IF r = "IR" THEN JtagId ELSE reg["DR"]
         /\ reg' = IF new[1] = "Update" THEN [reg EXCEPT ![new[2]] = sr']
                   ELSE IF new = Reset THEN [reg EXCEPT !["IR"] = Bypass]
                   ELSE reg
         /\ shaper' = CountEdge(CountEdge(shaper))
  /\ UNCHANGED <<driver, call, answer, up, strobe>>

\* The 20 bits of an address register arrive rotated.
Unrotate(v) == SubSeq(v, 17, 20) \o SubSeq(v, 1, 16)

Decode(c) ==
  LET pos == ResultPos(c.op)
      v   == SubSeq(rx, pos + 1, pos + Len(c.data))
  IN  IF c.op = "DR" /\ Len(c.data) = 20 THEN Unrotate(v) ELSE v

Return ==
  /\ call # NoCall /\ tx = <<>>
  /\ answer' = IF IsScan(call) THEN Decode(call) ELSE NoAnswer
  /\ call' = NoCall
  /\ up' = TRUE
  /\ rx' = <<>>
  /\ shaper' = DoublePwm(0, 0, 0, 0)
  /\ UNCHANGED <<driver, tap, sr, reg, tdi, mosi, tx, strobe, cycles>>

-----------------------------------------------------------------------------
(* TCLK is TDI with TCK held: the port stays in Run-Test/Idle.             *)

\* How often TDI rises when it runs through these levels.
Rises(levels) ==
  Cardinality({i \in DOMAIN levels :
                 Rise(IF i = 1 THEN tdi ELSE levels[i - 1], levels[i]) = 1})

Drive(op, levels, pin) ==
  /\ call = NoCall /\ up
  /\ strobe' = op
  /\ cycles' = IF tap = Idle THEN Rises(levels) ELSE 0
  /\ tdi' = pin
  /\ UNCHANGED <<driver, tap, sr, reg, call, shaper, tx, rx, answer, up>>

SendTclk(op, levels) == Drive(op, levels, Last(levels)) /\ mosi' = Last(levels)

\* Mutant: 0xF0 is sent for 0x0F as well.
OnPulseTclkNSwapped == SendTclk("pulseN", <<1, 0>>)

OnSetTclk        == SendTclk("set", <<1>>)
OnClearTclk      == SendTclk("clear", <<0>>)
OnPulseTclk      == SendTclk("pulse", <<1, 0>>)
OnPulseTclkN     == SendTclk("pulseN", <<0, 1>>)
OnPulseTclkCount == SendTclk("pulses", [i \in 1 .. 2 * Pulses |-> i % 2])

\* What the SPI drivers put before the pulses, the pin turned into an output that is
\* high, and behind them, when the SPI port takes it back; the timer driver has the
\* pin anyway and leaves it high.
FlashPrefix == IF Tims THEN <<>> ELSE <<1>>
FlashEnd    == IF Tims THEN 1 ELSE mosi

\* The pulses are written to the pin, which the SPI port gives up meanwhile.
OnFlashTclk ==
  /\ Drive("flash",
           FlashPrefix \o [i \in 1 .. 2 * Pulses |-> (i + 1) % 2] \o <<FlashEnd>>,
           FlashEnd)
  /\ mosi' = FlashEnd

-----------------------------------------------------------------------------
\* The CPU of the target is clocked or another instruction selects another
\* register: what the data register holds is new (environment).
TargetLoads ==
  /\ call = NoCall /\ up
  /\ \E v \in Words : reg' = [reg EXCEPT !["DR"] = v]
  /\ UNCHANGED <<driver, tap, sr, tdi, mosi, call, shaper, tx, rx, answer, up, strobe, cycles>>

\* A target is plugged in and powered: its port may be in any state.
Init ==
  /\ driver \in Drivers
  /\ tap \in TapStates
  /\ sr \in {w \in Words : Len(w) = 8}
  /\ reg = [r \in {"IR", "DR"} |-> Bypass]
  /\ tdi \in Bit /\ mosi = tdi
  /\ call = NoCall /\ answer = NoAnswer
  /\ shaper = DoublePwm(0, 0, 0, 0)
  /\ tx = <<>> /\ rx = <<>>
  /\ up = FALSE
  /\ strobe = "none" /\ cycles = 0

Next ==
  \/ \E data \in Words : OnIrShift(data) \/ OnDrShift(data)
  \/ OnResetTap
  \/ Clock
  \/ Return
  \/ OnSetTclk \/ OnClearTclk \/ OnPulseTclk \/ OnPulseTclkN \/ OnPulseTclkCount
  \/ OnFlashTclk
  \/ TargetLoads

Spec == Init /\ [][Next]_vars

-----------------------------------------------------------------------------
\* Every variable has its type, and a frame never outgrows what holds it: the
\* SPI buffer is the 32 or 64 bit container, the table has 40 entries
\* (kPingPongBufSize_); the static_assert of Transmit compares bytes with bits.
TypeOK ==
  /\ driver \in Drivers /\ tap \in TapStates /\ tdi \in Bit /\ mosi \in Bit
  /\ \A r \in {"IR", "DR"} : reg[r] \in Seq(Bit)
  /\ call = NoCall \/ call.op \in {"IR", "DR", "Reset"}
  /\ up \in BOOLEAN /\ cycles \in Nat
  /\ strobe \in {"none", "set", "clear", "pulse", "pulseN", "pulses", "flash"}
  /\ answer \in Seq(Bit)
  /\ IsScan(call) => Len(tx) + Len(rx) <= IF Tims THEN 40 ELSE ContainerBits(Len(call.data))

\* Between two operations the port is in Run-Test/Idle, whatever state it was
\* found in: each frame brings it back by counting alone, and every TCLK
\* operation relies on it (JTCLK is TDI, redirected in that state only).
IdleBetweenCalls == call = NoCall /\ up => tap = Idle

\* The clock that has the effect of the operation in progress on the target.
EffectClock ==
  IF IsScan(call) THEN ResultPos(call.op) + Len(call.data) + 1 ELSE 6
HadEffect == call # NoCall /\ Len(rx) >= EffectClock

Promise ==
  INSTANCE JtagScan WITH
    done   <- HadEffect,
    answer <- IF IsScan(call) /\ HadEffect THEN Decode(call) ELSE answer,
    tclk   <- IF IsScan(call) /\ tx # <<>> THEN Last(tx).tdi ELSE tdi

\* The train of edges implements the promise of ITapInterface: the old content
\* of the register that was meant comes back, in full and in place, the new
\* content is exactly the argument, no other register changes, the level of
\* TCLK survives and the CPU sees no clock of it; each TCLK operation gives the
\* CPU exactly its clocks from either level and leaves the level it is named for.
ImplementsScan == Promise!Spec
=============================================================================
