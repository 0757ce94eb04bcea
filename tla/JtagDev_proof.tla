---------------------------- MODULE JtagDev_proof ----------------------------
(***************************************************************************)
(* What the run of JtagDev checks with two patterns of each width, for     *)
(* every value that is shifted, every content of the registers and every   *)
(* one of the driver classes.                                              *)
(*                                                                         *)
(* The invariant says where a train of clocks is after each of them: which *)
(* state the port is in, what the timer that shapes TMS has counted, which *)
(* bits have moved, and what is still to be played.                        *)
(***************************************************************************)
EXTENDS JtagDev, FiniteSetTheorems, SequenceTheorems, TLAPS

Word == {w \in Seq(Bit) : Len(w) \in {8, 16, 20, 32}}
Slot == [tms : {0, 1, 2}, tdi : Bit]
Timer == [cnt : Nat, ccr : Nat, arr : Nat, ccr2 : Nat, arr2 : Nat]

Scans  == [op : {"IR", "DR"}, data : Word]
Resets == {[op |-> "Reset"]}

Types ==
  /\ driver \in Drivers /\ tap \in TapStates /\ sr \in Word
  /\ reg \in [{"IR", "DR"} -> Word]
  /\ tdi \in Bit /\ mosi \in Bit /\ up \in BOOLEAN
  /\ call \in {NoCall} \cup Scans \cup Resets
  /\ shaper \in Timer
  /\ tx \in Seq(Slot) /\ rx \in Seq({0, 1, 2})
  /\ answer \in Seq(Bit)
  /\ cycles \in Nat
  /\ strobe \in {"none", "set", "clear", "pulse", "pulseN", "pulses", "flash"}

-----------------------------------------------------------------------------
(* A train of clocks, by what it should do: k clocks have been played.     *)

Played == Len(rx)
Width  == Len(call.data)
S      == SelectScan(call.op)
P      == ResultPos(call.op)

\* The level of TMS at clock k of a scan and of a reset.
ScanTms(s, p, n, k) ==
  IF (p - 2 - s < k /\ k <= p - 2) \/ k = p + n \/ k = p + n + 1 THEN 1 ELSE 0
ResetTms(k) == IF k <= 6 THEN 1 ELSE 0

\* Where the port is after k clocks of a scan.
ScanTap(r, s, p, n, k) ==
  IF k <= p - 2 - s THEN Idle
  ELSE IF k = p - 1 - s THEN <<"Select", "DR">>
  ELSE IF k = p - 2 THEN <<"Select", "IR">>
  ELSE IF k = p - 1 THEN <<"Capture", r>>
  ELSE IF k < p + n THEN <<"Shift", r>>
  ELSE IF k = p + n THEN <<"Exit1", r>>
  ELSE IF k = p + n + 1 THEN <<"Update", r>>
  ELSE Idle

\* What the timer has counted after k clocks, two edges each: the first pulse,
\* the second, and the beginning of a third that is never reached.
ScanTimer(a, s, n, k) ==
  LET first == 2 * (1 + s) - a
      ccr2  == 2 * (n + 1) - a
      arr2  == 2 * (n + 3) - 1
      e     == 2 * k - first - 1
  IN  [cnt |-> IF 2 * k <= first THEN 2 * k ELSE IF e <= arr2 THEN e ELSE e - arr2 - 1,
       ccr |-> IF 2 * k <= first THEN 3 - a ELSE ccr2,
       arr |-> IF 2 * k <= first THEN first ELSE arr2,
       ccr2 |-> ccr2, arr2 |-> arr2]

ResetTimer(a, k) ==
  IF 2 * k <= 12 - a
  THEN [cnt |-> 2 * k, ccr |-> 0, arr |-> 12 - a, ccr2 |-> 4095, arr2 |-> 4095]
  ELSE [cnt |-> 2 * k - 13 + a, ccr |-> 4095, arr |-> 4095, ccr2 |-> 4095, arr2 |-> 4095]

ScanClocks(r, n) == IF Tims THEN ResultPos(r) + n + 2 ELSE 8 * StreamBytes(r, n)
ResetClocks == IF Tims THEN 7 ELSE 8

\* What the scan is to capture, and the level it is to leave.
Captured == IF call.op = "IR" THEN JtagId ELSE reg["DR"]
Level    == IF tx # <<>> THEN tx[Len(tx)].tdi ELSE tdi

\* The slots still to play.
ScanSlot(i) ==
  /\ tx[i].tms = IF Tims THEN ScanTms(S, P, Width, Played + i) ELSE ByTimer
  /\ tx[i].tdi = IF Played + i - P \in 1 .. Width THEN call.data[Played + i - P] ELSE Level

\* The bits that have moved: those of the register leave at one end, those of
\* the argument enter at the other.
Moved ==
  P <= Played /\ Played <= P + Width =>
    /\ Len(sr) = Width
    /\ \A j \in 1 .. Width :
          sr[j] = IF j + Played - P <= Width THEN Captured[j + Played - P]
                  ELSE call.data[j + Played - P - Width]

Sampled ==
  \A i \in 1 .. Width :
     P + i <= Played => /\ rx[P + i] \in Bit
                        /\ Played < P + Width + 1 => rx[P + i] = Captured[i]

Scanning ==
  IsScan(call) =>
    /\ up /\ Len(Captured) = Width
    /\ Played + Len(tx) = ScanClocks(call.op, Width)
    /\ \A i \in 1 .. Len(tx) : ScanSlot(i)
    /\ tap = ScanTap(call.op, S, P, Width, Played)
    /\ ~Tims => shaper = ScanTimer(Anticipation, S, Width, Played)
    /\ Played <= P \/ Played >= P + Width + 1 => tdi = Level
    /\ Moved /\ Sampled

\* How many high levels of TMS take the port to Test-Logic-Reset.
Highs(t) ==
  IF t = Reset THEN 0
  ELSE IF t = <<"Select", "IR">> THEN 1
  ELSE IF t = <<"Select", "DR">> THEN 2
  ELSE IF t = Idle \/ t[1] = "Update" THEN 3
  ELSE IF t[1] \in {"Exit1", "Exit2"} THEN 4
  ELSE 5

Resetting ==
  call.op = "Reset" =>
    /\ Played + Len(tx) = ResetClocks
    /\ \A i \in 1 .. Len(tx) :
          /\ tx[i].tms = IF Tims THEN ResetTms(Played + i) ELSE ByTimer
          /\ tx[i].tdi \in {tdi, 1}
          /\ tx[i].tdi = tx[1].tdi
          /\ Played > 0 => tx[i].tdi = tdi
    /\ answer = NoAnswer
    /\ ~Tims => shaper = ResetTimer(Anticipation, Played)
    /\ Played <= 5 => Highs(tap) <= 5 - Played
    /\ Played \in {5, 6} => tap = Reset
    /\ Played > 6 => tap = Idle
    /\ Played >= 5 => reg["IR"] = Bypass

Resting == call = NoCall => tx = <<>> /\ rx = <<>> /\ (up => tap = Idle)

\* Whatever drives TDI, the SPI port holds the same level.
PinKept == mosi = tdi

IInv == Types /\ Scanning /\ Resetting /\ Resting /\ PinKept

-----------------------------------------------------------------------------
(* The port and the timer, clock by clock.                                 *)

Lead == IF Tims THEN 0 ELSE 1

LEMMA Positions ==
  ASSUME NEW r \in {"IR", "DR"}
  PROVE  /\ SelectScan(r) = IF r = "DR" THEN 1 ELSE 2
         /\ ResultPos(r) = SelectScan(r) + 2 + Lead
BY DEF SelectScan, ResultPos, HeadClocks, DummyBits, CaptureBits, Lead

LEMMA Transitions ==
  /\ NextTap(Idle, 0) = Idle /\ NextTap(Idle, 1) = <<"Select", "DR">>
  /\ NextTap(Reset, 0) = Idle /\ NextTap(Reset, 1) = Reset
  /\ NextTap(<<"Select", "DR">>, 1) = <<"Select", "IR">>
  /\ \A r \in {"IR", "DR"} :
        /\ NextTap(<<"Select", r>>, 0) = <<"Capture", r>>
        /\ NextTap(<<"Capture", r>>, 0) = <<"Shift", r>>
        /\ NextTap(<<"Shift", r>>, 0) = <<"Shift", r>>
        /\ NextTap(<<"Shift", r>>, 1) = <<"Exit1", r>>
        /\ NextTap(<<"Exit1", r>>, 1) = <<"Update", r>>
        /\ NextTap(<<"Update", r>>, 0) = Idle
BY DEF NextTap, Branches, Idle, Reset

LEMMA ScanTapSteps ==
  ASSUME NEW r \in {"IR", "DR"}, NEW n \in Nat, n >= 8, NEW k \in Nat,
         NEW s, s = (IF r = "DR" THEN 1 ELSE 2), NEW p \in {s + 2, s + 3}
  PROVE  NextTap(ScanTap(r, s, p, n, k), ScanTms(s, p, n, k + 1))
           = ScanTap(r, s, p, n, k + 1)
<1> DEFINE now == ScanTap(r, s, p, n, k)
           tms == ScanTms(s, p, n, k + 1)
           new == ScanTap(r, s, p, n, k + 1)
<1> USE DEF ScanTap, ScanTms
<1>1. CASE k < p - 2 - s
  <2>1. now = Idle /\ tms = 0 /\ new = Idle
    BY <1>1
  <2> QED
    BY <2>1, Transitions
<1>2. CASE k = p - 2 - s
  <2>1. now = Idle /\ tms = 1 /\ new = <<"Select", "DR">>
    BY <1>2
  <2> QED
    BY <2>1, Transitions
<1>3. CASE k = p - 1 - s /\ r = "IR"
  <2>1. now = <<"Select", "DR">> /\ tms = 1 /\ new = <<"Select", "IR">>
    BY <1>3
  <2> QED
    BY <2>1, Transitions
<1>4. CASE k = p - 2
  <2>1. now = <<"Select", r>> /\ tms = 0 /\ new = <<"Capture", r>>
    BY <1>4
  <2> QED
    BY <2>1, Transitions
<1>5. CASE k = p - 1
  <2>1. now = <<"Capture", r>> /\ tms = 0 /\ new = <<"Shift", r>>
    BY <1>5
  <2> QED
    BY <2>1, Transitions
<1>6. CASE k >= p /\ k < p + n - 1
  <2>1. now = <<"Shift", r>> /\ tms = 0 /\ new = <<"Shift", r>>
    BY <1>6
  <2> QED
    BY <2>1, Transitions
<1>7. CASE k = p + n - 1
  <2>1. now = <<"Shift", r>> /\ tms = 1 /\ new = <<"Exit1", r>>
    BY <1>7
  <2> QED
    BY <2>1, Transitions
<1>8. CASE k = p + n
  <2>1. now = <<"Exit1", r>> /\ tms = 1 /\ new = <<"Update", r>>
    BY <1>8
  <2> QED
    BY <2>1, Transitions
<1>9. CASE k = p + n + 1
  <2>1. now = <<"Update", r>> /\ tms = 0 /\ new = Idle
    BY <1>9
  <2> QED
    BY <2>1, Transitions
<1>10. CASE k > p + n + 1
  <2>1. now = Idle /\ tms = 0 /\ new = Idle
    BY <1>10
  <2> QED
    BY <2>1, Transitions
<1> QED
  BY <1>1, <1>2, <1>3, <1>4, <1>5, <1>6, <1>7, <1>8, <1>9, <1>10

\* u is t after an edge.
Edge(t, u) ==
  /\ u.ccr2 = t.ccr2 /\ u.arr2 = t.arr2
  /\ t.cnt # t.arr => u.cnt = t.cnt + 1 /\ u.ccr = t.ccr /\ u.arr = t.arr
  /\ t.cnt = t.arr => u.cnt = 0 /\ u.ccr = t.ccr2 /\ u.arr = t.arr2

LEMMA EdgeFacts ==
  ASSUME NEW t \in Timer
  PROVE  CountEdge(t) \in Timer /\ Edge(t, CountEdge(t))
BY DEF CountEdge, DoublePwm, Timer, Edge

LEMMA SameTimer ==
  ASSUME NEW t \in Timer, NEW u \in Timer,
         t.cnt = u.cnt, t.ccr = u.ccr, t.arr = u.arr, t.ccr2 = u.ccr2, t.arr2 = u.arr2
  PROVE  t = u
BY DEF Timer

\* t has counted 2 * k edges of the pulses of a scan.
Counted(t, a, s, n, k) ==
  LET first == 2 * (1 + s) - a
      e     == 2 * k - first - 1
      arr2  == 2 * n + 5
  IN  /\ t.ccr2 = 2 * (n + 1) - a /\ t.arr2 = arr2
      /\ 2 * k <= first => t.cnt = 2 * k /\ t.ccr = 3 - a /\ t.arr = first
      /\ 2 * k > first => t.ccr = 2 * (n + 1) - a /\ t.arr = arr2
      /\ 2 * k > first /\ e <= arr2 => t.cnt = e
      /\ e > arr2 => t.cnt = e - arr2 - 1

LEMMA ScanTimerFacts ==
  ASSUME NEW a \in {0, 1}, NEW s \in {1, 2}, NEW n \in Nat, n >= 8, NEW k \in Nat
  PROVE  ScanTimer(a, s, n, k) \in Timer /\ Counted(ScanTimer(a, s, n, k), a, s, n, k)
<1> DEFINE first == 2 * (1 + s) - a
           arr2 == 2 * (n + 3) - 1
<1>1. first \in Nat /\ first > 0 /\ arr2 \in Nat /\ arr2 = 2 * n + 5 /\ 2 * (n + 1) - a \in Nat
      /\ 3 - a \in Nat
  OBVIOUS
<1>2. CASE 2 * k <= first
  BY <1>1, <1>2 DEF ScanTimer, Timer, Counted
<1>3. CASE 2 * k > first /\ 2 * k - first - 1 <= arr2
  BY <1>1, <1>3 DEF ScanTimer, Timer, Counted
<1>4. CASE 2 * k - first - 1 > arr2
  BY <1>1, <1>4 DEF ScanTimer, Timer, Counted
<1> QED
  BY <1>1, <1>2, <1>3, <1>4

\* The third pulse is not reached in a frame rounded up to whole bytes.
LEMMA ScanTimerSteps ==
  ASSUME NEW a \in {0, 1}, NEW s \in {1, 2}, NEW n \in Nat, n >= 8,
         NEW k \in Nat, k < s + n + 12
  PROVE  LET t == ScanTimer(a, s, n, k)
         IN  /\ CountEdge(CountEdge(t)) = ScanTimer(a, s, n, k + 1)
             /\ TmsLevel(IF a = 1 THEN t ELSE CountEdge(t)) = ScanTms(s, s + 3, n, k + 1)
<1> DEFINE t == ScanTimer(a, s, n, k)
           u == CountEdge(t)
           v == CountEdge(u)
           w == ScanTimer(a, s, n, k + 1)
<1>1. t \in Timer /\ Counted(t, a, s, n, k)
  BY ScanTimerFacts
<1>2. w \in Timer /\ Counted(w, a, s, n, k + 1)
  BY ScanTimerFacts
<1> HIDE DEF t, w
<1>3. u \in Timer /\ Edge(t, u)
  BY <1>1, EdgeFacts
<1> HIDE DEF u
<1>4. v \in Timer /\ Edge(u, v)
  BY <1>3, EdgeFacts
<1> HIDE DEF v
<1>5. v.cnt = w.cnt /\ v.ccr = w.ccr /\ v.arr = w.arr /\ v.ccr2 = w.ccr2 /\ v.arr2 = w.arr2
  BY <1>1, <1>2, <1>3, <1>4 DEF Counted, Edge
<1>6. v = w
  BY <1>2, <1>4, <1>5, SameTimer
<1>7. TmsLevel(IF a = 1 THEN t ELSE u) = ScanTms(s, s + 3, n, k + 1)
  BY <1>1, <1>3 DEF Counted, Edge, TmsLevel, ScanTms
<1> QED
  BY <1>6, <1>7 DEF t, u, v, w

-----------------------------------------------------------------------------
(* The frame of a scan                                                     *)

LEMMA FrameLength ==
  ASSUME NEW r \in {"IR", "DR"}, NEW n \in Nat, n >= 8
  PROVE  /\ StreamBytes(r, n) \in Nat
         /\ 8 * StreamBytes(r, n) >= SelectScan(r) + n + 5
         /\ 8 * StreamBytes(r, n) <= SelectScan(r) + n + 12
BY DEF StreamBytes, NecessaryBits, DummyBits, SelectScan, CaptureBits, Shift, ExitBits

\* A frame of scan c, with TDI at level.
IsFrame(f, c, level) ==
  LET n == Len(c.data)
      p == ResultPos(c.op)
  IN  /\ f \in Seq(Slot)
      /\ Len(f) = ScanClocks(c.op, n)
      /\ \A i \in 1 .. Len(f) :
            /\ f[i].tms = IF Tims THEN ScanTms(SelectScan(c.op), p, n, i) ELSE ByTimer
            /\ f[i].tdi = IF i - p \in 1 .. n THEN c.data[i - p] ELSE level

LEMMA WordFacts ==
  ASSUME NEW w \in Word
  PROVE  /\ w \in Seq(Bit) /\ Len(w) \in Nat /\ Len(w) >= 8
         /\ DOMAIN w = 1 .. Len(w)
         /\ \A i \in 1 .. Len(w) : w[i] \in Bit
<1>1. w \in Seq(Bit) /\ Len(w) \in {8, 16, 20, 32}
  BY DEF Word
<1>2. DOMAIN w = 1 .. Len(w) /\ Len(w) \in Nat
  BY <1>1, LenProperties
<1>3. \A i \in 1 .. Len(w) : w[i] \in Bit
  BY <1>1, ElementOfSeq
<1> QED
  BY <1>1, <1>2, <1>3

LEMMA SpiFrameFacts ==
  ASSUME NEW c \in Scans, tdi \in Bit, ~Tims
  PROVE  IsFrame(SpiFrame(c.op, c.data), c, tdi)
<1> DEFINE n == Len(c.data)
           p == ResultPos(c.op)
           N == 8 * StreamBytes(c.op, n)
           f == SpiFrame(c.op, c.data)
<1>1. c.op \in {"IR", "DR"} /\ c.data \in Word
  BY DEF Scans
<1>2. N \in Nat /\ n \in Nat /\ n >= 8 /\ DOMAIN c.data = 1 .. n /\ \A i \in 1 .. n : c.data[i] \in Bit
  <2>1. n \in Nat /\ n >= 8 /\ DOMAIN c.data = 1 .. n /\ \A i \in 1 .. n : c.data[i] \in Bit
    BY <1>1, WordFacts
  <2> HIDE DEF n
  <2>2. N \in Nat
    BY <1>1, <2>1, FrameLength
  <2> QED
    BY <2>1, <2>2
<1>3. p = HeadClocks(c.op) /\ p \in Int
  BY <1>1 DEF ResultPos, HeadClocks, SelectScan, DummyBits, CaptureBits
<1>4. f = [i \in 1 .. N |-> [tms |-> ByTimer, tdi |-> IF i - p \in 1 .. n THEN c.data[i - p] ELSE tdi]]
  BY <1>2, <1>3 DEF SpiFrame
<1> HIDE DEF f, N, n, p
<1>5. f \in Seq(Slot) /\ Len(f) = N
  BY <1>2, <1>3, <1>4 DEF Slot, ByTimer
<1> QED
  BY <1>2, <1>3, <1>4, <1>5 DEF IsFrame, ScanClocks, n, p, N, f

LEMMA Join ==
  ASSUME NEW x \in Seq(Slot), NEW y \in Seq(Slot)
  PROVE  /\ x \o y \in Seq(Slot)
         /\ Len(x \o y) = Len(x) + Len(y)
         /\ \A i \in 1 .. Len(x) + Len(y) :
               (x \o y)[i] = IF i <= Len(x) THEN x[i] ELSE y[i - Len(x)]
BY ConcatProperties

LEMMA RenderFacts ==
  ASSUME NEW c \in Scans, tdi \in Bit, Tims
  PROVE  IsFrame(RenderTransaction(c.op, c.data), c, tdi)
<1> DEFINE n == Len(c.data)
           s == SelectScan(c.op)
           a == [i \in 1 .. s |-> Entry(1, tdi)]
           b == [i \in 1 .. 2 |-> Entry(0, tdi)]
           d == [i \in 1 .. n |-> Entry(IF i = n THEN 1 ELSE 0, c.data[i])]
           e == << Entry(1, tdi), Entry(0, tdi) >>
           f == RenderTransaction(c.op, c.data)
<1>1. s \in {1, 2} /\ ResultPos(c.op) = s + 2
  BY Positions DEF Scans, Lead
<1>2. n \in Nat /\ n >= 8 /\ \A i \in 1 .. n : c.data[i] \in Bit
  BY WordFacts DEF Scans
<1>3. a \in Seq(Slot) /\ Len(a) = s /\ b \in Seq(Slot) /\ Len(b) = 2 /\ d \in Seq(Slot) /\ Len(d) = n
      /\ e \in Seq(Slot) /\ Len(e) = 2
  <2>1. Entry(1, tdi) \in Slot /\ Entry(0, tdi) \in Slot
    BY DEF Entry, Slot
  <2>2. ASSUME NEW i \in 1 .. n
        PROVE  Entry(IF i = n THEN 1 ELSE 0, c.data[i]) \in Slot
    BY <1>2 DEF Entry, Slot
  <2>3. a \in Seq(Slot) /\ Len(a) = s
    BY <2>1, <1>1
  <2>4. b \in Seq(Slot) /\ Len(b) = 2
    BY <2>1
  <2>5. d \in Seq(Slot) /\ Len(d) = n
    BY <2>2, <1>2
  <2>6. e \in Seq(Slot) /\ Len(e) = 2
    BY <2>1
  <2> QED
    BY <2>3, <2>4, <2>5, <2>6
<1>4. f = ((a \o b) \o d) \o e
  BY DEF RenderTransaction, CaptureBits
<1>5. /\ \A i \in 1 .. s : a[i].tms = 1 /\ a[i].tdi = tdi
      /\ \A i \in 1 .. 2 : b[i].tms = 0 /\ b[i].tdi = tdi
      /\ \A i \in 1 .. n : d[i].tms = (IF i = n THEN 1 ELSE 0) /\ d[i].tdi = c.data[i]
      /\ e[1].tms = 1 /\ e[2].tms = 0 /\ e[1].tdi = tdi /\ e[2].tdi = tdi
  BY <1>1, <1>2 DEF Entry
<1> HIDE DEF n, s, a, b, d, e, f
<1> DEFINE g == a \o b
           h == g \o d
<1>6. g \in Seq(Slot) /\ Len(g) = s + 2
      /\ \A i \in 1 .. s + 2 : g[i] = IF i <= s THEN a[i] ELSE b[i - s]
  <2>1. /\ a \o b \in Seq(Slot) /\ Len(a \o b) = Len(a) + Len(b)
        /\ \A i \in 1 .. Len(a) + Len(b) :
              (a \o b)[i] = IF i <= Len(a) THEN a[i] ELSE b[i - Len(a)]
    BY <1>3, Join
  <2> QED
    BY <2>1, <1>1, <1>3
<1> HIDE DEF g
<1>7. h \in Seq(Slot) /\ Len(h) = s + 2 + n
       /\ \A i \in 1 .. s + 2 + n : h[i] = IF i <= s + 2 THEN g[i] ELSE d[i - (s + 2)]
  BY <1>1, <1>2, <1>3, <1>6, Join
<1> HIDE DEF h
<1>8. f \in Seq(Slot) /\ Len(f) = s + 2 + n + 2
      /\ \A i \in 1 .. s + 2 + n + 2 : f[i] = IF i <= s + 2 + n THEN h[i] ELSE e[i - (s + 2 + n)]
  BY <1>1, <1>2, <1>3, <1>4, <1>7, Join DEF g, h
<1>9. \A i \in 1 .. s + n + 4 :
         f[i] = IF i <= s THEN a[i] ELSE IF i <= s + 2 THEN b[i - s]
                ELSE IF i <= s + 2 + n THEN d[i - s - 2] ELSE e[i - s - 2 - n]
  BY <1>1, <1>2, <1>8, <1>6, <1>7
<1>10. ASSUME NEW i \in 1 .. s + n + 4
      PROVE  /\ f[i].tms = ScanTms(s, s + 2, n, i)
             /\ f[i].tdi = IF i - (s + 2) \in 1 .. n THEN c.data[i - (s + 2)] ELSE tdi
  <2>1. CASE i <= s
    BY <2>1, <1>1, <1>2, <1>5, <1>9 DEF ScanTms
  <2>2. CASE i > s /\ i <= s + 2
    BY <2>2, <1>1, <1>2, <1>5, <1>9 DEF ScanTms
  <2>3. CASE i > s + 2 /\ i <= s + 2 + n
    BY <2>3, <1>1, <1>2, <1>5, <1>9 DEF ScanTms
  <2>4. CASE i > s + 2 + n
    <3>1. i - s - 2 - n \in {1, 2} /\ f[i] = e[i - s - 2 - n]
      BY <2>4, <1>1, <1>2, <1>9
    <3>2. f[i].tms = (IF i - s - 2 - n = 1 THEN 1 ELSE 0) /\ f[i].tdi = tdi
      BY <3>1, <1>5
    <3> QED
      BY <2>4, <3>1, <3>2, <1>1, <1>2 DEF ScanTms
  <2> QED
    BY <2>1, <2>2, <2>3, <2>4, <1>1, <1>2
<1> QED
  BY <1>1, <1>2, <1>8, <1>10 DEF IsFrame, ScanClocks, n, s, f

LEMMA FrameFacts ==
  ASSUME NEW c \in Scans, tdi \in Bit
  PROVE  IsFrame(Frame(c), c, tdi)
BY SpiFrameFacts, RenderFacts DEF Frame

-----------------------------------------------------------------------------
(* Values of the variables.                                                *)

LEMMA ConstantFacts ==
  /\ Words \subseteq Word
  /\ JtagId \in Word /\ Bypass \in Word /\ Len(JtagId) = 8 /\ Len(Bypass) = 8
BY WordsAssumption DEF Word, Bit

LEMMA TapFacts ==
  ASSUME NEW t \in TapStates, NEW tms \in Bit
  PROVE  NextTap(t, tms) \in TapStates
<1>1. CASE t = Reset \/ t = Idle
  BY <1>1 DEF NextTap, TapStates, Column, Reset, Idle, Bit
<1>2. CASE t # Reset /\ t # Idle
  <2>1. PICK r \in {"DR", "IR"} : t \in Column(r)
    BY <1>2 DEF TapStates
  <2>2. PICK s \in {"Select", "Capture", "Shift", "Exit1", "Pause", "Exit2", "Update"} :
          t = <<s, r>>
    BY <2>1 DEF Column
  <2>3. NextTap(t, tms) = Branches(r)[s][IF tms = 1 THEN 2 ELSE 1]
    BY <1>2, <2>2 DEF NextTap
  <2>4. Branches(r)[s][IF tms = 1 THEN 2 ELSE 1] \in TapStates
    BY <2>2, SMTT(30) DEF Branches, TapStates, Column, Reset, Idle, Bit
  <2> QED
    BY <2>3, <2>4
<1> QED
  BY <1>1, <1>2

\* A register with one bit more at the end and one less at the beginning.
LEMMA ShiftFacts ==
  ASSUME NEW w \in Word, NEW b \in Bit
  PROVE  LET v == Append(Tail(w), b)
         IN  /\ v \in Word /\ Len(v) = Len(w)
             /\ \A j \in 1 .. Len(w) : v[j] = IF j = Len(w) THEN b ELSE w[j + 1]
<1>1. w \in Seq(Bit) /\ Len(w) \in Nat /\ Len(w) >= 8
  BY WordFacts
<1>2. w # <<>>
  BY <1>1
<1>3. /\ Tail(w) \in Seq(Bit) /\ Len(Tail(w)) = Len(w) - 1
      /\ \A i \in 1 .. Len(Tail(w)) : Tail(w)[i] = w[i + 1]
  BY <1>1, <1>2, HeadTailProperties
<1> DEFINE u == Tail(w)
<1> HIDE DEF u
<1>4. /\ Append(u, b) \in Seq(Bit) /\ Len(Append(u, b)) = Len(u) + 1
      /\ \A i \in 1 .. Len(u) : Append(u, b)[i] = u[i]
      /\ Append(u, b)[Len(u) + 1] = b
  BY <1>3, AppendProperties DEF u
<1> DEFINE v == Append(u, b)
<1>5. Len(u) \in Nat /\ Len(w) = Len(u) + 1
  BY <1>1, <1>3 DEF u
<1>6. /\ v \in Seq(Bit) /\ Len(v) = Len(w) /\ v[Len(w)] = b
      /\ \A i \in 1 .. Len(u) : v[i] = u[i] /\ u[i] = w[i + 1]
  BY <1>3, <1>4, <1>5 DEF u
<1> HIDE DEF v
<1>7. v \in Word
  BY <1>6 DEF Word
<1>8. \A j \in 1 .. Len(w) : v[j] = IF j = Len(w) THEN b ELSE w[j + 1]
  BY <1>5, <1>6
<1> QED
  BY <1>6, <1>7, <1>8 DEF u, v

LEMMA CallFacts ==
  ASSUME Types
  PROVE  /\ call = NoCall => ~IsScan(call) /\ call.op # "Reset"
         /\ IsScan(call) <=> call \in Scans
         /\ call.op = "Reset" <=> call \in Resets
         /\ call # NoCall => call \in Scans \/ call \in Resets
         /\ IsScan(call) => call # NoCall
         /\ call.op = "Reset" => call # NoCall /\ ~IsScan(call)
BY DEF Types, IsScan, NoCall, Scans, Resets

-----------------------------------------------------------------------------
(* The invariant holds at first and when an operation starts.              *)

LEMMA InitFacts == Init => IInv
<1> SUFFICES ASSUME Init PROVE IInv
  OBVIOUS
<1>1. sr \in Word /\ reg \in [{"IR", "DR"} -> Word]
  BY ConstantFacts DEF Init
<1>2. shaper \in Timer
  BY DEF Init, DoublePwm, Timer
<1>3. tdi \in Bit /\ mosi = tdi
  BY DEF Init
<1>4. tx \in Seq(Slot) /\ rx \in Seq({0, 1, 2}) /\ answer \in Seq(Bit)
  BY DEF Init, NoAnswer
<1>5. cycles \in Nat /\ strobe = "none"
  BY DEF Init
<1>6. Types
  BY <1>1, <1>2, <1>3, <1>4, <1>5 DEF Init, Types
<1>7. call.op # "Reset" /\ ~IsScan(call)
  BY DEF Init, NoCall, IsScan
<1> QED
  BY <1>3, <1>6, <1>7 DEF Init, IInv, Scanning, Resetting, Resting, PinKept

LEMMA PulseFacts ==
  ASSUME NEW r \in {"IR", "DR"}, NEW n \in Nat, n >= 8
  PROVE  /\ Anticipation \in {0, 1}
         /\ ScanPulses(r, n) = ScanTimer(Anticipation, SelectScan(r), n, 0)
         /\ ScanPulses(r, n) \in Timer
         /\ ResetPulses = ResetTimer(Anticipation, 0)
         /\ ResetPulses \in Timer
<1> DEFINE a == Anticipation
           s == SelectScan(r)
<1>1. a \in {0, 1} /\ s \in {1, 2}
  BY DEF Anticipation, SelectScan
<1>2. ScanPulses(r, n) = [cnt |-> 0, ccr |-> 2 * 1 + 1 - a, arr |-> 2 * (1 + s) - a,
                          ccr2 |-> 2 * (2 + (n - 1)) - a,
                          arr2 |-> 2 * (2 + (n - 1) + 2) - 1]
  BY DEF ScanPulses, DoublePwm, DummyBits, CaptureBits, Shift, ExitBits
<1>3. ResetPulses = [cnt |-> 0, ccr |-> 0, arr |-> 12 - a, ccr2 |-> 4095, arr2 |-> 4095]
  BY DEF ResetPulses, DoublePwm
<1> HIDE DEF a, s
<1>4. ScanTimer(a, s, n, 0) = [cnt |-> 0, ccr |-> 3 - a, arr |-> 2 * (1 + s) - a,
                               ccr2 |-> 2 * (n + 1) - a, arr2 |-> 2 * (n + 3) - 1]
  BY <1>1 DEF ScanTimer
<1>5. ScanPulses(r, n) = ScanTimer(a, s, n, 0)
  BY <1>1, <1>2, <1>4
<1>6. ResetPulses = ResetTimer(a, 0)
  BY <1>1, <1>3 DEF ResetTimer
<1>7. ResetPulses \in Timer
  BY <1>1, <1>3 DEF Timer
<1> QED
  BY <1>1, <1>5, <1>6, <1>7, ScanTimerFacts DEF a, s

LEMMA StartScan ==
  ASSUME IInv, NEW c \in Scans, OnScan(c),
         Len(c.data) = Len(IF c.op = "IR" THEN JtagId ELSE reg["DR"])
  PROVE  IInv'
<1> DEFINE n == Len(c.data)
           s == SelectScan(c.op)
           p == ResultPos(c.op)
           f == Frame(c)
<1>1. /\ call = NoCall /\ up /\ call' = c /\ tx' = f /\ rx' = <<>> /\ answer' = NoAnswer
      /\ shaper' = ScanPulses(c.op, n)
      /\ strobe' = "none" /\ cycles' = 0
      /\ UNCHANGED <<driver, tap, sr, reg, tdi, mosi, up>>
  BY DEF OnScan, Start
<1>2. tap = Idle
  BY <1>1 DEF IInv, Resting
<1>3. Types /\ mosi = tdi
  BY DEF IInv, PinKept
<1>4. c.op \in {"IR", "DR"} /\ c.data \in Word /\ n \in Nat /\ n >= 8
  BY WordFacts DEF Scans
<1>5. s \in {1, 2} /\ p \in {s + 2, s + 3} /\ (~Tims => p = s + 3) /\ (Tims => p = s + 2)
  BY <1>4, Positions DEF Lead
<1>6. IsFrame(f, c, tdi)
  BY <1>3, FrameFacts DEF Types
<1>7. /\ f \in Seq(Slot) /\ Len(f) = ScanClocks(c.op, n)
      /\ \A i \in 1 .. Len(f) :
            /\ f[i].tms = IF Tims THEN ScanTms(s, p, n, i) ELSE ByTimer
            /\ f[i].tdi = IF i - p \in 1 .. n THEN c.data[i - p] ELSE tdi
  BY <1>6 DEF IsFrame
<1>8. Len(f) \in Nat /\ Len(f) >= p + n + 2
  <2>1. /\ 8 * StreamBytes(c.op, n) >= s + n + 5 /\ StreamBytes(c.op, n) \in Nat
    BY <1>4, FrameLength
  <2>2. ScanClocks(c.op, n) = IF Tims THEN p + n + 2 ELSE 8 * StreamBytes(c.op, n)
    BY DEF ScanClocks
  <2> HIDE DEF n, s, p, f
  <2> QED
    BY <1>4, <1>5, <1>7, <2>1, <2>2
<1>9. /\ Tims' = Tims /\ Anticipation' = Anticipation /\ Played' = 0 /\ Width' = n
      /\ S' = s /\ P' = p
  BY <1>1 DEF Tims, Anticipation, Played, Width, S, P, ResultPos, HeadClocks
<1>10. ScanClocks(call.op, Width)' = ScanClocks(c.op, n)
  BY <1>1, <1>9 DEF ScanClocks, ResultPos
<1>11. IsScan(call)' /\ call' # NoCall /\ call'.op # "Reset"
  BY <1>1, <1>4 DEF IsScan, NoCall
<1> HIDE DEF n, s, p, f
<1>12. Level' = tdi
  <2>1. tx' # <<>> /\ Len(tx') = Len(f)
    BY <1>1, <1>7, <1>8, <1>4, <1>5
  <2>2. f[Len(f)].tdi = tdi
    BY <1>4, <1>5, <1>7, <1>8
  <2> QED
    BY <2>1, <2>2, <1>1 DEF Level
<1>13. Types'
  <2>1. shaper' \in Timer
    BY <1>1, <1>4, PulseFacts
  <2>2. call' \in {NoCall} \cup Scans \cup Resets
    BY <1>1
  <2>3. tx' \in Seq(Slot) /\ rx' \in Seq({0, 1, 2}) /\ answer' \in Seq(Bit)
    BY <1>1, <1>7 DEF NoAnswer
  <2> QED
    BY <2>1, <2>2, <2>3, <1>1, <1>3 DEF Types
<1>14. Scanning'
  <2>1. Len(Captured') = Width'
    BY <1>1, <1>9 DEF Captured, n
  <2>2. Played' + Len(tx') = ScanClocks(call.op, Width)'
    BY <1>1, <1>7, <1>8, <1>9, <1>10
  <2>3. ASSUME NEW i \in 1 .. Len(tx')
        PROVE  ScanSlot(i)'
    <3>1. Played' + i = i /\ i \in 1 .. Len(f)
      BY <1>1, <1>9
    <3>2. tx'[i].tms = (IF Tims THEN ScanTms(S, P, Width, Played + i) ELSE ByTimer)'
      BY <3>1, <1>1, <1>7, <1>9 DEF ByTimer
    <3>3. tx'[i].tdi = (IF Played + i - P \in 1 .. Width THEN call.data[Played + i - P] ELSE Level)'
      <4>1. call'.data = c.data /\ tx'[i].tdi = IF i - p \in 1 .. n THEN c.data[i - p] ELSE tdi
        BY <3>1, <1>1, <1>7
      <4>2. Played' + i - P' = i - p /\ 1 .. Width' = 1 .. n
        BY <3>1, <1>4, <1>5, <1>8, <1>9
      <4>3. (IF Played + i - P \in 1 .. Width THEN call.data[Played + i - P] ELSE Level)'
              = IF i - p \in 1 .. n THEN c.data[i - p] ELSE tdi
        BY <4>2, <4>1, <1>12
      <4> QED
        BY <4>1, <4>3
    <3> QED
      BY <3>2, <3>3 DEF ScanSlot
  <2>4. tap' = ScanTap(call.op, S, P, Width, Played)'
    <3>1. ScanTap(c.op, s, p, n, 0) = Idle
      BY <1>5 DEF ScanTap
    <3> QED
      BY <3>1, <1>1, <1>2, <1>9
  <2>5. ~Tims' => shaper' = ScanTimer(Anticipation, S, Width, Played)'
    BY <1>1, <1>4, <1>9, PulseFacts DEF s
  <2>6. tdi' = Level'
    BY <1>1, <1>12
  <2>7. Moved' /\ Sampled'
    BY <1>4, <1>5, <1>9 DEF Moved, Sampled
  <2> QED
    BY <2>1, <2>2, <2>3, <2>4, <2>5, <2>6, <2>7, <1>1 DEF Scanning
<1>15. Resetting' /\ Resting' /\ PinKept'
  BY <1>1, <1>3, <1>11 DEF Resetting, Resting, PinKept
<1> QED
  BY <1>13, <1>14, <1>15 DEF IInv

LEMMA GoIdleFacts ==
  ASSUME tdi \in Bit
  PROVE  /\ GoIdle \in Seq(Slot) /\ Len(GoIdle) = 7
         /\ \A i \in 1 .. 7 : GoIdle[i].tms = ResetTms(i) /\ GoIdle[i].tdi = tdi
<1> DEFINE a == [i \in 1 .. 6 |-> Entry(1, tdi)]
           b == << Entry(0, tdi) >>
<1>1. Entry(1, tdi) \in Slot /\ Entry(0, tdi) \in Slot
  BY DEF Entry, Slot
<1>2. a \in Seq(Slot) /\ Len(a) = 6 /\ b \in Seq(Slot) /\ Len(b) = 1
  BY <1>1
<1>3. /\ \A i \in 1 .. 6 : a[i].tms = 1 /\ a[i].tdi = tdi
      /\ b[1].tms = 0 /\ b[1].tdi = tdi
  BY DEF Entry
<1>4. GoIdle = a \o b
  BY DEF GoIdle
<1> HIDE DEF a, b
<1>5. /\ a \o b \in Seq(Slot) /\ Len(a \o b) = Len(a) + Len(b)
      /\ \A i \in 1 .. Len(a) + Len(b) :
            (a \o b)[i] = IF i <= Len(a) THEN a[i] ELSE b[i - Len(a)]
  BY <1>2, Join
<1> DEFINE g == a \o b
<1>6. g \in Seq(Slot) /\ Len(g) = 7 /\ \A i \in 1 .. 7 : g[i] = IF i <= 6 THEN a[i] ELSE b[1]
  BY <1>2, <1>5
<1> HIDE DEF g
<1> QED
  BY <1>3, <1>4, <1>6, SMTT(30) DEF g, ResetTms

LEMMA StartReset ==
  ASSUME IInv, OnResetTap
  PROVE  IInv'
<1> DEFINE f == IF Tims THEN GoIdle ELSE [i \in 1 .. 8 |-> [tms |-> ByTimer, tdi |-> 1]]
<1>1. /\ call' = [op |-> "Reset"] /\ tx' = f /\ rx' = <<>> /\ answer' = NoAnswer
      /\ shaper' = ResetPulses
      /\ strobe' = "none" /\ cycles' = 0
      /\ UNCHANGED <<driver, tap, sr, reg, tdi, mosi, up>>
  BY DEF OnResetTap, Start
<1>2. Types /\ mosi = tdi /\ tdi \in Bit /\ tap \in TapStates
  BY DEF IInv, PinKept, Types
<1>3. /\ f \in Seq(Slot) /\ Len(f) = ResetClocks
      /\ \A i \in 1 .. Len(f) :
            /\ f[i].tms = IF Tims THEN ResetTms(i) ELSE ByTimer
            /\ f[i].tdi = f[1].tdi /\ f[i].tdi \in {tdi, 1}
  <2>1. CASE Tims
    <3>1. f = GoIdle
      BY <2>1
    <3> HIDE DEF f
    <3>2. f \in Seq(Slot) /\ Len(f) = 7 /\ \A i \in 1 .. 7 : f[i].tms = ResetTms(i) /\ f[i].tdi = tdi
      BY <3>1, <1>2, GoIdleFacts
    <3> QED
      BY <2>1, <3>2 DEF ResetClocks
  <2>2. CASE ~Tims
    <3>1. f = [i \in 1 .. 8 |-> [tms |-> ByTimer, tdi |-> 1]]
      BY <2>2
    <3> HIDE DEF f
    <3>2. [tms |-> ByTimer, tdi |-> 1] \in Slot
      BY DEF Slot, ByTimer, Bit
    <3>3. f \in Seq(Slot) /\ Len(f) = 8
      BY <3>1, <3>2
    <3>4. \A i \in 1 .. 8 : f[i].tms = ByTimer /\ f[i].tdi = 1
      BY <3>1
    <3> QED
      BY <2>2, <3>3, <3>4 DEF ResetClocks
  <2> QED
    BY <2>1, <2>2
<1> HIDE DEF f
<1>4. Tims' = Tims /\ Anticipation' = Anticipation /\ Played' = 0 /\ ResetClocks' = ResetClocks
  BY <1>1 DEF Tims, Anticipation, Played, ResetClocks
<1>5. ~IsScan(call)' /\ call' # NoCall /\ call'.op = "Reset"
  BY <1>1 DEF IsScan, NoCall
<1>6. Types'
  <2>1. shaper' \in Timer
    BY <1>1, PulseFacts
  <2>2. call' \in {NoCall} \cup Scans \cup Resets
    BY <1>1 DEF Resets
  <2>3. tx' \in Seq(Slot) /\ rx' \in Seq({0, 1, 2}) /\ answer' \in Seq(Bit)
    BY <1>1, <1>3 DEF NoAnswer
  <2> QED
    BY <2>1, <2>2, <2>3, <1>1, <1>2 DEF Types
<1>7. Resetting'
  <2>1. Len(f) \in Nat
    BY <1>3 DEF ResetClocks
  <2>2. Played' + Len(tx') = ResetClocks'
    BY <1>1, <1>3, <1>4, <2>1
  <2>3. ASSUME NEW i \in 1 .. Len(tx')
        PROVE  /\ tx'[i].tms = (IF Tims THEN ResetTms(Played + i) ELSE ByTimer)'
               /\ tx'[i].tdi \in {tdi', 1} /\ tx'[i].tdi = tx'[1].tdi
    <3>1. Played' + i = i /\ i \in 1 .. Len(f)
      BY <1>1, <1>4, <2>1
    <3> QED
      BY <3>1, <1>1, <1>3, <1>4 DEF ByTimer
  <2>4. ~Tims' => shaper' = ResetTimer(Anticipation, Played)'
    BY <1>1, <1>4, PulseFacts
  <2>5. Highs(tap) <= 5
    BY DEF Highs
  <2> QED
    BY <2>2, <2>3, <2>4, <2>5, <1>1, <1>4 DEF Resetting
<1>8. Scanning' /\ Resting' /\ PinKept'
  BY <1>1, <1>2, <1>5 DEF Scanning, Resting, PinKept
<1> QED
  BY <1>6, <1>7, <1>8 DEF IInv

-----------------------------------------------------------------------------
(* A clock, and what it does whatever operation is in progress.            *)

Tms == IF Head(tx).tms = ByTimer THEN ShapedTms ELSE Head(tx).tms

LEMMA ClockFacts ==
  ASSUME Types, Clock
  PROVE  /\ call # NoCall /\ tx # <<>> /\ Len(tx) \in Nat /\ Len(tx) > 0
         /\ Played \in Nat /\ Played' = Played + 1
         /\ tx' \in Seq(Slot) /\ Len(tx') = Len(tx) - 1
         /\ \A i \in 1 .. Len(tx') : tx'[i] = tx[i + 1]
         /\ Head(tx) = tx[1] /\ tx[1] \in Slot
         /\ tdi' = tx[1].tdi /\ mosi' = tx[1].tdi
         /\ tap' = NextTap(tap, Tms)
         /\ rx' \in Seq({0, 1, 2}) /\ sr' \in Word
         /\ reg' = IF tap'[1] = "Update" THEN [reg EXCEPT ![tap'[2]] = sr']
                   ELSE IF tap' = Reset THEN [reg EXCEPT !["IR"] = Bypass]
                   ELSE reg
         /\ shaper' = CountEdge(CountEdge(shaper)) /\ shaper' \in Timer
         /\ cycles' = cycles + IF tap = Idle THEN Rise(tdi, tdi') ELSE 0
         /\ cycles' \in Nat
         /\ UNCHANGED <<driver, call, answer, up, strobe>>
<1>1. /\ call # NoCall /\ tx # <<>> /\ tx' = Tail(tx) /\ tdi' = Head(tx).tdi /\ mosi' = Head(tx).tdi
      /\ shaper' = CountEdge(CountEdge(shaper)) /\ UNCHANGED <<driver, call, answer, up, strobe>>
  BY DEF Clock
<1>2. tap' = NextTap(tap, Tms)
  BY DEF Clock, Tms
<1>3. rx' = Append(rx, IF tap[1] = "Shift" THEN Head(sr) ELSE Floating)
  BY DEF Clock
<1>4. sr' = IF tap[1] # "Capture"
            THEN IF tap[1] = "Shift" THEN Append(Tail(sr), Head(tx).tdi) ELSE sr
            ELSE IF tap[2] = "IR" THEN JtagId ELSE reg["DR"]
  BY DEF Clock
<1>5. reg' = IF tap'[1] = "Update" THEN [reg EXCEPT ![tap'[2]] = sr']
             ELSE IF tap' = Reset THEN [reg EXCEPT !["IR"] = Bypass]
             ELSE reg
  BY DEF Clock
<1>6. cycles' = cycles + IF tap = Idle THEN Rise(tdi, tdi') ELSE 0
  BY DEF Clock
<1>7. /\ Head(tx) \in Slot /\ Tail(tx) \in Seq(Slot) /\ Len(Tail(tx)) = Len(tx) - 1
      /\ \A i \in 1 .. Len(Tail(tx)) : Tail(tx)[i] = tx[i + 1]
  BY <1>1, HeadTailProperties DEF Types
<1>8. Len(tx) \in Nat /\ Len(tx) > 0 /\ Head(tx) = tx[1]
  BY <1>1, EmptySeq DEF Types
<1>9. Head(tx).tdi \in Bit
  BY <1>7 DEF Slot
<1>10. sr \in Word /\ Head(sr) \in Bit
  <2>1. sr \in Word
    BY DEF Types
  <2>2. sr \in Seq(Bit) /\ sr # <<>>
    BY <2>1, WordFacts
  <2> QED
    BY <2>1, <2>2, HeadTailProperties
<1>11. sr' \in Word
  BY <1>4, <1>9, <1>10, ShiftFacts, ConstantFacts DEF Types
<1>12. rx' \in Seq({0, 1, 2}) /\ Len(rx') = Len(rx) + 1 /\ Len(rx) \in Nat
  <2>1. (IF tap[1] = "Shift" THEN Head(sr) ELSE Floating) \in {0, 1, 2}
    BY <1>10 DEF Bit, Floating
  <2>2. rx \in Seq({0, 1, 2})
    BY DEF Types
  <2> QED
    BY <2>1, <2>2, <1>3, AppendProperties, LenProperties
<1>13. shaper' \in Timer
  <2>1. shaper \in Timer
    BY DEF Types
  <2>2. CountEdge(shaper) \in Timer
    BY <2>1, EdgeFacts
  <2> QED
    BY <2>2, <1>1, EdgeFacts
<1>14. cycles' \in Nat
  BY <1>6 DEF Types, Rise
<1> QED
  BY <1>1, <1>2, <1>5, <1>6, <1>7, <1>8, <1>11, <1>12, <1>13, <1>14 DEF Played

\* What the port shows at TDO and keeps of TDI.
LEMMA ShiftRegister ==
  ASSUME Types, Clock
  PROVE  /\ Len(rx') = Len(rx) + 1 /\ Len(rx) \in Nat
         /\ \A i \in 1 .. Len(rx) : rx'[i] = rx[i]
         /\ rx'[Len(rx) + 1] = IF tap[1] = "Shift" THEN sr[1] ELSE Floating
         /\ sr[1] \in Bit
         /\ tap[1] = "Capture" => sr' = IF tap[2] = "IR" THEN JtagId ELSE reg["DR"]
         /\ tap[1] = "Shift" =>
              /\ Len(sr') = Len(sr)
              /\ \A j \in 1 .. Len(sr) : sr'[j] = IF j = Len(sr) THEN tx[1].tdi ELSE sr[j + 1]
         /\ tap[1] \notin {"Capture", "Shift"} => sr' = sr
<1>1. sr \in Word /\ rx \in Seq({0, 1, 2})
  BY DEF Types
<1>2. sr \in Seq(Bit) /\ sr # <<>>
  BY <1>1, WordFacts
<1>3. Head(sr) = sr[1] /\ sr[1] \in Bit
  BY <1>2, HeadTailProperties
<1>4. rx' = Append(rx, IF tap[1] = "Shift" THEN Head(sr) ELSE Floating)
  BY DEF Clock
<1>5. sr' = IF tap[1] # "Capture"
            THEN IF tap[1] = "Shift" THEN Append(Tail(sr), Head(tx).tdi) ELSE sr
            ELSE IF tap[2] = "IR" THEN JtagId ELSE reg["DR"]
  BY DEF Clock
<1>6. (IF tap[1] = "Shift" THEN Head(sr) ELSE Floating) \in {0, 1, 2}
  BY <1>3 DEF Bit, Floating
<1>7. /\ Len(rx') = Len(rx) + 1 /\ Len(rx) \in Nat
      /\ \A i \in 1 .. Len(rx) : rx'[i] = rx[i]
      /\ rx'[Len(rx) + 1] = IF tap[1] = "Shift" THEN Head(sr) ELSE Floating
  BY <1>1, <1>4, <1>6, AppendProperties, LenProperties
<1>8. tx[1].tdi \in Bit /\ Head(tx) = tx[1]
  BY ClockFacts DEF Slot
<1>9. tap[1] = "Shift" =>
        /\ Len(sr') = Len(sr)
        /\ \A j \in 1 .. Len(sr) : sr'[j] = IF j = Len(sr) THEN tx[1].tdi ELSE sr[j + 1]
  BY <1>1, <1>5, <1>8, ShiftFacts
<1> QED
  BY <1>3, <1>5, <1>7, <1>9

IsScanTap(t, r, s, p, n, k) ==
  /\ t \in TapStates /\ t # Reset
  /\ t = Idle <=> k <= p - 2 - s \/ k >= p + n + 2
  /\ t[1] = "Capture" <=> k = p - 1
  /\ t[1] = "Shift" <=> p <= k /\ k < p + n
  /\ t[1] = "Update" <=> k = p + n + 1
  /\ k >= p - 1 /\ k <= p + n + 1 => t[2] = r

LEMMA ScanTapFacts ==
  ASSUME NEW r \in {"IR", "DR"}, NEW n \in Nat, n >= 8, NEW k \in Nat,
         NEW s, s = (IF r = "DR" THEN 1 ELSE 2), NEW p \in {s + 2, s + 3}
  PROVE  IsScanTap(ScanTap(r, s, p, n, k), r, s, p, n, k)
<1> DEFINE t == ScanTap(r, s, p, n, k)
<1> USE DEF Idle, Reset, TapStates, Column, IsScanTap
<1>1. CASE k <= p - 2 - s \/ k >= p + n + 2
  <2>1. t = Idle
    BY <1>1 DEF ScanTap
  <2> HIDE DEF t
  <2> QED
    BY <2>1, <1>1 DEF t
<1>2. CASE k > p - 2 - s /\ k <= p - 2
  <2>1. t = <<"Select", "DR">> \/ t = <<"Select", "IR">>
    BY <1>2 DEF ScanTap
  <2> HIDE DEF t
  <2> QED
    BY <2>1, <1>2 DEF t
<1>3. CASE k = p - 1
  <2>1. t = <<"Capture", r>>
    BY <1>3 DEF ScanTap
  <2> HIDE DEF t
  <2> QED
    BY <2>1, <1>3 DEF t
<1>4. CASE p <= k /\ k < p + n
  <2>1. t = <<"Shift", r>>
    BY <1>4 DEF ScanTap
  <2> HIDE DEF t
  <2> QED
    BY <2>1, <1>4 DEF t
<1>5. CASE k = p + n
  <2>1. t = <<"Exit1", r>>
    BY <1>5 DEF ScanTap
  <2> HIDE DEF t
  <2> QED
    BY <2>1, <1>5 DEF t
<1>6. CASE k = p + n + 1
  <2>1. t = <<"Update", r>>
    BY <1>6 DEF ScanTap
  <2> HIDE DEF t
  <2> QED
    BY <2>1, <1>6 DEF t
<1> QED
  BY <1>1, <1>2, <1>3, <1>4, <1>5, <1>6

\* What holds of a scan in progress.
LEMMA ScanFacts ==
  ASSUME Types, Scanning, IsScan(call)
  PROVE  /\ call \in Scans /\ call.op \in {"IR", "DR"} /\ call.data \in Word
         /\ Width \in Nat /\ Width >= 8 /\ Played \in Nat /\ Len(tx) \in Nat
         /\ S \in {1, 2} /\ S = (IF call.op = "DR" THEN 1 ELSE 2)
         /\ P \in {S + 2, S + 3} /\ (~Tims => P = S + 3)
         /\ ScanClocks(call.op, Width) >= P + Width + 2
         /\ ~Tims => ScanClocks(call.op, Width) <= S + Width + 12
         /\ Anticipation \in {0, 1} /\ (Anticipation = 1 <=> driver = "vhc")
         /\ Tims => driver # "vhc"
<1>1. call \in Scans
  BY CallFacts
<1>2. call.op \in {"IR", "DR"} /\ call.data \in Word
  BY <1>1 DEF Scans
<1>3. Width \in Nat /\ Width >= 8
  BY <1>2, WordFacts DEF Width
<1>4. Played \in Nat /\ Len(tx) \in Nat
  BY LenProperties DEF Types, Played
<1>5. S \in {1, 2} /\ S = (IF call.op = "DR" THEN 1 ELSE 2) /\ P \in {S + 2, S + 3}
      /\ (Tims => P = S + 2) /\ (~Tims => P = S + 3)
  BY <1>2, Positions DEF S, P, Lead
<1>6. ScanClocks(call.op, Width) = IF Tims THEN P + Width + 2 ELSE 8 * StreamBytes(call.op, Width)
  BY DEF ScanClocks, P
<1>7. /\ 8 * StreamBytes(call.op, Width) >= S + Width + 5 /\ StreamBytes(call.op, Width) \in Nat
      /\ 8 * StreamBytes(call.op, Width) <= S + Width + 12
  BY <1>2, <1>3, FrameLength DEF S
<1>8. Anticipation \in {0, 1} /\ (Anticipation = 1 <=> driver = "vhc") /\ (Tims => driver # "vhc")
  BY DEF Anticipation, Tims
<1> QED
  BY <1>1, <1>2, <1>3, <1>4, <1>5, <1>6, <1>7, <1>8

\* The next clock of a scan.
LEMMA ScanClock ==
  ASSUME IInv, Clock, IsScan(call)
  PROVE  /\ tap' = ScanTap(call.op, S, P, Width, Played + 1)
         /\ ~Tims => shaper' = ScanTimer(Anticipation, S, Width, Played + 1)
         /\ Level' = Level
         /\ tdi' = IF Played + 1 - P \in 1 .. Width THEN call.data[Played + 1 - P] ELSE Level
         /\ reg' = IF Played = P + Width THEN [reg EXCEPT ![call.op] = call.data] ELSE reg
         /\ cycles' = cycles
<1> DEFINE k == Played
<1>1. Types /\ Scanning
  BY DEF IInv
<1>2. /\ call.op \in {"IR", "DR"} /\ Width \in Nat /\ Width >= 8 /\ k \in Nat /\ k + 1 \in Nat
       /\ S = (IF call.op = "DR" THEN 1 ELSE 2) /\ P \in {S + 2, S + 3}
  BY <1>1, ScanFacts
<1>3. Played + Len(tx) = ScanClocks(call.op, Width) /\ tap = ScanTap(call.op, S, P, Width, k)
      /\ (~Tims => shaper = ScanTimer(Anticipation, S, Width, k))
      /\ (k <= P \/ k >= P + Width + 1 => tdi = Level)
      /\ ScanSlot(1)
  BY <1>1, ClockFacts DEF Scanning
<1>4. tx[1].tms = (IF Tims THEN ScanTms(S, P, Width, k + 1) ELSE ByTimer)
      /\ tx[1].tdi = IF k + 1 - P \in 1 .. Width THEN call.data[k + 1 - P] ELSE Level
  BY <1>3 DEF ScanSlot
<1>5. Tms = ScanTms(S, P, Width, k + 1)
  <2>1. CASE Tims
    <3>1. Head(tx).tms = ScanTms(S, P, Width, k + 1)
      BY <2>1, <1>1, <1>4, ClockFacts
    <3>2. ScanTms(S, P, Width, k + 1) # ByTimer
      BY DEF ScanTms, ByTimer
    <3> QED
      BY <3>1, <3>2 DEF Tms
  <2>2. CASE ~Tims
    <3>1. Tms = ShapedTms
      BY <2>2, <1>1, <1>4, ClockFacts DEF Tms
    <3>2. k < S + Width + 12 /\ P = S + 3 /\ k \in Nat
      <4>1. P = S + 3 /\ ScanClocks(call.op, Width) <= S + Width + 12
        BY <2>2, <1>1, ScanFacts
      <4>2. Len(tx) \in Nat /\ Len(tx) > 0 /\ k \in Nat
        BY <1>1, ClockFacts
      <4>3. k + Len(tx) = ScanClocks(call.op, Width)
        BY <1>3
      <4>4. S \in {1, 2} /\ Width \in Nat
        BY <1>1, ScanFacts
      <4> HIDE DEF k
      <4> QED
        BY <4>1, <4>2, <4>3, <4>4
    <3>3. TmsLevel(IF Anticipation = 1 THEN ScanTimer(Anticipation, S, Width, k)
                   ELSE CountEdge(ScanTimer(Anticipation, S, Width, k)))
            = ScanTms(S, S + 3, Width, k + 1)
      BY <1>1, <3>2, ScanFacts, ScanTimerSteps
    <3>4. ShapedTms = TmsLevel(IF Anticipation = 1 THEN shaper ELSE CountEdge(shaper))
      BY <1>1, ScanFacts DEF ShapedTms
    <3> QED
      BY <2>2, <1>3, <3>1, <3>2, <3>3, <3>4
  <2> QED
    BY <2>1, <2>2
<1>6. tap' = ScanTap(call.op, S, P, Width, k + 1)
  <2>1. NextTap(ScanTap(call.op, S, P, Width, k), ScanTms(S, P, Width, k + 1))
          = ScanTap(call.op, S, P, Width, k + 1)
    BY <1>2, ScanTapSteps
  <2> QED
    BY <2>1, <1>1, <1>3, <1>5, ClockFacts
<1>7. ~Tims => shaper' = ScanTimer(Anticipation, S, Width, k + 1)
  <2> SUFFICES ASSUME ~Tims
               PROVE  shaper' = ScanTimer(Anticipation, S, Width, k + 1)
    OBVIOUS
  <2>1. k < S + Width + 12 /\ k \in Nat
    BY <1>1, <1>3, ScanFacts, ClockFacts
  <2>2. CountEdge(CountEdge(ScanTimer(Anticipation, S, Width, k)))
          = ScanTimer(Anticipation, S, Width, k + 1)
    BY <1>1, <2>1, ScanFacts, ScanTimerSteps
  <2> QED
    BY <2>2, <1>1, <1>3, ClockFacts
<1>8. Level' = Level
  <2>1. CASE Len(tx) = 1
    <3>1. tx' = <<>> /\ Level = tx[1].tdi
      BY <2>1, <1>1, ClockFacts, EmptySeq DEF Level
    <3> QED
      BY <3>1, <1>1, ClockFacts DEF Level
  <2>2. CASE Len(tx) > 1
    <3>1. tx' # <<>> /\ tx # <<>> /\ Len(tx') \in 1 .. Len(tx') /\ Len(tx') + 1 = Len(tx)
      BY <2>2, <1>1, ClockFacts
    <3>2. tx'[Len(tx')] = tx[Len(tx)]
      BY <3>1, <1>1, ClockFacts
    <3> QED
      BY <3>1, <3>2 DEF Level
  <2> QED
    BY <2>1, <2>2, <1>1, ClockFacts
<1>9. tdi' = IF k + 1 - P \in 1 .. Width THEN call.data[k + 1 - P] ELSE Level
  BY <1>1, <1>4, ClockFacts
<1>10. tap' # Reset /\ (tap'[1] = "Update" <=> k + 1 = P + Width + 1)
      /\ (tap'[1] = "Update" => tap'[2] = call.op)
  <2>1. IsScanTap(tap', call.op, S, P, Width, k + 1)
    BY <1>6, <1>2, ScanTapFacts
  <2> QED
    BY <2>1, <1>2 DEF IsScanTap
<1>11. IsScanTap(tap, call.op, S, P, Width, k)
  BY <1>3, <1>2, ScanTapFacts
<1>12. k = P + Width => sr' = call.data
  <2> SUFFICES ASSUME k = P + Width PROVE sr' = call.data
    OBVIOUS
  <2>1. tap[1] \notin {"Capture", "Shift"}
    BY <1>11, <1>2 DEF IsScanTap
  <2>2. sr' = sr
    BY <2>1, <1>1, ShiftRegister
  <2>3. Moved
    BY <1>1 DEF Scanning
  <2>4. Len(sr) = Width /\ \A j \in 1 .. Width : sr[j] = call.data[j]
    BY <2>3, <1>1, ScanFacts, SMTT(30) DEF Moved
  <2>5. sr \in Seq(Bit) /\ call.data \in Seq(Bit) /\ Len(call.data) = Width
    BY <1>1, ScanFacts, WordFacts DEF Types, Width
  <2> QED
    BY <2>2, <2>4, <2>5, SeqEqual
<1>13. reg' = IF k = P + Width THEN [reg EXCEPT ![call.op] = call.data] ELSE reg
  BY <1>1, <1>10, <1>12, ScanFacts, ClockFacts, SMTT(30)
<1>14. cycles' = cycles
  <2>1. tap = Idle => tdi' = tdi
    BY <1>3, <1>9, <1>11, <1>2, SMTT(30) DEF IsScanTap
  <2>2. cycles' = cycles + 0
    BY <1>1, <2>1, ClockFacts DEF Rise
  <2> QED
    BY <2>2, <1>1 DEF Types
<1> QED
  BY <1>6, <1>7, <1>8, <1>9, <1>13, <1>14

LEMMA ScanClockInv ==
  ASSUME IInv, Clock, IsScan(call)
  PROVE  IInv'
<1> DEFINE k == Played
           n == Width
<1>1. Types /\ Scanning
  BY DEF IInv
<1>2. /\ call \in Scans /\ call.op \in {"IR", "DR"} /\ n \in Nat /\ n >= 8 /\ k \in Nat /\ k + 1 \in Nat
      /\ S = (IF call.op = "DR" THEN 1 ELSE 2) /\ S \in {1, 2} /\ P \in {S + 2, S + 3}
      /\ Len(tx) \in Nat /\ call # NoCall /\ call.op # "Reset"
  BY <1>1, ScanFacts, CallFacts
<1>3. /\ tap' = ScanTap(call.op, S, P, n, k + 1)
      /\ ~Tims => shaper' = ScanTimer(Anticipation, S, n, k + 1)
      /\ Level' = Level
      /\ tdi' = IF k + 1 - P \in 1 .. n THEN call.data[k + 1 - P] ELSE Level
      /\ reg' = IF k = P + n THEN [reg EXCEPT ![call.op] = call.data] ELSE reg
      /\ cycles' = cycles
  BY ScanClock
<1>4. IsScanTap(tap, call.op, S, P, n, k) /\ IsScanTap(tap', call.op, S, P, n, k + 1)
  <2>1. tap = ScanTap(call.op, S, P, n, k)
    BY <1>1 DEF Scanning
  <2> QED
    BY <2>1, <1>2, <1>3, ScanTapFacts
<1>5. /\ tx' \in Seq(Slot) /\ Len(tx') = Len(tx) - 1 /\ Len(tx) > 0
      /\ \A i \in 1 .. Len(tx') : tx'[i] = tx[i + 1]
      /\ tdi' = tx[1].tdi /\ mosi' = tx[1].tdi /\ tx[1] \in Slot
      /\ rx' \in Seq({0, 1, 2}) /\ sr' \in Word /\ shaper' \in Timer
      /\ UNCHANGED <<driver, call, answer, up, strobe>>
  BY <1>1, ClockFacts
<1>6. /\ Played' = k + 1 /\ S' = S /\ P' = P /\ Width' = n
      /\ Tims' = Tims /\ Anticipation' = Anticipation /\ IsScan(call)'
      /\ ScanClocks(call.op, Width)' = ScanClocks(call.op, n)
  <2>1. Played' = k + 1
    BY <1>1, ClockFacts
  <2> QED
    BY <2>1, <1>5 DEF S, P, Width, Tims, Anticipation, IsScan, ResultPos, ScanClocks
<1>7. /\ n = Len(call.data) /\ call.data \in Word /\ reg' \in [{"IR", "DR"} -> Word]
  BY <1>1, <1>2, <1>3, ScanFacts DEF Types, Width
<1>8. Len(Captured) = n /\ Len(Captured') = n /\ (k # P + n => Captured' = Captured)
  <2>1. Len(Captured) = n
    BY <1>1 DEF Scanning
  <2>2. CASE k # P + n
    <3>1. Captured' = Captured
      BY <2>2, <1>3, <1>5 DEF Captured
    <3> QED
      BY <3>1, <2>1, <2>2
  <2>3. CASE k = P + n
    <3>1. reg' = [reg EXCEPT ![call.op] = call.data] /\ reg \in [{"IR", "DR"} -> Word]
      BY <2>3, <1>1, <1>3 DEF Types
    <3>2. CASE call.op = "IR"
      BY <2>1, <2>3, <3>2, <1>5 DEF Captured
    <3>3. CASE call.op = "DR"
      <4>1. Captured' = call.data
        BY <3>1, <3>3, <1>5 DEF Captured
      <4> QED
        BY <4>1, <2>1, <2>3, <1>7
    <3> QED
      BY <3>2, <3>3, <1>2
  <2> QED
    BY <2>2, <2>3
<1> HIDE DEF k, n
<1>9. Types'
  <2>1. tap' \in TapStates /\ tdi' \in Bit /\ mosi' \in Bit
    BY <1>4, <1>5 DEF IsScanTap, Slot
  <2>2. cycles' \in Nat
    BY <1>1, <1>3 DEF Types
  <2> QED
    BY <2>1, <2>2, <1>1, <1>5, <1>7 DEF Types
<1>10. ASSUME NEW i \in 1 .. Len(tx')
       PROVE  ScanSlot(i)'
  <2>1. i + 1 \in 1 .. Len(tx) /\ tx'[i] = tx[i + 1] /\ i \in Nat /\ k + (i + 1) = k + 1 + i
    BY <1>2, <1>5
  <2>2. ScanSlot(i + 1)
    BY <2>1, <1>1 DEF Scanning
  <2>3. /\ tx[i + 1].tms = IF Tims THEN ScanTms(S, P, n, k + (i + 1)) ELSE ByTimer
        /\ tx[i + 1].tdi = IF k + (i + 1) - P \in 1 .. n THEN call.data[k + (i + 1) - P] ELSE Level
    BY <2>2 DEF ScanSlot, k, n
  <2>4. tx'[i].tms = (IF Tims THEN ScanTms(S, P, Width, Played + i) ELSE ByTimer)'
    BY <2>1, <2>3, <1>6 DEF ByTimer
  <2>5. tx'[i].tdi = (IF Played + i - P \in 1 .. Width THEN call.data[Played + i - P] ELSE Level)'
    <3>1. Played' + i - P' = k + (i + 1) - P /\ 1 .. Width' = 1 .. n
      <4>1. Played' = k + 1 /\ P' = P /\ Width' = n /\ i \in Nat /\ k \in Nat /\ P \in Int
        BY <2>1, <1>2, <1>6
      <4> QED
        BY ONLY <4>1
    <3>2. (IF Played + i - P \in 1 .. Width THEN call.data[Played + i - P] ELSE Level)'
            = IF k + (i + 1) - P \in 1 .. n THEN call.data[k + (i + 1) - P] ELSE Level
      BY <3>1, <1>3, <1>5
    <3> QED
      BY <3>2, <2>1, <2>3
  <2> QED
    BY <2>4, <2>5 DEF ScanSlot
<1>11. Played' <= P' \/ Played' >= P' + Width' + 1 => tdi' = Level'
  BY <1>2, <1>3, <1>6
<1>12. Moved'
  <2> SUFFICES ASSUME P <= k + 1, k + 1 <= P + n
               PROVE  /\ Len(sr') = n
                      /\ \A j \in 1 .. n :
                            sr'[j] = IF j + (k + 1) - P <= n THEN Captured[j + (k + 1) - P]
                                     ELSE call.data[j + (k + 1) - P - n]
    <3>1. k + 1 <= P + n => Captured' = Captured
      BY <1>2, <1>8
    <3> QED
      BY <3>1, <1>5, <1>6 DEF Moved
  <2>1. CASE k + 1 = P
    <3>1. tap[1] = "Capture" /\ tap[2] = call.op
      BY <2>1, <1>2, <1>4 DEF IsScanTap
    <3>2. sr' = Captured
      BY <3>1, <1>1, <1>2, ShiftRegister DEF Captured
    <3> QED
      BY <2>1, <3>2, <1>2, <1>8
  <2>2. CASE P <= k
    <3>1. tap[1] = "Shift"
      BY <2>2, <1>2, <1>4 DEF IsScanTap
    <3>2. /\ Len(sr') = Len(sr)
          /\ \A j \in 1 .. Len(sr) : sr'[j] = IF j = Len(sr) THEN tx[1].tdi ELSE sr[j + 1]
      BY <3>1, <1>1, ShiftRegister
    <3>3. /\ Len(sr) = n
          /\ \A j \in 1 .. n : sr[j] = IF j + k - P <= n THEN Captured[j + k - P]
                                       ELSE call.data[j + k - P - n]
      BY <2>2, <1>1, <1>2 DEF Scanning, Moved, k, n
    <3>4. tx[1].tdi = call.data[k + 1 - P]
      BY <2>2, <1>2, <1>3, <1>5
    <3>5. ASSUME NEW j \in 1 .. n
          PROVE  sr'[j] = IF j + (k + 1) - P <= n THEN Captured[j + (k + 1) - P]
                          ELSE call.data[j + (k + 1) - P - n]
      <4>1. CASE j = n
        <5>1. ~(j + (k + 1) - P <= n) /\ j + (k + 1) - P - n = k + 1 - P
          BY <4>1, <2>2, <1>2
        <5>2. sr'[j] = call.data[k + 1 - P]
          BY <4>1, <3>2, <3>3, <3>4
        <5> QED
          BY <5>1, <5>2
      <4>2. CASE j < n
        <5>1. sr'[j] = sr[j + 1] /\ j + 1 \in 1 .. n
          BY <4>2, <3>2, <3>3, <1>2
        <5>2. sr[j + 1] = IF (j + 1) + k - P <= n THEN Captured[(j + 1) + k - P]
                          ELSE call.data[(j + 1) + k - P - n]
          BY <5>1, <3>3
        <5>3. (j + 1) + k - P = j + (k + 1) - P
          BY <1>2
        <5> QED
          BY <5>1, <5>2, <5>3, <1>2
      <4> QED
        BY <4>1, <4>2, <1>2
    <3> QED
      BY <3>2, <3>3, <3>5
  <2> QED
    BY <2>1, <2>2, <1>2
<1>13. Sampled'
  <2> SUFFICES ASSUME NEW i \in 1 .. n, P + i <= k + 1
               PROVE  /\ rx'[P + i] \in Bit
                      /\ k + 1 < P + n + 1 => rx'[P + i] = Captured[i]
    <3>1. k + 1 < P + n + 1 => Captured' = Captured
      BY <1>2, <1>8
    <3> QED
      BY <3>1, <1>6 DEF Sampled
  <2>1. Len(rx) = k /\ P + i \in Nat
    BY <1>2 DEF k, Played
  <2>2. CASE P + i <= k
    <3>1. rx'[P + i] = rx[P + i]
      BY <2>1, <2>2, <1>1, <1>2, ShiftRegister
    <3>2. /\ rx[P + i] \in Bit
          /\ k < P + n + 1 => rx[P + i] = Captured[i]
      BY <2>2, <1>1 DEF Scanning, Sampled, k, n
    <3> QED
      BY <3>1, <3>2, <1>2
  <2>3. CASE P + i = k + 1
    <3>1. tap[1] = "Shift" /\ P <= k /\ k < P + n
      BY <2>3, <1>2, <1>4 DEF IsScanTap
    <3>2. rx'[P + i] = sr[1] /\ sr[1] \in Bit
      BY <2>1, <2>3, <3>1, <1>1, ShiftRegister
    <3>3. \A j \in 1 .. n : sr[j] = IF j + k - P <= n THEN Captured[j + k - P]
                                    ELSE call.data[j + k - P - n]
      BY <3>1, <1>1, <1>2 DEF Scanning, Moved, k, n
    <3>4. sr[1] = Captured[i]
      <4>1. 1 \in 1 .. n /\ 1 + k - P = i /\ i <= n
        BY <2>3, <1>2
      <4> QED
        BY <4>1, <3>3
    <3> QED
      BY <3>2, <3>4
  <2> QED
    BY <2>2, <2>3, <1>2
<1>14. Scanning'
  <2>1. Played' + Len(tx') = ScanClocks(call.op, Width)'
    <3>1. k + Len(tx) = ScanClocks(call.op, n)
      BY <1>1 DEF Scanning, k, n
    <3> QED
      BY <3>1, <1>2, <1>5, <1>6
  <2>2. tap' = ScanTap(call.op, S, P, Width, Played)'
    BY <1>3, <1>5, <1>6
  <2>3. ~Tims' => shaper' = ScanTimer(Anticipation, S, Width, Played)'
    BY <1>3, <1>6
  <2>4. up'
    BY <1>1, <1>5 DEF Scanning
  <2> QED
    BY <2>1, <2>2, <2>3, <2>4, <1>6, <1>8, <1>10, <1>11, <1>12, <1>13 DEF Scanning
<1>15. Resetting' /\ Resting' /\ PinKept'
  BY <1>2, <1>5 DEF Resetting, Resting, PinKept
<1> QED
  BY <1>9, <1>14, <1>15 DEF IInv

LEMMA HighsFacts ==
  ASSUME NEW t \in TapStates
  PROVE  /\ Highs(t) \in 0 .. 5 /\ (Highs(t) = 0 <=> t = Reset)
         /\ Highs(t) > 0 => Highs(NextTap(t, 1)) <= Highs(t) - 1
<1>1. CASE t = Reset \/ t = Idle
  BY <1>1 DEF Highs, NextTap, Reset, Idle
<1>2. CASE t # Reset /\ t # Idle
  <2>1. PICK r \in {"DR", "IR"} : t \in Column(r)
    BY <1>2 DEF TapStates
  <2>2. PICK s \in {"Select", "Capture", "Shift", "Exit1", "Pause", "Exit2", "Update"} :
          t = <<s, r>>
    BY <2>1 DEF Column
  <2>3. NextTap(t, 1) = Branches(r)[s][2]
    BY <1>2, <2>2 DEF NextTap
  <2>4. CASE s = "Select"
    BY <2>2, <2>3, <2>4 DEF Branches, Highs, Reset, Idle
  <2>5. CASE s \in {"Capture", "Shift"}
    BY <2>2, <2>3, <2>5 DEF Branches, Highs, Reset, Idle
  <2>6. CASE s \in {"Exit1", "Exit2"}
    BY <2>2, <2>3, <2>6 DEF Branches, Highs, Reset, Idle
  <2>7. CASE s = "Pause"
    BY <2>2, <2>3, <2>7 DEF Branches, Highs, Reset, Idle
  <2>8. CASE s = "Update"
    BY <2>2, <2>3, <2>8 DEF Branches, Highs, Reset, Idle
  <2> QED
    BY <2>2, <2>4, <2>5, <2>6, <2>7, <2>8
<1> QED
  BY <1>1, <1>2

\* TMS is high for six clocks, and the second pulse is never reached.
LEMMA ResetTimerSteps ==
  ASSUME NEW a \in {0, 1}, NEW k \in 0 .. 7
  PROVE  LET t == ResetTimer(a, k)
         IN  /\ CountEdge(CountEdge(t)) = ResetTimer(a, k + 1)
             /\ TmsLevel(IF a = 1 THEN t ELSE CountEdge(t)) = ResetTms(k + 1)
<1> DEFINE t == ResetTimer(a, k)
           u == CountEdge(t)
           v == CountEdge(u)
           w == ResetTimer(a, k + 1)
<1>1. /\ t \in Timer /\ t.ccr2 = 4095 /\ t.arr2 = 4095
      /\ 2 * k <= 12 - a => t.cnt = 2 * k /\ t.ccr = 0 /\ t.arr = 12 - a
      /\ 2 * k > 12 - a => t.cnt = 2 * k - 13 + a /\ t.ccr = 4095 /\ t.arr = 4095
  BY DEF ResetTimer, Timer
<1>2. /\ w \in Timer /\ w.ccr2 = 4095 /\ w.arr2 = 4095
      /\ 2 * (k + 1) <= 12 - a => w.cnt = 2 * (k + 1) /\ w.ccr = 0 /\ w.arr = 12 - a
      /\ 2 * (k + 1) > 12 - a => w.cnt = 2 * (k + 1) - 13 + a /\ w.ccr = 4095 /\ w.arr = 4095
  BY DEF ResetTimer, Timer
<1> HIDE DEF t, w
<1>3. u \in Timer /\ Edge(t, u)
  BY <1>1, EdgeFacts
<1> HIDE DEF u
<1>4. v \in Timer /\ Edge(u, v)
  BY <1>3, EdgeFacts
<1> HIDE DEF v
<1>5. v.cnt = w.cnt /\ v.ccr = w.ccr /\ v.arr = w.arr /\ v.ccr2 = w.ccr2 /\ v.arr2 = w.arr2
  BY <1>1, <1>2, <1>3, <1>4 DEF Edge
<1>6. v = w
  BY <1>2, <1>4, <1>5, SameTimer
<1>7. TmsLevel(IF a = 1 THEN t ELSE u) = ResetTms(k + 1)
  BY <1>1, <1>3 DEF Edge, TmsLevel, ResetTms
<1> QED
  BY <1>6, <1>7 DEF t, u, v, w

\* The next clock of a reset.
LEMMA ResetClock ==
  ASSUME IInv, Clock, call.op = "Reset"
  PROVE  /\ IInv'
         /\ Played \in 0 .. 7
         /\ Played > 0 => tdi' = tdi
         /\ tdi' \in {tdi, 1}
         /\ Played >= 6 => reg' = reg
<1> DEFINE k == Played
<1>1. Types /\ Resetting
  BY DEF IInv
<1>2. /\ k \in Nat /\ k + Len(tx) = ResetClocks /\ Len(tx) \in Nat /\ Len(tx) > 0
      /\ tap \in TapStates
      /\ ~Tims => shaper = ResetTimer(Anticipation, k)
      /\ k <= 5 => Highs(tap) <= 5 - k
      /\ k \in {5, 6} => tap = Reset
      /\ k > 6 => tap = Idle
      /\ k >= 5 => reg["IR"] = Bypass
      /\ answer = NoAnswer
  BY <1>1, ClockFacts DEF Types, Resetting
<1>3. k \in 0 .. 7 /\ (Tims => k <= 6)
  BY <1>2 DEF ResetClocks
<1>4. \A i \in 1 .. Len(tx) :
         /\ tx[i].tms = IF Tims THEN ResetTms(k + i) ELSE ByTimer
         /\ tx[i].tdi \in {tdi, 1}
         /\ tx[i].tdi = tx[1].tdi
         /\ k > 0 => tx[i].tdi = tdi
  BY <1>1 DEF Resetting
<1>5. /\ call # NoCall
      /\ tx' \in Seq(Slot) /\ Len(tx') = Len(tx) - 1
      /\ \A i \in 1 .. Len(tx') : tx'[i] = tx[i + 1]
      /\ tdi' = tx[1].tdi /\ mosi' = tx[1].tdi /\ tx[1] \in Slot /\ Head(tx) = tx[1]
      /\ rx' \in Seq({0, 1, 2}) /\ sr' \in Word /\ shaper' \in Timer
      /\ shaper' = CountEdge(CountEdge(shaper)) /\ tap' = NextTap(tap, Tms)
      /\ reg' = IF tap'[1] = "Update" THEN [reg EXCEPT ![tap'[2]] = sr']
                ELSE IF tap' = Reset THEN [reg EXCEPT !["IR"] = Bypass]
                ELSE reg
      /\ cycles' \in Nat /\ Played' = k + 1
      /\ UNCHANGED <<driver, call, answer, up, strobe>>
  BY <1>1, ClockFacts
<1>6. /\ Tims' = Tims /\ Anticipation' = Anticipation /\ ResetClocks' = ResetClocks
      /\ Anticipation \in {0, 1} /\ (Anticipation = 1 <=> driver = "vhc")
  BY <1>5 DEF Tims, Anticipation, ResetClocks
<1> HIDE DEF k
<1>7. tdi' \in {tdi, 1} /\ (k > 0 => tdi' = tdi) /\ tdi' \in Bit
  BY <1>2, <1>4, <1>5 DEF Slot
<1>8. Tms = ResetTms(k + 1)
  <2>1. CASE Tims
    <3>1. tx[1].tms = ResetTms(k + 1)
      BY <2>1, <1>2, <1>4
    <3> QED
      BY <3>1, <1>5 DEF Tms, ResetTms, ByTimer
  <2>2. CASE ~Tims
    <3>1. Tms = ShapedTms
      BY <2>2, <1>2, <1>4, <1>5 DEF Tms
    <3>2. ShapedTms = TmsLevel(IF Anticipation = 1 THEN shaper ELSE CountEdge(shaper))
      BY <1>6 DEF ShapedTms
    <3> QED
      BY <2>2, <3>1, <3>2, <1>2, <1>3, <1>6, ResetTimerSteps
  <2> QED
    BY <2>1, <2>2
<1>9. tap' \in TapStates
  BY <1>2, <1>5, <1>8, TapFacts DEF ResetTms, Bit
<1>10. k <= 4 => Highs(tap') <= 5 - (k + 1)
  <2> SUFFICES ASSUME k <= 4 PROVE Highs(tap') <= 5 - (k + 1)
    OBVIOUS
  <2>1. Tms = 1
    BY <1>3, <1>8 DEF ResetTms
  <2>2. CASE Highs(tap) > 0
    <3>1. Highs(tap') <= Highs(tap) - 1 /\ Highs(tap) \in 0 .. 5 /\ Highs(tap') \in 0 .. 5
      BY <2>1, <2>2, <1>2, <1>5, <1>9, HighsFacts
    <3> QED
      BY <3>1, <1>2, <1>3
  <2>3. CASE Highs(tap) = 0
    <3>1. tap = Reset
      BY <2>3, <1>2, HighsFacts
    <3>2. tap' = Reset
      BY <3>1, <2>1, <1>5, Transitions
    <3>3. Highs(tap') = 0
      BY <3>2 DEF Highs
    <3> QED
      BY <3>3, <1>3
  <2> QED
    BY <2>2, <2>3, <1>2, HighsFacts
<1>11. k = 4 => tap' = Reset
  <2>1. k = 4 => Highs(tap') = 0
    BY <1>9, <1>10, HighsFacts
  <2> QED
    BY <2>1, <1>9, HighsFacts
<1>12. /\ k = 5 => tap' = Reset
       /\ k >= 6 => tap' = Idle
  BY <1>2, <1>3, <1>5, <1>8, Transitions DEF ResetTms
<1>13. /\ k \in {4, 5} => reg'["IR"] = Bypass
       /\ k >= 6 => reg' = reg
  BY <1>1, <1>3, <1>5, <1>11, <1>12 DEF Types, Reset, Idle
<1>14. Types'
  <2>1. tap'[1] = "Update" => tap'[2] \in {"IR", "DR"}
    BY <1>9 DEF TapStates, Column, Reset, Idle
  <2>2. reg' \in [{"IR", "DR"} -> Word]
    BY <2>1, <1>1, <1>5, ConstantFacts DEF Types
  <2> QED
    BY <2>2, <1>1, <1>5, <1>7, <1>9 DEF Types
<1>15. Resetting'
  <2>1. Played' + Len(tx') = ResetClocks'
    BY <1>2, <1>5, <1>6 DEF ResetClocks
  <2>2. ASSUME NEW i \in 1 .. Len(tx')
        PROVE  /\ tx'[i].tms = (IF Tims THEN ResetTms(Played + i) ELSE ByTimer)'
               /\ tx'[i].tdi \in {tdi', 1}
               /\ tx'[i].tdi = tx'[1].tdi
               /\ tx'[i].tdi = tdi'
    <3>1. i + 1 \in 1 .. Len(tx) /\ 2 \in 1 .. Len(tx) /\ 1 \in 1 .. Len(tx')
          /\ tx'[i] = tx[i + 1] /\ tx'[1] = tx[2] /\ k + (i + 1) = Played' + i
      BY <1>2, <1>5
    <3> QED
      BY <3>1, <1>4, <1>5, <1>6 DEF ByTimer
  <2>3. ~Tims' => shaper' = ResetTimer(Anticipation, Played)'
    BY <1>2, <1>3, <1>5, <1>6, ResetTimerSteps
  <2>4. /\ Played' <= 5 => Highs(tap') <= 5 - Played'
        /\ Played' \in {5, 6} => tap' = Reset
        /\ Played' > 6 => tap' = Idle
        /\ Played' >= 5 => reg'["IR"] = Bypass
    BY <1>2, <1>3, <1>5, <1>10, <1>11, <1>12, <1>13
  <2> QED
    BY <2>1, <2>2, <2>3, <2>4, <1>2, <1>5 DEF Resetting
<1>16. Scanning' /\ Resting' /\ PinKept'
  <2>1. ~IsScan(call)' /\ call' # NoCall
    BY <1>5 DEF IsScan
  <2> QED
    BY <2>1, <1>5 DEF Scanning, Resting, PinKept
<1> QED
  BY <1>3, <1>7, <1>13, <1>14, <1>15, <1>16 DEF IInv, k

-----------------------------------------------------------------------------
(* The end of an operation, and the operations that take no clock.         *)

Sample == SubSeq(rx, P + 1, P + Width)

\* What is taken from the samples is complete, and is what was captured.
LEMMA SampleFacts ==
  ASSUME IInv, IsScan(call), Played >= P + Width
  PROVE  /\ Sample \in Seq(Bit) /\ Len(Sample) = Width
         /\ \A i \in 1 .. Width : Sample[i] = rx[P + i] /\ P + i \in 1 .. Len(rx)
         /\ Played = P + Width => Sample = Captured
         /\ Decode(call) = IF call.op = "DR" /\ Width = 20 THEN Unrotate(Sample) ELSE Sample
         /\ Decode(call) \in Seq(Bit)
<1>1. Types /\ Scanning
  BY DEF IInv
<1>2. Width \in Nat /\ Width >= 8 /\ P \in Nat /\ P + 1 \in Int /\ P + Width \in Int /\ Played \in Nat
  BY <1>1, ScanFacts
<1>3. /\ Sampled /\ Len(Captured) = Width
  BY <1>1 DEF Scanning
<1>4. \A i \in 1 .. Width :
         rx[P + i] \in Bit /\ (Played = P + Width => rx[P + i] = Captured[i])
  BY <1>2, <1>3 DEF Sampled
<1>5. \A j \in P + 1 .. P + Width : rx[j] \in Bit
  <2> TAKE j \in P + 1 .. P + Width
  <2>1. j - P \in 1 .. Width /\ P + (j - P) = j
    BY <1>2
  <2> QED
    BY <2>1, <1>4
<1>6. /\ Sample \in Seq(Bit)
      /\ Len(Sample) = IF P + 1 <= P + Width THEN P + Width - (P + 1) + 1 ELSE 0
      /\ \A i \in 1 .. P + Width - (P + 1) + 1 : Sample[i] = rx[P + 1 + i - 1]
  BY <1>2, <1>5, SubSeqProperties DEF Sample
<1>7. Len(Sample) = Width /\ \A i \in 1 .. Width : Sample[i] = rx[P + i]
  <2>1. P + Width - (P + 1) + 1 = Width /\ P + 1 <= P + Width
    BY <1>2
  <2>2. \A i \in 1 .. Width : P + 1 + i - 1 = P + i
    BY <1>2
  <2> QED
    BY <2>1, <2>2, <1>6
<1>8. Played = P + Width => Sample = Captured
  <2>1. Captured \in Seq(Bit)
    BY <1>1, ConstantFacts, WordFacts DEF Captured, Types
  <2> QED
    BY <2>1, <1>3, <1>4, <1>6, <1>7, SeqEqual
<1>9. Decode(call) = IF call.op = "DR" /\ Width = 20 THEN Unrotate(Sample) ELSE Sample
  BY DEF Decode, Sample, P, Width
<1>10. Width = 20 => Unrotate(Sample) \in Seq(Bit)
  <2> SUFFICES ASSUME Width = 20 PROVE Unrotate(Sample) \in Seq(Bit)
    OBVIOUS
  <2>1. \A i \in 1 .. 20 : Sample[i] \in Bit
    BY <1>6, <1>7, ElementOfSeq
  <2>2. SubSeq(Sample, 17, 20) \in Seq(Bit) /\ SubSeq(Sample, 1, 16) \in Seq(Bit)
    BY <2>1, SubSeqProperties
  <2> QED
    BY <2>2, ConcatProperties DEF Unrotate
<1>11. \A i \in 1 .. Width : P + i \in 1 .. Len(rx)
  BY <1>2 DEF Played
<1> QED
  BY <1>6, <1>7, <1>8, <1>9, <1>10, <1>11

LEMMA ReturnFacts ==
  ASSUME IInv, Return
  PROVE  /\ IInv'
         /\ IsScan(call) => Played >= P + Width + 1
         /\ call.op = "Reset" => Played >= 6
<1>1. Types /\ Scanning /\ Resetting /\ PinKept
  BY DEF IInv
<1>2. /\ call # NoCall /\ tx = <<>> /\ call' = NoCall /\ up' = TRUE /\ rx' = <<>>
      /\ answer' = (IF IsScan(call) THEN Decode(call) ELSE NoAnswer)
      /\ shaper' = DoublePwm(0, 0, 0, 0)
      /\ UNCHANGED <<driver, tap, sr, reg, tdi, mosi, tx, strobe, cycles>>
  BY DEF Return
<1>3. Len(tx) = 0
  BY <1>2
<1>4. IsScan(call) => Played = ScanClocks(call.op, Width) /\ Played >= P + Width + 2
  <2> SUFFICES ASSUME IsScan(call)
               PROVE  Played = ScanClocks(call.op, Width) /\ Played >= P + Width + 2
    OBVIOUS
  <2>1. Played + Len(tx) = ScanClocks(call.op, Width)
    BY <1>1 DEF Scanning
  <2> QED
    BY <2>1, <1>1, <1>3, ScanFacts
<1>5. call.op = "Reset" => Played >= 6 /\ tap = Idle
  <2> SUFFICES ASSUME call.op = "Reset" PROVE Played >= 6 /\ tap = Idle
    OBVIOUS
  <2>1. Played + Len(tx) = ResetClocks /\ Played \in Nat
    BY <1>1, LenProperties DEF Resetting, Types, Played
  <2> QED
    BY <2>1, <1>1, <1>3 DEF ResetClocks, Resetting
<1>6. IsScan(call) => tap = Idle
  <2> SUFFICES ASSUME IsScan(call) PROVE tap = Idle
    OBVIOUS
  <2>1. tap = ScanTap(call.op, S, P, Width, Played)
    BY <1>1 DEF Scanning
  <2>2. /\ call.op \in {"IR", "DR"} /\ Width \in Nat /\ Width >= 8 /\ Played \in Nat
        /\ S = (IF call.op = "DR" THEN 1 ELSE 2) /\ P \in {S + 2, S + 3}
    BY <1>1, ScanFacts
  <2>3. IsScanTap(tap, call.op, S, P, Width, Played)
    BY <2>1, <2>2, ScanTapFacts
  <2> QED
    BY <2>2, <2>3, <1>4 DEF IsScanTap
<1>7. tap = Idle
  <2>1. IsScan(call) \/ call.op = "Reset"
    BY <1>1, <1>2, CallFacts DEF Resets
  <2> QED
    BY <2>1, <1>5, <1>6
<1>8. answer' \in Seq(Bit)
  <2>1. CASE IsScan(call)
    <3>1. Played >= P + Width
      BY <2>1, <1>1, <1>4, ScanFacts
    <3> QED
      BY <2>1, <3>1, <1>2, SampleFacts
  <2>2. CASE ~IsScan(call)
    BY <2>2, <1>2 DEF NoAnswer
  <2> QED
    BY <2>1, <2>2
<1>9. Types'
  <2>1. shaper' \in Timer
    BY <1>2 DEF DoublePwm, Timer
  <2> QED
    BY <2>1, <1>1, <1>2, <1>8 DEF Types
<1>10. Scanning' /\ Resetting' /\ Resting' /\ PinKept'
  <2>1. ~IsScan(call)' /\ call'.op # "Reset"
    BY <1>2 DEF IsScan, NoCall
  <2> QED
    BY <2>1, <1>1, <1>2, <1>7 DEF Scanning, Resetting, Resting, PinKept
<1>11. IsScan(call) => Played >= P + Width + 1
  BY <1>1, <1>4, ScanFacts
<1> QED
  BY <1>5, <1>9, <1>10, <1>11 DEF IInv

LEMMA RisesFacts ==
  ASSUME NEW n \in Nat, NEW l \in Seq(Bit), NEW m \in Seq(Bit),
         Len(l) = n, Len(m) = n + 1, \A i \in 1 .. n : m[i] = l[i]
  PROVE  /\ Rises(l) \in Nat
         /\ Rises(m) = Rises(l) + Rise(IF n = 0 THEN tdi ELSE m[n], m[n + 1])
<1> DEFINE A == {i \in DOMAIN l : Rise(IF i = 1 THEN tdi ELSE l[i - 1], l[i]) = 1}
           B == {i \in DOMAIN m : Rise(IF i = 1 THEN tdi ELSE m[i - 1], m[i]) = 1}
           r == Rise(IF n = 0 THEN tdi ELSE m[n], m[n + 1])
<1>1. DOMAIN l = 1 .. n /\ DOMAIN m = 1 .. n + 1
  BY LenProperties
<1>2. Rises(l) = Cardinality(A) /\ Rises(m) = Cardinality(B)
  BY DEF Rises
<1>3. IsFiniteSet(A)
  <2>1. A \subseteq 1 .. n /\ IsFiniteSet(1 .. n)
    BY <1>1, FS_Interval
  <2> QED
    BY <2>1, FS_Subset
<1>4. ASSUME NEW i \in 1 .. n
      PROVE  i \in A <=> i \in B
  <2>1. CASE i = 1
    BY <1>1, <2>1
  <2>2. CASE i > 1
    <3>1. i - 1 \in 1 .. n /\ m[i - 1] = l[i - 1] /\ m[i] = l[i] /\ i # 1 /\ i \in 1 .. n + 1
      BY <1>1, <2>2
    <3> QED
      BY <3>1, <1>1
  <2> QED
    BY <2>1, <2>2
<1>5. n + 1 \in B <=> r = 1
  <2>1. CASE n = 0
    BY <2>1, <1>1
  <2>2. CASE n > 0
    <3>1. n + 1 # 1 /\ (n + 1) - 1 = n /\ n + 1 \in 1 .. n + 1
      BY <2>2
    <3> QED
      BY <3>1, <2>2, <1>1
  <2> QED
    BY <2>1, <2>2
<1>6. r \in {0, 1}
  BY DEF Rise
<1>7. A \subseteq 1 .. n /\ B \subseteq 1 .. n + 1 /\ n + 1 \notin A
  BY <1>1
<1> HIDE DEF A, B, r
<1>8. A = B \cap 1 .. n
  BY <1>4, <1>7
<1>9. \A i \in 1 .. n + 1 : i \in 1 .. n \/ i = n + 1
  OBVIOUS
<1>10. CASE r = 1
  <2>1. B = A \cup {n + 1}
    BY <1>5, <1>7, <1>10, <1>8, <1>9
  <2> QED
    BY <2>1, <1>2, <1>3, <1>7, <1>10, FS_AddElement, FS_CardinalityType DEF r
<1>11. CASE r = 0
  <2>1. B = A
    <3>1. n + 1 \notin B
      BY <1>5, <1>11
    <3>2. B \subseteq 1 .. n
      BY <3>1, <1>7, <1>9
    <3> QED
      BY <3>2, <1>8
  <2> QED
    BY <2>1, <1>2, <1>3, <1>11, FS_CardinalityType DEF r
<1> QED
  BY <1>6, <1>10, <1>11

\* m is l and the level b, which follows the level last.
Extends(m, l, last, b) ==
  /\ l \in Seq(Bit) /\ m \in Seq(Bit) /\ Len(m) = Len(l) + 1
  /\ \A i \in 1 .. Len(l) : m[i] = l[i]
  /\ m[Len(l) + 1] = b
  /\ last = IF Len(l) = 0 THEN tdi ELSE m[Len(l)]

LEMMA OneMore ==
  ASSUME NEW m, NEW l, NEW last, NEW b, Extends(m, l, last, b)
  PROVE  Rises(m) = Rises(l) + Rise(last, b)
<1>1. Len(l) \in Nat
  BY LenProperties DEF Extends
<1>2. Rises(m) = Rises(l) + Rise(IF Len(l) = 0 THEN tdi ELSE m[Len(l)], m[Len(l) + 1])
  BY <1>1, RisesFacts DEF Extends
<1> QED
  BY <1>2 DEF Extends

\* The clocks each of the operations on TCLK gives.
LEMMA RisesOf ==
  ASSUME tdi \in Bit
  PROVE  /\ Rises(<<>>) = 0
         /\ Rises(<<1>>) = 1 - tdi /\ Rises(<<0>>) = 0
         /\ Rises(<<1, 0>>) = 1 - tdi /\ Rises(<<0, 1>>) = 1
         /\ Rises(<<1, 0, 1, 0>>) = 2 - tdi
         /\ Rises([i \in 1 .. 2 * Pulses |-> i % 2]) = 2 - tdi
         /\ Last([i \in 1 .. 2 * Pulses |-> i % 2]) = 0
<1> DEFINE none == <<>>
           set == <<1>>
           clr == <<0>>
           pulse == <<1, 0>>
           pulseN == <<0, 1>>
           three == <<1, 0, 1>>
           twice == <<1, 0, 1, 0>>
           train == [i \in 1 .. 2 * Pulses |-> i % 2]
<1>1. Rises(none) = 0
  BY FS_EmptySet DEF Rises
<1>2. /\ none \in Seq(Bit) /\ Len(none) = 0
      /\ set \in Seq(Bit) /\ Len(set) = 1 /\ set[1] = 1
      /\ clr \in Seq(Bit) /\ Len(clr) = 1 /\ clr[1] = 0
  BY DEF Bit
<1>3. /\ pulse \in Seq(Bit) /\ Len(pulse) = 2 /\ pulse[1] = 1 /\ pulse[2] = 0
      /\ pulseN \in Seq(Bit) /\ Len(pulseN) = 2 /\ pulseN[1] = 0 /\ pulseN[2] = 1
  BY DEF Bit
<1>4. three \in Seq(Bit) /\ Len(three) = 3 /\ three[1] = 1 /\ three[2] = 0 /\ three[3] = 1
  BY DEF Bit
<1>5. twice \in Seq(Bit) /\ Len(twice) = 4
      /\ twice[1] = 1 /\ twice[2] = 0 /\ twice[3] = 1 /\ twice[4] = 0
  BY DEF Bit
<1>12. train \in Seq(Bit) /\ Len(train) = 4
       /\ train[1] = 1 /\ train[2] = 0 /\ train[3] = 1 /\ train[4] = 0
  BY DEF Bit, Pulses
<1> HIDE DEF none, set, clr, pulse, pulseN, three, twice, train
<1>13. train = twice
  <2>1. \A i \in 1 .. Len(train) : train[i] = twice[i]
    BY <1>5, <1>12
  <2> QED
    BY <2>1, <1>5, <1>12, SeqEqual
<1>14. Last(train) = 0
  BY <1>12 DEF Last
<1>6. Extends(set, none, tdi, 1) /\ Extends(clr, none, tdi, 0)
  BY <1>2 DEF Extends
<1>7. Extends(pulse, set, 1, 0) /\ Extends(pulseN, clr, 0, 1)
  BY <1>2, <1>3 DEF Extends
<1>8. Extends(three, pulse, 0, 1)
  <2>1. \A i \in 1 .. 2 : three[i] = pulse[i]
    BY <1>3, <1>4
  <2> QED
    BY <2>1, <1>3, <1>4 DEF Extends
<1>9. Extends(twice, three, 1, 0)
  <2>1. \A i \in 1 .. 3 : twice[i] = three[i]
    BY <1>4, <1>5
  <2> QED
    BY <2>1, <1>4, <1>5 DEF Extends
<1>10. Rise(tdi, 1) = 1 - tdi /\ Rise(tdi, 0) = 0 /\ Rise(1, 0) = 0 /\ Rise(0, 1) = 1
  BY DEF Rise, Bit
<1>11. /\ Rises(none) = 0
       /\ Rises(set) = 1 - tdi /\ Rises(clr) = 0
       /\ Rises(pulse) = 1 - tdi /\ Rises(pulseN) = 1
       /\ Rises(twice) = 2 - tdi
  BY <1>1, <1>6, <1>7, <1>8, <1>9, <1>10, OneMore DEF Bit
<1> QED
  BY <1>11, <1>13, <1>14 DEF none, set, clr, pulse, pulseN, twice, train

\* The levels of OnFlashTclk.
FlashLevels ==
  FlashPrefix \o [i \in 1 .. 2 * Pulses |-> (i + 1) % 2] \o <<FlashEnd>>

LEMMA JoinLevels ==
  ASSUME NEW x \in Seq(Bit), NEW y \in Seq(Bit)
  PROVE  /\ x \o y \in Seq(Bit)
         /\ Len(x \o y) = Len(x) + Len(y)
         /\ \A i \in 1 .. Len(x) + Len(y) :
               (x \o y)[i] = IF i <= Len(x) THEN x[i] ELSE y[i - Len(x)]
BY ConcatProperties

LEMMA RisesOfFlash ==
  ASSUME tdi \in Bit, mosi \in Bit
  PROVE  Rises(FlashLevels) = IF Tims THEN 2 ELSE 3 - tdi
<1> DEFINE a == FlashPrefix
           b == [i \in 1 .. 2 * Pulses |-> (i + 1) % 2]
           c == <<FlashEnd>>
           f == FlashLevels
<1>1. /\ a \in Seq(Bit) /\ Len(a) = (IF Tims THEN 0 ELSE 1) /\ (~Tims => a[1] = 1)
      /\ c \in Seq(Bit) /\ Len(c) = 1 /\ c[1] = IF Tims THEN 1 ELSE mosi
  <2>1. CASE Tims
    <3>1. a = <<>> /\ c = <<1>>
      BY <2>1 DEF FlashPrefix, FlashEnd
    <3> HIDE DEF a, c
    <3>2. a \in Seq(Bit) /\ Len(a) = 0 /\ c \in Seq(Bit) /\ Len(c) = 1 /\ c[1] = 1
      BY <3>1 DEF Bit
    <3> QED
      BY <3>2, <2>1
  <2>2. CASE ~Tims
    <3>1. a = <<1>> /\ c = <<mosi>>
      BY <2>2 DEF FlashPrefix, FlashEnd
    <3> HIDE DEF a, c
    <3>2. a \in Seq(Bit) /\ Len(a) = 1 /\ a[1] = 1 /\ c \in Seq(Bit) /\ Len(c) = 1 /\ c[1] = mosi
      BY <3>1 DEF Bit
    <3> QED
      BY <3>2, <2>2
  <2> QED
    BY <2>1, <2>2
<1>2. b \in Seq(Bit) /\ Len(b) = 4 /\ b[1] = 0 /\ b[2] = 1 /\ b[3] = 0 /\ b[4] = 1
  BY DEF Bit, Pulses
<1>3. f = (a \o b) \o c
  BY DEF FlashLevels
<1> HIDE DEF a, b, c, f
<1>4. /\ a \o b \in Seq(Bit) /\ Len(a \o b) = Len(a) + Len(b)
      /\ \A i \in 1 .. Len(a) + Len(b) :
            (a \o b)[i] = IF i <= Len(a) THEN a[i] ELSE b[i - Len(a)]
  BY <1>1, <1>2, JoinLevels
<1> DEFINE g == a \o b
<1> HIDE DEF g
<1>5. /\ g \o c \in Seq(Bit) /\ Len(g \o c) = Len(g) + Len(c)
      /\ \A i \in 1 .. Len(g) + Len(c) :
            (g \o c)[i] = IF i <= Len(g) THEN g[i] ELSE c[i - Len(g)]
  <2>1. g \in Seq(Bit)
    BY <1>4 DEF g
  <2> QED
    BY <2>1, <1>1, JoinLevels
<1> DEFINE h == g \o c
<1>6. h = f
  BY <1>3 DEF g
<1> HIDE DEF h
<1>7. CASE Tims
  <2>1. g \in Seq(Bit) /\ Len(g) = 4 /\ \A i \in 1 .. 4 : g[i] = b[i]
    <3>1. Len(a) = 0 /\ Len(b) = 4
      BY <1>7, <1>1, <1>2
    <3>2. g \in Seq(Bit) /\ Len(g) = 4 /\ \A i \in 1 .. 4 : g[i] = b[i - 0]
      BY <3>1, <1>4, SMTT(30) DEF g
    <3> QED
      BY <3>2
  <2>2. f \in Seq(Bit) /\ Len(f) = 5 /\ (\A i \in 1 .. 4 : f[i] = b[i]) /\ f[5] = 1
    BY <1>7, <1>1, <1>5, <1>6, <2>1 DEF h
  <2> DEFINE x == <<0, 1>>
             y == <<0, 1, 0>>
             z == <<0, 1, 0, 1>>
  <2>3. x \in Seq(Bit) /\ Len(x) = 2 /\ x[1] = 0 /\ x[2] = 1
    BY DEF Bit
  <2>4. y \in Seq(Bit) /\ Len(y) = 3 /\ y[1] = 0 /\ y[2] = 1 /\ y[3] = 0
    BY DEF Bit
  <2>5. z \in Seq(Bit) /\ Len(z) = 4 /\ z[1] = 0 /\ z[2] = 1 /\ z[3] = 0 /\ z[4] = 1
    BY DEF Bit
  <2>6. Rises(x) = 1
    BY RisesOf
  <2> HIDE DEF x, y, z
  <2>7. Extends(y, x, 1, 0)
    <3>1. \A i \in 1 .. 2 : y[i] = x[i]
      BY <2>3, <2>4
    <3> QED
      BY <3>1, <2>3, <2>4 DEF Extends
  <2>8. Extends(z, y, 0, 1)
    <3>1. \A i \in 1 .. 3 : z[i] = y[i]
      BY <2>4, <2>5
    <3> QED
      BY <3>1, <2>4, <2>5 DEF Extends
  <2>9. Extends(f, z, 1, 1)
    <3>1. \A i \in 1 .. 4 : f[i] = z[i]
      BY <2>2, <2>5, <1>2
    <3> QED
      BY <3>1, <2>2, <2>5, <1>2 DEF Extends
  <2> QED
    BY <1>7, <2>6, <2>7, <2>8, <2>9, OneMore DEF Rise, f
<1>8. CASE ~Tims
  <2>1. g \in Seq(Bit) /\ Len(g) = 5 /\ g[1] = 1 /\ g[2] = 0 /\ g[3] = 1 /\ g[4] = 0 /\ g[5] = 1
    BY <1>8, <1>1, <1>2, <1>4 DEF g
  <2>2. /\ f \in Seq(Bit) /\ Len(f) = 6 /\ \A i \in 1 .. 5 : f[i] = g[i]
        /\ f[6] = mosi
    BY <1>8, <1>1, <1>5, <1>6, <2>1 DEF h
  <2> DEFINE x == <<1, 0, 1, 0>>
  <2>3. x \in Seq(Bit) /\ Len(x) = 4 /\ x[1] = 1 /\ x[2] = 0 /\ x[3] = 1 /\ x[4] = 0
    BY DEF Bit
  <2>4. Rises(x) = 2 - tdi
    BY RisesOf
  <2> HIDE DEF x
  <2>5. Extends(g, x, 0, 1)
    <3>1. \A i \in 1 .. 4 : g[i] = x[i]
      BY <2>1, <2>3
    <3> QED
      BY <3>1, <2>1, <2>3 DEF Extends
  <2>6. Extends(f, g, 1, mosi)
    <3>1. \A i \in 1 .. 5 : f[i] = g[i]
      BY <2>2
    <3> QED
      BY <3>1, <2>1, <2>2 DEF Extends
  <2>7. Rise(0, 1) = 1 /\ Rise(1, mosi) = 0
    BY DEF Rise
  <2>8. Rises(g) = Rises(x) + Rise(0, 1) /\ Rises(f) = Rises(g) + Rise(1, mosi)
    BY <2>5, <2>6, OneMore
  <2>9. Rises(f) = 3 - tdi
    BY <2>4, <2>7, <2>8 DEF Bit
  <2> QED
    BY <1>8, <2>9 DEF f
<1> QED
  BY <1>7, <1>8

\* What an operation on TCLK does, whichever it is.
Strobes == {"set", "clear", "pulse", "pulseN", "pulses", "flash"}

LEMMA TclkStep ==
  ASSUME IInv, NEW op \in Strobes, NEW levels, NEW pin \in Bit, Drive(op, levels, pin),
         mosi' = pin, Rises(levels) \in Nat
  PROVE  /\ IInv' /\ call = NoCall
         /\ strobe' = op /\ cycles' = Rises(levels)
         /\ tdi' = pin
         /\ UNCHANGED <<driver, tap, sr, reg, call, shaper, tx, rx, answer, up>>
<1>1. /\ call = NoCall /\ up /\ strobe' = op /\ tdi' = pin
      /\ cycles' = IF tap = Idle THEN Rises(levels) ELSE 0
  BY DEF Drive
<1>2. UNCHANGED <<driver, tap, sr, reg, call, shaper, tx, rx, answer, up>>
  BY DEF Drive
<1>3. Types /\ Resting
  BY DEF IInv
<1>4. tap = Idle
  BY <1>1, <1>3 DEF Resting
<1>5. cycles' = Rises(levels) /\ cycles' \in Nat
  BY <1>1, <1>4
<1>6. Types'
  BY <1>1, <1>2, <1>3, <1>5 DEF Types, Strobes
<1>7. Scanning' /\ Resetting' /\ Resting' /\ PinKept'
  <2>1. ~IsScan(call)' /\ call'.op # "Reset"
    BY <1>1, <1>2 DEF IsScan, NoCall
  <2> QED
    BY <2>1, <1>1, <1>2, <1>3 DEF Scanning, Resetting, Resting, PinKept
<1> QED
  BY <1>1, <1>2, <1>5, <1>6, <1>7 DEF IInv

Tclk == \/ OnSetTclk \/ OnClearTclk \/ OnPulseTclk \/ OnPulseTclkN \/ OnPulseTclkCount
        \/ OnFlashTclk

\* The operation gives n clocks and leaves TCLK at level.
Clocks(op, n, level) ==
  /\ call = NoCall
  /\ strobe' = op /\ cycles' = n
  /\ tdi' = level
  /\ UNCHANGED <<driver, tap, sr, reg, call, shaper, tx, rx, answer, up>>

LEMMA TclkFacts ==
  ASSUME IInv
  PROVE  /\ Tclk => IInv'
         /\ OnSetTclk => Clocks("set", 1 - tdi, 1)
         /\ OnClearTclk => Clocks("clear", 0, 0)
         /\ OnPulseTclk => Clocks("pulse", 1 - tdi, 0)
         /\ OnPulseTclkN => Clocks("pulseN", 1, 1)
         /\ OnPulseTclkCount => Clocks("pulses", 2 - tdi, 0)
         /\ OnFlashTclk => Clocks("flash", IF Tims THEN 2 ELSE 3 - tdi, IF Tims THEN 1 ELSE tdi)
<1>1. tdi \in Bit /\ mosi = tdi
  BY DEF IInv, Types, PinKept
<1>2. ASSUME NEW op \in Strobes, NEW levels, NEW pin \in Bit, Drive(op, levels, pin),
             mosi' = pin, Rises(levels) \in Nat
      PROVE  IInv' /\ Clocks(op, Rises(levels), pin)
  BY <1>2, TclkStep DEF Clocks
<1>3. OnSetTclk => IInv' /\ Clocks("set", 1 - tdi, 1)
  <2>1. Last(<<1>>) = 1
    BY DEF Last
  <2> QED
    BY <2>1, <1>1, <1>2, RisesOf DEF OnSetTclk, SendTclk, Bit, Strobes
<1>4. OnClearTclk => IInv' /\ Clocks("clear", 0, 0)
  <2>1. Last(<<0>>) = 0
    BY DEF Last
  <2> QED
    BY <2>1, <1>1, <1>2, RisesOf DEF OnClearTclk, SendTclk, Bit, Strobes
<1>5. OnPulseTclk => IInv' /\ Clocks("pulse", 1 - tdi, 0)
  <2>1. Last(<<1, 0>>) = 0
    BY DEF Last
  <2> QED
    BY <2>1, <1>1, <1>2, RisesOf DEF OnPulseTclk, SendTclk, Bit, Strobes
<1>6. OnPulseTclkN => IInv' /\ Clocks("pulseN", 1, 1)
  <2>1. Last(<<0, 1>>) = 1
    BY DEF Last
  <2> QED
    BY <2>1, <1>1, <1>2, RisesOf DEF OnPulseTclkN, SendTclk, Bit, Strobes
<1>7. OnPulseTclkCount => IInv' /\ Clocks("pulses", 2 - tdi, 0)
  <2>1. Last([i \in 1 .. 2 * Pulses |-> i % 2]) = 0
    BY <1>1, RisesOf
  <2> QED
    BY <2>1, <1>1, <1>2, RisesOf DEF OnPulseTclkCount, SendTclk, Bit, Strobes
<1>8. OnFlashTclk => IInv' /\ Clocks("flash", IF Tims THEN 2 ELSE 3 - tdi, IF Tims THEN 1 ELSE tdi)
  <2>1. Rises(FlashLevels) = IF Tims THEN 2 ELSE 3 - tdi
    BY <1>1, RisesOfFlash
  <2>2. OnFlashTclk => Drive("flash", FlashLevels, IF Tims THEN 1 ELSE mosi)
                       /\ mosi' = IF Tims THEN 1 ELSE mosi
    BY DEF OnFlashTclk, FlashLevels, FlashEnd
  <2>3. (IF Tims THEN 2 ELSE 3 - tdi) \in Nat /\ (IF Tims THEN 1 ELSE mosi) \in Bit
    BY <1>1 DEF Bit
  <2> QED
    BY <2>1, <2>2, <2>3, <1>1, <1>2 DEF Strobes
<1> QED
  BY <1>3, <1>4, <1>5, <1>6, <1>7, <1>8 DEF Tclk

LEMMA LoadFacts ==
  ASSUME IInv, TargetLoads
  PROVE  /\ IInv' /\ call = NoCall /\ reg'["IR"] = reg["IR"]
         /\ UNCHANGED <<driver, tap, sr, tdi, mosi, call, shaper, tx, rx, answer, up, strobe, cycles>>
<1>1. /\ call = NoCall
      /\ UNCHANGED <<driver, tap, sr, tdi, mosi, call, shaper, tx, rx, answer, up, strobe, cycles>>
  BY DEF TargetLoads
<1>2. PICK v \in Words : reg' = [reg EXCEPT !["DR"] = v]
  BY DEF TargetLoads
<1>3. Types /\ Resting /\ PinKept
  BY DEF IInv
<1>4. reg' \in [{"IR", "DR"} -> Word] /\ reg'["IR"] = reg["IR"]
  BY <1>2, <1>3, ConstantFacts DEF Types
<1>5. Types'
  BY <1>1, <1>3, <1>4 DEF Types
<1>6. Scanning' /\ Resetting' /\ Resting' /\ PinKept'
  <2>1. ~IsScan(call)' /\ call'.op # "Reset"
    BY <1>1 DEF IsScan, NoCall
  <2> QED
    BY <2>1, <1>1, <1>3 DEF Scanning, Resetting, Resting, PinKept
<1> QED
  BY <1>1, <1>4, <1>5, <1>6 DEF IInv

\* The argument has the width of the register it is exchanged with.
LEMMA ShiftCalls ==
  ASSUME IInv, NEW data \in Words
  PROVE  /\ OnIrShift(data) => \E c \in Scans : OnScan(c) /\ IInv'
         /\ OnDrShift(data) => \E c \in Scans : OnScan(c) /\ IInv'
<1>1. data \in Word
  BY ConstantFacts
<1>2. ASSUME OnIrShift(data)
      PROVE  \E c \in Scans : OnScan(c) /\ IInv'
  <2> DEFINE c == [op |-> "IR", data |-> data]
  <2>1. c \in Scans /\ OnScan(c) /\ c.op = "IR" /\ Len(c.data) = Len(JtagId)
    BY <1>1, <1>2, ConstantFacts DEF Scans, OnIrShift
  <2> HIDE DEF c
  <2> QED
    BY <2>1, StartScan
<1>3. ASSUME OnDrShift(data)
      PROVE  \E c \in Scans : OnScan(c) /\ IInv'
  <2> DEFINE c == [op |-> "DR", data |-> data]
  <2>1. c \in Scans /\ OnScan(c) /\ c.op = "DR" /\ Len(c.data) = Len(reg["DR"])
    BY <1>1, <1>3 DEF Scans, OnDrShift
  <2> HIDE DEF c
  <2> QED
    BY <2>1, StartScan
<1> QED
  BY <1>2, <1>3

LEMMA ClockInv ==
  ASSUME IInv, Clock
  PROVE  IInv' /\ (IsScan(call) \/ call.op = "Reset")
<1>1. IsScan(call) \/ call.op = "Reset"
  BY CallFacts, ClockFacts DEF IInv
<1> QED
  BY <1>1, ScanClockInv, ResetClock

LEMMA StepInv == IInv /\ [Next]_vars => IInv'
<1> SUFFICES ASSUME IInv, [Next]_vars PROVE IInv'
  OBVIOUS
<1>1. ASSUME NEW data \in Words, OnIrShift(data) \/ OnDrShift(data)
      PROVE  IInv'
  BY <1>1, ShiftCalls
<1>2. CASE OnResetTap
  BY <1>2, StartReset
<1>3. CASE Clock
  BY <1>3, ClockInv
<1>4. CASE Return
  BY <1>4, ReturnFacts
<1>5. CASE Tclk
  BY <1>5, TclkFacts
<1>6. CASE TargetLoads
  BY <1>6, LoadFacts
<1>7. CASE UNCHANGED vars
  <2>1. Types'
    BY <1>7 DEF IInv, Types, vars
  <2>2. Scanning'
    BY <1>7 DEF IInv, Scanning, vars, IsScan, Captured, Width, Played, ScanClocks, ResultPos, Tims,
                S, P, ScanSlot, Level, Anticipation, Moved, Sampled, ByTimer
  <2>3. Resetting' /\ Resting' /\ PinKept'
    BY <1>7 DEF IInv, Resetting, Resting, PinKept, vars, Played, ResetClocks, Tims, Anticipation,
                ByTimer
  <2> QED
    BY <2>1, <2>2, <2>3 DEF IInv
<1> QED
  BY <1>1, <1>2, <1>3, <1>4, <1>5, <1>6, <1>7 DEF Next, Tclk

LEMMA Invariance == Spec => []IInv
BY InitFacts, StepInv, PTL DEF Spec

-----------------------------------------------------------------------------
(* The results.                                                            *)

\* Every frame fits the container of the SPI port or the table of the timer
\* driver, whatever is shifted.
LEMMA FrameFits ==
  ASSUME NEW r \in {"IR", "DR"}, NEW n \in {8, 16, 20, 32}
  PROVE  ScanClocks(r, n) <= IF Tims THEN 40 ELSE ContainerBits(n)
<1>1. CASE Tims
  BY <1>1 DEF ScanClocks, ResultPos, SelectScan, CaptureBits
<1>2. CASE ~Tims
  <2>1. ScanClocks(r, n) = 8 * StreamBytes(r, n)
    BY <1>2 DEF ScanClocks
  <2>2. StreamBytes(r, n) <= IF n = 32 THEN 8 ELSE 4
    BY DEF StreamBytes, NecessaryBits, DummyBits, SelectScan, CaptureBits, Shift, ExitBits
  <2>3. StreamBytes(r, n) \in Nat
    BY FrameLength
  <2> QED
    BY <1>2, <2>1, <2>2, <2>3 DEF ContainerBits
<1> QED
  BY <1>1, <1>2

THEOREM TypeSafe == Spec => []TypeOK
<1>1. IInv => TypeOK
  <2> SUFFICES ASSUME IInv PROVE TypeOK
    OBVIOUS
  <2>1. Types
    BY DEF IInv
  <2>2. \A r \in {"IR", "DR"} : reg[r] \in Seq(Bit)
    BY <2>1, WordFacts DEF Types
  <2>3. call = NoCall \/ call.op \in {"IR", "DR", "Reset"}
    BY <2>1 DEF Types, Scans, Resets
  <2>4. IsScan(call) => Len(tx) + Len(rx) <= IF Tims THEN 40 ELSE ContainerBits(Len(call.data))
    <3> SUFFICES ASSUME IsScan(call)
                 PROVE  Len(tx) + Len(rx) <= IF Tims THEN 40 ELSE ContainerBits(Len(call.data))
      OBVIOUS
    <3>1. Played + Len(tx) = ScanClocks(call.op, Width) /\ Scanning
      BY DEF IInv, Scanning
    <3>2. call.op \in {"IR", "DR"} /\ Width \in {8, 16, 20, 32} /\ Played \in Nat /\ Len(tx) \in Nat
      BY <2>1, <3>1, ScanFacts DEF Word, Width
    <3>3. ScanClocks(call.op, Width) <= IF Tims THEN 40 ELSE ContainerBits(Width)
      BY <3>2, FrameFits
    <3> HIDE DEF ScanClocks, ContainerBits
    <3>4. Len(tx) + Played = ScanClocks(call.op, Width)
      BY <3>1, <3>2
    <3> QED
      BY <3>3, <3>4 DEF Played, Width
  <2> QED
    BY <2>1, <2>2, <2>3, <2>4 DEF TypeOK, Types
<1> QED
  BY <1>1, Invariance, PTL

\* After every operation that starts once OnResetTap has been called the port
\* is in Run-Test/Idle, from whatever state it was in before.
THEOREM ReturnsToIdle == Spec => []IdleBetweenCalls
<1>1. IInv => IdleBetweenCalls
  BY DEF IInv, Resting, IdleBetweenCalls
<1> QED
  BY <1>1, Invariance, PTL

-----------------------------------------------------------------------------
(* The train of edges keeps the promise of ITapInterface.                  *)

\* What a caller may see of the operation in progress.
Answered == IF IsScan(call) /\ HadEffect THEN Decode(call) ELSE answer
TclkLevel == IF IsScan(call) /\ tx # <<>> THEN Last(tx).tdi ELSE tdi

LEMMA Seen ==
  ASSUME Types
  PROVE  /\ TclkLevel = IF IsScan(call) THEN Level ELSE tdi
         /\ IsScan(call) => (HadEffect <=> Played >= P + Width + 1)
         /\ call.op = "Reset" => (HadEffect <=> Played >= 6)
         /\ call = NoCall => ~HadEffect
         /\ ~IsScan(call) => Answered = answer
<1>1. Last(tx) = tx[Len(tx)]
  BY DEF Last
<1> QED
  BY <1>1, CallFacts DEF TclkLevel, Level, HadEffect, EffectClock, Played, P, Width, Answered

LEMMA DecodeKept ==
  ASSUME IInv, Clock, IsScan(call), Played >= P + Width
  PROVE  Decode(call)' = Decode(call)
<1>1. Types /\ Scanning
  BY DEF IInv
<1>2. Width \in Nat /\ Width >= 8 /\ P \in Nat /\ P + 1 \in Int /\ P + Width \in Int /\ Played \in Nat
  BY <1>1, ScanFacts
<1>3. /\ rx' \in Seq({0, 1, 2}) /\ rx \in Seq({0, 1, 2}) /\ Len(rx') = Len(rx) + 1 /\ Len(rx) = Played
      /\ \A i \in 1 .. Len(rx) : rx'[i] = rx[i]
  BY <1>1, ShiftRegister, ClockFacts DEF Types, Played
<1>4. \A i \in P + 1 .. P + Width : i \in 1 .. Len(rx) /\ i \in 1 .. Len(rx')
  BY <1>2, <1>3
<1>5. \A i \in P + 1 .. P + Width : rx[i] \in {0, 1, 2} /\ rx'[i] \in {0, 1, 2} /\ rx'[i] = rx[i]
  BY <1>3, <1>4, ElementOfSeq
<1> DEFINE u == SubSeq(rx, P + 1, P + Width)
           v == SubSeq(rx', P + 1, P + Width)
<1>6. /\ u \in Seq({0, 1, 2}) /\ Len(u) = (IF P + 1 <= P + Width THEN P + Width - (P + 1) + 1 ELSE 0)
      /\ \A i \in 1 .. P + Width - (P + 1) + 1 : u[i] = rx[P + 1 + i - 1]
  BY <1>2, <1>5, SubSeqProperties
<1>7. /\ v \in Seq({0, 1, 2}) /\ Len(v) = (IF P + 1 <= P + Width THEN P + Width - (P + 1) + 1 ELSE 0)
      /\ \A i \in 1 .. P + Width - (P + 1) + 1 : v[i] = rx'[P + 1 + i - 1]
  BY <1>2, <1>5, SubSeqProperties
<1> HIDE DEF u, v
<1>8. P + Width - (P + 1) + 1 = Width /\ P + 1 <= P + Width
  BY <1>2
<1>9. \A i \in 1 .. Width : P + 1 + i - 1 \in P + 1 .. P + Width
  BY <1>2
<1>10. Len(u) = Len(v) /\ Len(u) = Width /\ \A i \in 1 .. Len(u) : u[i] = v[i]
  BY <1>5, <1>6, <1>7, <1>8, <1>9
<1>11. u = v
  BY <1>6, <1>7, <1>10, SeqEqual
<1>12. UNCHANGED <<driver, call>>
  BY <1>1, ClockFacts
<1>13. Decode(call) = IF call.op = "DR" /\ Width = 20 THEN Unrotate(u) ELSE u
  BY DEF Decode, P, Width, u
<1>14. Decode(call)' = IF call.op = "DR" /\ Width = 20 THEN Unrotate(v) ELSE v
  BY <1>12 DEF Decode, P, Width, v, ResultPos, Tims, Unrotate
<1> QED
  BY <1>11, <1>13, <1>14

LEMMA BeginRefines ==
  ASSUME IInv, IInv', call = NoCall, call' # NoCall, rx' = <<>>, answer' = NoAnswer,
         strobe' = "none", cycles' = 0, UNCHANGED <<reg, tdi>>
  PROVE  Promise!Begin
<1>1. Types /\ Types' /\ Scanning'
  BY DEF IInv
<1>2. ~IsScan(call) /\ ~HadEffect /\ TclkLevel = tdi
  BY <1>1, CallFacts, Seen
<1>3. Played' = 0
  BY DEF Played
<1>4. EffectClock' \in Nat /\ EffectClock' >= 6
  <2>1. IsScan(call)' => call' \in Scans
    BY <1>1 DEF Types, IsScan, Scans, Resets, NoCall
  <2>2. IsScan(call)' => Len(call'.data) \in Nat /\ Len(call'.data) >= 8 /\ call'.op \in {"IR", "DR"}
    BY <2>1, WordFacts DEF Scans
  <2>3. IsScan(call)' => ResultPos(call.op)' \in Nat
    BY <2>2 DEF ResultPos, HeadClocks, SelectScan, DummyBits, CaptureBits
  <2> QED
    BY <2>2, <2>3 DEF EffectClock
<1>5. ~HadEffect'
  BY <1>3, <1>4 DEF HadEffect, Played
<1>6. TclkLevel' = tdi
  <2>1. CASE IsScan(call)'
    <3>1. Played' <= P' => tdi' = Level'
      BY <2>1, <1>1 DEF Scanning
    <3>2. P' \in Nat
      BY <2>1, <1>1 DEF P, ResultPos, HeadClocks, SelectScan, DummyBits, CaptureBits
    <3>3. Level' = tdi
      BY <3>1, <3>2, <1>3
    <3>4. TclkLevel' = IF tx' # <<>> THEN tx'[Len(tx')].tdi ELSE tdi'
      BY <2>1 DEF TclkLevel, Last
    <3> QED
      BY <3>3, <3>4 DEF Level
  <2>2. CASE ~IsScan(call)'
    BY <2>2 DEF TclkLevel
  <2> QED
    BY <2>1, <2>2
<1>7. Answered' = NoAnswer
  BY <1>5 DEF Answered
<1> QED
  BY <1>2, <1>5, <1>6, <1>7
     DEF Promise!Begin, Promise!NoCall, Promise!NoAnswer, NoCall, NoAnswer, Answered, TclkLevel

LEMMA ScanClockRefines ==
  ASSUME IInv, IInv', Clock, IsScan(call)
  PROVE  [Promise!Next]_(Promise!vars)
<1> DEFINE k == Played
           n == Width
<1>1. Types /\ Types' /\ Scanning
  BY DEF IInv
<1>2. /\ call.op \in {"IR", "DR"} /\ n \in Nat /\ n >= 8 /\ k \in Nat /\ P \in Nat
      /\ call # NoCall
  BY <1>1, ScanFacts, CallFacts
<1>3. /\ Level' = Level /\ cycles' = cycles
      /\ reg' = IF k = P + n THEN [reg EXCEPT ![call.op] = call.data] ELSE reg
  BY ScanClock
<1>4. UNCHANGED <<driver, call, answer, up, strobe>> /\ Played' = k + 1
  BY <1>1, ClockFacts
<1>5. S' = S /\ P' = P /\ Width' = n /\ IsScan(call)'
  BY <1>4 DEF S, P, Width, IsScan, ResultPos, Tims
<1>6. TclkLevel' = TclkLevel
  <2>1. TclkLevel = Level
    BY <1>1, Seen
  <2>2. TclkLevel' = Level'
    BY <1>5 DEF TclkLevel, Level, Last
  <2> QED
    BY <2>1, <2>2, <1>3
<1>7. HadEffect <=> k >= P + n + 1
  BY <1>1, Seen
<1>8. HadEffect' <=> k + 1 >= P + n + 1
  <2>1. EffectClock' = P' + Width' + 1 /\ call' # NoCall
    BY <1>2, <1>4, <1>5 DEF EffectClock, P, Width
  <2> QED
    BY <2>1, <1>4, <1>5 DEF HadEffect, Played
<1> HIDE DEF k, n
<1>9. CASE k = P + n
  <2>1. ~HadEffect /\ HadEffect'
    BY <1>2, <1>7, <1>8, <1>9
  <2>2. Answered' = Promise!Old(call.op)
    <3>1. k >= P + n
      BY <1>2, <1>9
    <3>2. Decode(call)' = Decode(call) /\ Sample = Captured
          /\ Decode(call) = IF call.op = "DR" /\ n = 20 THEN Unrotate(Sample) ELSE Sample
      BY <3>1, <1>9, DecodeKept, SampleFacts DEF k, n
    <3>3. Answered' = Decode(call)'
      BY <2>1, <1>5 DEF Answered
    <3>4. Len(Captured) = n
      BY <1>1 DEF Scanning, n
    <3>5. CASE call.op = "IR"
      BY <3>2, <3>3, <3>5 DEF Promise!Old, Captured
    <3>6. CASE call.op = "DR"
      BY <3>2, <3>3, <3>4, <3>6 DEF Promise!Old, Promise!Unrotate, Captured, Unrotate
    <3> QED
      BY <3>5, <3>6, <1>2
  <2>3. Promise!Exchange
    BY <2>1, <2>2, <1>3, <1>4, <1>6, <1>9
       DEF Promise!Exchange, Promise!IsScan, IsScan, Answered, TclkLevel
  <2> QED
    BY <2>3 DEF Promise!Next
<1>10. CASE k # P + n
  <2>1. HadEffect' = HadEffect
    <3>1. HadEffect' <=> HadEffect
      BY <1>2, <1>7, <1>8, <1>10
    <3> QED
      BY <3>1 DEF HadEffect
  <2>2. Answered' = Answered
    <3>1. CASE HadEffect
      <4>1. Decode(call)' = Decode(call)
        BY <3>1, <1>2, <1>7, DecodeKept DEF k, n
      <4> QED
        BY <4>1, <3>1, <2>1, <1>4, <1>5 DEF Answered
    <3>2. CASE ~HadEffect
      BY <3>2, <2>1, <1>4 DEF Answered
    <3> QED
      BY <3>1, <3>2
  <2>3. UNCHANGED Promise!vars
    BY <2>1, <2>2, <1>3, <1>4, <1>6, <1>10 DEF Promise!vars, Answered, TclkLevel
  <2> QED
    BY <2>3
<1> QED
  BY <1>9, <1>10

LEMMA ResetClockRefines ==
  ASSUME IInv, IInv', Clock, call.op = "Reset"
  PROVE  [Promise!Next]_(Promise!vars)
<1>1. Types /\ Resetting' /\ PinKept
  BY DEF IInv
<1>2. /\ Played \in 0 .. 7 /\ (Played > 0 => tdi' = tdi) /\ tdi' \in {tdi, 1}
      /\ Played >= 6 => reg' = reg
  BY ResetClock
<1>3. /\ UNCHANGED <<driver, call, answer, up, strobe>> /\ Played' = Played + 1 /\ call # NoCall
      /\ cycles' = cycles + IF tap = Idle THEN Rise(tdi, tdi') ELSE 0
  BY <1>1, ClockFacts
<1>4. ~IsScan(call) /\ ~IsScan(call)' /\ call'.op = "Reset"
  BY <1>1, <1>3, CallFacts DEF IsScan
<1>5. TclkLevel = tdi /\ TclkLevel' = tdi' /\ Answered = answer /\ Answered' = answer
  BY <1>3, <1>4 DEF TclkLevel, Answered
<1>6. (HadEffect <=> Played >= 6) /\ (HadEffect' <=> Played + 1 >= 6)
  BY <1>2, <1>3, <1>4 DEF HadEffect, EffectClock, Played
<1>7. HadEffect' => reg'["IR"] = Bypass
  BY <1>1, <1>2, <1>3, <1>4, <1>6 DEF Resetting
<1>8. cycles \in Nat /\ tdi \in Bit
  BY <1>1 DEF Types
<1>9. CASE Played >= 6
  <2>1. tdi' = tdi
    BY <1>2, <1>9
  <2>2. cycles' = cycles
    BY <2>1, <1>3, <1>8 DEF Rise
  <2>3. HadEffect' = HadEffect
    <3>1. HadEffect' <=> HadEffect
      BY <1>2, <1>6, <1>9
    <3> QED
      BY <3>1 DEF HadEffect
  <2>4. UNCHANGED Promise!vars
    BY <2>1, <2>2, <2>3, <1>2, <1>3, <1>5, <1>9 DEF Promise!vars, Answered, TclkLevel
  <2> QED
    BY <2>4
<1>10. CASE ~(Played >= 6)
  <2>1. cycles' \in {cycles, cycles + tdi' - tdi}
    <3>1. cycles' = cycles + Rise(tdi, tdi') \/ cycles' = cycles + 0
      BY <1>3
    <3>2. CASE tdi' = tdi
      <4>1. Rise(tdi, tdi') = 0
        BY <3>2 DEF Rise
      <4> QED
        BY <3>1, <4>1, <1>8
    <3>3. CASE tdi = 0 /\ tdi' = 1
      <4>1. cycles + tdi' - tdi = cycles + 1 /\ cycles + 0 = cycles
        BY <3>3, <1>8
      <4>2. Rise(tdi, tdi') = 1
        BY <3>3 DEF Rise
      <4> QED
        BY <3>1, <4>1, <4>2
    <3> QED
      BY <3>2, <3>3, <1>2, <1>8 DEF Bit
  <2>2. Promise!Settle
    BY <2>1, <1>2, <1>3, <1>5, <1>6, <1>7, <1>10 DEF Promise!Settle, Answered, TclkLevel
  <2> QED
    BY <2>2 DEF Promise!Next
<1> QED
  BY <1>9, <1>10

LEMMA ReturnRefines ==
  ASSUME IInv, IInv', Return
  PROVE  Promise!Return
<1>1. Types /\ Resetting
  BY DEF IInv
<1>2. /\ call # NoCall /\ call' = NoCall /\ tx = <<>>
      /\ answer' = (IF IsScan(call) THEN Decode(call) ELSE NoAnswer)
      /\ UNCHANGED <<driver, tap, sr, reg, tdi, mosi, tx, strobe, cycles>>
  BY DEF Return
<1>3. IsScan(call) \/ call.op = "Reset"
  BY <1>1, <1>2, CallFacts DEF Resets
<1>4. HadEffect
  BY <1>1, <1>3, ReturnFacts, Seen
<1>5. ~IsScan(call)' /\ ~HadEffect'
  BY <1>2 DEF IsScan, NoCall, HadEffect
<1>6. TclkLevel' = TclkLevel
  BY <1>2, <1>5 DEF TclkLevel
<1>7. Answered' = Answered
  <2>1. CASE IsScan(call)
    BY <2>1, <1>2, <1>4, <1>5 DEF Answered
  <2>2. CASE call.op = "Reset"
    <3>1. ~IsScan(call) /\ answer = NoAnswer
      BY <2>2, <1>1, CallFacts DEF Resetting
    <3> QED
      BY <3>1, <1>2, <1>5 DEF Answered
  <2> QED
    BY <2>1, <2>2, <1>3
<1> QED
  BY <1>2, <1>4, <1>5, <1>6, <1>7
     DEF Promise!Return, Promise!NoCall, NoCall, Answered, TclkLevel

LEMMA StrobeRefines ==
  ASSUME IInv, IInv', NEW op, NEW n, NEW level, Clocks(op, n, level)
  PROVE  /\ Promise!Strobe(op, n, level)
         /\ TclkLevel = tdi
<1>1. Types /\ Types'
  BY DEF IInv
<1>2. ~IsScan(call) /\ ~HadEffect /\ ~IsScan(call)' /\ ~HadEffect' /\ call = NoCall
  BY DEF Clocks, IsScan, NoCall, HadEffect
<1>3. TclkLevel = tdi /\ TclkLevel' = tdi' /\ Answered = answer /\ Answered' = answer'
  BY <1>2 DEF TclkLevel, Answered
<1>4. HadEffect' = HadEffect
  BY <1>2 DEF HadEffect
<1> QED
  BY <1>2, <1>3, <1>4
     DEF Clocks, Promise!Strobe, Promise!NoCall, NoCall, Answered, TclkLevel

LEMMA TclkRefines ==
  ASSUME IInv, IInv', Tclk
  PROVE  Promise!Next
<1>1. tdi \in Bit
  BY DEF IInv, Types
<1>2. ASSUME NEW op, NEW n, NEW level, Clocks(op, n, level)
      PROVE  Promise!Strobe(op, n, level) /\ TclkLevel = tdi
  BY <1>2, StrobeRefines
<1>3. CASE OnSetTclk
  <2>1. Promise!Strobe("set", 1 - tdi, 1) /\ TclkLevel = tdi
    BY <1>2, <1>3, TclkFacts
  <2> QED
    BY <2>1 DEF Promise!Next, Promise!SetTclk, TclkLevel
<1>4. CASE OnClearTclk
  <2>1. Promise!Strobe("clear", 0, 0)
    BY <1>2, <1>4, TclkFacts
  <2> QED
    BY <2>1 DEF Promise!Next, Promise!ClearTclk
<1>5. CASE OnPulseTclk
  <2>1. Promise!Strobe("pulse", 1 - tdi, 0) /\ TclkLevel = tdi
    BY <1>2, <1>5, TclkFacts
  <2>2. Promise!PulseTclk
    BY <2>1 DEF Promise!PulseTclk, TclkLevel
  <2> QED
    BY <2>2 DEF Promise!Next
<1>6. CASE OnPulseTclkN
  <2>1. Promise!Strobe("pulseN", 1, 1)
    BY <1>2, <1>6, TclkFacts
  <2> QED
    BY <2>1 DEF Promise!Next, Promise!PulseTclkN
<1>7. CASE OnPulseTclkCount
  <2>1. Promise!Strobe("pulses", 2 - tdi, 0) /\ TclkLevel = tdi
    BY <1>2, <1>7, TclkFacts
  <2>2. Promise!PulseTclkCount
    BY <2>1 DEF Promise!PulseTclkCount, Pulses, TclkLevel
  <2> QED
    BY <2>2 DEF Promise!Next
<1>8. CASE OnFlashTclk
  <2> DEFINE n == IF Tims THEN 2 ELSE 3 - tdi
             level == IF Tims THEN 1 ELSE tdi
  <2>1. Promise!Strobe("flash", n, level) /\ TclkLevel = tdi
    BY <1>2, <1>8, TclkFacts
  <2>2. level \in {tdi, 1} /\ \E extra \in 0 .. 1 - tdi : n = Pulses + extra
    BY <1>1 DEF Bit, Pulses
  <2> HIDE DEF n, level
  <2>3. Promise!FlashTclk
    BY <2>1, <2>2 DEF Promise!FlashTclk, TclkLevel
  <2> QED
    BY <2>3 DEF Promise!Next
<1> QED
  BY <1>3, <1>4, <1>5, <1>6, <1>7, <1>8 DEF Tclk

LEMMA StepRefines ==
  ASSUME IInv, IInv', [Next]_vars
  PROVE  [Promise!Next]_(Promise!vars)
<1>1. ASSUME NEW data \in Words, OnIrShift(data) \/ OnDrShift(data)
      PROVE  Promise!Next
  <2>1. PICK c \in Scans : OnScan(c)
    BY <1>1, ShiftCalls
  <2>2. /\ call = NoCall /\ call' = c /\ rx' = <<>> /\ answer' = NoAnswer
        /\ strobe' = "none" /\ cycles' = 0 /\ UNCHANGED <<reg, tdi>>
    BY <2>1 DEF OnScan, Start
  <2>3. call' # NoCall
    BY <2>2 DEF Scans, NoCall
  <2> QED
    BY <2>2, <2>3, BeginRefines DEF Promise!Next
<1>2. CASE OnResetTap
  <2>1. /\ call = NoCall /\ call' # NoCall /\ rx' = <<>> /\ answer' = NoAnswer
        /\ strobe' = "none" /\ cycles' = 0 /\ UNCHANGED <<reg, tdi>>
    BY <1>2 DEF OnResetTap, Start, NoCall
  <2> QED
    BY <2>1, BeginRefines DEF Promise!Next
<1>3. CASE Clock
  BY <1>3, ClockInv, ScanClockRefines, ResetClockRefines
<1>4. CASE Return
  BY <1>4, ReturnRefines DEF Promise!Next
<1>5. CASE Tclk
  BY <1>5, TclkRefines
<1>6. CASE TargetLoads
  <2>1. /\ call = NoCall /\ reg'["IR"] = reg["IR"]
        /\ UNCHANGED <<driver, tap, sr, tdi, mosi, call, shaper, tx, rx, answer, up, strobe, cycles>>
    BY <1>6, LoadFacts
  <2>2. ~IsScan(call) /\ ~HadEffect /\ ~IsScan(call)' /\ ~HadEffect'
    BY <2>1 DEF IsScan, NoCall, HadEffect
  <2>3. HadEffect' = HadEffect
    BY <2>2 DEF HadEffect
  <2>4. Promise!TargetLoads
    BY <2>1, <2>2, <2>3 DEF Promise!TargetLoads, Promise!NoCall, NoCall
  <2> QED
    BY <2>4 DEF Promise!Next
<1>7. CASE UNCHANGED vars
  <2>1. Decode(call)' = Decode(call) /\ HadEffect' = HadEffect /\ IsScan(call)' = IsScan(call)
    BY <1>7 DEF vars, Decode, HadEffect, IsScan, ResultPos, Tims, Unrotate, EffectClock
  <2> QED
    BY <1>7, <2>1 DEF vars, Promise!vars
<1> QED
  BY <1>1, <1>2, <1>3, <1>4, <1>5, <1>6, <1>7 DEF Next, Tclk

\* Whatever is shifted through registers of any of the four widths, by any of
\* the driver classes, the train of edges does what ITapInterface promises.
THEOREM KeepsThePromise == Spec => ImplementsScan
<1>1. Init => Promise!Init
  <2> SUFFICES ASSUME Init PROVE Promise!Init
    OBVIOUS
  <2>1. ~IsScan(call) /\ ~HadEffect /\ HadEffect \in BOOLEAN
    BY DEF Init, IsScan, NoCall, HadEffect
  <2> QED
    BY <2>1 DEF Init, Promise!Init, Promise!NoCall, NoCall, Promise!NoAnswer, NoAnswer, Bit
<1>2. IInv /\ IInv' /\ [Next]_vars => [Promise!Next]_(Promise!vars)
  BY StepRefines
<1> QED
  BY <1>1, <1>2, Invariance, PTL DEF Spec, ImplementsScan, Promise!Spec
=============================================================================
