-------------------------- MODULE TapAccess_proof --------------------------
(***************************************************************************)
(* The operations of the three drivers keep the promise of ITapDev on      *)
(* every part and for all arguments LegalCall admits: TapAccess implements *)
(* TapPort (PromiseKept), the flash is closed between two operations       *)
(* (FlashStaysClosed), a program goes on as it was asked to (LetGoAsAsked) *)
(* and registers are read without a trace (ReadQuietly).                   *)
(*                                                                         *)
(* First what each script does (the ...Call lemmas), then that each        *)
(* operation serves its call (Served: it makes exactly the changes it      *)
(* promises, in order, and ends ready for the next call with the answer in *)
(* its locals).  So the invariant (Inv of TapInvariant) holds when a call  *)
(* arrives, and each step is the first one of the path it speaks of: the   *)
(* path goes on, and the step is the next promised change or none.  TLC    *)
(* cannot evaluate Inv, which speaks of runs of any length; what it        *)
(* implies is what the run TapAccess checks.                               *)
(*                                                                         *)
(* Assumed of the constants: MemoryAssumption (where words lie),           *)
(* PartsAssumption (the strobes of the profile or of the driver suffice    *)
(* for the part's flash, its LOCKA is known) and CallsAssumption           *)
(* (LegalCall, the number of calls).                                       *)
(***************************************************************************)
EXTENDS TapInvariant, TapScripts_proof

-----------------------------------------------------------------------------
(* The operations of the older drivers on memory.                          *)

\* A list of steps, played, is a script.
LEMMA PlaySeq ==
    ASSUME NEW S, NEW A
    PROVE  IsSeq(Play(S, A))
  BY PrimSeq

\* The short scripts are sequences.
LEMMA MoreSeq ==
    /\ IsSeq(HaltCpu) /\ IsSeq(ReleaseCpu) /\ IsSeq(WorkaroundF149)
    /\ \A i : IsSeq(OnTclk(i)) \/ i \notin Clocks
    /\ \A ir, d : ir \in Octets /\ d \in Values16 => IsSeq(Play1(kIrDr16(ir, d)))
  <1>1. IsSeq(HaltCpu) /\ IsSeq(WorkaroundF149)
    <2>1. IsSeq(HaltCpu)
      BY PlaySeq DEF HaltCpu
    <2>2. IsSeq(WorkaroundF149)
      BY PlaySeq DEF WorkaroundF149
    <2> QED BY <2>1, <2>2
  <1>2. \A ir, d : ir \in Octets /\ d \in Values16 => IsSeq(Play1(kIrDr16(ir, d)))
    <2> TAKE ir, d
    <2> HAVE ir \in Octets /\ d \in Values16
    <2>1. Play1(kIrDr16(ir, d)) = Ir(ir) \o Dr(d)
      BY PackIrDr
    <2>2. IsSeq(Ir(ir)) /\ IsSeq(Dr(d))
      BY PrimSeq
    <2> QED BY <2>1, <2>2, SeqConcat
  <1>3. IsSeq(ReleaseCpu)
    <2>1. /\ \h2401 \in Values16 /\ IR_CNTRL_SIG_16BIT \in Octets /\ IR_ADDR_CAPTURE \in Octets
          /\ kdNone \in Clocks
      BY ControlWords, Ports
    <2>2. IsSeq(Play1(kIrDr16(IR_CNTRL_SIG_16BIT, \h2401)))
      BY <1>2, <2>1
    <2>3. IsSeq(Play1(kIr(kdNone, IR_ADDR_CAPTURE, kdNone)))
      <3>1. kdNone \in Nibbles /\ IsSeq(OnTclk(kdNone))
        BY <2>1, ClockSeq
      <3>2. Play1(kIr(kdNone, IR_ADDR_CAPTURE, kdNone))
               = OnTclk(kdNone) \o Ir(IR_ADDR_CAPTURE) \o OnTclk(kdNone)
        BY <2>1, <3>1, PackIr
      <3> DEFINE c == OnTclk(kdNone)
                 d == Ir(IR_ADDR_CAPTURE)
      <3>3. IsSeq(c) /\ IsSeq(d)
        BY <3>1, PrimSeq
      <3>4. Play1(kIr(kdNone, IR_ADDR_CAPTURE, kdNone)) = c \o d \o c
        BY <3>2
      <3> HIDE DEF c, d
      <3>5. IsSeq(c \o d)
        BY <3>3, SeqConcat
      <3>6. IsSeq(c \o d \o c)
        BY <3>3, <3>5, SeqConcat
      <3> QED BY <3>4, <3>6
    <2> DEFINE a == Play1(kIrDr16(IR_CNTRL_SIG_16BIT, \h2401))
               b == Play1(kIr(kdNone, IR_ADDR_CAPTURE, kdNone))
    <2> HIDE DEF a, b
    <2>4. IsSeq(a) /\ IsSeq(b) /\ IsSeq(Set) /\ IsSeq(Clr)
      BY <2>2, <2>3, PulseSeq DEF a, b
    <2>5. IsSeq(Clr \o a \o b \o Set)
      <3>1. IsSeq(Clr \o a)
        BY <2>4, SeqConcat
      <3>2. IsSeq(Clr \o a \o b)
        BY <2>4, <3>1, SeqConcat
      <3> QED BY <2>4, <3>2, SeqConcat
    <2> QED BY <2>5 DEF ReleaseCpu, a, b
  <1> QED BY <1>1, <1>2, <1>3, ClockSeq

\* A target halted for JTAG to use its bus.
Halt(u) == P(u, IR_CNTRL_SIG_16BIT, \h2409, 1, u.mab, u.dto, \h3FFF, Bus(u, \h2409, u.mab), Fetch)

\* HaltCpu stops the CPU with the bus free.
LEMMA HaltCall ==
    ASSUME NEW p, Legacy(p), NEW E, NEW g, NEW u, Ready(p, u)
    PROVE  Does(E, HaltCpu, u, g, Halt(u), g)
  <1>1. /\ u = P(u, u.ir, u.cntrl, 1, u.mab, u.dto, u.din, u.mdb, Fetch)
        /\ Calm(u) /\ Legacy(u)
    BY ReadyLegacy
  <1>2. Does(E, HaltCpu, P(u, u.ir, u.cntrl, 1, u.mab, u.dto, u.din, u.mdb, Fetch), g, Halt(u), g)
    BY <1>1, HaltCpuDoes DEF Halt
  <1> QED BY <1>1, <1>2

\* What an operation that changes nothing leaves.
Intact(p, u, w) == Ready(p, w) /\ Akin(u, w) /\ Unmoved(u, w) /\ w.pcok = u.pcok /\ w.reg = u.reg

\* A script of the older drivers that leaves the port at rest and nothing else
\* changed leaves the target intact.
LEMMA IntactAfter ==
    ASSUME NEW p, Legacy(p), NEW E, NEW g, NEW h, NEW s, NEW u, Ready(p, u), NEW w, NEW ir,
           NEW cntrl,
           NEW mab, NEW dto, NEW din, NEW mdb, Rested(ir, cntrl),
           w = P(u, ir, cntrl, 1, mab, dto, din, mdb, Fetch), Does(E, s, u, g, w, h)
    PROVE  Intact(p, u, w) /\ w.cntrl = cntrl
  <1>1. Resting(p, u) /\ Sound(u)
    BY RestingIs DEF Ready
  <1>2. Sound(w)
    BY <1>1, DoesSound
  <1>3. Ready(p, w) /\ Behind(u, w) /\ w.cntrl = cntrl
    BY <1>1, <1>2, ReadyAfter
  <1> QED BY <1>3 DEF Behind, Intact, Unmoved

\* The control signals for a read, and their low byte: of a word, or of a byte.
Sized(k, l) == k \in {\h2409, \h2419} /\ l \in {\h09, \h19} /\ k = WithLow(\h2409, l)

\* The control words that read words and bytes.
LEMMA SizedAre ==
    Sized(\h2409, \h09) /\ Sized(\h2419, \h19)
  BY DEF Sized, WithLow

\* A read of one place brings what the bus shows there, and changes nothing.
LEMMA ReadOneCall ==
    ASSUME NEW p, Legacy(p), NEW E, NEW g, NEW u, Ready(p, u), NEW a \in RegValues(p),
           NEW k, NEW l, Sized(k, l)
    PROVE  /\ \E w : /\ Does(E, IF p.drv = "std" THEN ReadOne(k, a) ELSE ReadOne_X(l, a), u, g,
                                w, Got(g, "data", Bus(u, k, a)))
                     /\ Intact(p, u, w)
           /\ IsSeq(ReadOne(k, a)) /\ IsSeq(ReadOne_X(l, a))
  <1>1. Calm(u) /\ Legacy(u) /\ u.drv = p.drv /\ a \in RegValues(u)
    BY ReadyLegacy, RestingIs DEF Ready
  <1> DEFINE h == Got(g, "data", Bus(u, k, a))
             w == P(u, IR_ADDR_CAPTURE, \h2401, 1, a, 0, \h3FFF, Bus(u, k, a), Fetch)
  <1>2. Does(E, HaltCpu, u, g, Halt(u), g) /\ IsSeq(HaltCpu)
    BY HaltCall, MoreSeq
  <1> DEFINE s == Play(<<kTclk0, kIrDr16(IR_CNTRL_SIG_16BIT, k), kAddr16,
                         kIr(kdNone, IR_DATA_TO_ADDR, kdTclkP), kDr16_ret(0), kReleaseCpu>>, <<a, "data">>)
             x == Play(<<kTclk0, kIrDr16(IR_CNTRL_SIG_LOW_BYTE, l), kAddr20,
                         kIr(kdNone, IR_DATA_TO_ADDR, kdTclkP), kDr16_ret(0), kReleaseCpu>>, <<a, "data">>)
  <1>3. IsSeq(s) /\ IsSeq(x)
    BY PrimSeq
  <1>4. ReadOne(k, a) = HaltCpu \o s /\ ReadOne_X(l, a) = HaltCpu \o x
    BY DEF ReadOne, ReadOne_X
  <1>5. p.drv = "std" => Does(E, s, Halt(u), g, w, h)
    <2> HAVE p.drv = "std"
    <2>1. Addressing(kAddr16, a)
      BY RegValuesAre DEF Addressing
    <2> QED BY <1>1, <2>1, ReadRows DEF Halt, Sized
  <1>6. p.drv # "std" => Does(E, x, Halt(u), g, w, h)
    <2>1. Addressing(kAddr20, a)
      BY DEF Addressing
    <2>2. l \in Values16
      BY PackAlike, Ports DEF Sized
    <2> QED BY <1>1, <2>1, <2>2, ReadRows_X, SMTT(30) DEF Halt, Sized
  <1> HIDE DEF s, x, w, h
  <1>7. Does(E, IF p.drv = "std" THEN ReadOne(k, a) ELSE ReadOne_X(l, a), u, g, w, h)
    <2>1. p.drv = "std" => Does(E, HaltCpu \o s, u, g, w, h)
      BY <1>2, <1>3, <1>5, DoesBoth
    <2>2. p.drv # "std" => Does(E, HaltCpu \o x, u, g, w, h)
      BY <1>2, <1>3, <1>6, DoesBoth
    <2> QED BY <1>4, <2>1, <2>2
  <1>8. Intact(p, u, w)
    BY <1>7, RestedAre, IntactAfter DEF w
  <1>9. IsSeq(ReadOne(k, a)) /\ IsSeq(ReadOne_X(l, a))
    <2>1. IsSeq(HaltCpu \o s)
      BY <1>2, <1>3, SeqConcat
    <2>2. IsSeq(HaltCpu \o x)
      BY <1>2, <1>3, SeqConcat
    <2> QED BY <1>4, <2>1, <2>2
  <1> QED BY <1>7, <1>8, <1>9 DEF h

-----------------------------------------------------------------------------
(* What the bus shows, as the answers of the operations have it.           *)

\* Control signals with which the bus reads words, or bytes.
Words16(c) == c \in {\h2409, \h0501, \h0401, \h0403}
Bytes8(c)  == c = \h2419

\* The width each control word reads.
LEMMA WidthsAre ==
    Words16(\h2409) /\ Words16(\h0501) /\ Bytes8(\h2419)
  BY DEF Words16, Bytes8

\* What the bus shows depends on the width only.
LEMMA BusWide ==
    ASSUME NEW b, NEW a, NEW c
    PROVE  /\ Words16(c) => Bus(b, c, a) = BusRead(b, a, FALSE)
           /\ Bytes8(c) => Bus(b, c, a) = BusRead(b, a, TRUE)
  <1>0. (Words16(c) => Bit(c, \h10) # 1) /\ (Bytes8(c) => Bit(c, \h10) = 1)
    BY DEF Words16, Bytes8, Bit
  <1>1. Words16(c) => Bus(b, c, a) = BusRead(b, a, FALSE)
    BY <1>0 DEF Bus
  <1>2. Bytes8(c) => Bus(b, c, a) = BusRead(b, a, TRUE)
    BY <1>0 DEF Bus
  <1> QED BY <1>1, <1>2

\* A word that is read is the word in memory.
LEMMA WordRead ==
    ASSUME NEW p, NEW u, Resting(p, u), NEW a \in MemAddr, NEW c, Words16(c)
    PROVE  Bus(u, c, a) = u.mem[a]
  <1>1. DOMAIN u.mem = MemAddr
    BY RestingIs DEF Target
  <1>2. a % 2 = 0 /\ a \in Nat /\ a \notin Per8Addr
    BY MemoryAssumption
  <1>3. a - (a % 2) = a
    BY <1>2
  <1>4. BusRead(u, a, FALSE) = Word(u, a)
    BY <1>2, <1>3 DEF BusRead
  <1>5. Word(u, a) = u.mem[a]
    BY <1>1 DEF Word
  <1> QED BY <1>4, <1>5, BusWide

\* Memory holds words, at addresses.
LEMMA WordsIn ==
    ASSUME NEW p, NEW u, Resting(p, u), NEW a \in MemAddr
    PROVE  u.mem[a] \in Values16 /\ a \in Nat
  BY RestingIs, MemoryAssumption DEF Target

\* A byte that is read is the half of its word in memory.
LEMMA ByteRead ==
    ASSUME NEW p, NEW u, Resting(p, u), NEW a \in Nat, a - (a % 2) \in MemAddr, NEW c, Bytes8(c)
    PROVE  Bus(u, c, a) % 256 = ByteAt(u.mem, a)
  <1> DEFINE e == a - (a % 2)
  <1>1. DOMAIN u.mem = MemAddr /\ e \in MemAddr
    BY RestingIs DEF Target
  <1>2. a % 2 \in {0, 1} /\ e \in Nat
    OBVIOUS
  <1>3. a \notin Per8Addr
    <2>1. {e, e + 1} \cap Per8Addr = {}
      BY <1>1, MemoryAssumption
    <2>2. a = e \/ a = e + 1
      BY <1>2
    <2> QED BY <2>1, <2>2
  <1> DEFINE w == u.mem[e]
  <1>4. w \in Values16
    BY <1>1, WordsIn
  <1>5. BusRead(u, a, TRUE) = IF a % 2 = 0 THEN w % 256 ELSE w \div 256
    <2>1. Word(u, e) = w
      BY <1>1 DEF Word
    <2> QED BY <1>2, <1>3, <2>1 DEF BusRead
  <1>6. Bus(u, c, a) = BusRead(u, a, TRUE)
    BY BusWide
  <1> HIDE DEF w
  <1>7. (w % 256) % 256 = w % 256 /\ (w \div 256) % 256 = w \div 256
    BY <1>4 DEF Values16
  <1>8. Bus(u, c, a) % 256 = IF a % 2 = 1 THEN w \div 256 ELSE w % 256
    <2>1. CASE a % 2 = 0
      <3>1. Bus(u, c, a) = w % 256
        BY <1>5, <1>6, <2>1
      <3> QED BY <1>7, <2>1, <3>1
    <2>2. CASE a % 2 = 1
      <3>0. a % 2 # 0
        BY <2>2
      <3>1. Bus(u, c, a) = w \div 256
        BY <1>5, <1>6, <3>0
      <3> QED BY <1>7, <2>2, <3>1
    <2> QED BY <1>2, <2>1, <2>2
  <1> QED BY <1>8 DEF ByteAt, w

\* A peripheral that is read as a byte shows its register.
LEMMA PerRead ==
    ASSUME NEW p, NEW u, Resting(p, u), NEW a \in Per8Addr, NEW c
    PROVE  Bus(u, c, a) % 256 = PerValue(a)
  <1>1. u.per[a] = PerValue(a) /\ a \in 0 .. 255
    BY MemoryAssumption DEF Resting, Belongs
  <1>2. Bus(u, c, a) = u.per[a]
    BY DEF Bus, BusRead
  <1> QED BY <1>1, <1>2 DEF PerValue

\* A sequence grows by its next element.
LEMMA AppendNext ==
    ASSUME NEW V, NEW i \in Nat
    PROVE  Append([j \in 1 .. i |-> V[j]], V[i + 1]) = [j \in 1 .. i + 1 |-> V[j]]
  <1> DEFINE S == {V[j] : j \in 1 .. i + 1}
             s == [j \in 1 .. i |-> V[j]]
  <1>1. s \in Seq(S) /\ Len(s) = i
    <2>1. s \in [1 .. i -> S]
      OBVIOUS
    <2>2. s \in Seq(S)
      BY <2>1, SeqDef
    <2> QED BY <2>1, <2>2, LenProperties
  <1>2. V[i + 1] \in S
    OBVIOUS
  <1>3. /\ Append(s, V[i + 1]) \in Seq(S) /\ Len(Append(s, V[i + 1])) = i + 1
        /\ \A j \in 1 .. i : Append(s, V[i + 1])[j] = s[j]
        /\ Append(s, V[i + 1])[i + 1] = V[i + 1]
    BY <1>1, <1>2, AppendProperties
  <1> DEFINE z == Append(s, V[i + 1])
  <1>4. z = [j \in 1 .. i + 1 |-> z[j]]
    BY <1>3, SeqDef, LenProperties
  <1>5. \A j \in 1 .. i + 1 : z[j] = V[j]
    BY <1>3
  <1> HIDE DEF z
  <1>6. z = [j \in 1 .. i + 1 |-> V[j]]
    BY <1>4, <1>5
  <1> QED BY <1>6 DEF z

\* The buffer read into.
Buf(g, s) == [g EXCEPT !["buf"] = s]

\* What is put into the caller's buffer, one behind the other.
LEMMA BufIs ==
    ASSUME NEW g, Knows(g)
    PROVE  /\ \A s : Buf(g, s)["buf"] = s /\ Knows(Buf(g, s))
           /\ \A s, x : Also(Buf(g, s), x) = Buf(g, Append(s, x))
           /\ g["buf"] = <<>> => Buf(g, <<>>) = g
           /\ \A s : \A v \in Locals : v # "buf" => Buf(g, s)[v] = g[v]
  <1>1. \A s : Buf(g, s)["buf"] = s /\ Knows(Buf(g, s))
    BY LocalsAre DEF Knows, Buf
  <1>2. \A s, x : Also(Buf(g, s), x) = Buf(g, Append(s, x))
    BY LocalsAre DEF Knows, Buf, Also
  <1>3. g["buf"] = <<>> => Buf(g, <<>>) = g
    BY LocalsAre DEF Knows, Buf
  <1>4. \A s : \A v \in Locals : v # "buf" => Buf(g, s)[v] = g[v]
    BY LocalsAre DEF Knows, Buf
  <1> QED BY <1>1, <1>2, <1>3, <1>4

-----------------------------------------------------------------------------
(* Blocks are read.                                                        *)

ReadsAt(k) == k \in {\h2409, \h2419}

\* A control word that reads makes the bus read.
LEMMA ReadsAtIs ==
    ASSUME NEW k, ReadsAt(k), NEW b
    PROVE  k \in Values16 /\ Reads(b, k) /\ ~Writes(b, k)
  BY ControlWords DEF ReadsAt

\* The control words of the block reads do.
LEMMA ReadsAtAre ==
    ReadsAt(\h2409) /\ ReadsAt(\h2419)
  BY DEF ReadsAt

\* What is played for an item of a block at a.
ReadItem(a) == Ir(IR_ADDR_16BIT) \o Dr(a) \o Ir(IR_DATA_TO_ADDR) \o PulseP \o DrTo(0, "buf")

\* u with JTAG reading, TCLK low.
Pausing(u, k, w) ==
    \E ir, mab, dto, din, mdb :
       ir # IR_DATA_QUICK /\ w = P(u, ir, k, 0, mab, dto, din, mdb, Fetch)

\* One turn of a block read: the word at its address goes into the buffer.
LEMMA ReadItemDoes ==
    ASSUME NEW E, NEW g, NEW u, Calm(u), NEW k, ReadsAt(k), NEW a \in RegValues(u),
           NEW ir, NEW mab, NEW dto, NEW din, NEW mdb
    PROVE  Does(E, ReadItem(a), P(u, ir, k, 0, mab, dto, din, mdb, Fetch), g,
                P(u, IR_DATA_TO_ADDR, k, 0, a, 0, din, Bus(u, k, a), Fetch), Also(g, Bus(u, k, a)))
  <1>1. Quiet(u) /\ Sound(u) /\ Reads(u, k) /\ ~Writes(u, k)
    BY ReadsAtIs DEF Calm, Quiet
  <1> DEFINE t1 == P(u, ir, k, 0, mab, dto, din, mdb, Fetch)
             t2 == P(u, IR_ADDR_16BIT, k, 0, mab, dto, din, mdb, Fetch)
             t3 == P(u, IR_ADDR_16BIT, k, 0, a, dto, din, mdb, Fetch)
             t4 == P(u, IR_DATA_TO_ADDR, k, 0, a, dto, din, mdb, Fetch)
             t5 == P(u, IR_DATA_TO_ADDR, k, 1, a, dto, din, Bus(u, k, a), Fetch)
             t6 == P(u, IR_DATA_TO_ADDR, k, 0, a, dto, din, Bus(u, k, a), Fetch)
             t7 == P(u, IR_DATA_TO_ADDR, k, 0, a, 0, din, Bus(u, k, a), Fetch)
             h  == Also(g, Bus(u, k, a))
  <1>2. Does(E, Ir(IR_ADDR_16BIT), t1, g, t2, g)
    BY <1>1, Ports, IrDoes
  <1>3. Does(E, Dr(a), t2, g, t3, g)
    BY <1>1, DrMab
  <1>4. Does(E, Ir(IR_DATA_TO_ADDR), t3, g, t4, g)
    BY <1>1, Ports, IrDoes
  <1>5. Edge(E, kdTclk1, t4, t5)
    BY <1>1, Ports, EdgeRead
  <1>6. Edge(E, kdTclk0, t5, t6)
    BY <1>1, Ports, EdgeFall
  <1>7. Does(E, DrTo(0, "buf"), t6, g, t7, h)
    BY <1>1, DrShownDtoBuf
  <1> DEFINE i1 == Ir(IR_ADDR_16BIT)
             i2 == Dr(a)
             i3 == Ir(IR_DATA_TO_ADDR)
             i5 == DrTo(0, "buf")
  <1>8. IsSeq(i1) /\ IsSeq(i2) /\ IsSeq(i3) /\ IsSeq(PulseP) /\ IsSeq(i5)
    BY PrimSeq, PulseSeq
  <1>9. ReadItem(a) = i1 \o i2 \o i3 \o PulseP \o i5
    BY DEF ReadItem
  <1> HIDE DEF t1, t2, t3, t4, t5, t6, t7, h
  <1>10. Does(E, PulseP, t4, g, t6, g)
    BY <1>5, <1>6, EdgePulse, EdgeIs
  <1>11. Does(E, i1, t1, g, t2, g) /\ Does(E, i2, t2, g, t3, g) /\ Does(E, i3, t3, g, t4, g)
         /\ Does(E, i5, t6, g, t7, h)
    BY <1>2, <1>3, <1>4, <1>7
  <1> HIDE DEF i1, i2, i3, i5
  <1>12. Does(E, i1 \o i2, t1, g, t3, g) /\ IsSeq(i1 \o i2)
    BY <1>8, <1>11, DoesBoth
  <1>13. Does(E, i1 \o i2 \o i3, t1, g, t4, g) /\ IsSeq(i1 \o i2 \o i3)
    BY <1>8, <1>11, <1>12, DoesBoth
  <1>14. Does(E, i1 \o i2 \o i3 \o PulseP, t1, g, t6, g) /\ IsSeq(i1 \o i2 \o i3 \o PulseP)
    BY <1>8, <1>10, <1>13, DoesBoth
  <1>15. Does(E, i1 \o i2 \o i3 \o PulseP \o i5, t1, g, t7, h)
    BY <1>8, <1>11, <1>14, DoesBoth
  <1>16. Does(E, ReadItem(a), t1, g, t7, h)
    BY <1>9, <1>15
  <1> QED BY <1>16 DEF t1, t7, h

\* A turn of a block read is a sequence.
LEMMA ReadItemSeq ==
    ASSUME NEW a
    PROVE  IsSeq(ReadItem(a))
  <1> DEFINE i1 == Ir(IR_ADDR_16BIT)
             i2 == Dr(a)
             i3 == Ir(IR_DATA_TO_ADDR)
             i5 == DrTo(0, "buf")
  <1>8. IsSeq(i1) /\ IsSeq(i2) /\ IsSeq(i3) /\ IsSeq(PulseP) /\ IsSeq(i5)
    BY PrimSeq, PulseSeq
  <1>9. ReadItem(a) = i1 \o i2 \o i3 \o PulseP \o i5
    BY DEF ReadItem
  <1> HIDE DEF i1, i2, i3, i5
  <1>12. IsSeq(i1 \o i2)
    BY <1>8, SeqConcat
  <1>13. IsSeq(i1 \o i2 \o i3)
    BY <1>8, <1>12, SeqConcat
  <1>14. IsSeq(i1 \o i2 \o i3 \o PulseP)
    BY <1>8, <1>13, SeqConcat
  <1>15. IsSeq(i1 \o i2 \o i3 \o PulseP \o i5)
    BY <1>8, <1>14, SeqConcat
  <1> QED BY <1>9, <1>15

\* Items at A[1], A[2] and so on.
ReadLoop(A, n) == Loop([i \in 1 .. n |-> ReadItem(A[i])])

\* A block read fills the buffer with what is at its addresses, in order.
LEMMA ReadLoopDoes ==
    ASSUME NEW E, NEW g, Knows(g), g["buf"] = <<>>, NEW u, Calm(u), NEW k, ReadsAt(k),
           NEW n \in Nat, NEW A,
           \A i \in 1 .. n : A[i] \in RegValues(u),
           NEW v, Sound(v), Pausing(u, k, v)
    PROVE  \E w : /\ Does(E, ReadLoop(A, n), v, g, w, Buf(g, [i \in 1 .. n |-> Bus(u, k, A[i])]))
                  /\ Pausing(u, k, w)
  <1> DEFINE B == [i \in 1 .. n |-> ReadItem(A[i])]
             V == [i \in 1 .. n |-> Bus(u, k, A[i])]
             J == {w \in Target : Sound(w) /\ Pausing(u, k, w)}
             I == [i \in 1 .. n + 1 |-> J]
             G == [i \in 1 .. n + 1 |-> Buf(g, [j \in 1 .. i - 1 |-> V[j]])]
  <1>1. Len(B) = n /\ Len(B) \in Nat
    BY DEF B
  <1>2. ASSUME NEW i \in 1 .. n, NEW y \in J
        PROVE  \E z \in J : Does(E, B[i], y, G[i], z, G[i + 1])
    <2>1. PICK ir, mab, dto, din, mdb :
             ir # IR_DATA_QUICK /\ y = P(u, ir, k, 0, mab, dto, din, mdb, Fetch)
      BY <1>2 DEF Pausing
    <2> DEFINE a == A[i]
               z == P(u, IR_DATA_TO_ADDR, k, 0, a, 0, din, Bus(u, k, a), Fetch)
    <2>2. a \in RegValues(u)
      OBVIOUS
    <2>3. Does(E, ReadItem(a), P(u, ir, k, 0, mab, dto, din, mdb, Fetch), G[i], z, Also(G[i], Bus(u, k, a)))
      BY <2>2, ReadItemDoes
    <2>4. Pausing(u, k, z)
      BY Ports DEF Pausing
    <2> HIDE DEF z
    <2>5. Does(E, ReadItem(a), y, G[i], z, Also(G[i], Bus(u, k, a)))
      BY <2>1, <2>3
    <2>6. Sound(z)
      BY <2>5, DoesSound
    <2>7. Also(G[i], Bus(u, k, a)) = G[i + 1]
      <3> DEFINE s == [j \in 1 .. i - 1 |-> V[j]]
      <3>1. V[i] = Bus(u, k, a)
        OBVIOUS
      <3> HIDE DEF V
      <3>2. Append([j \in 1 .. i - 1 |-> V[j]], V[i - 1 + 1]) = [j \in 1 .. i - 1 + 1 |-> V[j]]
        BY AppendNext
      <3>3. Append(s, V[i]) = [j \in 1 .. i |-> V[j]]
        BY <3>2
      <3>4. G[i] = Buf(g, s) /\ G[i + 1] = Buf(g, [j \in 1 .. i |-> V[j]])
        OBVIOUS
      <3> HIDE DEF G, s
      <3>5. Also(Buf(g, s), V[i]) = Buf(g, Append(s, V[i]))
        BY BufIs
      <3> QED BY <3>1, <3>3, <3>4, <3>5
    <2>8. B[i] = ReadItem(a)
      OBVIOUS
    <2>9. z \in J
      BY <2>4, <2>6 DEF Sound
    <2> HIDE DEF B, G, J
    <2> QED BY <2>5, <2>7, <2>8, <2>9
  <1>3. \A i \in 1 .. n : IsSeq(B[i])
    BY ReadItemSeq
  <1>4. v \in J /\ v \in I[1]
    BY DEF Sound
  <1>5. \A i \in 1 .. n : I[i] = J /\ I[i + 1] = J
    OBVIOUS
  <1>5a. I[n + 1] = J
    OBVIOUS
  <1>6. G[1] = g
    <2>1. [j \in 1 .. 1 - 1 |-> V[j]] = <<>>
      OBVIOUS
    <2>2. G[1] = Buf(g, [j \in 1 .. 1 - 1 |-> V[j]])
      OBVIOUS
    <2> QED BY <2>1, <2>2, BufIs
  <1>7. G[n + 1] = Buf(g, V)
    <2>1. [j \in 1 .. n + 1 - 1 |-> V[j]] = V
      OBVIOUS
    <2>2. G[n + 1] = Buf(g, [j \in 1 .. n + 1 - 1 |-> V[j]])
      OBVIOUS
    <2> QED BY <2>1, <2>2
  <1>8. ReadLoop(A, n) = Loop(B)
    BY DEF ReadLoop
  <1>9. \A w \in J : Pausing(u, k, w)
    OBVIOUS
  <1> HIDE DEF B, V, I, G, J
  <1>10. LoopKeeps(E, B, I, G)
    BY <1>1, <1>2, <1>3, <1>5 DEF LoopKeeps
  <1>11. \E w \in I[Len(B) + 1] : Does(E, Loop(B), v, G[1], w, G[Len(B) + 1])
    BY <1>4, <1>10, LoopDoes
  <1>12. \E w \in J : Does(E, Loop(B), v, g, w, Buf(g, V))
    BY <1>1, <1>5a, <1>6, <1>7, <1>11
  <1> QED BY <1>8, <1>9, <1>12 DEF V

\* A target halted, TCLK low.
HaltLow(u) == P(u, IR_CNTRL_SIG_16BIT, \h2409, 0, u.mab, u.dto, \h3FFF, Bus(u, \h2409, u.mab), Fetch)

\* What blocks have in common: the control signals are set by x, and L is played.
LEMMA BlockDoes ==
    ASSUME NEW p, Legacy(p), NEW E, NEW g, NEW h, NEW u, Ready(p, u), NEW x, IsSeq(Play1(x)),
           NEW v, Does(E, Play1(x), HaltLow(u), g, v, g), NEW L, IsSeq(L),
           NEW c, Calm(c), Legacy(c), NEW ir, NEW k, NEW mab, NEW dto, NEW din, NEW mdb,
           NEW w, w = P(c, ir, k, 0, mab, dto, din, mdb, Fetch), Does(E, L, v, g, w, h)
    PROVE  /\ Does(E, HaltCpu \o Clr \o Play1(x) \o L \o ReleaseCpu, u, g,
                   P(c, IR_ADDR_CAPTURE, \h2401, 1, mab, dto, din, mdb, Fetch), h)
           /\ IsSeq(HaltCpu \o Clr \o Play1(x) \o L \o ReleaseCpu)
  <1>1. Does(E, HaltCpu, u, g, Halt(u), g) /\ IsSeq(HaltCpu) /\ IsSeq(Clr)
    BY HaltCall, MoreSeq, PulseSeq
  <1>2. Quiet(u) /\ Quiet(c)
    BY ReadyLegacy DEF Calm
  <1>3. Edge(E, kdTclk0, Halt(u), HaltLow(u))
    BY <1>2, Ports, EdgeFall DEF Halt, HaltLow
  <1>4. Does(E, Clr, Halt(u), g, HaltLow(u), g)
    BY <1>3, EdgeIs
  <1> DEFINE z == P(c, IR_ADDR_CAPTURE, \h2401, 1, mab, dto, din, mdb, Fetch)
             y == Play1(x)
  <1>5. Edge(E, kdTclk0, w, w)
    BY <1>2, EdgeLow
  <1>6. Does(E, ReleaseCpu, w, h, z, h) /\ IsSeq(ReleaseCpu)
    <2>1. Edge(E, kdTclk0, w, P(c, ir, k, 0, mab, dto, din, mdb, Fetch))
      BY <1>5
    <2> QED BY <2>1, ReleaseCpuDoes
  <1>7. Does(E, y, HaltLow(u), g, v, g) /\ IsSeq(y)
    OBVIOUS
  <1> HIDE DEF y, z
  <1>8. Does(E, HaltCpu \o Clr, u, g, HaltLow(u), g) /\ IsSeq(HaltCpu \o Clr)
    BY <1>1, <1>4, DoesBoth
  <1>9. Does(E, HaltCpu \o Clr \o y, u, g, v, g) /\ IsSeq(HaltCpu \o Clr \o y)
    BY <1>7, <1>8, DoesBoth
  <1>10. Does(E, HaltCpu \o Clr \o y \o L, u, g, w, h) /\ IsSeq(HaltCpu \o Clr \o y \o L)
    BY <1>9, DoesBoth
  <1>11. Does(E, HaltCpu \o Clr \o y \o L \o ReleaseCpu, u, g, z, h)
         /\ IsSeq(HaltCpu \o Clr \o y \o L \o ReleaseCpu)
    BY <1>6, <1>10, DoesBoth
  <1> QED BY <1>11 DEF y, z

\* The control signals of a halted target are set.
HaltAt(u, k) == P(u, IR_CNTRL_SIG_16BIT, k, 0, u.mab, u.dto, \h3FFF, Bus(u, \h2409, u.mab), Fetch)

\* The control word a block operation starts with.
LEMMA HaltSet ==
    ASSUME NEW p, Legacy(p), NEW E, NEW g, NEW u, Ready(p, u), NEW k \in Values16
    PROVE  /\ Does(E, Play1(kIrDr16(IR_CNTRL_SIG_16BIT, k)), HaltLow(u), g, HaltAt(u, k), g)
           /\ IsSeq(Play1(kIrDr16(IR_CNTRL_SIG_16BIT, k)))
  <1>1. Quiet(u) /\ Sound(u)
    BY ReadyLegacy DEF Calm, Quiet
  <1>2. Does(E, Ir(IR_CNTRL_SIG_16BIT), HaltLow(u), g, HaltLow(u), g)
    BY <1>1, Ports, IrDoes DEF HaltLow
  <1>3. Does(E, Dr(k), HaltLow(u), g, HaltAt(u, k), g)
    BY <1>1, DrCntrl DEF HaltLow, HaltAt
  <1>4. IR_CNTRL_SIG_16BIT \in Octets
    BY Ports
  <1> QED BY <1>2, <1>3, <1>4, DoesIrDr

\* A block, word by word or byte by byte.
Places(a, n, size) == [i \in 1 .. n |-> a + (i - 1) * size]

\* What is played for a block with control signals m.
Block(m, L) ==
    HaltCpu \o Clr \o Play1(kIrDr16(IR_CNTRL_SIG_16BIT, m)) \o L \o ReleaseCpu

\* The block read of TapDev430, in its parts.
LEMMA ReadManyStd ==
    ASSUME NEW k, NEW a \in Nat, NEW n \in Nat, NEW size \in Nat,
           \A i \in 1 .. n : a + (i - 1) * size \in Values16
    PROVE  ReadMany(k, a, n, size) = Block(k, ReadLoop(Places(a, n, size), n))
  <1>1. [i \in 1 .. n |-> Ir(IR_ADDR_16BIT) \o Dr((a + (i - 1) * size) % 2^16)
                  \o Ir(IR_DATA_TO_ADDR) \o PulseP \o DrTo(0, "buf")]
                = [i \in 1 .. n |-> ReadItem(Places(a, n, size)[i])]
    <2>1. \A i \in 1 .. n : (a + (i - 1) * size) % 2^16 = a + (i - 1) * size
      <3> TAKE i \in 1 .. n
      <3> DEFINE x == a + (i - 1) * size
      <3>1. x \in Values16
        OBVIOUS
      <3> HIDE DEF x
      <3>2. x % 2^16 = x
        BY <3>1 DEF Values16
      <3> QED BY <3>2 DEF x
    <2>2. \A i \in 1 .. n : Places(a, n, size)[i] = a + (i - 1) * size
      BY DEF Places
    <2>3. \A i \in 1 .. n : Ir(IR_ADDR_16BIT) \o Dr((a + (i - 1) * size) % 2^16)
                  \o Ir(IR_DATA_TO_ADDR) \o PulseP \o DrTo(0, "buf") = ReadItem(Places(a, n, size)[i])
      BY <2>1, <2>2, Zenon DEF ReadItem
    <2> QED BY <2>3, Zenon
  <1> QED BY <1>1, Zenon DEF ReadMany, ReadLoop, Block

\* The control signals to read words.
WordSignals == \h2409

\* The block read of TapDev430X, in its parts.
LEMMA ReadManyX ==
    ASSUME NEW a \in Nat, NEW n \in Nat, NEW size \in Nat
    PROVE  ReadMany_X(a, n, size) = Block(WordSignals, ReadLoop(Places(a, n, size), n))
  <1>1. [i \in 1 .. n |-> Ir(IR_ADDR_16BIT) \o Dr(a + (i - 1) * size)
            \o Ir(IR_DATA_TO_ADDR) \o PulseP \o DrTo(0, "buf")]
                = [i \in 1 .. n |-> ReadItem(Places(a, n, size)[i])]
    <2>2. \A i \in 1 .. n : Places(a, n, size)[i] = a + (i - 1) * size
      BY DEF Places
    <2>3. \A i \in 1 .. n : Ir(IR_ADDR_16BIT) \o Dr(a + (i - 1) * size)
                  \o Ir(IR_DATA_TO_ADDR) \o PulseP \o DrTo(0, "buf") = ReadItem(Places(a, n, size)[i])
      BY <2>2, Zenon DEF ReadItem
    <2> QED BY <2>3, Zenon
  <1> DEFINE q == Play1(kIrDr16(IR_CNTRL_SIG_16BIT, \h2409))
             F == [i \in 1 .. n |-> Ir(IR_ADDR_16BIT) \o Dr(a + (i - 1) * size)
                     \o Ir(IR_DATA_TO_ADDR) \o PulseP \o DrTo(0, "buf")]
             H == [i \in 1 .. n |-> ReadItem(Places(a, n, size)[i])]
  <1>2. ReadMany_X(a, n, size) = HaltCpu \o Clr \o q \o Loop(F) \o ReleaseCpu
    BY DEF ReadMany_X
  <1>3. Block(WordSignals, Loop(H)) = HaltCpu \o Clr \o q \o Loop(H) \o ReleaseCpu
    BY DEF Block, WordSignals
  <1>4. F = H
    BY <1>1
  <1>5. ReadLoop(Places(a, n, size), n) = Loop(H)
    BY DEF ReadLoop
  <1> HIDE DEF q, F, H
  <1> QED BY <1>2, <1>3, <1>4, <1>5

\* The script of a block of part p, and the control signals it reads with.
BlockRead(p, k, a, n, size) ==
    IF p.drv = "std" THEN ReadMany(k, a, n, size) ELSE ReadMany_X(a, n, size)
SignalsOf(p, k) == IF p.drv = "std" THEN k ELSE WordSignals

\* The block read of either driver, in its parts.
LEMMA BlockReadIs ==
    ASSUME NEW p, NEW k, NEW a \in Nat, NEW n \in Nat, NEW size \in Nat,
           \A i \in 1 .. n : Places(a, n, size)[i] \in RegValues(p)
    PROVE  BlockRead(p, k, a, n, size) = Block(SignalsOf(p, k), ReadLoop(Places(a, n, size), n))
  <1>1. CASE p.drv = "std"
    <2>1. \A i \in 1 .. n : a + (i - 1) * size \in Values16
      <3> TAKE i \in 1 .. n
      <3>1. Places(a, n, size)[i] = a + (i - 1) * size
        BY DEF Places
      <3>2. Places(a, n, size)[i] \in RegValues(p)
        OBVIOUS
      <3> QED BY <1>1, <3>1, <3>2, RegValuesAre
    <2>2. ReadMany(k, a, n, size) = Block(k, ReadLoop(Places(a, n, size), n))
      BY <2>1, ReadManyStd
    <2>3. BlockRead(p, k, a, n, size) = ReadMany(k, a, n, size) /\ SignalsOf(p, k) = k
      BY <1>1 DEF BlockRead, SignalsOf
    <2> QED BY <2>2, <2>3
  <1>2. CASE p.drv # "std"
    <2>2. ReadMany_X(a, n, size) = Block(WordSignals, ReadLoop(Places(a, n, size), n))
      BY ReadManyX
    <2>3. BlockRead(p, k, a, n, size) = ReadMany_X(a, n, size) /\ SignalsOf(p, k) = WordSignals
      BY <1>2 DEF BlockRead, SignalsOf
    <2> QED BY <2>2, <2>3, Zenon
  <1> QED BY <1>1, <1>2

\* A sound target with the CPU stopped is sound.
LEMMA HaltLowSound ==
    ASSUME NEW p, Legacy(p), NEW u, Ready(p, u)
    PROVE  Sound(HaltLow(u))
  <1>1. Calm(u) /\ Quiet(u) /\ Sound(u)
    BY ReadyLegacy, RestingIs DEF Ready
  <1>2. \A E, g : Does(E, HaltCpu, u, g, Halt(u), g)
    BY HaltCall
  <1>3. Sound(Halt(u))
    BY <1>1, <1>2, DoesSound
  <1>4. \A E, g : Does(E, Clr, Halt(u), g, HaltLow(u), g)
    <2> TAKE E, g
    <2>1. Edge(E, kdTclk0, Halt(u), HaltLow(u))
      BY <1>1, Ports, EdgeFall DEF Halt, HaltLow
    <2> QED BY <2>1, EdgeIs
  <1> QED BY <1>3, <1>4, DoesSound

\* s reads o into the buffer, and changes nothing.
ReadsOut(p, E, s, u, g, o) == (\E w : Does(E, s, u, g, w, Buf(g, o)) /\ Intact(p, u, w)) /\ IsSeq(s)

\* A block read of the older drivers brings what the bus shows at every place,
\* and changes nothing.
LEMMA ReadManyCall ==
    ASSUME NEW p, Legacy(p), NEW E, NEW g, Knows(g), g["buf"] = <<>>, NEW u, Ready(p, u),
           NEW a \in Nat, NEW n \in Nat, NEW size \in Nat, NEW k, ReadsAt(k),
           \A i \in 1 .. n : Places(a, n, size)[i] \in RegValues(p),
           NEW o, o = [i \in 1 .. n |-> Bus(u, SignalsOf(p, k), Places(a, n, size)[i])]
    PROVE  ReadsOut(p, E, BlockRead(p, k, a, n, size), u, g, o)
  <1>1. Calm(u) /\ Legacy(u) /\ RegValues(u) = RegValues(p) /\ Sound(u)
    BY ReadyLegacy, RestingIs DEF Ready
  <1> DEFINE m == SignalsOf(p, k)
             A == Places(a, n, size)
             v == HaltAt(u, m)
             x == kIrDr16(IR_CNTRL_SIG_16BIT, m)
             L == ReadLoop(A, n)
             h == Buf(g, o)
             s == BlockRead(p, k, a, n, size)
  <1>2. ReadsAt(m)
    BY ReadsAtAre DEF SignalsOf, WordSignals
  <1>3. s = Block(m, L)
    BY BlockReadIs
  <1>7. \A i \in 1 .. n : A[i] \in RegValues(u)
    BY <1>1
  <1>7a. o = [i \in 1 .. n |-> Bus(u, m, A[i])]
    OBVIOUS
  <1> HIDE DEF m, A, s, L, h
  <1>4. m \in Values16
    BY <1>2, ReadsAtIs
  <1>5. Does(E, Play1(x), HaltLow(u), g, v, g) /\ IsSeq(Play1(x))
    BY <1>4, HaltSet
  <1>6. Pausing(u, m, v)
    BY Ports DEF Pausing, HaltAt
  <1> HIDE DEF x, v
  <1>8. Sound(v)
    BY <1>5, HaltLowSound, DoesSound
  <1>9. IsSeq(L)
    BY LoopSeq DEF ReadLoop, L
  <1>9a. Buf(g, [i \in 1 .. n |-> Bus(u, m, A[i])]) = h
    BY <1>7a DEF h
  <1>9b. \E w : /\ Does(E, L, v, g, w, Buf(g, [i \in 1 .. n |-> Bus(u, m, A[i])]))
               /\ Pausing(u, m, w)
    <2>1. Knows(g) /\ g["buf"] = <<>> /\ n \in Nat /\ Calm(u)
      BY <1>1
    <2>2. \E w : /\ Does(E, ReadLoop(A, n), v, g, w, Buf(g, [i \in 1 .. n |-> Bus(u, m, A[i])]))
                 /\ Pausing(u, m, w)
      BY ONLY <1>2, <1>6, <1>7, <1>8, <2>1, ReadLoopDoes, ZenonT(40)
    <2> QED BY <2>2 DEF L
  <1>10. \E w : Does(E, L, v, g, w, h) /\ Pausing(u, m, w)
    BY <1>9a, <1>9b
  <1>11. PICK w1 : Does(E, L, v, g, w1, h) /\ Pausing(u, m, w1)
    BY <1>10
  <1>12. PICK ir, mab, dto, din, mdb : w1 = P(u, ir, m, 0, mab, dto, din, mdb, Fetch)
    BY <1>11 DEF Pausing
  <1> DEFINE w == P(u, IR_ADDR_CAPTURE, \h2401, 1, mab, dto, din, mdb, Fetch)
  <1>13. /\ Does(E, HaltCpu \o Clr \o Play1(x) \o L \o ReleaseCpu, u, g, w, h)
         /\ IsSeq(HaltCpu \o Clr \o Play1(x) \o L \o ReleaseCpu)
    BY <1>1, <1>5, <1>9, <1>11, <1>12, BlockDoes
  <1>14. HaltCpu \o Clr \o Play1(x) \o L \o ReleaseCpu = s
    BY <1>3 DEF Block, x
  <1>15. Does(E, s, u, g, w, h) /\ IsSeq(s)
    BY <1>13, <1>14
  <1>16. Intact(p, u, w)
    BY <1>15, RestedAre, IntactAfter
  <1> QED BY <1>15, <1>16 DEF ReadsOut, h, s

-----------------------------------------------------------------------------
(* Words are written to RAM.                                               *)

\* The i-th change of E is of the cell at a, to v.
Writes16(E, i, a, v) == i <= Len(E) /\ E[i].k = "write" /\ E[i].at = a /\ E[i].v = v

\* The registers are as they were.
Steady(b, c) == c.reg = b.reg /\ c.pcok = b.pcok /\ Held(c) = Held(b)

\* Memory is RAM and flash, and its addresses are even.
LEMMA MemSplit ==
    /\ \A a \in RamAddr : a \in MemAddr
    /\ \A a \in FlashCell : a \in MemAddr
    /\ \A a \in MemAddr : a \in Nat /\ a % 2 = 0 /\ a - (a % 2) = a
  <1>1. \A a \in RamAddr : a \in MemAddr
    BY DEF MemAddr
  <1>2. \A a \in FlashCell : a \in MemAddr
    BY DEF MemAddr
  <1>3. \A a \in MemAddr : a \in Nat /\ a % 2 = 0
    BY MemoryAssumption
  <1>4. \A a \in MemAddr : a - (a % 2) = a
    BY <1>3
  <1> QED BY <1>1, <1>2, <1>3, <1>4

\* A cell of memory of a target takes a value.
Puts(b, a, v, c) ==
    /\ Sound(c) /\ Akin(b, c) /\ Steady(b, c) /\ c.n = b.n + 1
    /\ c.mem = [b.mem EXCEPT ![a] = v] /\ c.wdt = b.wdt

\* A word that is written is one more effect, on one word of memory.
LEMMA CellSet ==
    ASSUME NEW b, Sound(b), NEW a \in MemAddr, NEW v \in Values16,
           NEW s, s = [b.mem EXCEPT ![a] = v], NEW m, m = b.n + 1,
           NEW c, c = [b EXCEPT !.mem = s, !.n = m]
    PROVE  Puts(b, a, v, c)
  <1>0. b \in Target /\ b.mem \in [MemAddr -> Values16] /\ b.n \in Nat
    BY DEF Sound, Target
  <1>1. s \in [MemAddr -> Values16] /\ m \in Nat
    BY <1>0
  <1>2. c = [b EXCEPT !.mem = s, !.n = m]
    OBVIOUS
  <1>3. /\ c.mem = s /\ c.n = m /\ c.reg = b.reg /\ c.pcok = b.pcok /\ c.wdt = b.wdt
        /\ c.running = b.running /\ c.mab = b.mab /\ c.drv = b.drv /\ Akin(b, c)
    BY <1>0, <1>2 DEF Target, Akin
  <1>4. c \in Target
    <2> DEFINE c1 == [b EXCEPT !.mem = s]
    <2>1. c1 \in Target
      BY <1>0, <1>1 DEF Target
    <2>2. c = [c1 EXCEPT !.n = m]
      BY <1>2
    <2> HIDE DEF c1
    <2> QED BY <1>1, <2>1, <2>2, ZenonT(40) DEF Target
  <1>5. RegValues(c) = RegValues(b)
    BY <1>3, AkinIs
  <1>6. Sound(c)
    BY <1>3, <1>4, <1>5 DEF Sound
  <1>7. Held(c) = Held(b)
    BY <1>3 DEF Held
  <1> QED BY <1>3, <1>6, <1>7 DEF Steady, Puts

\* Where a write on the bus goes.
LEMMA BusWriteIs ==
    ASSUME NEW b, NEW a, NEW v
    PROVE  /\ a \in RamAddr => BusWrite(b, a, v) = [b EXCEPT !.mem[a] = v, !.n = @ + 1]
           /\ a = WdtAddr(b) => BusWrite(b, a, v)
                                  = IF v \div 256 = \h5A THEN [b EXCEPT !.wdt = v % 256] ELSE b
           /\ a \in FctlAddr => BusWrite(b, a, v) = WriteFctl(b, a, v)
           /\ a \in FlashCell /\ Legacy(b) => BusWrite(b, a, v) = WriteFlashCell(b, a, v)
  <1>1. CASE a \in RamAddr
    <2>1. a \notin FctlAddr /\ a # WdtAddr(b) /\ a \notin FlashCell
      BY <1>1, Apart
    <2> QED BY <1>1, <2>1 DEF BusWrite
  <1>2. CASE a = WdtAddr(b)
    <2>1. a \notin FctlAddr /\ a \notin RamAddr /\ a \notin FlashCell
      BY <1>2, Apart
    <2> QED BY <1>2, <2>1 DEF BusWrite
  <1>3. CASE a \in FctlAddr
    <2>1. a # WdtAddr(b) /\ a \notin RamAddr /\ a \notin FlashCell
      BY <1>3, Apart
    <2> QED BY <1>3, <2>1 DEF BusWrite
  <1>4. CASE a \in FlashCell
    <2>1. a # WdtAddr(b) /\ a \notin RamAddr /\ a \notin FctlAddr
      BY <1>4, Apart
    <2> QED BY <1>4, <2>1 DEF BusWrite
  <1> QED BY <1>1, <1>2, <1>3, <1>4

\* What the data v at a makes of b.
Written(b, a, v) == BusWrite(b, a - (a % 2), v)

\* A word written to RAM is there, and nothing else has changed.
LEMMA WroteRam ==
    ASSUME NEW E, NEW b, Calm(b), NEW a \in RamAddr, NEW v \in Values16, Writes16(E, b.n + 1, a, v),
           NEW c, c = Written(b, a, v)
    PROVE  /\ Wrote(E, b, a, v, c) /\ Calm(c) /\ Sound(c) /\ Akin(b, c) /\ Steady(b, c)
           /\ c.n = b.n + 1 /\ c.mem = [b.mem EXCEPT ![a] = v] /\ c.wdt = b.wdt
  <1>1. a \in MemAddr /\ a - (a % 2) = a /\ Sound(b)
    BY MemSplit DEF Calm, Quiet
  <1>2. a \notin FctlAddr /\ a # WdtAddr(b)
    BY Apart
  <1>3. c = [b EXCEPT !.mem[a] = v, !.n = @ + 1]
    <2>1. Written(b, a, v) = BusWrite(b, a, v)
      BY <1>1 DEF Written
    <2>2. BusWrite(b, a, v) = [b EXCEPT !.mem[a] = v, !.n = @ + 1]
      BY BusWriteIs, ZenonT(40)
    <2> QED BY <2>1, <2>2
  <1> DEFINE s == [b.mem EXCEPT ![a] = v]
             m == b.n + 1
  <1>4. c = [b EXCEPT !.mem = s, !.n = m]
    BY <1>1, <1>3 DEF Sound, Target
  <1>4a. s = [b.mem EXCEPT ![a] = v] /\ m = b.n + 1
    OBVIOUS
  <1> HIDE DEF s, m
  <1>4b. Puts(b, a, v, c)
    BY <1>1, <1>4, <1>4a, CellSet
  <1>5. /\ Sound(c) /\ Akin(b, c) /\ Steady(b, c) /\ c.n = b.n + 1
        /\ c.mem = [b.mem EXCEPT ![a] = v] /\ c.wdt = b.wdt
    BY <1>4b DEF Puts
  <1>6. Calm(c) /\ (Legacy(c) <=> Legacy(b)) /\ c.drv = b.drv
    BY <1>5, AkinIs DEF Akin
  <1>7. Fits(E, b, c)
    BY <1>5 DEF Writes16, Steady, Fits, Makes, s, m
  <1>8. Wrote(E, b, a, v, c)
    BY <1>1, <1>5, <1>6, <1>7 DEF Wrote, Written, Moved, Calm
  <1> QED BY <1>5, <1>6, <1>8 DEF s, m

\* The watchdog is no memory: it takes a value with its password.
LEMMA WroteWdt ==
    ASSUME NEW E, NEW b, Calm(b), NEW a, a = WdtAddr(b), NEW v \in Values16,
           NEW c, c = Written(b, a, v)
    PROVE  /\ Wrote(E, b, a, v, c) /\ Calm(c) /\ Sound(c) /\ Akin(b, c) /\ Steady(b, c)
           /\ c.n = b.n /\ c.mem = b.mem
  <1>1. a - (a % 2) = a /\ Sound(b)
    BY DEF WdtAddr, Legacy, Calm, Quiet
  <1>2. a \notin FctlAddr
    BY Apart
  <1>3. c = IF v \div 256 = \h5A THEN [b EXCEPT !.wdt = v % 256] ELSE b
    <2>1. Written(b, a, v) = BusWrite(b, a, v)
      BY <1>1 DEF Written
    <2>2. BusWrite(b, a, v) = IF v \div 256 = \h5A THEN [b EXCEPT !.wdt = v % 256] ELSE b
      BY BusWriteIs
    <2> QED BY <2>1, <2>2
  <1>4. /\ Sound(c) /\ Akin(b, c) /\ Steady(b, c) /\ c.n = b.n /\ c.mem = b.mem
    <2>1. CASE c = b
      BY <1>1, <2>1, AkinSelf DEF Steady
    <2>2. CASE c = [b EXCEPT !.wdt = v % 256]
      <3> DEFINE y == v % 256
      <3>1. y \in Nat /\ b \in Target
        BY <1>1 DEF Values16, Sound
      <3>2. c = [b EXCEPT !.wdt = y]
        BY <2>2
      <3> HIDE DEF y
      <3>3. /\ c \in Target /\ c.n = b.n /\ c.mem = b.mem /\ c.reg = b.reg /\ c.pcok = b.pcok
            /\ c.running = b.running /\ c.mab = b.mab /\ c.drv = b.drv /\ Akin(b, c)
        BY <3>1, <3>2, ZenonT(40) DEF Target, Akin
      <3>4. RegValues(c) = RegValues(b)
        BY <3>3, AkinIs
      <3>5. Sound(c)
        BY <1>1, <3>3, <3>4 DEF Sound
      <3> QED BY <3>3, <3>5 DEF Steady, Held
    <2> QED BY <1>3, <2>1, <2>2
  <1>6. Calm(c) /\ (Legacy(c) <=> Legacy(b)) /\ c.drv = b.drv
    BY <1>4, AkinIs DEF Akin
  <1>7. Fits(E, b, c)
    BY <1>4 DEF Steady, Fits, Same
  <1>8. Wrote(E, b, a, v, c)
    BY <1>1, <1>4, <1>6, <1>7 DEF Wrote, Written, Moved, Calm
  <1> QED BY <1>4, <1>6, <1>8

\* A word is its own low word.
LEMMA LowOf ==
    ASSUME NEW v \in Values16
    PROVE  Low(v, v)
  BY DEF Low, Values16

\* The script that writes a word.
WriteOne(p, a, v) == IF p.drv = "std" THEN WriteWord(a, v) ELSE WriteWord_X(a, v)

\* What an operation that ends with the CPU let go leaves.
LetGo(p, c, w) == Ready(p, w) /\ Behind(c, w) /\ w.cntrl = \h2401

\* An operation that ends by letting the bus go leaves the target ready.
LEMMA LetGoAfter ==
    ASSUME NEW p, Legacy(p), NEW u, Sound(u), NEW c, Resting(p, c), NEW mab, NEW dto, NEW din,
           NEW mdb,
           NEW w, w = P(c, IR_ADDR_CAPTURE, \h2401, 1, mab, dto, din, mdb, Fetch),
           NEW E, NEW s, NEW g, NEW h, Does(E, s, u, g, w, h)
    PROVE  LetGo(p, c, w)
  <1>1. Sound(w)
    BY DoesSound
  <1>2. Rested(IR_ADDR_CAPTURE, \h2401)
    BY RestedAre
  <1> QED BY <1>1, <1>2, ReadyAfter DEF LetGo

\* A write of one word does to the target what the write on the bus does.
LEMMA WriteOneDoes ==
    ASSUME NEW p, Legacy(p), NEW E, NEW g, NEW u, Ready(p, u), NEW a \in RegValues(p),
           NEW v \in Values16,
           NEW c, Wrote(E, u, a, v, c), Calm(c), Resting(p, c)
    PROVE  /\ \E w : Does(E, WriteOne(p, a, v), u, g, w, g) /\ LetGo(p, c, w)
           /\ IsSeq(WriteOne(p, a, v))
  <1>1. Calm(u) /\ Legacy(u) /\ Sound(u) /\ a \in RegValues(u) /\ Quiet(c) /\ Legacy(c)
    BY ReadyLegacy, RestingIs DEF Ready
  <1>2. Low(v, v)
    BY LowOf
  <1> DEFINE kAddr == IF p.drv = "std" THEN kAddr16 ELSE kAddr20
             s == Play(<<kTclk0, kIrDr8(IR_CNTRL_SIG_LOW_BYTE, \h08), kAddr,
                         kIrDr16Argv(kdNone, IR_DATA_TO_ADDR, kdTclk1), kReleaseCpu>>, <<a, v>>)
             w == P(c, IR_ADDR_CAPTURE, \h2401, 1, a, v, \h3FFF, Bus(u, \h2409, u.mab), Fetch)
  <1>3. Addressing(kAddr, a)
    BY RegValuesAre DEF Addressing
  <1>4. Does(E, HaltCpu, u, g, Halt(u), g) /\ IsSeq(HaltCpu) /\ IsSeq(ReleaseCpu) /\ IsSeq(s)
    BY HaltCall, MoreSeq, PrimSeq
  <1>5. /\ p.drv = "std" => WriteWord(a, v) = HaltCpu \o s \o ReleaseCpu
        /\ p.drv # "std" => WriteWord_X(a, v) = HaltCpu \o s
    BY DEF WriteWord, WriteWord_X
  <1> HIDE DEF kAddr
  <1>6. Does(E, s, Halt(u), g, w, g)
    BY <1>1, <1>2, <1>3, WriteRows DEF Halt
  <1>7. Edge(E, kdTclk0, w, P(c, IR_ADDR_CAPTURE, \h2401, 0, a, v, \h3FFF, Bus(u, \h2409, u.mab), Fetch))
    BY <1>1, Ports, EdgeFall
  <1>8. Does(E, ReleaseCpu, w, g, w, g)
    BY <1>1, <1>7, ReleaseCpuDoes
  <1> HIDE DEF s
  <1>9. w = P(c, IR_ADDR_CAPTURE, \h2401, 1, a, v, \h3FFF, Bus(u, \h2409, u.mab), Fetch)
    OBVIOUS
  <1> HIDE DEF w
  <1>10. Does(E, HaltCpu \o s, u, g, w, g) /\ IsSeq(HaltCpu \o s)
    BY <1>4, <1>6, DoesBoth
  <1>11. Does(E, HaltCpu \o s \o ReleaseCpu, u, g, w, g) /\ IsSeq(HaltCpu \o s \o ReleaseCpu)
    BY <1>4, <1>8, <1>10, DoesBoth
  <1>12. Does(E, WriteOne(p, a, v), u, g, w, g) /\ IsSeq(WriteOne(p, a, v))
    <2>1. CASE p.drv = "std"
      <3>1. WriteOne(p, a, v) = HaltCpu \o s \o ReleaseCpu
        BY <1>5, <2>1 DEF WriteOne
      <3> QED BY <1>11, <3>1
    <2>2. CASE p.drv # "std"
      <3>1. WriteOne(p, a, v) = HaltCpu \o s
        BY <1>5, <2>2 DEF WriteOne
      <3> QED BY <1>10, <3>1
    <2> QED BY <2>1, <2>2
  <1>13. LetGo(p, c, w)
    BY <1>1, <1>9, <1>12, LetGoAfter
  <1> QED BY <1>12, <1>13

-----------------------------------------------------------------------------
(* A block of words.                                                       *)

WriteItem(kAddr, a, v) == Play(<<kAddr, kIrDr16Argv(kdNone, IR_DATA_TO_ADDR, kdTclkP)>>, <<a, v>>)

\* The first i changes of E have been made, from u on.
Advanced(p, u, i, c) == Resting(p, c) /\ Akin(u, c) /\ Steady(u, c) /\ c.n = u.n + i

\* The control signals to write words.
WriteSignals == \h2408

\* A word of RAM is written, as E wants it.
RamTakes(E, b, a, v, c) == Wrote(E, b, a, v, c) /\ Calm(c) /\ Puts(b, a, v, c)

\* The same, named for the proofs of the loops.
LEMMA RamTaken ==
    ASSUME NEW E, NEW b, Calm(b), NEW a \in RamAddr, NEW v \in Values16, Writes16(E, b.n + 1, a, v),
           NEW c, c = Written(b, a, v)
    PROVE  RamTakes(E, b, a, v, c)
  BY WroteRam DEF RamTakes, Puts

\* One turn of a block write: one more word is in RAM.
LEMMA WriteItemDoes ==
    ASSUME NEW p, Legacy(p), NEW E, NEW g, NEW u, NEW i \in Nat, NEW c, Advanced(p, u, i, c),
           u.n = 0,
           NEW kAddr, NEW a \in RamAddr, a \in RegValues(p), Addressing(kAddr, a),
           NEW v \in Values16,
           Writes16(E, i + 1, a, v),
           NEW w, Sound(w), Pausing(c, WriteSignals, w)
    PROVE  \E z, d : /\ Does(E, WriteItem(kAddr, a, v), w, g, z, g) /\ Sound(z)
                     /\ Advanced(p, u, i + 1, d) /\ Pausing(d, WriteSignals, z)
  <1>1. Calm(c) /\ Legacy(c) /\ Sound(c) /\ a \in RegValues(c) /\ c.n = i
    BY RestingIs DEF Advanced
  <1> DEFINE d == Written(c, a, v)
  <1>0. d = Written(c, a, v)
    OBVIOUS
  <1> HIDE DEF d
  <1>0a. Writes16(E, c.n + 1, a, v)
    BY <1>1
  <1>0b. RamTakes(E, c, a, v, d)
    BY <1>0, <1>0a, <1>1, RamTaken
  <1>2. /\ Wrote(E, c, a, v, d) /\ Calm(d) /\ Sound(d) /\ Akin(c, d) /\ Steady(c, d)
        /\ d.n = c.n + 1
    BY <1>0b DEF RamTakes, Puts
  <1>3. Advanced(p, u, i + 1, d)
    <2>1. Resting(p, d) /\ Akin(u, d)
      BY <1>2, AkinRests, AkinBoth DEF Advanced
    <2>2. Steady(u, d) /\ d.n = u.n + (i + 1)
      BY <1>1, <1>2 DEF Advanced, Steady
    <2> QED BY <2>1, <2>2 DEF Advanced
  <1>4. Low(v, v)
    BY LowOf
  <1>5. PICK ir, mab, dto, din, mdb :
           ir # IR_DATA_QUICK /\ w = P(c, ir, WriteSignals, 0, mab, dto, din, mdb, Fetch)
    BY DEF Pausing
  <1> DEFINE z == P(d, IR_DATA_TO_ADDR, WriteSignals, 0, a, v, din, mdb, Fetch)
  <1>6. Does(E, WriteItem(kAddr, a, v), P(c, ir, WriteSignals, 0, mab, dto, din, mdb, Fetch), g, z, g)
    BY <1>1, <1>2, <1>4, <1>5, WriteNextRows DEF WriteItem, WriteSignals
  <1>7. Pausing(d, WriteSignals, z)
    BY Ports DEF Pausing
  <1> HIDE DEF z
  <1>8. Does(E, WriteItem(kAddr, a, v), w, g, z, g)
    BY <1>5, <1>6
  <1>9. Sound(z)
    BY <1>8, DoesSound
  <1> QED BY <1>3, <1>7, <1>8, <1>9

\* u with JTAG writing after the first i changes of E, TCLK low.
Writing(p, u, i, w) == \E c : Advanced(p, u, i, c) /\ Pausing(c, WriteSignals, w)

\* Words V[1], V[2] and so on are to be written at A[1], A[2] and so on.
Writable(p, E, kAddr, A, V, n) ==
    /\ n \in Nat
    /\ \A i \in 1 .. n : /\ A[i] \in RamAddr /\ A[i] \in RegValues(p) /\ Addressing(kAddr, A[i])
                         /\ V[i] \in Values16 /\ Writes16(E, i, A[i], V[i])
WriteLoop(kAddr, A, V, n) == Loop([i \in 1 .. n |-> WriteItem(kAddr, A[i], V[i])])

\* The states with which the loop begins an item.
WritingSet(p, u, i) == {w \in Target : Sound(w) /\ Writing(p, u, i, w)}

\* The same, from one place of the loop to the next.
LEMMA WriteLoopNext ==
    ASSUME NEW p, Legacy(p), NEW E, NEW g, NEW u, u.n = 0, NEW n, NEW kAddr, NEW A, NEW V,
           Writable(p, E, kAddr, A, V, n), NEW i \in 1 .. n, NEW w \in WritingSet(p, u, i - 1)
    PROVE  \E z \in WritingSet(p, u, i) : Does(E, WriteItem(kAddr, A[i], V[i]), w, g, z, g)
  <1> DEFINE j == i - 1
  <1>1. j \in Nat /\ j + 1 = i /\ n \in Nat
    BY DEF Writable
  <1>2. PICK c : Advanced(p, u, j, c) /\ Pausing(c, WriteSignals, w) /\ Sound(w)
    BY DEF WritingSet, Writing
  <1>3. /\ A[i] \in RamAddr /\ A[i] \in RegValues(p) /\ Addressing(kAddr, A[i])
        /\ V[i] \in Values16 /\ Writes16(E, i, A[i], V[i])
    BY DEF Writable
  <1> DEFINE a == A[i]
             v == V[i]
  <1>4. /\ a \in RamAddr /\ a \in RegValues(p) /\ Addressing(kAddr, a)
        /\ v \in Values16 /\ Writes16(E, j + 1, a, v)
    BY <1>1, <1>3
  <1> HIDE DEF a, v, j
  <1>5. \E z, d : /\ Does(E, WriteItem(kAddr, a, v), w, g, z, g) /\ Sound(z)
                  /\ Advanced(p, u, j + 1, d) /\ Pausing(d, WriteSignals, z)
    BY <1>1, <1>2, <1>4, WriteItemDoes
  <1>6. PICK z : /\ Does(E, WriteItem(kAddr, a, v), w, g, z, g) /\ Sound(z) /\ Writing(p, u, i, z)
    BY <1>1, <1>5 DEF Writing
  <1>7. z \in WritingSet(p, u, i)
    BY <1>6 DEF WritingSet, Sound
  <1> QED BY <1>6, <1>7 DEF a, v

\* A block write puts every word at its place, in order.
LEMMA WriteLoopDoes ==
    ASSUME NEW p, Legacy(p), NEW E, NEW g, NEW u, u.n = 0, NEW n, NEW kAddr, NEW A, NEW V,
           Writable(p, E, kAddr, A, V, n), NEW v, Sound(v), Writing(p, u, 0, v)
    PROVE  \E w : Does(E, WriteLoop(kAddr, A, V, n), v, g, w, g) /\ Writing(p, u, n, w)
  <1> DEFINE B == [i \in 1 .. n |-> WriteItem(kAddr, A[i], V[i])]
             I == [i \in 1 .. n + 1 |-> WritingSet(p, u, i - 1)]
             G == [i \in 1 .. n + 1 |-> g]
  <1>1. n \in Nat
    BY DEF Writable
  <1>2. Len(B) = n /\ Len(B) \in Nat
    BY <1>1 DEF B
  <1>3. ASSUME NEW i \in 1 .. n
        PROVE  /\ IsSeq(B[i])
               /\ \A y \in I[i] : \E z \in I[i + 1] : Does(E, B[i], y, G[i], z, G[i + 1])
    <2>1. B[i] = WriteItem(kAddr, A[i], V[i])
      OBVIOUS
    <2>2. IsSeq(WriteItem(kAddr, A[i], V[i]))
      BY PlaySeq DEF WriteItem
    <2>3. I[i] = WritingSet(p, u, i - 1) /\ I[i + 1] = WritingSet(p, u, i)
      BY <1>1
    <2>4. G[i] = g /\ G[i + 1] = g
      BY <1>1
    <2> HIDE DEF B, I, G
    <2>5. \A y \in WritingSet(p, u, i - 1) :
             \E z \in WritingSet(p, u, i) : Does(E, WriteItem(kAddr, A[i], V[i]), y, g, z, g)
      BY WriteLoopNext
    <2> QED BY <2>1, <2>2, <2>3, <2>4, <2>5
  <1>4. I[1] = WritingSet(p, u, 0) /\ I[n + 1] = WritingSet(p, u, n)
    BY <1>1
  <1>5. G[1] = g /\ G[n + 1] = g
    BY <1>1
  <1>6. v \in I[1]
    BY <1>4 DEF WritingSet, Sound
  <1>7. WriteLoop(kAddr, A, V, n) = Loop(B)
    BY DEF WriteLoop
  <1> HIDE DEF B, I, G
  <1>8. LoopKeeps(E, B, I, G)
    BY <1>2, <1>3 DEF LoopKeeps
  <1>9. \E w \in I[Len(B) + 1] : Does(E, Loop(B), v, G[1], w, G[Len(B) + 1])
    BY <1>6, <1>8, LoopDoes
  <1>10. PICK w \in WritingSet(p, u, n) : Does(E, Loop(B), v, g, w, g)
    BY <1>2, <1>4, <1>5, <1>9
  <1>11. Writing(p, u, n, w)
    BY <1>10 DEF WritingSet
  <1> QED BY <1>7, <1>10, <1>11

\* The low byte of the control signals is set.
LEMMA HaltSetLow ==
    ASSUME NEW p, Legacy(p), NEW E, NEW g, NEW u, Ready(p, u)
    PROVE  /\ Does(E, Play1(kIrDr8(IR_CNTRL_SIG_LOW_BYTE, \h08)), HaltLow(u), g,
                   P(u, IR_CNTRL_SIG_LOW_BYTE, WriteSignals, 0, u.mab, u.dto, \h3FFF, Bus(u, \h2409, u.mab), Fetch), g)
           /\ IsSeq(Play1(kIrDr8(IR_CNTRL_SIG_LOW_BYTE, \h08)))
  <1>1. Quiet(u) /\ Sound(u)
    BY ReadyLegacy DEF Calm, Quiet
  <1> DEFINE k == \h2409
             d == \h08
             v == P(u, IR_CNTRL_SIG_LOW_BYTE, k, 0, u.mab, u.dto, \h3FFF, Bus(u, \h2409, u.mab), Fetch)
             w == P(u, IR_CNTRL_SIG_LOW_BYTE, WriteSignals, 0, u.mab, u.dto, \h3FFF, Bus(u, \h2409, u.mab), Fetch)
  <1>2. Does(E, Ir(IR_CNTRL_SIG_LOW_BYTE), HaltLow(u), g, v, g)
    BY <1>1, Ports, IrDoes DEF HaltLow
  <1>3. WithLow(k, d) = WriteSignals
    BY DEF WithLow, WriteSignals
  <1>5. IR_CNTRL_SIG_LOW_BYTE \in Octets
    BY Ports
  <1>6. kIrDr8(IR_CNTRL_SIG_LOW_BYTE, d) = kIrDr16(IR_CNTRL_SIG_LOW_BYTE, d) /\ d \in Values16
    BY <1>5, PackAlike
  <1> HIDE DEF k, d
  <1>4. Does(E, Dr(d), v, g, w, g)
    <2>1. Does(E, Dr(d), P(u, IR_CNTRL_SIG_LOW_BYTE, k, 0, u.mab, u.dto, \h3FFF, Bus(u, \h2409, u.mab), Fetch), g,
               P(u, IR_CNTRL_SIG_LOW_BYTE, WithLow(k, d), 0, u.mab, u.dto, \h3FFF, Bus(u, \h2409, u.mab), Fetch), g)
      BY <1>1, <1>6, DrLow
    <2> QED BY <1>3, <2>1
  <1> HIDE DEF v, w
  <1>7. /\ Does(E, Play1(kIrDr16(IR_CNTRL_SIG_LOW_BYTE, d)), HaltLow(u), g, w, g)
        /\ IsSeq(Play1(kIrDr16(IR_CNTRL_SIG_LOW_BYTE, d)))
    BY <1>2, <1>4, <1>5, <1>6, DoesIrDr
  <1> QED BY <1>6, <1>7 DEF w, d

\* The step with which part p takes addresses.
AddrStep(p) == IF p.drv = "std" THEN kAddr16 ELSE kAddr20

\* The step that scans an address holds the addresses of its driver.
LEMMA AddrStepIs ==
    ASSUME NEW p, NEW a \in RegValues(p)
    PROVE  Addressing(AddrStep(p), a)
  BY RegValuesAre DEF Addressing, AddrStep

\* The script of a block of part p, and the step that sets its control signals.
BlockWrite(p, a, v) == IF p.drv = "std" THEN WriteWords(a, v) ELSE WriteWords_X(a, v)
WriteStep(p) == IF p.drv = "std" THEN kIrDr16(IR_CNTRL_SIG_16BIT, WriteSignals)
                ELSE kIrDr8(IR_CNTRL_SIG_LOW_BYTE, \h08)

\* The block write, in its parts.
LEMMA BlockWriteIs ==
    ASSUME NEW p, NEW a \in Nat, NEW v, Len(v) \in Nat
    PROVE  BlockWrite(p, a, v)
              = HaltCpu \o Clr \o Play1(WriteStep(p))
                  \o WriteLoop(AddrStep(p), Places(a, Len(v), 2), v, Len(v)) \o ReleaseCpu
  <1> DEFINE F(kAddr) == [i \in 1 .. Len(v) |->
                            Play(<<kAddr, kIrDr16Argv(kdNone, IR_DATA_TO_ADDR, kdTclkP)>>, <<a + (i - 1) * 2, v[i]>>)]
             H(kAddr) == [i \in 1 .. Len(v) |-> WriteItem(kAddr, Places(a, Len(v), 2)[i], v[i])]
  <1>1. ASSUME NEW kAddr PROVE F(kAddr) = H(kAddr)
    <2>1. \A i \in 1 .. Len(v) : Places(a, Len(v), 2)[i] = a + (i - 1) * 2
      BY DEF Places
    <2> QED BY <2>1, Zenon DEF WriteItem
  <1>2. CASE p.drv = "std"
    <2>1. F(kAddr16) = H(kAddr16)
      BY <1>1
    <2>2. WriteWords(a, v) = HaltCpu \o Clr \o Play1(kIrDr16(IR_CNTRL_SIG_16BIT, \h2408)) \o Loop(F(kAddr16)) \o ReleaseCpu
      BY DEF WriteWords
    <2>3. WriteLoop(AddrStep(p), Places(a, Len(v), 2), v, Len(v)) = Loop(H(kAddr16))
      BY <1>2 DEF WriteLoop, AddrStep
    <2>4. WriteStep(p) = kIrDr16(IR_CNTRL_SIG_16BIT, \h2408) /\ BlockWrite(p, a, v) = WriteWords(a, v)
      BY <1>2 DEF WriteStep, BlockWrite, WriteSignals
    <2> HIDE DEF F, H
    <2> QED BY <2>1, <2>2, <2>3, <2>4, SMTT(30)
  <1>3. CASE p.drv # "std"
    <2>1. F(kAddr20) = H(kAddr20)
      BY <1>1
    <2>2. WriteWords_X(a, v) = HaltCpu \o Clr \o Play1(kIrDr8(IR_CNTRL_SIG_LOW_BYTE, \h08)) \o Loop(F(kAddr20)) \o ReleaseCpu
      BY DEF WriteWords_X
    <2>3. WriteLoop(AddrStep(p), Places(a, Len(v), 2), v, Len(v)) = Loop(H(kAddr20))
      BY <1>3 DEF WriteLoop, AddrStep
    <2>4. WriteStep(p) = kIrDr8(IR_CNTRL_SIG_LOW_BYTE, \h08) /\ BlockWrite(p, a, v) = WriteWords_X(a, v)
      BY <1>3 DEF WriteStep, BlockWrite
    <2> HIDE DEF F, H
    <2> QED BY <2>1, <2>2, <2>3, <2>4
  <1> QED BY <1>2, <1>3

\* The control signals to write are set, whatever the part.
LEMMA WriteStepDoes ==
    ASSUME NEW p, Legacy(p), NEW E, NEW g, NEW u, Ready(p, u)
    PROVE  \E v : /\ Does(E, Play1(WriteStep(p)), HaltLow(u), g, v, g) /\ IsSeq(Play1(WriteStep(p)))
                  /\ Sound(v) /\ Pausing(u, WriteSignals, v)
  <1>1. Sound(HaltLow(u))
    BY HaltLowSound
  <1>2. CASE p.drv = "std"
    <2> DEFINE k == WriteSignals
    <2>1. k \in Values16
      BY DEF WriteSignals, Values16
    <2> HIDE DEF k
    <2>2. /\ Does(E, Play1(kIrDr16(IR_CNTRL_SIG_16BIT, k)), HaltLow(u), g, HaltAt(u, k), g)
          /\ IsSeq(Play1(kIrDr16(IR_CNTRL_SIG_16BIT, k)))
      BY <2>1, HaltSet
    <2>3. WriteStep(p) = kIrDr16(IR_CNTRL_SIG_16BIT, k)
      BY <1>2 DEF WriteStep, k
    <2>4. Pausing(u, k, HaltAt(u, k))
      BY Ports DEF Pausing, HaltAt
    <2>5. Sound(HaltAt(u, k))
      BY <1>1, <2>2, DoesSound
    <2> QED BY <2>2, <2>3, <2>4, <2>5 DEF k
  <1>3. CASE p.drv # "std"
    <2> DEFINE v == P(u, IR_CNTRL_SIG_LOW_BYTE, WriteSignals, 0, u.mab, u.dto, \h3FFF, Bus(u, \h2409, u.mab), Fetch)
    <2>1. WriteStep(p) = kIrDr8(IR_CNTRL_SIG_LOW_BYTE, \h08)
      BY <1>3 DEF WriteStep
    <2>2. Does(E, Play1(WriteStep(p)), HaltLow(u), g, v, g) /\ IsSeq(Play1(WriteStep(p)))
      BY <2>1, HaltSetLow
    <2>3. Pausing(u, WriteSignals, v)
      <3>1. IR_CNTRL_SIG_LOW_BYTE # IR_DATA_QUICK
        BY Codes
      <3> QED BY <3>1 DEF Pausing
    <2> HIDE DEF v
    <2>4. Sound(v)
      BY <1>1, <2>2, DoesSound
    <2> QED BY <2>2, <2>3, <2>4
  <1> QED BY <1>2, <1>3

\* From u the script s makes n changes of E and leaves the driver ready.
Finishes(p, E, s, u, g, n) == (\E w : Does(E, s, u, g, w, g) /\ Ready(p, w) /\ w.n = n) /\ IsSeq(s)

\* WriteWords of the older drivers has as many effects as there are words, the
\* right ones in order.
LEMMA BlockWriteCall ==
    ASSUME NEW p, Legacy(p), NEW E, NEW g, NEW u, Ready(p, u), u.n = 0, NEW a \in Nat, NEW v,
           Writable(p, E, AddrStep(p), Places(a, Len(v), 2), v, Len(v))
    PROVE  Finishes(p, E, BlockWrite(p, a, v), u, g, Len(v))
  <1> DEFINE n == Len(v)
             x == WriteStep(p)
             A == Places(a, n, 2)
             L == WriteLoop(AddrStep(p), A, v, n)
             s == BlockWrite(p, a, v)
  <1>1. n \in Nat
    BY DEF Writable
  <1>2. s = HaltCpu \o Clr \o Play1(x) \o L \o ReleaseCpu
    BY <1>1, BlockWriteIs
  <1>3. Writable(p, E, AddrStep(p), A, v, n)
    OBVIOUS
  <1>4. IsSeq(L)
    BY LoopSeq DEF WriteLoop
  <1> HIDE DEF x, A, s, n
  <1>5. PICK y : /\ Does(E, Play1(x), HaltLow(u), g, y, g) /\ IsSeq(Play1(x))
                 /\ Sound(y) /\ Pausing(u, WriteSignals, y)
    BY WriteStepDoes DEF x
  <1>6. Advanced(p, u, 0, u)
    <2>1. Resting(p, u)
      BY DEF Ready
    <2> QED BY <2>1, AkinSelf DEF Advanced, Steady
  <1>7. Writing(p, u, 0, y)
    BY <1>5, <1>6 DEF Writing
  <1>8. \E w1 : Does(E, L, y, g, w1, g) /\ Writing(p, u, n, w1)
    BY <1>3, <1>5, <1>7, WriteLoopDoes
  <1> HIDE DEF L
  <1>9. PICK w1 : Does(E, L, y, g, w1, g) /\ Writing(p, u, n, w1)
    BY <1>8
  <1>10. PICK c : Advanced(p, u, n, c) /\ Pausing(c, WriteSignals, w1)
    BY <1>9 DEF Writing
  <1>11. PICK ir, mab, dto, din, mdb : w1 = P(c, ir, WriteSignals, 0, mab, dto, din, mdb, Fetch)
    BY <1>10 DEF Pausing
  <1>12. Resting(p, c) /\ Calm(c) /\ Legacy(c)
    BY <1>10, RestingIs DEF Advanced
  <1>13. Sound(u)
    BY DEF Ready, Resting
  <1> DEFINE w == P(c, IR_ADDR_CAPTURE, \h2401, 1, mab, dto, din, mdb, Fetch)
  <1>14. /\ Does(E, HaltCpu \o Clr \o Play1(x) \o L \o ReleaseCpu, u, g, w, g)
         /\ IsSeq(HaltCpu \o Clr \o Play1(x) \o L \o ReleaseCpu)
    BY <1>4, <1>5, <1>9, <1>11, <1>12, BlockDoes
  <1>15. Does(E, s, u, g, w, g) /\ IsSeq(s)
    BY <1>2, <1>14
  <1>16. LetGo(p, c, w)
    BY <1>12, <1>13, <1>15, LetGoAfter
  <1>17. Ready(p, w) /\ w.n = n
    BY <1>1, <1>10, <1>16 DEF LetGo, Behind, Advanced
  <1>18. Finishes(p, E, s, u, g, n)
    BY <1>15, <1>17 DEF Finishes
  <1> QED BY <1>18 DEF s, n

-----------------------------------------------------------------------------
(* The flash controller at work.                                           *)

\* A target by the state of its flash, over the rest of it.
F(b, wrt, erase, lock, locka, busy, doomed, spent, mem, n) ==
    [b EXCEPT !.wrt = wrt, !.erase = erase, !.lock = lock, !.locka = locka, !.busy = busy,
              !.doomed = doomed, !.spent = spent, !.mem = mem, !.n = n]
InFlash(b, wrt, erase, lock, locka, busy, doomed, spent, mem, n) ==
    /\ b \in Target
    /\ wrt \in BOOLEAN /\ erase \in SUBSET {2, 4, 8} /\ lock \in BOOLEAN /\ locka \in BOOLEAN
    /\ busy \in Nat /\ doomed \in SUBSET FlashCell /\ spent \in [FlashCell -> Nat]
    /\ mem \in [MemAddr -> Values16] /\ n \in Nat

\* The fields of a target whose flash controller is given column by column.
LEMMA FFields ==
    ASSUME NEW b, b \in Target, NEW wrt, NEW erase, NEW lock, NEW locka, NEW busy, NEW doomed,
           NEW spent, NEW mem, NEW n, NEW u,
           u = F(b, wrt, erase, lock, locka, busy, doomed, spent, mem, n)
    PROVE  /\ u.wrt = wrt /\ u.erase = erase /\ u.lock = lock /\ u.locka = locka /\ u.busy = busy
           /\ u.doomed = doomed /\ u.spent = spent /\ u.mem = mem /\ u.n = n
           /\ u.drv = b.drv /\ u.id = b.id /\ u.need = b.need /\ u.has_locka = b.has_locka
           /\ u.reg = b.reg /\ u.pcok = b.pcok /\ u.per = b.per /\ u.wdt = b.wdt
           /\ u.ir = b.ir /\ u.cntrl = b.cntrl /\ u.tclk = b.tclk /\ u.mab = b.mab /\ u.dto = b.dto
           /\ u.din = b.din /\ u.mdb = b.mdb /\ u.cpu = b.cpu
           /\ u.violated = b.violated /\ u.eem = b.eem /\ u.eemaddr = b.eemaddr
           /\ u.eemctl = b.eemctl /\ u.jmb = b.jmb /\ u.running = b.running
           /\ u.strobe_end = b.strobe_end
  BY DEF F, Target

\* Such a target is sound if its columns are.
LEMMA FSound ==
    ASSUME NEW b, Sound(b), NEW wrt, NEW erase, NEW lock, NEW locka, NEW busy, NEW doomed,
           NEW spent, NEW mem, NEW n,
           InFlash(b, wrt, erase, lock, locka, busy, doomed, spent, mem, n), NEW u,
           u = F(b, wrt, erase, lock, locka, busy, doomed, spent, mem, n)
    PROVE  Sound(u) /\ (Quiet(b) => Quiet(u)) /\ (Legacy(u) <=> Legacy(b)) /\ u.drv = b.drv /\ u \in Target
           /\ RegValues(u) = RegValues(b)
  <1>1. b \in Target
    BY DEF Sound
  <1>2. u \in Target
    <2> DEFINE u1 == [b EXCEPT !.wrt = wrt, !.erase = erase, !.lock = lock]
               u2 == [u1 EXCEPT !.locka = locka, !.busy = busy, !.doomed = doomed]
    <2>1. u1 \in Target
      BY <1>1 DEF Target, InFlash
    <2>2. u = [u2 EXCEPT !.spent = spent, !.mem = mem, !.n = n]
      BY DEF F
    <2> HIDE DEF u1
    <2>3. u2 \in Target
      BY <2>1 DEF Target, InFlash
    <2> HIDE DEF u2
    <2> DEFINE u3 == [u2 EXCEPT !.spent = spent]
               u4 == [u3 EXCEPT !.mem = mem]
    <2>4. spent \in [FlashCell -> Nat] /\ mem \in [MemAddr -> Values16] /\ n \in Nat
      BY DEF InFlash
    <2>5. u3 \in Target
      BY ONLY <2>3, <2>4 DEF Target, u3
    <2>6. u = [[u3 EXCEPT !.mem = mem] EXCEPT !.n = n]
      BY ONLY <2>2, <2>3 DEF Target, u3
    <2> HIDE DEF u3
    <2>7. u4 \in Target
      BY ONLY <2>5, <2>4 DEF Target, u4
    <2>8. u = [u4 EXCEPT !.n = n]
      BY ONLY <2>6 DEF u4
    <2> HIDE DEF u4
    <2> QED BY ONLY <2>4, <2>7, <2>8 DEF Target
  <1>3. /\ u.drv = b.drv /\ u.reg = b.reg /\ u.mab = b.mab /\ u.running = b.running /\ u.eemaddr = b.eemaddr
    BY <1>1, FFields
  <1>4. RegValues(u) = RegValues(b) /\ (Legacy(u) <=> Legacy(b))
    BY <1>3 DEF RegValues, RegSize, Legacy
  <1> QED BY <1>2, <1>3, <1>4 DEF Sound, Quiet

\* Nothing is changed, or what the next change of E says.
Changed(E, mem, n, mem2, n2) ==
    \/ mem2 = mem /\ n2 = n
    \/ /\ n2 = n + 1 /\ n2 <= Len(E)
       /\ \/ E[n2].k = "program" /\ mem2 = [mem EXCEPT ![E[n2].at] = And16(@, E[n2].v)]
          \/ E[n2].k = "erase" /\ mem2 = [a \in DOMAIN mem |-> IF a \in E[n2].at THEN \hFFFF ELSE mem[a]]

\* Nothing has changed where nothing was done.
LEMMA Unchanged ==
    ASSUME NEW E, NEW mem, NEW n
    PROVE  Changed(E, mem, n, mem, n)
  BY DEF Changed

\* What an operation on flash changes, seen by the changes it is to make.
LEMMA FMoved ==
    ASSUME NEW b, Quiet(b), NEW wrt, NEW erase, NEW lock, NEW locka, NEW busy, NEW doomed,
           NEW spent, NEW mem, NEW n,
           InFlash(b, wrt, erase, lock, locka, busy, doomed, spent, mem, n), NEW u,
           u = F(b, wrt, erase, lock, locka, busy, doomed, spent, mem, n),
           NEW wrt2, NEW erase2, NEW lock2, NEW locka2, NEW busy2, NEW doomed2, NEW spent2,
           NEW mem2, NEW n2,
           InFlash(b, wrt2, erase2, lock2, locka2, busy2, doomed2, spent2, mem2, n2),
           NEW v, v = F(b, wrt2, erase2, lock2, locka2, busy2, doomed2, spent2, mem2, n2),
           NEW E, Changed(E, mem, n, mem2, n2)
    PROVE  /\ Moved(u, v, E) /\ Quiet(u) /\ Quiet(v) /\ (Legacy(v) <=> Legacy(u))
           /\ v.busy = 0 => Calm(v)
           /\ u.busy = 0 => Calm(u)
  <1>1. Sound(b) /\ b \in Target
    BY DEF Quiet, Sound
  <1>2. Sound(u) /\ Quiet(u) /\ (Legacy(u) <=> Legacy(b)) /\ u.drv = b.drv
    BY <1>1, FSound
  <1>3. Sound(v) /\ Quiet(v) /\ (Legacy(v) <=> Legacy(b)) /\ v.drv = b.drv
    BY <1>1, FSound
  <1>4. u.mem = mem /\ u.n = n /\ u.reg = b.reg
    BY <1>1, FFields
  <1>5. v.mem = mem2 /\ v.n = n2 /\ v.reg = b.reg
    BY <1>1, FFields
  <1>6. Held(u) = Held(v)
    BY <1>4, <1>5 DEF Held
  <1>7. Fits(E, u, v)
    BY <1>4, <1>5, <1>6 DEF Fits, Same, Makes, Changed
  <1> QED BY <1>2, <1>3, <1>7 DEF Moved, Calm

\* The flash at rest between two steps of the controller.
LEMMA FCalm ==
    ASSUME NEW b, Quiet(b), NEW wrt, NEW erase, NEW lock, NEW locka, NEW doomed, NEW spent, NEW mem,
           NEW n, InFlash(b, wrt, erase, lock, locka, 0, doomed, spent, mem, n)
    PROVE  Calm(F(b, wrt, erase, lock, locka, 0, doomed, spent, mem, n))
  <1> DEFINE u == F(b, wrt, erase, lock, locka, 0, doomed, spent, mem, n)
  <1>1. Sound(b) /\ b \in Target
    BY DEF Quiet, Sound
  <1>2. Quiet(u)
    BY <1>1, FSound
  <1>3. u.busy = 0
    BY <1>1, FFields
  <1> HIDE DEF u
  <1> QED BY <1>2, <1>3 DEF Calm, u

\* What a word tells the control registers: writing w or erasing e; locked l, and
\* LOCKA turned over or not (x).
Fctl1(v, w, e) ==
    /\ v \in Values16 /\ v \div 256 = \hA5 /\ w = (Bit(v, \h40) = 1)
    /\ e = {k \in {2, 4, 8} : Bit(v, k) = 1} /\ w \in BOOLEAN
Fctl3(v, l, x) ==
    /\ v \in Values16 /\ v \div 256 = \hA5 /\ l = (Bit(v, \h10) = 1) /\ x = (Bit(v, \h40) = 1)
    /\ l \in BOOLEAN
Keyed(v) == v \in Values16 /\ v \div 256 = \hA5

\* The registers of the flash controller.
LEMMA FctlRegs ==
    /\ kFctl1Addr \in FctlAddr /\ kFctl1Addr - (kFctl1Addr % 2) = kFctl1Addr
    /\ kFctl2Addr \in FctlAddr /\ kFctl2Addr - (kFctl2Addr % 2) = kFctl2Addr
    /\ kFctl3Addr \in FctlAddr /\ kFctl3Addr - (kFctl3Addr % 2) = kFctl3Addr
  BY DEF kFctl1Addr, kFctl2Addr, kFctl3Addr, FctlAddr

\* The cells a word is to erase.
EraseBits(v) == {k \in {2, 4, 8} : Bit(v, k) = 1}

\* What a word with its key does to a register of the controller.
LEMMA WriteFctlIs ==
    ASSUME NEW u, NEW v, Keyed(v)
    PROVE  /\ WriteFctl(u, kFctl1Addr, v)
                = [u EXCEPT !.wrt = Bit(v, \h40) = 1, !.erase = EraseBits(v)]
           /\ WriteFctl(u, kFctl2Addr, v) = u
           /\ WriteFctl(u, kFctl3Addr, v)
                = [u EXCEPT !.lock  = Bit(v, \h10) = 1,
                            !.locka = IF Bit(v, \h40) = 1 /\ u.has_locka THEN ~u.locka ELSE @,
                            !.spent = IF Bit(v, \h10) = 1 THEN [x \in DOMAIN @ |-> 0] ELSE @]
  BY DEF WriteFctl, kFctl1Addr, kFctl2Addr, kFctl3Addr, Keyed, EraseBits

\* A write to them goes to the flash controller.
LEMMA FctlWritten ==
    ASSUME NEW u, NEW v
    PROVE  /\ BusWrite(u, kFctl1Addr - (kFctl1Addr % 2), v) = WriteFctl(u, kFctl1Addr, v)
           /\ BusWrite(u, kFctl2Addr - (kFctl2Addr % 2), v) = WriteFctl(u, kFctl2Addr, v)
           /\ BusWrite(u, kFctl3Addr - (kFctl3Addr % 2), v) = WriteFctl(u, kFctl3Addr, v)
  <1>1. ASSUME NEW a \in FctlAddr PROVE BusWrite(u, a, v) = WriteFctl(u, a, v)
    <2>1. a # WdtAddr(u) /\ a \notin RamAddr /\ a \notin FlashCell
      BY Apart
    <2> QED BY <2>1 DEF BusWrite
  <1> QED BY <1>1, FctlRegs

\* FCTL1 takes the operation while the controller is not busy.
LEMMA WroteFctl1 ==
    ASSUME NEW b, Quiet(b), NEW wrt, NEW erase, NEW lock, NEW locka, NEW doomed, NEW spent, NEW mem,
           NEW n, InFlash(b, wrt, erase, lock, locka, 0, doomed, spent, mem, n), NEW v, NEW w,
           NEW e, Fctl1(v, w, e), NEW E
    PROVE  Wrote(E, F(b, wrt, erase, lock, locka, 0, doomed, spent, mem, n), kFctl1Addr, v, F(b, w, e, lock, locka, 0, doomed, spent, mem, n))
  <1> DEFINE u == F(b, wrt, erase, lock, locka, 0, doomed, spent, mem, n)
             c == F(b, w, e, lock, locka, 0, doomed, spent, mem, n)
  <1>1. BusWrite(u, kFctl1Addr - (kFctl1Addr % 2), v) = WriteFctl(u, kFctl1Addr, v)
    BY FctlWritten
  <1>2. WriteFctl(u, kFctl1Addr, v) = [u EXCEPT !.wrt = w, !.erase = e]
    <2> HIDE DEF u
    <2>0. Keyed(v)
      BY DEF Fctl1, Keyed
    <2>1. Keyed(v) /\ w = (Bit(v, \h40) = 1) /\ e = EraseBits(v)
      BY DEF Fctl1, EraseBits, Keyed
    <2> DEFINE w2 == Bit(v, \h40) = 1
               e2 == EraseBits(v)
    <2>2. WriteFctl(u, kFctl1Addr, v) = [u EXCEPT !.wrt = w2, !.erase = e2]
      <3>1. WriteFctl(u, kFctl1Addr, v)
                = [u EXCEPT !.wrt = Bit(v, \h40) = 1, !.erase = EraseBits(v)]
        BY <2>0, WriteFctlIs, ZenonT(40)
      <3> QED BY <3>1
    <2>3. w2 = w /\ e2 = e
      BY <2>1
    <2> HIDE DEF w2, e2
    <2> QED BY <2>2, <2>3
  <1>3. [u EXCEPT !.wrt = w, !.erase = e] = c
    BY DEF F
  <1>4. InFlash(b, w, e, lock, locka, 0, doomed, spent, mem, n)
    BY DEF InFlash, Fctl1
  <1>5. Moved(u, c, E) /\ Quiet(u) /\ Quiet(c) /\ (Legacy(c) <=> Legacy(u))
    BY <1>4, FMoved, Unchanged
  <1>6. Calm(u)
    BY FCalm
  <1> HIDE DEF u, c
  <1>7. Wrote(E, u, kFctl1Addr, v, c)
    BY <1>1, <1>2, <1>3, <1>5, <1>6 DEF Wrote
  <1> QED BY <1>7 DEF u, c

\* FCTL2 takes its word.
LEMMA WroteFctl2 ==
    ASSUME NEW b, Quiet(b), NEW wrt, NEW erase, NEW lock, NEW locka, NEW doomed, NEW spent, NEW mem,
           NEW n, InFlash(b, wrt, erase, lock, locka, 0, doomed, spent, mem, n), NEW v, Keyed(v),
           NEW E
    PROVE  Wrote(E, F(b, wrt, erase, lock, locka, 0, doomed, spent, mem, n), kFctl2Addr, v, F(b, wrt, erase, lock, locka, 0, doomed, spent, mem, n))
  <1> DEFINE u == F(b, wrt, erase, lock, locka, 0, doomed, spent, mem, n)
  <1>1. BusWrite(u, kFctl2Addr - (kFctl2Addr % 2), v) = WriteFctl(u, kFctl2Addr, v)
    BY FctlWritten
  <1>2. WriteFctl(u, kFctl2Addr, v) = u
    BY WriteFctlIs
  <1>5. Moved(u, u, E) /\ Quiet(u)
    BY FMoved, Unchanged
  <1>6. Calm(u)
    BY FCalm
  <1> HIDE DEF u
  <1>7. Wrote(E, u, kFctl2Addr, v, u)
    BY <1>1, <1>2, <1>5, <1>6 DEF Wrote
  <1> QED BY <1>7 DEF u

\* No cell has had pulses.
Unspent == [x \in FlashCell |-> 0]

\* FCTL3 takes LOCK, and toggles LOCKA where the part has it.
LEMMA WroteFctl3 ==
    ASSUME NEW b, Quiet(b), NEW wrt, NEW erase, NEW lock, NEW locka, NEW doomed, NEW spent, NEW mem,
           NEW n, InFlash(b, wrt, erase, lock, locka, 0, doomed, spent, mem, n), NEW v, NEW l,
           NEW x, Fctl3(v, l, x), NEW E,
           NEW la, la = (IF x /\ b.has_locka THEN ~locka ELSE locka),
           NEW sp, sp = (IF l THEN Unspent ELSE spent)
    PROVE  /\ Wrote(E, F(b, wrt, erase, lock, locka, 0, doomed, spent, mem, n), kFctl3Addr, v, F(b, wrt, erase, l, la, 0, doomed, sp, mem, n))
           /\ InFlash(b, wrt, erase, l, la, 0, doomed, sp, mem, n)
  <1> DEFINE u == F(b, wrt, erase, lock, locka, 0, doomed, spent, mem, n)
             c == F(b, wrt, erase, l, la, 0, doomed, sp, mem, n)
  <1>0. b \in Target
    BY DEF Quiet, Sound
  <1>1. BusWrite(u, kFctl3Addr - (kFctl3Addr % 2), v) = WriteFctl(u, kFctl3Addr, v)
    BY FctlWritten
  <1>1a. u.has_locka = b.has_locka /\ u.locka = locka /\ u.spent = spent
    BY <1>0, FFields
  <1>1b. DOMAIN spent = FlashCell
    BY DEF InFlash
  <1>2. WriteFctl(u, kFctl3Addr, v) = [u EXCEPT !.lock = l, !.locka = la, !.spent = sp]
    <2>1. WriteFctl(u, kFctl3Addr, v)
                = [u EXCEPT !.lock  = Bit(v, \h10) = 1,
                            !.locka = IF Bit(v, \h40) = 1 /\ u.has_locka THEN ~u.locka ELSE @,
                            !.spent = IF Bit(v, \h10) = 1 THEN [y \in DOMAIN @ |-> 0] ELSE @]
      BY WriteFctlIs DEF Fctl3, Keyed
    <2>2. l = (Bit(v, \h10) = 1) /\ x = (Bit(v, \h40) = 1)
      BY DEF Fctl3
    <2> HIDE DEF u
    <2> DEFINE l2 == Bit(v, \h10) = 1
               la2 == IF Bit(v, \h40) = 1 /\ u.has_locka THEN ~u.locka ELSE u.locka
               sp2 == IF Bit(v, \h10) = 1 THEN [y \in DOMAIN u.spent |-> 0] ELSE u.spent
    <2>3. WriteFctl(u, kFctl3Addr, v) = [u EXCEPT !.lock = l2, !.locka = la2, !.spent = sp2]
      BY <2>1
    <2>4. l2 = l /\ la2 = la /\ sp2 = sp
      BY <1>1a, <1>1b, <2>2 DEF Unspent
    <2> HIDE DEF l2, la2, sp2
    <2> QED BY <2>3, <2>4
  <1>3. [u EXCEPT !.lock = l, !.locka = la, !.spent = sp] = c
    BY DEF F
  <1>4. InFlash(b, wrt, erase, l, la, 0, doomed, sp, mem, n)
    BY DEF InFlash, Fctl3, Unspent
  <1>5. Moved(u, c, E) /\ Quiet(u) /\ Quiet(c) /\ (Legacy(c) <=> Legacy(u))
    BY <1>4, FMoved, Unchanged
  <1>6. Calm(u)
    BY FCalm
  <1> HIDE DEF u, c
  <1>7. Wrote(E, u, kFctl3Addr, v, c)
    BY <1>1, <1>2, <1>3, <1>5, <1>6 DEF Wrote
  <1> QED BY <1>4, <1>7 DEF u, c

\* A switch that is on, one that is off, no cells.
On == TRUE
Off == FALSE
Nothing == {}
\* The flash unlocked for words, with the memory mem after n changes.
Opened(b, mem, n) == F(b, On, Nothing, Off, Off, 0, Nothing, Unspent, mem, n)
\* A word is being programmed.
Burning(b, mem, n) == F(b, On, Nothing, Off, Off, b.need.word, Nothing, Unspent, mem, n)

\* The columns of a controller that is open for words.
LEMMA OpenedIn ==
    ASSUME NEW b \in Target, NEW mem \in [MemAddr -> Values16], NEW n \in Nat
    PROVE  /\ InFlash(b, On, Nothing, Off, Off, 0, Nothing, Unspent, mem, n)
           /\ InFlash(b, On, Nothing, Off, Off, b.need.word, Nothing, Unspent, mem, n)
  <1>1. b.need.word \in Nat
    BY DEF Target, Needs
  <1>2. Unspent \in [FlashCell -> Nat]
    BY DEF Unspent
  <1> QED BY <1>1, <1>2 DEF InFlash, On, Off, Nothing

\* Programming flash clears bits: the word stays a word.
LEMMA AndIn ==
    ASSUME NEW x, NEW y
    PROVE  And16(x, y) \in Values16
  <1>1. ASSUME NEW k \in Nat PROVE Both(x, y, k) \in 0 .. k
    BY DEF Both
  <1> DEFINE p0 == Both(x, y, \h8000)
             p1 == Both(x, y, \h4000)
             p2 == Both(x, y, \h2000)
             p3 == Both(x, y, \h1000)
             p4 == Both(x, y, \h800)
             p5 == Both(x, y, \h400)
             p6 == Both(x, y, \h200)
             p7 == Both(x, y, \h100)
             p8 == Both(x, y, \h80)
             p9 == Both(x, y, \h40)
             p10 == Both(x, y, \h20)
             p11 == Both(x, y, \h10)
             p12 == Both(x, y, 8)
             p13 == Both(x, y, 4)
             p14 == Both(x, y, 2)
             p15 == Both(x, y, 1)
  <1>a0. p0 \in Int /\ 0 <= p0 /\ p0 <= \h8000
    BY DEF Both
  <1>a1. p1 \in Int /\ 0 <= p1 /\ p1 <= \h4000
    BY DEF Both
  <1>a2. p2 \in Int /\ 0 <= p2 /\ p2 <= \h2000
    BY DEF Both
  <1>a3. p3 \in Int /\ 0 <= p3 /\ p3 <= \h1000
    BY DEF Both
  <1>a4. p4 \in Int /\ 0 <= p4 /\ p4 <= \h800
    BY DEF Both
  <1>a5. p5 \in Int /\ 0 <= p5 /\ p5 <= \h400
    BY DEF Both
  <1>a6. p6 \in Int /\ 0 <= p6 /\ p6 <= \h200
    BY DEF Both
  <1>a7. p7 \in Int /\ 0 <= p7 /\ p7 <= \h100
    BY DEF Both
  <1>a8. p8 \in Int /\ 0 <= p8 /\ p8 <= \h80
    BY DEF Both
  <1>a9. p9 \in Int /\ 0 <= p9 /\ p9 <= \h40
    BY DEF Both
  <1>a10. p10 \in Int /\ 0 <= p10 /\ p10 <= \h20
    BY DEF Both
  <1>a11. p11 \in Int /\ 0 <= p11 /\ p11 <= \h10
    BY DEF Both
  <1>a12. p12 \in Int /\ 0 <= p12 /\ p12 <= 8
    BY DEF Both
  <1>a13. p13 \in Int /\ 0 <= p13 /\ p13 <= 4
    BY DEF Both
  <1>a14. p14 \in Int /\ 0 <= p14 /\ p14 <= 2
    BY DEF Both
  <1>a15. p15 \in Int /\ 0 <= p15 /\ p15 <= 1
    BY DEF Both
  <1>c. And16(x, y) = p0 + p1 + p2 + p3 + p4 + p5 + p6 + p7 + p8 + p9 + p10 + p11 + p12 + p13 + p14 + p15
    BY DEF And16
  <1> HIDE DEF p0, p1, p2, p3, p4, p5, p6, p7, p8, p9, p10, p11, p12, p13, p14, p15
  <1> QED BY <1>c, <1>a0, <1>a1, <1>a2, <1>a3, <1>a4, <1>a5, <1>a6, <1>a7, <1>a8, <1>a9, <1>a10, <1>a11, <1>a12, <1>a13, <1>a14, <1>a15 DEF Values16

\* The i-th change of E is a flash word at a, programmed with v.
Programs16(E, i, a, v) == i <= Len(E) /\ E[i].k = "program" /\ E[i].at = a /\ E[i].v = v

\* A word written to open flash is burnt: one more effect, and the controller is
\* busy.
LEMMA WordBurns ==
    ASSUME NEW E, NEW b, Quiet(b), Legacy(b), NEW mem \in [MemAddr -> Values16], NEW n \in Nat,
           NEW a \in FlashCell, NEW v, Programs16(E, n + 1, a, v),
           NEW mem2, mem2 = [mem EXCEPT ![a] = And16(@, v)], NEW m, m = n + 1
    PROVE  Wrote(E, Opened(b, mem, n), a, v, Burning(b, mem2, m)) /\ mem2 \in [MemAddr -> Values16]
  <1> DEFINE u == Opened(b, mem, n)
             c == Burning(b, mem2, m)
  <1>1. b \in Target /\ Sound(b)
    BY DEF Quiet, Sound
  <1>2. a \in MemAddr /\ a - (a % 2) = a
    BY MemSplit
  <1>3. mem2 \in [MemAddr -> Values16] /\ m \in Nat
    BY <1>2, AndIn
  <1>4. /\ InFlash(b, On, Nothing, Off, Off, 0, Nothing, Unspent, mem, n)
        /\ InFlash(b, On, Nothing, Off, Off, b.need.word, Nothing, Unspent, mem2, m)
    BY <1>1, <1>3, OpenedIn
  <1>5. /\ u.lock = Off /\ u.busy = 0 /\ u.wrt = On /\ u.erase = Nothing /\ u.locka = Off
        /\ u.mem = mem /\ u.n = n /\ u.need = b.need
    BY <1>1, FFields DEF Opened
  <1>6. WriteFlashCell(u, a, v) = [u EXCEPT !.mem[a] = And16(@, v), !.busy = u.need.word, !.n = @ + 1]
    <2> HIDE DEF u
    <2> QED BY <1>5 DEF WriteFlashCell, On, Off, Nothing
  <1>7. WriteFlashCell(u, a, v) = [u EXCEPT !.mem = mem2, !.busy = b.need.word, !.n = m]
    <2> HIDE DEF u
    <2> DEFINE s == [u.mem EXCEPT ![a] = And16(@, v)]
    <2>1. s = mem2
      BY <1>5
    <2>2. WriteFlashCell(u, a, v) = [u EXCEPT !.mem = s, !.busy = u.need.word, !.n = u.n + 1]
      BY <1>6
    <2> HIDE DEF s
    <2> QED BY <1>5, <2>1, <2>2
  <1>8. [u EXCEPT !.mem = mem2, !.busy = b.need.word, !.n = m] = c
    BY DEF F, Opened, Burning
  <1>9. Moved(u, c, E) /\ Quiet(u) /\ Quiet(c) /\ (Legacy(c) <=> Legacy(u))
    <2>1. m <= Len(E) /\ E[m].k = "program" /\ E[m].at = a /\ E[m].v = v
      BY DEF Programs16
    <2>2. [mem EXCEPT ![E[m].at] = And16(@, E[m].v)] = mem2
      BY <2>1
    <2>3. Changed(E, mem, n, mem2, m)
      BY <2>1, <2>2 DEF Changed
    <2> QED BY <1>4, <2>3, FMoved DEF Opened, Burning
  <1>10. Calm(u)
    BY <1>4, FCalm DEF Opened
  <1>11. BusWrite(u, a - (a % 2), v) = WriteFlashCell(u, a, v)
    <2>1. Legacy(u)
      BY <1>1, <1>4, FSound DEF Opened
    <2> HIDE DEF u
    <2>2. a # WdtAddr(u) /\ a \notin RamAddr /\ a \notin FctlAddr
      BY Apart
    <2>3. BusWrite(u, a, v) = WriteFlashCell(u, a, v)
      BY <2>1, <2>2 DEF BusWrite
    <2> QED BY <1>2, <2>3
  <1> HIDE DEF u, c
  <1>12. Wrote(E, u, a, v, c)
    BY <1>7, <1>8, <1>9, <1>10, <1>11 DEF Wrote
  <1> QED BY <1>3, <1>12 DEF u, c

\* Enough strobes end it.
LEMMA WordBurnt ==
    ASSUME NEW E, NEW b, Quiet(b), Legacy(b), NEW mem \in [MemAddr -> Values16], NEW n \in Nat,
           NEW k \in Nat, b.need.word <= k, NEW e, e = b.strobe_end
    PROVE  Strobed(E, Burning(b, mem, n), k, Opened(b, mem, n), e)
  <1> DEFINE u == Burning(b, mem, n)
             c == Opened(b, mem, n)
  <1>1. b \in Target /\ Sound(b) /\ b.need.word \in Nat \ {0}
    BY DEF Quiet, Sound, Target, Needs
  <1>2. /\ InFlash(b, On, Nothing, Off, Off, 0, Nothing, Unspent, mem, n)
        /\ InFlash(b, On, Nothing, Off, Off, b.need.word, Nothing, Unspent, mem, n)
    BY <1>1, OpenedIn
  <1>3. /\ u.busy = b.need.word /\ u.doomed = Nothing /\ u.spent = Unspent /\ u.mem = mem /\ u.n = n
        /\ u.erase = Nothing /\ u.strobe_end = b.strobe_end /\ u.need = b.need
    BY <1>1, FFields DEF Burning
  <1>4. FlashClock(u, k) = [u EXCEPT !.busy = 0, !.spent = Unspent, !.doomed = Nothing, !.n = n, !.mem = mem]
    <2> HIDE DEF u
    <2> DEFINE sp   == [x \in DOMAIN u.spent |-> IF x \in u.doomed THEN u.spent[x] + k ELSE u.spent[x]]
               full == IF u.erase = {2} THEN u.need.seg ELSE u.need.mass * u.need.rep
               gone == {x \in u.doomed : sp[x] >= full}
               bs   == IF k >= u.busy THEN 0 ELSE u.busy - k
               dm   == IF k >= u.busy THEN {} ELSE u.doomed
               nn   == IF \E x \in gone : u.spent[x] < full THEN u.n + 1 ELSE u.n
               mm   == [x \in DOMAIN u.mem |-> IF x \in gone THEN \hFFFF ELSE u.mem[x]]
    <2>1. FlashClock(u, k) = [u EXCEPT !.busy = bs, !.spent = sp, !.doomed = dm, !.n = nn, !.mem = mm]
      BY <1>1, <1>3 DEF FlashClock
    <2>2. sp = Unspent
      BY <1>3 DEF Unspent, Nothing
    <2>3. gone = {}
      BY <1>3 DEF Nothing
    <2> HIDE DEF full, gone, sp
    <2>4. mm = mem /\ nn = n
      BY <1>3, <2>3
    <2>5. bs = 0 /\ dm = Nothing
      BY <1>1, <1>3 DEF Nothing
    <2> HIDE DEF bs, dm, mm, nn
    <2> QED BY <2>1, <2>2, <2>4, <2>5
  <1>5. [u EXCEPT !.busy = 0, !.spent = Unspent, !.doomed = Nothing, !.n = n, !.mem = mem] = c
    BY DEF F, Burning, Opened
  <1>6. Moved(u, c, E) /\ Quiet(u) /\ (Legacy(c) <=> Legacy(u))
    BY <1>2, FMoved, Unchanged DEF Burning, Opened
  <1>7. Calm(c)
    BY <1>2, FCalm DEF Opened
  <1>8. c.strobe_end = e /\ e \in {0, 1}
    <2>1. c.strobe_end = b.strobe_end
      BY <1>1, FFields DEF Opened
    <2> QED BY <1>1, <2>1 DEF Target
  <1> HIDE DEF u, c
  <1>9. Strobed(E, u, k, c, e)
    BY <1>3, <1>4, <1>5, <1>6, <1>7, <1>8 DEF Strobed
  <1> QED BY <1>9 DEF u, c

-----------------------------------------------------------------------------
(* Words are written to flash.                                             *)

\* What is played to unlock the flash, for a word, and to lock it again.
OpenScript(f) ==
    Play(<<kTclk0, kIrDr16(IR_CNTRL_SIG_16BIT, \h2408),
           kIrDr16(IR_ADDR_16BIT, kFctl1Addr), kIrDr16(IR_DATA_TO_ADDR, kFctl1Wrt), kPulseTclk,
           kIrDr16(IR_ADDR_16BIT, kFctl2Addr), kIrDr16(IR_DATA_TO_ADDR, kFctl2MclkDiv0), kPulseTclk,
           kIrDr16(IR_ADDR_16BIT, kFctl3Addr), kIrDr16Argv(kdNone, IR_DATA_TO_ADDR, kdNone),
           kIr(kdTclkP, IR_CNTRL_SIG_16BIT, kdNone)>>, <<f>>)
BurnScript(kAddr, a, v, n) ==
    Play(<<kDr16(\h2408), kAddr, kIrDr16Argv(kdNone, IR_DATA_TO_ADDR, kdTclkP),
           kIrDr16(IR_CNTRL_SIG_16BIT, \h2409), kStrobeTclkArgv>>, <<a, v, n>>)
CloseScript(f) ==
    Play(<<kIrDr16(IR_CNTRL_SIG_16BIT, \h2408), kIrDr16(IR_ADDR_16BIT, kFctl1Addr),
           kIrDr16(IR_DATA_TO_ADDR, kFctl1Lock), kPulseTclk, kIrDr16(IR_ADDR_16BIT, kFctl3Addr),
           kIrDr16Argv(kdNone, IR_DATA_TO_ADDR, kdTclk1), kReleaseCpu>>, <<f>>)

\* The scripts of the flash controller are sequences.
LEMMA FlashSeq ==
    /\ \A f : IsSeq(OpenScript(f)) /\ IsSeq(CloseScript(f))
    /\ \A x, a, v, n : IsSeq(BurnScript(x, a, v, n))
  BY PlaySeq DEF OpenScript, CloseScript, BurnScript

\* Levels of TCLK.
Levels == {0, 1}

\* u with the control signals cntrl selected.
Chosen(u, cntrl, w) ==
    \E tclk \in Levels : \E mab, dto, din, mdb : w = P(u, IR_CNTRL_SIG_16BIT, cntrl, tclk, mab, dto, din, mdb, Fetch)

\* The script that opens the flash writes its three registers.
LEMMA OpenDoes ==
    ASSUME NEW E, NEW g, NEW b, Calm(b), Legacy(b), NEW mab, NEW dto, NEW din, NEW mdb,
           NEW f, NEW d, Low(f, d), NEW c1, Wrote(E, b, kFctl1Addr, kFctl1Wrt, c1), Calm(c1),
           NEW c2, Wrote(E, c1, kFctl2Addr, kFctl2MclkDiv0, c2), Calm(c2),
           NEW c3, Wrote(E, c2, kFctl3Addr, d, c3), Calm(c3)
    PROVE  Does(E, OpenScript(f), P(b, IR_CNTRL_SIG_16BIT, \h2409, 1, mab, dto, din, mdb, Fetch), g,
                P(c3, IR_CNTRL_SIG_16BIT, \h2408, 0, kFctl3Addr, d, din, mdb, Fetch), g)
  BY FlashOpenRows DEF OpenScript, kFctl1Addr, kFctl2Addr, kFctl3Addr, kFctl1Wrt, kFctl2MclkDiv0

\* The script that closes it writes two.
LEMMA CloseDoes ==
    ASSUME NEW E, NEW g, NEW b, Calm(b), Legacy(b), NEW cntrl, NEW tclk \in Levels, NEW mab,
           NEW dto, NEW din, NEW mdb,
           NEW f, NEW d, Low(f, d), NEW c1, Wrote(E, b, kFctl1Addr, kFctl1Lock, c1), Calm(c1),
           NEW c2, Wrote(E, c1, kFctl3Addr, d, c2), Calm(c2)
    PROVE  Does(E, CloseScript(f), P(b, IR_CNTRL_SIG_16BIT, cntrl, tclk, mab, dto, din, mdb, Fetch), g,
                P(c2, IR_ADDR_CAPTURE, \h2401, 1, kFctl3Addr, d, din, mdb, Fetch), g)
  <1>1. CASE tclk = 0
    BY <1>1, FlashCloseRowsLow DEF CloseScript, kFctl1Addr, kFctl3Addr, kFctl1Lock
  <1>2. CASE tclk = 1
    BY <1>2, FlashCloseRowsHigh DEF CloseScript, kFctl1Addr, kFctl3Addr, kFctl1Lock
  <1> QED BY <1>1, <1>2 DEF Levels

\* The script that burns a word writes it and strobes.
LEMMA BurnDoes ==
    ASSUME NEW E, NEW g, NEW b, Calm(b), Legacy(b), NEW cntrl, NEW tclk \in Levels, NEW mab,
           NEW dto, NEW din, NEW mdb,
           NEW kAddr, NEW a \in RegValues(b), Addressing(kAddr, a), NEW v, NEW d, Low(v, d), NEW n,
           NEW c1, Wrote(E, b, a, d, c1), NEW c2, NEW e, Strobed(E, c1, n, c2, e)
    PROVE  Does(E, BurnScript(kAddr, a, v, n), P(b, IR_CNTRL_SIG_16BIT, cntrl, tclk, mab, dto, din, mdb, Fetch), g,
                P(c2, IR_CNTRL_SIG_16BIT, \h2409, e, a, d, din, mdb, Fetch), g)
  <1>1. CASE tclk = 0
    BY <1>1, FlashWordRowsLow DEF BurnScript
  <1>2. CASE tclk = 1
    BY <1>2, FlashWordRowsHigh DEF BurnScript
  <1> QED BY <1>1, <1>2 DEF Levels

\* A controller that is open for words belongs to a sound target.
LEMMA OpenedIs ==
    ASSUME NEW b, Quiet(b), NEW mem \in [MemAddr -> Values16], NEW n \in Nat
    PROVE  /\ Calm(Opened(b, mem, n)) /\ Sound(Opened(b, mem, n)) /\ (Legacy(Opened(b, mem, n)) <=> Legacy(b))
           /\ RegValues(Opened(b, mem, n)) = RegValues(b)
  <1>1. b \in Target /\ Sound(b)
    BY DEF Quiet, Sound
  <1>2. InFlash(b, On, Nothing, Off, Off, 0, Nothing, Unspent, mem, n)
    BY <1>1, OpenedIn
  <1> QED BY <1>1, <1>2, FCalm, FSound DEF Opened

\* The port in the course of a block, k words of flash after u.
Burnt(u, k, w) ==
    \E mem \in [MemAddr -> Values16] : \E cntrl : Chosen(Opened(u, mem, k), cntrl, w)

\* A word is burnt, the m-th.
Burns(E, g, u, s, w, k, m) ==
    m = k + 1 /\ \E z : Does(E, s, w, g, z, g) /\ Burnt(u, m, z)

\* One turn of a flash write: one more word is burnt, and the controller is idle
\* again.
LEMMA BurnNext ==
    ASSUME NEW E, NEW g, NEW u, Quiet(u), Legacy(u), NEW k \in Nat, NEW kAddr, NEW a \in FlashCell,
           a \in RegValues(u), Addressing(kAddr, a), NEW v \in Values16, NEW m, m = k + 1,
           Programs16(E, m, a, v),
           NEW n \in Nat, u.need.word <= n, NEW w, Burnt(u, k, w)
    PROVE  Burns(E, g, u, BurnScript(kAddr, a, v, n), w, k, m)
  <1>0. PICK mem \in [MemAddr -> Values16] : \E cntrl : Chosen(Opened(u, mem, k), cntrl, w)
    BY DEF Burnt
  <1>1. PICK cntrl : Chosen(Opened(u, mem, k), cntrl, w)
    BY <1>0
  <1>2. PICK tclk \in Levels : \E mab, dto, din, mdb :
           w = P(Opened(u, mem, k), IR_CNTRL_SIG_16BIT, cntrl, tclk, mab, dto, din, mdb, Fetch)
    BY <1>1 DEF Chosen
  <1>3. PICK mab, dto, din, mdb :
           w = P(Opened(u, mem, k), IR_CNTRL_SIG_16BIT, cntrl, tclk, mab, dto, din, mdb, Fetch)
    BY <1>2
  <1> DEFINE mem2 == [mem EXCEPT ![a] = And16(@, v)]
             e == u.strobe_end
             b == Opened(u, mem, k)
             c1 == Burning(u, mem2, m)
             c2 == Opened(u, mem2, m)
  <1>4. mem2 = [mem EXCEPT ![a] = And16(@, v)] /\ m \in Nat /\ Programs16(E, k + 1, a, v)
    OBVIOUS
  <1> HIDE DEF mem2
  <1>5. Wrote(E, b, a, v, c1) /\ mem2 \in [MemAddr -> Values16]
    BY <1>4, WordBurns
  <1>6. Strobed(E, c1, n, c2, e)
    BY <1>4, <1>5, WordBurnt
  <1>7. Calm(b) /\ Legacy(b) /\ RegValues(b) = RegValues(u)
    BY OpenedIs
  <1>8. Low(v, v)
    BY LowOf
  <1>9. e \in Levels
    BY <1>6 DEF Strobed, Levels
  <1>10. a \in RegValues(b)
    BY <1>7
  <1>2a. tclk \in Levels
    BY <1>2
  <1> HIDE DEF b, c1, c2, e
  <1> DEFINE z == P(c2, IR_CNTRL_SIG_16BIT, \h2409, e, a, v, din, mdb, Fetch)
  <1>11. Does(E, BurnScript(kAddr, a, v, n), P(b, IR_CNTRL_SIG_16BIT, cntrl, tclk, mab, dto, din, mdb, Fetch), g, z, g)
    BY <1>2a, <1>5, <1>6, <1>7, <1>8, <1>10, BurnDoes
  <1>12. Does(E, BurnScript(kAddr, a, v, n), w, g, z, g)
    <2>1. w = P(b, IR_CNTRL_SIG_16BIT, cntrl, tclk, mab, dto, din, mdb, Fetch)
      BY <1>3 DEF b
    <2> HIDE DEF z
    <2> QED BY <1>11, <2>1
  <1>13. Chosen(c2, \h2409, z)
    BY <1>9 DEF Chosen
  <1>14. Burnt(u, m, z)
    BY <1>5, <1>13 DEF Burnt, c2
  <1> HIDE DEF z
  <1> QED BY <1>12, <1>14 DEF Burns

\* Words V[1], V[2] and so on are to be written at A[1], A[2] and so on: those that
\* are not all ones, K[i] of the first i.
Flashable(u, E, kAddr, A, V, K, n) ==
    /\ n \in Nat /\ K[0] = 0
    /\ \A i \in 1 .. n :
          /\ A[i] \in FlashCell /\ A[i] \in RegValues(u) /\ Addressing(kAddr, A[i]) /\ V[i] \in Values16
          /\ K[i - 1] \in Nat
          /\ V[i] = \hFFFF => K[i] = K[i - 1]
          /\ V[i] # \hFFFF => K[i] = K[i - 1] + 1 /\ Programs16(E, K[i], A[i], V[i])
FlashItem(kAddr, a, v, s) == IF v = \hFFFF THEN <<>> ELSE BurnScript(kAddr, a, v, s)
FlashLoop(kAddr, A, V, n, s) == Loop([i \in 1 .. n |-> FlashItem(kAddr, A[i], V[i], s)])
\* The states with which the loop begins an item.
BurntSet(u, k) == {w \in Target : Sound(w) /\ Burnt(u, k, w)}

\* The same, from one place of the loop to the next.
LEMMA FlashLoopNext ==
    ASSUME NEW E, NEW g, NEW u, Quiet(u), Legacy(u), NEW n, NEW kAddr, NEW A, NEW V, NEW K,
           Flashable(u, E, kAddr, A, V, K, n), NEW s \in Nat, u.need.word <= s,
           NEW i \in 1 .. n, NEW w \in BurntSet(u, K[i - 1])
    PROVE  \E z \in BurntSet(u, K[i]) : Does(E, FlashItem(kAddr, A[i], V[i], s), w, g, z, g)
  <1> DEFINE a == A[i]
             v == V[i]
             k == K[i - 1]
             m == K[i]
  <1>1. /\ a \in FlashCell /\ a \in RegValues(u) /\ Addressing(kAddr, a) /\ v \in Values16 /\ k \in Nat
        /\ v = \hFFFF => m = k
        /\ v # \hFFFF => m = k + 1 /\ Programs16(E, m, a, v)
    BY DEF Flashable
  <1> HIDE DEF a, v, k, m
  <1>2. Sound(w) /\ Burnt(u, k, w) /\ w \in BurntSet(u, k)
    BY DEF BurntSet, k
  <1>3. CASE v = \hFFFF
    <2>1. FlashItem(kAddr, a, v, s) = <<>> /\ m = k
      BY <1>1, <1>3 DEF FlashItem
    <2>2. Does(E, FlashItem(kAddr, a, v, s), w, g, w, g)
      BY <2>1, DoesNothing
    <2> QED BY <1>2, <2>1, <2>2 DEF a, v, m
  <1>4. CASE v # \hFFFF
    <2>1. FlashItem(kAddr, a, v, s) = BurnScript(kAddr, a, v, s)
      BY <1>4 DEF FlashItem
    <2>2. m = k + 1 /\ Programs16(E, m, a, v)
      BY <1>1, <1>4
    <2>3a. Burns(E, g, u, BurnScript(kAddr, a, v, s), w, k, m)
      BY <1>1, <1>2, <2>2, BurnNext
    <2>3. PICK z : Does(E, BurnScript(kAddr, a, v, s), w, g, z, g) /\ Burnt(u, m, z)
      BY <2>3a DEF Burns
    <2>4. z \in BurntSet(u, m)
      BY <1>2, <2>3, DoesSound DEF BurntSet, Sound
    <2> QED BY <2>1, <2>3, <2>4 DEF a, v, m
  <1> QED BY <1>3, <1>4

\* A flash write burns every word at its place, in order.
LEMMA FlashLoopDoes ==
    ASSUME NEW E, NEW g, NEW u, Quiet(u), Legacy(u), NEW n, NEW kAddr, NEW A, NEW V, NEW K,
           Flashable(u, E, kAddr, A, V, K, n), NEW s \in Nat, u.need.word <= s,
           NEW v, Sound(v), Burnt(u, 0, v)
    PROVE  /\ \E w : Does(E, FlashLoop(kAddr, A, V, n, s), v, g, w, g) /\ Burnt(u, K[n], w)
           /\ IsSeq(FlashLoop(kAddr, A, V, n, s))
  <1> DEFINE B == [i \in 1 .. n |-> FlashItem(kAddr, A[i], V[i], s)]
             I == [i \in 1 .. n + 1 |-> BurntSet(u, K[i - 1])]
             G == [i \in 1 .. n + 1 |-> g]
  <1>1. n \in Nat /\ K[0] = 0
    BY DEF Flashable
  <1>2. Len(B) = n /\ Len(B) \in Nat
    BY <1>1 DEF B
  <1>3. ASSUME NEW i \in 1 .. n
        PROVE  /\ IsSeq(B[i])
               /\ \A y \in I[i] : \E z \in I[i + 1] : Does(E, B[i], y, G[i], z, G[i + 1])
    <2>1. B[i] = FlashItem(kAddr, A[i], V[i], s)
      OBVIOUS
    <2>2. IsSeq(FlashItem(kAddr, A[i], V[i], s))
      BY FlashSeq, SeqOne DEF FlashItem, IsSeq
    <2>3. I[i] = BurntSet(u, K[i - 1]) /\ I[i + 1] = BurntSet(u, K[i])
      <3>1. i + 1 - 1 = i /\ i \in 1 .. n + 1 /\ i + 1 \in 1 .. n + 1
        BY <1>1
      <3> QED BY <3>1
    <2>4. G[i] = g /\ G[i + 1] = g
      BY <1>1
    <2> HIDE DEF B, I, G
    <2>5. \A y \in BurntSet(u, K[i - 1]) :
             \E z \in BurntSet(u, K[i]) : Does(E, FlashItem(kAddr, A[i], V[i], s), y, g, z, g)
      BY FlashLoopNext
    <2> QED BY <2>1, <2>2, <2>3, <2>4, <2>5
  <1>4. I[1] = BurntSet(u, K[0]) /\ I[n + 1] = BurntSet(u, K[n])
    <2>1. (n + 1) - 1 = n /\ 1 - 1 = 0 /\ 1 \in 1 .. n + 1 /\ n + 1 \in 1 .. n + 1
      BY <1>1
    <2>2. I[1] = BurntSet(u, K[1 - 1]) /\ I[n + 1] = BurntSet(u, K[(n + 1) - 1])
      BY <2>1
    <2> QED BY <2>1, <2>2
  <1>5. G[1] = g /\ G[n + 1] = g
    BY <1>1
  <1>6. v \in I[1]
    BY <1>1, <1>4 DEF BurntSet, Sound
  <1>7. FlashLoop(kAddr, A, V, n, s) = Loop(B)
    BY DEF FlashLoop
  <1>7a. IsSeq(FlashLoop(kAddr, A, V, n, s))
    BY LoopSeq DEF FlashLoop
  <1> HIDE DEF B, I, G
  <1>8. LoopKeeps(E, B, I, G)
    BY <1>2, <1>3 DEF LoopKeeps
  <1>9. \E w \in I[Len(B) + 1] : Does(E, Loop(B), v, G[1], w, G[Len(B) + 1])
    BY <1>6, <1>8, LoopDoes
  <1>10. PICK w \in BurntSet(u, K[n]) : Does(E, Loop(B), v, g, w, g)
    BY <1>2, <1>4, <1>5, <1>9
  <1>11. Burnt(u, K[n], w)
    BY <1>10 DEF BurntSet
  <1> QED BY <1>7, <1>7a, <1>10, <1>11

\* A target whose flash is locked as it should be, with the memory mem after n changes.
Closed(b, mem, n) == F(b, Off, Nothing, On, b.has_locka, 0, Nothing, Unspent, mem, n)

\* The columns of a controller that is not busy.
LEMMA ClosedIn ==
    ASSUME NEW b \in Target, NEW mem \in [MemAddr -> Values16], NEW n \in Nat, NEW w \in BOOLEAN,
           NEW l \in BOOLEAN,
           NEW la \in BOOLEAN
    PROVE  InFlash(b, w, Nothing, l, la, 0, Nothing, Unspent, mem, n) /\ b.has_locka \in BOOLEAN
  <1>1. b.has_locka \in BOOLEAN
    BY DEF Target
  <1>2. Unspent \in [FlashCell -> Nat]
    BY DEF Unspent
  <1> QED BY <1>1, <1>2 DEF InFlash, Nothing

\* On and Off are the two Booleans.
LEMMA Switches ==
    On \in BOOLEAN /\ Off \in BOOLEAN
  BY DEF On, Off

\* The flash of a target between two operations is closed.
LEMMA ClosedIs ==
    ASSUME NEW p, NEW u, Resting(p, u)
    PROVE  u = Closed(u, u.mem, u.n)
  <1>1. u \in Target /\ Shut(u)
    BY DEF Resting, Sound
  <1>2. u.spent = Unspent
    <2>1. u.spent \in [FlashCell -> Nat] /\ \A a \in FlashCell : u.spent[a] = 0
      BY <1>1 DEF Target, Shut
    <2> DEFINE s == u.spent
    <2> HIDE DEF s
    <2>2. s = Unspent
      BY <2>1 DEF s, Unspent
    <2> QED BY <2>2 DEF s
  <1>3. /\ u.wrt = Off /\ u.erase = Nothing /\ u.lock = On /\ u.locka = u.has_locka /\ u.busy = 0
        /\ u.doomed = Nothing
    BY <1>1 DEF Shut, On, Off, Nothing, Target
  <1>4. u = F(u, u.wrt, u.erase, u.lock, u.locka, u.busy, u.doomed, u.spent, u.mem, u.n)
    BY <1>1 DEF F, Target
  <1> QED BY <1>2, <1>3, <1>4 DEF Closed

\* A target whose flash is closed again is between two operations.
LEMMA ClosedRests ==
    ASSUME NEW p, NEW u, Resting(p, u), NEW mem \in [MemAddr -> Values16], NEW n \in Nat,
           NEW c, c = Closed(u, mem, n)
    PROVE  Resting(p, c) /\ Steady(u, c) /\ Akin(u, c) /\ c.mem = mem /\ c.n = n
  <1>1. u \in Target /\ Sound(u)
    BY RestingIs
  <1>2. InFlash(u, Off, Nothing, On, u.has_locka, 0, Nothing, Unspent, mem, n)
    <2>1. u.has_locka \in BOOLEAN
      BY <1>1 DEF Target
    <2> QED BY <1>1, <2>1, ClosedIn, Switches
  <1>3. InFlash(u, Off, Nothing, On, u.has_locka, 0, Nothing, Unspent, u.mem, u.n)
    <2>1. u.mem \in [MemAddr -> Values16] /\ u.n \in Nat /\ u.has_locka \in BOOLEAN
      BY <1>1 DEF Target
    <2> QED BY <1>1, <2>1, ClosedIn, Switches
  <1>4. Sound(c)
    BY <1>1, <1>2, FSound DEF Closed
  <1>5. /\ c.wrt = Off /\ c.erase = Nothing /\ c.lock = On /\ c.locka = u.has_locka /\ c.busy = 0
        /\ c.doomed = Nothing /\ c.spent = Unspent /\ c.mem = mem /\ c.n = n
        /\ c.drv = u.drv /\ c.id = u.id /\ c.need = u.need /\ c.has_locka = u.has_locka
        /\ c.reg = u.reg /\ c.pcok = u.pcok /\ c.per = u.per
        /\ c.violated = u.violated /\ c.eem = u.eem /\ c.eemaddr = u.eemaddr
        /\ c.jmb = u.jmb /\ c.strobe_end = u.strobe_end
    BY <1>1, FFields DEF Closed
  <1>6. /\ u.wrt = Off /\ u.erase = Nothing /\ u.lock = On /\ u.locka = u.has_locka /\ u.busy = 0
        /\ u.doomed = Nothing /\ u.spent = Unspent
    <2>1. u = Closed(u, u.mem, u.n)
      BY ClosedIs
    <2> DEFINE v == Closed(u, u.mem, u.n)
    <2>2. v = F(u, Off, Nothing, On, u.has_locka, 0, Nothing, Unspent, u.mem, u.n)
      BY DEF Closed
    <2> HIDE DEF v
    <2>3. /\ v.wrt = Off /\ v.erase = Nothing /\ v.lock = On /\ v.locka = u.has_locka /\ v.busy = 0
          /\ v.doomed = Nothing /\ v.spent = Unspent
      BY <1>1, <2>2, FFields
    <2>4. v = u
      BY <2>1 DEF v
    <2> QED BY <2>3, <2>4
  <1>7. Akin(u, c)
    BY <1>5, <1>6 DEF Akin
  <1>8. Steady(u, c)
    BY <1>5 DEF Steady, Held
  <1>9. Resting(p, c)
    BY <1>4, <1>7, AkinRests
  <1> QED BY <1>5, <1>7, <1>8, <1>9

\* The words that unlock the flash of a target that has LOCKA or not, and that lock it again.
Unlock(h) == IF h THEN kFctl3UnlockA ELSE kFctl3Unlock
Relock(h) == Unlock(h) + LOCK

\* The words that unlock and lock, for a part with LOCKA and for one without.
LEMMA LockWordsIs ==
    ASSUME NEW h \in BOOLEAN
    PROVE  /\ Fctl3(Unlock(h), Off, h) /\ Fctl3(Relock(h), On, h)
           /\ Low(Unlock(h), Unlock(h)) /\ Low(Relock(h), Relock(h))
  <1>1. kFctl3UnlockA = \hA540 /\ kFctl3Unlock = \hA500 /\ LOCK = \h10
    BY DEF kFctl3UnlockA, kFctl3Unlock, LOCK
  <1>2. CASE h
    <2>1. Unlock(h) = \hA540 /\ Relock(h) = \hA550
      BY <1>1, <1>2 DEF Unlock, Relock
    <2>2. Low(\hA540, \hA540) /\ Low(\hA550, \hA550)
      BY DEF Low, Values16
    <2> DEFINE v == \hA540
               w == \hA550
    <2>3. /\ Bit(v, \h40) = 1 /\ Bit(w, \h40) = 1 /\ Bit(v, \h10) = 0 /\ Bit(w, \h10) = 1
          /\ v \div 256 = \hA5 /\ w \div 256 = \hA5
          /\ v \in Values16 /\ w \in Values16
      BY DEF Bit, Values16
    <2>5. Unlock(h) = v /\ Relock(h) = w
      BY <2>1
    <2> HIDE DEF v, w
    <2>6. h = (Bit(v, \h40) = 1) /\ h = (Bit(w, \h40) = 1)
      BY <1>2, <2>3
    <2>7. Off = (Bit(v, \h10) = 1) /\ On = (Bit(w, \h10) = 1)
      BY <2>3 DEF On, Off
    <2>4. Fctl3(v, Off, h) /\ Fctl3(w, On, h)
      BY <2>3, <2>6, <2>7, Switches DEF Fctl3
    <2>8. Low(Unlock(h), Unlock(h)) /\ Low(Relock(h), Relock(h))
      BY <2>1, <2>2
    <2> QED BY <2>4, <2>5, <2>8
  <1>3. CASE ~h
    <2>1. Unlock(h) = \hA500 /\ Relock(h) = \hA510
      BY <1>1, <1>3 DEF Unlock, Relock
    <2>2. Low(\hA500, \hA500) /\ Low(\hA510, \hA510)
      BY DEF Low, Values16
    <2>4. Fctl3(\hA500, Off, h) /\ Fctl3(\hA510, On, h)
      BY <1>3 DEF Fctl3, Bit, Values16, On, Off
    <2> QED BY <2>1, <2>2, <2>4
  <1> QED BY <1>2, <1>3

\* The words that every flash write uses.
LEMMA FlashWordsIs ==
    /\ Fctl1(kFctl1Wrt, On, Nothing) /\ Fctl1(kFctl1Lock, Off, Nothing) /\ Keyed(kFctl2MclkDiv0)
  <1>1. kFctl1Wrt = \hA540 /\ kFctl1Lock = \hA500 /\ kFctl2MclkDiv0 = \hA540
    BY DEF kFctl1Wrt, kFctl1Lock, kFctl2MclkDiv0
  <1>2. Fctl1(\hA540, On, Nothing) /\ Fctl1(\hA500, Off, Nothing) /\ Keyed(\hA540)
    BY DEF Fctl1, Bit, Values16, On, Off, Nothing, Keyed
  <1> QED BY <1>1, <1>2

\* The controller takes b to c in three writes.
Opens(E, b, d, c) ==
    \E c1, c2 : /\ Wrote(E, b, kFctl1Addr, kFctl1Wrt, c1) /\ Calm(c1)
                /\ Wrote(E, c1, kFctl2Addr, kFctl2MclkDiv0, c2) /\ Calm(c2)
                /\ Wrote(E, c2, kFctl3Addr, d, c) /\ Calm(c)

\* The three words open the flash, LOCKA with it.
LEMMA FlashOpens ==
    ASSUME NEW E, NEW b, Quiet(b), NEW mem \in [MemAddr -> Values16], NEW n \in Nat, NEW d,
           d = Unlock(b.has_locka)
    PROVE  Opens(E, Closed(b, mem, n), d, Opened(b, mem, n))
  <1> DEFINE h == b.has_locka
             c0 == F(b, Off, Nothing, On, h, 0, Nothing, Unspent, mem, n)
             c1 == F(b, On, Nothing, On, h, 0, Nothing, Unspent, mem, n)
             c2 == F(b, On, Nothing, Off, Off, 0, Nothing, Unspent, mem, n)
  <1>1. b \in Target /\ h \in BOOLEAN
    <2>1. b \in Target
      BY DEF Quiet, Sound
    <2> QED BY <2>1 DEF Target
  <1>2. /\ InFlash(b, Off, Nothing, On, h, 0, Nothing, Unspent, mem, n)
        /\ InFlash(b, On, Nothing, On, h, 0, Nothing, Unspent, mem, n)
        /\ InFlash(b, On, Nothing, Off, Off, 0, Nothing, Unspent, mem, n)
    BY <1>1, ClosedIn, Switches
  <1>3. Fctl1(kFctl1Wrt, On, Nothing) /\ Keyed(kFctl2MclkDiv0) /\ Fctl3(d, Off, h)
    BY <1>1, LockWordsIs, FlashWordsIs
  <1>4. /\ Off = (IF h /\ b.has_locka THEN ~h ELSE h)
        /\ Unspent = (IF Off THEN Unspent ELSE Unspent)
    BY <1>1 DEF Off
  <1>5. c0 = Closed(b, mem, n) /\ c2 = Opened(b, mem, n)
    BY DEF Closed, Opened
  <1> HIDE DEF h
  <1>6. Wrote(E, c0, kFctl1Addr, kFctl1Wrt, c1)
    BY <1>2, <1>3, WroteFctl1
  <1>7. Wrote(E, c1, kFctl2Addr, kFctl2MclkDiv0, c1)
    BY <1>2, <1>3, WroteFctl2
  <1>8. Wrote(E, c1, kFctl3Addr, d, c2)
    BY <1>2, <1>3, <1>4, WroteFctl3
  <1>9. Calm(c1) /\ Calm(c2)
    BY <1>2, FCalm
  <1> HIDE DEF c0, c1, c2
  <1> QED BY <1>5, <1>6, <1>7, <1>8, <1>9 DEF Opens

\* ... and back in two.
Closes(E, b, d, c) ==
    \E c1 : /\ Wrote(E, b, kFctl1Addr, kFctl1Lock, c1) /\ Calm(c1)
            /\ Wrote(E, c1, kFctl3Addr, d, c) /\ Calm(c)

\* The two words close it, LOCKA with it.
LEMMA FlashCloses ==
    ASSUME NEW E, NEW b, Quiet(b), NEW mem \in [MemAddr -> Values16], NEW n \in Nat, NEW d,
           d = Relock(b.has_locka)
    PROVE  Closes(E, Opened(b, mem, n), d, Closed(b, mem, n))
  <1> DEFINE h == b.has_locka
             c0 == F(b, On, Nothing, Off, Off, 0, Nothing, Unspent, mem, n)
             c1 == F(b, Off, Nothing, Off, Off, 0, Nothing, Unspent, mem, n)
             c2 == F(b, Off, Nothing, On, h, 0, Nothing, Unspent, mem, n)
  <1>1. b \in Target /\ h \in BOOLEAN
    <2>1. b \in Target
      BY DEF Quiet, Sound
    <2> QED BY <2>1 DEF Target
  <1>2. /\ InFlash(b, On, Nothing, Off, Off, 0, Nothing, Unspent, mem, n)
        /\ InFlash(b, Off, Nothing, Off, Off, 0, Nothing, Unspent, mem, n)
        /\ InFlash(b, Off, Nothing, On, h, 0, Nothing, Unspent, mem, n)
    BY <1>1, ClosedIn, Switches
  <1>3. Fctl1(kFctl1Lock, Off, Nothing) /\ Fctl3(d, On, h)
    BY <1>1, LockWordsIs, FlashWordsIs
  <1>4. /\ h = (IF h /\ b.has_locka THEN ~Off ELSE Off)
        /\ Unspent = (IF On THEN Unspent ELSE Unspent)
    BY <1>1 DEF Off
  <1>5. c2 = Closed(b, mem, n) /\ c0 = Opened(b, mem, n)
    BY DEF Closed, Opened
  <1> HIDE DEF h
  <1>6. Wrote(E, c0, kFctl1Addr, kFctl1Lock, c1)
    BY <1>2, <1>3, WroteFctl1
  <1>8. Wrote(E, c1, kFctl3Addr, d, c2)
    BY <1>2, <1>3, <1>4, WroteFctl3
  <1>9. Calm(c1) /\ Calm(c2)
    BY <1>2, FCalm
  <1> HIDE DEF c0, c1, c2
  <1> QED BY <1>5, <1>6, <1>8, <1>9 DEF Closes

\* The script of a block of flash of part p, and the strobes of a word.
BlockFlash(p, a, v) == IF p.drv = "std" THEN WriteFlash(a, v, p.prof) ELSE WriteFlash_X(a, v, p.prof)
WordStrobes(p) == IF p.prof.timed THEN p.prof.word_wr ELSE IF p.drv = "std" THEN 35 ELSE 30

\* The flash write, in its parts.
LEMMA BlockFlashIs ==
    ASSUME NEW p, NEW a, NEW v, Len(v) \in Nat
    PROVE  BlockFlash(p, a, v)
              = HaltCpu \o OpenScript(Unlock(p.prof.has_locka))
                  \o FlashLoop(AddrStep(p), Places(a, Len(v), 2), v, Len(v), WordStrobes(p))
                  \o CloseScript(Relock(p.prof.has_locka))
  <1> DEFINE n == Len(v)
             s == WordStrobes(p)
             x == AddrStep(p)
  <1>1. \A i \in 1 .. n : Places(a, n, 2)[i] = a + (i - 1) * 2
    BY DEF Places
  <1> DEFINE B == [i \in 1 .. n |-> IF v[i] = \hFFFF THEN <<>>
                                    ELSE Play(<<kDr16(\h2408), x, kIrDr16Argv(kdNone, IR_DATA_TO_ADDR, kdTclkP),
                                                kIrDr16(IR_CNTRL_SIG_16BIT, \h2409), kStrobeTclkArgv>>,
                                              <<a + (i - 1) * 2, v[i], s>>)]
  <1>2. B = [i \in 1 .. n |-> FlashItem(x, Places(a, n, 2)[i], v[i], s)]
    <2> HIDE DEF x, s, n
    <2> QED BY <1>1 DEF FlashItem, BurnScript
  <1>3. Loop(B) = FlashLoop(x, Places(a, n, 2), v, n, s)
    <2> HIDE DEF B, x, s, n
    <2>1. FlashLoop(x, Places(a, n, 2), v, n, s)
            = Loop([i \in 1 .. n |-> FlashItem(x, Places(a, n, 2)[i], v[i], s)])
      BY DEF FlashLoop
    <2> QED BY <1>2, <2>1
  <1> DEFINE d == IF p.drv = "std" THEN 35 ELSE 30
  <1>4. BlockFlash(p, a, v) = WriteFlashBy(x, d, a, v, p.prof)
    BY DEF BlockFlash, WriteFlash, WriteFlash_X, AddrStep
  <1>5. s = (IF p.prof.timed THEN p.prof.word_wr ELSE d)
    BY DEF WordStrobes
  <1> HIDE DEF x, d, s
  <1>6. WriteFlashBy(x, d, a, v, p.prof)
          = HaltCpu \o OpenScript(Unlock(p.prof.has_locka)) \o Loop(B) \o CloseScript(Relock(p.prof.has_locka))
    BY <1>5 DEF WriteFlashBy, OpenScript, CloseScript, Unlock, Relock, B
  <1> HIDE DEF B
  <1> QED BY <1>3, <1>4, <1>6 DEF x, s

\* From the flash opened L goes to k words of it.
Programming(E, g, u, L, k) ==
    \A v : Sound(v) /\ Burnt(u, 0, v) => \E w : Does(E, L, v, g, w, g) /\ Burnt(u, k, w)

\* A script that opens the flash, one that leaves it open, one that closes it.
LEMMA FlashDoes ==
    ASSUME NEW p, Legacy(p), NEW E, NEW g, NEW u, Ready(p, u), u.n = 0,
           NEW d, d = Unlock(u.has_locka), NEW e, e = Relock(u.has_locka),
           NEW L, IsSeq(L), NEW k \in Nat,
           Programming(E, g, u, L, k)
    PROVE  /\ \E w : Does(E, HaltCpu \o OpenScript(d) \o L \o CloseScript(e), u, g, w, g) /\ Ready(p, w) /\ w.n = k
           /\ IsSeq(HaltCpu \o OpenScript(d) \o L \o CloseScript(e))
  <1>1. Calm(u) /\ Quiet(u) /\ Legacy(u) /\ Sound(u) /\ u \in Target /\ Resting(p, u)
    BY ReadyLegacy, RestingIs DEF Ready
  <1>2. u.mem \in [MemAddr -> Values16] /\ u.has_locka \in BOOLEAN
    BY <1>1 DEF Target
  <1>3. Does(E, HaltCpu, u, g, Halt(u), g) /\ IsSeq(HaltCpu)
    BY HaltCall, MoreSeq
  <1> DEFINE m == u.mem
             b == Opened(u, m, u.n)
             o == OpenScript(d)
             f == CloseScript(e)
  <1>4. u = Closed(u, m, u.n)
    BY <1>1, ClosedIs
  <1>5. Opens(E, u, d, b)
    <2>1. Opens(E, Closed(u, m, u.n), d, Opened(u, m, u.n))
      <3>1. u.n \in Nat
        OBVIOUS
      <3> QED BY <1>1, <1>2, <3>1, FlashOpens
    <2>2. u = Closed(u, m, u.n)
      BY <1>4
    <2> DEFINE y == Closed(u, m, u.n)
               z == Opened(u, m, u.n)
    <2>3. Opens(E, y, d, z) /\ u = y /\ z = b
      BY <2>1, <2>2
    <2> HIDE DEF y, z, b
    <2> QED BY <2>3
  <1>6. PICK c1, c2 : /\ Wrote(E, u, kFctl1Addr, kFctl1Wrt, c1) /\ Calm(c1)
                      /\ Wrote(E, c1, kFctl2Addr, kFctl2MclkDiv0, c2) /\ Calm(c2)
                      /\ Wrote(E, c2, kFctl3Addr, d, b) /\ Calm(b)
    BY <1>5 DEF Opens
  <1>7. Low(d, d) /\ Low(e, e)
    BY <1>2, LockWordsIs
  <1> DEFINE dt == u.din
             q == Bus(u, \h2409, u.mab)
             y == P(b, IR_CNTRL_SIG_16BIT, \h2408, 0, kFctl3Addr, d, \h3FFF, q, Fetch)
  <1>8. Does(E, o, Halt(u), g, y, g)
    <2> HIDE DEF b, q
    <2> QED BY <1>1, <1>6, <1>7, OpenDoes DEF Halt, q
  <1>9. Does(E, HaltCpu \o o, u, g, y, g) /\ IsSeq(HaltCpu \o o) /\ Sound(y) /\ IsSeq(f)
    <2>1. IsSeq(o) /\ IsSeq(f)
      BY FlashSeq
    <2> HIDE DEF o, y, f
    <2>2. Does(E, HaltCpu \o o, u, g, y, g) /\ IsSeq(HaltCpu \o o)
      BY <1>3, <1>8, <2>1, DoesBoth
    <2>3. Sound(y)
      BY <1>1, <2>2, DoesSound
    <2> QED BY <2>1, <2>2, <2>3
  <1>10. Burnt(u, 0, y)
    <2>1. Chosen(b, \h2408, y)
      <3> HIDE DEF b, q
      <3>1. 0 \in Levels
        BY DEF Levels
      <3> QED BY <3>1 DEF Chosen
    <2> HIDE DEF y, m
    <2>2. Chosen(Opened(u, m, u.n), \h2408, y)
      BY <2>1
    <2>3. m \in [MemAddr -> Values16]
      BY <1>2 DEF m
    <2>4. Burnt(u, u.n, y)
      BY <2>2, <2>3 DEF Burnt
    <2> QED BY <2>4
  <1> HIDE DEF b, o, f, q, y, m
  <1>11. PICK w1 : Does(E, L, y, g, w1, g) /\ Burnt(u, k, w1)
    BY <1>9, <1>10 DEF Programming
  <1>11a. PICK mem \in [MemAddr -> Values16] : \E cntrl : Chosen(Opened(u, mem, k), cntrl, w1)
    BY <1>11 DEF Burnt
  <1>12. PICK cntrl : Chosen(Opened(u, mem, k), cntrl, w1)
    BY <1>11a
  <1>13. PICK tclk \in Levels : \E mab, dto, din, mdb :
           w1 = P(Opened(u, mem, k), IR_CNTRL_SIG_16BIT, cntrl, tclk, mab, dto, din, mdb, Fetch)
    BY <1>12 DEF Chosen
  <1>13a. tclk \in Levels
    BY <1>13
  <1>14. PICK mab, dto, din, mdb :
           w1 = P(Opened(u, mem, k), IR_CNTRL_SIG_16BIT, cntrl, tclk, mab, dto, din, mdb, Fetch)
    BY <1>13
  <1> DEFINE b2 == Opened(u, mem, k)
             c == Closed(u, mem, k)
  <1>15. Closes(E, b2, e, c)
    BY <1>1, <1>12, FlashCloses
  <1>16. PICK c3 : /\ Wrote(E, b2, kFctl1Addr, kFctl1Lock, c3) /\ Calm(c3)
                   /\ Wrote(E, c3, kFctl3Addr, e, c) /\ Calm(c)
    BY <1>15 DEF Closes
  <1>17. Calm(b2) /\ Legacy(b2)
    BY <1>1, <1>12, OpenedIs
  <1>18. Resting(p, c) /\ c.n = k
    BY <1>1, <1>12, ClosedRests
  <1> HIDE DEF b2, c
  <1> DEFINE w == P(c, IR_ADDR_CAPTURE, \h2401, 1, kFctl3Addr, e, din, mdb, Fetch)
  <1>19. Does(E, f, P(b2, IR_CNTRL_SIG_16BIT, cntrl, tclk, mab, dto, din, mdb, Fetch), g, w, g)
    BY <1>7, <1>13a, <1>16, <1>17, CloseDoes DEF f
  <1>20. Does(E, f, w1, g, w, g)
    <2>1. w1 = P(b2, IR_CNTRL_SIG_16BIT, cntrl, tclk, mab, dto, din, mdb, Fetch)
      BY <1>14 DEF b2
    <2> HIDE DEF w
    <2> QED BY <1>19, <2>1
  <1>21. w = P(c, IR_ADDR_CAPTURE, \h2401, 1, kFctl3Addr, e, din, mdb, Fetch)
    OBVIOUS
  <1> HIDE DEF w
  <1>22. Does(E, HaltCpu \o o \o L, u, g, w1, g) /\ IsSeq(HaltCpu \o o \o L)
    BY <1>9, <1>11, DoesBoth
  <1>23. Does(E, HaltCpu \o o \o L \o f, u, g, w, g) /\ IsSeq(HaltCpu \o o \o L \o f)
    BY <1>9, <1>20, <1>22, DoesBoth
  <1>24. LetGo(p, c, w)
    BY <1>1, <1>18, <1>21, <1>23, LetGoAfter
  <1>25. Ready(p, w) /\ w.n = k
    BY <1>18, <1>24 DEF LetGo, Behind
  <1> QED BY <1>23, <1>25 DEF o, f

\* The words v can be programmed from a on, in k changes.
FlashPlan(p, u, E, a, v, k) ==
    /\ p.prof.has_locka = p.has_locka /\ WordStrobes(p) \in Nat /\ p.need.word <= WordStrobes(p)
    /\ k \in Nat
    /\ \E K : k = K[Len(v)] /\ Flashable(u, E, AddrStep(p), Places(a, Len(v), 2), v, K, Len(v))


\* WriteFlash of the older drivers burns what was asked for, in order, and leaves
\* the flash closed.
LEMMA BlockFlashCall ==
    ASSUME NEW p, Legacy(p), NEW E, NEW g, NEW u, Ready(p, u), u.n = 0,
           NEW a, NEW v, NEW k, FlashPlan(p, u, E, a, v, k)
    PROVE  Finishes(p, E, BlockFlash(p, a, v), u, g, k)
  <1>0. /\ p.prof.has_locka = p.has_locka /\ WordStrobes(p) \in Nat /\ p.need.word <= WordStrobes(p)
        /\ k \in Nat
    BY DEF FlashPlan
  <1>0a. PICK K : k = K[Len(v)] /\ Flashable(u, E, AddrStep(p), Places(a, Len(v), 2), v, K, Len(v))
    BY DEF FlashPlan
  <1> DEFINE n == Len(v)
             A == Places(a, n, 2)
             s == WordStrobes(p)
             L == FlashLoop(AddrStep(p), A, v, n, s)
             d == Unlock(p.prof.has_locka)
             e == Relock(p.prof.has_locka)
  <1>1. n \in Nat /\ k \in Nat
    BY <1>0, <1>0a DEF Flashable
  <1>2. BlockFlash(p, a, v) = HaltCpu \o OpenScript(d) \o L \o CloseScript(e)
    BY <1>1, BlockFlashIs
  <1>3. Resting(p, u) /\ Quiet(u) /\ Legacy(u) /\ Sound(u) /\ Calm(u)
    BY ReadyLegacy, RestingIs DEF Ready
  <1>4. d = Unlock(u.has_locka) /\ e = Relock(u.has_locka) /\ u.need = p.need
    BY <1>0, <1>3 DEF Resting, Belongs
  <1>5. s \in Nat /\ u.need.word <= s
    BY <1>0, <1>4
  <1>6. Flashable(u, E, AddrStep(p), A, v, K, n) /\ k = K[n]
    BY <1>0a
  <1>7. IsSeq(L)
    BY LoopSeq DEF FlashLoop
  <1> HIDE DEF n, A, s, d, e
  <1>8. ASSUME NEW y, Sound(y), Burnt(u, 0, y)
        PROVE  \E w : Does(E, L, y, g, w, g) /\ Burnt(u, k, w)
    BY <1>3, <1>5, <1>6, <1>8, FlashLoopDoes
  <1> HIDE DEF L
  <1>8a. Programming(E, g, u, L, k)
    BY <1>8 DEF Programming
  <1>9. /\ \E w : Does(E, HaltCpu \o OpenScript(d) \o L \o CloseScript(e), u, g, w, g) /\ Ready(p, w) /\ w.n = k
        /\ IsSeq(HaltCpu \o OpenScript(d) \o L \o CloseScript(e))
    BY <1>1, <1>4, <1>7, <1>8a, FlashDoes
  <1> QED BY <1>2, <1>9 DEF Finishes

-----------------------------------------------------------------------------
(* Flash is erased.                                                        *)

\* What an erase writes where it starts, and to the second register.
Dummy == \h55AA

\* One erase: three registers, a dummy write that starts it, and the strobes.
LEMMA EraseOnceDoes ==
    ASSUME NEW E, NEW g, NEW b, Calm(b), Legacy(b), NEW ir, NEW cntrl, NEW mab, NEW dto, NEW din,
           NEW mdb,
           ir # IR_DATA_QUICK, NEW kAddr, NEW a \in RegValues(b), Addressing(kAddr, a), NEW n,
           NEW f1, NEW d1, Low(f1, d1), NEW f3, NEW d3, Low(f3, d3),
           NEW c1, Wrote(E, b, kFctl1Addr, d1, c1), Calm(c1),
           NEW c2, Wrote(E, c1, kFctl2Addr, kFctl2MclkDiv0, c2), Calm(c2),
           NEW c3, Wrote(E, c2, kFctl3Addr, d3, c3), Calm(c3), NEW c4, Wrote(E, c3, a, Dummy, c4),
           NEW e \in Levels, NEW c5, Strobed(E, c4, n, c5, e),
           NEW c6, Wrote(E, c5, kFctl1Addr, kFctl1Lock, c6), Calm(c6)
    PROVE  Does(E, EraseOnce(kAddr, a, f1, f3, n), P(b, ir, cntrl, 1, mab, dto, din, mdb, Fetch), g,
                P(c6, IR_DATA_TO_ADDR, \h2408, 1, kFctl1Addr, kFctl1Lock, din, mdb, Fetch), g)
  <1>1. CASE e = 0
    <2>1. Strobed(E, c4, n, c5, 0)
      BY <1>1
    <2> QED BY <2>1, EraseRowsLow DEF kFctl1Addr, kFctl2Addr, kFctl3Addr, kFctl1Lock, kFctl2MclkDiv0, Dummy
  <1>2. CASE e = 1
    <2>1. Strobed(E, c4, n, c5, 1)
      BY <1>2
    <2> QED BY <2>1, EraseRowsHigh DEF kFctl1Addr, kFctl2Addr, kFctl3Addr, kFctl1Lock, kFctl2MclkDiv0, Dummy
  <1> QED BY <1>1, <1>2 DEF Levels

\* The script that locks the flash again after an erase.
EraseClose(f) ==
    Play(<<kTclk0, kIrDr16(IR_ADDR_16BIT, kFctl3Addr), kIrDr16Argv(kdNone, IR_DATA_TO_ADDR, kdTclk1)>>, <<f>>)

\* The script that ends an erase locks the flash.
LEMMA EraseCloseDoes ==
    ASSUME NEW E, NEW g, NEW b, Calm(b), Legacy(b), NEW mab, NEW dto, NEW din, NEW mdb,
           NEW f, NEW d, Low(f, d), NEW c, Wrote(E, b, kFctl3Addr, d, c), Calm(c)
    PROVE  Does(E, EraseClose(f), P(b, IR_DATA_TO_ADDR, \h2408, 1, mab, dto, din, mdb, Fetch), g,
                P(c, IR_DATA_TO_ADDR, \h2408, 1, kFctl3Addr, d, din, mdb, Fetch), g)
  BY EraseCloseRows DEF EraseClose, kFctl3Addr

\* What an erase from a dooms, and for how many pulses the controller is busy.
DoomedBy(bits, a, la) == Doomed(bits, a) \ (IF la THEN InfoAAddr ELSE {})
BusyFor(b, bits) == IF bits = {2} THEN b.need.seg ELSE b.need.mass
\* The pulses a cell needs.
Full(b, bits) == IF bits = {2} THEN b.need.seg ELSE b.need.mass * b.need.rep

\* What an erase dooms is flash.
LEMMA DoomedIn ==
    ASSUME NEW bits, NEW a, NEW la
    PROVE  DoomedBy(bits, a, la) \in SUBSET FlashCell
  BY DEF DoomedBy, Doomed, FlashCell

\* How long an erase takes is a positive number.
LEMMA NeedsIn ==
    ASSUME NEW b \in Target, NEW bits
    PROVE  BusyFor(b, bits) \in Nat \ {0} /\ Full(b, bits) \in Nat \ {0}
  <1>1. b.need.seg \in Nat \ {0} /\ b.need.mass \in Nat \ {0} /\ b.need.rep \in Nat \ {0}
    BY DEF Target, Needs
  <1> DEFINE m == b.need.mass
             r == b.need.rep
  <1>2. m * r \in Nat \ {0}
    <2> HIDE DEF m, r
    <2>1. m \in Nat \ {0} /\ r \in Nat \ {0}
      BY <1>1 DEF m, r
    <2>2. m * r \in Nat
      BY <2>1
    <2>3. m * r >= m
      BY <2>1
    <2> QED BY <2>1, <2>2, <2>3
  <1> QED BY <1>1, <1>2 DEF BusyFor, Full

\* A write to flash begins the erase that is chosen.
LEMMA EraseStarts ==
    ASSUME NEW E, NEW b, Quiet(b), Legacy(b), NEW bits \in SUBSET {2, 4, 8}, bits # {},
           NEW la \in BOOLEAN,
           NEW spent \in [FlashCell -> Nat], NEW mem \in [MemAddr -> Values16], NEW n \in Nat,
           NEW a \in FlashCell,
           NEW v, NEW busy, busy = BusyFor(b, bits), NEW dm, dm = DoomedBy(bits, a, la)
    PROVE  /\ Wrote(E, F(b, Off, bits, Off, la, 0, Nothing, spent, mem, n), a, v,
                    F(b, Off, bits, Off, la, busy, dm, spent, mem, n))
           /\ InFlash(b, Off, bits, Off, la, busy, dm, spent, mem, n)
           /\ InFlash(b, Off, bits, Off, la, 0, Nothing, spent, mem, n)
  <1> DEFINE u == F(b, Off, bits, Off, la, 0, Nothing, spent, mem, n)
             c == F(b, Off, bits, Off, la, busy, dm, spent, mem, n)
  <1>1. b \in Target /\ Sound(b)
    BY DEF Quiet, Sound
  <1>2. a \in MemAddr /\ a - (a % 2) = a
    BY MemSplit
  <1>3. busy \in Nat /\ dm \in SUBSET FlashCell
    BY <1>1, NeedsIn, DoomedIn
  <1>4. /\ InFlash(b, Off, bits, Off, la, 0, Nothing, spent, mem, n)
        /\ InFlash(b, Off, bits, Off, la, busy, dm, spent, mem, n)
    BY <1>1, <1>3, Switches DEF InFlash, Nothing
  <1>5. u.lock = Off /\ u.busy = 0 /\ u.wrt = Off /\ u.erase = bits /\ u.locka = la /\ u.need = b.need
    BY <1>1, FFields
  <1>6. WriteFlashCell(u, a, v) = [u EXCEPT !.busy = busy, !.doomed = dm]
    <2> HIDE DEF u
    <2>1. ~u.lock /\ u.busy = 0 /\ u.erase # {}
      BY <1>5 DEF Off
    <2>2. busy = (IF u.erase = {2} THEN u.need.seg ELSE u.need.mass)
      BY <1>5 DEF BusyFor
    <2>3. dm = Doomed(u.erase, a) \ (IF u.locka THEN InfoAAddr ELSE {})
      BY <1>5 DEF DoomedBy
    <2>4. WriteFlashCell(u, a, v)
            = [u EXCEPT !.busy   = IF u.erase = {2} THEN u.need.seg ELSE u.need.mass,
                        !.doomed = Doomed(u.erase, a) \ (IF u.locka THEN InfoAAddr ELSE {})]
      BY <2>1 DEF WriteFlashCell
    <2> QED BY <2>2, <2>3, <2>4
  <1>7. [u EXCEPT !.busy = busy, !.doomed = dm] = c
    BY DEF F
  <1>8. Moved(u, c, E) /\ Quiet(u) /\ Quiet(c) /\ (Legacy(c) <=> Legacy(u))
    BY <1>4, FMoved, Unchanged
  <1>9. Calm(u)
    BY <1>4, FCalm
  <1>10. BusWrite(u, a - (a % 2), v) = WriteFlashCell(u, a, v)
    <2>1. Legacy(u)
      BY <1>1, <1>4, FSound
    <2> HIDE DEF u
    <2>2. a # WdtAddr(u) /\ a \notin RamAddr /\ a \notin FctlAddr
      BY Apart
    <2>3. BusWrite(u, a, v) = WriteFlashCell(u, a, v)
      BY <2>1, <2>2 DEF BusWrite
    <2> QED BY <1>2, <2>3
  <1> HIDE DEF u, c
  <1>11. Wrote(E, u, a, v, c)
    BY <1>6, <1>7, <1>8, <1>9, <1>10 DEF Wrote
  <1> QED BY <1>4, <1>11 DEF u, c

\* What k pulses more do to the cells dm.
Wears(dm, full, k, spent, mem, n, spent2, mem2, n2) ==
    /\ spent2 = [x \in FlashCell |-> IF x \in dm THEN spent[x] + k ELSE spent[x]]
    /\ mem2 = [x \in MemAddr |-> IF x \in dm /\ spent2[x] >= full THEN \hFFFF ELSE mem[x]]
    /\ n2 = IF \E x \in dm : spent2[x] >= full /\ spent[x] < full THEN n + 1 ELSE n

\* A dummy write starts the erase and its strobes end it; the cells have worn on.
LEMMA EraseGoes ==
    ASSUME NEW E, NEW b, Quiet(b), Legacy(b), NEW bits \in SUBSET {2, 4, 8}, NEW la \in BOOLEAN,
           NEW spent \in [FlashCell -> Nat], NEW mem \in [MemAddr -> Values16], NEW n \in Nat,
           NEW busy \in Nat \ {0}, NEW dm \in SUBSET FlashCell, NEW k \in Nat, busy <= k,
           NEW spent2 \in [FlashCell -> Nat], NEW mem2 \in [MemAddr -> Values16], NEW n2 \in Nat,
           Wears(dm, Full(b, bits), k, spent, mem, n, spent2, mem2, n2), Changed(E, mem, n, mem2, n2),
           NEW e, e = b.strobe_end
    PROVE  /\ Strobed(E, F(b, Off, bits, Off, la, busy, dm, spent, mem, n), k,
                      F(b, Off, bits, Off, la, 0, Nothing, spent2, mem2, n2), e)
           /\ InFlash(b, Off, bits, Off, la, 0, Nothing, spent2, mem2, n2)
  <1> DEFINE u == F(b, Off, bits, Off, la, busy, dm, spent, mem, n)
             c == F(b, Off, bits, Off, la, 0, Nothing, spent2, mem2, n2)
  <1>1. b \in Target /\ Sound(b)
    BY DEF Quiet, Sound
  <1>2. /\ InFlash(b, Off, bits, Off, la, busy, dm, spent, mem, n)
        /\ InFlash(b, Off, bits, Off, la, 0, Nothing, spent2, mem2, n2)
    BY <1>1, Switches DEF InFlash, Nothing
  <1>3. /\ u.busy = busy /\ u.doomed = dm /\ u.spent = spent /\ u.mem = mem /\ u.n = n
        /\ u.erase = bits /\ u.strobe_end = b.strobe_end /\ u.need = b.need
    BY <1>1, FFields
  <1>4. FlashClock(u, k) = [u EXCEPT !.busy = 0, !.spent = spent2, !.doomed = Nothing, !.n = n2, !.mem = mem2]
    <2> HIDE DEF u
    <2> DEFINE sp   == [x \in DOMAIN u.spent |-> IF x \in u.doomed THEN u.spent[x] + k ELSE u.spent[x]]
               full == IF u.erase = {2} THEN u.need.seg ELSE u.need.mass * u.need.rep
               gone == {x \in u.doomed : sp[x] >= full}
               bs   == IF k >= u.busy THEN 0 ELSE u.busy - k
               d2   == IF k >= u.busy THEN {} ELSE u.doomed
               nn   == IF \E x \in gone : u.spent[x] < full THEN u.n + 1 ELSE u.n
               mm   == [x \in DOMAIN u.mem |-> IF x \in gone THEN \hFFFF ELSE u.mem[x]]
    <2>1. FlashClock(u, k) = [u EXCEPT !.busy = bs, !.spent = sp, !.doomed = d2, !.n = nn, !.mem = mm]
      BY <1>1, <1>3 DEF FlashClock
    <2>2. sp = spent2
      BY <1>3 DEF Wears
    <2>3. full = Full(b, bits)
      BY <1>3 DEF Full
    <2>3a. gone = {x \in dm : spent2[x] >= Full(b, bits)}
      <3> HIDE DEF sp, full
      <3> QED BY <1>3, <2>2, <2>3
    <2>3b. DOMAIN u.mem = MemAddr
      BY <1>3
    <2> HIDE DEF full, gone, sp
    <2>4. mm = mem2 /\ nn = n2
      BY <1>3, <2>3, <2>3a, <2>3b DEF Wears
    <2>5. bs = 0 /\ d2 = Nothing
      BY <1>1, <1>3 DEF Nothing
    <2> HIDE DEF bs, d2, mm, nn
    <2> QED BY <2>1, <2>2, <2>4, <2>5
  <1>5. [u EXCEPT !.busy = 0, !.spent = spent2, !.doomed = Nothing, !.n = n2, !.mem = mem2] = c
    BY DEF F
  <1>6. Moved(u, c, E) /\ Quiet(u) /\ (Legacy(c) <=> Legacy(u))
    BY <1>2, FMoved
  <1>7. Calm(c)
    BY <1>2, FCalm
  <1>8. c.strobe_end = e /\ e \in {0, 1}
    <2>1. c.strobe_end = b.strobe_end
      BY <1>1, FFields
    <2> QED BY <1>1, <2>1 DEF Target
  <1> HIDE DEF u, c
  <1>9. Strobed(E, u, k, c, e)
    BY <1>3, <1>4, <1>5, <1>6, <1>7, <1>8 DEF Strobed
  <1> QED BY <1>2, <1>9 DEF u, c

\* Cells that have had z pulses of an erase, the memory then, and the changes made.
Spent(cells, z) == [x \in FlashCell |-> IF x \in cells THEN z ELSE 0]
Wiped(mem, cells, full, z) == [x \in MemAddr |-> IF x \in cells /\ z >= full THEN \hFFFF ELSE mem[x]]
Count(full, z) == IF z >= full THEN 1 ELSE 0
\* The first change of E is that the cells are erased.
Erases(E, cells) == 1 <= Len(E) /\ E[1].k = "erase" /\ E[1].at = cells

\* An erased word is a word.
LEMMA ErasedWord == \hFFFF \in Values16
  BY DEF Values16

\* What an erase has made of memory after some strobes.
LEMMA GoesIn ==
    ASSUME NEW cells, NEW full \in Nat, NEW z \in Nat, NEW mem \in [MemAddr -> Values16]
    PROVE  /\ Spent(cells, z) \in [FlashCell -> Nat]
           /\ Wiped(mem, cells, full, z) \in [MemAddr -> Values16]
           /\ Count(full, z) \in Nat
  <1>1. \hFFFF \in Values16
    BY ErasedWord
  <1>2. Spent(cells, z) \in [FlashCell -> Nat]
    BY DEF Spent
  <1>3. Wiped(mem, cells, full, z) \in [MemAddr -> Values16]
    BY <1>1 DEF Wiped
  <1> QED BY <1>2, <1>3 DEF Count

\* Strobes of one run and of the next add up.
LEMMA WearsOn ==
    ASSUME NEW cells \in SUBSET FlashCell, cells # {}, NEW full \in Nat \ {0}, NEW k \in Nat,
           NEW z \in Nat,
           NEW mem \in [MemAddr -> Values16], NEW z2, z2 = z + k
    PROVE  Wears(cells, full, k, Spent(cells, z), Wiped(mem, cells, full, z), Count(full, z),
                Spent(cells, z2), Wiped(mem, cells, full, z2), Count(full, z2))
  <1> DEFINE s == Spent(cells, z)
             s2 == Spent(cells, z2)
             m == Wiped(mem, cells, full, z)
             m2 == Wiped(mem, cells, full, z2)
  <1>1. \A x \in FlashCell : /\ s[x] = IF x \in cells THEN z ELSE 0
                             /\ s2[x] = IF x \in cells THEN z2 ELSE 0
    BY DEF Spent
  <1>2. s2 = [x \in FlashCell |-> IF x \in cells THEN s[x] + k ELSE s[x]]
    BY DEF Spent
  <1>3. FlashCell \subseteq MemAddr
    BY MemSplit
  <1>4. m2 = [x \in MemAddr |-> IF x \in cells /\ s2[x] >= full THEN \hFFFF ELSE m[x]]
    <2> DEFINE r == [x \in MemAddr |-> IF x \in cells /\ s2[x] >= full THEN \hFFFF ELSE m[x]]
    <2>1. ASSUME NEW x \in MemAddr PROVE m2[x] = r[x]
      <3>1. CASE x \in cells
        <4>1. s2[x] = z2 /\ x \in FlashCell
          BY <1>1, <3>1
        <4>2. z >= full => z2 >= full
          OBVIOUS
        <4>3. r[x] = IF z2 >= full THEN \hFFFF ELSE m[x]
          <5> HIDE DEF s2, m
          <5> QED BY <3>1, <4>1
        <4>4. m[x] = IF z >= full THEN \hFFFF ELSE mem[x]
          BY <3>1 DEF Wiped
        <4>5. m2[x] = IF z2 >= full THEN \hFFFF ELSE mem[x]
          BY <3>1 DEF Wiped
        <4> HIDE DEF r, m, m2
        <4> QED BY <4>2, <4>3, <4>4, <4>5
      <3>2. CASE x \notin cells
        <4>1. r[x] = m[x]
          <5> HIDE DEF s2, m
          <5> QED BY <3>2
        <4>2. m[x] = mem[x] /\ m2[x] = mem[x]
          BY <3>2 DEF Wiped
        <4> HIDE DEF r, m, m2
        <4> QED BY <4>1, <4>2
      <3> QED BY <3>1, <3>2
    <2>2. m2 = [x \in MemAddr |-> m2[x]]
      BY DEF Wiped
    <2> HIDE DEF m2, m, s2
    <2> QED BY <2>1, <2>2
  <1>5. Count(full, z2) = IF \E x \in cells : s2[x] >= full /\ s[x] < full THEN Count(full, z) + 1 ELSE Count(full, z)
    <2>1. \A x \in cells : s2[x] = z2 /\ s[x] = z
      BY <1>1
    <2> HIDE DEF s, s2
    <2>2. (\E x \in cells : s2[x] >= full /\ s[x] < full) <=> (z2 >= full /\ z < full)
      BY <2>1
    <2> QED BY <2>2 DEF Count
  <1> HIDE DEF s, s2, m, m2
  <1>6. Wears(cells, full, k, s, m, Count(full, z), s2, m2, Count(full, z2))
    <2> DEFINE n == Count(full, z)
               n2 == Count(full, z2)
    <2>1. n2 = IF \E x \in cells : s2[x] >= full /\ s[x] < full THEN n + 1 ELSE n
      BY <1>5
    <2> HIDE DEF n, n2
    <2>2. Wears(cells, full, k, s, m, n, s2, m2, n2)
      BY <1>2, <1>4, <2>1 DEF Wears
    <2> QED BY <2>2 DEF n, n2
  <1> QED BY <1>6 DEF s, s2, m, m2

\* An erase that has gone on has had at most the one effect that was asked for.
LEMMA GoesFits ==
    ASSUME NEW cells \in SUBSET FlashCell, NEW full \in Nat \ {0}, NEW k \in Nat, NEW z \in Nat,
           NEW mem \in [MemAddr -> Values16], NEW z2, z2 = z + k, NEW E, Erases(E, cells)
    PROVE  Changed(E, Wiped(mem, cells, full, z), Count(full, z), Wiped(mem, cells, full, z2), Count(full, z2))
  <1> DEFINE m == Wiped(mem, cells, full, z)
             m2 == Wiped(mem, cells, full, z2)
             n == Count(full, z)
             n2 == Count(full, z2)
  <1>1. CASE z >= full \/ z2 < full
    <2>1. (z >= full) <=> (z2 >= full)
      BY <1>1
    <2>2. m = m2 /\ n = n2
      BY <2>1 DEF Wiped, Count
    <2> HIDE DEF m, m2, n, n2
    <2>3. Changed(E, m, n, m2, n2)
      BY <2>2 DEF Changed
    <2> QED BY <2>3 DEF m, m2, n, n2
  <1>2. CASE z < full /\ z2 >= full
    <2>1. n = 0 /\ n2 = 1
      BY <1>2 DEF Count
    <2>2. m2 = [a \in DOMAIN m |-> IF a \in cells THEN \hFFFF ELSE m[a]]
      BY <1>2 DEF Wiped
    <2>3. E[n2].k = "erase" /\ E[n2].at = cells /\ n2 <= Len(E) /\ n2 = n + 1
      BY <2>1 DEF Erases
    <2> HIDE DEF m, m2, n, n2
    <2>4. m2 = [a \in DOMAIN m |-> IF a \in E[n2].at THEN \hFFFF ELSE m[a]]
      BY <2>2, <2>3
    <2>5. Changed(E, m, n, m2, n2)
      BY <2>3, <2>4 DEF Changed
    <2> QED BY <2>5 DEF m, m2, n, n2
  <1> QED BY <1>1, <1>2

\* The words f1 and f3 erase the cells from a on, with k pulses a time; LOCKA is
\* turned from h to la.
Erasable(u, a, f1, f3, h, la, cells, full, k) ==
    /\ la \in BOOLEAN /\ h \in BOOLEAN /\ k \in Nat /\ cells # {} /\ a \in FlashCell /\ a \in RegValues(u)
    /\ \E bits \in SUBSET {2, 4, 8}, x \in BOOLEAN :
          /\ Fctl1(f1, Off, bits) /\ bits # {} /\ Fctl3(f3, Off, x)
          /\ la = (IF x /\ u.has_locka THEN ~h ELSE h)
          /\ cells = DoomedBy(bits, a, la)
          /\ full = Full(u, bits) /\ BusyFor(u, bits) <= k

\* A target whose cells have had z pulses.
Eroded(u, l, h, cells, full, z) ==
    F(u, Off, Nothing, l, h, 0, Nothing, Spent(cells, z), Wiped(u.mem, cells, full, z), Count(full, z))

Switch(l) == l \in BOOLEAN

\* One run of an erase, from the strobes before it to those after it.
LEMMA EraseRunDoes ==
    ASSUME NEW E, NEW g, NEW u, Quiet(u), Legacy(u), NEW kAddr, NEW a, Addressing(kAddr, a),
           NEW f1, NEW f3, NEW h, NEW la, NEW cells, NEW full, NEW k,
           Erasable(u, a, f1, f3, h, la, cells, full, k), Erases(E, cells),
           NEW l, Switch(l), NEW z \in Nat, NEW z2, z2 = z + k,
           NEW ir, ir # IR_DATA_QUICK, NEW cntrl, NEW mab, NEW dto, NEW din, NEW mdb
    PROVE  Does(E, EraseOnce(kAddr, a, f1, f3, k),
                P(Eroded(u, l, h, cells, full, z), ir, cntrl, 1, mab, dto, din, mdb, Fetch), g,
                P(Eroded(u, Off, la, cells, full, z2), IR_DATA_TO_ADDR, \h2408, 1, kFctl1Addr, kFctl1Lock, din, mdb, Fetch), g)
  <1>1. PICK bits \in SUBSET {2, 4, 8}, x \in BOOLEAN :
          /\ Fctl1(f1, Off, bits) /\ bits # {} /\ Fctl3(f3, Off, x)
          /\ la = (IF x /\ u.has_locka THEN ~h ELSE h)
          /\ cells = DoomedBy(bits, a, la)
          /\ full = Full(u, bits) /\ BusyFor(u, bits) <= k
    BY DEF Erasable
  <1>2. /\ la \in BOOLEAN /\ h \in BOOLEAN /\ k \in Nat /\ cells # {} /\ a \in FlashCell /\ a \in RegValues(u)
    BY DEF Erasable
  <1>3. u \in Target /\ Sound(u)
    BY DEF Quiet, Sound
  <1> DEFINE mem == u.mem
             busy == BusyFor(u, bits)
             s == Spent(cells, z)
             s2 == Spent(cells, z2)
             m == Wiped(mem, cells, full, z)
             m2 == Wiped(mem, cells, full, z2)
             n == Count(full, z)
             n2 == Count(full, z2)
             e == u.strobe_end
  <1>4. /\ mem \in [MemAddr -> Values16] /\ busy \in Nat \ {0} /\ full \in Nat \ {0} /\ cells \in SUBSET FlashCell
        /\ z2 \in Nat /\ e \in Levels
    <2>1. mem \in [MemAddr -> Values16] /\ e \in Levels
      BY <1>3 DEF Target, Levels
    <2>2. BusyFor(u, bits) \in Nat \ {0} /\ Full(u, bits) \in Nat \ {0}
      BY <1>3, NeedsIn
    <2>3. DoomedBy(bits, a, la) \in SUBSET FlashCell
      BY DoomedIn
    <2>4. z2 \in Nat
      BY <1>2
    <2> QED BY <1>1, <2>1, <2>2, <2>3, <2>4
  <1>5. /\ s \in [FlashCell -> Nat] /\ s2 \in [FlashCell -> Nat] /\ m \in [MemAddr -> Values16]
        /\ m2 \in [MemAddr -> Values16] /\ n \in Nat /\ n2 \in Nat
    BY <1>4, GoesIn
  <1>6. Wears(cells, full, k, s, m, n, s2, m2, n2)
    BY <1>2, <1>4, WearsOn
  <1>7. Changed(E, m, n, m2, n2)
    BY <1>2, <1>4, GoesFits
  <1> HIDE DEF mem, busy, s, s2, m, m2, n, n2, e
  <1>8. busy = BusyFor(u, bits) /\ busy <= k /\ full = Full(u, bits) /\ e = u.strobe_end
    BY <1>1 DEF busy, e
  <1>9. bits \in SUBSET {2, 4, 8} /\ x \in BOOLEAN /\ bits # {}
    BY <1>1
  <1> DEFINE c0 == F(u, Off, Nothing, l, h, 0, Nothing, s, m, n)
             c1 == F(u, Off, bits, l, h, 0, Nothing, s, m, n)
             c3 == F(u, Off, bits, Off, la, 0, Nothing, s, m, n)
             c4 == F(u, Off, bits, Off, la, busy, cells, s, m, n)
             c5 == F(u, Off, bits, Off, la, 0, Nothing, s2, m2, n2)
             c6 == F(u, Off, Nothing, Off, la, 0, Nothing, s2, m2, n2)
  <1>10. /\ InFlash(u, Off, Nothing, l, h, 0, Nothing, s, m, n)
         /\ InFlash(u, Off, bits, l, h, 0, Nothing, s, m, n)
         /\ InFlash(u, Off, bits, Off, la, 0, Nothing, s, m, n)
         /\ InFlash(u, Off, bits, Off, la, 0, Nothing, s2, m2, n2)
         /\ InFlash(u, Off, Nothing, Off, la, 0, Nothing, s2, m2, n2)
    BY <1>2, <1>3, <1>5, <1>9, Switches DEF InFlash, Nothing, Switch
  <1>11. Fctl1(f1, Off, bits) /\ Fctl3(f3, Off, x)
    BY <1>1
  <1>12. Keyed(kFctl2MclkDiv0) /\ Fctl1(kFctl1Lock, Off, Nothing)
    BY FlashWordsIs
  <1>13. la = (IF x /\ u.has_locka THEN ~h ELSE h) /\ s = (IF Off THEN Unspent ELSE s)
    BY <1>1 DEF Off
  <1>14. Wrote(E, c0, kFctl1Addr, f1, c1)
    BY <1>10, <1>11, WroteFctl1
  <1>15. Wrote(E, c1, kFctl2Addr, kFctl2MclkDiv0, c1)
    BY <1>10, <1>12, WroteFctl2
  <1>16. Wrote(E, c1, kFctl3Addr, f3, c3)
    BY <1>10, <1>11, <1>13, WroteFctl3
  <1>17. Wrote(E, c3, a, Dummy, c4)
    <2>1. cells = DoomedBy(bits, a, la)
      BY <1>1
    <2> QED BY <1>2, <1>5, <1>8, <1>9, <2>1, EraseStarts
  <1>18. Strobed(E, c4, k, c5, e)
    BY <1>2, <1>4, <1>5, <1>6, <1>7, <1>8, <1>9, EraseGoes DEF busy
  <1>19. Wrote(E, c5, kFctl1Addr, kFctl1Lock, c6)
    BY <1>10, <1>12, WroteFctl1
  <1>20. Calm(c0) /\ Calm(c1) /\ Calm(c3) /\ Calm(c6)
    BY <1>10, FCalm
  <1>21. Legacy(c0) /\ RegValues(c0) = RegValues(u)
    BY <1>3, <1>10, FSound
  <1>22. c0 = Eroded(u, l, h, cells, full, z) /\ c6 = Eroded(u, Off, la, cells, full, z2)
    BY DEF Eroded, mem, s, s2, m, m2, n, n2
  <1>23. Low(f1, f1) /\ Low(f3, f3)
    BY <1>11, LowOf DEF Fctl1, Fctl3
  <1>24. a \in RegValues(c0) /\ e \in Levels
    BY <1>2, <1>4, <1>21 DEF e
  <1> HIDE DEF c0, c1, c3, c4, c5, c6
  <1>25. Does(E, EraseOnce(kAddr, a, f1, f3, k), P(c0, ir, cntrl, 1, mab, dto, din, mdb, Fetch), g,
              P(c6, IR_DATA_TO_ADDR, \h2408, 1, kFctl1Addr, kFctl1Lock, din, mdb, Fetch), g)
    BY <1>14, <1>15, <1>16, <1>17, <1>18, <1>19, <1>20, <1>21, <1>23, <1>24, EraseOnceDoes
  <1> QED BY <1>22, <1>25

\* The word f4 locks the flash that f3 unlocked.
Relocks(f3, f4) == \E x \in BOOLEAN : Fctl3(f3, Off, x) /\ Fctl3(f4, On, x)

\* LOCKA is turned back by the word that locks the flash.
LEMMA EraseCloses ==
    ASSUME NEW E, NEW u, Quiet(u), NEW a, NEW f1, NEW f3, NEW f4, NEW h, h = u.has_locka, NEW la,
           NEW cells, NEW full, NEW k,
           Erasable(u, a, f1, f3, h, la, cells, full, k), Relocks(f3, f4), NEW z \in Nat
    PROVE  /\ Wrote(E, Eroded(u, Off, la, cells, full, z), kFctl3Addr, f4,
                    Closed(u, Wiped(u.mem, cells, full, z), Count(full, z)))
           /\ Calm(Eroded(u, Off, la, cells, full, z))
           /\ Calm(Closed(u, Wiped(u.mem, cells, full, z), Count(full, z)))
           /\ Low(f4, f4) /\ full \in Nat \ {0}
  <1>1. PICK bits \in SUBSET {2, 4, 8}, x \in BOOLEAN :
          /\ Fctl3(f3, Off, x) /\ la = (IF x /\ u.has_locka THEN ~h ELSE h) /\ full = Full(u, bits)
    BY DEF Erasable
  <1>2. la \in BOOLEAN /\ h \in BOOLEAN
    BY DEF Erasable
  <1>3. PICK y \in BOOLEAN : Fctl3(f3, Off, y) /\ Fctl3(f4, On, y)
    BY DEF Relocks
  <1>4. x = y
    BY <1>1, <1>3 DEF Fctl3
  <1>5. u \in Target /\ u.mem \in [MemAddr -> Values16]
    BY DEF Quiet, Sound, Target
  <1>6. full \in Nat \ {0}
    BY <1>1, <1>5, NeedsIn
  <1> DEFINE s == Spent(cells, z)
             m == Wiped(u.mem, cells, full, z)
             n == Count(full, z)
             b == F(u, Off, Nothing, Off, la, 0, Nothing, s, m, n)
             c == F(u, Off, Nothing, On, h, 0, Nothing, Unspent, m, n)
  <1>7. s \in [FlashCell -> Nat] /\ m \in [MemAddr -> Values16] /\ n \in Nat
    BY <1>5, <1>6, GoesIn
  <1>8. Eroded(u, Off, la, cells, full, z) = b /\ Closed(u, Wiped(u.mem, cells, full, z), Count(full, z)) = c
    BY DEF Eroded, Closed
  <1> HIDE DEF s, m, n
  <1>8a. Unspent \in [FlashCell -> Nat]
    BY DEF Unspent
  <1>9. /\ InFlash(u, Off, Nothing, Off, la, 0, Nothing, s, m, n)
        /\ InFlash(u, Off, Nothing, On, h, 0, Nothing, Unspent, m, n)
    BY <1>2, <1>5, <1>7, <1>8a, Switches DEF InFlash, Nothing
  <1>10. Fctl3(f4, On, x)
    BY <1>3, <1>4
  <1>11. h = (IF x /\ u.has_locka THEN ~la ELSE la) /\ Unspent = (IF On THEN Unspent ELSE s)
    BY <1>1, <1>2 DEF On
  <1>12. Wrote(E, b, kFctl3Addr, f4, c)
    BY <1>9, <1>10, <1>11, WroteFctl3
  <1>13. Calm(b) /\ Calm(c)
    BY <1>9, FCalm
  <1>14. Low(f4, f4)
    BY <1>10, LowOf DEF Fctl3
  <1> HIDE DEF b, c
  <1> QED BY <1>6, <1>8, <1>12, <1>13, <1>14

\* Before the first run nothing is worn.
LEMMA ErodedNot ==
    ASSUME NEW p, NEW u, Resting(p, u), u.n = 0, NEW cells, NEW full \in Nat \ {0}
    PROVE  u = Eroded(u, On, u.has_locka, cells, full, 0)
  <1>1. u = Closed(u, u.mem, u.n)
    BY ClosedIs
  <1>2. Spent(cells, 0) = Unspent
    BY DEF Spent, Unspent
  <1>3. u.mem \in [MemAddr -> Values16]
    BY DEF Resting, Sound, Target
  <1>4. Wiped(u.mem, cells, full, 0) = u.mem /\ Count(full, 0) = 0
    BY <1>3 DEF Wiped, Count
  <1>5. Closed(u, u.mem, u.n) = Eroded(u, On, u.has_locka, cells, full, 0)
    BY <1>2, <1>4 DEF Closed, Eroded
  <1> QED BY <1>1, <1>5

\* A target after a run of an erase.
Run(u, la, cells, full, z) ==
    P(Eroded(u, Off, la, cells, full, z), IR_DATA_TO_ADDR, \h2408, 1, kFctl1Addr, kFctl1Lock, \h3FFF,
      Bus(u, \h2409, u.mab), Fetch)
Runs(x, n) == Loop([i \in 1 .. n |-> x])

\* A target in which a run of an erase can start.
Runnable(u, h, cells, full, z, y) ==
    \E l, ir, cntrl, mab, dto :
        /\ Switch(l) /\ ir # IR_DATA_QUICK
        /\ y = P(Eroded(u, l, h, cells, full, z), ir, cntrl, 1, mab, dto, \h3FFF, Bus(u, \h2409, u.mab), Fetch)

\* The same run, from wherever the last one left the port.
LEMMA EraseRunAt ==
    ASSUME NEW E, NEW g, NEW u, Quiet(u), Legacy(u), NEW kAddr, NEW a, Addressing(kAddr, a),
           NEW f1, NEW f3, NEW h, NEW la, NEW cells, NEW full, NEW k,
           Erasable(u, a, f1, f3, h, la, cells, full, k), Erases(E, cells),
           NEW z \in Nat, NEW z2, z2 = z + k, NEW y, Runnable(u, h, cells, full, z, y)
    PROVE  Does(E, EraseOnce(kAddr, a, f1, f3, k), y, g, Run(u, la, cells, full, z2), g)
  <1> DEFINE q == Bus(u, \h2409, u.mab)
             d == \h3FFF
  <1>1. PICK l, ir, cntrl, mab, dto :
             /\ Switch(l) /\ ir # IR_DATA_QUICK
             /\ y = P(Eroded(u, l, h, cells, full, z), ir, cntrl, 1, mab, dto, \h3FFF, Bus(u, \h2409, u.mab), Fetch)
    BY DEF Runnable
  <1>2. Switch(l) /\ ir # IR_DATA_QUICK
    BY <1>1
  <1>3. y = P(Eroded(u, l, h, cells, full, z), ir, cntrl, 1, mab, dto, d, q, Fetch)
    BY <1>1
  <1>4. Run(u, la, cells, full, z2)
          = P(Eroded(u, Off, la, cells, full, z2), IR_DATA_TO_ADDR, \h2408, 1, kFctl1Addr, kFctl1Lock, d, q, Fetch)
    BY DEF Run
  <1> HIDE DEF d, q
  <1>5. Does(E, EraseOnce(kAddr, a, f1, f3, k),
                P(Eroded(u, l, h, cells, full, z), ir, cntrl, 1, mab, dto, d, q, Fetch), g,
                P(Eroded(u, Off, la, cells, full, z2), IR_DATA_TO_ADDR, \h2408, 1, kFctl1Addr, kFctl1Lock, d, q, Fetch), g)
    BY <1>2, EraseRunDoes
  <1> QED BY <1>3, <1>4, <1>5

\* All the runs of an erase: the cells have had all their strobes.
LEMMA EraseLoopDoes ==
    ASSUME NEW E, NEW g, NEW p, NEW u, Resting(p, u), Legacy(u), u.n = 0, NEW kAddr, NEW a,
           Addressing(kAddr, a),
           NEW f1, NEW f3, NEW h, h = u.has_locka, NEW la, NEW cells, NEW full, NEW k,
           Erasable(u, a, f1, f3, h, la, cells, full, k), Erases(E, cells), full \in Nat \ {0},
           NEW n \in Nat \ {0}, n = 1 \/ la = h
    PROVE  /\ Does(E, Runs(EraseOnce(kAddr, a, f1, f3, k), n), Halt(u), g, Run(u, la, cells, full, n * k), g)
           /\ IsSeq(Runs(EraseOnce(kAddr, a, f1, f3, k), n))
  <1> DEFINE x == EraseOnce(kAddr, a, f1, f3, k)
             Y(i) == IF i = 1 THEN Halt(u) ELSE Run(u, la, cells, full, (i - 1) * k)
             B == [i \in 1 .. n |-> x]
             I == [i \in 1 .. n + 1 |-> {Y(i)}]
             G == [i \in 1 .. n + 1 |-> g]
  <1>1. Len(B) = n /\ n \in Nat
    OBVIOUS
  <1>2. k \in Nat /\ la \in BOOLEAN /\ Quiet(u)
    BY RestingIs DEF Erasable
  <1>2a. Switch(On) /\ Switch(Off)
    BY Switches DEF Switch
  <1>3. IsSeq(x)
    BY PlaySeq DEF EraseOnce
  <1>4. ASSUME NEW i \in 1 .. n
        PROVE  Does(E, x, Y(i), g, Y(i + 1), g)
    <2> DEFINE z == (i - 1) * k
               z2 == i * k
               q == Bus(u, \h2409, u.mab)
    <2>1. z \in Nat /\ z2 \in Nat /\ z2 = z + k
      <3>1. i - 1 \in Nat /\ i \in Nat
        BY <1>1
      <3>2. z \in Nat /\ z2 \in Nat
        BY <1>2, <3>1
      <3>3. z2 = z + k
        BY <1>2, <3>1
      <3> QED BY <3>2, <3>3
    <2>2. Y(i + 1) = Run(u, la, cells, full, z2)
      BY <1>1
    <2>3. ~(i = 1) => Y(i) = Run(u, la, cells, full, z) /\ la = h
      BY <1>1
    <2>4. i = 1 => Y(i) = Halt(u) /\ z = 0
      BY <1>2
    <2> HIDE DEF z, z2, Y, x
    <2>5. Runnable(u, h, cells, full, z, Y(i))
      <3>1. CASE i = 1
        <4>1. u = Eroded(u, On, h, cells, full, z)
          BY <2>4, <3>1, ErodedNot
        <4>2. Halt(u) = P(u, IR_CNTRL_SIG_16BIT, \h2409, 1, u.mab, u.dto, \h3FFF, q, Fetch)
          BY DEF Halt
        <4>3. IR_CNTRL_SIG_16BIT # IR_DATA_QUICK
          BY Ports
        <4> DEFINE v == Eroded(u, On, h, cells, full, z)
                   mm == u.mab
                   dd == u.dto
        <4> HIDE DEF mm, dd, q, v
        <4>6. v = u
          BY <4>1 DEF v
        <4>7. Halt(u) = P(v, IR_CNTRL_SIG_16BIT, \h2409, 1, mm, dd, \h3FFF, q, Fetch)
          BY <4>2, <4>6 DEF mm, dd
        <4>8. Y(i) = P(Eroded(u, On, h, cells, full, z), IR_CNTRL_SIG_16BIT, \h2409, 1, mm, dd, \h3FFF, q, Fetch)
          BY <2>4, <3>1, <4>7 DEF v
        <4> QED BY <1>2a, <4>3, <4>8 DEF Runnable, q
      <3>2. CASE ~(i = 1)
        <4>1. Y(i) = Run(u, h, cells, full, z)
          BY <2>3, <3>2
        <4>2. IR_DATA_TO_ADDR # IR_DATA_QUICK
          BY Ports
        <4>3. Run(u, h, cells, full, z)
                = P(Eroded(u, Off, h, cells, full, z), IR_DATA_TO_ADDR, \h2408, 1, kFctl1Addr, kFctl1Lock, \h3FFF, q, Fetch)
          BY DEF Run
        <4> HIDE DEF q
        <4> QED BY <1>2a, <4>1, <4>2, <4>3 DEF Runnable, q
      <3> QED BY <3>1, <3>2
    <2> HIDE DEF q
    <2>7. Does(E, EraseOnce(kAddr, a, f1, f3, k), Y(i), g, Run(u, la, cells, full, z2), g)
      BY <1>2, <2>1, <2>5, EraseRunAt
    <2> QED BY <2>2, <2>7 DEF x
  <1>5. ASSUME NEW i \in 1 .. n
        PROVE  /\ IsSeq(B[i])
               /\ \A y \in I[i] : \E v \in I[i + 1] : Does(E, B[i], y, G[i], v, G[i + 1])
    <2>1. B[i] = x /\ I[i] = {Y(i)} /\ I[i + 1] = {Y(i + 1)} /\ G[i] = g /\ G[i + 1] = g
      BY <1>1
    <2> HIDE DEF B, I, G, Y, x
    <2> QED BY <1>3, <1>4, <2>1
  <1>6. /\ I[1] = {Halt(u)} /\ I[n + 1] = {Run(u, la, cells, full, n * k)}
        /\ G[1] = g /\ G[n + 1] = g
    BY <1>1, <1>2
  <1>7. Runs(x, n) = Loop(B) /\ IsSeq(Runs(x, n))
    BY LoopSeq DEF Runs
  <1> HIDE DEF B, I, G, Y, x
  <1>8. LoopKeeps(E, B, I, G)
    BY <1>1, <1>5 DEF LoopKeeps
  <1>9. Halt(u) \in I[1]
    BY <1>6
  <1>10. \E w \in I[Len(B) + 1] : Does(E, Loop(B), Halt(u), G[1], w, G[Len(B) + 1])
    BY <1>8, <1>9, LoopDoes
  <1>11. Does(E, Loop(B), Halt(u), g, Run(u, la, cells, full, n * k), g)
    BY <1>1, <1>6, <1>10
  <1> QED BY <1>7, <1>11 DEF x

\* The runs of an erase, k pulses each, are enough and leave LOCKA as it was.
ErasePlan(u, a, f1, f3, f4, h, la, cells, full, k, n) ==
    /\ h = u.has_locka /\ Erasable(u, a, f1, f3, h, la, cells, full, k) /\ Relocks(f3, f4)
    /\ n \in Nat \ {0} /\ (n = 1 \/ la = h) /\ full <= n * k

\* An erase: the CPU is halted, the erase is run as often as it takes, and the flash is locked again.
LEMMA EraseDoes ==
    ASSUME NEW p, Legacy(p), NEW E, NEW g, NEW u, Ready(p, u), u.n = 0, NEW kAddr, NEW a,
           Addressing(kAddr, a),
           NEW f1, NEW f3, NEW f4, NEW h, NEW la, NEW cells, NEW full, NEW k, NEW n,
           ErasePlan(u, a, f1, f3, f4, h, la, cells, full, k, n), Erases(E, cells)
    PROVE  Finishes(p, E, HaltCpu \o Runs(EraseOnce(kAddr, a, f1, f3, k), n) \o EraseClose(f4), u, g, Count(full, full))
  <1> DEFINE L == Runs(EraseOnce(kAddr, a, f1, f3, k), n)
             z == n * k
             b == Eroded(u, Off, la, cells, full, z)
             m == Wiped(u.mem, cells, full, z)
             c == Closed(u, m, Count(full, z))
             d == \h3FFF
             q == Bus(u, \h2409, u.mab)
             fa == kFctl1Addr
             fl == kFctl1Lock
             y == P(b, IR_DATA_TO_ADDR, \h2408, 1, fa, fl, d, q, Fetch)
             w == P(c, IR_DATA_TO_ADDR, \h2408, 1, kFctl3Addr, f4, d, q, Fetch)
             f == EraseClose(f4)
  <1>0. /\ h = u.has_locka /\ Erasable(u, a, f1, f3, h, la, cells, full, k) /\ Relocks(f3, f4)
        /\ n \in Nat \ {0} /\ (n = 1 \/ la = h) /\ full <= z
    BY DEF ErasePlan
  <1>1. Calm(u) /\ Quiet(u) /\ Legacy(u) /\ Sound(u) /\ u \in Target /\ Resting(p, u)
    BY ReadyLegacy, RestingIs DEF Ready
  <1>2. k \in Nat /\ z \in Nat
    <2>1. k \in Nat
      BY <1>0 DEF Erasable
    <2> QED BY <1>0, <2>1
  <1>3. Does(E, HaltCpu, u, g, Halt(u), g) /\ IsSeq(HaltCpu)
    BY HaltCall, MoreSeq
  <1>4. /\ Wrote(E, b, kFctl3Addr, f4, c) /\ Calm(b) /\ Calm(c) /\ Low(f4, f4) /\ full \in Nat \ {0}
    BY <1>0, <1>1, <1>2, EraseCloses
  <1>5. Does(E, L, Halt(u), g, y, g) /\ IsSeq(L)
    <2>1. Does(E, L, Halt(u), g, Run(u, la, cells, full, n * k), g) /\ IsSeq(L)
      BY <1>0, <1>1, <1>4, EraseLoopDoes
    <2>2. Run(u, la, cells, full, n * k) = y
      BY DEF Run
    <2> QED BY <2>1, <2>2
  <1>6. Legacy(b)
    BY <1>1 DEF Eroded, F, Legacy
  <1>7. IsSeq(f)
    BY PlaySeq DEF EraseClose
  <1>8. Count(full, z) = Count(full, full) /\ Count(full, z) \in Nat
    BY <1>0, <1>2, <1>4 DEF Count
  <1>9. m \in [MemAddr -> Values16]
    <2>1. u.mem \in [MemAddr -> Values16]
      BY <1>1 DEF Target
    <2> QED BY <1>2, <1>4, <2>1, GoesIn
  <1>10. Resting(p, c) /\ c.n = Count(full, z)
    BY <1>1, <1>8, <1>9, ClosedRests
  <1> HIDE DEF L, z, b, m, c, d, q, f, fa, fl
  <1>11. Does(E, f, y, g, w, g)
    BY <1>4, <1>6, EraseCloseDoes DEF f
  <1>11a. w = P(c, IR_DATA_TO_ADDR, \h2408, 1, kFctl3Addr, f4, d, q, Fetch)
    OBVIOUS
  <1> HIDE DEF y, w
  <1>12. Does(E, HaltCpu \o L, u, g, y, g) /\ IsSeq(HaltCpu \o L)
    BY <1>3, <1>5, DoesBoth
  <1>13. Does(E, HaltCpu \o L \o f, u, g, w, g) /\ IsSeq(HaltCpu \o L \o f)
    BY <1>7, <1>11, <1>12, DoesBoth
  <1>14. Ready(p, w) /\ w.n = c.n
    <2>1. Rested(IR_DATA_TO_ADDR, \h2408)
      BY RestedAre
    <2>2. Sound(w)
      BY <1>1, <1>13, DoesSound
    <2> QED BY <1>10, <1>11a, <2>1, <2>2, ReadyAfter DEF Behind
  <1> QED BY <1>8, <1>10, <1>13, <1>14 DEF L, f, Finishes

\* The script of an erase of part p, how often it is run and how long.
EraseScript(p, c) ==
    IF p.drv = "std" THEN EraseFlash(c.a, c.flags, c.mass, p.prof) ELSE EraseFlash_X(c.a, c.flags, c.mass, p.prof)
RunsOf(p, mass) == EraseRuns(p.prof, mass, IF p.drv = "std" THEN 19 ELSE 1)
StrobesOf(p, mass) == EraseStrobes(p.prof, mass, IF p.drv = "std" THEN 5300 ELSE 10600)

\* The erase, in its parts.
LEMMA EraseScriptIs ==
    ASSUME NEW p, NEW c, NEW f3, f3 = EraseFctl3(c.flags, p.prof), NEW n, n = RunsOf(p, c.mass),
           NEW k, k = StrobesOf(p, c.mass)
    PROVE  EraseScript(p, c)
              = HaltCpu \o Runs(EraseOnce(AddrStep(p), c.a, c.flags.fctl1, f3, k), n) \o EraseClose(f3 + LOCK)
  <1>1. CASE p.drv = "std"
    <2>1. AddrStep(p) = kAddr16
      BY <1>1 DEF AddrStep
    <2>2. EraseScript(p, c) = EraseFlashBy(kAddr16, 19, 5300, c.a, c.flags, c.mass, p.prof)
      BY <1>1 DEF EraseScript, EraseFlash
    <2>3. n = EraseRuns(p.prof, c.mass, 19) /\ k = EraseStrobes(p.prof, c.mass, 5300)
      BY <1>1 DEF RunsOf, StrobesOf
    <2> QED BY <2>1, <2>2, <2>3 DEF EraseFlashBy, Runs, EraseClose
  <1>2. CASE p.drv # "std"
    <2>1. AddrStep(p) = kAddr20
      BY <1>2 DEF AddrStep
    <2>2. EraseScript(p, c) = EraseFlashBy(kAddr20, 1, 10600, c.a, c.flags, c.mass, p.prof)
      BY <1>2 DEF EraseScript, EraseFlash_X
    <2>3. n = EraseRuns(p.prof, c.mass, 1) /\ k = EraseStrobes(p.prof, c.mass, 10600)
      BY <1>2 DEF RunsOf, StrobesOf
    <2> QED BY <2>1, <2>2, <2>3 DEF EraseFlashBy, Runs, EraseClose
  <1> QED BY <1>1, <1>2

\* The words the caller gives, and what the driver makes of them.
Unlocks(f) == f \in {\hA500, \hA540}

\* A word for FCTL3 that unlocks, and the one that locks again.
LEMMA UnlocksIs ==
    ASSUME NEW f, Unlocks(f)
    PROVE  \E x \in BOOLEAN : Fctl3(f, Off, x) /\ Fctl3(f + LOCK, On, x) /\ x = (Bit(f, LOCKA) = 1)
  <1>1. CASE f = \hA500
    <2>1. Fctl3(f, Off, FALSE) /\ Fctl3(f + LOCK, On, FALSE) /\ FALSE = (Bit(f, LOCKA) = 1)
      BY <1>1 DEF Fctl3, Bit, Values16, LOCK, LOCKA, Off, On
    <2> QED BY <2>1
  <1>2. CASE f = \hA540
    <2>1. Fctl3(f, Off, TRUE) /\ Fctl3(f + LOCK, On, TRUE) /\ TRUE = (Bit(f, LOCKA) = 1)
      BY <1>2 DEF Fctl3, Bit, Values16, LOCK, LOCKA, Off, On
    <2> QED BY <2>1
  <1> QED BY <1>1, <1>2 DEF Unlocks

\* EraseFctl3 keeps such a word unlocking.
LEMMA EraseFctl3Is ==
    ASSUME NEW flags, Unlocks(flags.fctl3), NEW prof
    PROVE  Unlocks(EraseFctl3(flags, prof))
  BY DEF Unlocks, EraseFctl3, Bit, LOCKA

\* The word f chooses what is erased: a segment, or more.
Chooses(f, mass) == f \in (IF mass THEN {\hA504, \hA506} ELSE {\hA502})

\* The bits of FCTL1 choose between a segment and a mass erase.
LEMMA ChoosesIs ==
    ASSUME NEW f, NEW mass, Chooses(f, mass)
    PROVE  /\ EraseBits(f) \in SUBSET {2, 4, 8} /\ EraseBits(f) # {} /\ Fctl1(f, Off, EraseBits(f))
           /\ EraseBits(f) = {2} <=> ~mass
  <1>1. CASE f = \hA502
    <2>1. EraseBits(f) = {2} /\ Fctl1(f, Off, EraseBits(f))
      BY <1>1 DEF EraseBits, Fctl1, Bit, Values16, Off
    <2> QED BY <1>1, <2>1 DEF Chooses
  <1>2. CASE f = \hA504
    <2>1. EraseBits(f) = {4} /\ Fctl1(f, Off, EraseBits(f))
      BY <1>2 DEF EraseBits, Fctl1, Bit, Values16, Off
    <2> QED BY <1>2, <2>1 DEF Chooses
  <1>3. CASE f = \hA506
    <2>1. EraseBits(f) = {2, 4} /\ Fctl1(f, Off, EraseBits(f))
      BY <1>3 DEF EraseBits, Fctl1, Bit, Values16, Off
    <2> QED BY <1>3, <2>1 DEF Chooses
  <1> QED BY <1>1, <1>2, <1>3 DEF Chooses

\* The strobes and runs of part p are enough for its flash.
Enough(p) ==
    /\ p.need.word <= WordStrobes(p) /\ WordStrobes(p) \in Nat
    /\ \A mass \in BOOLEAN :
          /\ RunsOf(p, mass) \in Nat /\ StrobesOf(p, mass) \in Nat
          /\ ~mass => RunsOf(p, mass) = 1 /\ p.need.seg <= StrobesOf(p, mass)
          /\ mass => /\ p.need.mass <= StrobesOf(p, mass)
                     /\ p.need.mass * p.need.rep <= RunsOf(p, mass) * StrobesOf(p, mass)

\* A part of the older drivers gets strobes enough, for words and for every
\* erase.
LEMMA EnoughIs ==
    ASSUME NEW p \in Parts, Legacy(p)
    PROVE  /\ Enough(p) /\ p.prof.has_locka = p.has_locka /\ p.has_locka \in BOOLEAN
           /\ p.need.seg \in Nat \ {0} /\ p.need.mass \in Nat \ {0} /\ p.need.rep \in Nat \ {0} /\ p.need.word \in Nat \ {0}
  <1>1. /\ p.prof \in Timings /\ p.prof.has_locka = p.has_locka /\ p.has_locka \in BOOLEAN
        /\ p.need \in [word : Nat \ {0}, seg : Nat \ {0}, mass : Nat \ {0}, rep : Nat \ {0}]
        /\ p.drv = "std" => Suffice(p, 35, 19, 5300)
        /\ p.drv = "x" => Suffice(p, 30, 1, 10600)
    BY PartsAssumption
  <1>2. p.drv \in {"std", "x"}
    BY DEF Legacy
  <1>3. /\ p.prof.timed \in BOOLEAN /\ p.prof.mass_erase \in Nat /\ p.prof.mass_erase_rep \in Nat
        /\ p.prof.seg_erase \in Nat /\ p.prof.word_wr \in Nat
    BY <1>1 DEF Timings
  <1>4. /\ p.need.seg \in Nat \ {0} /\ p.need.mass \in Nat \ {0} /\ p.need.rep \in Nat \ {0} /\ p.need.word \in Nat \ {0}
    BY <1>1
  <1>5. ASSUME NEW word, NEW runs, NEW strobes, Suffice(p, word, runs, strobes), NEW mass \in BOOLEAN
        PROVE  /\ p.need.word <= IF p.prof.timed THEN p.prof.word_wr ELSE word
               /\ ~mass => p.need.seg <= EraseStrobes(p.prof, mass, strobes)
               /\ mass => /\ p.need.mass <= EraseStrobes(p.prof, mass, strobes)
                          /\ p.need.mass * p.need.rep <= EraseRuns(p.prof, mass, runs) * EraseStrobes(p.prof, mass, strobes)
    <2>1. CASE p.prof.timed
      <3>1. /\ mass => /\ EraseStrobes(p.prof, mass, strobes) = p.prof.mass_erase
                       /\ EraseRuns(p.prof, mass, runs) = p.prof.mass_erase_rep
            /\ ~mass => EraseStrobes(p.prof, mass, strobes) = p.prof.seg_erase
        BY <2>1 DEF EraseStrobes, EraseRuns
      <3> QED BY <1>5, <2>1, <3>1 DEF Suffice
    <2>2. CASE ~p.prof.timed
      <3>1. /\ mass => /\ EraseStrobes(p.prof, mass, strobes) = strobes
                       /\ EraseRuns(p.prof, mass, runs) = runs
            /\ ~mass => EraseStrobes(p.prof, mass, strobes) = 4820
        BY <1>3, <2>2 DEF EraseStrobes, EraseRuns
      <3> QED BY <1>5, <2>2, <3>1 DEF Suffice
    <2> QED BY <2>1, <2>2
  <1>6. ASSUME NEW mass \in BOOLEAN
        PROVE  /\ p.need.word <= WordStrobes(p)
               /\ ~mass => p.need.seg <= StrobesOf(p, mass)
               /\ mass => /\ p.need.mass <= StrobesOf(p, mass)
                          /\ p.need.mass * p.need.rep <= RunsOf(p, mass) * StrobesOf(p, mass)
    <2>1. CASE p.drv = "std"
      <3> DEFINE word == 35
                 runs == 19
                 strobes == 5300
      <3>1. /\ Suffice(p, word, runs, strobes)
            /\ WordStrobes(p) = IF p.prof.timed THEN p.prof.word_wr ELSE word
            /\ StrobesOf(p, mass) = EraseStrobes(p.prof, mass, strobes) /\ RunsOf(p, mass) = EraseRuns(p.prof, mass, runs)
        BY <1>1, <2>1 DEF WordStrobes, StrobesOf, RunsOf
      <3> HIDE DEF word, runs, strobes
      <3> QED BY <1>5, <3>1
    <2>2. CASE p.drv = "x"
      <3> DEFINE word == 30
                 runs == 1
                 strobes == 10600
      <3>1. /\ Suffice(p, word, runs, strobes)
            /\ WordStrobes(p) = IF p.prof.timed THEN p.prof.word_wr ELSE word
            /\ StrobesOf(p, mass) = EraseStrobes(p.prof, mass, strobes) /\ RunsOf(p, mass) = EraseRuns(p.prof, mass, runs)
        BY <1>1, <2>2 DEF WordStrobes, StrobesOf, RunsOf
      <3> HIDE DEF word, runs, strobes
      <3> QED BY <1>5, <3>1
    <2> QED BY <1>2, <2>1, <2>2
  <1>7. WordStrobes(p) \in Nat
    BY <1>3 DEF WordStrobes
  <1>8. ASSUME NEW mass \in BOOLEAN
        PROVE  /\ RunsOf(p, mass) \in Nat /\ StrobesOf(p, mass) \in Nat
               /\ ~mass => RunsOf(p, mass) = 1
    <2>1. CASE mass
      BY <1>3, <2>1 DEF RunsOf, StrobesOf, EraseRuns, EraseStrobes
    <2>2. CASE ~mass
      BY <1>3, <2>2 DEF RunsOf, StrobesOf, EraseRuns, EraseStrobes
    <2> QED BY <2>1, <2>2
  <1>9. Enough(p)
    BY <1>6, <1>7, <1>8 DEF Enough
  <1> QED BY <1>1, <1>4, <1>9

\* One change has been made.
Once == 1

\* An erase with all its strobes is the one effect.
LEMMA CountOnce ==
    ASSUME NEW full \in Nat \ {0}
    PROVE  Count(full, full) = Once
  BY DEF Count, Once

\* EraseFlash of the older drivers erases what was asked for, and leaves the
\* flash closed.
LEMMA EraseCall ==
    ASSUME NEW p \in Parts, Legacy(p), NEW c, LegalErase(p, c),
           NEW E, Erases(E, c.cells), NEW g, NEW u, Ready(p, u), u.n = 0
    PROVE  Finishes(p, E, EraseScript(p, c), u, g, Once)
  <1> DEFINE a == c.a
             f1 == c.flags.fctl1
             f3 == EraseFctl3(c.flags, p.prof)
             f4 == f3 + LOCK
             h == u.has_locka
             mass == c.mass
             n == RunsOf(p, mass)
             k == StrobesOf(p, mass)
             bits == EraseBits(f1)
             opens == p.has_locka /\ Bit(f3, LOCKA) = 1
             cells == c.cells
             full == Full(u, bits)
  <1>1. /\ a \in FlashCell /\ a \in RegValues(p) /\ mass \in BOOLEAN /\ Chooses(f1, mass) /\ Unlocks(c.flags.fctl3)
        /\ cells = Doomed(bits, a) \ (IF p.has_locka /\ ~opens THEN InfoAAddr ELSE {})
        /\ cells # {} /\ (opens => n = 1)
    BY DEF LegalErase, Chooses, Unlocks, EraseBits, RunsOf
  <1>2. Enough(p) /\ p.prof.has_locka = p.has_locka /\ p.has_locka \in BOOLEAN
    BY EnoughIs
  <1>3. Resting(p, u) /\ h = p.has_locka /\ u.need = p.need /\ u \in Target /\ RegValues(u) = RegValues(p)
    <2>1. Resting(p, u)
      BY DEF Ready
    <2> QED BY <2>1, RestingIs DEF Resting, Belongs
  <1>4. PICK x \in BOOLEAN : Fctl3(f3, Off, x) /\ Fctl3(f4, On, x) /\ x = (Bit(f3, LOCKA) = 1)
    BY <1>1, EraseFctl3Is, UnlocksIs
  <1> DEFINE la == IF x /\ u.has_locka THEN ~h ELSE h
  <1>5. /\ bits \in SUBSET {2, 4, 8} /\ bits # {} /\ Fctl1(f1, Off, bits) /\ (bits = {2} <=> ~mass)
    BY <1>1, ChoosesIs
  <1>6. n \in Nat /\ k \in Nat
    BY <1>1, <1>2 DEF Enough
  <1>7. BusyFor(u, bits) <= k /\ full <= n * k /\ n # 0
    <2>1. CASE mass
      <3>1. BusyFor(u, bits) = p.need.mass /\ full = p.need.mass * p.need.rep
        BY <1>3, <1>5, <2>1 DEF BusyFor, Full
      <3>2. p.need.mass <= k /\ p.need.mass * p.need.rep <= n * k
        BY <1>1, <1>2, <2>1 DEF Enough
      <3>3. p.need.mass * p.need.rep \in Nat \ {0}
        <4>1. p.need.mass \in Nat \ {0} /\ p.need.rep \in Nat \ {0}
          BY EnoughIs
        <4> QED BY <4>1
      <3>4. n # 0
        <4>1. n = 0 => n * k = 0
          BY <1>6
        <4> QED BY <3>2, <3>3, <4>1
      <3> QED BY <3>1, <3>2, <3>4
    <2>2. CASE ~mass
      <3>1. BusyFor(u, bits) = p.need.seg /\ full = p.need.seg
        BY <1>3, <1>5, <2>2 DEF BusyFor, Full
      <3>2. p.need.seg <= k /\ n = 1
        BY <1>1, <1>2, <2>2 DEF Enough
      <3> QED BY <1>6, <3>1, <3>2
    <2> QED BY <2>1, <2>2
  <1>8. la = (p.has_locka /\ ~opens) /\ la \in BOOLEAN
    BY <1>2, <1>3, <1>4
  <1>9. n = 1 \/ la = h
    BY <1>1, <1>2, <1>3, <1>8
  <1>10. cells = DoomedBy(bits, a, la)
    BY <1>1, <1>8 DEF DoomedBy
  <1>11. Erasable(u, a, f1, f3, h, la, cells, full, k)
    BY <1>1, <1>2, <1>3, <1>4, <1>5, <1>6, <1>7, <1>8, <1>10 DEF Erasable
  <1>12. Relocks(f3, f4)
    BY <1>4 DEF Relocks
  <1>13. Addressing(AddrStep(p), a)
    BY <1>1, AddrStepIs
  <1>14. EraseScript(p, c) = HaltCpu \o Runs(EraseOnce(AddrStep(p), a, f1, f3, k), n) \o EraseClose(f4)
    BY EraseScriptIs
  <1>15. full \in Nat \ {0}
    BY <1>3, NeedsIn
  <1>16. n \in Nat \ {0} /\ h = u.has_locka
    BY <1>6, <1>7
  <1> HIDE DEF a, f1, f3, f4, mass, n, k, bits, cells, full, la, opens
  <1>17. Erases(E, cells)
    BY DEF cells
  <1>18. ErasePlan(u, a, f1, f3, f4, h, la, cells, full, k, n)
    BY <1>7, <1>9, <1>11, <1>12, <1>16 DEF ErasePlan
  <1> HIDE DEF h
  <1>19. Finishes(p, E, HaltCpu \o Runs(EraseOnce(AddrStep(p), a, f1, f3, k), n) \o EraseClose(f4), u, g, Count(full, full))
    BY <1>13, <1>17, <1>18, EraseDoes
  <1> QED BY <1>14, <1>15, <1>19, CountOnce

-----------------------------------------------------------------------------
(* The words that a block of flash programs.                               *)

AllOnes == \hFFFF
Programmed(a, v, i, s) == IF v[i] = AllOnes THEN s ELSE Append(s, Program(a + 2 * (i - 1), v[i]))
AChange(a, v, n) == {Program(a + 2 * (i - 1), v[i]) : i \in 1 .. n}

\* What the first words of a block program.
Upto(a, v, n, f) ==
    /\ f \in [0 .. n -> Seq(AChange(a, v, n))] /\ f[0] = <<>>
    /\ \A i \in 1 .. n : f[i] = Programmed(a, v, i, f[i - 1])

\* Programs lists the words of a flash write that are not erased, one place after
\* the other.
LEMMA ProgramsUpto ==
    ASSUME NEW a, NEW v, Len(v) \in Nat
    PROVE  \E f : Upto(a, v, Len(v), f) /\ Programs(a, v) = f[Len(v)]
  <1> DEFINE n == Len(v)
             W(h) == h = [i \in 0 .. n |-> IF i = 0 THEN <<>>
                                           ELSE IF v[i] = \hFFFF THEN h[i - 1]
                                           ELSE Append(h[i - 1], Program(a + 2 * (i - 1), v[i]))]
             u == CHOOSE h : W(h)
  <1>p. Programs(a, v) = u[n]
    BY DEF Programs
  <1> HIDE DEF u
  <1>n. n \in Nat
    OBVIOUS
  <1> HIDE DEF n
  <1>m. 0 \in 0 .. n /\ \A i \in 1 .. n : i \in 0 .. n /\ i # 0 /\ i - 1 \in 0 .. n
    BY <1>n
  <1> DEFINE A == Seq(AChange(a, v, n))
             g == [i \in 1 .. n |-> [s \in A |-> Programmed(a, v, i, s)]]
             X(f) == f = [i \in 0 .. n |-> IF i = 0 THEN <<>> ELSE g[i][f[i - 1]]]
             Y(f) == f = [i \in 0 .. n |-> IF i = 0 THEN <<>> ELSE Programmed(a, v, i, f[i - 1])]
  <1>1. <<>> \in A
    OBVIOUS
  <1>2. ASSUME NEW i \in 1 .. n, NEW s \in A
        PROVE  Programmed(a, v, i, s) \in A
    <2>1. Program(a + 2 * (i - 1), v[i]) \in AChange(a, v, n)
      BY DEF AChange
    <2> DEFINE x == Program(a + 2 * (i - 1), v[i])
               C == AChange(a, v, n)
    <2> HIDE DEF x, C
    <2>2. x \in C /\ s \in Seq(C)
      BY <2>1 DEF x, C
    <2>3. Append(s, x) \in Seq(C)
      BY <2>2
    <2> QED BY <2>2, <2>3 DEF Programmed, x, C
  <1>3. g \in [1 .. n -> [A -> A]]
    <2> HIDE DEF A
    <2> QED BY <1>2
  <1>4. HasIteration(n, A, <<>>, g)
    <2> HIDE DEF A, g
    <2> QED BY <1>n, <1>1, <1>3, IterationExists
  <1>5. PICK f \in [0 .. n -> A] : X(f)
    BY <1>4 DEF HasIteration
  <1>6. f[0] = <<>> /\ \A i \in 1 .. n : f[i] = Programmed(a, v, i, f[i - 1])
    <2>1. \A i \in 0 .. n : f[i] = IF i = 0 THEN <<>> ELSE g[i][f[i - 1]]
      <3> HIDE DEF g, A
      <3> QED BY <1>5
    <2>2. ASSUME NEW i \in 1 .. n
          PROVE  f[i] = Programmed(a, v, i, f[i - 1])
      <3>1. f[i - 1] \in A
        <4>1. i - 1 \in 0 .. n
          BY <1>n
        <4> HIDE DEF A
        <4> QED BY <1>5, <4>1
      <3>2. g[i][f[i - 1]] = Programmed(a, v, i, f[i - 1])
        <4> HIDE DEF A
        <4> QED BY <3>1
      <3> HIDE DEF g, A
      <3> QED BY <1>m, <2>1, <3>2
    <2> HIDE DEF g
    <2> QED BY <1>m, <2>1, <2>2
  <1>7. Y(f)
    <2>1. f = [i \in 0 .. n |-> f[i]]
      <3> HIDE DEF A
      <3> QED BY <1>5
    <2>2. ASSUME NEW i \in 0 .. n
          PROVE  f[i] = IF i = 0 THEN <<>> ELSE Programmed(a, v, i, f[i - 1])
      BY <1>6
    <2> HIDE DEF A, g
    <2> QED BY <2>1, <2>2
  <1>8. ASSUME NEW h, Y(h)
        PROVE  h = f
    <2>1. h = [i \in 0 .. n |-> h[i]] /\ f = [i \in 0 .. n |-> f[i]]
      BY <1>7, <1>8, Zenon
    <2>2. \A i \in 0 .. n : h[i] = IF i = 0 THEN <<>> ELSE Programmed(a, v, i, h[i - 1])
      BY <1>8
    <2> DEFINE S == {i \in 0 .. n : h[i] = f[i]}
    <2>3. Climbs(n, S)
      <3>1. 0 \in S
        BY <1>m, <1>6, <2>2
      <3>2. ASSUME NEW i \in 1 .. n, i - 1 \in S
            PROVE  i \in S
        <4>1. h[i] = Programmed(a, v, i, h[i - 1]) /\ f[i] = Programmed(a, v, i, f[i - 1])
          BY <1>m, <1>6, <2>2
        <4> QED BY <3>2, <4>1
      <3> HIDE DEF S
      <3> QED BY <3>1, <3>2 DEF Climbs
    <2>4. 0 .. n \subseteq S
      <3> HIDE DEF S
      <3> QED BY <1>n, <2>3, UpTo
    <2>5. \A i \in 0 .. n : h[i] = f[i]
      BY <2>4
    <2> QED BY <2>1, <2>5
  <1>9. \A h : W(h) <=> Y(h)
    BY DEF Programmed, AllOnes
  <1> HIDE DEF W, Y
  <1>10. u = f
    BY <1>7, <1>8, <1>9 DEF u
  <1> HIDE DEF g
  <1>11. Upto(a, v, n, f)
    <2>1. f \in [0 .. n -> A]
      <3> HIDE DEF A
      <3> QED BY <1>5
    <2> QED BY <1>6, <2>1 DEF Upto
  <1> QED BY <1>p, <1>10, <1>11 DEF n

\* s is the beginning of r.
Begins(s, r) == Len(s) <= Len(r) /\ \A k \in 1 .. Len(s) : r[k] = s[k]

\* What begins a beginning begins the whole.
LEMMA BeginsOn ==
    ASSUME NEW X, NEW s \in Seq(X), NEW r \in Seq(X), NEW q \in Seq(X), Begins(s, r), Begins(r, q)
    PROVE  Begins(s, q)
  <1>1. Len(s) \in Nat /\ Len(r) \in Nat /\ Len(q) \in Nat
    OBVIOUS
  <1> QED BY <1>1 DEF Begins

\* A sequence begins the one with one more.
LEMMA BeginsAppend ==
    ASSUME NEW X, NEW s \in Seq(X), NEW x
    PROVE  /\ Begins(s, Append(s, x))
           /\ Len(Append(s, x)) = Len(s) + 1 /\ Append(s, x)[Len(s) + 1] = x
  <1>1. Len(s) \in Nat /\ Len(Append(s, x)) = Len(s) + 1
    OBVIOUS
  <1>2. \A k \in 1 .. Len(s) : Append(s, x)[k] = s[k]
    OBVIOUS
  <1>3. Append(s, x)[Len(s) + 1] = x
    OBVIOUS
  <1> QED BY <1>1, <1>2, <1>3 DEF Begins

\* A sequence begins itself.
LEMMA BeginsSelf ==
    ASSUME NEW s, Len(s) \in Nat
    PROVE  Begins(s, s)
  BY DEF Begins

\* The effects of the first places begin the effects of all.
LEMMA UptoBegins ==
    ASSUME NEW a, NEW v, NEW n \in Nat, NEW f, Upto(a, v, n, f)
    PROVE  /\ \A i \in 0 .. n : Begins(f[i], f[n])
           /\ \A i \in 0 .. n : Len(f[i]) \in Nat
  <1> DEFINE X == AChange(a, v, n)
             S == {j \in 0 .. n : \A i \in 0 .. j : Begins(f[i], f[j])}
  <1> HIDE DEF X
  <1>1. f \in [0 .. n -> Seq(X)]
    BY DEF Upto, X
  <1>2. \A i \in 0 .. n : f[i] \in Seq(X)
    BY <1>1
  <1>3. 0 \in S
    <2>1. 0 \in 0 .. n /\ \A i \in 0 .. 0 : i = 0
      OBVIOUS
    <2> QED BY <1>2, <2>1, BeginsSelf
  <1>4. ASSUME NEW j \in 1 .. n, j - 1 \in S
        PROVE  j \in S
    <2>1. j \in 0 .. n /\ j - 1 \in 0 .. n /\ (\A i \in 0 .. j : i = j \/ i \in 0 .. j - 1) /\ \A i \in 0 .. j : i \in 0 .. n
      OBVIOUS
    <2>2. f[j] = Programmed(a, v, j, f[j - 1])
      BY DEF Upto
    <2>3. Begins(f[j - 1], f[j]) /\ Begins(f[j], f[j])
      <3> DEFINE x == Program(a + 2 * (j - 1), v[j])
      <3>1. f[j] = f[j - 1] \/ f[j] = Append(f[j - 1], x)
        BY <2>2 DEF Programmed
      <3>2. f[j - 1] \in Seq(X) /\ f[j] \in Seq(X)
        BY <1>2, <2>1
      <3>3. Len(f[j]) \in Nat /\ Len(f[j - 1]) \in Nat
        BY <3>2
      <3> HIDE DEF x
      <3>4. Begins(f[j - 1], Append(f[j - 1], x)) /\ Begins(f[j - 1], f[j - 1]) /\ Begins(f[j], f[j])
        BY <3>2, <3>3, BeginsAppend, BeginsSelf
      <3> QED BY <3>1, <3>4
    <2>4. ASSUME NEW i \in 0 .. j
          PROVE  Begins(f[i], f[j])
      <3>1. CASE i = j
        BY <2>3, <3>1
      <3>2. CASE i \in 0 .. j - 1
        <4>1. Begins(f[i], f[j - 1])
          BY <1>4, <3>2
        <4>2. f[i] \in Seq(X) /\ f[j] \in Seq(X) /\ f[j - 1] \in Seq(X)
          BY <1>2, <2>1
        <4> QED BY <2>3, <4>1, <4>2, BeginsOn
      <3> QED BY <2>1, <3>1, <3>2
    <2> QED BY <2>1, <2>4
  <1>5. Climbs(n, S)
    <2> HIDE DEF S
    <2> QED BY <1>3, <1>4 DEF Climbs
  <1>6. 0 .. n \subseteq S
    <2> HIDE DEF S
    <2> QED BY <1>5, UpTo
  <1>7. n \in S
    <2> HIDE DEF S
    <2> QED BY <1>6
  <1>8. \A i \in 0 .. n : Len(f[i]) \in Nat
    BY <1>2
  <1> QED BY <1>7, <1>8

\* The changes made by the first words of a block.
Counts(n, f) == [i \in 0 .. n |-> Len(f[i])]

\* Legal arguments of WriteFlash suit its loop.
LEMMA BlockFlashable ==
    ASSUME NEW p, NEW u, RegValues(u) = RegValues(p), NEW a \in Nat, NEW v, NEW n, n = Len(v),
           n \in Nat,
           \A i \in 1 .. n : v[i] \in Values16,
           Words(a, n) \subseteq FlashCell \cap RegValues(p), NEW f, Upto(a, v, n, f)
    PROVE  /\ Flashable(u, f[n], AddrStep(p), Places(a, n, 2), v, Counts(n, f), n)
           /\ Counts(n, f)[n] = Len(f[n]) /\ Len(f[n]) \in Nat
  <1> DEFINE K == Counts(n, f)
             A == Places(a, n, 2)
             E == f[n]
  <1>1. /\ 0 \in 0 .. n /\ n \in 0 .. n
        /\ \A i \in 1 .. n : i \in 0 .. n /\ i - 1 \in 0 .. n
    OBVIOUS
  <1>2. K = [i \in 0 .. n |-> Len(f[i])]
    BY DEF Counts
  <1>3. K[0] = 0
    <2>1. f[0] = <<>>
      BY DEF Upto
    <2> QED BY <1>1, <1>2, <2>1
  <1>4. ASSUME NEW i \in 1 .. n
        PROVE  /\ A[i] \in FlashCell /\ A[i] \in RegValues(p) /\ A[i] = a + 2 * (i - 1)
    <2>1. A[i] = a + (i - 1) * 2
      BY DEF Places
    <2>2. a + 2 * (i - 1) \in Words(a, n)
      <3>1. i - 1 \in 0 .. n - 1
        OBVIOUS
      <3> QED BY <3>1 DEF Words
    <2>3. a + (i - 1) * 2 = a + 2 * (i - 1)
      OBVIOUS
    <2> QED BY <2>1, <2>2, <2>3
  <1>5. ASSUME NEW i \in 1 .. n
        PROVE  /\ K[i - 1] \in Nat /\ K[i] \in Nat
               /\ v[i] = \hFFFF => K[i] = K[i - 1]
               /\ v[i] # \hFFFF => K[i] = K[i - 1] + 1 /\ Programs16(E, K[i], A[i], v[i])
    <2>1. K[i] = Len(f[i]) /\ K[i - 1] = Len(f[i - 1]) /\ Len(f[i]) \in Nat /\ Len(f[i - 1]) \in Nat
          /\ Begins(f[i], E)
      BY <1>1, <1>2, UptoBegins
    <2>2. f[i] = Programmed(a, v, i, f[i - 1])
      BY DEF Upto
    <2>3. f[i - 1] \in Seq(AChange(a, v, n))
      BY <1>1 DEF Upto
    <2>4. CASE v[i] = \hFFFF
      <3>1. f[i] = f[i - 1]
        BY <2>2, <2>4 DEF Programmed, AllOnes
      <3> QED BY <2>1, <2>4, <3>1
    <2>5. CASE v[i] # \hFFFF
      <3> DEFINE x == Program(a + 2 * (i - 1), v[i])
      <3>1. f[i] = Append(f[i - 1], x)
        BY <2>2, <2>5 DEF Programmed, AllOnes
      <3>2. x.k = "program" /\ x.at = A[i] /\ x.v = v[i]
        BY <1>4 DEF Program
      <3> HIDE DEF x, K, A, E
      <3>3. Len(f[i]) = Len(f[i - 1]) + 1 /\ f[i][Len(f[i])] = x
        BY <2>3, <3>1, BeginsAppend
      <3>4. Len(f[i]) <= Len(E) /\ E[Len(f[i])] = x
        <4>1. Len(f[i]) \in 1 .. Len(f[i])
          BY <2>1, <3>3
        <4> QED BY <2>1, <3>3, <4>1 DEF Begins
      <3>5. Programs16(E, K[i], A[i], v[i])
        BY <2>1, <3>2, <3>4 DEF Programs16
      <3> QED BY <2>1, <2>5, <3>3, <3>5
    <2> QED BY <2>1, <2>4, <2>5
  <1>6. ASSUME NEW i \in 1 .. n
        PROVE  Addressing(AddrStep(p), A[i])
    BY <1>4, AddrStepIs
  <1>7. K[n] = Len(f[n]) /\ Len(f[n]) \in Nat
    BY <1>1, <1>2, UptoBegins
  <1>8. Flashable(u, E, AddrStep(p), A, v, K, n)
    <2> HIDE DEF K, A, E
    <2> QED BY <1>3, <1>4, <1>5, <1>6 DEF Flashable
  <1> QED BY <1>7, <1>8

\* WriteFlash of the older drivers has the effects of Programs, in order, and
\* leaves the flash closed.
LEMMA FlashCall ==
    ASSUME NEW p \in Parts, Legacy(p), NEW a \in Nat, NEW v \in Seq(Values16),
           Words(a, Len(v)) \subseteq FlashCell \cap RegValues(p),
           NEW E, E = Programs(a, v), NEW g, NEW u, Ready(p, u), u.n = 0
    PROVE  Finishes(p, E, BlockFlash(p, a, v), u, g, Len(E))
  <1> DEFINE n == Len(v)
             A == Places(a, n, 2)
  <1>1. n \in Nat /\ \A i \in 1 .. n : v[i] \in Values16
    OBVIOUS
  <1>2. PICK f : Upto(a, v, n, f) /\ E = f[n]
    BY <1>1, ProgramsUpto
  <1> DEFINE K == Counts(n, f)
  <1>3. Resting(p, u)
    BY DEF Ready
  <1>4. RegValues(u) = RegValues(p)
    BY <1>3, RestingIs
  <1>4a. Words(a, n) \subseteq FlashCell \cap RegValues(p)
    OBVIOUS
  <1> HIDE DEF n
  <1>5. Flashable(u, E, AddrStep(p), A, v, K, n) /\ K[n] = Len(E) /\ Len(E) \in Nat
    <2> HIDE DEF K
    <2>1. n = Len(v)
      BY DEF n
    <2>2. /\ Flashable(u, f[n], AddrStep(p), Places(a, n, 2), v, Counts(n, f), n)
          /\ Counts(n, f)[n] = Len(f[n]) /\ Len(f[n]) \in Nat
      BY <1>1, <1>2, <1>4, <1>4a, <2>1, BlockFlashable
    <2> QED BY <1>2, <2>2 DEF K
  <1>6. WordStrobes(p) \in Nat /\ p.need.word <= WordStrobes(p) /\ p.prof.has_locka = p.has_locka
    BY EnoughIs DEF Enough
  <1> HIDE DEF K
  <1>7. Flashable(u, E, AddrStep(p), Places(a, Len(v), 2), v, K, Len(v)) /\ K[Len(v)] = Len(E)
    BY <1>5 DEF n
  <1>8. FlashPlan(p, u, E, a, v, Len(E))
    BY <1>5, <1>6, <1>7 DEF FlashPlan
  <1> QED BY <1>8, BlockFlashCall

-----------------------------------------------------------------------------
(* The registers of the debug unit.                                        *)

\* Nothing is addressed in the debug unit.
NoAddr == -1
\* b with the register a of the debug unit addressed and e in its registers.
Debug(b, a, e) == [b EXCEPT !.eemaddr = a, !.eem = e]

\* The fields of a target whose debug unit is given.
LEMMA DebugIs ==
    ASSUME NEW b, b \in Target, NEW a \in Int, NEW e \in [EemAddr -> Nat], NEW c, c = Debug(b, a, e)
    PROVE  /\ c \in Target /\ c.eemaddr = a /\ c.eem = e /\ c.drv = b.drv /\ c.id = b.id
           /\ c.need = b.need /\ c.has_locka = b.has_locka /\ c.mem = b.mem /\ c.reg = b.reg /\ c.n = b.n
           /\ c.pcok = b.pcok /\ c.eemctl = b.eemctl /\ c.wdt = b.wdt /\ c.mab = b.mab /\ c.running = b.running
           /\ c.ir = b.ir
  BY Zenon DEF Debug, Target

\* Such a target is sound.
LEMMA DebugSound ==
    ASSUME NEW b, Sound(b), NEW a \in Int, NEW e \in [EemAddr -> Nat]
    PROVE  Sound(Debug(b, a, e)) /\ (Legacy(Debug(b, a, e)) <=> Legacy(b))
  <1> DEFINE c == Debug(b, a, e)
  <1>1. b \in Target
    BY DEF Sound
  <1>2. c \in Target /\ c.running = b.running /\ c.mab = b.mab /\ c.reg = b.reg /\ c.drv = b.drv
    BY <1>1, DebugIs
  <1> HIDE DEF c
  <1>3. RegValues(c) = RegValues(b)
    BY <1>2 DEF RegValues, RegSize
  <1>4. Sound(c) /\ (Legacy(c) <=> Legacy(b))
    BY <1>2, <1>3 DEF Sound, Legacy
  <1> QED BY <1>4 DEF c

\* Moving the debug unit alone moves nothing else.
LEMMA DebugMoved ==
    ASSUME NEW E, NEW b, Sound(b), NEW a \in Int, NEW e \in [EemAddr -> Nat],
           NEW a2 \in Int, NEW e2 \in [EemAddr -> Nat]
    PROVE  Moved(Debug(b, a, e), Debug(b, a2, e2), E) /\ (Legacy(Debug(b, a2, e2)) <=> Legacy(Debug(b, a, e)))
  <1> DEFINE c == Debug(b, a, e)
             d == Debug(b, a2, e2)
  <1>1. b \in Target
    BY DEF Sound
  <1>2. c.drv = b.drv /\ c.mem = b.mem /\ c.reg = b.reg /\ c.n = b.n
    BY <1>1, DebugIs
  <1>3. d.drv = b.drv /\ d.mem = b.mem /\ d.reg = b.reg /\ d.n = b.n
    BY <1>1, DebugIs
  <1>4. Sound(c) /\ Sound(d) /\ (Legacy(c) <=> Legacy(b)) /\ (Legacy(d) <=> Legacy(b))
    BY DebugSound
  <1> HIDE DEF c, d
  <1>5. Same(c, d)
    BY <1>2, <1>3 DEF Same, Held
  <1>6. Moved(c, d, E) /\ (Legacy(d) <=> Legacy(c))
    BY <1>2, <1>3, <1>4, <1>5 DEF Moved, Fits
  <1> QED BY <1>6 DEF c, d

\* The first scan of an exchange with the debug unit gives the address.
LEMMA ScanAddr ==
    ASSUME NEW E, NEW b, Sound(b), NEW e \in [EemAddr -> Nat], NEW d \in Nat
    PROVE  Scanned(E, Debug(b, NoAddr, e), d, Debug(b, d, e))
  <1> DEFINE c == Debug(b, NoAddr, e)
  <1>1. b \in Target /\ NoAddr \in Int /\ d \in Int
    BY DEF Sound, NoAddr
  <1>2. c.eemaddr = NoAddr
    BY <1>1, DebugIs
  <1>3. EmexScan(c, d) = [c EXCEPT !.eemaddr = d]
    <2> HIDE DEF c
    <2> QED BY <1>2 DEF EmexScan, NoAddr
  <1>4. [c EXCEPT !.eemaddr = d] = Debug(b, d, e)
    BY <1>1, Zenon DEF Debug, Target
  <1>5. Moved(c, Debug(b, d, e), E) /\ (Legacy(Debug(b, d, e)) <=> Legacy(c))
    BY <1>1, DebugMoved
  <1> HIDE DEF c
  <1>6. Scanned(E, c, d, Debug(b, d, e))
    BY <1>3, <1>4, <1>5 DEF Scanned
  <1> QED BY <1>6 DEF c

\* The second one gives or takes the word.
LEMMA ScanData ==
    ASSUME NEW E, NEW b, Sound(b), NEW a \in Nat, NEW e \in [EemAddr -> Nat], NEW d \in Nat,
           NEW e2, e2 = (IF a % 2 = 0 /\ a \in EemAddr THEN [e EXCEPT ![a] = d] ELSE e)
    PROVE  Scanned(E, Debug(b, a, e), d, Debug(b, NoAddr, e2)) /\ e2 \in [EemAddr -> Nat]
  <1> DEFINE c == Debug(b, a, e)
  <1>1. b \in Target /\ NoAddr \in Int /\ a \in Int /\ a # -1 /\ NoAddr = -1
    BY DEF Sound, NoAddr
  <1>2. c.eemaddr = a /\ c.eem = e
    BY <1>1, DebugIs
  <1>3. e2 \in [EemAddr -> Nat]
    OBVIOUS
  <1>4. EmexScan(c, d) = [c EXCEPT !.eemaddr = NoAddr, !.eem = e2]
    <2> HIDE DEF c
    <2>1. DOMAIN c.eem = EemAddr
      BY <1>2
    <2>2. EmexScan(c, d) = [c EXCEPT !.eemaddr = -1, !.eem = IF c.eemaddr % 2 = 0 /\ c.eemaddr \in DOMAIN @
                                                           THEN [@ EXCEPT ![c.eemaddr] = d] ELSE @]
      BY <1>1, <1>2 DEF EmexScan
    <2> QED BY <1>1, <1>2, <2>1, <2>2
  <1>5. [c EXCEPT !.eemaddr = NoAddr, !.eem = e2] = Debug(b, NoAddr, e2)
    BY <1>1, Zenon DEF Debug, Target
  <1>6. Moved(c, Debug(b, NoAddr, e2), E) /\ (Legacy(Debug(b, NoAddr, e2)) <=> Legacy(c))
    BY <1>1, <1>3, DebugMoved
  <1> HIDE DEF c
  <1>7. Scanned(E, c, d, Debug(b, NoAddr, e2))
    BY <1>4, <1>5, <1>6 DEF Scanned
  <1> QED BY <1>3, <1>7 DEF c

\* The register before the odd address a is read.
LEMMA ScanOut ==
    ASSUME NEW E, NEW b, Sound(b), NEW a \in Nat, a % 2 # 0, a - 1 \in EemAddr,
           NEW e \in [EemAddr -> Nat]
    PROVE  ScannedOut(E, Debug(b, a, e), Debug(b, NoAddr, e), e[a - 1])
  <1> DEFINE c == Debug(b, a, e)
  <1>1. b \in Target /\ NoAddr \in Int /\ a \in Int
    BY DEF Sound, NoAddr
  <1>2. c.eemaddr = a /\ c.eem = e
    BY <1>1, DebugIs
  <1>3. e = (IF a % 2 = 0 /\ a \in EemAddr THEN [e EXCEPT ![a] = 0] ELSE e)
    OBVIOUS
  <1>4. Scanned(E, c, 0, Debug(b, NoAddr, e))
    <2> DEFINE z == 0
    <2>1. z \in Nat
      OBVIOUS
    <2>2. e = (IF a % 2 = 0 /\ a \in EemAddr THEN [e EXCEPT ![a] = z] ELSE e)
      BY <1>3
    <2> HIDE DEF z
    <2>3. Scanned(E, Debug(b, a, e), z, Debug(b, NoAddr, e))
      BY <2>1, <2>2, ScanData
    <2> QED BY <2>3 DEF z
  <1> HIDE DEF c
  <1>5. ScannedOut(E, c, Debug(b, NoAddr, e), e[a - 1])
    BY <1>2, <1>4 DEF ScannedOut
  <1> QED BY <1>5 DEF c

\* The register before the address a is read, or the one at a set.
EemReads(E, b, a, o) == \E x : Scanned(E, b, a, x) /\ ScannedOut(E, x, b, o)
Sets(E, b, a, n, c) == \E x : Scanned(E, b, a, x) /\ Scanned(E, x, n, c)
\* b with e in the registers of its debug unit.
Eem(b, e) == Debug(b, NoAddr, e)

\* A quiet debug unit awaits an address.
LEMMA EemSelf ==
    ASSUME NEW b, Quiet(b)
    PROVE  b = Eem(b, b.eem) /\ b.eem \in [EemAddr -> Nat]
  <1>1. b \in Target /\ b.eemaddr = NoAddr
    BY DEF Quiet, Sound, NoAddr
  <1>2. b = Debug(b, b.eemaddr, b.eem)
    BY <1>1, Zenon DEF Debug, Target
  <1>3. b.eem \in [EemAddr -> Nat]
    BY <1>1 DEF Target
  <1> QED BY <1>1, <1>2, <1>3 DEF Eem

\* An exchange at an odd address reads the word before it.
LEMMA EemShows ==
    ASSUME NEW E, NEW b, Sound(b), NEW a \in Nat, a % 2 # 0, NEW o, o + 1 = a, o \in EemAddr,
           NEW e \in [EemAddr -> Nat]
    PROVE  EemReads(E, Eem(b, e), a, e[o])
  <1>1. a - 1 = o
    BY DEF EemAddr
  <1>2. Scanned(E, Debug(b, NoAddr, e), a, Debug(b, a, e))
    BY ScanAddr
  <1>3. ScannedOut(E, Debug(b, a, e), Debug(b, NoAddr, e), e[a - 1])
    BY <1>1, ScanOut
  <1> QED BY <1>1, <1>2, <1>3 DEF EemReads, Eem

\* An exchange at an even address sets the word.
LEMMA EemSets ==
    ASSUME NEW E, NEW b, Sound(b), NEW a \in Nat, NEW e \in [EemAddr -> Nat], NEW n \in Nat,
           NEW e2, e2 = (IF a % 2 = 0 /\ a \in EemAddr THEN [e EXCEPT ![a] = n] ELSE e)
    PROVE  Sets(E, Eem(b, e), a, n, Eem(b, e2)) /\ e2 \in [EemAddr -> Nat]
  <1>1. Scanned(E, Debug(b, NoAddr, e), a, Debug(b, a, e))
    BY ScanAddr
  <1>2. Scanned(E, Debug(b, a, e), n, Debug(b, NoAddr, e2)) /\ e2 \in [EemAddr -> Nat]
    BY ScanData
  <1> QED BY <1>1, <1>2 DEF Sets, Eem

\* The control words of the trigger blocks: where they are read and written.
Block0 == \h02
Block1 == \h0A
Block2 == \h12

\* The trigger blocks the F149 workaround touches, which differ.
LEMMA BlocksAre ==
    /\ Block0 \in EemAddr /\ Block1 \in EemAddr /\ Block2 \in EemAddr
    /\ Block0 % 2 = 0 /\ Block1 % 2 = 0 /\ Block2 % 2 = 0
    /\ Block0 # Block1 /\ Block0 # Block2 /\ Block1 # Block2
    /\ (Block0 + 1) % 2 # 0 /\ (Block1 + 1) % 2 # 0 /\ (Block2 + 1) % 2 # 0
    /\ Block0 \in Nat /\ Block1 \in Nat /\ Block2 \in Nat
    /\ Block0 + 1 \in Nat /\ Block1 + 1 \in Nat /\ Block2 + 1 \in Nat
    /\ Block0 + 1 = \h03 /\ Block1 + 1 = \h0B /\ Block2 + 1 = \h13
  BY DEF Block0, Block1, Block2, EemAddr

\* The blocks are read, cleared and written back.
Reworks(E, b, o0, o1, o2) ==
    /\ EemReads(E, b, \h03, o0) /\ EemReads(E, b, \h0B, o1) /\ EemReads(E, b, \h13, o2)
    /\ \E c1, c2, c3, c4, c5 :
          /\ Sets(E, b, \h02, 0, c1) /\ Sets(E, c1, \h0A, 0, c2) /\ Sets(E, c2, \h12, 0, c3)
          /\ Sets(E, c3, \h02, o0, c4) /\ Sets(E, c4, \h0A, o1, c5) /\ Sets(E, c5, \h12, o2, b)

\* The three blocks, switched off and written back, are what they were.
LEMMA EemReworks ==
    ASSUME NEW E, NEW b, Quiet(b), NEW o0, o0 = b.eem[Block0], NEW o1, o1 = b.eem[Block1],
           NEW o2, o2 = b.eem[Block2]
    PROVE  Reworks(E, b, o0, o1, o2)
  <1> DEFINE e  == b.eem
             z  == 0
             e1 == [e EXCEPT ![Block0] = z]
             e2 == [e1 EXCEPT ![Block1] = z]
             e3 == [e2 EXCEPT ![Block2] = z]
             e4 == [e3 EXCEPT ![Block0] = o0]
             e5 == [e4 EXCEPT ![Block1] = o1]
             e6 == [e5 EXCEPT ![Block2] = o2]
  <1>1. b = Eem(b, e) /\ e \in [EemAddr -> Nat] /\ Sound(b)
    BY EemSelf DEF Quiet
  <1>2. z \in Nat
    OBVIOUS
  <1>3. o0 \in Nat /\ o1 \in Nat /\ o2 \in Nat
    BY <1>1, BlocksAre
  <1> HIDE DEF e, z
  <1>4. EemReads(E, Eem(b, e), Block0 + 1, o0) /\ EemReads(E, Eem(b, e), Block1 + 1, o1) /\ EemReads(E, Eem(b, e), Block2 + 1, o2)
    BY <1>1, BlocksAre, EemShows DEF e
  <1> HIDE DEF e1, e2, e3, e4, e5, e6
  <1>5. Sets(E, Eem(b, e), Block0, z, Eem(b, e1)) /\ e1 \in [EemAddr -> Nat]
    BY <1>1, <1>2, BlocksAre, EemSets DEF e1
  <1>6. Sets(E, Eem(b, e1), Block1, z, Eem(b, e2)) /\ e2 \in [EemAddr -> Nat]
    BY <1>1, <1>2, <1>5, BlocksAre, EemSets DEF e2
  <1>7. Sets(E, Eem(b, e2), Block2, z, Eem(b, e3)) /\ e3 \in [EemAddr -> Nat]
    BY <1>1, <1>2, <1>6, BlocksAre, EemSets DEF e3
  <1>8. Sets(E, Eem(b, e3), Block0, o0, Eem(b, e4)) /\ e4 \in [EemAddr -> Nat]
    BY <1>1, <1>3, <1>7, BlocksAre, EemSets DEF e4
  <1>9. Sets(E, Eem(b, e4), Block1, o1, Eem(b, e5)) /\ e5 \in [EemAddr -> Nat]
    BY <1>1, <1>3, <1>8, BlocksAre, EemSets DEF e5
  <1>10. Sets(E, Eem(b, e5), Block2, o2, Eem(b, e6)) /\ e6 \in [EemAddr -> Nat]
    BY <1>1, <1>3, <1>9, BlocksAre, EemSets DEF e6
  <1>11. e6 = e
    <2>1. \A x \in EemAddr : e6[x] = e[x]
      BY <1>1, BlocksAre DEF e, e1, e2, e3, e4, e5, e6
    <2> QED BY <1>1, <1>10, <2>1
  <1>12. Sets(E, Eem(b, e5), Block2, o2, b)
    BY <1>1, <1>10, <1>11
  <1>13. EemReads(E, b, \h03, o0) /\ EemReads(E, b, \h0B, o1) /\ EemReads(E, b, \h13, o2)
    BY <1>1, <1>4, BlocksAre
  <1>14. Sets(E, b, Block0, z, Eem(b, e1))
    BY <1>1, <1>5
  <1> DEFINE c1 == Eem(b, e1)
             c2 == Eem(b, e2)
             c3 == Eem(b, e3)
             c4 == Eem(b, e4)
             c5 == Eem(b, e5)
  <1> HIDE DEF c1, c2, c3, c4, c5
  <1>15. /\ Sets(E, b, \h02, 0, c1) /\ Sets(E, c1, \h0A, 0, c2) /\ Sets(E, c2, \h12, 0, c3)
         /\ Sets(E, c3, \h02, o0, c4) /\ Sets(E, c4, \h0A, o1, c5) /\ Sets(E, c5, \h12, o2, b)
    BY <1>6, <1>7, <1>8, <1>9, <1>12, <1>14 DEF z, c1, c2, c3, c4, c5, Block0, Block1, Block2
  <1> QED BY <1>13, <1>15 DEF Reworks

\* What the workaround keeps in its variables.
LEMMA BackupsKnown ==
    ASSUME NEW g, Knows(g), NEW o0, NEW o1, NEW o2,
           NEW h, h = Got(Got(Got(g, "backup0", o0), "backup1", o1), "backup2", o2)
    PROVE  Has(h, "backup0", o0) /\ Has(h, "backup1", o1) /\ Has(h, "backup2", o2) /\ Knows(h)
  <1> DEFINE g1 == Got(g, "backup0", o0)
             g2 == Got(g1, "backup1", o1)
             g3 == Got(g2, "backup2", o2)
  <1>0. DOMAIN g = Locals
    BY DEF Knows
  <1>1. g1 = [v \in Locals |-> IF v = "backup0" THEN o0 ELSE g[v]]
    BY <1>0 DEF Got
  <1>2. g2 = [v \in Locals |-> IF v = "backup1" THEN o1 ELSE g1[v]]
    <2> HIDE DEF g1
    <2> QED BY <1>1 DEF Got
  <1>3. g3 = [v \in Locals |-> IF v = "backup2" THEN o2 ELSE g2[v]]
    <2> HIDE DEF g2
    <2> QED BY <1>2 DEF Got
  <1>4. "backup0" \in Locals /\ "backup1" \in Locals /\ "backup2" \in Locals
    BY DEF Locals
  <1>5. h = g3
    OBVIOUS
  <1> HIDE DEF g1, g2, g3
  <1>6. Has(h, "backup0", o0) /\ Has(h, "backup1", o1) /\ Has(h, "backup2", o2)
    BY <1>1, <1>2, <1>3, <1>4, <1>5 DEF Has
  <1>7. Knows(h)
    BY <1>3, <1>5 DEF Knows
  <1> QED BY <1>6, <1>7

\* With s, behind the port, nothing changes.
Restores(E, s, u, g, w) == \E h : Does(E, s, u, g, w, h) /\ Knows(h)

\* The F149 workaround leaves every trigger block as it was.
LEMMA WorkaroundCall ==
    ASSUME NEW E, NEW g, Knows(g), NEW b, Calm(b), Legacy(b), NEW ir, NEW cntrl, NEW mab, NEW dto,
           NEW din, NEW mdb
    PROVE  Restores(E, WorkaroundF149, P(b, ir, cntrl, 1, mab, dto, din, mdb, Fetch), g,
                    P(b, IR_EMEX_DATA_EXCHANGE, cntrl, 1, mab, dto, din, mdb, Fetch))
  <1> DEFINE o0 == b.eem[Block0]
             o1 == b.eem[Block1]
             o2 == b.eem[Block2]
             h == Got(Got(Got(g, "backup0", o0), "backup1", o1), "backup2", o2)
  <1>1. Reworks(E, b, o0, o1, o2)
    BY EemReworks DEF Calm
  <1>2. Has(h, "backup0", o0) /\ Has(h, "backup1", o1) /\ Has(h, "backup2", o2) /\ Knows(h)
    BY BackupsKnown
  <1> HIDE DEF o0, o1, o2
  <1>3. EemReads(E, b, \h03, o0) /\ EemReads(E, b, \h0B, o1) /\ EemReads(E, b, \h13, o2)
    BY <1>1 DEF Reworks
  <1>4. PICK c1, c2, c3, c4, c5 :
          /\ Sets(E, b, \h02, 0, c1) /\ Sets(E, c1, \h0A, 0, c2) /\ Sets(E, c2, \h12, 0, c3)
          /\ Sets(E, c3, \h02, o0, c4) /\ Sets(E, c4, \h0A, o1, c5) /\ Sets(E, c5, \h12, o2, b)
    BY <1>1 DEF Reworks
  <1>5. PICK x1 : Scanned(E, b, \h03, x1) /\ ScannedOut(E, x1, b, o0)
    BY <1>3 DEF EemReads
  <1>6. PICK x2 : Scanned(E, b, \h0B, x2) /\ ScannedOut(E, x2, b, o1)
    BY <1>3 DEF EemReads
  <1>7. PICK x3 : Scanned(E, b, \h13, x3) /\ ScannedOut(E, x3, b, o2)
    BY <1>3 DEF EemReads
  <1>8. PICK y1 : Scanned(E, b, \h02, y1) /\ Scanned(E, y1, 0, c1)
    BY <1>4 DEF Sets
  <1>9. PICK y2 : Scanned(E, c1, \h0A, y2) /\ Scanned(E, y2, 0, c2)
    BY <1>4 DEF Sets
  <1>10. PICK y3 : Scanned(E, c2, \h12, y3) /\ Scanned(E, y3, 0, c3)
    BY <1>4 DEF Sets
  <1>11. PICK y4 : Scanned(E, c3, \h02, y4) /\ Scanned(E, y4, o0, c4)
    BY <1>4 DEF Sets
  <1>12. PICK y5 : Scanned(E, c4, \h0A, y5) /\ Scanned(E, y5, o1, c5)
    BY <1>4 DEF Sets
  <1>13. PICK y6 : Scanned(E, c5, \h12, y6) /\ Scanned(E, y6, o2, b)
    BY <1>4 DEF Sets
  <1>14. Does(E, WorkaroundF149, P(b, ir, cntrl, 1, mab, dto, din, mdb, Fetch), g,
              P(b, IR_EMEX_DATA_EXCHANGE, cntrl, 1, mab, dto, din, mdb, Fetch), h)
    BY <1>2, <1>5, <1>6, <1>7, <1>8, <1>9, <1>10, <1>11, <1>12, <1>13, WorkaroundDoes
  <1> QED BY <1>2, <1>14 DEF Restores

-----------------------------------------------------------------------------
(* The end of a release by the older drivers.                              *)

\* The target is let go: from now on only its debug unit is changed.
Letting(p, u, w) ==
    /\ Ready(p, w) /\ w.cntrl = \h2401
    /\ w.reg = u.reg /\ w.pcok = u.pcok /\ w.n = u.n /\ w.mem = u.mem /\ w.eemctl = u.eemctl
Lets(E, p, u, s, w, g) ==
    \E z, h : Does(E, s, w, g, z, h) /\ Letting(p, u, z) /\ Knows(h)

\* c is w with other values in its debug unit.
SameSilicon(p, w, c) ==
    /\ Resting(p, c)
    /\ c.reg = w.reg /\ c.pcok = w.pcok /\ c.n = w.n /\ c.mem = w.mem /\ c.eemctl = w.eemctl

\* What a script leaves, behind the port, that keeps the control signals.
LetsAfter(E, s, w, g, c, ir, mab, dto, din, mdb) ==
    \E h : Knows(h) /\ Does(E, s, w, g, P(c, ir, \h2401, 1, mab, dto, din, mdb, Fetch), h)

\* A script that touches the debug unit only, at the end of a release.
LEMMA LetsThen ==
    ASSUME NEW p, Legacy(p), NEW E, NEW s, NEW u, NEW w, Letting(p, u, w), NEW g, NEW c,
           SameSilicon(p, w, c),
           NEW ir, NEW mab, NEW dto, NEW din, NEW mdb, ir \in Octets, ir # IR_DATA_QUICK,
           LetsAfter(E, s, w, g, c, ir, mab, dto, din, mdb)
    PROVE  Lets(E, p, u, s, w, g)
  <1> DEFINE k == \h2401
             z == P(c, ir, k, 1, mab, dto, din, mdb, Fetch)
  <1>1. PICK h : Knows(h) /\ Does(E, s, w, g, z, h)
    BY DEF LetsAfter
  <1>2. Rested(ir, k)
    BY DEF Rested
  <1>3. Sound(w)
    BY DEF Letting, Ready, Resting
  <1>4. Sound(z)
    BY <1>1, <1>3, DoesSound
  <1>5. k = \h2401
    OBVIOUS
  <1>6. Resting(p, c)
    BY DEF SameSilicon
  <1> HIDE DEF k
  <1>7. Ready(p, z) /\ Behind(c, z) /\ z.cntrl = k
    BY <1>2, <1>4, <1>6, ReadyAfter
  <1> HIDE DEF z
  <1>8. Letting(p, u, z)
    BY <1>5, <1>7 DEF Letting, SameSilicon, Behind
  <1> QED BY <1>1, <1>8 DEF Lets

\* A piece of the end of a release.
Passes(E, p, u, s) ==
    IsSeq(s) /\ \A w, g : Letting(p, u, w) /\ Knows(g) => Lets(E, p, u, s, w, g)

\* No script is one.
LEMMA PassesNothing ==
    ASSUME NEW E, NEW p, NEW u
    PROVE  Passes(E, p, u, <<>>)
  <1>1. IsSeq(<<>>)
    BY NoneIsSeq
  <1>2. \A w, g : Does(E, <<>>, w, g, w, g)
    BY DoesNothing
  <1> QED BY <1>1, <1>2 DEF Passes, Lets

\* Where a piece begins.
LEMMA LettingIs ==
    ASSUME NEW p, Legacy(p), NEW u, NEW w, Letting(p, u, w)
    PROVE  /\ w = P(w, w.ir, \h2401, 1, w.mab, w.dto, w.din, w.mdb, Fetch)
           /\ Calm(w) /\ Legacy(w) /\ SameSilicon(p, w, w) /\ Quiet(w) /\ Resting(p, w)
  <1>1. Ready(p, w) /\ w.cntrl = \h2401
    BY DEF Letting
  <1>2. w = P(w, w.ir, w.cntrl, 1, w.mab, w.dto, w.din, w.mdb, Fetch)
    BY <1>1, ReadyLegacy
  <1>3. Calm(w) /\ Legacy(w)
    BY <1>1, ReadyLegacy
  <1>4. Resting(p, w)
    BY <1>1 DEF Ready
  <1>5. SameSilicon(p, w, w) /\ Quiet(w)
    BY <1>3, <1>4 DEF SameSilicon, Calm
  <1> QED BY <1>1, <1>2, <1>3, <1>4, <1>5

\* The F149 workaround is one.
LEMMA PassesWorkaround ==
    ASSUME NEW p, Legacy(p), NEW E, NEW u
    PROVE  Passes(E, p, u, WorkaroundF149)
  <1>1. ASSUME NEW w, NEW g, Letting(p, u, w), Knows(g)
        PROVE  Lets(E, p, u, WorkaroundF149, w, g)
    <2> DEFINE k == \h2401
               z == P(w, IR_EMEX_DATA_EXCHANGE, k, 1, w.mab, w.dto, w.din, w.mdb, Fetch)
               v == P(w, w.ir, k, 1, w.mab, w.dto, w.din, w.mdb, Fetch)
    <2>1. w = v /\ Calm(w) /\ Legacy(w) /\ SameSilicon(p, w, w)
      BY <1>1, LettingIs
    <2>2. k = \h2401
      OBVIOUS
    <2> HIDE DEF k
    <2>3. Restores(E, WorkaroundF149, v, g, z)
      <3>1. Calm(w) /\ Legacy(w)
        BY <2>1
      <3> QED BY <1>1, <3>1, WorkaroundCall
    <2> HIDE DEF v, z
    <2>4. PICK h : Does(E, WorkaroundF149, w, g, z, h) /\ Knows(h)
      BY <2>1, <2>3 DEF Restores
    <2>5. LetsAfter(E, WorkaroundF149, w, g, w, IR_EMEX_DATA_EXCHANGE, w.mab, w.dto, w.din, w.mdb)
      BY <2>2, <2>4 DEF LetsAfter, z
    <2> QED BY <1>1, <2>1, <2>5, Ports, LetsThen
  <1> QED BY <1>1, MoreSeq DEF Passes

-----------------------------------------------------------------------------
(* The clock control, in the debug unit.                                   *)

\* The control words of the trigger blocks.
Blocks == {2, 10, 18}

\* The trigger blocks are registers of the debug unit.
LEMMA BlocksIn ==
    Blocks \subseteq EemAddr
  BY DEF Blocks, EemAddr

\* Other registers may change.
LEMMA EemRests ==
    ASSUME NEW p, NEW w, Resting(p, w), NEW e \in [EemAddr -> Nat], \A a \in Blocks : e[a] = w.eem[a]
    PROVE  SameSilicon(p, w, Eem(w, e))
  <1> DEFINE c == Eem(w, e)
  <1>1. Sound(w) /\ w \in Target
    BY RestingIs
  <1>2. Sound(c)
    BY <1>1, DebugSound DEF Eem, NoAddr
  <1>3. c = [w EXCEPT !.eemaddr = -1, !.eem = e]
    BY DEF Eem, Debug, NoAddr
  <1>4. c.eem = e /\ c.eemaddr = -1 /\ c.jmb = w.jmb
    BY <1>1, <1>3 DEF Target
  <1>5. Belongs(p, c)
    <2>1. c.drv = w.drv /\ c.id = w.id /\ c.need = w.need /\ c.has_locka = w.has_locka /\ c.per = w.per
      BY <1>3
    <2> QED BY <2>1 DEF Resting, Belongs
  <1>6. Shut(c)
    <2>1. /\ c.lock = w.lock /\ c.locka = w.locka /\ c.has_locka = w.has_locka /\ c.wrt = w.wrt
          /\ c.erase = w.erase /\ c.busy = w.busy /\ c.doomed = w.doomed /\ c.violated = w.violated
          /\ c.spent = w.spent
      BY <1>3
    <2> QED BY <2>1 DEF Resting, Shut
  <1>7. Armed(c)
    BY <1>4 DEF Resting, Armed, Blocks
  <1>8. c.reg = w.reg /\ c.pcok = w.pcok /\ c.n = w.n /\ c.mem = w.mem /\ c.eemctl = w.eemctl
    BY <1>3
  <1> HIDE DEF c
  <1>9. Resting(p, c)
    BY <1>2, <1>4, <1>5, <1>6, <1>7 DEF Resting
  <1> QED BY <1>8, <1>9 DEF SameSilicon, c

\* A register of the clock control takes n.
ClockSet(p, E, w, a, n) == \E c : Sets(E, w, a, n, c) /\ SameSilicon(p, w, c)

\* The clock control of the debug unit is no trigger block.
LEMMA ClockSets ==
    ASSUME NEW p, NEW w, Resting(p, w), NEW a \in Nat, a \notin Blocks, NEW n \in Nat, NEW E
    PROVE  ClockSet(p, E, w, a, n)
  <1> DEFINE e == w.eem
             e2 == IF a % 2 = 0 /\ a \in EemAddr THEN [e EXCEPT ![a] = n] ELSE e
  <1>1. Quiet(w) /\ Sound(w)
    BY RestingIs
  <1>2. w = Eem(w, e) /\ e \in [EemAddr -> Nat]
    BY <1>1, EemSelf
  <1>3. \A x \in Blocks : e2[x] = e[x]
    BY <1>2, BlocksIn
  <1>4. e2 = (IF a % 2 = 0 /\ a \in EemAddr THEN [e EXCEPT ![a] = n] ELSE e)
    OBVIOUS
  <1> HIDE DEF e2
  <1>5. Sets(E, Eem(w, e), a, n, Eem(w, e2)) /\ e2 \in [EemAddr -> Nat]
    <2> HIDE DEF e
    <2> QED BY <1>1, <1>2, <1>4, EemSets
  <1>6. SameSilicon(p, w, Eem(w, e2))
    BY <1>3, <1>5, EemRests
  <1> QED BY <1>2, <1>5, <1>6 DEF ClockSet

\* The modules clocked: address and value.
GClk  == \h88
GClkX == \h82
\* The addresses of the clock control.
LEMMA GClkAre ==
    /\ GClk \in Nat /\ GClk \notin Blocks /\ GClkX \in Nat /\ GClkX \notin Blocks
    /\ GClk + 1 \in Nat /\ (GClk + 1) % 2 # 0 /\ GClk \in EemAddr
    /\ GClk \in Values16 /\ GClkX \in Values16
  BY DEF GClk, GClkX, Blocks, EemAddr, Values16

\* Setting the clock control is such a script.
LEMMA PassesClock ==
    ASSUME NEW p, Legacy(p), NEW E, NEW u, NEW n \in Values16
    PROVE  Passes(E, p, u, Play(<<kIrDr16(IR_EMEX_DATA_EXCHANGE, MX_GCLKCTRL + MX_WRITE), kDr16Argv>>, <<n>>))
  <1> DEFINE s == Play(<<kIrDr16(IR_EMEX_DATA_EXCHANGE, \h88), kDr16Argv>>, <<n>>)
  <1>0. Play(<<kIrDr16(IR_EMEX_DATA_EXCHANGE, MX_GCLKCTRL + MX_WRITE), kDr16Argv>>, <<n>>) = s
    BY DEF MX_GCLKCTRL, MX_WRITE
  <1>1. ASSUME NEW w, NEW g, Letting(p, u, w), Knows(g)
        PROVE  Lets(E, p, u, s, w, g)
    <2> DEFINE k == \h2401
               v == P(w, w.ir, k, 1, w.mab, w.dto, w.din, w.mdb, Fetch)
    <2>1. w = v /\ Calm(w) /\ Legacy(w) /\ Resting(p, w)
      BY <1>1, LettingIs
    <2>2. k = \h2401
      OBVIOUS
    <2> HIDE DEF k
    <2>3a. n \in Nat
      BY DEF Values16
    <2>3. n \in Nat /\ Low(n, n)
      BY <2>3a, LowOf
    <2>4. PICK c : Sets(E, w, GClk, n, c) /\ SameSilicon(p, w, c)
      BY <2>1, <2>3, GClkAre, ClockSets DEF ClockSet
    <2>5. PICK c1 : Scanned(E, w, GClk, c1) /\ Scanned(E, c1, n, c)
      BY <2>4 DEF Sets
    <2> DEFINE z == P(c, IR_EMEX_DATA_EXCHANGE, k, 1, w.mab, w.dto, w.din, w.mdb, Fetch)
    <2>6. Does(E, s, v, g, z, g)
      <3>1. Calm(w) /\ Legacy(w) /\ Scanned(E, w, \h88, c1)
        BY <2>1, <2>5 DEF GClk
      <3> QED BY <2>3, <2>5, <3>1, ClockRows
    <2> HIDE DEF v, z, s
    <2>7. Does(E, s, w, g, z, g)
      BY <2>1, <2>6
    <2>8. LetsAfter(E, s, w, g, c, IR_EMEX_DATA_EXCHANGE, w.mab, w.dto, w.din, w.mdb)
      BY <1>1, <2>2, <2>7 DEF LetsAfter, z
    <2> QED BY <1>1, <2>4, <2>8, Ports, LetsThen
  <1>2. IsSeq(s)
    BY PlaySeq
  <1> QED BY <1>0, <1>1, <1>2 DEF Passes

\* A local variable without one of its bits is shifted in.
Less(o, k) == o - Bit(o, k) * k
\* A word without some of its bits is a word.
LEMMA LessIn ==
    ASSUME NEW o \in Nat
    PROVE  Less(o, \h10) \in Nat
  <1>1. \h10 = 16
    OBVIOUS
  <1>2. Bit(o, 16) = (o \div 16) % 2
    BY DEF Bit
  <1>3. o - ((o \div 16) % 2) * 16 \in Nat
    <2>1. (o \div 16) % 2 \in {0, 1}
      OBVIOUS
    <2>2. CASE (o \div 16) % 2 = 0
      BY <2>2
    <2>3. CASE (o \div 16) % 2 = 1
      <3>1. o >= 16
        BY <2>3
      <3> QED BY <2>3, <3>1
    <2> QED BY <2>1, <2>2, <2>3
  <1> QED BY <1>1, <1>2, <1>3 DEF Less

\* A data scan of a variable without some of its bits.
LEMMA DrScannedLess ==
    ASSUME NEW E, NEW g, NEW b, NEW ir, NEW cntrl, NEW tclk, NEW mab, NEW dto, NEW din, NEW mdb,
           NEW cpu, ir \in EemCodes, NEW c, NEW v, Plain(v), NEW k, k # 0, NEW o, Has(g, v, o),
           NEW d, d = Less(o, k), Scanned(E, b, d, c)
    PROVE  Does(E, DrFrom(v, k), P(b, ir, cntrl, tclk, mab, dto, din, mdb, cpu), g, P(c, ir, cntrl, tclk, mab, dto, din, mdb, cpu), g)
  <1>1. c = EmexScan(b, d) /\ Moved(b, c, E)
    BY DEF Scanned
  <1>2. d = g[v] - Bit(g[v], k) * k
    BY DEF Has, Less
  <1>3. v \notin {"", "buf"}
    BY DEF Plain
  <1>4. d = IF k = 0 THEN g[v] ELSE g[v] - Bit(g[v], k) * k
    BY <1>2
  <1> HIDE DEF Less
  <1> QED BY <1>1, <1>3, <1>4, DrEem

\* A step that scans an instruction and a word into the debug unit.
LEMMA ScanRow ==
    ASSUME NEW E, NEW g, NEW b, Quiet(b), NEW ir, NEW cntrl, NEW tclk, NEW mab, NEW dto, NEW din,
           NEW mdb, NEW cpu, NEW n \in Octets, n \in EemCodes, n # IR_CNTRL_SIG_RELEASE,
           NEW d \in Values16, NEW c, Scanned(E, b, d, c)
    PROVE  Does(E, Play1(kIrDr16(n, d)), P(b, ir, cntrl, tclk, mab, dto, din, mdb, cpu), g, P(c, n, cntrl, tclk, mab, dto, din, mdb, cpu), g) /\ IsSeq(Play1(kIrDr16(n, d)))
  <1>1. Does(E, Ir(n), P(b, ir, cntrl, tclk, mab, dto, din, mdb, cpu), g, P(b, n, cntrl, tclk, mab, dto, din, mdb, cpu), g)
    BY IrDoes
  <1>2. Does(E, Dr(d), P(b, n, cntrl, tclk, mab, dto, din, mdb, cpu), g, P(c, n, cntrl, tclk, mab, dto, din, mdb, cpu), g)
    BY DrScanned
  <1> DEFINE t1 == P(b, ir, cntrl, tclk, mab, dto, din, mdb, cpu)
             t2 == P(b, n, cntrl, tclk, mab, dto, din, mdb, cpu)
             t3 == P(c, n, cntrl, tclk, mab, dto, din, mdb, cpu)
  <1> HIDE DEF t1, t2, t3
  <1>3. Does(E, Play1(kIrDr16(n, d)), t1, g, t3, g) /\ IsSeq(Play1(kIrDr16(n, d)))
    <2>1. Does(E, Ir(n), t1, g, t2, g) /\ Does(E, Dr(d), t2, g, t3, g)
      BY <1>1, <1>2 DEF t1, t2, t3
    <2> QED BY <2>1, DoesIrDr
  <1> QED BY <1>3 DEF t1, t3

\* A register of the debug unit is read and written back with a bit cleared.
LEMMA PassesFll ==
    ASSUME NEW p, Legacy(p), NEW E, NEW u
    PROVE  Passes(E, p, u, ReleaseFll)
  <1> DEFINE a == Play(<<kIrDr16(IR_EMEX_DATA_EXCHANGE, \h89), kDr16_ret(0)>>, <<"clk_ctrl">>)
             b == Play1(kIrDr16(IR_EMEX_DATA_EXCHANGE, \h88))
             m == \h10
             d == DrFrom("clk_ctrl", m)
  <1>0. ReleaseFll = a \o b \o d
    BY DEF ReleaseFll, MX_GCLKCTRL, MX_WRITE, MX_READ
  <1>1. IsSeq(a) /\ IsSeq(d)
    BY PlaySeq, PrimSeq
  <1>2. m # 0 /\ (\A o \in Nat : Less(o, m) \in Nat) /\ Plain("clk_ctrl")
    BY LessIn, PlainAre
  <1> HIDE DEF m
  <1>3. ASSUME NEW w, NEW g, Letting(p, u, w), Knows(g)
        PROVE  Lets(E, p, u, a \o b \o d, w, g) /\ IsSeq(b)
    <2> DEFINE k == \h2401
               n == IR_EMEX_DATA_EXCHANGE
               v == P(w, w.ir, k, 1, w.mab, w.dto, w.din, w.mdb, Fetch)
               o == w.eem[GClk]
               h == Got(g, "clk_ctrl", o)
               y == P(w, n, k, 1, w.mab, w.dto, w.din, w.mdb, Fetch)
    <2>1. w = v /\ Calm(w) /\ Legacy(w) /\ Resting(p, w) /\ Quiet(w) /\ Sound(w)
      BY <1>3, LettingIs DEF Quiet
    <2>2. k = \h2401
      OBVIOUS
    <2>3. n \in EemCodes /\ n \in Octets /\ n # IR_CNTRL_SIG_RELEASE
      BY Ports, EemCodesAre
    <2> HIDE DEF k
    <2>4. w = Eem(w, w.eem) /\ w.eem \in [EemAddr -> Nat]
      BY <2>1, EemSelf
    <2>5. o \in Nat
      BY <2>4, GClkAre
    <2>6. EemReads(E, w, GClk + 1, o)
      <3> DEFINE e == w.eem
      <3>1. w = Eem(w, e) /\ e \in [EemAddr -> Nat]
        BY <2>4
      <3> HIDE DEF e
      <3>2. EemReads(E, Eem(w, e), GClk + 1, e[GClk])
        BY <2>1, <3>1, GClkAre, EemShows
      <3>3. EemReads(E, w, GClk + 1, e[GClk])
        BY <3>1, <3>2
      <3> QED BY <3>3 DEF e
    <2>7. Knows(h) /\ Has(h, "clk_ctrl", o)
      BY <1>3, GotIs, LocalsAre DEF Has
    <2> HIDE DEF o, h
    <2>8. PICK c1 : Scanned(E, w, GClk + 1, c1) /\ ScannedOut(E, c1, w, o)
      BY <2>6 DEF EemReads
    <2>9. Does(E, a, v, g, y, h)
      <3>1. Calm(w) /\ Legacy(w) /\ Scanned(E, w, \h89, c1)
        <4>1. GClk + 1 = \h89
          BY DEF GClk
        <4> QED BY <2>1, <2>8, <4>1
      <3> QED BY <2>8, <3>1, FllRows DEF h
    <2>10. Less(o, m) \in Nat
      BY <1>2, <2>5
    <2> DEFINE l == Less(o, m)
    <2>11. PICK c : Sets(E, w, GClk, l, c) /\ SameSilicon(p, w, c)
      BY <2>1, <2>10, GClkAre, ClockSets DEF ClockSet
    <2>12. PICK c2 : Scanned(E, w, GClk, c2) /\ Scanned(E, c2, l, c)
      BY <2>11 DEF Sets
    <2> DEFINE x == P(c2, n, k, 1, w.mab, w.dto, w.din, w.mdb, Fetch)
               z == P(c, n, k, 1, w.mab, w.dto, w.din, w.mdb, Fetch)
    <2> HIDE DEF n
    <2>13. Does(E, Play1(kIrDr16(n, GClk)), y, h, x, h) /\ IsSeq(Play1(kIrDr16(n, GClk)))
      <3> HIDE DEF y, x
      <3> DEFINE wir == w.ir
      <3>1. Does(E, Play1(kIrDr16(n, GClk)), P(w, n, k, 1, w.mab, w.dto, w.din, w.mdb, Fetch), h,
                 P(c2, n, k, 1, w.mab, w.dto, w.din, w.mdb, Fetch), h) /\ IsSeq(Play1(kIrDr16(n, GClk)))
        BY <2>1, <2>3, <2>12, GClkAre, ScanRow
      <3> QED BY <3>1 DEF y, x
    <2>14. b = Play1(kIrDr16(n, GClk))
      BY DEF GClk, n
    <2>15. Does(E, d, x, h, z, h)
      <3>1. l = Less(o, m)
        OBVIOUS
      <3> HIDE DEF l
      <3>2. Does(E, DrFrom("clk_ctrl", m), P(c2, n, k, 1, w.mab, w.dto, w.din, w.mdb, Fetch), h,
                 P(c, n, k, 1, w.mab, w.dto, w.din, w.mdb, Fetch), h)
        BY <1>2, <2>3, <2>7, <2>12, <3>1, DrScannedLess
      <3> QED BY <3>2
    <2>16. Does(E, b, y, h, x, h) /\ IsSeq(b)
      <3> HIDE DEF y, x
      <3> QED BY <2>13, <2>14
    <2> HIDE DEF v, y, x, z, a, b, d
    <2>17. Does(E, a, w, g, y, h)
      BY <2>1, <2>9
    <2>18. Does(E, a \o b, w, g, x, h) /\ IsSeq(a \o b)
      BY <1>1, <2>16, <2>17, DoesBoth
    <2>19. Does(E, (a \o b) \o d, w, g, z, h)
      BY <1>1, <2>15, <2>18, DoesBoth
    <2>20. LetsAfter(E, a \o b \o d, w, g, c, n, w.mab, w.dto, w.din, w.mdb)
      BY <2>2, <2>7, <2>19 DEF LetsAfter, z
    <2>21. n \in Octets /\ n # IR_DATA_QUICK
      BY Ports DEF n
    <2> QED BY <1>3, <2>11, <2>16, <2>20, <2>21, LetsThen
  <1>4. IsSeq(b)
    <2>1. IR_EMEX_DATA_EXCHANGE \in Octets /\ GClk \in Values16
      BY Ports, GClkAre
    <2> QED BY <2>1, MoreSeq DEF GClk
  <1>5. IsSeq(a \o b \o d)
    <2> HIDE DEF a, b, d
    <2>1. IsSeq(a \o b)
      BY <1>1, <1>4, SeqConcat
    <2> QED BY <1>1, <2>1, SeqConcat
  <1> QED BY <1>0, <1>3, <1>5 DEF Passes

\* Setting the clock control of a part with 32 bits is such a script.
LEMMA PassesClock_X ==
    ASSUME NEW p, Legacy(p), NEW E, NEW u
    PROVE  Passes(E, p, u, Play1(kIrDr32(IR_EMEX_DATA_EXCHANGE32, \h82)) \o Play1(kDr32(\h0F)))
  <1> DEFINE n == IR_EMEX_DATA_EXCHANGE32
             m == \h0F
             a == Play1(kIrDr16(n, GClkX))
             b == Play1(kDr16(m))
  <1>0. Play1(kIrDr32(IR_EMEX_DATA_EXCHANGE32, \h82)) \o Play1(kDr32(\h0F)) = a \o b
    BY DEF kIrDr32, kDr32, GClkX
  <1>1. n \in EemCodes /\ n \in Octets /\ n # IR_CNTRL_SIG_RELEASE /\ n # IR_DATA_QUICK
    BY Ports, EemCodesAre, Codes
  <1>2. m \in Values16 /\ m \in Nat
    BY DEF Values16
  <1> HIDE DEF n, m
  <1>3. b = Dr(m)
    BY <1>2, PackDr
  <1>4. IsSeq(b)
    BY <1>3, PrimSeq
  <1>5. IsSeq(a)
    BY <1>1, GClkAre, MoreSeq
  <1>6. ASSUME NEW w, NEW g, Letting(p, u, w), Knows(g)
        PROVE  Lets(E, p, u, a \o b, w, g)
    <2> DEFINE k == \h2401
               v == P(w, w.ir, k, 1, w.mab, w.dto, w.din, w.mdb, Fetch)
    <2>1. w = v /\ Resting(p, w) /\ Quiet(w)
      BY <1>6, LettingIs
    <2>2. k = \h2401
      OBVIOUS
    <2> HIDE DEF k
    <2>3. PICK c : Sets(E, w, GClkX, m, c) /\ SameSilicon(p, w, c)
      BY <1>2, <2>1, GClkAre, ClockSets DEF ClockSet
    <2>4. PICK c2 : Scanned(E, w, GClkX, c2) /\ Scanned(E, c2, m, c)
      BY <2>3 DEF Sets
    <2> DEFINE x == P(c2, n, k, 1, w.mab, w.dto, w.din, w.mdb, Fetch)
               z == P(c, n, k, 1, w.mab, w.dto, w.din, w.mdb, Fetch)
    <2>5. Does(E, a, v, g, x, g)
      BY <1>1, <2>1, <2>4, GClkAre, ScanRow
    <2>6. Does(E, b, x, g, z, g)
      <3>1. Does(E, Dr(m), x, g, z, g)
        BY <1>1, <2>4, DrScanned
      <3> QED BY <1>3, <3>1
    <2> HIDE DEF v, x, z, a, b
    <2>7. Does(E, a \o b, w, g, z, g)
      BY <1>4, <1>5, <2>1, <2>5, <2>6, DoesBoth
    <2>8. LetsAfter(E, a \o b, w, g, c, n, w.mab, w.dto, w.din, w.mdb)
      BY <1>6, <2>2, <2>7 DEF LetsAfter, z
    <2> QED BY <1>1, <1>6, <2>3, <2>8, LetsThen
  <1>7. IsSeq(a \o b)
    <2> HIDE DEF a, b
    <2> QED BY <1>4, <1>5, SeqConcat
  <1> QED BY <1>0, <1>6, <1>7 DEF Passes

\* The instruction at a breakpoint is put on the bus, or nothing is.
LEMMA PassesMdb ==
    ASSUME NEW p, Legacy(p), NEW E, NEW u, NEW mdbval \in Values16
    PROVE  Passes(E, p, u, PreloadMdb(mdbval))
  <1> DEFINE a == Ir(IR_ADDR_CAPTURE)
             b == Play(<<kIrDr16Argv(kdNone, IR_DATA_16BIT, kdTclk0),
                         kIr(kdNone, IR_ADDR_CAPTURE, kdTclk1)>>, <<mdbval>>)
  <1>1. PreloadMdb(mdbval) = IF mdbval = kSwBkpInstr THEN a ELSE b
    BY DEF PreloadMdb
  <1>2. IsSeq(a) /\ IsSeq(b)
    BY PrimSeq, PlaySeq
  <1>3. ASSUME NEW w, NEW g, Letting(p, u, w), Knows(g)
        PROVE  Lets(E, p, u, a, w, g) /\ Lets(E, p, u, b, w, g)
    <2> DEFINE k == \h2401
               v == P(w, w.ir, k, 1, w.mab, w.dto, w.din, w.mdb, Fetch)
               x == P(w, IR_ADDR_CAPTURE, k, 1, w.mab, w.dto, w.din, w.mdb, Fetch)
               z == P(w, IR_ADDR_CAPTURE, k, 1, w.mab, w.dto, mdbval, w.mdb, Fetch)
    <2>1. w = v /\ Calm(w) /\ Legacy(w) /\ SameSilicon(p, w, w) /\ Quiet(w)
      BY <1>3, LettingIs
    <2>2. Does(E, b, v, g, z, g)
      BY <2>1, LowOf, MdbRows
    <2>3. k = \h2401
      OBVIOUS
    <2> HIDE DEF k
    <2>4. Does(E, a, v, g, x, g)
      BY <2>1, Ports, IrDoes
    <2> HIDE DEF v, x, z, a, b
    <2>5. Does(E, a, w, g, x, g) /\ Does(E, b, w, g, z, g)
      BY <2>1, <2>2, <2>4
    <2>6. LetsAfter(E, a, w, g, w, IR_ADDR_CAPTURE, w.mab, w.dto, w.din, w.mdb)
      BY <1>3, <2>3, <2>5 DEF LetsAfter, x
    <2>7. LetsAfter(E, b, w, g, w, IR_ADDR_CAPTURE, w.mab, w.dto, mdbval, w.mdb)
      BY <1>3, <2>3, <2>5 DEF LetsAfter, z
    <2> QED BY <1>3, <2>1, <2>6, <2>7, Ports, LetsThen
  <1> QED BY <1>1, <1>2, <1>3 DEF Passes

-----------------------------------------------------------------------------
(* A release by the older drivers.                                         *)

\* With s the target is let go, as v is.
Freed(E, p, s, u, g, v) ==
    IsSeq(s) /\ \E w, h : Does(E, s, u, g, w, h) /\ Letting(p, v, w) /\ Knows(h)

\* A release goes on with a script that touches the debug unit only.
LEMMA FreedNext ==
    ASSUME NEW E, NEW p, NEW s, NEW u, NEW g, NEW v, Freed(E, p, s, u, g, v), NEW b,
           Passes(E, p, v, b)
    PROVE  Freed(E, p, s \o b, u, g, v)
  <1>1. PICK w, h : Does(E, s, u, g, w, h) /\ Letting(p, v, w) /\ Knows(h)
    BY DEF Freed
  <1>2. PICK z, l : Does(E, b, w, h, z, l) /\ Letting(p, v, z) /\ Knows(l)
    BY <1>1 DEF Passes, Lets
  <1>3. IsSeq(s) /\ IsSeq(b)
    BY DEF Freed, Passes
  <1>4. Does(E, s \o b, u, g, z, l) /\ IsSeq(s \o b)
    BY <1>1, <1>2, <1>3, DoesBoth
  <1> QED BY <1>2, <1>4 DEF Freed

\* The debug unit is told n.
Ctl(b, n) == [b EXCEPT !.eemctl = n]

\* The fields of a target whose EEM control register is given.
LEMMA CtlIs ==
    ASSUME NEW b, b \in Target, NEW n \in Nat, NEW c, c = Ctl(b, n)
    PROVE  /\ c \in Target /\ c.eemctl = n /\ c.drv = b.drv /\ c.mem = b.mem /\ c.reg = b.reg /\ c.n = b.n
           /\ c.pcok = b.pcok /\ c.mab = b.mab /\ c.running = b.running
  BY Zenon DEF Ctl, Target

\* Writing that register moves nothing else.
LEMMA CtlMoved ==
    ASSUME NEW E, NEW b, Sound(b), NEW n \in Nat
    PROVE  Moved(b, Ctl(b, n), E)
  <1> DEFINE c == Ctl(b, n)
  <1>1. b \in Target
    BY DEF Sound
  <1>2. /\ c \in Target /\ c.drv = b.drv /\ c.mem = b.mem /\ c.reg = b.reg /\ c.n = b.n /\ c.mab = b.mab
        /\ c.running = b.running
    BY <1>1, CtlIs
  <1> HIDE DEF c
  <1>3. RegValues(c) = RegValues(b)
    BY <1>2 DEF RegValues, RegSize
  <1>4. Sound(c)
    BY <1>2, <1>3 DEF Sound
  <1>5. Same(b, c)
    BY <1>2 DEF Same, Held
  <1>6. Moved(b, c, E)
    BY <1>2, <1>4, <1>5 DEF Moved, Fits
  <1> QED BY <1>6 DEF c

\* A target between two operations stays one.
LEMMA CtlRests ==
    ASSUME NEW p, NEW w, Resting(p, w), NEW n \in Nat
    PROVE  /\ Resting(p, Ctl(w, n)) /\ Ctl(w, n).eemctl = n /\ Ctl(w, n).reg = w.reg
           /\ Ctl(w, n).pcok = w.pcok /\ Ctl(w, n).n = w.n /\ Ctl(w, n).mem = w.mem
  <1> DEFINE c == Ctl(w, n)
  <1>1. Sound(w) /\ w \in Target
    BY RestingIs
  <1>2. Moved(w, c, {})
    BY <1>1, CtlMoved
  <1>3. c = [w EXCEPT !.eemctl = n]
    BY DEF Ctl
  <1>4. c.eemctl = n /\ c.reg = w.reg /\ c.pcok = w.pcok /\ c.n = w.n /\ c.mem = w.mem
    BY <1>1, CtlIs
  <1>5. Akin(w, c)
    BY <1>3 DEF Akin
  <1> HIDE DEF c
  <1>6. Resting(p, c)
    BY <1>2, <1>5, AkinRests DEF Moved
  <1> QED BY <1>4, <1>6 DEF c

\* The words for the EEM control register.
LEMMA EemWordIn ==
    ASSUME NEW r \in BOOLEAN
    PROVE  EemWord(r) \in Nat /\ EemWord(r) \in Values16
  BY DEF EemWord, Values16

\* A release writes the EEM control register with the breakpoints switched as
\* asked.
LEMMA FreedControl ==
    ASSUME NEW p, Legacy(p), NEW E, NEW s, NEW u, NEW g, NEW v, v \in Target,
           Freed(E, p, s, u, g, v),
           NEW r, EemWord(r) \in Nat, EemWord(r) \in Values16
    PROVE  Freed(E, p, s \o EemControl(r), u, g, Ctl(v, EemWord(r)))
  <1> DEFINE n == EemWord(r)
             j == IR_EMEX_WRITE_CONTROL
             k == \h2401
             a == EemControl(r)
  <1>1. PICK w, h : Does(E, s, u, g, w, h) /\ Letting(p, v, w) /\ Knows(h)
    BY DEF Freed
  <1> DEFINE c == Ctl(w, n)
             y == P(w, w.ir, k, 1, w.mab, w.dto, w.din, w.mdb, Fetch)
             x == P(w, j, k, 1, w.mab, w.dto, w.din, w.mdb, Fetch)
             z == P(c, j, k, 1, w.mab, w.dto, w.din, w.mdb, Fetch)
             v2 == Ctl(v, n)
  <1>2. w = y /\ Quiet(w) /\ Resting(p, w) /\ SameSilicon(p, w, w)
    BY <1>1, LettingIs
  <1>3. Sound(w)
    BY <1>2 DEF Quiet
  <1>4. j \in Octets /\ j # IR_CNTRL_SIG_RELEASE /\ j # IR_DATA_QUICK
    BY Ports
  <1>5. k = \h2401
    OBVIOUS
  <1> HIDE DEF k
  <1>6. Does(E, Ir(j), y, h, x, h)
    BY <1>2, <1>4, IrDoes
  <1>7. Does(E, Dr(n), x, h, z, h)
    <2>1. Moved(w, c, E)
      BY <1>3, CtlMoved
    <2>2. c = [w EXCEPT !.eemctl = n]
      BY DEF Ctl
    <2> HIDE DEF c
    <2> QED BY <2>1, <2>2, DrControl
  <1>8. a = Play1(kIrDr16(j, n))
    BY DEF EemControl, EemWord
  <1> HIDE DEF n, j, a, x, y, z
  <1>9. Does(E, a, y, h, z, h) /\ IsSeq(a)
    BY <1>4, <1>6, <1>7, <1>8, DoesIrDr DEF n
  <1>10. /\ Resting(p, c) /\ c.eemctl = n /\ c.reg = w.reg /\ c.pcok = w.pcok /\ c.n = w.n /\ c.mem = w.mem
    BY <1>2, CtlRests DEF n
  <1>11. v2.eemctl = n /\ v2.reg = v.reg /\ v2.pcok = v.pcok /\ v2.n = v.n /\ v2.mem = v.mem
    BY CtlIs DEF n
  <1>12. Rested(j, k)
    BY <1>4, <1>5 DEF Rested
  <1>13. Sound(z)
    BY <1>2, <1>3, <1>9, DoesSound
  <1> HIDE DEF c, v2
  <1>14. Ready(p, z) /\ Behind(c, z) /\ z.cntrl = k
    BY <1>10, <1>12, <1>13, ReadyAfter DEF z
  <1>15. Letting(p, v2, z)
    BY <1>1, <1>5, <1>10, <1>11, <1>14 DEF Letting, Behind
  <1>16. IsSeq(s)
    BY DEF Freed
  <1>17. Does(E, s \o a, u, g, z, h) /\ IsSeq(s \o a)
    BY <1>1, <1>2, <1>9, <1>16, DoesBoth
  <1>18. Freed(E, p, s \o a, u, g, v2)
    BY <1>1, <1>15, <1>17 DEF Freed
  <1> QED BY <1>18 DEF v2, a, n

\* The registers and the watchdog are as the program has them.
StatusReg == 2
Prepare(p, ctx)   == SetRegBy(p, StatusReg, ctx.sr) \o WriteOne(p, WDT_ADDR_CPU, ctx.wdt) \o SetPCBy(p, ctx.pc)
Restarts(E, p, s, u, g, pc) ==
    \E v : Freed(E, p, s, u, g, v) /\ v \in Target /\ v.pcok /\ v.reg[0] = pc /\ v.n = u.n + 1

\* A context the program is let go in.
ContextOf(p, ctx) == ctx.pc \in RegValues(p) /\ ctx.sr \in Values16 /\ ctx.wdt \in Values16

\* A word is a register value of every driver.
LEMMA Values16In ==
    ASSUME NEW p, NEW v \in Values16
    PROVE  v \in RegValues(p)
  BY DEF Values16, RegValues, RegSize

\* A release of the older drivers sets the status register and the program
\* counter.
LEMMA Prepared ==
    ASSUME NEW p, Legacy(p), NEW E, NEW g, Knows(g), NEW u, Ready(p, u), NEW ctx, ContextOf(p, ctx),
           NextReg(E, u, StatusReg, ctx.sr)
    PROVE  Restarts(E, p, Prepare(p, ctx), u, g, ctx.pc)
  <1> DEFINE r == StatusReg
             x == WDT_ADDR_CPU
             a == SetRegBy(p, r, ctx.sr)
             b == WriteOne(p, x, ctx.wdt)
             d == SetPCBy(p, ctx.pc)
  <1>1. r \in Regs \ {0}
    BY DEF Regs, StatusReg
  <1>2. ctx.pc \in RegValues(p) /\ ctx.sr \in RegValues(p) /\ ctx.wdt \in Values16
    BY Values16In DEF ContextOf
  <1> HIDE DEF r, x
  <1>3. PICK w1 : /\ Does(E, a, u, g, w1, g) /\ Ready(p, w1) /\ Akin(u, w1) /\ w1.n = u.n + 1
    <2>1. NextReg(E, u, r, ctx.sr)
      BY DEF r
    <2>2. SetsReg(p, E, u, g, r, ctx.sr)
      BY <1>1, <1>2, <2>1, SetRegCall
    <2> QED BY <2>2 DEF SetsReg
  <1>4. IsSeq(a) /\ IsSeq(d)
    BY SetRegSeq, SetPCSeq DEF SetRegBy, SetPCBy
  <1>5. Resting(p, w1) /\ Calm(w1) /\ Legacy(w1)
    BY <1>3, ReadyLegacy DEF Ready
  <1> DEFINE c == Written(w1, x, ctx.wdt)
  <1>6. x = WdtAddr(w1) /\ x \in RegValues(p)
    <2>1. WDT_ADDR_CPU = WdtAddr(w1)
      BY <1>5 DEF WDT_ADDR_CPU, WdtAddr
    <2>2. WDT_ADDR_CPU \in Values16
      BY DEF WDT_ADDR_CPU, Values16
    <2> QED BY <2>1, <2>2, Values16In DEF x
  <1>7. /\ Wrote(E, w1, x, ctx.wdt, c) /\ Calm(c) /\ Sound(c) /\ Akin(w1, c) /\ c.n = w1.n
    BY <1>2, <1>5, <1>6, WroteWdt
  <1> HIDE DEF c
  <1>8. Resting(p, c)
    BY <1>5, <1>7, AkinRests
  <1>9. PICK w2 : Does(E, b, w1, g, w2, g) /\ LetGo(p, c, w2)
    BY <1>2, <1>3, <1>6, <1>7, <1>8, WriteOneDoes
  <1>10. IsSeq(b)
    BY <1>2, <1>3, <1>6, <1>7, <1>8, WriteOneDoes
  <1>11. Ready(p, w2) /\ w2.cntrl = \h2401 /\ w2.n = u.n + 1
    BY <1>3, <1>7, <1>9 DEF LetGo, Behind
  <1>12. PICK w3 : /\ Does(E, d, w2, g, w3, g) /\ Ready(p, w3) /\ Unmoved(w2, w3)
                   /\ w3.pcok /\ w3.reg[0] = ctx.pc /\ w3.cntrl = \h2401
    <2>1. SetsPC(p, E, w2, g, ctx.pc)
      BY <1>2, <1>11, SetPCCall
    <2> QED BY <1>11, <2>1 DEF SetsPC
  <1> HIDE DEF a, b, d
  <1>13. Does(E, a \o b, u, g, w2, g) /\ IsSeq(a \o b)
    BY <1>3, <1>4, <1>9, <1>10, DoesBoth
  <1>14. Does(E, a \o b \o d, u, g, w3, g) /\ IsSeq(a \o b \o d)
    BY <1>4, <1>12, <1>13, DoesBoth
  <1>15. Letting(p, w3, w3)
    BY <1>12 DEF Letting
  <1>16. w3 \in Target /\ w3.n = u.n + 1
    BY <1>11, <1>12 DEF Ready, Resting, Sound, Unmoved
  <1>17. Freed(E, p, a \o b \o d, u, g, w3)
    BY <1>14, <1>15 DEF Freed
  <1>18. Prepare(p, ctx) = a \o b \o d
    BY DEF Prepare, a, b, d, r, x
  <1> QED BY <1>12, <1>16, <1>17, <1>18 DEF Restarts

\* The target is about to be let go, as c asks for.
LeavesAs(p, c, u, w) ==
    Resting(p, w) /\ w.pcok /\ w.reg[0] = Resume(p, c) /\ w.eemctl = EemWord(c.bkpt) /\ w.n = u.n + 1
Leaves(p, E, s, u, g, c) == IsSeq(s) /\ \E w, h : Does(E, s, u, g, w, h) /\ LeavesAs(p, c, u, w)
\* ... and is.
Releases(p, E, s, u, g, c) == \E a : s = a \o Ir(IR_CNTRL_SIG_RELEASE) /\ Leaves(p, E, a, u, g, c)

\* The clock control is told what to clock, or is left alone.
LEMMA PassesClocks ==
    ASSUME NEW p, Legacy(p), NEW E, NEW u, NEW prof
    PROVE  /\ Passes(E, p, u, IF prof.clk_ctrl # "none" /\ prof.stop_fll THEN ReleaseFll ELSE <<>>)
           /\ Passes(E, p, u,
                CASE prof.clk_ctrl = "extended"  ->
                       Play(<<kIrDr16(IR_EMEX_DATA_EXCHANGE, MX_GCLKCTRL + MX_WRITE), kDr16Argv>>, <<\h0F>>)
                  [] prof.clk_ctrl = "standardI" ->
                       Play(<<kIrDr16(IR_EMEX_DATA_EXCHANGE, MX_GCLKCTRL + MX_WRITE), kDr16Argv>>, <<\h08>>)
                  [] OTHER -> <<>>)
           /\ Passes(E, p, u,
                IF prof.clk_ctrl = "extended"
                THEN Play1(kIrDr32(IR_EMEX_DATA_EXCHANGE32, \h82)) \o Play1(kDr32(\h0F)) ELSE <<>>)
  <1> DEFINE a(n) == Play(<<kIrDr16(IR_EMEX_DATA_EXCHANGE, MX_GCLKCTRL + MX_WRITE), kDr16Argv>>, <<n>>)
             b    == Play1(kIrDr32(IR_EMEX_DATA_EXCHANGE32, \h82)) \o Play1(kDr32(\h0F))
  <1>1. \A n \in Values16 : Passes(E, p, u, a(n))
    BY PassesClock
  <1>2. \h0F \in Values16 /\ \h08 \in Values16
    BY DEF Values16
  <1>3. Passes(E, p, u, a(\h0F)) /\ Passes(E, p, u, a(\h08))
    BY <1>1, <1>2
  <1>4. Passes(E, p, u, b) /\ Passes(E, p, u, ReleaseFll) /\ Passes(E, p, u, <<>>)
    BY PassesClock_X, PassesFll, PassesNothing
  <1> HIDE DEF a, b
  <1> DEFINE x == a(\h0F)
             y == a(\h08)
  <1>5. Passes(E, p, u, x) /\ Passes(E, p, u, y)
    BY <1>3
  <1>6. x = Play(<<kIrDr16(IR_EMEX_DATA_EXCHANGE, MX_GCLKCTRL + MX_WRITE), kDr16Argv>>, <<\h0F>>)
    BY DEF a
  <1>7. y = Play(<<kIrDr16(IR_EMEX_DATA_EXCHANGE, MX_GCLKCTRL + MX_WRITE), kDr16Argv>>, <<\h08>>)
    BY DEF a
  <1> HIDE DEF x, y
  <1>8. Passes(E, p, u, CASE prof.clk_ctrl = "extended" -> x [] prof.clk_ctrl = "standardI" -> y [] OTHER -> <<>>)
    BY <1>4, <1>5
  <1>9. Passes(E, p, u, IF prof.clk_ctrl = "extended" THEN b ELSE <<>>)
    BY <1>4
  <1>10. Passes(E, p, u, IF prof.clk_ctrl # "none" /\ prof.stop_fll THEN ReleaseFll ELSE <<>>)
    BY <1>4
  <1> QED BY <1>6, <1>7, <1>8, <1>9, <1>10 DEF b

\* A release that lets the CPU go leaves it where it was asked to resume.
LEMMA FreedLeaves ==
    ASSUME NEW p, Legacy(p), NEW E, NEW s, NEW u, NEW g, NEW v, NEW c,
           Freed(E, p, s, u, g, Ctl(v, EemWord(c.bkpt))),
           v \in Target, v.pcok, v.reg[0] = Resume(p, c), v.n = u.n + 1, EemWord(c.bkpt) \in Nat
    PROVE  Leaves(p, E, s, u, g, c)
  <1> DEFINE n == EemWord(c.bkpt)
             x == Ctl(v, n)
  <1>1. n \in Nat
    OBVIOUS
  <1> HIDE DEF n, x
  <1>2. x.eemctl = n /\ x.reg = v.reg /\ x.n = v.n /\ x.pcok = v.pcok
    <2>1. x = Ctl(v, n) /\ v \in Target
      BY DEF x
    <2> QED BY ONLY <1>1, <2>1, CtlIs
  <1>3. PICK w, h : Does(E, s, u, g, w, h) /\ Letting(p, x, w)
    BY DEF Freed, x, n
  <1>4. Resting(p, w) /\ w.pcok /\ w.reg[0] = Resume(p, c) /\ w.eemctl = n /\ w.n = u.n + 1
    BY <1>2, <1>3 DEF Letting, Ready
  <1> QED BY <1>3, <1>4 DEF Leaves, LeavesAs, Freed, n

\* The release by the driver of the part.
LegacyRelease(p, c) ==
    IF p.drv = "std" THEN ReleaseDevice(c.ctx, p.prof, c.bkpt, c.mdb) ELSE ReleaseDevice_X(c.ctx, p.prof, c.bkpt, c.mdb)

\* ReleaseDevice of the older drivers lets the CPU go at the program counter of
\* the context, with its status.
LEMMA ReleaseCall ==
    ASSUME NEW p, Legacy(p), NEW E, NEW g, Knows(g), NEW u, Ready(p, u), NEW c, ContextOf(p, c.ctx),
           c.bkpt \in BOOLEAN, c.mdb \in Values16, NextReg(E, u, StatusReg, c.ctx.sr)
    PROVE  Releases(p, E, LegacyRelease(p, c), u, g, c)
  <1> DEFINE ctx == c.ctx
             prof == p.prof
             a == Prepare(p, ctx)
             f == IF prof.clk_ctrl # "none" /\ prof.stop_fll THEN ReleaseFll ELSE <<>>
             d == CASE prof.clk_ctrl = "extended"  ->
                       Play(<<kIrDr16(IR_EMEX_DATA_EXCHANGE, MX_GCLKCTRL + MX_WRITE), kDr16Argv>>, <<\h0F>>)
                  [] prof.clk_ctrl = "standardI" ->
                       Play(<<kIrDr16(IR_EMEX_DATA_EXCHANGE, MX_GCLKCTRL + MX_WRITE), kDr16Argv>>, <<\h08>>)
                  [] OTHER -> <<>>
             e == IF prof.clk_ctrl = "extended"
                  THEN Play1(kIrDr32(IR_EMEX_DATA_EXCHANGE32, \h82)) \o Play1(kDr32(\h0F)) ELSE <<>>
             r == c.bkpt
             m == c.mdb
             z == Ir(IR_CNTRL_SIG_RELEASE)
  <1>1. PICK v : /\ Freed(E, p, a, u, g, v) /\ v \in Target /\ v.pcok /\ v.reg[0] = ctx.pc /\ v.n = u.n + 1
    <2>1. Restarts(E, p, a, u, g, ctx.pc)
      BY Prepared
    <2> QED BY <2>1 DEF Restarts
  <1>2. EemWord(r) \in Nat /\ EemWord(r) \in Values16
    BY EemWordIn
  <1> DEFINE x == Ctl(v, EemWord(r))
  <1>3. Passes(E, p, v, WorkaroundF149) /\ Passes(E, p, v, f) /\ Passes(E, p, v, d) /\ Passes(E, p, v, e)
    BY PassesWorkaround, PassesClocks
  <1>4. Passes(E, p, x, PreloadMdb(m))
    BY PassesMdb
  <1>5. v.reg[0] = Resume(p, c)
    BY <1>1 DEF Resume
  <1> HIDE DEF a, f, d, e, z, m, ctx, x, r, prof
  <1>6. CASE p.drv = "std"
    <2> DEFINE b == a \o WorkaroundF149 \o f \o d
    <2>1. Freed(E, p, b, u, g, v)
      BY <1>1, <1>3, FreedNext
    <2> HIDE DEF b
    <2>2. Freed(E, p, b \o EemControl(r), u, g, x)
      BY <1>1, <1>2, <2>1, FreedControl DEF x
    <2> DEFINE k == b \o EemControl(r) \o PreloadMdb(m)
    <2>3. Freed(E, p, k, u, g, x)
      BY <1>4, <2>2, FreedNext
    <2>4. Leaves(p, E, k, u, g, c)
      BY <1>1, <1>2, <1>5, <2>3, FreedLeaves DEF x, r
    <2>5. LegacyRelease(p, c) = k \o z
      BY <1>6 DEF LegacyRelease, ReleaseDevice, Prepare, SetRegBy, SetPCBy, WriteOne, StatusReg,
                  a, b, d, f, z, r, m, ctx, prof
    <2> HIDE DEF k
    <2> QED BY <2>4, <2>5 DEF Releases, z
  <1>7. CASE p.drv # "std"
    <2> DEFINE b == a \o e
    <2>1. Freed(E, p, b, u, g, v)
      BY <1>1, <1>3, FreedNext
    <2> HIDE DEF b
    <2>2. Freed(E, p, b \o EemControl(r), u, g, x)
      BY <1>1, <1>2, <2>1, FreedControl DEF x
    <2> DEFINE k == b \o EemControl(r) \o PreloadMdb(m)
    <2>3. Freed(E, p, k, u, g, x)
      BY <1>4, <2>2, FreedNext
    <2>4. Leaves(p, E, k, u, g, c)
      BY <1>1, <1>2, <1>5, <2>3, FreedLeaves DEF x, r
    <2>5. LegacyRelease(p, c) = k \o z
      BY <1>7 DEF LegacyRelease, ReleaseDevice_X, Prepare, SetRegBy, SetPCBy, WriteOne, StatusReg,
                  a, b, e, z, r, m, ctx, prof
    <2> HIDE DEF k
    <2> QED BY <2>4, <2>5 DEF Releases, z
  <1> QED BY <1>6, <1>7

-----------------------------------------------------------------------------
(* The operations of TapDev430Xv2.                                         *)

\* With the quick register selected, the first edge reads on at the program counter.
LEMMA QuickIs ==
    ASSUME NEW p, NEW E, NEW b, Resting(p, b), NEW c, c = AtPc(b, PcPlus(b, 2)), NEW o,
           o = Word(b, b.reg[0])
    PROVE  Quick(E, b, c, o) /\ Resting(p, c) /\ Akin(b, c) /\ Unmoved(b, c) /\ c.reg[0] = PcPlus(b, 2)
  <1> DEFINE s == [b.reg EXCEPT ![0] = PcPlus(b, 2)]
  <1>0. Sound(b) /\ b \in Target /\ b.busy = 0 /\ b.eemaddr = -1 /\ Calm(b)
    BY RestingIs DEF Calm, Quiet, Sound
  <1>1. Moved(b, c, E) /\ Held(c) = Held(b)
    BY <1>0, PcIn, MovedPc
  <1>2. c = [b EXCEPT !.pcok = FALSE, !.reg = s]
    BY DEF AtPc
  <1>3. s[0] = PcPlus(b, 2)
    BY <1>0, RegsAre DEF Target
  <1> HIDE DEF s
  <1>4. Akin(b, c) /\ c.mem = b.mem /\ c.n = b.n /\ c.reg = s
    BY <1>0, <1>2, ZenonT(40) DEF Target, Akin
  <1>5. Sound(c)
    BY <1>1 DEF Moved
  <1>6. Calm(c) /\ (Legacy(c) <=> Legacy(b))
    BY <1>0, <1>4, <1>5, AkinIs
  <1>7. Resting(p, c)
    BY <1>4, <1>5, AkinRests
  <1>8. o \in Values16
    <2>1. b.mem \in [MemAddr -> Values16]
      BY <1>0 DEF Target
    <2>2. \h3FFF \in Values16
      BY DEF Values16
    <2> QED BY <2>1, <2>2 DEF Word
  <1> QED BY <1>0, <1>1, <1>3, <1>4, <1>6, <1>7, <1>8 DEF Quick, Unmoved

\* The port as an operation may find it.
Held501(u) == u.cntrl = \h0501
Held1400(u) == u.cntrl = \h1400 /\ u.din = \h4303 /\ u.ir # IR_DATA_QUICK
Waiting(p, u) == Resting(p, u) /\ u.cpu = Fetch /\ (Held501(u) \/ Held1400(u))

\* A target that is ready for TapDev430Xv2 waits for it.
LEMMA ReadyWaits ==
    ASSUME NEW p, ~Legacy(p), NEW u, Ready(p, u)
    PROVE  Waiting(p, u)
  <1>1. ~Legacy(u)
    BY RestingIs DEF Ready
  <1> QED BY <1>1, Codes DEF Ready, Rested_Xv2, Waiting, Held501, Held1400

\* The first edge of a script takes u to b with TCLK low; the next, with the first
\* instruction selected, leaves o0 on the bus.
Starting(p, E, u, b, ir, cntrl, mab, dto, din, mdb, o0) ==
    /\ Calm(b) /\ ~Legacy(b) /\ Resting(p, b) /\ Akin(u, b) /\ Unmoved(u, b)
    /\ u.ir # IR_DATA_QUICK => b = u
    /\ InPort(b, ir, cntrl, 0, mab, dto, din, mdb, Fetch)
    /\ Edge(E, kdTclk0, u, P(b, ir, cntrl, 0, mab, dto, din, mdb, Fetch))
    /\ Edge(E, kdTclk1, P(b, IR_DATA_16BIT, cntrl, 0, mab, dto, din, mdb, Fetch),
                        P(b, IR_DATA_16BIT, cntrl, 1, mab, dto, din, o0, Fetch))
Starts(p, E, u) ==
    \E b, ir, cntrl, mab, dto, din, mdb, o0 : Starting(p, E, u, b, ir, cntrl, mab, dto, din, mdb, o0)

\* Its scripts may begin with any instruction.
LEMMA WaitingStarts ==
    ASSUME NEW p, ~Legacy(p), NEW E, NEW u, Waiting(p, u)
    PROVE  Starts(p, E, u)
  <1>1. /\ Calm(u) /\ Quiet(u) /\ Sound(u) /\ u \in Target /\ ~Legacy(u) /\ Resting(p, u) /\ u.cpu = Fetch
    BY RestingIs DEF Waiting
  <1> DEFINE ir == u.ir
             cntrl == u.cntrl
             mab == u.mab
             dto == u.dto
             din == u.din
             mdb == u.mdb
             tclk == u.tclk
  <1>2. u = P(u, ir, cntrl, tclk, mab, dto, din, mdb, Fetch)
    BY <1>1, Columns
  <1>3. /\ ir \in Nat /\ cntrl \in Values16 /\ tclk \in {0, 1} /\ mab \in RegValues(u)
        /\ dto \in Values16 /\ din \in Values16 /\ mdb \in Values16 /\ Fetch \in CpuStates
    BY <1>1 DEF Sound, Target, CpuStates
  <1>4. tclk = 0 \/ tclk = 1
    BY <1>3
  <1>5. IR_DATA_16BIT \in Nat /\ IR_DATA_16BIT # IR_DATA_QUICK
    BY Codes
  <1>6. Akin(u, u) /\ Unmoved(u, u)
    BY AkinSelf DEF Unmoved
  <1>7. CASE Held1400(u)
    <2> DEFINE k == \h1400
               n == \h4303
    <2>1. cntrl = k /\ din = n /\ ir # IR_DATA_QUICK
      BY <1>7 DEF Held1400
    <2>2. Executes(k) /\ k \in Values16
      BY ControlWords
    <2>3. Fetches(u, n, Fetch) /\ n \in Values16
      BY Nops DEF Values16
    <2> HIDE DEF k, n, ir, cntrl, mab, dto, din, mdb, tclk
    <2>4. Edge(E, kdTclk0, P(u, ir, cntrl, tclk, mab, dto, din, mdb, Fetch),
                           P(u, ir, cntrl, 0, mab, dto, din, mdb, Fetch))
      BY <1>1, <1>3, <1>4, <2>1, EdgeFall, EdgeLow
    <2>5. Executes(cntrl) /\ Fetches(u, din, Fetch)
      BY <2>1, <2>2, <2>3
    <2>6. Edge(E, kdTclk1, P(u, IR_DATA_16BIT, cntrl, 0, mab, dto, din, mdb, Fetch),
                           P(u, IR_DATA_16BIT, cntrl, 1, mab, dto, din, mdb, Fetch))
      BY <1>1, <1>3, <1>5, <2>5, EdgeFetch
    <2>7. Starting(p, E, u, u, ir, cntrl, mab, dto, din, mdb, mdb)
      BY <1>1, <1>2, <1>3, <1>6, <2>4, <2>6 DEF Starting, InPort
    <2> QED BY <2>7 DEF Starts
  <1>8. ASSUME Held501(u), NEW b, Calm(b), ~Legacy(b), Resting(p, b), Akin(u, b), NEW m \in Values16
        PROVE  LET o == Bus(b, cntrl, mab) IN
               Edge(E, kdTclk1, P(b, IR_DATA_16BIT, cntrl, 0, mab, dto, din, m, Fetch),
                                P(b, IR_DATA_16BIT, cntrl, 1, mab, dto, din, o, Fetch))
    <2> DEFINE k == \h0501
    <2>1. cntrl = k
      BY <1>8 DEF Held501
    <2>2. Reads(b, k)
      BY <1>8, ControlWords
    <2>3. mab \in RegValues(b)
      BY <1>3, <1>8, AkinIs
    <2> HIDE DEF k, ir, cntrl, mab, dto, din, mdb, tclk
    <2> QED BY <1>3, <1>5, <1>8, <2>1, <2>2, <2>3, EdgeRead
  <1>9. CASE Held501(u) /\ ~(ir = IR_DATA_QUICK /\ tclk = 1)
    <2> DEFINE o == Bus(u, cntrl, mab)
    <2>1. Edge(E, kdTclk1, P(u, IR_DATA_16BIT, cntrl, 0, mab, dto, din, mdb, Fetch),
                           P(u, IR_DATA_16BIT, cntrl, 1, mab, dto, din, o, Fetch))
      BY <1>1, <1>3, <1>6, <1>8, <1>9
    <2> HIDE DEF ir, cntrl, mab, dto, din, mdb, tclk, o
    <2>2. Edge(E, kdTclk0, P(u, ir, cntrl, tclk, mab, dto, din, mdb, Fetch),
                           P(u, ir, cntrl, 0, mab, dto, din, mdb, Fetch))
      BY <1>1, <1>3, <1>4, <1>9, EdgeFall, EdgeLow
    <2>3. Starting(p, E, u, u, ir, cntrl, mab, dto, din, mdb, o)
      BY <1>1, <1>2, <1>3, <1>6, <2>1, <2>2 DEF Starting, InPort
    <2> QED BY <2>3 DEF Starts
  <1>10. CASE Held501(u) /\ ir = IR_DATA_QUICK /\ tclk = 1
    <2> DEFINE b == AtPc(u, PcPlus(u, 2))
               m == Word(u, u.reg[0])
               o == Bus(b, cntrl, mab)
    <2>1. Quick(E, u, b, m) /\ Resting(p, b) /\ Akin(u, b) /\ Unmoved(u, b)
      BY <1>1, QuickIs
    <2>2. Calm(b) /\ ~Legacy(b) /\ m \in Values16
      BY <1>1, <2>1 DEF Quick
    <2> HIDE DEF b, m
    <2>3. Edge(E, kdTclk1, P(b, IR_DATA_16BIT, cntrl, 0, mab, dto, din, m, Fetch),
                           P(b, IR_DATA_16BIT, cntrl, 1, mab, dto, din, o, Fetch))
      BY <1>8, <1>10, <2>1, <2>2
    <2>4. ~Executes(cntrl) /\ mab \in RegValues(b)
      <3> DEFINE k == \h0501
      <3>1. ~Executes(k)
        BY ControlWords
      <3>2. cntrl = k
        BY <1>10 DEF Held501
      <3>3. mab \in RegValues(b)
        BY <1>3, <2>1, AkinIs
      <3> QED BY <3>1, <3>2, <3>3
    <2>5. tclk = 1 /\ ir = IR_DATA_QUICK
      BY <1>10
    <2> HIDE DEF ir, cntrl, mab, dto, din, mdb, tclk, o
    <2>6. Edge(E, kdTclk0, P(u, ir, cntrl, tclk, mab, dto, din, mdb, Fetch),
                           P(b, ir, cntrl, 0, mab, dto, din, m, Fetch))
      <3>1. Edge(E, kdTclk0, P(u, IR_DATA_QUICK, cntrl, 1, mab, dto, din, mdb, Fetch),
                             P(b, IR_DATA_QUICK, cntrl, 0, mab, dto, din, m, Fetch))
        BY <1>3, <2>1, <2>4, EdgeQuick
      <3> QED BY <2>5, <3>1
    <2>7. u.ir # IR_DATA_QUICK => b = u
      BY <1>10 DEF ir
    <2>8. Starting(p, E, u, b, ir, cntrl, mab, dto, din, m, o)
      BY <1>2, <1>3, <2>1, <2>2, <2>3, <2>4, <2>6, <2>7 DEF Starting, InPort
    <2> QED BY <2>8 DEF Starts
  <1> QED BY <1>7, <1>9, <1>10 DEF Waiting

\* What a script leaves of TapDev430Xv2.
LEMMA ReadyAfter_Xv2 ==
    ASSUME NEW p, ~Legacy(p), NEW c, Resting(p, c), NEW ir, NEW cntrl, NEW tclk, NEW mab, NEW dto,
           NEW din, NEW mdb, Rested_Xv2(ir, cntrl, tclk, din),
           Sound(P(c, ir, cntrl, tclk, mab, dto, din, mdb, Fetch))
    PROVE  /\ Ready(p, P(c, ir, cntrl, tclk, mab, dto, din, mdb, Fetch))
           /\ Behind(c, P(c, ir, cntrl, tclk, mab, dto, din, mdb, Fetch)) /\ P(c, ir, cntrl, tclk, mab, dto, din, mdb, Fetch).ir = ir /\ P(c, ir, cntrl, tclk, mab, dto, din, mdb, Fetch).cntrl = cntrl
           /\ P(c, ir, cntrl, tclk, mab, dto, din, mdb, Fetch).tclk = tclk /\ P(c, ir, cntrl, tclk, mab, dto, din, mdb, Fetch).din = din /\ P(c, ir, cntrl, tclk, mab, dto, din, mdb, Fetch).cpu = Fetch
  <1> DEFINE w == P(c, ir, cntrl, tclk, mab, dto, din, mdb, Fetch)
  <1>1. c \in Target /\ Sound(c)
    BY RestingIs
  <1>2. w.ir = ir /\ w.cntrl = cntrl /\ w.tclk = tclk /\ w.cpu = Fetch /\ w.din = din
    BY <1>1, PFields
  <1>3. Behind(c, w)
    BY <1>1, BehindIs
  <1> HIDE DEF w
  <1>4. Resting(p, w)
    BY <1>3, AkinRests DEF Behind, w
  <1>5. ~Legacy(w)
    BY <1>4, RestingIs
  <1>6. Ready(p, w)
    BY <1>2, <1>4, <1>5 DEF Ready
  <1> QED BY <1>2, <1>3, <1>6 DEF w

\* Only the variables of V change.
Keeps(g, h, V) == Knows(h) /\ \A x \in Locals \ V : h[x] = g[x]

\* What a script does not take into a variable stays there.
LEMMA KeepsAre ==
    ASSUME NEW g, Knows(g)
    PROVE  /\ \A V : Keeps(g, g, V)
           /\ \A v \in Locals : \A x : Keeps(g, Got(g, v, x), {v})
           /\ \A h, V, k, W : Keeps(g, h, V) /\ Keeps(h, k, W) => Keeps(g, k, V \cup W)
  BY GotIs DEF Keeps

\* An instruction is selected.
Selected(u, n) == P(u, n, u.cntrl, u.tclk, u.mab, u.dto, u.din, u.mdb, Fetch)

\* Selecting an instruction changes the instruction.
LEMMA SelectedIs ==
    ASSUME NEW p, NEW u, Waiting(p, u), NEW n \in Octets, n # IR_CNTRL_SIG_RELEASE,
           n # IR_DATA_QUICK,
           NEW w, w = Selected(u, n)
    PROVE  /\ Waiting(p, w) /\ Behind(u, w) /\ w.ir = n /\ w.cntrl = u.cntrl /\ w.id = u.id
           /\ \A E, g : Does(E, Ir(n), u, g, w, g)
           /\ \A E, g, v : Plain(v) => Does(E, IrTo(n, v), u, g, w, Got(g, v, u.id))
  <1>1. /\ Quiet(u) /\ Sound(u) /\ u \in Target /\ Resting(p, u) /\ u.cpu = Fetch /\ u.eemaddr = -1
    BY RestingIs DEF Waiting, Quiet
  <1> DEFINE ir == u.ir
             cntrl == u.cntrl
             mab == u.mab
             dto == u.dto
             din == u.din
             mdb == u.mdb
             tclk == u.tclk
  <1>2. u = P(u, ir, cntrl, tclk, mab, dto, din, mdb, Fetch)
    BY <1>1, Columns
  <1>3. /\ ir \in Nat /\ cntrl \in Values16 /\ tclk \in {0, 1} /\ mab \in RegValues(u)
        /\ dto \in Values16 /\ din \in Values16 /\ mdb \in Values16 /\ Fetch \in CpuStates /\ n \in Nat
    BY <1>1 DEF Sound, Target, CpuStates, Octets
  <1>4. /\ w.ir = n /\ w.cntrl = cntrl /\ w.cpu = Fetch /\ w.din = din /\ w.id = u.id
    BY <1>1, PFields DEF Selected
  <1>5. Behind(u, w)
    BY <1>1, BehindIs DEF Selected
  <1>6. w = P(u, n, cntrl, tclk, mab, dto, din, mdb, Fetch)
    BY DEF Selected
  <1>7. Waiting(p, u)
    OBVIOUS
  <1> HIDE DEF ir, cntrl, mab, dto, din, mdb, tclk
  <1>8. Sound(w)
    BY <1>1, <1>3, <1>6, PSound DEF InPort
  <1>9. Resting(p, w)
    BY <1>1, <1>5, <1>8, AkinRests DEF Behind
  <1>10. Waiting(p, w)
    BY <1>4, <1>7, <1>9 DEF Waiting, Held501, Held1400, cntrl, din
  <1>11. ASSUME NEW E, NEW g PROVE Does(E, Ir(n), u, g, w, g)
    <2>1. Does(E, Ir(n), P(u, ir, cntrl, tclk, mab, dto, din, mdb, Fetch), g,
                         P(u, n, cntrl, tclk, mab, dto, din, mdb, Fetch), g)
      BY <1>1, <1>3, IrDoes
    <2> QED BY <1>2, <1>6, <2>1
  <1>12. ASSUME NEW E, NEW g, NEW v, Plain(v) PROVE Does(E, IrTo(n, v), u, g, w, Got(g, v, u.id))
    <2>0. v \notin {"", "buf"}
      BY <1>12 DEF Plain
    <2>1. Does(E, IrTo(n, v), P(u, ir, cntrl, tclk, mab, dto, din, mdb, Fetch), g,
                              P(u, n, cntrl, tclk, mab, dto, din, mdb, Fetch), [g EXCEPT ![v] = u.id])
      BY <1>1, <1>3, <2>0, DoesIrTo
    <2> QED BY <1>2, <1>6, <2>1 DEF Got
  <1> QED BY <1>4, <1>5, <1>10, <1>11, <1>12 DEF cntrl

\* The program counter is v, and the CPU is about to go on there.
Placed(p, w, v) ==
    /\ Ready(p, w) /\ w.pcok /\ w.reg[0] = v
    /\ w.ir = IR_ADDR_CAPTURE /\ w.cntrl = \h1400 /\ w.tclk = 0 /\ w.din = \h4303 /\ w.cpu = Fetch
PlacedFrom(p, E, s, u, g, v) ==
    \E w, h : /\ Does(E, s, u, g, w, h) /\ Placed(p, w, v) /\ Akin(u, w) /\ Unmoved(u, w)
              /\ Keeps(g, h, {"ctrl"})

\* The status bits of a held CPU are set.
LEMMA StatusBits ==
    ASSUME NEW p, NEW u, Waiting(p, u)
    PROVE  AnyBit(Captured(u.cntrl), {1, \h100, \h200})
  <1>1. CASE u.cntrl = \h0501
    <2>1. Captured(\h0501) = \h0701
      BY DEF Captured, Bit
    <2>2. Bit(\h0701, 1) = 1
      BY DEF Bit
    <2>3. Bit(Captured(u.cntrl), 1) = 1
      BY <1>1, <2>1, <2>2
    <2> QED BY <2>3 DEF AnyBit
  <1>2. CASE u.cntrl = \h1400
    <2>1. Captured(\h1400) = \h1700
      BY DEF Captured, Bit
    <2>2. Bit(\h1700, \h100) = 1
      BY DEF Bit
    <2>3. Bit(Captured(u.cntrl), \h100) = 1
      BY <1>2, <2>1, <2>2
    <2> QED BY <2>3 DEF AnyBit
  <1> QED BY <1>1, <1>2 DEF Waiting, Held501, Held1400

\* MOVA #v,PC on the bus.
LEMMA LoadsPc_Xv2 ==
    ASSUME NEW p, ~Legacy(p), NEW E, NEW b, Calm(b), ~Legacy(b), RegValues(b) = RegValues(p),
           NEW v \in RegValues(p),
           NEW c, c = Loaded(b, 0, v)
    PROVE  \E d, k, x : Low(v, d) /\ Low(\h0080 + High(v), k) /\ Fetches(b, k, x) /\ Loads(E, b, x, d, c)
  <1>0. b.drv # "std"
    BY DEF Legacy
  <1>1. 0 \in Nibbles /\ v \in 0 .. 2^20 - 1
    BY RegValuesAre DEF Nibbles
  <1>2. PICK hi, d : Halves(v, hi, d)
    BY <1>1, HalvesAre
  <1>3. PICK k : Low(\h0080 + High(v), k) /\ Fetches(b, k, Imm(0, hi))
    BY <1>0, <1>1, <1>2, DecodeX
  <1>4. v = hi * 2^16 + d /\ Low(v, d)
    BY <1>2 DEF Halves
  <1>5. v \in RegValues(b)
    OBVIOUS
  <1>6. Loads(E, b, Imm(0, hi), d, c)
    BY <1>4, <1>5, LoadPc
  <1> QED BY <1>3, <1>4, <1>6

\* The steps of SetPC of TapDev430Xv2 put the program counter where asked.
LEMMA SetPCPlayed ==
    ASSUME NEW p, ~Legacy(p), NEW E, NEW g, NEW u, Waiting(p, u), u.ir # IR_DATA_QUICK,
           NEW v \in RegValues(p)
    PROVE  \E w : /\ Does(E, SetPCPlay(v), u, g, w, g) /\ Placed(p, w, v) /\ Akin(u, w) /\ Unmoved(u, w)
  <1>1. PICK b, ir, cntrl, mab, dto, din, mdb, o0 : Starting(p, E, u, b, ir, cntrl, mab, dto, din, mdb, o0)
    BY WaitingStarts DEF Starts
  <1>2. /\ Calm(b) /\ ~Legacy(b) /\ Resting(p, b) /\ b = u /\ RegValues(b) = RegValues(p)
        /\ InPort(b, ir, cntrl, 0, mab, dto, din, mdb, Fetch)
        /\ Edge(E, kdTclk0, u, P(b, ir, cntrl, 0, mab, dto, din, mdb, Fetch))
        /\ Edge(E, kdTclk1, P(b, IR_DATA_16BIT, cntrl, 0, mab, dto, din, mdb, Fetch),
                            P(b, IR_DATA_16BIT, cntrl, 1, mab, dto, din, o0, Fetch))
    BY <1>1, RestingIs DEF Starting
  <1> DEFINE c == Loaded(b, 0, v)
  <1>3. PICK d, k, x : Low(v, d) /\ Low(\h0080 + High(v), k) /\ Fetches(b, k, x) /\ Loads(E, b, x, d, c)
    BY <1>2, LoadsPc_Xv2
  <1>4. Akin(b, c) /\ Sound(c) /\ Unmoved(b, c) /\ c.pcok /\ c.reg[0] = v
    <2>1. v = 0 * 2^16 + v /\ v \in RegValues(b)
      BY <1>2 DEF RegValues, RegSize
    <2> QED BY <1>2, <2>1, LoadPc
  <1> HIDE DEF c
  <1>5. Resting(p, c)
    BY <1>2, <1>4, AkinRests
  <1> DEFINE w == P(c, IR_ADDR_CAPTURE, \h1400, 0, mab, dto, \h4303, o0, Fetch)
  <1>6. Does(E, SetPCPlay(v), u, g, w, g)
    BY <1>2, <1>3, SetPCRows_Xv2
  <1>7. Sound(w)
    BY <1>2, <1>6, DoesSound DEF Calm, Quiet
  <1>8. Rested_Xv2(IR_ADDR_CAPTURE, \h1400, 0, \h4303)
    BY DEF Rested_Xv2
  <1>9. Ready(p, w) /\ Behind(c, w)
    BY <1>5, <1>7, <1>8, ReadyAfter_Xv2
  <1>10. w.ir = IR_ADDR_CAPTURE /\ w.cntrl = \h1400 /\ w.tclk = 0 /\ w.din = \h4303 /\ w.cpu = Fetch
    <2>1. c \in Target
      BY <1>5, RestingIs
    <2> QED BY <2>1, PFields
  <1> HIDE DEF w
  <1>11. Placed(p, w, v)
    BY <1>4, <1>9, <1>10 DEF Placed, Behind
  <1>12. Akin(u, w) /\ Unmoved(u, w)
    BY <1>2, <1>4, <1>9, AkinBoth DEF Behind, Unmoved
  <1> QED BY <1>6, <1>11, <1>12

\* Its scripts are sequences.
LEMMA SetPCSeq_Xv2 ==
    ASSUME NEW v
    PROVE  IsSeq(SetPC_Xv2(v)) /\ IsSeq(SetPCPlay(v)) /\ \A x : IsSeq(GetCtrlSigReg(x))
  <1>1. \A a, b, d, e : IsSeq(IfBits(a, b, d)) /\ IsSeq(IfValue(a, b, d))
    BY SeqOne, NoneIsSeq DEF IfBits, IfValue
  <1>2. \A x : IsSeq(GetCtrlSigReg(x))
    BY PrimSeq, SeqConcat DEF GetCtrlSigReg
  <1> QED BY <1>1, <1>2, PrimSeq, SeqConcat DEF SetPC_Xv2, SetPCPlay

\* SetPC of TapDev430Xv2 sets the program counter, and nothing else.
LEMMA SetPCCall_Xv2 ==
    ASSUME NEW p, ~Legacy(p), NEW E, NEW g, Knows(g), NEW u, Waiting(p, u), NEW v \in RegValues(p)
    PROVE  PlacedFrom(p, E, SetPC_Xv2(v), u, g, v)
  <1> DEFINE n == IR_CNTRL_SIG_CAPTURE
             u1 == Selected(u, n)
             x == "ctrl"
             o == Captured(u1.cntrl)
             h == Got(g, x, o)
             bits == {1, \h100, \h200}
             body == SetPCPlay(v)
  <1>1. n \in Octets /\ n # IR_CNTRL_SIG_RELEASE /\ n # IR_DATA_QUICK
    BY Codes
  <1> HIDE DEF n, u1
  <1>2. Waiting(p, u1) /\ Behind(u, u1) /\ u1.ir = n /\ Does(E, Ir(n), u, g, u1, g)
    BY <1>1, SelectedIs DEF u1
  <1>3. Does(E, DrTo(0, x), u1, g, u1, h)
    <2>1. /\ Sound(u1) /\ u1 \in Target /\ u1.cpu = Fetch /\ u1.ir = IR_CNTRL_SIG_CAPTURE
      BY <1>2, RestingIs DEF Waiting, n
    <2> DEFINE cntrl == u1.cntrl
               mab == u1.mab
               dto == u1.dto
               din == u1.din
               mdb == u1.mdb
               tclk == u1.tclk
    <2>2. u1 = P(u1, IR_CNTRL_SIG_CAPTURE, cntrl, tclk, mab, dto, din, mdb, Fetch)
      BY <2>1, Columns
    <2>3. /\ cntrl \in Values16 /\ tclk \in {0, 1} /\ mab \in RegValues(u1)
          /\ dto \in Values16 /\ din \in Values16 /\ mdb \in Values16 /\ Fetch \in CpuStates
      BY <2>1 DEF Sound, Target, CpuStates
    <2>4. Plain(x)
      BY PlainAre
    <2> HIDE DEF cntrl, mab, dto, din, mdb, tclk, x
    <2>5. Does(E, DrTo(0, x), P(u1, IR_CNTRL_SIG_CAPTURE, cntrl, tclk, mab, dto, din, mdb, Fetch), g,
                              P(u1, IR_CNTRL_SIG_CAPTURE, cntrl, tclk, mab, dto, din, mdb, Fetch), Got(g, x, Captured(cntrl)))
      BY <2>1, <2>3, <2>4, DrCaptured
    <2> QED BY <2>2, <2>5 DEF cntrl
  <1>4. x \in Locals /\ Knows(h) /\ h[x] = o /\ Keeps(g, h, {x})
    BY LocalsAre, GotIs, KeepsAre
  <1>5. IsSeq(body) /\ IsSeq(SetPC_Xv2(v)) /\ IsSeq(GetCtrlSigReg(x))
    BY SetPCSeq_Xv2
  <1>6. u1.ir # IR_DATA_QUICK
    BY <1>1, <1>2
  <1>7. PICK w : Does(E, body, u1, h, w, h) /\ Placed(p, w, v) /\ Akin(u1, w) /\ Unmoved(u1, w)
    BY <1>2, <1>6, SetPCPlayed
  <1>8. Does(E, IfBits(x, bits, body), u1, h, w, h)
    <2> DEFINE e == [p |-> "if", of |-> x, bits |-> bits, values |-> {}, then |-> body]
    <2>1. AnyBit(h[x], bits)
      BY <1>2, <1>4, StatusBits
    <2> HIDE DEF h, x, bits, body
    <2>2. InPlaceOf(e, h) = body
      BY <2>1 DEF InPlaceOf
    <2>3. e.p \in {"play", "loop", "if", "setpc"}
      OBVIOUS
    <2>4. Does(E, <<e>>, u1, h, w, h)
      <3> HIDE DEF e
      <3> QED BY <1>5, <1>7, <2>2, <2>3, DoesInPlace
    <2> QED BY <2>4 DEF IfBits
  <1>9. IsSeq(Ir(n)) /\ IsSeq(DrTo(0, x)) /\ IsSeq(IfBits(x, bits, body))
    BY PrimSeq, SeqOne, NoneIsSeq DEF IfBits
  <1> HIDE DEF x, bits, body, h, o
  <1>10. Does(E, Ir(n) \o DrTo(0, x), u, g, u1, h) /\ IsSeq(Ir(n) \o DrTo(0, x))
    BY <1>2, <1>3, <1>9, DoesBoth
  <1> DEFINE s == Ir(n) \o DrTo(0, x)
  <1>11. Does(E, s \o IfBits(x, bits, body), u, g, w, h)
    <2>1. Does(E, s, u, g, u1, h) /\ IsSeq(s)
      BY <1>10
    <2> HIDE DEF s
    <2> QED BY <1>8, <1>9, <2>1, DoesBoth
  <1>12. SetPC_Xv2(v) = s \o IfBits(x, bits, body)
    BY DEF SetPC_Xv2, kIrDr20, GetCtrlSigReg, SetPCPlay, s, n, x, bits, body
  <1>13. Akin(u, w) /\ Unmoved(u, w)
    BY <1>2, <1>7, AkinBoth DEF Behind, Unmoved
  <1> QED BY <1>4, <1>7, <1>11, <1>12, <1>13 DEF PlacedFrom, x

\* The halves of a value load a register.
LoadsAny(E, b, r, v, c) ==
    /\ \A hi, d : v = hi * 2^16 + d => Loads(E, b, Imm(r, hi), d, c)
    /\ Akin(b, c) /\ Sound(c)
    /\ c.mem = b.mem /\ c.n = b.n + 1 /\ Held(c) = [Held(b) EXCEPT ![r] = v]

\* A register that is not PC can be loaded with any value of its driver.
LEMMA LoadsAnyIs ==
    ASSUME NEW E, NEW b, Calm(b), NEW r \in Regs \ {0}, NEW v, v \in RegValues(b),
           NextReg(E, b, r, v)
    PROVE  \E c : LoadsAny(E, b, r, v, c)
  BY LoadAny DEF LoadsAny

\* A register is set.
LEMMA SetRegCall_Xv2 ==
    ASSUME NEW p, ~Legacy(p), NEW E, NEW g, NEW u, Waiting(p, u), NEW r \in Regs \ {0},
           NEW v \in RegValues(p),
           NextReg(E, u, r, v), NEW m, m = u.n + 1
    PROVE  Finishes(p, E, SetReg_Xv2(r, v), u, g, m)
  <1>1. PICK b, ir, cntrl, mab, dto, din, mdb, o0 : Starting(p, E, u, b, ir, cntrl, mab, dto, din, mdb, o0)
    BY WaitingStarts DEF Starts
  <1>2. /\ Calm(b) /\ ~Legacy(b) /\ Resting(p, b) /\ Akin(u, b) /\ Unmoved(u, b) /\ RegValues(b) = RegValues(p)
        /\ Edge(E, kdTclk0, u, P(b, ir, cntrl, 0, mab, dto, din, mdb, Fetch))
        /\ Edge(E, kdTclk1, P(b, IR_DATA_16BIT, cntrl, 0, mab, dto, din, mdb, Fetch),
                            P(b, IR_DATA_16BIT, cntrl, 1, mab, dto, din, o0, Fetch))
    BY <1>1, RestingIs DEF Starting
  <1>3. b.drv # "std" /\ r \in Nibbles /\ v \in 0 .. 2^20 - 1 /\ v \in RegValues(b)
    BY <1>2, RegsAre, RegValuesAre DEF Legacy
  <1>4. NextReg(E, b, r, v)
    BY <1>2 DEF NextReg, Unmoved
  <1>5. PICK c : /\ \A hi, d : v = hi * 2^16 + d => Loads(E, b, Imm(r, hi), d, c)
                 /\ Akin(b, c) /\ Sound(c)
                 /\ c.mem = b.mem /\ c.n = b.n + 1 /\ Held(c) = [Held(b) EXCEPT ![r] = v]
    <2>1. Calm(b) /\ v \in RegValues(b) /\ r \in Regs \ {0}
      BY <1>2, <1>3
    <2>2. \E c : LoadsAny(E, b, r, v, c)
      BY <1>4, <2>1, LoadsAnyIs
    <2> QED BY <2>2 DEF LoadsAny
  <1>6. PICK hi, d : Halves(v, hi, d)
    BY <1>3, HalvesAre
  <1>7. PICK k : Low(\h0080 + High(v) + r, k) /\ Fetches(b, k, Imm(r, hi))
    BY <1>3, <1>6, DecodeX
  <1>8. Loads(E, b, Imm(r, hi), d, c) /\ Low(v, d)
    BY <1>5, <1>6 DEF Halves
  <1>9. Akin(b, c) /\ Sound(c) /\ c.n = b.n + 1
    BY <1>5
  <1>10. Resting(p, c)
    BY <1>2, <1>9, AkinRests
  <1> DEFINE o == Bus(c, \h0501, mab)
             w == P(c, IR_DATA_CAPTURE, \h0501, 1, mab, dto, \h3FFD, o, Fetch)
  <1>11. Does(E, SetReg_Xv2(r, v), u, g, w, g)
    BY <1>2, <1>7, <1>8, SetRegDoes_Xv2
  <1>12. Sound(w)
    <2>1. Sound(u)
      BY DEF Waiting, Resting
    <2> QED BY <1>11, <2>1, DoesSound
  <1>13. Rested_Xv2(IR_DATA_CAPTURE, \h0501, 1, \h3FFD)
    BY DEF Rested_Xv2
  <1> HIDE DEF o
  <1>14. Ready(p, w) /\ Behind(c, w) /\ w.ir = IR_DATA_CAPTURE
    BY <1>10, <1>12, <1>13, ReadyAfter_Xv2
  <1> HIDE DEF w
  <1>15. w.n = u.n + 1
    BY <1>2, <1>9, <1>14 DEF Behind, Unmoved
  <1> QED BY <1>11, <1>14, <1>15, PrimSeq DEF SetReg_Xv2, Finishes

\* A word is read.
\* s reads, which changes nothing and leaves h.
ReadsTo(p, E, s, u, g, h) ==
    (\E w : Does(E, s, u, g, w, h) /\ Ready(p, w) /\ Akin(u, w) /\ Unmoved(u, w)) /\ IsSeq(s)

\* ReadWord of TapDev430Xv2 brings the word in memory.
LEMMA ReadWordCall_Xv2 ==
    ASSUME NEW p, ~Legacy(p), NEW E, NEW g, NEW u, Waiting(p, u), NEW a \in MemAddr,
           a \in RegValues(p)
    PROVE  ReadsTo(p, E, ReadWord_Xv2(a), u, g, Also(g, u.mem[a]))
  <1>1. PICK b, ir, cntrl, mab, dto, din, mdb, o0 : Starting(p, E, u, b, ir, cntrl, mab, dto, din, mdb, o0)
    BY WaitingStarts DEF Starts
  <1>2. /\ Calm(b) /\ ~Legacy(b) /\ Resting(p, b) /\ Akin(u, b) /\ Unmoved(u, b) /\ RegValues(b) = RegValues(p)
        /\ Edge(E, kdTclk0, u, P(b, ir, cntrl, 0, mab, dto, din, mdb, Fetch))
    BY <1>1, RestingIs DEF Starting
  <1> DEFINE k == \h0501
             o == Bus(b, k, a)
             w == P(b, IR_DATA_TO_ADDR, \h0501, 1, a, 0, din, o, Fetch)
  <1>3. Does(E, ReadWord_Xv2(a), u, g, w, Also(g, o))
    <2>1. a \in RegValues(b)
      BY <1>2
    <2> QED BY <1>2, <2>1, ReadWordDoes_Xv2
  <1>4. Sound(w)
    <2>1. Sound(u)
      BY DEF Waiting, Resting
    <2> QED BY <1>3, <2>1, DoesSound
  <1>5. Rested_Xv2(IR_DATA_TO_ADDR, \h0501, 1, din)
    BY DEF Rested_Xv2
  <1>6. o = u.mem[a]
    <2>1. Words16(k)
      BY WidthsAre
    <2> HIDE DEF k
    <2>2. Bus(b, k, a) = b.mem[a]
      BY <1>2, <2>1, WordRead
    <2> QED BY <1>2, <2>2 DEF Unmoved
  <1> HIDE DEF o
  <1>7. Ready(p, w) /\ Behind(b, w)
    BY <1>2, <1>4, <1>5, ReadyAfter_Xv2
  <1> HIDE DEF w
  <1>8. Akin(u, w) /\ Unmoved(u, w)
    BY <1>2, <1>7, AkinBoth DEF Behind, Unmoved
  <1>9. IsSeq(ReadWord_Xv2(a))
    BY PrimSeq DEF ReadWord_Xv2
  <1> QED BY <1>3, <1>6, <1>7, <1>8, <1>9 DEF ReadsTo

\* A word can be written, wherever the program counter is.
Takes16(p, E, u, a, v) ==
    \A b : Resting(p, b) /\ Akin(u, b) /\ Unmoved(u, b)
              => Wrote(E, b, a, v, Written(b, a, v)) /\ Resting(p, Written(b, a, v))
\* WriteWord of TapDev430Xv2 does what the write on the bus does.
LEMMA WriteWordCall_Xv2 ==
    ASSUME NEW p, ~Legacy(p), NEW E, NEW g, NEW u, Waiting(p, u), NEW a \in RegValues(p),
           NEW v \in Values16,
           Takes16(p, E, u, a, v)
    PROVE  /\ \E b, w : /\ Does(E, WriteWord_Xv2(a, v), u, g, w, g) /\ Ready(p, w)
                        /\ Resting(p, b) /\ Akin(u, b) /\ Unmoved(u, b) /\ Behind(Written(b, a, v), w)
           /\ IsSeq(WriteWord_Xv2(a, v))
  <1>1. PICK b, ir, cntrl, mab, dto, din, mdb, o0 : Starting(p, E, u, b, ir, cntrl, mab, dto, din, mdb, o0)
    BY WaitingStarts DEF Starts
  <1>2. /\ Calm(b) /\ ~Legacy(b) /\ Resting(p, b) /\ Akin(u, b) /\ Unmoved(u, b) /\ RegValues(b) = RegValues(p)
        /\ Edge(E, kdTclk0, u, P(b, ir, cntrl, 0, mab, dto, din, mdb, Fetch))
    BY <1>1, RestingIs DEF Starting
  <1> DEFINE c == Written(b, a, v)
  <1>3. Wrote(E, b, a, v, c) /\ Resting(p, c)
    BY <1>2 DEF Takes16
  <1> HIDE DEF c
  <1>4. Calm(c) /\ a \in RegValues(b) /\ Low(v, v)
    BY <1>2, <1>3, RestingIs, LowOf
  <1> DEFINE o == Bus(c, \h0501, a)
             w == P(c, IR_CNTRL_SIG_16BIT, \h0501, 1, a, v, din, o, Fetch)
  <1>5. Does(E, WriteWord_Xv2(a, v), u, g, w, g)
    BY <1>2, <1>3, <1>4, WriteWordDoes_Xv2
  <1>6. Sound(w)
    <2>1. Sound(u)
      BY DEF Waiting, Resting
    <2> QED BY <1>5, <2>1, DoesSound
  <1>7. Rested_Xv2(IR_CNTRL_SIG_16BIT, \h0501, 1, din)
    BY DEF Rested_Xv2
  <1> HIDE DEF o
  <1>8. Ready(p, w) /\ Behind(c, w)
    BY <1>3, <1>6, <1>7, ReadyAfter_Xv2
  <1> HIDE DEF w
  <1> QED BY <1>2, <1>5, <1>8, PrimSeq DEF WriteWord_Xv2, c

\* A word of RAM is written, as E wants it; the watchdog is no memory.
LEMMA RamCall_Xv2 ==
    ASSUME NEW p, ~Legacy(p), NEW E, NEW g, NEW u, Waiting(p, u), NEW a \in RamAddr,
           a \in RegValues(p), NEW v \in Values16,
           NEW m, m = u.n + 1, Writes16(E, m, a, v)
    PROVE  Finishes(p, E, WriteWord_Xv2(a, v), u, g, m)
  <1>1. ASSUME NEW b, Resting(p, b), Akin(u, b), Unmoved(u, b)
        PROVE  /\ Wrote(E, b, a, v, Written(b, a, v)) /\ Resting(p, Written(b, a, v))
               /\ Written(b, a, v).n = m
    <2> DEFINE c == Written(b, a, v)
    <2>1. Calm(b) /\ b.n = u.n
      BY <1>1, RestingIs DEF Unmoved
    <2>0. Writes16(E, b.n + 1, a, v) /\ a \in RamAddr /\ v \in Values16 /\ Calm(b)
      BY <2>1 
    <2>9. c = Written(b, a, v)
      OBVIOUS
    <2> HIDE DEF c
    <2>2. /\ Wrote(E, b, a, v, c) /\ Calm(c) /\ Sound(c) /\ Akin(b, c) /\ Steady(b, c)
          /\ c.n = b.n + 1 /\ c.mem = [b.mem EXCEPT ![a] = v] /\ c.wdt = b.wdt
      BY <2>0, <2>9, RamTaken DEF RamTakes, Puts
    <2> HIDE DEF c
    <2>3. Resting(p, c)
      BY <1>1, <2>2, AkinRests
    <2> QED BY <2>1, <2>2, <2>3 DEF c
  <1>2. Takes16(p, E, u, a, v)
    BY <1>1 DEF Takes16
  <1>3. PICK b, w : /\ Does(E, WriteWord_Xv2(a, v), u, g, w, g) /\ Ready(p, w)
                    /\ Resting(p, b) /\ Akin(u, b) /\ Unmoved(u, b) /\ Behind(Written(b, a, v), w)
    BY <1>2, WriteWordCall_Xv2
  <1>4. w.n = m
    BY <1>1, <1>3 DEF Behind
  <1> QED BY <1>3, <1>4, PrimSeq DEF WriteWord_Xv2, Finishes

\* Its write to the watchdog has no effect on memory or registers.
LEMMA WdtCall_Xv2 ==
    ASSUME NEW p, ~Legacy(p), NEW E, NEW g, NEW u, Waiting(p, u), NEW v \in Values16
    PROVE  Finishes(p, E, WriteWord_Xv2(WdtAddr(p), v), u, g, u.n)
  <1> DEFINE a == WdtAddr(p)
  <1>0. a \in RegValues(p)
    BY Peripherals DEF WdtAddr
  <1>1. ASSUME NEW b, Resting(p, b), Akin(u, b), Unmoved(u, b)
        PROVE  /\ Wrote(E, b, a, v, Written(b, a, v)) /\ Resting(p, Written(b, a, v))
               /\ Written(b, a, v).n = u.n
    <2> DEFINE c == Written(b, a, v)
    <2>1. Calm(b) /\ b.n = u.n /\ a = WdtAddr(b)
      BY <1>1, RestingIs DEF Unmoved, WdtAddr
    <2> HIDE DEF a
    <2>2. Wrote(E, b, a, v, c) /\ Sound(c) /\ Akin(b, c) /\ c.n = b.n
      BY <2>1, WroteWdt
    <2> HIDE DEF c
    <2>3. Resting(p, c)
      BY <1>1, <2>2, AkinRests
    <2> QED BY <2>1, <2>2, <2>3 DEF c
  <1> HIDE DEF a
  <1>2. Takes16(p, E, u, a, v)
    BY <1>1 DEF Takes16
  <1>3. PICK b, w : /\ Does(E, WriteWord_Xv2(a, v), u, g, w, g) /\ Ready(p, w)
                    /\ Resting(p, b) /\ Akin(u, b) /\ Unmoved(u, b) /\ Behind(Written(b, a, v), w)
    BY <1>0, <1>2, WriteWordCall_Xv2
  <1>4. w.n = u.n
    BY <1>1, <1>3 DEF Behind
  <1> QED BY <1>3, <1>4, PrimSeq DEF WriteWord_Xv2, Finishes, a

-----------------------------------------------------------------------------
(* Blocks of a MSP430Xv2.                                                  *)

\* Words at A[1], A[2] and so on are read one by one.
LEMMA ReadEachCall_Xv2 ==
    ASSUME NEW p, ~Legacy(p), NEW E, NEW g, Knows(g), g["buf"] = <<>>, NEW u, Ready(p, u),
           NEW n \in Nat, NEW A,
           \A i \in 1 .. n : A[i] \in MemAddr /\ A[i] \in RegValues(p),
           NEW o, o = [i \in 1 .. n |-> u.mem[A[i]]],
           NEW s, s = Loop([i \in 1 .. n |-> ReadWord_Xv2(A[i])])
    PROVE  ReadsTo(p, E, s, u, g, Buf(g, o))
  <1> DEFINE B == [i \in 1 .. n |-> ReadWord_Xv2(A[i])]
             V == [i \in 1 .. n |-> u.mem[A[i]]]
             J == {w \in Target : Ready(p, w) /\ Akin(u, w) /\ Unmoved(u, w)}
             I == [i \in 1 .. n + 1 |-> J]
             G == [i \in 1 .. n + 1 |-> Buf(g, [j \in 1 .. i - 1 |-> V[j]])]
  <1>1. Len(B) = n /\ Len(B) \in Nat
    BY DEF B
  <1>2. ASSUME NEW i \in 1 .. n, NEW y \in J
        PROVE  \E z \in J : Does(E, B[i], y, G[i], z, G[i + 1])
    <2> DEFINE a == A[i]
               x == V[i]
    <2>1. a \in MemAddr /\ a \in RegValues(p) /\ Waiting(p, y)
      BY ReadyWaits
    <2>2. B[i] = ReadWord_Xv2(a) /\ x = u.mem[a] /\ Akin(u, y) /\ Unmoved(u, y)
      OBVIOUS
    <2> HIDE DEF a, x, B, V
    <2>3. y.mem[a] = x
      BY <2>2 DEF Unmoved
    <2>3a. ReadsTo(p, E, ReadWord_Xv2(a), y, G[i], Also(G[i], y.mem[a]))
      BY <2>1, ReadWordCall_Xv2
    <2>4. PICK z : /\ Does(E, ReadWord_Xv2(a), y, G[i], z, Also(G[i], y.mem[a]))
                   /\ Ready(p, z) /\ Akin(y, z) /\ Unmoved(y, z)
      BY <2>3a DEF ReadsTo
    <2>5. Also(G[i], x) = G[i + 1]
      <3> DEFINE q == [j \in 1 .. i - 1 |-> V[j]]
      <3>2. Append([j \in 1 .. i - 1 |-> V[j]], V[i - 1 + 1]) = [j \in 1 .. i - 1 + 1 |-> V[j]]
        BY AppendNext
      <3>3. Append(q, V[i]) = [j \in 1 .. i |-> V[j]]
        BY <3>2
      <3>4. G[i] = Buf(g, q) /\ G[i + 1] = Buf(g, [j \in 1 .. i |-> V[j]])
        OBVIOUS
      <3> HIDE DEF G, q
      <3>5. Also(Buf(g, q), V[i]) = Buf(g, Append(q, V[i]))
        BY BufIs
      <3> QED BY <3>3, <3>4, <3>5 DEF x
    <2>6. z \in J
      <3>1. Akin(u, z) /\ Unmoved(u, z)
        BY <2>2, <2>4, AkinBoth DEF Unmoved
      <3>2. z \in Target
        BY <2>4 DEF Ready, Resting, Sound
      <3> QED BY <2>4, <3>1, <3>2
    <2> HIDE DEF G, J
    <2> QED BY <2>2, <2>3, <2>4, <2>5, <2>6
  <1>2a. \A x : IsSeq(ReadWord_Xv2(x))
    BY ONLY PrimSeq DEF ReadWord_Xv2
  <1>3. \A i \in 1 .. n : IsSeq(B[i])
    BY <1>2a
  <1>4. u \in J /\ u \in I[1]
    <2>1. Akin(u, u) /\ Unmoved(u, u)
      BY AkinBoth DEF Unmoved, Akin
    <2> QED BY <2>1 DEF Ready, Resting, Sound
  <1>5. \A i \in 1 .. n : I[i] = J /\ I[i + 1] = J
    OBVIOUS
  <1>5a. I[n + 1] = J
    OBVIOUS
  <1>6. G[1] = g
    <2>1. [j \in 1 .. 1 - 1 |-> V[j]] = <<>>
      OBVIOUS
    <2>2. G[1] = Buf(g, [j \in 1 .. 1 - 1 |-> V[j]])
      OBVIOUS
    <2> QED BY <2>1, <2>2, BufIs
  <1>7. G[n + 1] = Buf(g, V)
    <2>1. [j \in 1 .. n + 1 - 1 |-> V[j]] = V
      OBVIOUS
    <2> HIDE DEF V
    <2>2. G[n + 1] = Buf(g, [j \in 1 .. n + 1 - 1 |-> V[j]])
      OBVIOUS
    <2> QED BY <2>1, <2>2
  <1>9. \A w \in J : Ready(p, w) /\ Akin(u, w) /\ Unmoved(u, w)
    OBVIOUS
  <1> HIDE DEF B, V, I, G, J
  <1>10. LoopKeeps(E, B, I, G)
    BY <1>1, <1>2, <1>3, <1>5 DEF LoopKeeps
  <1>11. \E w \in I[Len(B) + 1] : Does(E, Loop(B), u, G[1], w, G[Len(B) + 1])
    BY <1>4, <1>10, LoopDoes
  <1>12. \E w \in J : Does(E, Loop(B), u, g, w, Buf(g, V))
    BY <1>1, <1>5a, <1>6, <1>7, <1>11
  <1>13. IsSeq(Loop(B))
    BY LoopSeq
  <1>14. V = o /\ Loop(B) = s
    BY DEF V, B
  <1> QED BY <1>9, <1>12, <1>13, <1>14 DEF ReadsTo

\* Words of RAM are written one by one, as E wants them.
LEMMA WriteEachCall_Xv2 ==
    ASSUME NEW p, ~Legacy(p), NEW E, NEW g, NEW u, Ready(p, u), u.n = 0, NEW n \in Nat, NEW A,
           NEW V,
           \A i \in 1 .. n : /\ A[i] \in RamAddr /\ A[i] \in RegValues(p) /\ V[i] \in Values16
                             /\ Writes16(E, i, A[i], V[i]),
           NEW s, s = Loop([i \in 1 .. n |-> WriteWord_Xv2(A[i], V[i])])
    PROVE  Finishes(p, E, s, u, g, n)
  <1> DEFINE B == [i \in 1 .. n |-> WriteWord_Xv2(A[i], V[i])]
             J(i) == {w \in Target : Ready(p, w) /\ w.n = i - 1}
             I == [i \in 1 .. n + 1 |-> J(i)]
             G == [i \in 1 .. n + 1 |-> g]
  <1>1. Len(B) = n /\ Len(B) \in Nat
    BY DEF B
  <1>2. ASSUME NEW i \in 1 .. n, NEW y \in J(i)
        PROVE  \E z \in J(i + 1) : Does(E, B[i], y, g, z, g)
    <2> DEFINE a == A[i]
               v == V[i]
    <2>1. /\ a \in RamAddr /\ a \in RegValues(p) /\ v \in Values16 /\ Waiting(p, y)
          /\ Writes16(E, i, a, v) /\ y.n = i - 1
      BY ReadyWaits
    <2>2. B[i] = WriteWord_Xv2(a, v)
      OBVIOUS
    <2> HIDE DEF a, v, B
    <2>3. i = y.n + 1
      BY <2>1
    <2>3a. Finishes(p, E, WriteWord_Xv2(a, v), y, g, i)
      BY <2>1, <2>3, RamCall_Xv2
    <2>4. PICK z : Does(E, WriteWord_Xv2(a, v), y, g, z, g) /\ Ready(p, z) /\ z.n = i
      BY <2>3a DEF Finishes
    <2>5. z \in J(i + 1)
      BY <2>1, <2>4 DEF Ready, Resting, Sound
    <2> HIDE DEF J
    <2> QED BY <2>2, <2>4, <2>5
  <1>2a. \A x, y : IsSeq(WriteWord_Xv2(x, y))
    BY ONLY PrimSeq DEF WriteWord_Xv2
  <1>3. \A i \in 1 .. n : IsSeq(B[i])
    BY <1>2a
  <1>4. u \in I[1]
    BY DEF Ready, Resting, Sound
  <1>5. \A i \in 1 .. n : I[i] = J(i) /\ I[i + 1] = J(i + 1) /\ G[i] = g /\ G[i + 1] = g
    OBVIOUS
  <1>6. I[n + 1] = J(n + 1) /\ G[1] = g /\ G[n + 1] = g
    OBVIOUS
  <1>7. \A w \in J(n + 1) : Ready(p, w) /\ w.n = n
    OBVIOUS
  <1> HIDE DEF B, I, G, J
  <1>10. LoopKeeps(E, B, I, G)
    BY <1>1, <1>2, <1>3, <1>5 DEF LoopKeeps
  <1>11. \E w \in I[Len(B) + 1] : Does(E, Loop(B), u, G[1], w, G[Len(B) + 1])
    BY <1>4, <1>10, LoopDoes
  <1>12. \E w \in J(n + 1) : Does(E, Loop(B), u, g, w, g)
    BY <1>1, <1>6, <1>11
  <1>13. IsSeq(Loop(B))
    BY LoopSeq
  <1>14. Loop(B) = s
    BY DEF B
  <1> QED BY <1>7, <1>12, <1>13, <1>14 DEF Finishes

\* JTAG reads on at the program counter.
Streaming(p, w) ==
    /\ Resting(p, w) /\ w.cpu = Fetch /\ w.ir = IR_DATA_QUICK /\ w.cntrl = \h0501

\* What is played for an item of a block.
QuickItem == PulseP \o DrTo(0, "buf")

\* w is read at its program counter, which moves on.
QuickReads(p, E, w, g, x) ==
    \E z : /\ Does(E, QuickItem, w, g, z, Also(g, x)) /\ Streaming(p, z)
           /\ Akin(w, z) /\ Unmoved(w, z) /\ z.reg[0] = PcPlus(w, 2)

\* One quick read: the word at the program counter, which goes on by two.
LEMMA QuickItemDoes ==
    ASSUME NEW p, ~Legacy(p), NEW E, NEW g, NEW w, Streaming(p, w), NEW x, x = Word(w, w.reg[0])
    PROVE  QuickReads(p, E, w, g, x)
  <1> DEFINE k == \h0501
             ir == IR_DATA_QUICK
             tclk == w.tclk
             mab == w.mab
             dto == w.dto
             din == w.din
             mdb == w.mdb
             c == AtPc(w, PcPlus(w, 2))
             y == P(w, ir, k, 1, mab, dto, din, mdb, Fetch)
             z == P(c, ir, k, 0, mab, dto, din, x, Fetch)
  <1>1. ~Writes(w, k) /\ ~Executes(k) /\ Reads(w, k) /\ ~Writes(c, k) /\ ir \in Shows /\ ir # IR_DATA_TO_ADDR
    <2>1. ~Legacy(w)
      BY RestingIs DEF Streaming
    <2>2. ir \in Shows /\ ir # IR_DATA_TO_ADDR
      BY Codes DEF IR_DATA_QUICK, IR_DATA_TO_ADDR
    <2> QED BY <2>1, <2>2, ControlWords
  <1>2. w = P(w, ir, k, tclk, mab, dto, din, mdb, Fetch) /\ Calm(w) /\ Sound(w) /\ Quiet(w)
        /\ tclk \in {0, 1} /\ Resting(p, w)
    <2>1. w \in Target /\ w.cpu = Fetch /\ w.ir = ir /\ w.cntrl = k
      BY RestingIs DEF Streaming
    <2> HIDE DEF ir, k
    <2>2. w = P(w, ir, k, tclk, mab, dto, din, mdb, Fetch)
      BY <2>1, Columns
    <2> QED BY <2>1, <2>2, RestingIs DEF Streaming, Target
  <1> HIDE DEF k
  <1>3. Quick(E, w, c, x) /\ Resting(p, c) /\ Akin(w, c) /\ Unmoved(w, c) /\ c.reg[0] = PcPlus(w, 2)
    BY <1>2, QuickIs
  <1> HIDE DEF tclk, mab, dto, din, mdb, c
  <1>4. Edge(E, kdTclk1, w, y)
    <2>1. CASE tclk = 0
      <3>1. Edge(E, kdTclk1, P(w, ir, k, 0, mab, dto, din, mdb, Fetch), y)
        BY <1>1, <1>2, EdgeIdle
      <3> HIDE DEF y, ir
      <3> QED BY <1>2, <2>1, <3>1
    <2>2. CASE tclk = 1
      <3>1. Edge(E, kdTclk1, P(w, ir, k, 1, mab, dto, din, mdb, Fetch), y)
        BY <1>2, EdgeHigh
      <3> HIDE DEF y, ir
      <3> QED BY <1>2, <2>2, <3>1
    <2> QED BY <1>2, <2>1, <2>2
  <1>5. Edge(E, kdTclk0, y, z)
    BY <1>1, <1>3, EdgeQuick
  <1>6. Does(E, DrTo(0, "buf"), z, g, z, Also(g, x))
    <2>1. Sound(c)
      BY <1>3, RestingIs
    <2> HIDE DEF ir
    <2> QED BY <1>1, <2>1, DrShownBuf
  <1>7. z.ir = ir /\ z.cntrl = k /\ z.cpu = Fetch /\ Behind(c, z)
    <2>1. c \in Target
      BY <1>3, RestingIs
    <2> QED BY <2>1, PFields, BehindIs
  <1> HIDE DEF y, z
  <1>8. Does(E, PulseP, w, g, z, g)
    BY <1>4, <1>5, EdgePulse, EdgeIs
  <1>9. Does(E, QuickItem, w, g, z, Also(g, x))
    BY <1>6, <1>8, PulseSeq, PrimSeq, DoesBoth DEF QuickItem
  <1>10. Sound(z)
    BY <1>2, <1>8, DoesSound
  <1>11. Resting(p, z) /\ Akin(w, z) /\ Unmoved(w, z) /\ z.reg[0] = PcPlus(w, 2)
    <2>1. Akin(w, z) /\ Unmoved(w, z) /\ z.reg[0] = PcPlus(w, 2)
      BY <1>3, <1>7, AkinBoth DEF Behind, Unmoved
    <2> QED BY <1>2, <1>10, <2>1, AkinRests
  <1>12. Streaming(p, z)
    BY <1>7, <1>11 DEF Streaming, k
  <1> QED BY <1>9, <1>11, <1>12 DEF QuickReads

\* From the program counter on, n words are read.
QuickLoop(n) == Loop([i \in 1 .. n |-> QuickItem])

\* n words from a on go into the buffer.
Streams(p, E, u, g, n, a) ==
    \E w : /\ Does(E, QuickLoop(n), u, g, w, Buf(g, [i \in 1 .. n |-> u.mem[a + (i - 1) * 2]]))
           /\ Streaming(p, w) /\ Akin(u, w) /\ Unmoved(u, w)

\* The quick reads fill the buffer with what is at their addresses, in order.
LEMMA QuickLoopDoes ==
    ASSUME NEW p, ~Legacy(p), NEW E, NEW g, Knows(g), g["buf"] = <<>>, NEW u, Streaming(p, u),
           NEW n \in Nat, NEW a \in Nat, n > 0 => u.reg[0] = a,
           \A i \in 1 .. n : a + (i - 1) * 2 \in MemAddr /\ a + (i - 1) * 2 \in RegValues(p)
    PROVE  Streams(p, E, u, g, n, a)
  <1> DEFINE B == [i \in 1 .. n |-> QuickItem]
             A(i) == a + (i - 1) * 2
             V == [i \in 1 .. n |-> u.mem[A(i)]]
             J(i) == {w \in Target : /\ Streaming(p, w) /\ Akin(u, w) /\ Unmoved(u, w)
                                     /\ i <= n => w.reg[0] = A(i)}
             I == [i \in 1 .. n + 1 |-> J(i)]
             G == [i \in 1 .. n + 1 |-> Buf(g, [j \in 1 .. i - 1 |-> V[j]])]
  <1>1. Len(B) = n /\ Len(B) \in Nat
    BY DEF B
  <1>2. ASSUME NEW i \in 1 .. n, NEW y \in J(i)
        PROVE  \E z \in J(i + 1) : Does(E, B[i], y, G[i], z, G[i + 1])
    <2> DEFINE x == V[i]
               b == A(i)
    <2>1. b \in MemAddr /\ b \in RegValues(p) /\ Streaming(p, y) /\ Akin(u, y) /\ Unmoved(u, y) /\ y.reg[0] = b
      OBVIOUS
    <2>2. B[i] = QuickItem /\ x = u.mem[b]
      OBVIOUS
    <2>2a. i + 1 <= n => A(i + 1) = b + 2 /\ b + 2 \in RegValues(p)
      <3>1. A(i + 1) = b + 2
        OBVIOUS
      <3>2. \A j \in 1 .. n : A(j) \in RegValues(p)
        OBVIOUS
      <3> HIDE DEF A
      <3> QED BY <3>1, <3>2
    <2> HIDE DEF x, b, B, V
    <2>3. x = Word(y, y.reg[0])
      <3>1. DOMAIN y.mem = MemAddr
        BY <2>1, RestingIs DEF Streaming, Target
      <3> QED BY <2>1, <2>2, <3>1 DEF Word, Unmoved
    <2>4. QuickReads(p, E, y, G[i], x)
      BY <2>1, <2>3, QuickItemDoes
    <2>4a. PICK z : /\ Does(E, QuickItem, y, G[i], z, Also(G[i], x)) /\ Streaming(p, z)
                    /\ Akin(y, z) /\ Unmoved(y, z) /\ z.reg[0] = PcPlus(y, 2)
      BY <2>4 DEF QuickReads
    <2>5. Also(G[i], x) = G[i + 1]
      <3> DEFINE s == [j \in 1 .. i - 1 |-> V[j]]
      <3>2. Append([j \in 1 .. i - 1 |-> V[j]], V[i - 1 + 1]) = [j \in 1 .. i - 1 + 1 |-> V[j]]
        BY AppendNext
      <3>3. Append(s, V[i]) = [j \in 1 .. i |-> V[j]]
        BY <3>2
      <3>4. G[i] = Buf(g, s) /\ G[i + 1] = Buf(g, [j \in 1 .. i |-> V[j]])
        OBVIOUS
      <3> HIDE DEF G, s
      <3>5. Also(Buf(g, s), V[i]) = Buf(g, Append(s, V[i]))
        BY BufIs
      <3> QED BY <3>3, <3>4, <3>5 DEF x
    <2>6. z \in J(i + 1)
      <3>1. Akin(u, z) /\ Unmoved(u, z)
        BY <2>1, <2>4a, AkinBoth DEF Unmoved
      <3>2. z \in Target
        BY <2>4a, RestingIs DEF Streaming
      <3>3. ASSUME i + 1 <= n
            PROVE  z.reg[0] = A(i + 1)
        <4>1. RegSize(y) = RegSize(p)
          BY <2>1, RestingIs DEF Streaming
        <4>2. b + 2 \in RegValues(p) /\ A(i + 1) = b + 2
          BY <2>2a, <3>3
        <4>3. (b + 2) % RegSize(p) = b + 2
          BY <4>2 DEF RegValues, RegSize
        <4> HIDE DEF A
        <4> QED BY <2>1, <2>4a, <4>1, <4>2, <4>3 DEF PcPlus
      <3> QED BY <2>4a, <3>1, <3>2, <3>3
    <2> HIDE DEF G, J
    <2> QED BY <2>2, <2>4a, <2>5, <2>6
  <1>3. \A i \in 1 .. n : IsSeq(B[i])
    BY PulseSeq, PrimSeq, SeqConcat DEF QuickItem
  <1>4. u \in I[1]
    <2>1. Akin(u, u) /\ Unmoved(u, u) /\ u \in Target
      BY AkinSelf, RestingIs DEF Unmoved, Streaming
    <2>2. 1 <= n => u.reg[0] = A(1)
      OBVIOUS
    <2>3. I[1] = J(1)
      OBVIOUS
    <2> QED BY <2>1, <2>2, <2>3
  <1>5. \A i \in 1 .. n : I[i] = J(i) /\ I[i + 1] = J(i + 1)
    OBVIOUS
  <1>5a. I[n + 1] = J(n + 1)
    OBVIOUS
  <1>6. G[1] = g
    <2>1. [j \in 1 .. 1 - 1 |-> V[j]] = <<>>
      OBVIOUS
    <2>2. G[1] = Buf(g, [j \in 1 .. 1 - 1 |-> V[j]])
      OBVIOUS
    <2> HIDE DEF V, G
    <2> QED BY <2>1, <2>2, BufIs
  <1>7. G[n + 1] = Buf(g, V)
    <2>1. [j \in 1 .. n + 1 - 1 |-> V[j]] = V
      OBVIOUS
    <2> HIDE DEF V
    <2>2. G[n + 1] = Buf(g, [j \in 1 .. n + 1 - 1 |-> V[j]])
      OBVIOUS
    <2> QED BY <2>1, <2>2
  <1>9. \A w \in J(n + 1) : Streaming(p, w) /\ Akin(u, w) /\ Unmoved(u, w)
    OBVIOUS
  <1> HIDE DEF B, V, I, G, J
  <1>10. LoopKeeps(E, B, I, G)
    BY <1>1, <1>2, <1>3, <1>5 DEF LoopKeeps
  <1>11. \E w \in I[Len(B) + 1] : Does(E, Loop(B), u, G[1], w, G[Len(B) + 1])
    BY <1>4, <1>10, LoopDoes
  <1>12. \E w \in J(n + 1) : Does(E, Loop(B), u, g, w, Buf(g, V))
    BY <1>1, <1>5a, <1>6, <1>7, <1>11
  <1> QED BY <1>9, <1>12 DEF B, V, QuickLoop, Streams

\* A test of a variable.
LEMMA IfValueDoes ==
    ASSUME NEW E, NEW x, NEW V, NEW s, IsSeq(s), NEW u, NEW h, NEW w, NEW k,
           (h[x] \in V /\ Does(E, s, u, h, w, k)) \/ (h[x] \notin V /\ w = u /\ k = h)
    PROVE  Does(E, IfValue(x, V, s), u, h, w, k) /\ IsSeq(IfValue(x, V, s))
  <1> DEFINE e == [p |-> "if", of |-> x, bits |-> {}, values |-> V, then |-> s]
             i == IF h[x] \in V THEN s ELSE <<>>
  <1>1. ~AnyBit(h[x], {})
    BY DEF AnyBit
  <1>2. InPlaceOf(e, h) = i
    BY <1>1 DEF InPlaceOf
  <1>3. e.p \in {"play", "loop", "if", "setpc"}
    OBVIOUS
  <1>4. Does(E, i, u, h, w, k) /\ IsSeq(i)
    BY DoesNothing, NoneIsSeq
  <1> HIDE DEF e, i
  <1>5. Does(E, <<e>>, u, h, w, k)
    BY <1>2, <1>3, <1>4, DoesInPlace
  <1> QED BY <1>5, SeqOne DEF IfValue, e

\* TCLK is raised.
Raises(p, E, w, g) == \E z : Does(E, Set, w, g, z, g) /\ Ready(p, z) /\ Behind(w, z) /\ z.tclk = 1

\* The clock may be raised before a quick read ...
LEMMA SetStreaming ==
    ASSUME NEW p, ~Legacy(p), NEW E, NEW g, NEW w, Streaming(p, w)
    PROVE  Raises(p, E, w, g)
  <1> DEFINE k == \h0501
             ir == IR_DATA_QUICK
             tclk == w.tclk
             mab == w.mab
             dto == w.dto
             din == w.din
             mdb == w.mdb
             y == P(w, ir, k, 1, mab, dto, din, mdb, Fetch)
  <1>1. Reads(w, k)
    <2>1. ~Legacy(w)
      BY RestingIs DEF Streaming
    <2> QED BY <2>1, ControlWords
  <1>2. w = P(w, ir, k, tclk, mab, dto, din, mdb, Fetch) /\ Calm(w) /\ Sound(w) /\ Quiet(w)
        /\ tclk \in {0, 1} /\ Resting(p, w)
    <2>1. w \in Target /\ w.cpu = Fetch /\ w.ir = ir /\ w.cntrl = k
      BY RestingIs DEF Streaming
    <2> HIDE DEF ir, k
    <2>2. w = P(w, ir, k, tclk, mab, dto, din, mdb, Fetch)
      BY <2>1, Columns
    <2> QED BY <2>1, <2>2, RestingIs DEF Streaming, Target
  <1>3. Rested_Xv2(ir, k, 1, din)
    BY DEF Rested_Xv2
  <1> HIDE DEF k, tclk, mab, dto, din, mdb
  <1>4. Edge(E, kdTclk1, w, y)
    <2>1. CASE tclk = 0
      <3>1. Edge(E, kdTclk1, P(w, ir, k, 0, mab, dto, din, mdb, Fetch), y)
        BY <1>1, <1>2, EdgeIdle
      <3> HIDE DEF y, ir
      <3> QED BY <1>2, <2>1, <3>1
    <2>2. CASE tclk = 1
      <3>1. Edge(E, kdTclk1, P(w, ir, k, 1, mab, dto, din, mdb, Fetch), y)
        BY <1>2, EdgeHigh
      <3> HIDE DEF y, ir
      <3> QED BY <1>2, <2>2, <3>1
    <2> QED BY <1>2, <2>1, <2>2
  <1>5. Does(E, Set, w, g, y, g)
    BY <1>4, EdgeIs
  <1>6. Sound(y)
    BY <1>2, <1>5, DoesSound
  <1> HIDE DEF ir
  <1>7. Ready(p, y) /\ Behind(w, y) /\ y.tclk = 1
    BY <1>2, <1>3, <1>6, ReadyAfter_Xv2
  <1> HIDE DEF y
  <1> QED BY <1>5, <1>7 DEF Raises

\* ... and behind a program counter that was set.
LEMMA SetPlaced ==
    ASSUME NEW p, ~Legacy(p), NEW E, NEW g, NEW v, NEW w, Placed(p, w, v)
    PROVE  Raises(p, E, w, g)
  <1> DEFINE k == \h1400
             ir == IR_ADDR_CAPTURE
             mab == w.mab
             dto == w.dto
             din == \h4303
             mdb == w.mdb
             y == P(w, ir, k, 1, mab, dto, din, mdb, Fetch)
  <1>1. Executes(k) /\ Fetches(w, din, Fetch)
    BY ControlWords, Nops
  <1>2. w = P(w, ir, k, 0, mab, dto, din, mdb, Fetch) /\ Calm(w) /\ Sound(w) /\ Resting(p, w)
    <2>1. w \in Target /\ w.cpu = Fetch /\ w.ir = ir /\ w.cntrl = k /\ w.din = din /\ w.tclk = 0
      BY RestingIs DEF Placed, Ready
    <2> HIDE DEF ir, k, din
    <2>2. w = P(w, ir, k, 0, mab, dto, din, mdb, Fetch)
      BY <2>1, Columns
    <2> QED BY <2>1, <2>2, RestingIs DEF Placed, Ready
  <1>3. Rested_Xv2(ir, k, 1, din)
    BY DEF Rested_Xv2
  <1> HIDE DEF k, mab, dto, din, mdb, ir
  <1>4. Edge(E, kdTclk1, P(w, ir, k, 0, mab, dto, din, mdb, Fetch), y)
    BY <1>1, <1>2, EdgeFetch
  <1> HIDE DEF y
  <1>5. Does(E, Set, w, g, y, g)
    BY <1>2, <1>4, EdgeIs
  <1>6. Sound(y)
    BY <1>2, <1>5, DoesSound
  <1>7. Ready(p, y) /\ Behind(w, y) /\ y.tclk = 1
    BY <1>2, <1>3, <1>6, ReadyAfter_Xv2 DEF y
  <1> QED BY <1>5, <1>7 DEF Raises

\* JTAG takes the bus after the program counter is set.
LEMMA QuickCall ==
    ASSUME NEW p, ~Legacy(p), NEW E, NEW g, NEW v, NEW w, Placed(p, w, v)
    PROVE  \E z : Does(E, QuickPlay, w, g, z, g) /\ Streaming(p, z) /\ Behind(w, z)
  <1> DEFINE k == \h1400
             c == \h0501
             ir == IR_ADDR_CAPTURE
             q == IR_DATA_QUICK
             mab == w.mab
             dto == w.dto
             din == \h4303
             mdb == w.mdb
             z == P(w, q, c, 1, mab, dto, din, mdb, Fetch)
  <1>2. w = P(w, ir, k, 0, mab, dto, din, mdb, Fetch) /\ Calm(w) /\ Sound(w) /\ Resting(p, w) /\ ~Legacy(w)
    <2>1. w \in Target /\ w.cpu = Fetch /\ w.ir = ir /\ w.cntrl = k /\ w.din = din /\ w.tclk = 0
      BY RestingIs DEF Placed, Ready
    <2> HIDE DEF ir, k, din
    <2>2. w = P(w, ir, k, 0, mab, dto, din, mdb, Fetch)
      BY <2>1, Columns
    <2> QED BY <2>1, <2>2, RestingIs DEF Placed, Ready
  <1>3. Rested_Xv2(q, c, 1, din)
    BY DEF Rested_Xv2
  <1> HIDE DEF mab, dto, mdb
  <1>4. Does(E, QuickPlay, P(w, ir, k, 0, mab, dto, din, mdb, Fetch), g, z, g)
    BY <1>2, QuickRows
  <1> HIDE DEF z, ir, k
  <1>5. Does(E, QuickPlay, w, g, z, g)
    BY <1>2, <1>4
  <1>6. Sound(z)
    BY <1>2, <1>5, DoesSound
  <1> HIDE DEF q, c, din
  <1>7. Ready(p, z) /\ Behind(w, z) /\ z.ir = q /\ z.cntrl = c /\ z.cpu = Fetch
    BY <1>2, <1>3, <1>6, ReadyAfter_Xv2 DEF z
  <1>8. Streaming(p, z)
    BY <1>7 DEF Streaming, Ready, q, c
  <1> QED BY <1>5, <1>7, <1>8

\* The safe program counter.
LEMMA SafePc ==
    ASSUME NEW p
    PROVE  SAFE_PC_ADDRESS \in RegValues(p)
  BY DEF SAFE_PC_ADDRESS, RegValues, RegSize

\* What the quick read leaves is put in order: the program counter is moved to a
\* safe place on the parts V, and TCLK raised.
QuickTail(V) == IfValue("jtag_id", V, SetPC_Xv2(SAFE_PC_ADDRESS))

QuickEnds(p, E, V, w, g) ==
    \E y, z, h : /\ Does(E, QuickTail(V), w, g, y, h) /\ Does(E, Set, y, h, z, h) /\ Ready(p, z) /\ Unmoved(w, z)
                 /\ h["buf"] = g["buf"]

\* Behind the quick reads JTAG takes the bus back.
LEMMA QuickEndsIs ==
    ASSUME NEW p, ~Legacy(p), NEW E, NEW g, Knows(g), NEW w, Streaming(p, w), NEW V
    PROVE  QuickEnds(p, E, V, w, g)
  <1> DEFINE x == "jtag_id"
             s == SetPC_Xv2(SAFE_PC_ADDRESS)
  <1>0. IsSeq(s)
    BY SetPCSeq_Xv2
  <1>1. CASE g[x] \notin V
    <2> HIDE DEF x, s
    <2>1. Does(E, IfValue(x, V, s), w, g, w, g)
      BY <1>0, <1>1, IfValueDoes
    <2>2. PICK z : Does(E, Set, w, g, z, g) /\ Ready(p, z) /\ Behind(w, z)
      BY SetStreaming DEF Raises
    <2>3. Unmoved(w, z)
      BY <2>2 DEF Behind, Unmoved
    <2> QED BY <2>1, <2>2, <2>3 DEF QuickEnds, QuickTail, x, s
  <1>2. CASE g[x] \in V
    <2>1. Waiting(p, w)
      BY DEF Streaming, Waiting, Held501
    <2>2. PlacedFrom(p, E, s, w, g, SAFE_PC_ADDRESS)
      BY <2>1, SafePc, SetPCCall_Xv2
    <2> HIDE DEF x, s
    <2>3. PICK y, h : /\ Does(E, s, w, g, y, h) /\ Placed(p, y, SAFE_PC_ADDRESS) /\ Unmoved(w, y)
                      /\ Keeps(g, h, {"ctrl"})
      BY <2>2 DEF PlacedFrom
    <2>4. Does(E, IfValue(x, V, s), w, g, y, h)
      BY <1>0, <1>2, <2>3, IfValueDoes
    <2>5. PICK z : Does(E, Set, y, h, z, h) /\ Ready(p, z) /\ Behind(y, z)
      BY <2>3, SetPlaced DEF Raises
    <2>6. Unmoved(w, z)
      BY <2>3, <2>5 DEF Behind, Unmoved
    <2>7. h["buf"] = g["buf"]
      BY <2>3 DEF Keeps, Locals
    <2> QED BY <2>4, <2>5, <2>6, <2>7 DEF QuickEnds, QuickTail, x, s
  <1> QED BY <1>1, <1>2

\* A block of words is read.
ReadsBuf(p, E, s, u, g, o) ==
    (\E w, h : Does(E, s, u, g, w, h) /\ Ready(p, w) /\ Unmoved(u, w) /\ h["buf"] = o) /\ IsSeq(s)

\* ReadWords of TapDev430Xv2 brings the words in memory, in order.
LEMMA ReadWordsCall_Xv2 ==
    ASSUME NEW p, ~Legacy(p), NEW E, NEW g, Knows(g), g["buf"] = <<>>, NEW u, Ready(p, u),
           NEW n \in Nat, NEW a \in RegValues(p),
           \A i \in 1 .. n : a + (i - 1) * 2 \in MemAddr /\ a + (i - 1) * 2 \in RegValues(p),
           NEW o, o = [i \in 1 .. n |-> u.mem[a + (i - 1) * 2]]
    PROVE  ReadsBuf(p, E, ReadWords_Xv2(a, n), u, g, o)
  <1> DEFINE m == IR_CNTRL_SIG_CAPTURE
             x == "jtag_id"
             g1 == Got(g, x, u.id)
             V == [i \in 1 .. n |-> u.mem[a + (i - 1) * 2]]
             P2 == {kMsp_98, kMsp_99}
             i1 == IrTo(m, x)
             i2 == SetPC_Xv2(a)
             i3 == QuickPlay
             i4 == QuickLoop(n)
             i5 == QuickTail(P2)
  <1>1. Waiting(p, u)
    BY ReadyWaits
  <1>2. PICK w1 : Waiting(p, w1) /\ Behind(u, w1) /\ Does(E, i1, u, g, w1, g1)
    <2>1. m \in Octets /\ m # IR_CNTRL_SIG_RELEASE /\ m # IR_DATA_QUICK
      BY Codes
    <2>2. Plain(x)
      BY PlainAre
    <2> HIDE DEF m, x
    <2> QED BY <1>1, <2>1, <2>2, SelectedIs
  <1>3. Knows(g1) /\ g1["buf"] = <<>>
    <2>1. x \in Locals /\ Keeps(g, g1, {x})
      BY LocalsAre, KeepsAre DEF Locals
    <2> QED BY <2>1 DEF Keeps, Locals
  <1> HIDE DEF g1, i1, x, m
  <1>4. PlacedFrom(p, E, i2, w1, g1, a)
    BY <1>2, <1>3, SetPCCall_Xv2
  <1>5. PICK w2, h2 : Does(E, i2, w1, g1, w2, h2) /\ Placed(p, w2, a) /\ Unmoved(w1, w2) /\ Keeps(g1, h2, {"ctrl"})
    BY <1>4 DEF PlacedFrom
  <1>6. Knows(h2) /\ h2["buf"] = <<>>
    BY <1>3, <1>5 DEF Keeps, Locals
  <1>7. PICK w3 : Does(E, i3, w2, h2, w3, h2) /\ Streaming(p, w3) /\ Behind(w2, w3)
    BY <1>5, QuickCall
  <1>8. w3.reg[0] = a /\ w3.mem = u.mem /\ Unmoved(u, w3) /\ a \in Nat
    BY <1>2, <1>5, <1>7 DEF Placed, Behind, Unmoved, RegValues
  <1>9. PICK w4 : /\ Does(E, i4, w3, h2, w4, Buf(h2, V)) /\ Streaming(p, w4) /\ Unmoved(w3, w4)
    <2>1. Streams(p, E, w3, h2, n, a)
      BY <1>6, <1>7, <1>8, QuickLoopDoes
    <2> QED BY <1>8, <2>1 DEF Streams
  <1>10. Knows(Buf(h2, V)) /\ Buf(h2, V)["buf"] = V
    BY <1>6, BufIs
  <1> DEFINE h4 == Buf(h2, V)
  <1> HIDE DEF i2, i3, i4, V, h4, P2
  <1>11. Knows(h4) /\ h4["buf"] = V /\ Does(E, i4, w3, h2, w4, h4)
    BY <1>9, <1>10 DEF h4
  <1>12. QuickEnds(p, E, P2, w4, h4)
    BY <1>9, <1>11, QuickEndsIs
  <1>13. PICK w5, z, h : /\ Does(E, i5, w4, h4, w5, h) /\ Does(E, Set, w5, h, z, h) /\ Ready(p, z) /\ Unmoved(w4, z)
                         /\ h["buf"] = h4["buf"]
    BY <1>12 DEF QuickEnds
  <1>14. Unmoved(u, z) /\ h["buf"] = V
    BY <1>8, <1>9, <1>11, <1>13 DEF Unmoved
  <1>15. IsSeq(i1) /\ IsSeq(i2) /\ IsSeq(i3) /\ IsSeq(i4) /\ IsSeq(i5) /\ IsSeq(Set)
    <2>1. IsSeq(i5)
      BY SeqOne, NoneIsSeq DEF QuickTail, IfValue
    <2> QED BY ONLY <2>1, PrimSeq, SetPCSeq_Xv2, LoopSeq, PlaySeq, PulseSeq DEF i1, i2, i3, i4, QuickPlay, QuickLoop
  <1> HIDE DEF i5
  <1>16. Does(E, i1 \o i2, u, g, w2, h2) /\ IsSeq(i1 \o i2)
    BY <1>2, <1>5, <1>15, DoesBoth
  <1>17. Does(E, i1 \o i2 \o i3, u, g, w3, h2) /\ IsSeq(i1 \o i2 \o i3)
    BY <1>7, <1>15, <1>16, DoesBoth
  <1>18. Does(E, i1 \o i2 \o i3 \o i4, u, g, w4, h4) /\ IsSeq(i1 \o i2 \o i3 \o i4)
    BY <1>11, <1>15, <1>17, DoesBoth
  <1>19. Does(E, i1 \o i2 \o i3 \o i4 \o i5, u, g, w5, h) /\ IsSeq(i1 \o i2 \o i3 \o i4 \o i5)
    BY <1>13, <1>15, <1>18, DoesBoth
  <1>20. Does(E, i1 \o i2 \o i3 \o i4 \o i5 \o Set, u, g, z, h) /\ IsSeq(i1 \o i2 \o i3 \o i4 \o i5 \o Set)
    BY <1>13, <1>15, <1>19, DoesBoth
  <1>21. ReadWords_Xv2(a, n) = i1 \o i2 \o i3 \o i4 \o i5 \o Set
    BY DEF ReadWords_Xv2, i1, i2, i3, i4, i5, QuickPlay, QuickLoop, QuickItem, QuickTail, P2, m, x
  <1>22. V = o
    BY DEF V
  <1> QED BY <1>13, <1>14, <1>20, <1>21, <1>22 DEF ReadsBuf

-----------------------------------------------------------------------------
(* Registers of a MSP430Xv2 are read.                                      *)

\* The halves of a register are put together.
Combined(g, v) == Got(g, v, (g["rx_h"] * 2^16 + g["rx_l"]) % 2^20)

\* The two halves of a register make its value.
LEMMA CombineDoes ==
    ASSUME NEW E, NEW u, NEW g, NEW v
    PROVE  Does(E, Combine(v), u, g, u, Combined(g, v)) /\ IsSeq(Combine(v))
  <1> DEFINE e == Prim("combine", 0, v)
             h == Combined(g, v)
  <1>1. ASSUME Sound(u), NEW r, IsSeq(r)
        PROVE  Path(E, <<u, g, <<e>> \o r>>, <<u, h, r>>)
    <2> DEFINE c == <<u, g, <<e>> \o r>>
               d == <<u, h, r>>
    <2>0. e.p = "combine" /\ e.to = v
      BY DEF Prim
    <2> HIDE DEF e
    <2>1. Moves(c, d)
      BY <1>1, <2>0, SeqOne DEF Moves, After, Primitives, Combined, Got
    <2>2. Link(E, c, d)
      BY <2>1, <1>1 DEF Link, Fits, Same
    <2> QED BY <2>2, PathOne
  <1>2. Does(E, <<e>>, u, g, u, h)
    BY <1>1, SeqOne DEF Does
  <1>3. IsSeq(<<e>>)
    BY SeqOne, NoneIsSeq
  <1> QED BY <1>2, <1>3 DEF Combine

\* c without what is in its mailbox.
Emptied(c) == [c EXCEPT !.jmb = <<>>]

\* A mailbox that is emptied leaves the target between two operations.
LEMMA EmptiedIs ==
    ASSUME NEW p, NEW E, NEW b, Resting(p, b), NEW c, Sound(c), Unmoved(b, c),
           Akin(b, [c EXCEPT !.jmb = b.jmb])
    PROVE  /\ Moved(c, Emptied(c), E) /\ Resting(p, Emptied(c)) /\ Akin(b, Emptied(c)) /\ Unmoved(b, Emptied(c))
           /\ Emptied(c).reg = c.reg
  <1> DEFINE e == Emptied(c)
  <1>1. b.jmb = <<>>
    BY DEF Resting
  <1>2. e = [c EXCEPT !.jmb = <<>>] /\ Akin(b, e) /\ c \in Target
    BY <1>1 DEF Emptied, Sound
  <1>3. e \in Target
    <2>1. <<>> \in Seq(Values16)
      OBVIOUS
    <2> HIDE DEF e
    <2> QED BY <1>2, <2>1 DEF Target
  <1>4. /\ e.mem = c.mem /\ e.n = c.n /\ e.reg = c.reg /\ e.drv = c.drv /\ e.running = c.running /\ e.mab = c.mab
    BY <1>2 DEF Target
  <1>5. RegValues(e) = RegValues(c)
    BY <1>4 DEF RegValues, RegSize
  <1> HIDE DEF e
  <1>6. Held(e) = Held(c)
    BY <1>4 DEF Held
  <1>7. Sound(e)
    BY <1>3, <1>4, <1>5 DEF Sound
  <1>8. Resting(p, e)
    BY <1>2, <1>7, AkinRests
  <1>9. Moved(c, e, E)
    BY <1>4, <1>6, <1>7 DEF Moved, Fits, Same
  <1> QED BY <1>2, <1>4, <1>6, <1>8, <1>9 DEF e, Unmoved

\* From u the script s reads register r, which moves the program counter.
Scratch == {"rx_l", "rx_h", "jtagId", "ctrl"}
GetsReg(p, E, s, u, g, r) ==
    \E w, h : /\ Does(E, s, u, g, w, h) /\ Ready(p, w) /\ Akin(u, w) /\ Unmoved(u, w)
              /\ h["rx_h"] * 2^16 + h["rx_l"] = Value(u, r) /\ Keeps(g, h, Scratch)

\* The mailbox a register is stored at.
MailAt(id) == IF id = kMsp_98 THEN \h14C ELSE \h18C

\* The addresses of the mailbox.
LEMMA MailIs ==
    ASSUME NEW id
    PROVE  MailAt(id) \in Values16 /\ Low(MailAt(id), MailAt(id)) /\ Low(\h0FF6, \h0FF6)
  <1>1. MailAt(id) \in Values16 /\ \h0FF6 \in Values16
    BY DEF MailAt, Values16
  <1> QED BY <1>1, LowOf

\* GetReg of TapDev430Xv2 reads the register; the program counter has gone on.
LEMMA GetRegInternalCall ==
    ASSUME NEW p, ~Legacy(p), NEW E, NEW g, Knows(g), NEW u, Ready(p, u), NEW r \in Regs, NEW id
    PROVE  GetsReg(p, E, GetRegInternal(r, id), u, g, r)
  <1> DEFINE m == IR_CNTRL_SIG_CAPTURE
             x == "jtagId"
             u1 == Selected(u, m)
             g1 == Got(g, x, u.id)
             j == MailAt(id)
             i1 == IrTo(m, x)
             i2 == GetRegAt(r, j)
             i3 == ReadJmbOut
  <1>1. Waiting(p, u)
    BY ReadyWaits
  <1>2. Waiting(p, u1) /\ Behind(u, u1) /\ u1.ir # IR_DATA_QUICK /\ Does(E, i1, u, g, u1, g1)
    <2>1. m \in Octets /\ m # IR_CNTRL_SIG_RELEASE /\ m # IR_DATA_QUICK
      BY Codes
    <2>2. Plain(x)
      BY PlainAre
    <2> HIDE DEF m, x, u1
    <2>3. Waiting(p, u1) /\ Behind(u, u1) /\ u1.ir = m /\ Does(E, IrTo(m, x), u, g, u1, Got(g, x, u.id))
      BY <1>1, <2>1, <2>2, SelectedIs DEF u1
    <2> QED BY <2>1, <2>3
  <1> HIDE DEF u1
  <1>3. Knows(g1) /\ Keeps(g, g1, {x})
    <2>1. x \in Locals
      BY LocalsAre
    <2> QED BY <2>1, KeepsAre DEF Keeps
  <1> HIDE DEF g1, i1, x, m
  <1>4. PICK b, ir, cntrl, mab, dto, din, mdb, o0 : Starting(p, E, u1, b, ir, cntrl, mab, dto, din, mdb, o0)
    BY <1>2, WaitingStarts DEF Starts
  <1>5. /\ Calm(b) /\ ~Legacy(b) /\ Resting(p, b) /\ b = u1 /\ Sound(b)
        /\ Edge(E, kdTclk0, u1, P(b, ir, cntrl, 0, mab, dto, din, mdb, Fetch))
        /\ Edge(E, kdTclk1, P(b, IR_DATA_16BIT, cntrl, 0, mab, dto, din, mdb, Fetch),
                            P(b, IR_DATA_16BIT, cntrl, 1, mab, dto, din, o0, Fetch))
    BY <1>2, <1>4, RestingIs DEF Starting
  <1>6. b.drv # "std" /\ r \in Nibbles
    BY <1>5, RegsAre DEF Legacy
  <1>7. PICK k : Low(r * 256 + \h60, k) /\ Fetches(b, k, Abs(r))
    BY <1>6, DecodeX
  <1> DEFINE c == Stored(b, r, j)
             e == Emptied(c)
  <1>8. Low(j, j)
    BY MailIs
  <1> HIDE DEF j
  <1>9. PICK o1 \in Values16, o2 \in Values16 : \E x1, x2 :
           /\ Stores(E, b, Abs(r), j, o0, c, o0, x1)
           /\ Displays(x1, o1, x2) /\ Displays(x2, o2, Fetch)
           /\ Value(b, r) = o2 * 2^16 + o1
    <2>1. Displays_Xv2(E, b, r, j, o0, c, Value(b, r))
      BY <1>5, StoreXv2
    <2> HIDE DEF c
    <2> QED BY <2>1 DEF Displays_Xv2
  <1>10. PICK x1, x2 :
           /\ Stores(E, b, Abs(r), j, o0, c, o0, x1)
           /\ Displays(x1, o1, x2) /\ Displays(x2, o2, Fetch)
    BY <1>9
  <1>11. Sound(c) /\ Unmoved(b, c) /\ Akin(b, [c EXCEPT !.jmb = b.jmb])
    BY <1>5, StoredIs
  <1> HIDE DEF c
  <1>12. Moved(c, e, E) /\ Resting(p, e) /\ Akin(b, e) /\ Unmoved(b, e)
    BY <1>5, <1>11, EmptiedIs
  <1> DEFINE o == Bus(c, \h0501, mab)
             w == P(c, IR_DATA_CAPTURE, \h0501, 1, mab, dto, \h3FFD, o, Fetch)
             z == P(e, IR_DATA_CAPTURE, \h0501, 1, mab, dto, \h3FFD, o, Fetch)
             h == Got(Got(g1, "rx_l", o1), "rx_h", o2)
  <1>13. Does(E, i2, u1, g1, w, h)
    BY <1>5, <1>7, <1>8, <1>10, GetRegAtDoes
  <1>14. Does(E, i3, w, h, z, h)
    <2>1. e = [c EXCEPT !.jmb = <<>>]
      BY DEF Emptied
    <2> HIDE DEF o, e, h
    <2> QED BY <1>12, <2>1, DoesJmbOut
  <1>15. Rested_Xv2(IR_DATA_CAPTURE, \h0501, 1, \h3FFD)
    BY DEF Rested_Xv2
  <1> HIDE DEF o, w, e
  <1>16. Sound(z)
    <2> HIDE DEF z, h
    <2>1. Sound(u1) /\ Sound(w)
      BY <1>5, <1>13, DoesSound
    <2> QED BY <1>14, <2>1, DoesSound
  <1>17. Ready(p, z) /\ Behind(e, z)
    BY <1>12, <1>15, <1>16, ReadyAfter_Xv2
  <1> HIDE DEF z
  <1>18. Akin(u, z) /\ Unmoved(u, z)
    BY <1>2, <1>5, <1>12, <1>17, AkinBoth DEF Behind, Unmoved
  <1>19. h["rx_h"] * 2^16 + h["rx_l"] = Value(u, r) /\ Keeps(g, h, Scratch)
    <2>1. /\ Knows(h) /\ h["rx_l"] = o1 /\ h["rx_h"] = o2
          /\ \A v \in Locals : v # "rx_l" /\ v # "rx_h" => h[v] = g1[v]
      BY <1>3, GotHalves
    <2>2. Value(b, r) = Value(u, r)
      <3>1. b.reg = u.reg /\ RegSize(b) = RegSize(u)
        BY <1>2, <1>5, AkinIs DEF Behind
      <3> QED BY <3>1 DEF Value, PcPlus
    <2>3. Keeps(g, h, Scratch)
      BY <1>3, <2>1 DEF Keeps, Scratch, x
    <2> QED BY <1>9, <2>1, <2>2, <2>3
  <1>20. IsSeq(i1) /\ IsSeq(i2) /\ IsSeq(i3)
    <2>1. IsSeq(i3)
      BY SeqOne, NoneIsSeq DEF ReadJmbOut
    <2>2. IsSeq(i1)
      BY PrimSeq DEF i1
    <2> QED BY <2>1, <2>2, PlaySeq DEF GetRegAt
  <1>21. GetRegInternal(r, id) = i1 \o i2 \o i3
    BY DEF GetRegInternal, i1, m, x, j, MailAt
  <1> HIDE DEF i2, i3, h
  <1>22. Does(E, i1 \o i2, u, g, w, h) /\ IsSeq(i1 \o i2)
    BY <1>2, <1>13, <1>20, DoesBoth
  <1>23. Does(E, i1 \o i2 \o i3, u, g, z, h)
    BY <1>14, <1>20, <1>22, DoesBoth
  <1> QED BY <1>17, <1>18, <1>19, <1>21, <1>23 DEF GetsReg

\* Nothing is in the mailbox.
LEMMA NoMail ==
    ASSUME NEW p, NEW E, NEW g, NEW w, Resting(p, w)
    PROVE  Does(E, ReadJmbOut, w, g, w, g)
  <1>1. w \in Target /\ w.jmb = <<>> /\ Sound(w)
    BY RestingIs DEF Resting
  <1>2. [w EXCEPT !.jmb = <<>>] = w
    BY <1>1 DEF Target
  <1> DEFINE ir == w.ir
             cntrl == w.cntrl
             tclk == w.tclk
             mab == w.mab
             dto == w.dto
             din == w.din
             mdb == w.mdb
             cpu == w.cpu
  <1>3. w = P(w, ir, cntrl, tclk, mab, dto, din, mdb, cpu)
    BY <1>1, Columns
  <1>4. Moved(w, w, E)
    BY <1>1, MovedNot
  <1> HIDE DEF ir, cntrl, tclk, mab, dto, din, mdb, cpu
  <1>5. Does(E, ReadJmbOut, P(w, ir, cntrl, tclk, mab, dto, din, mdb, cpu), g, P(w, ir, cntrl, tclk, mab, dto, din, mdb, cpu), g)
    BY <1>2, <1>4, DoesJmbOut
  <1> QED BY <1>3, <1>5

\* The program counter is moved to a safe place, and JTAG takes the bus.
SafeScript ==
    SetPC_Xv2(SAFE_PC_ADDRESS) \o Play1(kIrDr16(IR_CNTRL_SIG_16BIT, \h0501)) \o Set \o Ir(IR_ADDR_CAPTURE)

Parks(p, E, s, u, g) ==
    \E w, h : Does(E, s, u, g, w, h) /\ Ready(p, w) /\ Akin(u, w) /\ Unmoved(u, w) /\ Keeps(g, h, {"ctrl"})

\* JTAG takes the bus behind a program counter that was set.
LEMMA BusTaken ==
    ASSUME NEW p, ~Legacy(p), NEW E, NEW g, NEW v, NEW w, Placed(p, w, v)
    PROVE  \E z : /\ Does(E, Play1(kIrDr16(IR_CNTRL_SIG_16BIT, \h0501)) \o Set \o Ir(IR_ADDR_CAPTURE), w, g, z, g)
                  /\ Ready(p, z) /\ Behind(w, z)
  <1> DEFINE k == \h1400
             c == \h0501
             ir == IR_ADDR_CAPTURE
             q == IR_CNTRL_SIG_16BIT
             mab == w.mab
             dto == w.dto
             din == w.din
             mdb == w.mdb
             o == Bus(w, c, mab)
             t1 == P(w, ir, k, 0, mab, dto, din, mdb, Fetch)
             t2 == P(w, q, k, 0, mab, dto, din, mdb, Fetch)
             t3 == P(w, q, c, 0, mab, dto, din, mdb, Fetch)
             t4 == P(w, q, c, 1, mab, dto, din, o, Fetch)
             t5 == P(w, ir, c, 1, mab, dto, din, o, Fetch)
             i1 == Play1(kIrDr16(q, c))
             i3 == Ir(ir)
  <1>1. w = t1 /\ Calm(w) /\ Sound(w) /\ Resting(p, w) /\ ~Legacy(w) /\ Quiet(w)
    <2>1. w \in Target /\ w.cpu = Fetch /\ w.ir = ir /\ w.cntrl = k /\ w.tclk = 0
      BY RestingIs DEF Placed, Ready
    <2> HIDE DEF ir, k
    <2>2. w = P(w, ir, k, 0, mab, dto, din, mdb, Fetch)
      BY <2>1, Columns
    <2> QED BY <2>1, <2>2, RestingIs DEF Placed, Ready
  <1>2. c \in Values16 /\ Reads(w, c) /\ q \in Octets /\ q # IR_DATA_QUICK /\ ir \in Octets
        /\ q # IR_CNTRL_SIG_RELEASE /\ ir # IR_CNTRL_SIG_RELEASE
    BY <1>1, ControlWords, Codes
  <1>3. Rested_Xv2(ir, c, 1, din)
    BY DEF Rested_Xv2
  <1> HIDE DEF k, c, mab, dto, din, mdb, o, ir
  <1>4. Does(E, Ir(q), t1, g, t2, g)
    BY <1>1, <1>2, IrDoes
  <1>5. Does(E, Dr(c), t2, g, t3, g)
    BY <1>1, <1>2, DrCntrl
  <1>6. Edge(E, kdTclk1, t3, t4)
    BY <1>1, <1>2, EdgeRead DEF o
  <1>7. Does(E, i3, t4, g, t5, g)
    BY <1>1, <1>2, IrDoes
  <1> HIDE DEF t1, t2, t3, t4, t5
  <1>8. Does(E, i1, t1, g, t3, g) /\ IsSeq(i1)
    BY <1>2, <1>4, <1>5, DoesIrDr
  <1>9. Does(E, Set, t3, g, t4, g)
    BY <1>6, EdgeIs
  <1>10. IsSeq(Set) /\ IsSeq(i3)
    BY PulseSeq, PrimSeq
  <1> HIDE DEF i1, i3
  <1>11. Does(E, i1 \o Set, t1, g, t4, g) /\ IsSeq(i1 \o Set)
    BY <1>8, <1>9, <1>10, DoesBoth
  <1>12. Does(E, i1 \o Set \o i3, t1, g, t5, g)
    BY <1>7, <1>10, <1>11, DoesBoth
  <1>13. Does(E, i1 \o Set \o i3, w, g, t5, g)
    BY <1>1, <1>12
  <1>14. Sound(t5)
    BY <1>1, <1>13, DoesSound
  <1>15. Ready(p, t5) /\ Behind(w, t5)
    BY <1>1, <1>3, <1>14, ReadyAfter_Xv2 DEF t5
  <1> QED BY <1>13, <1>15 DEF i1, i3, q, c, ir

\* The script that parks the program counter at SAFE_PC.
LEMMA SafeCall ==
    ASSUME NEW p, ~Legacy(p), NEW E, NEW g, Knows(g), NEW u, Waiting(p, u)
    PROVE  Parks(p, E, SafeScript, u, g) /\ IsSeq(SafeScript)
  <1> DEFINE s == SetPC_Xv2(SAFE_PC_ADDRESS)
             i1 == Play1(kIrDr16(IR_CNTRL_SIG_16BIT, \h0501))
             i3 == Ir(IR_ADDR_CAPTURE)
             r == i1 \o Set \o i3
  <1>1. PlacedFrom(p, E, s, u, g, SAFE_PC_ADDRESS)
    BY SafePc, SetPCCall_Xv2
  <1>2. IsSeq(s) /\ IsSeq(i1) /\ IsSeq(i3) /\ IsSeq(Set)
    <2>1. IsSeq(i1)
      BY MoreSeq, Codes, ControlWords
    <2> QED BY <2>1, SetPCSeq_Xv2, PrimSeq, PulseSeq
  <1>3. PICK w, h : Does(E, s, u, g, w, h) /\ Placed(p, w, SAFE_PC_ADDRESS) /\ Akin(u, w) /\ Unmoved(u, w)
                    /\ Keeps(g, h, {"ctrl"})
    BY <1>1 DEF PlacedFrom
  <1>4. PICK z : Does(E, r, w, h, z, h) /\ Ready(p, z) /\ Behind(w, z)
    BY <1>3, BusTaken
  <1>5. SafeScript = s \o r /\ IsSeq(r)
    <2>0. SafeScript = s \o i1 \o Set \o i3
      BY DEF SafeScript
    <2> HIDE DEF s, i1, i3
    <2>1. IsSeq(i1 \o Set) /\ IsSeq(r)
      BY <1>2, SeqConcat
    <2>2. s \o i1 \o Set = s \o (i1 \o Set)
      BY <1>2, SeqAssoc, SMTT(30)
    <2>3. s \o (i1 \o Set) \o i3 = s \o (i1 \o Set \o i3)
      BY <1>2, <2>1, SeqAssoc, SMTT(30)
    <2> QED BY <2>0, <2>1, <2>2, <2>3
  <1> HIDE DEF s, r
  <1>6. Does(E, s \o r, u, g, z, h) /\ IsSeq(s \o r)
    BY <1>2, <1>3, <1>4, <1>5, DoesBoth
  <1>7. Akin(u, z) /\ Unmoved(u, z)
    BY <1>3, <1>4, AkinBoth DEF Behind, Unmoved
  <1> QED BY <1>3, <1>4, <1>5, <1>6, <1>7 DEF Parks

\* GetReg with the 1377 workaround reads the register and restores the program
\* counter.
LEMMA GetRegCall_1377 ==
    ASSUME NEW p, ~Legacy(p), NEW E, NEW g, Knows(g), NEW u, Ready(p, u), NEW r \in Regs
    PROVE  GetsReg(p, E, GetReg_1377(r), u, g, r)
  <1> DEFINE m == IR_CNTRL_SIG_CAPTURE
             x == "jtagId"
             u1 == Selected(u, m)
             g1 == Got(g, x, u.id)
             j == \h0FF6
             i1 == IrTo(m, x)
             i2 == GetRegPlay_1377(r)
             V == {kMsp_91, kMsp_98, kMsp_99}
             i3 == IfValue(x, V, SafeScript)
             i4 == ReadJmbOut
  <1>1. Waiting(p, u)
    BY ReadyWaits
  <1>2. Waiting(p, u1) /\ Behind(u, u1) /\ u1.ir # IR_DATA_QUICK /\ Does(E, i1, u, g, u1, g1)
    <2>1. m \in Octets /\ m # IR_CNTRL_SIG_RELEASE /\ m # IR_DATA_QUICK
      BY Codes
    <2>2. Plain(x)
      BY PlainAre
    <2> HIDE DEF m, x, u1
    <2>3. Waiting(p, u1) /\ Behind(u, u1) /\ u1.ir = m /\ Does(E, IrTo(m, x), u, g, u1, Got(g, x, u.id))
      BY <1>1, <2>1, <2>2, SelectedIs DEF u1
    <2> QED BY <2>1, <2>3
  <1> HIDE DEF u1
  <1>3. Knows(g1) /\ Keeps(g, g1, {x})
    <2>1. x \in Locals
      BY LocalsAre
    <2> QED BY <2>1, KeepsAre DEF Keeps
  <1> HIDE DEF g1, i1, x, m, i3, V
  <1>4. PICK b, ir, cntrl, mab, dto, din, mdb, o0 : Starting(p, E, u1, b, ir, cntrl, mab, dto, din, mdb, o0)
    BY <1>2, WaitingStarts DEF Starts
  <1>5. /\ Calm(b) /\ ~Legacy(b) /\ Resting(p, b) /\ b = u1 /\ Sound(b)
        /\ Edge(E, kdTclk0, u1, P(b, ir, cntrl, 0, mab, dto, din, mdb, Fetch))
        /\ Edge(E, kdTclk1, P(b, IR_DATA_16BIT, cntrl, 0, mab, dto, din, mdb, Fetch),
                            P(b, IR_DATA_16BIT, cntrl, 1, mab, dto, din, o0, Fetch))
    BY <1>2, <1>4, RestingIs DEF Starting
  <1>6. b.drv # "std" /\ r \in Nibbles
    BY <1>5, RegsAre DEF Legacy
  <1>7. PICK k : Low(r * 256 + \h60, k) /\ Fetches(b, k, Abs(r))
    BY <1>6, DecodeX
  <1> DEFINE c == Stored(b, r, j)
  <1>8. Low(j, j) /\ j # JmbAddr(b)
    BY MailIs DEF JmbAddr
  <1> HIDE DEF j
  <1>9. PICK o1 \in Values16, o2 \in Values16 : \E x1, x2 :
           /\ Stores(E, b, Abs(r), j, o0, c, o0, x1)
           /\ Displays(x1, o1, x2) /\ Displays(x2, o2, Fetch)
           /\ Value(b, r) = o2 * 2^16 + o1
    <2>1. Displays_Xv2(E, b, r, j, o0, c, Value(b, r))
      BY <1>5, StoreXv2
    <2> HIDE DEF c
    <2> QED BY <2>1 DEF Displays_Xv2
  <1>10. PICK x1, x2 :
           /\ Stores(E, b, Abs(r), j, o0, c, o0, x1)
           /\ Displays(x1, o1, x2) /\ Displays(x2, o2, Fetch)
    BY <1>9
  <1>11. Sound(c) /\ Unmoved(b, c) /\ Akin(b, c)
    BY <1>5, <1>8, StoredIs
  <1> HIDE DEF c
  <1>12. Resting(p, c)
    BY <1>5, <1>11, AkinRests
  <1> DEFINE o == Bus(c, \h0501, mab)
             w == P(c, IR_DATA_CAPTURE, \h0501, 1, mab, dto, \h3FFD, o, Fetch)
             h == Got(Got(g1, "rx_l", o1), "rx_h", o2)
  <1>13. Does(E, i2, u1, g1, w, h)
    BY <1>5, <1>7, <1>8, <1>10, GetRegRows_1377 DEF j
  <1>15. Rested_Xv2(IR_DATA_CAPTURE, \h0501, 1, \h3FFD)
    BY DEF Rested_Xv2
  <1> HIDE DEF o
  <1>16. Sound(w)
    <2> HIDE DEF w, h
    <2>1. Sound(u1)
      BY <1>5
    <2> QED BY <1>13, <2>1, DoesSound
  <1>17. Ready(p, w) /\ Behind(c, w)
    BY <1>12, <1>15, <1>16, ReadyAfter_Xv2
  <1> HIDE DEF w
  <1>18. Akin(u, w) /\ Unmoved(u, w)
    BY <1>2, <1>5, <1>11, <1>17, AkinBoth DEF Behind, Unmoved
  <1>19. h["rx_h"] * 2^16 + h["rx_l"] = Value(u, r) /\ Keeps(g, h, Scratch)
    <2>1. /\ Knows(h) /\ h["rx_l"] = o1 /\ h["rx_h"] = o2
          /\ \A v \in Locals : v # "rx_l" /\ v # "rx_h" => h[v] = g1[v]
      BY <1>3, GotHalves
    <2>2. Value(b, r) = Value(u, r)
      <3>1. b.reg = u.reg /\ RegSize(b) = RegSize(u)
        BY <1>2, <1>5, AkinIs DEF Behind
      <3> QED BY <3>1 DEF Value, PcPlus
    <2>3. Keeps(g, h, Scratch)
      BY <1>3, <2>1 DEF Keeps, Scratch, x
    <2> QED BY <1>9, <2>1, <2>2, <2>3
  <1> HIDE DEF i2, i4, h
  <1>20. PICK z, d : /\ Does(E, i3, w, h, z, d) /\ Ready(p, z) /\ Akin(w, z) /\ Unmoved(w, z)
                     /\ (d = h \/ Keeps(h, d, {"ctrl"}))
    <2>1. Waiting(p, w) /\ Knows(h)
      BY <1>17, <1>19, ReadyWaits DEF Keeps
    <2>2. Parks(p, E, SafeScript, w, h) /\ IsSeq(SafeScript)
      BY <2>1, SafeCall
    <2>3. PICK y, d : /\ Does(E, SafeScript, w, h, y, d) /\ Ready(p, y) /\ Akin(w, y) /\ Unmoved(w, y)
                      /\ Keeps(h, d, {"ctrl"})
      BY <2>2 DEF Parks
    <2>4. CASE h[x] \in V
      <3>1. Does(E, i3, w, h, y, d)
        BY <2>2, <2>3, <2>4, IfValueDoes DEF i3
      <3> QED BY <2>3, <3>1
    <2>5. CASE h[x] \notin V
      <3>1. Does(E, i3, w, h, w, h)
        BY <2>2, <2>5, IfValueDoes DEF i3
      <3>2. Akin(w, w) /\ Unmoved(w, w)
        BY AkinSelf DEF Unmoved
      <3> QED BY <1>17, <3>1, <3>2
    <2> QED BY <2>4, <2>5
  <1>21. Does(E, i4, z, d, z, d)
    BY <1>20, NoMail DEF Ready, i4
  <1>22. d["rx_h"] * 2^16 + d["rx_l"] = Value(u, r) /\ Keeps(g, d, Scratch)
    BY <1>19, <1>20 DEF Keeps, Scratch, Locals
  <1>23. Akin(u, z) /\ Unmoved(u, z)
    BY <1>18, <1>20, AkinBoth DEF Unmoved
  <1>24. IsSeq(i1) /\ IsSeq(i2) /\ IsSeq(i3) /\ IsSeq(i4)
    <2>1. IsSeq(i3)
      BY SeqOne, NoneIsSeq DEF i3, IfValue
    <2>2. IsSeq(i1)
      BY PrimSeq DEF i1
    <2> QED BY <2>1, <2>2, PrimSeq, PlaySeq DEF i2, i4, GetRegPlay_1377
  <1>25. GetReg_1377(r) = i1 \o i2 \o i3 \o i4
    BY DEF GetReg_1377, GetRegPlay_1377, SafeScript, i1, i2, i3, i4, m, x, V
  <1>26. Does(E, i1 \o i2, u, g, w, h) /\ IsSeq(i1 \o i2)
    BY <1>2, <1>13, <1>24, DoesBoth
  <1>27. Does(E, i1 \o i2 \o i3, u, g, z, d) /\ IsSeq(i1 \o i2 \o i3)
    BY <1>20, <1>24, <1>26, DoesBoth
  <1>28. Does(E, i1 \o i2 \o i3 \o i4, u, g, z, d)
    BY <1>21, <1>24, <1>27, DoesBoth
  <1> QED BY <1>20, <1>22, <1>23, <1>25, <1>28 DEF GetsReg

\* The program counter is set back, from what a variable holds.
LEMMA SetBackDoes ==
    ASSUME NEW p, ~Legacy(p), NEW E, NEW g, Knows(g), NEW u, Waiting(p, u), NEW x, NEW k \in Int,
           NEW v \in RegValues(p), v = (g[x] + k) % 2^20
    PROVE  PlacedFrom(p, E, SetPcFrom(x, k), u, g, v) /\ IsSeq(SetPcFrom(x, k))
  <1> DEFINE e == [Prim("setpc", k, "") EXCEPT !.from = x]
  <1>1. e.p = "setpc" /\ e.from = x /\ e.n = k
    BY DEF Prim
  <1>2. SetPcFrom(x, k) = <<e>>
    BY DEF SetPcFrom
  <1> HIDE DEF e
  <1>3. InPlaceOf(e, g) = SetPC_Xv2(v)
    BY <1>1 DEF InPlaceOf
  <1>4. PICK w, h : /\ Does(E, SetPC_Xv2(v), u, g, w, h) /\ Placed(p, w, v) /\ Akin(u, w) /\ Unmoved(u, w)
                    /\ Keeps(g, h, {"ctrl"})
    BY SetPCCall_Xv2 DEF PlacedFrom
  <1>5. IsSeq(SetPC_Xv2(v))
    BY SetPCSeq_Xv2
  <1>6. e.p \in {"play", "loop", "if", "setpc"}
    BY <1>1
  <1>7. Does(E, <<e>>, u, g, w, h)
    BY <1>3, <1>4, <1>5, <1>6, DoesInPlace
  <1> QED BY <1>2, <1>4, <1>7, SeqOne, NoneIsSeq DEF PlacedFrom

\* Four more and four less, in 20 bits.
LEMMA BackFour ==
    ASSUME NEW a \in 0 .. 2^20 - 1, NEW y, y = (a + 4) % 2^20
    PROVE  y \in Int /\ y % 2^20 = y /\ (y + (-4)) % 2^20 = a
  <1>1. CASE a + 4 < 2^20
    <2>1. y = a + 4
      BY <1>1
    <2>2. y + (-4) = a
      BY <2>1
    <2>3. a % 2^20 = a
      OBVIOUS
    <2> QED BY <1>1, <2>1, <2>2, <2>3
  <1>2. CASE ~(a + 4 < 2^20)
    <2>1. y = a + 4 - 2^20
      BY <1>2
    <2>2. y + (-4) = a - 2^20
      BY <2>1
    <2>3. (a - 2^20) % 2^20 = a
      OBVIOUS
    <2>4. y % 2^20 = y
      BY <1>2, <2>1
    <2> QED BY <2>1, <2>2, <2>3, <2>4
  <1> QED BY <1>1, <1>2

\* The program counter after the two words of a store, and before.
LEMMA BackBefore ==
    ASSUME NEW p, ~Legacy(p), NEW u, Resting(p, u), NEW x, x = PcPlus(u, 4)
    PROVE  x \in Int /\ x % 2^20 = x /\ (x + (-4)) % 2^20 = u.reg[0] /\ u.reg[0] \in RegValues(p)
  <1>1. u.reg[0] \in 0 .. 2^20 - 1 /\ RegValues(p) = 0 .. 2^20 - 1 /\ RegSize(u) = 2^20
    <2>1. Sound(u) /\ RegValues(u) = RegValues(p) /\ u.drv = p.drv /\ 0 \in Regs
      BY RestingIs, RegsAre
    <2> QED BY <2>1 DEF Sound, RegValues, RegSize, Legacy
  <1>2. x = (u.reg[0] + 4) % 2^20
    BY <1>1 DEF PcPlus
  <1> QED BY <1>1, <1>2, BackFour

\* A register is read, and the program counter set back.
GetRegsScript(p, r) == GetRegs_Begin(p.id) \o Xv2GetReg(p, r) \o GetRegs_End

TellsReg_Xv2(p, E, s, u, g, r) ==
    /\ IsSeq(s)
    /\ \E w, h : /\ Does(E, s, u, g, w, h) /\ Ready(p, w) /\ Unmoved(u, w)
                 /\ (h["rx_h"] * 2^16 + h["rx_l"]) % 2^20 = u.reg[r]
                 /\ w.pcok /\ w.reg[0] = h["pc"] /\ w.jmb = <<>>

\* The registers TapDev430Xv2 reads are those of the program, and the program
\* counter is put back.
LEMMA GetRegsCall_Xv2 ==
    ASSUME NEW p, ~Legacy(p), NEW E, NEW g, Knows(g), NEW u, Ready(p, u), NEW r \in Regs \ {0},
           g["pc"] = u.reg[0]
    PROVE  TellsReg_Xv2(p, E, GetRegsScript(p, r), u, g, r)
  <1> DEFINE x == "back_r0"
             v == u.reg[0]
             i1 == GetRegInternal(0, p.id)
             i2 == Combine(x)
             i3 == Xv2GetReg(p, r)
             i4 == SetPcFrom(x, -4)
  <1>1. PICK w1, h1 : /\ Does(E, i1, u, g, w1, h1) /\ Ready(p, w1) /\ Akin(u, w1) /\ Unmoved(u, w1)
                      /\ h1["rx_h"] * 2^16 + h1["rx_l"] = Value(u, 0) /\ Keeps(g, h1, Scratch)
    <2>1. 0 \in Regs
      BY RegsAre
    <2>2. GetsReg(p, E, i1, u, g, 0)
      BY <2>1, GetRegInternalCall
    <2> QED BY <2>2 DEF GetsReg
  <1> DEFINE h2 == Combined(h1, x)
             y == PcPlus(u, 4)
  <1>2. Does(E, i2, w1, h1, w1, h2) /\ IsSeq(i2)
    BY CombineDoes
  <1>3. x \in Locals /\ Knows(h1)
    BY <1>1, LocalsAre DEF Keeps
  <1>4. y \in Int /\ y % 2^20 = y /\ (y + (-4)) % 2^20 = v /\ v \in RegValues(p)
    BY BackBefore DEF Ready
  <1>5. Knows(h2) /\ h2[x] = y /\ \A q \in Locals : q # x => h2[q] = h1[q]
    <2>1. Value(u, 0) = y
      BY DEF Value
    <2> HIDE DEF y, x
    <2>2. h2 = Got(h1, x, y)
      BY <1>1, <1>4, <2>1 DEF Combined
    <2> HIDE DEF h2
    <2> QED BY <1>3, <2>2, GotIs
  <1> HIDE DEF h2, y, i2
  <1>6. PICK w2, h3 : /\ Does(E, i3, w1, h2, w2, h3) /\ Ready(p, w2) /\ Akin(w1, w2) /\ Unmoved(w1, w2)
                      /\ h3["rx_h"] * 2^16 + h3["rx_l"] = Value(w1, r) /\ Keeps(h2, h3, Scratch)
    <2>1. r \in Regs
      OBVIOUS
    <2>2. GetsReg(p, E, GetRegInternal(r, p.id), w1, h2, r) /\ GetsReg(p, E, GetReg_1377(r), w1, h2, r)
      BY <1>1, <1>5, <2>1, GetRegInternalCall, GetRegCall_1377
    <2>3. GetsReg(p, E, i3, w1, h2, r)
      BY <2>2 DEF Xv2GetReg
    <2> QED BY <2>3 DEF GetsReg
  <1>7. h3[x] = y /\ Knows(h3) /\ h3["pc"] = v
    <2>1. h3[x] = h2[x] /\ h3["pc"] = h2["pc"] /\ h2["pc"] = h1["pc"] /\ h1["pc"] = g["pc"] /\ Knows(h3)
      BY <1>1, <1>5, <1>6 DEF Keeps, Locals, Scratch
    <2> QED BY <1>5, <2>1
  <1>8. Value(w1, r) = u.reg[r] /\ u.reg[r] \in 0 .. 2^20 - 1
    <2>1. Held(w1) = Held(u) /\ w1 \in Target /\ u \in Target /\ Sound(u) /\ RegValues(u) = RegValues(p)
      BY <1>1, RestingIs DEF Ready, Unmoved
    <2>2. DOMAIN w1.reg = Regs /\ DOMAIN u.reg = Regs
      BY <2>1 DEF Target
    <2>3. w1.reg[r] = Held(w1)[r] /\ u.reg[r] = Held(u)[r]
      BY <2>2 DEF Held
    <2>4. u.reg[r] \in RegValues(p)
      BY <2>1 DEF Sound
    <2>5. RegValues(p) \subseteq 0 .. 2^20 - 1
      BY RegValuesAre
    <2> QED BY <2>1, <2>3, <2>4, <2>5 DEF Value
  <1>9. Waiting(p, w2)
    BY <1>6, ReadyWaits
  <1>10. PlacedFrom(p, E, i4, w2, h3, v) /\ IsSeq(i4)
    <2>1. v = (h3[x] + (-4)) % 2^20
      BY <1>4, <1>7
    <2> HIDE DEF x, v
    <2>2. -4 \in Int
      OBVIOUS
    <2> QED BY <1>4, <1>7, <1>9, <2>1, <2>2, SetBackDoes
  <1>11. PICK w, h : /\ Does(E, i4, w2, h3, w, h) /\ Placed(p, w, v) /\ Akin(w2, w) /\ Unmoved(w2, w)
                     /\ Keeps(h3, h, {"ctrl"})
    BY <1>10 DEF PlacedFrom
  <1>12. Ready(p, w) /\ Unmoved(u, w) /\ w.pcok /\ w.reg[0] = v /\ w.jmb = <<>>
    BY <1>1, <1>6, <1>11 DEF Unmoved, Placed, Ready, Resting
  <1>13. h["pc"] = v /\ h["rx_h"] = h3["rx_h"] /\ h["rx_l"] = h3["rx_l"]
    BY <1>7, <1>11 DEF Keeps, Locals
  <1>14. (h["rx_h"] * 2^16 + h["rx_l"]) % 2^20 = u.reg[r]
    <2>1. h["rx_h"] * 2^16 + h["rx_l"] = u.reg[r]
      BY <1>6, <1>8, <1>13
    <2> QED BY <1>8, <2>1
  <1>15. IsSeq(i1) /\ IsSeq(i2) /\ IsSeq(i3) /\ IsSeq(i4)
    <2>1. \A q, n : IsSeq(GetRegInternal(q, n))
      BY PrimSeq, PlaySeq, SeqConcat DEF GetRegInternal, GetRegAt
    <2>2. \A q : IsSeq(GetReg_1377(q))
      <3>1. \A a, b, d : IsSeq(IfValue(a, b, d))
        BY SeqOne, NoneIsSeq DEF IfValue
      <3> QED BY <3>1, PrimSeq, PlaySeq, SeqConcat DEF GetReg_1377
    <2> QED BY <1>2, <1>10, <2>1, <2>2 DEF Xv2GetReg
  <1>16. GetRegsScript(p, r) = (i1 \o i2) \o i3 \o i4
    BY DEF GetRegsScript, GetRegs_Begin, GetRegs_End, i2
  <1> HIDE DEF i1, i3, i4
  <1>17. Does(E, i1 \o i2, u, g, w1, h2) /\ IsSeq(i1 \o i2)
    BY <1>1, <1>2, <1>15, DoesBoth
  <1>18. Does(E, (i1 \o i2) \o i3, u, g, w2, h3) /\ IsSeq((i1 \o i2) \o i3)
    BY <1>6, <1>15, <1>17, DoesBoth
  <1>19. Does(E, (i1 \o i2) \o i3 \o i4, u, g, w, h) /\ IsSeq((i1 \o i2) \o i3 \o i4)
    BY <1>11, <1>15, <1>18, DoesBoth
  <1> QED BY <1>12, <1>13, <1>14, <1>16, <1>19 DEF TellsReg_Xv2

-----------------------------------------------------------------------------
(* A release by TapDev430Xv2.                                              *)

\* The registers and the watchdog are as the program has them.
Prepare_Xv2(p, ctx) ==
    SetReg_Xv2(2, ctx.sr) \o WriteWord_Xv2(WdtAddr(p), ctx.wdt) \o SetPC_Xv2(ResumePc(ctx))

Placing(p, E, s, u, g, v) ==
    IsSeq(s) /\ \E w, h : Does(E, s, u, g, w, h) /\ Placed(p, w, v) /\ w.n = u.n + 1 /\ Knows(h)

\* Its release sets the status register and the program counter.
LEMMA Prepared_Xv2 ==
    ASSUME NEW p, ~Legacy(p), NEW E, NEW g, Knows(g), NEW u, Ready(p, u), NEW ctx,
           ContextOf(p, ctx),
           ResumePc(ctx) \in RegValues(p), NextReg(E, u, StatusReg, ctx.sr)
    PROVE  Placing(p, E, Prepare_Xv2(p, ctx), u, g, ResumePc(ctx))
  <1> DEFINE a == SetReg_Xv2(StatusReg, ctx.sr)
             b == WriteWord_Xv2(WdtAddr(p), ctx.wdt)
             v == ResumePc(ctx)
             d == SetPC_Xv2(v)
             m == u.n + 1
  <1>1. Waiting(p, u)
    BY ReadyWaits
  <1>2. Finishes(p, E, a, u, g, m)
    <2>1. StatusReg \in Regs \ {0} /\ ctx.sr \in RegValues(p)
      <3>1. ctx.sr \in RegValues(p)
        BY Values16In DEF ContextOf
      <3> QED BY <3>1 DEF StatusReg, Regs
    <2> QED BY <1>1, <2>1, SetRegCall_Xv2
  <1> HIDE DEF a
  <1>3. PICK w1 : Does(E, a, u, g, w1, g) /\ Ready(p, w1) /\ w1.n = m
    BY <1>2 DEF Finishes
  <1>4. Waiting(p, w1)
    BY <1>3, ReadyWaits
  <1>5. Finishes(p, E, b, w1, g, w1.n)
    BY <1>4, WdtCall_Xv2 DEF ContextOf
  <1> HIDE DEF b
  <1>6. PICK w2 : Does(E, b, w1, g, w2, g) /\ Ready(p, w2) /\ w2.n = w1.n
    BY <1>5 DEF Finishes
  <1>7. Waiting(p, w2)
    BY <1>6, ReadyWaits
  <1>8. PlacedFrom(p, E, d, w2, g, v) /\ IsSeq(d)
    BY <1>7, SetPCCall_Xv2, SetPCSeq_Xv2
  <1> HIDE DEF d
  <1>9. PICK w, h : Does(E, d, w2, g, w, h) /\ Placed(p, w, v) /\ Unmoved(w2, w) /\ Keeps(g, h, {"ctrl"})
    BY <1>8 DEF PlacedFrom
  <1>10. w.n = m /\ Knows(h)
    BY <1>3, <1>6, <1>9 DEF Unmoved, Keeps
  <1>11. IsSeq(a) /\ IsSeq(b)
    BY <1>2, <1>5 DEF Finishes
  <1>12. Does(E, a \o b, u, g, w2, g) /\ IsSeq(a \o b)
    BY <1>3, <1>6, <1>11, DoesBoth
  <1>13. Does(E, a \o b \o d, u, g, w, h) /\ IsSeq(a \o b \o d)
    BY <1>8, <1>9, <1>12, DoesBoth
  <1>14. Prepare_Xv2(p, ctx) = a \o b \o d
    BY DEF Prepare_Xv2, a, b, d, StatusReg
  <1> QED BY <1>9, <1>10, <1>13, <1>14 DEF Placing

\* The target waits to be let go: only its debug unit is changed from now on.
Going(p, v, w) ==
    /\ Resting(p, w) /\ w.cpu = Fetch /\ w.cntrl = \h0401 /\ w.ir # IR_DATA_QUICK
    /\ w.reg[0] = v.reg[0] /\ w.pcok = v.pcok /\ w.n = v.n /\ w.eemctl = v.eemctl

GoesOn(p, E, s, u, g, v) ==
    IsSeq(s) /\ \E w, h : Does(E, s, u, g, w, h) /\ Going(p, v, w) /\ Knows(h) /\ h["sig"] = Captured(\h0401)

\* An instruction is put on the bus, or none is.
Preload_Xv2(m) == IF m # kSwBkpInstr THEN PreloadPlay(m) ELSE NoPreloadPlay

\* The word that is put on the bus before the release.
LEMMA PreloadCall ==
    ASSUME NEW p, ~Legacy(p), NEW E, NEW g, Knows(g), NEW v, NEW w, Placed(p, w, v),
           NEW m \in Values16
    PROVE  GoesOn(p, E, Preload_Xv2(m), w, g, w)
  <1> DEFINE k == \h1400
             c == \h0401
             ir == IR_ADDR_CAPTURE
             q == IR_CNTRL_SIG_CAPTURE
             mab == w.mab
             dto == w.dto
             din == \h4303
             mdb == w.mdb
             o == Bus(w, c, mab)
             h == Got(g, "sig", Captured(c))
             e == IF m # kSwBkpInstr THEN m ELSE din
             z == P(w, q, c, 0, mab, dto, e, o, Fetch)
             y == P(w, q, c, 0, mab, dto, e, mdb, Fetch)
             x == IF m # kSwBkpInstr THEN z ELSE y
             s == Preload_Xv2(m)
  <1>1. w = P(w, ir, k, 0, mab, dto, din, mdb, Fetch) /\ Calm(w) /\ Sound(w) /\ Resting(p, w) /\ ~Legacy(w)
    <2>1. w \in Target /\ w.cpu = Fetch /\ w.ir = ir /\ w.cntrl = k /\ w.din = din /\ w.tclk = 0
      BY RestingIs DEF Placed, Ready
    <2> HIDE DEF ir, k, din
    <2>2. w = P(w, ir, k, 0, mab, dto, din, mdb, Fetch)
      BY <2>1, Columns
    <2> QED BY <2>1, <2>2, RestingIs DEF Placed, Ready
  <1>2. Low(m, m)
    BY LowOf
  <1> HIDE DEF mab, dto, mdb
  <1>3. m # kSwBkpInstr => Does(E, PreloadPlay(m), P(w, ir, k, 0, mab, dto, din, mdb, Fetch), g, P(w, q, c, 0, mab, dto, m, o, Fetch), h)
    BY <1>1, <1>2, PreloadRows
  <1>4. Does(E, NoPreloadPlay, P(w, ir, k, 0, mab, dto, din, mdb, Fetch), g, P(w, q, c, 0, mab, dto, din, mdb, Fetch), h)
    BY <1>1, NoPreloadRows
  <1> HIDE DEF o, h, ir, k, din, q, c
  <1>5. Does(E, s, w, g, x, h)
    BY <1>1, <1>3, <1>4 DEF Preload_Xv2
  <1>6. IsSeq(s)
    BY PrimSeq DEF Preload_Xv2, PreloadPlay, NoPreloadPlay
  <1>7. Sound(x)
    BY <1>1, <1>5, DoesSound
  <1>8. x.ir = q /\ x.cntrl = c /\ x.cpu = Fetch /\ Behind(w, x)
    <2>1. w \in Target
      BY <1>1 DEF Sound
    <2> QED BY <2>1, PFields, BehindIs
  <1> HIDE DEF x, s
  <1>9. Resting(p, x)
    BY <1>1, <1>7, <1>8, AkinRests DEF Behind
  <1>10. Going(p, w, x)
    <2>1. q # IR_DATA_QUICK
      BY DEF q, IR_CNTRL_SIG_CAPTURE, IR_DATA_QUICK
    <2> QED BY <1>8, <1>9, <2>1 DEF Going, Behind, c
  <1>11. Knows(h) /\ h["sig"] = Captured(c)
    BY LocalsAre, GotIs DEF h
  <1> QED BY <1>5, <1>6, <1>10, <1>11 DEF GoesOn, s, c

\* A test of bits that are not set.
LEMMA IfBitsNone ==
    ASSUME NEW E, NEW x, NEW B, NEW s, NEW u, NEW h, ~AnyBit(h[x], B)
    PROVE  Does(E, IfBits(x, B, s), u, h, u, h) /\ IsSeq(IfBits(x, B, s))
  <1> DEFINE e == [p |-> "if", of |-> x, bits |-> B, values |-> {}, then |-> s]
             i == <<>>
  <1>1. InPlaceOf(e, h) = i
    BY DEF InPlaceOf
  <1>2. e.p \in {"play", "loop", "if", "setpc"}
    OBVIOUS
  <1>3. Does(E, i, u, h, u, h) /\ IsSeq(i)
    BY DoesNothing, NoneIsSeq
  <1> HIDE DEF e, i
  <1>4. Does(E, <<e>>, u, h, u, h)
    BY <1>1, <1>2, <1>3, DoesInPlace
  <1> QED BY <1>4, SeqOne, NoneIsSeq DEF IfBits, e

\* No byte mode: the control signals as they are captured.
LEMMA SigBits ==
    ~AnyBit(Captured(\h0401), {2})
  <1>1. Captured(\h0401) = \h0701
    BY DEF Captured, Bit
  <1>2. Bit(\h0701, 2) = 0
    BY DEF Bit
  <1> QED BY <1>1, <1>2 DEF AnyBit

\* The debug unit is told to run to a breakpoint, or not.
TellPlay(n) == Play(<<kIrDr16Argv(kdTclk1, IR_EMEX_WRITE_CONTROL, kdNone)>>, <<n>>)

Tells(p, E, w, g, v, n) ==
    \E z : Does(E, TellPlay(n), w, g, z, g) /\ Going(p, Ctl(v, n), z)

Told(E, g, n, u, d, c, mab, dto, din) ==
    \E o : Does(E, TellPlay(n), u, g, P(d, IR_EMEX_WRITE_CONTROL, c, 1, mab, dto, din, o, Fetch), g)

\* The steps that write the EEM control register.
LEMMA TellRows ==
    ASSUME NEW E, NEW g, NEW b, Calm(b), ~Legacy(b), NEW ir, ir # IR_DATA_QUICK,
           NEW tclk \in {0, 1},
           NEW mab, NEW dto, NEW din, NEW mdb, NEW c, c = \h0401,
           NEW n, Low(n, n), NEW d, d = [b EXCEPT !.eemctl = n], Moved(b, d, E)
    PROVE  Told(E, g, n, P(b, ir, c, tclk, mab, dto, din, mdb, Fetch), d, c, mab, dto, din)
  <1> DEFINE j == IR_EMEX_WRITE_CONTROL
             S == <<kIrDr16Argv(kdTclk1, j, kdNone)>>
             A == <<n>>
             o == IF tclk = 0 THEN Bus(b, c, mab) ELSE mdb
             u0 == P(b, ir, c, tclk, mab, dto, din, mdb, Fetch)
             u1 == P(b, ir, c, 1, mab, dto, din, o, Fetch)
             u2 == P(b, j, c, 1, mab, dto, din, o, Fetch)
             u3 == P(d, j, c, 1, mab, dto, din, o, Fetch)
  <1>1. Len(S) = 1 /\ S[1] = kIrDr16Argv(kdTclk1, j, kdNone) /\ A[1] = n
    OBVIOUS
  <1>2. j \in Octets /\ j # IR_CNTRL_SIG_RELEASE /\ j # IR_DATA_QUICK
    BY Ports
  <1> HIDE DEF S, A
  <1>3. At(S, 1, 2, kIrDr16Argv(kdTclk1, j, kdNone)) /\ Ends(S, 2) /\ Given(A, 1, 2, n)
    BY <1>1 DEF At, Given, Ends
  <1>4. Reached(E, S, A, u0, g, 1, 1, u0, g)
    BY RowBegin
  <1>5. Edge(E, kdTclk1, u0, u1)
    <2>1. Reads(b, c)
      BY ControlWords
    <2>2. CASE tclk = 0
      <3>1. Edge(E, kdTclk1, P(b, ir, c, 0, mab, dto, din, mdb, Fetch), P(b, ir, c, 1, mab, dto, din, Bus(b, c, mab), Fetch))
        BY <2>1, EdgeRead
      <3> QED BY <2>2, <3>1
    <2>3. CASE tclk = 1
      <3>1. Edge(E, kdTclk1, P(b, ir, c, 1, mab, dto, din, mdb, Fetch), P(b, ir, c, 1, mab, dto, din, mdb, Fetch))
        BY EdgeHigh DEF Calm
      <3> QED BY <2>3, <3>1
    <2> QED BY <2>2, <2>3
  <1> HIDE DEF j, o
  <1>6. Does(E, Ir(j), u1, g, u2, g)
    BY <1>2, IrDoes DEF Calm
  <1>7. Does(E, Dr(n), u2, g, u3, g)
    <2>1. n \in Nat
      BY DEF Low, Values16
    <2> QED BY <2>1, DrControl DEF j
  <1> HIDE DEF u0, u1, u2, u3
  <1>8. Edge(E, kdNone, u3, u3)
    BY EdgeNone
  <1>9. kdTclk1 \in Clocks /\ kdNone \in Clocks
    BY DEF Clocks
  <1>10. Reached(E, S, A, u0, g, 2, 2, u3, g)
    BY <1>2, <1>3, <1>4, <1>5, <1>6, <1>7, <1>8, <1>9, RowIrDrArgv
  <1>11. Does(E, Play(S, A), u0, g, u3, g)
    BY <1>3, <1>10, ScriptEnd
  <1> QED BY <1>11 DEF Told, TellPlay, S, A, u0, u3, j

\* The EEM control register is written while the CPU is about to go.
LEMMA TellCall ==
    ASSUME NEW p, ~Legacy(p), NEW E, NEW g, NEW v, v \in Target, NEW w, Going(p, v, w),
           NEW n \in Nat, n \in Values16
    PROVE  Tells(p, E, w, g, v, n)
  <1> DEFINE c == \h0401
             ir == w.ir
             tclk == w.tclk
             mab == w.mab
             dto == w.dto
             din == w.din
             mdb == w.mdb
             d == Ctl(w, n)
             j == IR_EMEX_WRITE_CONTROL
  <1>1. w = P(w, ir, c, tclk, mab, dto, din, mdb, Fetch) /\ Calm(w) /\ Sound(w) /\ Resting(p, w) /\ ~Legacy(w)
        /\ tclk \in {0, 1} /\ ir # IR_DATA_QUICK
    <2>1. w \in Target /\ w.cpu = Fetch /\ w.cntrl = c
      BY RestingIs DEF Going
    <2> HIDE DEF c
    <2>2. w = P(w, ir, c, tclk, mab, dto, din, mdb, Fetch)
      BY <2>1, Columns
    <2> QED BY <2>1, <2>2, RestingIs DEF Going, Target
  <1>2. Low(n, n)
    BY LowOf
  <1>3. Moved(w, d, E) /\ d = [w EXCEPT !.eemctl = n]
    BY <1>1, CtlMoved DEF Ctl
  <1>4. /\ Resting(p, d) /\ d.eemctl = n /\ d.reg = w.reg /\ d.pcok = w.pcok /\ d.n = w.n
    BY <1>1, CtlRests
  <1>5. /\ Ctl(v, n).eemctl = n /\ Ctl(v, n).reg = v.reg /\ Ctl(v, n).pcok = v.pcok /\ Ctl(v, n).n = v.n
    BY CtlIs
  <1>6. c = \h0401
    OBVIOUS
  <1> HIDE DEF c, ir, tclk, mab, dto, din, mdb, d
  <1>7. PICK o : Does(E, TellPlay(n), P(w, ir, c, tclk, mab, dto, din, mdb, Fetch), g, P(d, j, c, 1, mab, dto, din, o, Fetch), g)
    <2>1. Calm(w) /\ ~Legacy(w) /\ tclk \in {0, 1} /\ ir # IR_DATA_QUICK
      BY <1>1
    <2>2. Told(E, g, n, P(w, ir, c, tclk, mab, dto, din, mdb, Fetch), d, c, mab, dto, din)
      BY <1>2, <1>3, <1>6, <2>1, TellRows
    <2> QED BY <2>2 DEF Told, j
  <1> DEFINE z == P(d, j, c, 1, mab, dto, din, o, Fetch)
  <1>8. Does(E, TellPlay(n), w, g, z, g)
    BY <1>1, <1>7
  <1>9. Sound(z)
    BY <1>1, <1>8, DoesSound
  <1>10. d \in Target
    BY <1>4, RestingIs
  <1>11. z.ir = j /\ z.cntrl = c /\ z.cpu = Fetch /\ Behind(d, z)
    BY <1>10, PFields, BehindIs
  <1>12. j # IR_DATA_QUICK
    BY Ports
  <1> HIDE DEF z, j
  <1>13. Resting(p, z)
    BY <1>4, <1>9, <1>11, AkinRests DEF Behind
  <1>14. Going(p, Ctl(v, n), z)
    <2>1. z.reg = d.reg /\ z.pcok = d.pcok /\ z.n = d.n /\ z.eemctl = d.eemctl
      BY <1>11 DEF Behind
    <2> HIDE DEF c
    <2> QED BY <1>4, <1>5, <1>6, <1>11, <1>12, <1>13, <2>1 DEF Going
  <1> QED BY <1>8, <1>14 DEF Tells

\* A piece of the end of a release, that changes nothing.
Goes(E, p, v, s, w, g) == \E z, h : Does(E, s, w, g, z, h) /\ Going(p, v, z) /\ Knows(h)
Lasts(E, p, v, s) == IsSeq(s) /\ \A w, g : Going(p, v, w) /\ Knows(g) => Goes(E, p, v, s, w, g)

\* Two scripts that leave such a target alone, one behind the other.
LEMMA LastsBoth ==
    ASSUME NEW E, NEW p, NEW v, NEW a, NEW b, Lasts(E, p, v, a), Lasts(E, p, v, b)
    PROVE  Lasts(E, p, v, a \o b)
  <1>1. IsSeq(a) /\ IsSeq(b)
    BY DEF Lasts
  <1>2. IsSeq(a \o b)
    BY <1>1, SeqConcat
  <1>3. ASSUME NEW w, NEW g, Going(p, v, w), Knows(g)
        PROVE  Goes(E, p, v, a \o b, w, g)
    <2>1. PICK z, h : Does(E, a, w, g, z, h) /\ Going(p, v, z) /\ Knows(h)
      BY <1>3 DEF Lasts, Goes
    <2>2. PICK z2, h2 : Does(E, b, z, h, z2, h2) /\ Going(p, v, z2) /\ Knows(h2)
      BY <2>1 DEF Lasts, Goes
    <2>3. Does(E, a \o b, w, g, z2, h2)
      BY <1>1, <2>1, <2>2, DoesBoth
    <2> QED BY <2>2, <2>3 DEF Goes
  <1> QED BY <1>2, <1>3 DEF Lasts

\* No script is one.
LEMMA LastsNothing ==
    ASSUME NEW E, NEW p, NEW v
    PROVE  Lasts(E, p, v, <<>>)
  BY DoesNothing, NoneIsSeq DEF Lasts, Goes

\* A wait is one.
LEMMA LastsDelay ==
    ASSUME NEW E, NEW p, NEW v, NEW n
    PROVE  Lasts(E, p, v, Delay(n))
  BY DoesDelay, PrimSeq DEF Lasts, Goes

\* A test register is read and written back.
TestCodes == {IR_TEST_REG, IR_TEST_3V_REG}

\* The test registers may be rewritten.
LEMMA LastsTest ==
    ASSUME NEW p, ~Legacy(p), NEW E, NEW v, NEW j \in TestCodes, NEW x \in Locals, Plain(x),
           x # "sig", NEW k
    PROVE  Lasts(E, p, v, Ir(j) \o DrTo(0, x) \o DrFrom(x, k))
  <1> DEFINE a == Ir(j)
             b == DrTo(0, x)
             d == DrFrom(x, k)
  <1>1. IsSeq(a) /\ IsSeq(b) /\ IsSeq(d)
    BY PrimSeq
  <1>2. j \in Octets /\ j # IR_CNTRL_SIG_RELEASE /\ j # IR_DATA_QUICK /\ j \in Unseen
    BY Codes DEF TestCodes, Unseen, IR_TEST_REG, IR_TEST_3V_REG
  <1>3. ASSUME NEW w, NEW g, Going(p, v, w), Knows(g)
        PROVE  Goes(E, p, v, a \o b \o d, w, g)
    <2> DEFINE u0 == P(w, w.ir, w.cntrl, w.tclk, w.mab, w.dto, w.din, w.mdb, w.cpu)
               z  == P(w, j, w.cntrl, w.tclk, w.mab, w.dto, w.din, w.mdb, w.cpu)
               h  == [g EXCEPT ![x] = 0]
    <2>1. Resting(p, w)
      BY <1>3 DEF Going
    <2>2. Sound(w) /\ Quiet(w) /\ w \in Target
      BY <2>1, RestingIs
    <2>3. w = u0
      BY <2>2, Columns
    <2>4. Does(E, a, u0, g, z, g)
      BY <1>2, <2>2, IrDoes
    <2>5. Does(E, b, z, g, z, h) /\ Does(E, d, z, h, z, h)
      BY <1>2, <2>2, DrUnseen DEF Plain, TestCodes
    <2>6. Knows(h)
      <3>1. h = Got(g, x, 0)
        BY DEF Got
      <3> HIDE DEF h
      <3> QED BY <1>3, <3>1, GotIs
    <2>7. z.ir = j /\ Behind(w, z) /\ z.cntrl = w.cntrl /\ z.cpu = w.cpu
      BY <2>2, PFields, BehindIs
    <2> HIDE DEF u0, z, h, a, b, d
    <2>8. Does(E, a \o b, u0, g, z, h) /\ IsSeq(a \o b)
      BY <1>1, <2>4, <2>5, DoesBoth
    <2>9. Does(E, a \o b \o d, u0, g, z, h)
      BY <1>1, <2>5, <2>8, DoesBoth
    <2>10. Sound(z)
      BY <2>2, <2>3, <2>9, DoesSound
    <2>11. Resting(p, z)
      BY <2>1, <2>7, <2>10, AkinRests DEF Behind
    <2>12. Going(p, v, z)
      BY <1>2, <1>3, <2>7, <2>11 DEF Going, Behind
    <2> QED BY <2>3, <2>6, <2>9, <2>12 DEF Goes
  <1> HIDE DEF a, b, d
  <1>4. IsSeq(a \o b \o d)
    BY <1>1, SeqConcat
  <1>5. Lasts(E, p, v, a \o b \o d)
    BY <1>3, <1>4 DEF Lasts
  <1> QED BY <1>5 DEF a, b, d

\* Leaving LPMx.5 rewrites the test registers only.
LEMMA LastsLpm ==
    ASSUME NEW p, ~Legacy(p), NEW E, NEW v, NEW prof
    PROVE  Lasts(E, p, v, DisableLpmx5(prof)) /\ Lasts(E, p, v, ClearDbgJtagOn)
  <1> DEFINE j3 == IR_TEST_3V_REG
             j1 == IR_TEST_REG
             x3 == "reg_3V"
             x1 == "reg_test"
             x0 == "tmp"
             a == Ir(j3) \o DrTo(0, x3) \o DrFrom(x3, 1)
             b == Ir(j1) \o DrTo(0, x1) \o DrFrom(x1, 1)
             d == Ir(j3) \o DrTo(0, x0) \o DrFrom(x0, \h80)
             e == Delay(20)
  <1>1. x3 \in Locals /\ x1 \in Locals /\ x0 \in Locals /\ Plain(x3) /\ Plain(x1) /\ Plain(x0)
        /\ x3 # "sig" /\ x1 # "sig" /\ x0 # "sig" /\ j3 \in TestCodes /\ j1 \in TestCodes
    BY DEF Locals, Plain, TestCodes
  <1> HIDE DEF j3, j1, x3, x1, x0
  <1>2. Lasts(E, p, v, a) /\ Lasts(E, p, v, b) /\ Lasts(E, p, v, d)
    BY <1>1, LastsTest
  <1>3. Lasts(E, p, v, e)
    BY LastsDelay
  <1>4. IsSeq(a) /\ IsSeq(b) /\ IsSeq(e)
    BY <1>2, <1>3 DEF Lasts
  <1>5. ClearDbgJtagOn = d
    BY DEF ClearDbgJtagOn, j3, x0
  <1>6. DisableLpmx5(prof) = IF ~prof.lpmx5 THEN <<>> ELSE a \o e \o b \o e
    <2> DEFINE b1 == Ir(j1)
               b2 == DrTo(0, x1)
               b3 == DrFrom(x1, 1)
    <2>1. IsSeq(b1) /\ IsSeq(b2) /\ IsSeq(b3)
      BY PrimSeq
    <2>2. DisableLpmx5(prof) = IF ~prof.lpmx5 THEN <<>> ELSE a \o e \o b1 \o b2 \o b3 \o e
      BY DEF DisableLpmx5, j1, j3, x1, x3
    <2>3. b = b1 \o b2 \o b3
      OBVIOUS
    <2> HIDE DEF a, b, b1, b2, b3, e
    <2>4. IsSeq(a \o e) /\ IsSeq(b1 \o b2) /\ IsSeq((a \o e) \o b1)
      BY <1>4, <2>1, SeqConcat
    <2>5. a \o e \o b1 \o b2 \o b3 = a \o e \o (b1 \o b2 \o b3)
      <3>1. ((a \o e) \o b1) \o b2 = (a \o e) \o (b1 \o b2)
        BY <2>1, <2>4, SeqAssoc, SMTT(30)
      <3>2. ((a \o e) \o (b1 \o b2)) \o b3 = (a \o e) \o ((b1 \o b2) \o b3)
        BY <2>1, <2>4, SeqAssoc, SMTT(30)
      <3> QED BY <3>1, <3>2
    <2> QED BY <2>2, <2>3, <2>5
  <1> HIDE DEF a, b, d, e
  <1>7. Lasts(E, p, v, a \o e \o b \o e)
    BY <1>2, <1>3, LastsBoth
  <1> QED BY <1>2, <1>5, <1>6, <1>7, LastsNothing

\* The release by the driver of the part.
Release_Xv2(p, c) == ReleaseDevice_Xv2(c.ctx, p.prof, c.bkpt, c.mdb, p.id, WdtAddr(p))

\* ReleaseDevice of TapDev430Xv2 lets the CPU go at the program counter of the
\* context, with its status.
LEMMA ReleaseCall_Xv2 ==
    ASSUME NEW p, ~Legacy(p), NEW E, NEW g, Knows(g), NEW u, Ready(p, u), NEW c,
           ContextOf(p, c.ctx),
           ResumePc(c.ctx) \in RegValues(p), c.bkpt \in BOOLEAN, c.mdb \in Values16,
           NextReg(E, u, StatusReg, c.ctx.sr)
    PROVE  Releases(p, E, Release_Xv2(p, c), u, g, c)
  <1> DEFINE ctx == c.ctx
             m == c.mdb
             n == EemWord(c.bkpt)
             v == ResumePc(ctx)
             a == Prepare_Xv2(p, ctx)
             b == Preload_Xv2(m)
             i == IfBits("sig", {2}, Play1(kIrDr16(IR_CNTRL_SIG_16BIT, \h0403)))
             t1 == TellPlay(n)
             l == DisableLpmx5(p.prof)
             f == IF p.id = kMsp_99 THEN ClearDbgJtagOn ELSE <<>>
             z == Ir(IR_CNTRL_SIG_RELEASE)
             s == a \o b \o i \o t1 \o l \o f
  <1>1. PICK w1, h1 : Does(E, a, u, g, w1, h1) /\ Placed(p, w1, v) /\ w1.n = u.n + 1 /\ Knows(h1)
    <2>1. Placing(p, E, a, u, g, v)
      BY Prepared_Xv2
    <2> QED BY <2>1 DEF Placing
  <1>2. IsSeq(a)
    <2>1. Placing(p, E, a, u, g, v)
      BY Prepared_Xv2
    <2> QED BY <2>1 DEF Placing
  <1>3. n \in Nat /\ n \in Values16
    BY EemWordIn
  <1>4. Release_Xv2(p, c) = s \o z
    BY DEF Release_Xv2, ReleaseDevice_Xv2, Prepare_Xv2, Preload_Xv2, PreloadPlay, NoPreloadPlay,
       TellPlay, EemWord, StatusReg
  <1> HIDE DEF a
  <1>5. GoesOn(p, E, b, w1, h1, w1)
    BY <1>1, PreloadCall
  <1>6. PICK w2, h2 : Does(E, b, w1, h1, w2, h2) /\ Going(p, w1, w2) /\ Knows(h2) /\ h2["sig"] = Captured(\h0401)
    BY <1>5 DEF GoesOn
  <1>7. IsSeq(b)
    BY <1>5 DEF GoesOn
  <1> HIDE DEF b
  <1>8. Does(E, i, w2, h2, w2, h2) /\ IsSeq(i)
    <2>1. ~AnyBit(h2["sig"], {2})
      BY <1>6, SigBits
    <2> QED BY <2>1, IfBitsNone
  <1> HIDE DEF i
  <1>9. w1 \in Target /\ w1.pcok /\ w1.reg[0] = v
    BY <1>1, RestingIs DEF Placed, Ready
  <1> HIDE DEF n
  <1>10. Tells(p, E, w2, h2, w1, n)
    BY <1>3, <1>6, <1>9, TellCall
  <1>11. PICK w3 : Does(E, t1, w2, h2, w3, h2) /\ Going(p, Ctl(w1, n), w3)
    BY <1>10 DEF Tells
  <1>12. IsSeq(t1)
    BY PrimSeq DEF TellPlay
  <1> DEFINE x == Ctl(w1, n)
  <1>13. Lasts(E, p, x, l) /\ Lasts(E, p, x, f)
    BY LastsLpm, LastsNothing
  <1>14. x.eemctl = n /\ x.reg = w1.reg /\ x.pcok = w1.pcok /\ x.n = w1.n
    <2>1. w1 \in Target /\ n \in Nat
      BY <1>3, <1>9
    <2> HIDE DEF x
    <2>2. x = Ctl(w1, n)
      BY DEF x
    <2> QED BY ONLY <2>1, <2>2, CtlIs
  <1> HIDE DEF t1, l, f, x
  <1>15. Lasts(E, p, x, l \o f)
    BY <1>13, LastsBoth
  <1>16. PICK w4, h4 : Does(E, l \o f, w3, h2, w4, h4) /\ Going(p, x, w4)
    BY <1>6, <1>11, <1>15 DEF Lasts, Goes, x
  <1>17. IsSeq(l) /\ IsSeq(f) /\ IsSeq(l \o f)
    BY <1>13, <1>15 DEF Lasts
  <1>18. Does(E, a \o b, u, g, w2, h2) /\ IsSeq(a \o b)
    BY <1>1, <1>2, <1>6, <1>7, DoesBoth
  <1>19. Does(E, a \o b \o i, u, g, w2, h2) /\ IsSeq(a \o b \o i)
    BY <1>8, <1>18, DoesBoth
  <1> DEFINE y == a \o b \o i \o t1
  <1>20. Does(E, y, u, g, w3, h2) /\ IsSeq(y)
    BY <1>11, <1>12, <1>19, DoesBoth
  <1> HIDE DEF y
  <1>21. Does(E, y \o (l \o f), u, g, w4, h4) /\ IsSeq(y \o (l \o f))
    BY <1>16, <1>17, <1>20, DoesBoth
  <1>22. s = y \o (l \o f)
    <2>1. (y \o l) \o f = y \o (l \o f)
      BY <1>17, <1>20, SeqAssoc
    <2> QED BY <2>1 DEF y
  <1> HIDE DEF s
  <1>23. LeavesAs(p, c, u, w4)
    <2>1. v = Resume(p, c)
      BY DEF Resume
    <2> HIDE DEF v
    <2> QED BY <1>1, <1>9, <1>14, <1>16, <2>1 DEF Going, LeavesAs, n
  <1>24. Leaves(p, E, s, u, g, c)
    BY <1>21, <1>22, <1>23 DEF Leaves
  <1> QED BY <1>4, <1>24 DEF Releases

-----------------------------------------------------------------------------
(* An operation, whatever it is.                                           *)

\* The operations that read memory ...
LEMMA ReadServed ==
    ASSUME NEW p, NEW c, NEW u, NEW g, Called(p, c, u, g),
           c.op \in {"ReadByte", "ReadBytes", "ReadWord", "ReadWords"},
           NEW s, s = Steps(p, c), IsSeq(s), NEW w, NEW h, Does(<<>>, s, u, g, w, h), Ready(p, w),
           Unmoved(u, w),
           Result(p, c, h) = Answer(p, c, <<u.mem, Held(u)>>)
    PROVE  Served(p, c, u, g)
  <1>1. Effects(p, c) = <<>> /\ c.op # "GetRegs"
    BY DEF Effects
  <1>2. w.n = Len(Effects(p, c)) /\ w.mem = u.mem /\ Held(w) = Held(u)
    BY <1>1 DEF Unmoved, Called
  <1>3. Kept(p, c, w, h)
    BY <1>1, <1>2 DEF Kept, Quietly
  <1> QED BY <1>1, <1>3 DEF Served

\* ... those that return nothing ...
LEMMA SilentServed ==
    ASSUME NEW p, NEW c, NEW u, NEW g,
           c.op \in {"WriteWord", "WriteWords", "WriteFlash", "EraseFlash", "SetPC", "SetReg"},
           NEW E, E = Effects(p, c), NEW s, s = Steps(p, c), Finishes(p, E, s, u, g, Len(E))
    PROVE  Served(p, c, u, g)
  <1>1. Result(p, c, g) = <<>> /\ \A m : Answer(p, c, m) = <<>>
    BY DEF Result, Answer
  <1>2. IsSeq(s)
    BY DEF Finishes
  <1>3. PICK w : Does(E, s, u, g, w, g) /\ Ready(p, w) /\ w.n = Len(E)
    BY DEF Finishes
  <1>4. Kept(p, c, w, g)
    BY <1>1, <1>3 DEF Kept, Quietly
  <1> QED BY <1>2, <1>3, <1>4 DEF Served

\* A byte or a word is read by the older drivers.
LEMMA ServesReadByte ==
    ASSUME NEW p, NEW c, NEW u, NEW g, Called(p, c, u, g), Legacy(p), c.op = "ReadByte"
    PROVE  Served(p, c, u, g)
  <1> DEFINE a == c.a
             k == \h2419
             l == \h19
             o == Bus(u, k, a)
             h == Got(g, "data", o)
             s == IF p.drv = "std" THEN ReadOne(k, a) ELSE ReadOne_X(l, a)
  <1>1. a \in RegValues(p) /\ a - (a % 2) \in MemAddr /\ Ready(p, u) /\ Knows(g) /\ Resting(p, u)
    BY DEF Called, LegalCall, Ready
  <1>2. Sized(k, l) /\ Bytes8(k)
    BY SizedAre, WidthsAre
  <1>3. s = Steps(p, c)
    BY DEF Steps, LegacySteps, ReadByte, ReadByte_X
  <1>4. a \in Nat
    <2>1. a \in 0 .. 2^20 - 1
      BY <1>1, RegValuesAre
    <2> QED BY <2>1
  <1> HIDE DEF k, l, a
  <1>5. PICK w : Does(<<>>, s, u, g, w, h) /\ Intact(p, u, w)
    BY <1>1, <1>2, ReadOneCall
  <1>6. IsSeq(s)
    BY <1>1, <1>2, ReadOneCall
  <1>7. o % 256 = ByteAt(u.mem, a)
    BY <1>1, <1>2, <1>4, ByteRead
  <1>8. h["data"] = o
    BY <1>1, LocalsAre, GotIs
  <1>9. Result(p, c, h) = Answer(p, c, <<u.mem, Held(u)>>)
    <2>1. Result(p, c, h) = <<h["data"] % 256>>
      BY DEF Result
    <2>2. Answer(p, c, <<u.mem, Held(u)>>) = <<ByteAt(u.mem, a)>>
      BY DEF Answer, a
    <2> QED BY <1>7, <1>8, <2>1, <2>2
  <1> HIDE DEF s, h
  <1> QED BY <1>3, <1>5, <1>6, <1>9, ReadServed DEF Intact

\* ReadWord serves its call.
LEMMA ServesReadWord ==
    ASSUME NEW p, NEW c, NEW u, NEW g, Called(p, c, u, g), Legacy(p), c.op = "ReadWord"
    PROVE  Served(p, c, u, g)
  <1> DEFINE a == c.a
             k == \h2409
             l == \h09
             o == Bus(u, k, a)
             h == Got(g, "data", o)
             s == IF p.drv = "std" THEN ReadOne(k, a) ELSE ReadOne_X(l, a)
  <1>1. a \in RegValues(p) /\ a \in MemAddr /\ Ready(p, u) /\ Knows(g) /\ Resting(p, u)
    BY DEF Called, LegalCall, Ready
  <1>2. Sized(k, l) /\ Words16(k)
    BY SizedAre, WidthsAre
  <1>3. s = Steps(p, c)
    BY DEF Steps, LegacySteps, ReadWord, ReadWord_X
  <1> HIDE DEF k, l, a
  <1>5. PICK w : Does(<<>>, s, u, g, w, h) /\ Intact(p, u, w)
    BY <1>1, <1>2, ReadOneCall
  <1>6. IsSeq(s)
    BY <1>1, <1>2, ReadOneCall
  <1>7. o = u.mem[a]
    BY <1>1, <1>2, WordRead
  <1>8. h["data"] = o
    BY <1>1, LocalsAre, GotIs
  <1>9. Result(p, c, h) = Answer(p, c, <<u.mem, Held(u)>>)
    <2>1. Result(p, c, h) = <<h["data"]>>
      BY DEF Result
    <2>2. Answer(p, c, <<u.mem, Held(u)>>) = <<u.mem[a]>>
      BY DEF Answer, a
    <2> QED BY <1>7, <1>8, <2>1, <2>2
  <1> HIDE DEF s, h
  <1> QED BY <1>3, <1>5, <1>6, <1>9, ReadServed DEF Intact

\* A block is read by the older drivers.
LEMMA PlacesIn ==
    ASSUME NEW a \in Nat, NEW n \in Nat, NEW i \in 1 .. n
    PROVE  /\ Places(a, n, 2)[i] = a + (i - 1) * 2 /\ Places(a, n, 2)[i] = a + 2 * (i - 1)
           /\ Places(a, n, 1)[i] = a + i - 1
           /\ a + 2 * (i - 1) \in Words(a, n) /\ a + i - 1 \in Bytes(a, n)
  <1>1. i - 1 \in 0 .. n - 1 /\ a + i - 1 = a + (i - 1)
    OBVIOUS
  <1>2. a + 2 * (i - 1) \in Words(a, n) /\ a + i - 1 \in Bytes(a, n)
    BY <1>1 DEF Words, Bytes
  <1> QED BY <1>2 DEF Places

\* The address of a peripheral is one of its driver.
LEMMA PerIn ==
    ASSUME NEW p, NEW a \in Per8Addr
    PROVE  a \in RegValues(p)
  BY MemoryAssumption DEF RegValues, RegSize

\* ReadBytes serves its call.
LEMMA ServesReadBytes ==
    ASSUME NEW p, NEW c, NEW u, NEW g, Called(p, c, u, g), Legacy(p), c.op = "ReadBytes"
    PROVE  Served(p, c, u, g)
  <1> DEFINE a == c.a
             n == c.n
             k == \h2419
             K == SignalsOf(p, k)
             size == 1
             A == Places(a, n, size)
             o == [i \in 1 .. n |-> Bus(u, K, A[i])]
             h == Buf(g, o)
             s == BlockRead(p, k, a, n, size)
  <1>1. /\ a \in Nat /\ n \in Nat /\ Ready(p, u) /\ Knows(g) /\ g["buf"] = <<>> /\ Resting(p, u)
        /\ Bytes(a, n) \subseteq Per8Addr
    BY DEF Called, LegalCall, Ready
  <1>2. ReadsAt(k)
    BY ReadsAtAre
  <1>3. s = Steps(p, c)
    BY DEF Steps, LegacySteps, ReadBytes, ReadBytes_X, BlockRead
  <1> HIDE DEF k, a, n
  <1>4. ASSUME NEW i \in 1 .. n
        PROVE  A[i] = a + i - 1 /\ A[i] \in Per8Addr /\ A[i] \in RegValues(p)
    <2>1. A[i] = a + i - 1 /\ A[i] \in Per8Addr
      BY <1>1, PlacesIn
    <2> QED BY <2>1, PerIn
  <1>a. size \in Nat
    OBVIOUS
  <1> HIDE DEF size
  <1>b. \A i \in 1 .. n : A[i] \in RegValues(p)
    BY <1>4
  <1>d. ReadsOut(p, <<>>, s, u, g, o)
    BY <1>1, <1>2, <1>a, <1>b, ReadManyCall
  <1>5. PICK w : Does(<<>>, s, u, g, w, h) /\ Intact(p, u, w)
    BY <1>d DEF ReadsOut
  <1>6. IsSeq(s)
    BY <1>d DEF ReadsOut
  <1>7. ASSUME NEW i \in 1 .. n
        PROVE  o[i] % 256 = PerValue(a + i - 1)
    <2>1. A[i] \in Per8Addr /\ A[i] = a + i - 1
      BY <1>4
    <2> HIDE DEF A, K
    <2>2. Bus(u, K, A[i]) % 256 = PerValue(A[i])
      BY <1>1, <2>1, PerRead
    <2> QED BY <2>1, <2>2
  <1>8. h["buf"] = o
    BY <1>1, BufIs
  <1>9. Result(p, c, h) = Answer(p, c, <<u.mem, Held(u)>>)
    <2>1. Result(p, c, h) = [i \in DOMAIN h["buf"] |-> h["buf"][i] % 256]
      BY DEF Result
    <2>2. Answer(p, c, <<u.mem, Held(u)>>)
            = [i \in 1 .. n |-> IF a \in Per8Addr THEN PerValue(a + i - 1) ELSE ByteAt(u.mem, a + i - 1)]
      BY DEF Answer, a, n
    <2>3. ASSUME NEW i \in 1 .. n PROVE a \in Per8Addr
      <3>1. 0 \in 0 .. n - 1 /\ a = a + 0
        BY <1>1
      <3>2. a \in Bytes(a, n)
        BY <3>1 DEF Bytes
      <3> QED BY <1>1, <3>2
    <2> HIDE DEF h
    <2>4. Result(p, c, h) = [i \in 1 .. n |-> o[i] % 256]
      BY <1>8, <2>1
    <2> HIDE DEF o
    <2> QED BY <1>7, <2>2, <2>3, <2>4
  <1> HIDE DEF s, h
  <1> QED BY <1>3, <1>5, <1>6, <1>9, ReadServed DEF Intact

\* ReadWords serves its call.
LEMMA ServesReadWords ==
    ASSUME NEW p, NEW c, NEW u, NEW g, Called(p, c, u, g), Legacy(p), c.op = "ReadWords"
    PROVE  Served(p, c, u, g)
  <1> DEFINE a == c.a
             n == c.n
             k == \h2409
             K == SignalsOf(p, k)
             size == 2
             A == Places(a, n, size)
             o == [i \in 1 .. n |-> Bus(u, K, A[i])]
             h == Buf(g, o)
             s == BlockRead(p, k, a, n, size)
  <1>1. /\ a \in RegValues(p) /\ n \in Nat /\ Ready(p, u) /\ Knows(g) /\ g["buf"] = <<>> /\ Resting(p, u)
        /\ Words(a, n) \subseteq MemAddr \cap RegValues(p)
    BY DEF Called, LegalCall, Ready
  <1>2. ReadsAt(k) /\ Words16(K)
    BY ReadsAtAre, WidthsAre DEF SignalsOf, WordSignals
  <1>3. s = Steps(p, c)
    BY DEF Steps, LegacySteps, ReadWords, ReadWords_X, BlockRead
  <1>4. a \in Nat
    <2>1. a \in 0 .. 2^20 - 1
      BY <1>1, RegValuesAre
    <2> QED BY <2>1
  <1> HIDE DEF k, a, n
  <1>5. ASSUME NEW i \in 1 .. n
        PROVE  A[i] = a + 2 * (i - 1) /\ A[i] \in MemAddr /\ A[i] \in RegValues(p)
    BY <1>1, <1>4, PlacesIn
  <1>a. size \in Nat
    OBVIOUS
  <1> HIDE DEF size
  <1>b. \A i \in 1 .. n : A[i] \in RegValues(p)
    BY <1>5
  <1>d. ReadsOut(p, <<>>, s, u, g, o)
    BY <1>1, <1>2, <1>4, <1>a, <1>b, ReadManyCall
  <1>6. PICK w : Does(<<>>, s, u, g, w, h) /\ Intact(p, u, w)
    BY <1>d DEF ReadsOut
  <1>7. IsSeq(s)
    BY <1>d DEF ReadsOut
  <1>8. ASSUME NEW i \in 1 .. n
        PROVE  o[i] = u.mem[a + 2 * (i - 1)]
    <2>1. A[i] \in MemAddr /\ A[i] = a + 2 * (i - 1)
      BY <1>5
    <2> HIDE DEF A, K
    <2>2. Bus(u, K, A[i]) = u.mem[A[i]]
      BY <1>1, <1>2, <2>1, WordRead
    <2> QED BY <2>1, <2>2
  <1>9. h["buf"] = o
    BY <1>1, BufIs
  <1>10. Result(p, c, h) = Answer(p, c, <<u.mem, Held(u)>>)
    <2>1. Result(p, c, h) = h["buf"]
      BY DEF Result
    <2>2. Answer(p, c, <<u.mem, Held(u)>>) = [i \in 1 .. n |-> u.mem[a + 2 * (i - 1)]]
      BY DEF Answer, a, n
    <2> HIDE DEF h
    <2>3. Result(p, c, h) = [i \in 1 .. n |-> o[i]]
      BY <1>9, <2>1
    <2> HIDE DEF o
    <2> QED BY <1>8, <2>2, <2>3
  <1> HIDE DEF s, h
  <1> QED BY <1>3, <1>6, <1>7, <1>10, ReadServed DEF Intact

\* A register is set, or the program counter.
LEMMA ServesSetPC ==
    ASSUME NEW p, NEW c, NEW u, NEW g, Called(p, c, u, g), Legacy(p), c.op = "SetPC"
    PROVE  Served(p, c, u, g)
  <1> DEFINE v == c.v
             s == SetPCBy(p, v)
             E == Effects(p, c)
  <1>1. v \in RegValues(p) /\ Ready(p, u) /\ u.n = 0
    BY DEF Called, LegalCall
  <1>2. E = <<>> /\ s = Steps(p, c) /\ Len(E) = 0
    BY DEF Effects, Steps, LegacySteps, SetPCBy
  <1> HIDE DEF v, E
  <1>3. SetsPC(p, E, u, g, v)
    BY <1>1, SetPCCall
  <1>4. IsSeq(s)
    BY SetPCSeq DEF SetPCBy
  <1>5. PICK w : Does(E, s, u, g, w, g) /\ Ready(p, w) /\ Unmoved(u, w)
    BY <1>3 DEF SetsPC
  <1>6. w.n = Len(E)
    BY <1>1, <1>2, <1>5 DEF Unmoved
  <1>7. Finishes(p, E, s, u, g, Len(E))
    BY <1>4, <1>5, <1>6 DEF Finishes
  <1> HIDE DEF s
  <1> QED BY <1>2, <1>7, SilentServed DEF E

\* SetReg serves its call.
LEMMA ServesSetReg ==
    ASSUME NEW p, NEW c, NEW u, NEW g, Called(p, c, u, g), Legacy(p), c.op = "SetReg"
    PROVE  Served(p, c, u, g)
  <1> DEFINE v == c.v
             r == c.r
             s == SetRegBy(p, r, v)
             E == Effects(p, c)
  <1>1. v \in RegValues(p) /\ r \in Regs \ {0} /\ Ready(p, u) /\ u.n = 0
    BY DEF Called, LegalCall
  <1>2. E = <<[k |-> "reg", at |-> r, v |-> v]>> /\ s = Steps(p, c) /\ Len(E) = 1
    BY DEF Effects, Steps, LegacySteps, SetRegBy
  <1>3. NextReg(E, u, r, v)
    BY <1>1, <1>2 DEF NextReg
  <1> HIDE DEF v, E, r
  <1>4. SetsReg(p, E, u, g, r, v)
    BY <1>1, <1>3, SetRegCall
  <1>5. IsSeq(s)
    BY SetRegSeq DEF SetRegBy
  <1>6. PICK w : Does(E, s, u, g, w, g) /\ Ready(p, w) /\ w.n = u.n + 1
    BY <1>4 DEF SetsReg
  <1>7. w.n = Len(E)
    BY <1>1, <1>2, <1>6
  <1>8. Finishes(p, E, s, u, g, Len(E))
    BY <1>5, <1>6, <1>7 DEF Finishes
  <1>9. s = Steps(p, c)
    BY <1>2
  <1> HIDE DEF s
  <1> QED BY <1>8, <1>9, SilentServed DEF E

\* A word or a block is written by the older drivers.
LEMMA NatPlace ==
    ASSUME NEW p, NEW a \in RegValues(p)
    PROVE  a \in Nat
  <1>1. a \in 0 .. 2^20 - 1
    BY RegValuesAre
  <1> QED BY <1>1

\* WriteWord serves its call.
LEMMA ServesWriteWord ==
    ASSUME NEW p, NEW c, NEW u, NEW g, Called(p, c, u, g), Legacy(p), c.op = "WriteWord"
    PROVE  Served(p, c, u, g)
  <1> DEFINE a == c.a
             v == c.v
             s == WriteOne(p, a, v)
             E == Effects(p, c)
             d == Written(u, a, v)
  <1>1. /\ a \in RamAddr /\ a \in RegValues(p) /\ v \in Values16
        /\ Ready(p, u) /\ u.n = 0 /\ Resting(p, u) /\ Calm(u)
    BY ReadyLegacy DEF Called, LegalCall, Ready
  <1>2. E = <<Write(a, v)>> /\ s = Steps(p, c) /\ Len(E) = 1
    BY DEF Effects, Steps, LegacySteps, WriteOne
  <1>3. Writes16(E, u.n + 1, a, v)
    BY <1>1, <1>2 DEF Writes16, Write
  <1>4. s = Steps(p, c)
    BY <1>2
  <1>5. Len(E) = 1
    BY <1>2
  <1> HIDE DEF a, v, E
  <1>6. RamTakes(E, u, a, v, d)
    BY <1>1, <1>3, RamTaken
  <1>7. Wrote(E, u, a, v, d) /\ Calm(d) /\ Puts(u, a, v, d)
    BY <1>6 DEF RamTakes
  <1>8. Resting(p, d)
    BY <1>1, <1>7, AkinRests DEF Puts
  <1> HIDE DEF d
  <1>9. PICK w : Does(E, s, u, g, w, g) /\ LetGo(p, d, w)
    BY <1>1, <1>7, <1>8, WriteOneDoes
  <1>10. IsSeq(s)
    BY <1>1, <1>7, <1>8, WriteOneDoes
  <1>11. Ready(p, w) /\ w.n = Len(E)
    BY <1>1, <1>5, <1>7, <1>9 DEF LetGo, Behind, Puts
  <1>12. Finishes(p, E, s, u, g, Len(E))
    BY <1>9, <1>10, <1>11 DEF Finishes
  <1> HIDE DEF s
  <1> QED BY <1>4, <1>12, SilentServed DEF E

\* WriteWords serves its call, in RAM as in flash.
LEMMA ServesWriteWords ==
    ASSUME NEW p, NEW c, NEW u, NEW g, Called(p, c, u, g), Legacy(p), c.op = "WriteWords"
    PROVE  Served(p, c, u, g)
  <1> DEFINE a == c.a
             v == c.v
             n == Len(v)
             A == Places(a, n, 2)
             s == BlockWrite(p, a, v)
             E == Effects(p, c)
  <1>1. /\ a \in Nat /\ v \in Seq(Values16) /\ Ready(p, u) /\ u.n = 0
        /\ Words(a, n) \subseteq RamAddr \cap RegValues(p)
    BY DEF Called, LegalCall
  <1>2. s = Steps(p, c)
    BY DEF Steps, LegacySteps, BlockWrite
  <1>3. E = [i \in DOMAIN v |-> Write(a + 2 * (i - 1), v[i])]
    BY DEF Effects
  <1> HIDE DEF a, v, E
  <1>4. n \in Nat /\ DOMAIN v = 1 .. n /\ \A i \in 1 .. n : v[i] \in Values16
    BY <1>1
  <1>5. Len(E) = n
    BY <1>3, <1>4
  <1> HIDE DEF n
  <1>6. ASSUME NEW i \in 1 .. n
        PROVE  /\ A[i] \in RamAddr /\ A[i] \in RegValues(p) /\ Addressing(AddrStep(p), A[i])
               /\ v[i] \in Values16 /\ Writes16(E, i, A[i], v[i])
    <2>1. A[i] = a + 2 * (i - 1) /\ a + 2 * (i - 1) \in Words(a, n)
      BY <1>1, <1>4, PlacesIn
    <2>2. A[i] \in RamAddr /\ A[i] \in RegValues(p)
      BY <1>1, <2>1 DEF n
    <2>3. Addressing(AddrStep(p), A[i])
      BY <2>2, AddrStepIs
    <2>4. E[i] = Write(A[i], v[i])
      BY <1>3, <1>4, <2>1
    <2>5. Writes16(E, i, A[i], v[i])
      BY <1>4, <1>5, <2>4 DEF Writes16, Write
    <2> QED BY <1>4, <2>2, <2>3, <2>5
  <1>7. Writable(p, E, AddrStep(p), A, v, n)
    BY <1>4, <1>6 DEF Writable
  <1>8. Writable(p, E, AddrStep(p), Places(a, Len(v), 2), v, Len(v))
    BY <1>7 DEF n
  <1>9a. Ready(p, u) /\ u.n = 0 /\ a \in Nat
    BY <1>1
  <1>9. Finishes(p, E, s, u, g, Len(v))
    BY <1>8, <1>9a, BlockWriteCall
  <1>11. Finishes(p, E, s, u, g, Len(E))
    BY <1>5, <1>9 DEF n
  <1> HIDE DEF s
  <1> QED BY <1>2, <1>11, SilentServed DEF E

\* A block of flash is programmed, or flash is erased.
LEMMA ServesWriteFlash ==
    ASSUME NEW p, NEW c, NEW u, NEW g, Called(p, c, u, g), Legacy(p), c.op = "WriteFlash"
    PROVE  Served(p, c, u, g)
  <1> DEFINE a == c.a
             v == c.v
             s == BlockFlash(p, a, v)
             E == Effects(p, c)
  <1>1. /\ p \in Parts /\ a \in Nat /\ v \in Seq(Values16) /\ Ready(p, u) /\ u.n = 0
        /\ Words(a, Len(v)) \subseteq FlashCell \cap RegValues(p)
    BY DEF Called, LegalCall
  <1>2. s = Steps(p, c)
    BY DEF Steps, LegacySteps, BlockFlash
  <1>3. E = Programs(a, v)
    BY DEF Effects
  <1> HIDE DEF a, v, E
  <1>4. Finishes(p, E, s, u, g, Len(E))
    BY <1>1, <1>3, FlashCall
  <1> HIDE DEF s
  <1> QED BY <1>2, <1>4, SilentServed DEF E

\* EraseFlash serves its call.
LEMMA ServesEraseFlash ==
    ASSUME NEW p, NEW c, NEW u, NEW g, Called(p, c, u, g), Legacy(p), c.op = "EraseFlash"
    PROVE  Served(p, c, u, g)
  <1> DEFINE s == EraseScript(p, c)
             E == Effects(p, c)
  <1>1. p \in Parts /\ LegalErase(p, c) /\ Ready(p, u) /\ u.n = 0
    BY DEF Called, LegalCall
  <1>2. s = Steps(p, c)
    BY DEF Steps, LegacySteps, EraseScript
  <1>3. E = <<[k |-> "erase", at |-> c.cells, v |-> 0]>>
    BY DEF Effects
  <1>4. Erases(E, c.cells)
    BY <1>3 DEF Erases
  <1>5. Len(E) = Once
    BY <1>3 DEF Once
  <1> HIDE DEF E
  <1>6. Finishes(p, E, s, u, g, Once)
    BY <1>1, <1>4, EraseCall
  <1>7. Finishes(p, E, s, u, g, Len(E))
    BY <1>5, <1>6
  <1> HIDE DEF s
  <1> QED BY <1>2, <1>7, SilentServed DEF E

\* The registers.
LEMMA HeldIs ==
    ASSUME NEW u \in Target, NEW r \in Regs \ {0}
    PROVE  Held(u)[r] = u.reg[r]
  <1>1. DOMAIN u.reg = Regs
    BY DEF Target
  <1> QED BY <1>1 DEF Held

\* A register is read by the older drivers.
LEMMA ServesGetRegs ==
    ASSUME NEW p, NEW c, NEW u, NEW g, Called(p, c, u, g), Legacy(p), c.op = "GetRegs"
    PROVE  Served(p, c, u, g)
  <1> DEFINE r == c.r
             s == GetRegBy(p, r)
             E == Effects(p, c)
             std == p.drv = "std"
  <1>1. r \in Regs \ {0} /\ Ready(p, u) /\ u.n = 0 /\ Knows(g) /\ u \in Target
    BY RestingIs DEF Called, LegalCall, Ready
  <1>2. s = Steps(p, c)
    BY DEF Steps, LegacySteps, GetRegBy
  <1>3. E = <<>>
    BY DEF Effects
  <1>4. IsSeq(s)
    BY GetRegSeq DEF GetRegBy
  <1> HIDE DEF E
  <1>5. PICK w, h : /\ Does(E, s, u, g, w, h) /\ Ready(p, w) /\ Unmoved(u, w)
                    /\ std => h["data"] = u.reg[r]
                    /\ ~std => h["rx_h"] * 2^16 + h["rx_l"] = u.reg[r]
    <2> HIDE DEF r
    <2>1. TellsReg(p, E, u, g, r)
      BY <1>1, GetRegCall
    <2> QED BY <2>1 DEF TellsReg
  <1>6. Held(w)[r] = u.reg[r] /\ w.n = Len(E)
    BY <1>1, <1>3, <1>5, HeldIs DEF Unmoved
  <1>7. Result(p, c, h) = <<u.reg[r]>>
    <2>1. CASE std
      <3>1. Result(p, c, h) = <<h["data"]>>
        BY <2>1 DEF Result
      <3> QED BY <1>5, <2>1, <3>1
    <2>2. CASE ~std
      <3>1. p.drv = "x"
        BY <2>2 DEF Legacy
      <3>2. Result(p, c, h) = <<h["rx_h"] * 2^16 + h["rx_l"]>>
        BY <3>1 DEF Result
      <3> QED BY <1>5, <2>2, <3>2
    <2> QED BY <2>1, <2>2
  <1>8. Answer(p, c, <<w.mem, Held(w)>>) = <<Held(w)[r]>>
    BY DEF Answer
  <1>9. Kept(p, c, w, h)
    BY <1>5, <1>6, <1>7, <1>8 DEF Kept, Quietly, E
  <1> HIDE DEF s
  <1> QED BY <1>2, <1>4, <1>5, <1>9 DEF Served, E

\* The newer drivers read memory.
LEMMA MemPlace_Xv2 ==
    ASSUME NEW p, ~Legacy(p), NEW a \in MemAddr
    PROVE  a \in RegValues(p) /\ {a, a + 1} \cap Per8Addr = {}
  <1>1. a \in 0 .. 2^20 - 1 /\ {a, a + 1} \cap Per8Addr = {}
    BY MemoryAssumption
  <1>2. RegSize(p) = 2^20
    BY DEF RegSize, Legacy
  <1> QED BY <1>1, <1>2 DEF RegValues

\* A byte is in the word around it, and no peripheral's.
LEMMA BytePlace_Xv2 ==
    ASSUME NEW p, ~Legacy(p), NEW a \in Nat, a - (a % 2) \in MemAddr
    PROVE  a - (a % 2) \in RegValues(p) /\ a \notin Per8Addr
  <1> DEFINE b == a - (a % 2)
  <1>1. a = b \/ a = b + 1
    OBVIOUS
  <1> HIDE DEF b
  <1>2. b \in MemAddr
    BY DEF b
  <1>3. b \in RegValues(p) /\ {b, b + 1} \cap Per8Addr = {}
    BY <1>2, MemPlace_Xv2
  <1> QED BY <1>1, <1>3 DEF b

\* ReadByte of TapDev430Xv2 serves its call.
LEMMA ServesReadByte_Xv2 ==
    ASSUME NEW p, NEW c, NEW u, NEW g, Called(p, c, u, g), ~Legacy(p), c.op = "ReadByte"
    PROVE  Served(p, c, u, g)
  <1> DEFINE a == c.a
             b == a - (a % 2)
             o == u.mem[b]
             s == ReadWord_Xv2(b)
             h == Also(g, o)
  <1>1. a \in RegValues(p) /\ b \in MemAddr /\ Ready(p, u) /\ Knows(g) /\ g["buf"] = <<>>
    BY DEF Called, LegalCall
  <1>2. s = Steps(p, c)
    BY DEF Steps, Xv2Steps, ReadByte_Xv2
  <1>3. a \in Nat /\ Waiting(p, u)
    BY <1>1, NatPlace, ReadyWaits
  <1> HIDE DEF a
  <1>4. b \in RegValues(p)
    BY <1>1, <1>3, BytePlace_Xv2
  <1> HIDE DEF b
  <1>5. ReadsTo(p, <<>>, s, u, g, h)
    BY <1>1, <1>3, <1>4, ReadWordCall_Xv2
  <1>6. PICK w : Does(<<>>, s, u, g, w, h) /\ Ready(p, w) /\ Unmoved(u, w)
    BY <1>5 DEF ReadsTo
  <1>7. IsSeq(s)
    BY <1>5 DEF ReadsTo
  <1>8. h["buf"] = <<o>>
    <2>1. h["buf"] = Append(<<>>, o)
      BY <1>1, LocalsAre DEF Also, Knows
    <2> QED BY <2>1
  <1>9. ByteOf(a, o) = ByteAt(u.mem, a)
    BY DEF ByteOf, ByteAt, b
  <1>10. Result(p, c, h) = Answer(p, c, <<u.mem, Held(u)>>)
    <2>1. Result(p, c, h) = <<ByteOf(a, h["buf"][1])>>
      BY DEF Result, a
    <2>2. Answer(p, c, <<u.mem, Held(u)>>) = <<ByteAt(u.mem, a)>>
      BY DEF Answer, a
    <2> HIDE DEF h, o
    <2>3. h["buf"][1] = o
      BY <1>8
    <2> QED BY <1>9, <2>1, <2>2, <2>3
  <1> HIDE DEF s, h
  <1> QED BY <1>2, <1>6, <1>7, <1>10, ReadServed

\* ReadWord does.
LEMMA ServesReadWord_Xv2 ==
    ASSUME NEW p, NEW c, NEW u, NEW g, Called(p, c, u, g), ~Legacy(p), c.op = "ReadWord"
    PROVE  Served(p, c, u, g)
  <1> DEFINE a == c.a
             o == u.mem[a]
             s == ReadWord_Xv2(a)
             h == Also(g, o)
  <1>1. a \in RegValues(p) /\ a \in MemAddr /\ Ready(p, u) /\ Knows(g) /\ g["buf"] = <<>>
    BY DEF Called, LegalCall
  <1>2. s = Steps(p, c)
    BY DEF Steps, Xv2Steps
  <1>3. Waiting(p, u)
    BY <1>1, ReadyWaits
  <1> HIDE DEF a
  <1>5. ReadsTo(p, <<>>, s, u, g, h)
    BY <1>1, <1>3, ReadWordCall_Xv2
  <1>6. PICK w : Does(<<>>, s, u, g, w, h) /\ Ready(p, w) /\ Unmoved(u, w)
    BY <1>5 DEF ReadsTo
  <1>7. IsSeq(s)
    BY <1>5 DEF ReadsTo
  <1>8. h["buf"] = <<o>>
    <2>1. h["buf"] = Append(<<>>, o)
      BY <1>1, LocalsAre DEF Also, Knows
    <2> QED BY <2>1
  <1>10. Result(p, c, h) = Answer(p, c, <<u.mem, Held(u)>>)
    <2>1. Result(p, c, h) = h["buf"]
      BY DEF Result
    <2>2. Answer(p, c, <<u.mem, Held(u)>>) = <<u.mem[a]>>
      BY DEF Answer, a
    <2> QED BY <1>8, <2>1, <2>2
  <1> HIDE DEF s, h
  <1> QED BY <1>2, <1>6, <1>7, <1>10, ReadServed

\* ReadBytes does.
LEMMA ServesReadBytes_Xv2 ==
    ASSUME NEW p, NEW c, NEW u, NEW g, Called(p, c, u, g), ~Legacy(p), c.op = "ReadBytes"
    PROVE  Served(p, c, u, g)
  <1> DEFINE a == c.a
             n == c.n
             A == [i \in 1 .. n |-> (a + i - 1) - ((a + i - 1) % 2)]
             o == [i \in 1 .. n |-> u.mem[A[i]]]
             s == Loop([i \in 1 .. n |-> ReadWord_Xv2(A[i])])
             h == Buf(g, o)
  <1>1. /\ a \in Nat /\ n \in Nat /\ Ready(p, u) /\ Knows(g) /\ g["buf"] = <<>>
        /\ \A b \in Bytes(a, n) : b - (b % 2) \in MemAddr
    BY DEF Called, LegalCall
  <1>2. s = Steps(p, c)
    <2>1. [i \in 1 .. n |-> ReadWord_Xv2(A[i])] = [i \in 1 .. n |-> ReadByte_Xv2(a + i - 1)]
      BY DEF ReadByte_Xv2
    <2>2. Steps(p, c) = Loop([i \in 1 .. n |-> ReadByte_Xv2(a + i - 1)])
      BY DEF Steps, Xv2Steps, ReadBytes_Xv2
    <2> HIDE DEF A
    <2> QED BY <2>1, <2>2
  <1> HIDE DEF a, n
  <1>3. ASSUME NEW i \in 1 .. n
        PROVE  /\ A[i] \in MemAddr /\ A[i] \in RegValues(p) /\ a + i - 1 \notin Per8Addr
               /\ ByteOf(a + i - 1, o[i]) = ByteAt(u.mem, a + i - 1)
    <2> DEFINE b == a + i - 1
    <2>0. a \in Nat /\ n \in Nat
      BY <1>1
    <2>1a. a + i - 1 \in Bytes(a, n)
      BY ONLY <2>0, PlacesIn, i \in 1 .. n
    <2>1. b \in Bytes(a, n) /\ b \in Nat
      BY <2>0, <2>1a
    <2>2. A[i] = b - (b % 2)
      OBVIOUS
    <2>3. o[i] = u.mem[A[i]]
      OBVIOUS
    <2> HIDE DEF b, A, o
    <2>4. b - (b % 2) \in MemAddr
      BY <1>1, <2>1
    <2>5. A[i] \in MemAddr /\ A[i] \in RegValues(p) /\ b \notin Per8Addr
      BY <2>1, <2>2, <2>4, BytePlace_Xv2
    <2>6. ByteOf(b, o[i]) = ByteAt(u.mem, b)
      BY <2>2, <2>3 DEF ByteOf, ByteAt
    <2> QED BY <2>5, <2>6 DEF b
  <1>4. o = [i \in 1 .. n |-> u.mem[A[i]]] /\ s = Loop([i \in 1 .. n |-> ReadWord_Xv2(A[i])])
    OBVIOUS
  <1>5. DOMAIN o = 1 .. n
    OBVIOUS
  <1> HIDE DEF o, s, A
  <1>6. ReadsTo(p, <<>>, s, u, g, h)
    BY <1>1, <1>3, <1>4, ReadEachCall_Xv2
  <1>7. PICK w : Does(<<>>, s, u, g, w, h) /\ Ready(p, w) /\ Unmoved(u, w)
    BY <1>6 DEF ReadsTo
  <1>8. IsSeq(s)
    BY <1>6 DEF ReadsTo
  <1>9. h["buf"] = o
    BY <1>1, BufIs
  <1>10. Result(p, c, h) = Answer(p, c, <<u.mem, Held(u)>>)
    <2>1. Result(p, c, h) = [i \in DOMAIN h["buf"] |-> ByteOf(a + i - 1, h["buf"][i])]
      BY DEF Result, a
    <2>2. Answer(p, c, <<u.mem, Held(u)>>)
            = [i \in 1 .. n |-> IF a \in Per8Addr THEN PerValue(a + i - 1) ELSE ByteAt(u.mem, a + i - 1)]
      BY DEF Answer, a, n
    <2>3. ASSUME NEW i \in 1 .. n PROVE a \notin Per8Addr
      <3>1. 1 \in 1 .. n /\ a + 1 - 1 = a
        BY <1>1
      <3> QED BY <1>3, <3>1
    <2> HIDE DEF h
    <2>4. Result(p, c, h) = [i \in 1 .. n |-> ByteOf(a + i - 1, o[i])]
      BY <1>5, <1>9, <2>1
    <2> QED BY <1>3, <2>2, <2>3, <2>4
  <1> HIDE DEF h
  <1> QED BY <1>2, <1>7, <1>8, <1>10, ReadServed

\* ReadWords does.
LEMMA ServesReadWords_Xv2 ==
    ASSUME NEW p, NEW c, NEW u, NEW g, Called(p, c, u, g), ~Legacy(p), c.op = "ReadWords"
    PROVE  Served(p, c, u, g)
  <1> DEFINE a == c.a
             n == c.n
             o == [i \in 1 .. n |-> u.mem[a + (i - 1) * 2]]
             s == ReadWords_Xv2(a, n)
  <1>1. /\ a \in RegValues(p) /\ n \in Nat /\ Ready(p, u) /\ Knows(g) /\ g["buf"] = <<>>
        /\ Words(a, n) \subseteq MemAddr \cap RegValues(p)
    BY DEF Called, LegalCall
  <1>2. s = Steps(p, c)
    BY DEF Steps, Xv2Steps
  <1>3. a \in Nat
    BY <1>1, NatPlace
  <1>4. Answer(p, c, <<u.mem, Held(u)>>) = [i \in 1 .. n |-> u.mem[a + 2 * (i - 1)]]
    BY DEF Answer
  <1> HIDE DEF a, n
  <1>5. ASSUME NEW i \in 1 .. n
        PROVE  /\ a + (i - 1) * 2 \in MemAddr /\ a + (i - 1) * 2 \in RegValues(p)
               /\ a + (i - 1) * 2 = a + 2 * (i - 1)
    <2>1. a + 2 * (i - 1) \in Words(a, n) /\ a + (i - 1) * 2 = a + 2 * (i - 1)
      BY <1>1, <1>3, PlacesIn
    <2> QED BY <1>1, <2>1
  <1>6. Answer(p, c, <<u.mem, Held(u)>>) = o
    BY <1>4, <1>5
  <1>7. o = [i \in 1 .. n |-> u.mem[a + (i - 1) * 2]]
    OBVIOUS
  <1> HIDE DEF o
  <1>8. ReadsBuf(p, <<>>, s, u, g, o)
    BY <1>1, <1>5, <1>7, ReadWordsCall_Xv2
  <1>9. PICK w, h : Does(<<>>, s, u, g, w, h) /\ Ready(p, w) /\ Unmoved(u, w) /\ h["buf"] = o
    BY <1>8 DEF ReadsBuf
  <1>10. IsSeq(s)
    BY <1>8 DEF ReadsBuf
  <1>11. Result(p, c, h) = h["buf"]
    BY DEF Result
  <1>12. Result(p, c, h) = Answer(p, c, <<u.mem, Held(u)>>)
    BY <1>6, <1>9, <1>11
  <1> HIDE DEF s
  <1> QED BY <1>2, <1>9, <1>10, <1>12, ReadServed

\* The newer drivers write memory and registers.
LEMMA ServesWriteWord_Xv2 ==
    ASSUME NEW p, NEW c, NEW u, NEW g, Called(p, c, u, g), ~Legacy(p), c.op = "WriteWord"
    PROVE  Served(p, c, u, g)
  <1> DEFINE a == c.a
             v == c.v
             s == WriteWord_Xv2(a, v)
             E == Effects(p, c)
             m == Len(E)
  <1>1. /\ a \in RamAddr /\ a \in RegValues(p) /\ v \in Values16 /\ Ready(p, u) /\ u.n = 0 /\ Waiting(p, u)
    BY ReadyWaits DEF Called, LegalCall
  <1>2. E = <<Write(a, v)>>
    BY DEF Effects
  <1>3. s = Steps(p, c)
    BY DEF Steps, Xv2Steps
  <1>4. m = u.n + 1 /\ Writes16(E, m, a, v)
    BY <1>1, <1>2 DEF Writes16, Write
  <1> HIDE DEF a, v, E, m
  <1>5. Finishes(p, E, s, u, g, m)
    BY <1>1, <1>4, RamCall_Xv2
  <1>6. Finishes(p, E, s, u, g, Len(E))
    BY <1>5 DEF m
  <1> HIDE DEF s
  <1> QED BY <1>3, <1>6, SilentServed DEF E

\* WriteWords does.
LEMMA ServesWriteWords_Xv2 ==
    ASSUME NEW p, NEW c, NEW u, NEW g, Called(p, c, u, g), ~Legacy(p), c.op = "WriteWords"
    PROVE  Served(p, c, u, g)
  <1> DEFINE a == c.a
             v == c.v
             n == Len(v)
             A == Places(a, n, 2)
             s == Loop([i \in 1 .. n |-> WriteWord_Xv2(A[i], v[i])])
             E == Effects(p, c)
  <1>1. /\ a \in Nat /\ v \in Seq(Values16) /\ Ready(p, u) /\ u.n = 0
        /\ Words(a, n) \subseteq RamAddr \cap RegValues(p)
    BY DEF Called, LegalCall
  <1>2. Steps(p, c) = Loop([i \in 1 .. n |-> WriteWord_Xv2(a + (i - 1) * 2, v[i])])
    BY DEF Steps, Xv2Steps, WriteWords_Xv2
  <1>3. E = [i \in DOMAIN v |-> Write(a + 2 * (i - 1), v[i])]
    BY DEF Effects
  <1> HIDE DEF a, v, E
  <1>4. n \in Nat /\ DOMAIN v = 1 .. n /\ \A i \in 1 .. n : v[i] \in Values16
    BY <1>1
  <1>5. Len(E) = n
    BY <1>3, <1>4
  <1> HIDE DEF n
  <1>5a. s = Steps(p, c)
    <2>1. ASSUME NEW i \in 1 .. n PROVE A[i] = a + (i - 1) * 2
      BY DEF Places
    <2> HIDE DEF A
    <2>2. [i \in 1 .. n |-> WriteWord_Xv2(A[i], v[i])] = [i \in 1 .. n |-> WriteWord_Xv2(a + (i - 1) * 2, v[i])]
      BY <2>1
    <2> QED BY <1>2, <2>2
  <1>6. ASSUME NEW i \in 1 .. n
        PROVE  /\ A[i] \in RamAddr /\ A[i] \in RegValues(p) /\ v[i] \in Values16 /\ Writes16(E, i, A[i], v[i])
    <2>1. A[i] = a + 2 * (i - 1) /\ a + 2 * (i - 1) \in Words(a, n)
      BY <1>1, <1>4, PlacesIn
    <2>2. A[i] \in RamAddr /\ A[i] \in RegValues(p)
      BY <1>1, <2>1 DEF n
    <2>4. E[i] = Write(A[i], v[i])
      BY <1>3, <1>4, <2>1
    <2>5. Writes16(E, i, A[i], v[i])
      BY <1>4, <1>5, <2>4 DEF Writes16, Write
    <2> QED BY <1>4, <2>2, <2>5
  <1>7. s = Loop([i \in 1 .. n |-> WriteWord_Xv2(A[i], v[i])])
    OBVIOUS
  <1> HIDE DEF A, s
  <1>8. Finishes(p, E, s, u, g, n)
    BY <1>1, <1>4, <1>6, <1>7, WriteEachCall_Xv2
  <1>9. Finishes(p, E, s, u, g, Len(E))
    BY <1>5, <1>8
  <1> QED BY <1>5a, <1>9, SilentServed DEF E

\* SetPC does.
LEMMA ServesSetPC_Xv2 ==
    ASSUME NEW p, NEW c, NEW u, NEW g, Called(p, c, u, g), ~Legacy(p), c.op = "SetPC"
    PROVE  Served(p, c, u, g)
  <1> DEFINE v == c.v
             s == SetPC_Xv2(v)
             E == Effects(p, c)
  <1>1. v \in RegValues(p) /\ u.n = 0 /\ Waiting(p, u) /\ Knows(g)
    BY ReadyWaits DEF Called, LegalCall
  <1>2. E = <<>> /\ s = Steps(p, c)
    BY DEF Effects, Steps, Xv2Steps
  <1>3. c.op # "GetRegs"
    OBVIOUS
  <1> HIDE DEF v, E
  <1>4. PlacedFrom(p, E, s, u, g, v)
    BY <1>1, SetPCCall_Xv2
  <1>5. PICK w, h : Does(E, s, u, g, w, h) /\ Placed(p, w, v) /\ Unmoved(u, w)
    BY <1>4 DEF PlacedFrom
  <1>6. IsSeq(s)
    BY SetPCSeq_Xv2
  <1>7. Ready(p, w) /\ w.n = Len(E)
    BY <1>1, <1>2, <1>5 DEF Placed, Unmoved
  <1>8. Result(p, c, h) = <<>> /\ \A m : Answer(p, c, m) = <<>>
    BY DEF Result, Answer
  <1>9. Kept(p, c, w, h)
    BY <1>3, <1>7, <1>8 DEF Kept, Quietly, E
  <1> HIDE DEF s
  <1> QED BY <1>2, <1>5, <1>6, <1>9 DEF Served, E

\* SetReg does.
LEMMA ServesSetReg_Xv2 ==
    ASSUME NEW p, NEW c, NEW u, NEW g, Called(p, c, u, g), ~Legacy(p), c.op = "SetReg"
    PROVE  Served(p, c, u, g)
  <1> DEFINE v == c.v
             r == c.r
             s == SetReg_Xv2(r, v)
             E == Effects(p, c)
             m == Len(E)
  <1>1. v \in RegValues(p) /\ r \in Regs \ {0} /\ u.n = 0 /\ Waiting(p, u)
    BY ReadyWaits DEF Called, LegalCall
  <1>2. E = <<[k |-> "reg", at |-> r, v |-> v]>>
    BY DEF Effects
  <1>3. s = Steps(p, c)
    BY DEF Steps, Xv2Steps
  <1>4. NextReg(E, u, r, v) /\ m = u.n + 1
    BY <1>1, <1>2 DEF NextReg
  <1> HIDE DEF v, E, r, m
  <1>5. Finishes(p, E, s, u, g, m)
    BY <1>1, <1>4, SetRegCall_Xv2
  <1>6. Finishes(p, E, s, u, g, Len(E))
    BY <1>5 DEF m
  <1> HIDE DEF s
  <1> QED BY <1>3, <1>6, SilentServed DEF E

\* GetRegs does.
LEMMA ServesGetRegs_Xv2 ==
    ASSUME NEW p, NEW c, NEW u, NEW g, Called(p, c, u, g), ~Legacy(p), c.op = "GetRegs"
    PROVE  Served(p, c, u, g)
  <1> DEFINE r == c.r
             s == GetRegsScript(p, r)
             E == Effects(p, c)
  <1>1. r \in Regs \ {0} /\ Ready(p, u) /\ u.n = 0 /\ Knows(g) /\ u \in Target /\ g["pc"] = u.reg[0]
    BY RestingIs DEF Called, LegalCall, Ready
  <1>2. s = Steps(p, c)
    BY DEF Steps, Xv2Steps, GetRegsScript
  <1>3. E = <<>>
    BY DEF Effects
  <1>4. TellsReg_Xv2(p, E, s, u, g, r)
    <2> HIDE DEF r, E
    <2> QED BY <1>1, GetRegsCall_Xv2
  <1>5. PICK w, h : /\ Does(E, s, u, g, w, h) /\ Ready(p, w) /\ Unmoved(u, w)
                    /\ (h["rx_h"] * 2^16 + h["rx_l"]) % 2^20 = u.reg[r]
                    /\ w.pcok /\ w.reg[0] = h["pc"] /\ w.jmb = <<>>
    BY <1>4 DEF TellsReg_Xv2
  <1>6. IsSeq(s)
    BY <1>4 DEF TellsReg_Xv2
  <1>7. Held(w)[r] = u.reg[r] /\ w.n = Len(E)
    BY <1>1, <1>3, <1>5, HeldIs DEF Unmoved
  <1>8. Result(p, c, h) = <<(h["rx_h"] * 2^16 + h["rx_l"]) % 2^20>>
    BY DEF Result, Legacy
  <1>9. Answer(p, c, <<w.mem, Held(w)>>) = <<Held(w)[r]>>
    BY DEF Answer
  <1>10. Kept(p, c, w, h)
    BY <1>5, <1>7, <1>8, <1>9 DEF Kept, Quietly, E
  <1> HIDE DEF s
  <1> QED BY <1>2, <1>5, <1>6, <1>10 DEF Served, E

\* Every operation but a release makes its changes and returns what it promises.
LEMMA Serves ==
    ASSUME NEW p, NEW c, NEW u, NEW g, Called(p, c, u, g), c.op # "ReleaseDevice"
    PROVE  Served(p, c, u, g)
  <1>1. CASE Legacy(p)
    <2>1. c.op \in {"ReadByte", "ReadBytes", "ReadWord", "ReadWords", "WriteWord", "WriteWords", "WriteFlash",
                    "EraseFlash", "SetPC", "SetReg", "GetRegs"}
      BY DEF Called, LegalCall
    <2> QED BY <1>1, <2>1, ServesReadByte, ServesReadBytes, ServesReadWord, ServesReadWords, ServesWriteWord,
               ServesWriteWords, ServesWriteFlash, ServesEraseFlash, ServesSetPC, ServesSetReg, ServesGetRegs
  <1>2. CASE ~Legacy(p)
    <2>1. c.op \in {"ReadByte", "ReadBytes", "ReadWord", "ReadWords", "WriteWord", "WriteWords", "SetPC", "SetReg", "GetRegs"}
      BY <1>2 DEF Called, LegalCall
    <2> QED BY <1>2, <2>1, ServesReadByte_Xv2, ServesReadBytes_Xv2, ServesReadWord_Xv2, ServesReadWords_Xv2,
               ServesWriteWord_Xv2, ServesWriteWords_Xv2, ServesSetPC_Xv2, ServesSetReg_Xv2, ServesGetRegs_Xv2
  <1> QED BY <1>1, <1>2

\* ReleaseDevice, of every driver, lets the CPU go as its call asks.
LEMMA ReleaseServes ==
    ASSUME NEW p, NEW c, NEW u, NEW g, Called(p, c, u, g), c.op = "ReleaseDevice"
    PROVE  Freeing(p, c, u, g)
  <1> DEFINE E == Effects(p, c)
             s == Steps(p, c)
  <1>1. /\ Ready(p, u) /\ u.n = 0 /\ Knows(g) /\ c.bkpt \in BOOLEAN /\ c.mdb \in Values16
        /\ c.ctx \in [pc : RegValues(p), sr : Values16, wdt : Values16]
        /\ ~Legacy(p) => ResumePc(c.ctx) \in RegValues(p)
    BY DEF Called, LegalCall
  <1>2. ContextOf(p, c.ctx)
    BY <1>1 DEF ContextOf
  <1>3. E = <<[k |-> "reg", at |-> 2, v |-> c.ctx.sr]>>
    BY DEF Effects
  <1>4. NextReg(E, u, StatusReg, c.ctx.sr) /\ Len(E) = u.n + 1
    BY <1>1, <1>3 DEF NextReg, StatusReg
  <1>5. s = IF Legacy(p) THEN LegacyRelease(p, c) ELSE Release_Xv2(p, c)
    BY DEF Steps, LegacySteps, Xv2Steps, LegacyRelease, Release_Xv2
  <1> HIDE DEF E, s
  <1>6. Releases(p, E, s, u, g, c)
    <2>1. CASE Legacy(p)
      <3>1. Releases(p, E, LegacyRelease(p, c), u, g, c)
        BY <1>1, <1>2, <1>4, <2>1, ReleaseCall
      <3> QED BY <1>5, <2>1, <3>1
    <2>2. CASE ~Legacy(p)
      <3>1. Releases(p, E, Release_Xv2(p, c), u, g, c)
        BY <1>1, <1>2, <1>4, <2>2, ReleaseCall_Xv2
      <3> QED BY <1>5, <2>2, <3>1
    <2> QED BY <2>1, <2>2
  <1>7. PICK a : s = a \o Ir(IR_CNTRL_SIG_RELEASE) /\ Leaves(p, E, a, u, g, c)
    BY <1>6 DEF Releases
  <1>8. PICK w, h : Does(E, a, u, g, w, h) /\ LeavesAs(p, c, u, w)
    BY <1>7 DEF Leaves
  <1>9. Gone(p, c, w)
    BY <1>4, <1>8 DEF LeavesAs, Gone, E
  <1> QED BY <1>7, <1>8, <1>9 DEF Freeing, Leaves, E, s

-----------------------------------------------------------------------------
(* Where an operation under way stands.                                    *)

\* A run that ends in a sound target began in one.
LEMMA PathSound ==
    ASSUME NEW E, NEW c, NEW d, Path(E, c, d), Sound(d[1])
    PROVE  Sound(c[1])
  <1>1. CASE c = d
    BY <1>1
  <1>2. CASE c # d
    BY <1>2, PathStep DEF Link
  <1> QED BY <1>1, <1>2

\* A script that has been played has come to its end.
LEMMA PathEnds ==
    ASSUME NEW E, NEW u, NEW g, NEW d, Path(E, <<u, g, <<>>>>, d)
    PROVE  d = <<u, g, <<>>>>
  <1> DEFINE c == <<u, g, <<>>>>
  <1>1. ~\E b : Link(E, c, b)
    BY DEF Link, Moves
  <1> HIDE DEF c
  <1>2. Path(E, c, d)
    BY DEF c
  <1>3. c = d
    BY <1>1, <1>2, PathStep
  <1> QED BY <1>3 DEF c

\* The step taken is the one that was foreseen.
LEMMA PathGoes ==
    ASSUME NEW E, NEW c, NEW d, Path(E, c, d), c # d, NEW b, Moves(c, b)
    PROVE  Link(E, c, b) /\ Path(E, b, d)
  <1>1. PICK e : Link(E, c, e) /\ Path(E, e, d)
    BY PathStep
  <1>2. e = b
    BY <1>1, MovesOne DEF Link
  <1> QED BY <1>1, <1>2

\* A call that just arrived is being served ...
LEMMA ServingNow ==
    ASSUME NEW p, NEW c, NEW u, NEW g, Called(p, c, u, g), c.op # "ReleaseDevice",
           NEW s, s = Steps(p, c)
    PROVE  Serving(p, c, u, g, s)
  <1> DEFINE E == Effects(p, c)
  <1>1. Sound(u)
    BY DEF Called, Ready, Resting
  <1>2. Served(p, c, u, g)
    BY Serves
  <1>3. IsSeq(s) /\ \E w, h : Does(E, s, u, g, w, h) /\ Kept(p, c, w, h)
    BY <1>2 DEF Served
  <1>4. PICK w, h : Does(E, s, u, g, w, h) /\ Kept(p, c, w, h)
    BY <1>3
  <1> HIDE DEF E
  <1>5. Path(E, <<u, g, s \o <<>>>>, <<w, h, <<>>>>)
    <2>1. IsSeq(<<>>)
      BY <1>3, SeqOne
    <2> QED BY <1>1, <1>4, <2>1 DEF Does
  <1>6. s \o <<>> = s
    BY <1>3, SeqConcat
  <1> QED BY <1>4, <1>5, <1>6 DEF Serving, E

\* ... or, if it is a release, is letting the CPU go.
LEMMA PartingNow ==
    ASSUME NEW p, NEW c, NEW u, NEW g, Called(p, c, u, g), c.op = "ReleaseDevice",
           NEW s, s = Steps(p, c)
    PROVE  Parting(p, c, u, g, s)
  <1> DEFINE E == Effects(p, c)
             r == Ir(IR_CNTRL_SIG_RELEASE)
  <1>1. Sound(u)
    BY DEF Called, Ready, Resting
  <1>2. Freeing(p, c, u, g)
    BY ReleaseServes
  <1>3. PICK a : /\ s = a \o r /\ IsSeq(a)
                 /\ \E w, h : Does(E, a, u, g, w, h) /\ Gone(p, c, w)
    BY <1>2 DEF Freeing
  <1>4. PICK w, h : Does(E, a, u, g, w, h) /\ Gone(p, c, w)
    BY <1>3
  <1>5. IsSeq(r)
    BY PrimSeq
  <1> HIDE DEF E, r
  <1>6. Path(E, <<u, g, a \o r>>, <<w, h, r>>)
    BY <1>1, <1>4, <1>5 DEF Does
  <1> QED BY <1>3, <1>4, <1>6 DEF Parting, E, r

\* A captured target is ready.
LEMMA PartIs ==
    ASSUME NEW p \in Parts
    PROVE  /\ p.drv \in {"std", "x", "xv2", "xv2_1377"} /\ p.id \in Nat /\ p.has_locka \in BOOLEAN
           /\ p.need \in Needs
  BY PartsAssumption DEF Needs

\* The words in memory at the start.
LEMMA CellsIn ==
    ASSUME NEW a \in MemAddr
    PROVE  4096 + (a % 4096) \in Values16 /\ \hFFFF - (a % 16) \in Values16
  <1> DEFINE x == a % 4096
             y == a % 16
  <1>1. a \in Nat
    BY MemoryAssumption
  <1>2. x \in 0 .. 4095 /\ y \in 0 .. 15
    BY <1>1
  <1> HIDE DEF x, y
  <1>3. 4096 + x \in Values16 /\ \hFFFF - y \in Values16
    BY ONLY <1>2 DEF Values16
  <1> QED BY <1>3 DEF x, y

\* A record of all these columns is a target.
Fresh(drv, id, need, has_locka, ir, cntrl, mem, per, reg, wdt, spent, eem, end, cpu) ==
    [drv |-> drv, id |-> id, need |-> need, has_locka |-> has_locka, ir |-> ir, cntrl |-> cntrl,
     tclk |-> 1, mab |-> 0, dto |-> 0, din |-> 0, mdb |-> 0, cpu |-> cpu, reg |-> reg,
     pcok |-> FALSE, mem |-> mem, per |-> per, wdt |-> wdt, wrt |-> FALSE, erase |-> {},
     lock |-> TRUE, locka |-> has_locka, busy |-> 0, doomed |-> {}, spent |-> spent, n |-> 0,
     violated |-> FALSE, eem |-> eem, eemaddr |-> -1, eemctl |-> 0, jmb |-> <<>>,
     running |-> FALSE, strobe_end |-> end]

\* The target is ready at the start.
LEMMA InitReady ==
    ASSUME NEW p \in Parts, NEW end \in {0, 1}, NEW u, u = InitTarget(p, end)
    PROVE  Ready(p, u) /\ u.running = FALSE
  <1>1. /\ u.drv = p.drv /\ u.id = p.id /\ u.need = p.need /\ u.has_locka = p.has_locka
        /\ u.ir = IR_DATA_CAPTURE /\ u.cntrl = (IF p.drv \in {"std", "x"} THEN \h2401 ELSE \h0501)
        /\ u.tclk = 1 /\ u.mab = 0 /\ u.dto = 0 /\ u.din = 0 /\ u.mdb = 0 /\ u.cpu = Fetch
        /\ u.reg = [r \in Regs |-> IF r = 0 THEN \hF000 ELSE IF r = 2 THEN 8 ELSE \h5A5A]
        /\ u.pcok = FALSE
        /\ u.mem = [a \in MemAddr |-> IF a \in RamAddr THEN 4096 + (a % 4096) ELSE \hFFFF - (a % 16)]
        /\ u.per = [a \in Per8Addr |-> PerValue(a)] /\ u.wdt = \h80 /\ u.wrt = FALSE /\ u.erase = {}
        /\ u.lock = TRUE /\ u.locka = p.has_locka /\ u.busy = 0 /\ u.doomed = {}
        /\ u.spent = [a \in FlashCell |-> 0] /\ u.n = 0 /\ u.violated = FALSE
        /\ u.eem = [a \in {2, 10, 18, \h82, \h88} |-> 1000 + a] /\ u.eemaddr = -1 /\ u.eemctl = 0
        /\ u.jmb = <<>> /\ u.running = FALSE /\ u.strobe_end = end
    BY DEF InitTarget
  <1>2. u.mem \in [MemAddr -> Values16]
    BY <1>1, CellsIn
  <1>3. u.per \in [Per8Addr -> Values16]
    <2>1. \A a \in Per8Addr : PerValue(a) \in Values16
      BY MemoryAssumption DEF PerValue, Values16
    <2> QED BY <1>1, <2>1
  <1>4. u.reg \in [Regs -> Nat] /\ \A r \in Regs : u.reg[r] \in RegValues(u)
    <2>1. \hF000 \in RegValues(u) /\ 8 \in RegValues(u) /\ \h5A5A \in RegValues(u)
      BY DEF RegValues, RegSize
    <2> QED BY <1>1, <2>1
  <1>5. u.spent \in [FlashCell -> Nat] /\ u.eem \in [EemAddr -> Nat] /\ u.cpu \in CpuStates /\ u.jmb \in Seq(Values16)
    BY <1>1 DEF EemAddr, CpuStates
  <1>6. u.ir \in Nat /\ u.cntrl \in Values16 /\ 0 \in Values16
    BY <1>1 DEF IR_DATA_CAPTURE, Values16
  <1>7. u \in Target
    <2>1. u = Fresh(u.drv, u.id, u.need, u.has_locka, u.ir, u.cntrl, u.mem, u.per, u.reg, u.wdt, u.spent,
                    u.eem, u.strobe_end, u.cpu)
      BY DEF InitTarget, Fresh
    <2>2. u.wdt \in Nat /\ u.strobe_end \in {0, 1}
      BY <1>1
    <2>3. u.drv \in {"std", "x", "xv2", "xv2_1377"} /\ u.id \in Nat /\ u.has_locka \in BOOLEAN /\ u.need \in Needs
      BY <1>1, PartIs
    <2>4. u.need \in Needs /\ u.ir \in Nat /\ u.cntrl \in Values16 /\ u.mem \in [MemAddr -> Values16]
          /\ u.per \in [Per8Addr -> Values16] /\ u.reg \in [Regs -> Nat]
          /\ u.spent \in [FlashCell -> Nat] /\ u.eem \in [EemAddr -> Nat] /\ u.cpu \in CpuStates
      BY ONLY <1>2, <1>3, <1>4, <1>5, <1>6, <2>3
    <2>5. Fresh(u.drv, u.id, u.need, u.has_locka, u.ir, u.cntrl, u.mem, u.per, u.reg, u.wdt, u.spent,
                u.eem, u.strobe_end, u.cpu) \in Target
      <3>1. 0 \in Values16 /\ <<>> \in Seq(Values16)
        BY DEF Values16
      <3> QED BY ONLY <2>2, <2>3, <2>4, <3>1 DEF Target, Fresh
    <2> QED BY ONLY <2>1, <2>5
  <1>8. Sound(u)
    <2>1. u.mab \in RegValues(u)
      BY <1>1 DEF RegValues, RegSize
    <2> QED BY <1>1, <1>4, <1>7, <2>1 DEF Sound
  <1>9. Resting(p, u)
    BY <1>1, <1>8 DEF Resting, Belongs, Shut, Armed
  <1>10. IR_DATA_CAPTURE \in Octets /\ IR_DATA_CAPTURE # IR_DATA_QUICK
    BY DEF IR_DATA_CAPTURE, IR_DATA_QUICK, Octets
  <1> QED BY <1>1, <1>9, <1>10 DEF Ready, Rested, Rested_Xv2, Legacy

\* The number of changes is counted from the call on.
LEMMA CountedReady ==
    ASSUME NEW p, NEW u, Ready(p, u), NEW v, v = [u EXCEPT !.n = 0]
    PROVE  /\ Ready(p, v) /\ v.n = 0 /\ v.mem = u.mem /\ v.reg = u.reg /\ v.running = u.running
           /\ Held(v) = Held(u)
  <1>1. u \in Target /\ Sound(u) /\ Resting(p, u)
    BY DEF Ready, Resting, Sound
  <1>2. /\ v \in Target /\ v.n = 0 /\ v.mem = u.mem /\ v.reg = u.reg /\ v.running = u.running
        /\ v.mab = u.mab /\ v.cpu = u.cpu /\ v.ir = u.ir /\ v.cntrl = u.cntrl /\ v.tclk = u.tclk /\ v.din = u.din
    BY <1>1 DEF Target
  <1>3. Akin(u, v)
    BY <1>1 DEF Target, Akin
  <1>4. Sound(v)
    BY <1>1, <1>2, <1>3, AkinIs DEF Sound
  <1>5. Resting(p, v) /\ (Legacy(v) <=> Legacy(u))
    BY <1>1, <1>3, <1>4, AkinRests, AkinIs
  <1> QED BY <1>2, <1>5 DEF Ready, Held

\* The columns a capture changes.
Caught(u, ir, cntrl, mem, reg) ==
    [u EXCEPT !.running = FALSE, !.ir = ir, !.tclk = 1, !.cpu = Fetch, !.cntrl = cntrl,
              !.mem = mem, !.reg = reg, !.pcok = FALSE]

CaughtTypes(u, ir, cntrl, mem, reg) ==
    u \in Target /\ ir \in Nat /\ cntrl \in Values16 /\ mem \in [MemAddr -> Values16] /\ reg \in [Regs -> Nat]

CaughtTo(u, ir, cntrl, mem, reg, v) ==
    /\ v.ir = ir /\ v.tclk = 1 /\ v.cpu = Fetch /\ v.cntrl = cntrl /\ v.reg = reg
    /\ v.mab = u.mab /\ v.running = FALSE
    /\ v \in Target /\ Akin(Stopped(u), v)

\* The fields of a target that was caught again.
LEMMA CaughtIs ==
    ASSUME NEW u, NEW ir, NEW cntrl, NEW mem, NEW reg, CaughtTypes(u, ir, cntrl, mem, reg), NEW v,
           v = Caught(u, ir, cntrl, mem, reg)
    PROVE  CaughtTo(u, ir, cntrl, mem, reg, v)
  <1> USE DEF CaughtTypes
  <1>1. /\ v.ir = ir /\ v.tclk = 1 /\ v.cpu = Fetch /\ v.cntrl = cntrl /\ v.reg = reg
        /\ v.mab = u.mab /\ v.running = FALSE
    BY DEF Caught, Target
  <1>2. v \in Target
    BY ZenonT(40) DEF Caught, Target, CpuStates
  <1>3. Akin(Stopped(u), v)
    BY DEF Caught, Target, Akin, Stopped
  <1> QED BY <1>1, <1>2, <1>3 DEF CaughtTo

\* The target is stopped again.
LEMMA CaptureReady ==
    ASSUME NEW p, NEW u, Free(p, u), NEW w \in {\h1234, \hFFFF}, NEW r \in {0, \h54321}, NEW v,
           v = StoppedAgain(u, w, r)
    PROVE  Ready(p, v) /\ ~v.running
  <1> DEFINE b == Stopped(u)
             mem == [a \in MemAddr |-> IF a \in RamAddr THEN w ELSE u.mem[a]]
             reg == [i \in Regs |-> IF i \in GpRegs THEN r % RegSize(u) ELSE u.reg[i]]
             cntrl == IF Legacy(u) THEN \h2401 ELSE \h0501
  <1>1. /\ u \in Target /\ Resting(p, b) /\ Sound(b) /\ b \in Target
        /\ DOMAIN u.mem = MemAddr /\ DOMAIN u.reg = Regs
    <2>1. u \in Target /\ Resting(p, b)
      BY DEF Free
    <2>2. Sound(b) /\ b \in Target
      BY <2>1 DEF Resting, Sound
    <2>3. DOMAIN u.mem = MemAddr /\ DOMAIN u.reg = Regs
      BY <2>1 DEF Target
    <2> QED BY <2>1, <2>2, <2>3
  <1>2. /\ b.mem = u.mem /\ b.reg = u.reg /\ b.mab = u.mab /\ b.drv = u.drv
    BY <1>1 DEF Stopped, Target
  <1>3. (Legacy(b) <=> Legacy(u)) /\ RegSize(b) = RegSize(u) /\ RegValues(b) = RegValues(u)
    BY <1>2 DEF Legacy, RegSize, RegValues
  <1>4. mem \in [MemAddr -> Values16]
    <2>1. u.mem \in [MemAddr -> Values16]
      BY ONLY <1>1 DEF Target
    <2>2. w \in Values16
      BY ONLY w \in {\h1234, \hFFFF} DEF Values16
    <2> QED BY <2>1, <2>2
  <1>5. /\ r % RegSize(u) \in RegValues(u) /\ r % RegSize(u) \in Nat
    <2>1. CASE r = 0
      BY <2>1 DEF RegSize, RegValues
    <2>2. CASE r = \h54321
      BY <2>2 DEF RegSize, RegValues
    <2> QED BY <2>1, <2>2
  <1>6. reg \in [Regs -> Nat] /\ \A i \in Regs : reg[i] \in RegValues(u)
    <2>1. u.reg \in [Regs -> Nat] /\ \A i \in Regs : u.reg[i] \in RegValues(u)
      BY <1>1, <1>2, <1>3 DEF Target, Sound
    <2> HIDE DEF b
    <2> QED BY <1>5, <2>1
  <1>7. cntrl \in Values16 /\ IR_DATA_CAPTURE \in Nat
    BY DEF Values16, IR_DATA_CAPTURE
  <1>8. v = Caught(u, IR_DATA_CAPTURE, cntrl, mem, reg)
    BY <1>1 DEF Caught, StoppedAgain
  <1> HIDE DEF mem, reg, cntrl
  <1>9. /\ v.ir = IR_DATA_CAPTURE /\ v.tclk = 1 /\ v.cpu = Fetch /\ v.cntrl = cntrl /\ v.reg = reg
        /\ v.mab = u.mab /\ v.running = FALSE /\ v \in Target /\ Akin(Stopped(u), v)
    <2> DEFINE ir == IR_DATA_CAPTURE
    <2>0. u \in Target
      BY <1>1
    <2>1. v = Caught(u, ir, cntrl, mem, reg) /\ ir \in Nat
      BY <1>7, <1>8
    <2> HIDE DEF ir
    <2>2. CaughtTypes(u, ir, cntrl, mem, reg)
      BY <1>1, <1>4, <1>6, <1>7, <2>1 DEF CaughtTypes
    <2>9. v = Caught(u, ir, cntrl, mem, reg)
      BY <2>1
    <2>3. CaughtTo(u, ir, cntrl, mem, reg, v)
      BY ONLY <2>9, <2>2, CaughtIs
    <2> QED BY <2>3 DEF ir, CaughtTo
  <1>10. v \in Target /\ Akin(b, v)
    BY <1>9
  <1> HIDE DEF b
  <1>12. Sound(v)
    <2>1. RegValues(v) = RegValues(u)
      BY <1>3, <1>10, AkinIs
    <2>2. v.mab \in RegValues(v)
      <3>1. b.mab \in RegValues(b)
        BY <1>1 DEF Sound
      <3> QED BY ONLY <1>2, <1>3, <1>9, <2>1, <3>1
    <2> QED BY ONLY <1>6, <1>9, <1>10, <2>1, <2>2 DEF Sound
  <1>13. Resting(p, v) /\ (Legacy(v) <=> Legacy(u))
    BY <1>1, <1>3, <1>10, <1>12, AkinRests, AkinIs
  <1>14. IR_DATA_CAPTURE \in Octets /\ IR_DATA_CAPTURE # IR_DATA_QUICK
    BY DEF IR_DATA_CAPTURE, IR_DATA_QUICK, Octets
  <1>15. cntrl = (IF Legacy(v) THEN \h2401 ELSE \h0501)
    BY <1>13 DEF cntrl
  <1> QED BY ONLY <1>9, <1>13, <1>14, <1>15 DEF Ready, Rested, Rested_Xv2

-----------------------------------------------------------------------------
(* The invariant.                                                          *)

\* A step of the model takes the next step of the script.
LEMMA PrimitiveMoves ==
    ASSUME Primitive
    PROVE  Moves(<<t, got, todo>>, <<t', got', todo'>>)
  <1> DEFINE e == Head(todo)
             c == <<t, got, todo>>
             o == TargetOut(t, e.p)
             f == Arg(e, got)
  <1>1. /\ todo # <<>> /\ e.p \in Primitives /\ todo' = Tail(todo)
        /\ t' = TargetStep(t, e.p, f) /\ got' = Took(e, got, o)
    BY DEF Primitive
  <1>2. c[1] = t /\ c[2] = got /\ c[3] = todo
    OBVIOUS
  <1> HIDE DEF c
  <1>3. After(c) = <<TargetStep(t, e.p, f), Took(e, got, o), Tail(todo)>>
    BY <1>1, <1>2 DEF After, Primitives
  <1> HIDE DEF e, o, f
  <1>4. After(c) = <<t', got', todo'>>
    BY <1>1, <1>3
  <1>5. Head(c[3]) = e
    BY <1>2 DEF e
  <1>6. Moves(c, <<t', got', todo'>>)
    BY <1>1, <1>2, <1>4, <1>5 DEF Moves
  <1> QED BY <1>6 DEF c

\* What the unfolding of a script does is a step of its run.
LEMMA ControlMoves ==
    ASSUME Control
    PROVE  Moves(<<t, got, todo>>, <<t', got', todo'>>)
  BY DEF Control, Moves, After, Primitives

\* So is a primitive that works on the driver's variables.
LEMMA LocalMoves ==
    ASSUME Local
    PROVE  Moves(<<t, got, todo>>, <<t', got', todo'>>)
  BY DEF Local, Moves, After, Primitives

\* What a step within an operation does to the target.
Fitting(E, u, v) == Fits(E, u, v) /\ Sound(u) /\ Sound(v)

\* The script goes on to its end.
LEMMA ServingStep ==
    ASSUME NEW p, NEW c, NEW u, NEW g, NEW s, Serving(p, c, u, g, s),
           NEW v, NEW h, NEW r, Moves(<<u, g, s>>, <<v, h, r>>)
    PROVE  Serving(p, c, v, h, r) /\ Fitting(Effects(p, c), u, v)
  <1> DEFINE E == Effects(p, c)
             a == <<u, g, s>>
             b == <<v, h, r>>
  <1>1. PICK w, k : Path(E, a, <<w, k, <<>>>>) /\ Kept(p, c, w, k)
    BY DEF Serving
  <1> DEFINE d == <<w, k, <<>>>>
  <1>2. a # d
    BY DEF Moves
  <1>3. Path(E, a, d) /\ Moves(a, b)
    BY <1>1
  <1>4. a[1] = u /\ b[1] = v
    OBVIOUS
  <1> HIDE DEF a, b, d, E
  <1>5. Link(E, a, b) /\ Path(E, b, d)
    BY <1>2, <1>3, PathGoes
  <1>6. Fitting(E, u, v)
    BY <1>4, <1>5 DEF Link, Fitting
  <1> QED BY <1>1, <1>5, <1>6 DEF Serving, E, b, d

\* The last step of a release lets the target go, and changes nothing else.
LEMMA ReleaseStep ==
    ASSUME NEW p, NEW c, NEW u, Gone(p, c, u), NEW v, v = IrScan(u, IR_CNTRL_SIG_RELEASE)
    PROVE  SetFree(p, c, v) /\ Same(u, v)
  <1> DEFINE k == IR_CNTRL_SIG_RELEASE
             w == Stopped(v)
  <1>1. Resting(p, u) /\ u.eemaddr = -1 /\ Sound(u) /\ u \in Target /\ u.running = FALSE
    BY DEF Gone, Resting, Sound, Target
  <1>2. k \in Nat /\ v = [u EXCEPT !.ir = k, !.eemaddr = -1, !.running = TRUE]
    BY DEF IrScan, IR_CNTRL_SIG_RELEASE
  <1> HIDE DEF k
  <1>3. /\ v.running = TRUE /\ v.n = u.n /\ v.mem = u.mem /\ v.reg = u.reg /\ v.pcok = u.pcok
        /\ v.eemctl = u.eemctl
    BY ONLY <1>1, <1>2 DEF Target
  <1>4. v \in Target
    BY ONLY <1>1, <1>2 DEF Target
  <1>5. w = [u EXCEPT !.ir = k, !.eemaddr = -1]
    BY ONLY <1>1, <1>2 DEF Target, Stopped
  <1> HIDE DEF w
  <1>6. w \in Target /\ w.running = FALSE
    BY ONLY <1>1, <1>2, <1>5 DEF Target
  <1>7. Akin(u, w)
    BY ONLY <1>1, <1>5 DEF Target, Akin
  <1>8. w.mab = u.mab /\ w.reg = u.reg /\ w.n = u.n /\ w.pcok = u.pcok /\ w.eemctl = u.eemctl
    BY ONLY <1>1, <1>5 DEF Target
  <1>9. Sound(w)
    BY <1>1, <1>6, <1>7, <1>8, AkinIs DEF Sound
  <1>10. Resting(p, w)
    BY <1>1, <1>7, <1>9, AkinRests
  <1>11. Gone(p, c, w)
    BY <1>8, <1>10 DEF Gone
  <1>12. Free(p, v) /\ v.reg[0] = Resume(p, c)
    BY <1>3, <1>4, <1>10 DEF Free, w, Gone
  <1>13. Same(u, v)
    BY <1>3 DEF Same, Held
  <1> QED BY <1>11, <1>12, <1>13 DEF SetFree, w

\* A release goes on to its last step, or takes it.
LEMMA PartingStep ==
    ASSUME NEW p, NEW c, NEW u, NEW g, NEW s, Parting(p, c, u, g, s),
           NEW v, NEW h, NEW r, Moves(<<u, g, s>>, <<v, h, r>>)
    PROVE  \/ Parting(p, c, v, h, r) /\ Fitting(Effects(p, c), u, v)
           \/ r = <<>> /\ Gone(p, c, u) /\ SetFree(p, c, v) /\ Same(u, v)
  <1> DEFINE E == Effects(p, c)
             a == <<u, g, s>>
             b == <<v, h, r>>
             l == Ir(IR_CNTRL_SIG_RELEASE)
  <1>1. PICK w, k : Path(E, a, <<w, k, l>>) /\ Gone(p, c, w)
    BY DEF Parting
  <1> DEFINE d == <<w, k, l>>
  <1>3. Path(E, a, d) /\ Moves(a, b)
    BY <1>1
  <1>4. a[1] = u /\ b[1] = v
    OBVIOUS
  <1>5. CASE a # d
    <2> HIDE DEF a, b, d, E
    <2>1. Link(E, a, b) /\ Path(E, b, d)
      BY <1>3, <1>5, PathGoes
    <2>2. Fitting(E, u, v)
      BY <1>4, <2>1 DEF Link, Fitting
    <2>3. Path(E, <<v, h, r>>, <<w, k, l>>)
      BY <2>1 DEF b, d
    <2>4. Parting(p, c, v, h, r)
      BY <1>1, <2>3 DEF Parting, E
    <2> QED BY <2>2, <2>4 DEF E
  <1>6. CASE a = d
    <2> DEFINE e == Prim("ir", IR_CNTRL_SIG_RELEASE, "")
    <2>1. u = w /\ s = <<e>>
      BY <1>6 DEF Ir
    <2>2. e.p = "ir" /\ e.from = "" /\ e.to = "" /\ e.n = IR_CNTRL_SIG_RELEASE
      BY DEF Prim
    <2> HIDE DEF e
    <2>3. s # <<>> /\ Head(s) = e /\ Tail(s) = <<>>
      BY <2>1
    <2>4. Arg(e, g) = IR_CNTRL_SIG_RELEASE
      BY <2>2 DEF Arg
    <2>5. <<v, h, r>> = <<TargetStep(u, "ir", IR_CNTRL_SIG_RELEASE), Took(e, g, TargetOut(u, "ir")), <<>>>>
      BY <2>2, <2>3, <2>4 DEF Moves, After, Primitives
    <2>6. v = TargetStep(u, "ir", IR_CNTRL_SIG_RELEASE) /\ r = <<>>
      BY <2>5
    <2>7. v = IrScan(u, IR_CNTRL_SIG_RELEASE)
      BY <2>6 DEF TargetStep
    <2> QED BY <1>1, <2>1, <2>6, <2>7, ReleaseStep
  <1> QED BY <1>5, <1>6

\* A driver that is idle has no call.
LEMMA NoCallIllegal ==
    ASSUME NEW p, LegalCall(p, NoCall)
    PROVE  FALSE
  BY DEF LegalCall, NoCall

\* The locals of an operation that begins.
Begun(g, x) == Knows(g) /\ g["buf"] = <<>> /\ g["pc"] = x

\* The variables of a driver when a call arrives.
LEMMA LocalsBegin ==
    ASSUME NEW x, NEW g,
           g = [v \in Locals |-> CASE v = "buf" -> <<>> [] v = "pc" -> x [] OTHER -> \hFFFF]
    PROVE  Begun(g, x)
  BY LocalsAre DEF Knows, Begun

\* While a call is being served the target is sound and held.
LEMMA UnderHeld ==
    ASSUME NEW p, NEW c, NEW u, NEW g, NEW s, Serving(p, c, u, g, s) \/ Parting(p, c, u, g, s)
    PROVE  Sound(u) /\ u \in Target /\ u.running = FALSE
  <1>1. CASE Serving(p, c, u, g, s)
    <2>1. PICK w, h : Path(Effects(p, c), <<u, g, s>>, <<w, h, <<>>>>) /\ Kept(p, c, w, h)
      BY <1>1 DEF Serving
    <2>2. Sound(w)
      BY <2>1 DEF Kept, Ready, Resting
    <2>3. Sound(u)
      BY <2>1, <2>2, PathSound
    <2> QED BY <2>3 DEF Sound, Target
  <1>2. CASE Parting(p, c, u, g, s)
    <2>1. PICK w, h : /\ Path(Effects(p, c), <<u, g, s>>, <<w, h, Ir(IR_CNTRL_SIG_RELEASE)>>)
                      /\ Gone(p, c, w)
      BY <1>2 DEF Parting
    <2>2. Sound(w)
      BY <2>1 DEF Gone, Resting
    <2>3. Sound(u)
      BY <2>1, <2>2, PathSound
    <2> QED BY <2>3 DEF Sound, Target
  <1> QED BY <1>1, <1>2

\* An operation whose script has been played has kept its promise.
LEMMA ServingEnds ==
    ASSUME NEW p, NEW c, NEW u, NEW g, NEW s, Serving(p, c, u, g, s), s = <<>>
    PROVE  Kept(p, c, u, g)
  <1>1. PICK w, h : Path(Effects(p, c), <<u, g, <<>>>>, <<w, h, <<>>>>) /\ Kept(p, c, w, h)
    BY DEF Serving
  <1>2. <<w, h, <<>>>> = <<u, g, <<>>>>
    BY <1>1, PathEnds
  <1> QED BY <1>1, <1>2

\* A release that is being served has steps left.
LEMMA PartingGoes ==
    ASSUME NEW p, NEW c, NEW u, NEW g, NEW s, Parting(p, c, u, g, s)
    PROVE  s # <<>>
  <1> SUFFICES ASSUME s = <<>> PROVE FALSE
    OBVIOUS
  <1>1. PICK w, h : Path(Effects(p, c), <<u, g, <<>>>>, <<w, h, Ir(IR_CNTRL_SIG_RELEASE)>>)
    BY DEF Parting
  <1>2. <<w, h, Ir(IR_CNTRL_SIG_RELEASE)>> = <<u, g, <<>>>>
    BY <1>1, PathEnds
  <1>3. Ir(IR_CNTRL_SIG_RELEASE) = <<>>
    BY <1>2
  <1> QED BY <1>3 DEF Ir

\* An operation that is called has its whole script before it.
LEMMA CallUnder ==
    ASSUME Inv, NEW c \in Calls(part), Call(c)
    PROVE  /\ Under(part, c, t', got', todo') /\ t'.n = 0 /\ t'.mem = t.mem /\ Held(t') = Held(t)
           /\ t'.running = FALSE /\ c # NoCall
  <1>1. Idle /\ t.running = FALSE /\ part \in Parts /\ Ready(part, t)
    <2>1. Idle /\ ~t.running /\ Settled(part, t) /\ part \in Parts
      BY DEF Inv, Call
    <2>2. Ready(part, t)
      BY <2>1 DEF Settled
    <2>3. t.running = FALSE
      BY <2>2 DEF Ready, Resting, Sound, Target
    <2> QED BY <2>1, <2>2, <2>3
  <1>2. t' = [t EXCEPT !.n = 0] /\ todo' = Steps(part, c)
    BY DEF Call
  <1>3. Ready(part, t') /\ t'.n = 0 /\ t'.mem = t.mem /\ t'.reg = t.reg /\ t'.running = t.running
        /\ Held(t') = Held(t)
    BY ONLY <1>1, <1>2, CountedReady
  <1>4. Knows(got') /\ got'["buf"] = <<>> /\ got'["pc"] = t.reg[0]
    <2> DEFINE x == t.reg[0]
    <2>1. got' = [v \in Locals |-> CASE v = "buf" -> <<>> [] v = "pc" -> x [] OTHER -> \hFFFF]
      BY DEF Call
    <2> HIDE DEF x
    <2>2. Begun(got', x)
      BY ONLY <2>1, LocalsBegin
    <2> QED BY <2>2 DEF Begun, x
  <1>5. LegalCall(part, c)
    BY <1>1, CallsAssumption
  <1>6. Called(part, c, t', got')
    BY <1>1, <1>3, <1>4, <1>5 DEF Called
  <1>7. Under(part, c, t', got', todo')
    BY <1>2, <1>6, ServingNow, PartingNow DEF Under
  <1>8. c # NoCall
    BY <1>5, NoCallIllegal
  <1> QED BY <1>1, <1>3, <1>7, <1>8

\* A step of the script.
Steps_ == Primitive \/ Control \/ Local

\* A step of a script: the call is still being served, and what changed is the
\* next effect it promised.
LEMMA StepUnder ==
    ASSUME NEW p, NEW c, NEW u, NEW g, NEW s, Under(p, c, u, g, s),
           NEW v, NEW h, NEW r, Moves(<<u, g, s>>, <<v, h, r>>)
    PROVE  /\ Under(p, c, v, h, r)
           /\ \/ Fitting(Effects(p, c), u, v)
              \/ c.op = "ReleaseDevice" /\ Gone(p, c, u) /\ SetFree(p, c, v) /\ Same(u, v)
  <1>1. s # <<>>
    BY DEF Moves
  <1>2. CASE c.op = "ReleaseDevice"
    <2>1. Parting(p, c, u, g, s)
      BY <1>1, <1>2 DEF Under
    <2> QED BY <1>2, <2>1, PartingStep DEF Under
  <1>3. CASE c.op # "ReleaseDevice"
    <2>1. Serving(p, c, u, g, s)
      BY <1>3 DEF Under
    <2> QED BY <1>3, <2>1, ServingStep DEF Under
  <1> QED BY <1>2, <1>3

\* What an operation leaves when it returns.
LEMMA ReturnSettles ==
    ASSUME NEW p, NEW c, NEW u, NEW g, NEW s, Under(p, c, u, g, s), s = <<>>
    PROVE  /\ Settled(p, u)
           /\ IF c.op = "ReleaseDevice" THEN SetFree(p, c, u) ELSE Kept(p, c, u, g)
  <1>1. CASE c.op = "ReleaseDevice"
    <2>1. SetFree(p, c, u)
      BY <1>1, PartingGoes DEF Under
    <2> QED BY <1>1, <2>1 DEF SetFree, Free, Settled
  <1>2. CASE c.op # "ReleaseDevice"
    <2>1. Kept(p, c, u, g)
      BY <1>2, ServingEnds DEF Under
    <2>2. Ready(p, u) /\ ~u.running
      BY <2>1 DEF Kept, Ready, Resting, Sound
    <2> QED BY <1>2, <2>1, <2>2 DEF Settled
  <1> QED BY <1>1, <1>2

\* The invariant holds at the start ...
LEMMA InvInit ==
    ASSUME Init
    PROVE  Inv
  <1>1. part \in Parts /\ call = NoCall /\ todo = <<>> /\ calls = 0
    BY DEF Init
  <1>2. PICK end \in {0, 1} : t = InitTarget(part, end)
    BY DEF Init
  <1>3. Ready(part, t) /\ t.running = FALSE
    BY ONLY <1>1, <1>2, InitReady
  <1>4. calls \in 0 .. MaxCalls
    BY <1>1, CallsAssumption
  <1> QED BY <1>1, <1>3, <1>4 DEF Inv, Idle, Settled

\* ... and every step keeps it.
LEMMA InvStep ==
    ASSUME Inv, [Next]_vars
    PROVE  Inv'
  <1>1. ASSUME NEW c \in Calls(part), Call(c) PROVE Inv'
    <2>1. /\ part' = part /\ call' = c /\ calls' = calls + 1 /\ calls < MaxCalls
          /\ part \in Parts /\ calls \in 0 .. MaxCalls
      BY <1>1 DEF Call, Inv
    <2>2. Under(part, c, t', got', todo') /\ c # NoCall
      BY <1>1, CallUnder
    <2>3. calls' \in 0 .. MaxCalls
      BY <2>1, CallsAssumption
    <2>4. Under(part, c, t', got', todo') = Under(part, call, t, got, todo)'
      BY <2>1
    <2> QED BY <1>1, <2>1, <2>2, <2>3, <2>4 DEF Inv, Idle
  <1>2. ASSUME Steps_ PROVE Inv'
    <2>1. Moves(<<t, got, todo>>, <<t', got', todo'>>)
      BY <1>2, PrimitiveMoves, ControlMoves, LocalMoves DEF Steps_
    <2>2. /\ todo # <<>> /\ part' = part /\ call' = call /\ calls' = calls
      BY <1>2 DEF Steps_, Primitive, Control, Local
    <2>3. ~Idle /\ Under(part, call, t, got, todo)
      BY <2>2 DEF Inv
    <2>4. Under(part, call, t', got', todo')
      BY <2>1, <2>3, StepUnder
    <2> QED BY <2>2, <2>3, <2>4 DEF Inv, Idle
  <1>3. ASSUME Return PROVE Inv'
    <2>1. /\ ~Idle /\ todo = <<>> /\ call' = NoCall /\ part' = part /\ t' = t /\ todo' = todo
          /\ calls' = calls /\ Under(part, call, t, got, todo)
      BY <1>3 DEF Return, Inv
    <2>2. Settled(part, t)
      BY <2>1, ReturnSettles
    <2> QED BY <2>1, <2>2 DEF Inv, Idle
  <1>4. ASSUME Capture PROVE Inv'
    <2>1. /\ Idle /\ t.running /\ part' = part /\ call' = call /\ todo' = todo /\ calls' = calls
          /\ todo = <<>> /\ Settled(part, t)
      BY <1>4 DEF Capture, Inv
    <2>2. Free(part, t)
      BY <2>1 DEF Settled
    <2>3. Ready(part, t') /\ ~t'.running
      <3>1. PICK w \in {\h1234, \hFFFF}, r \in {0, \h54321} : t' = StoppedAgain(t, w, r)
        BY ONLY <1>4 DEF Capture
      <3> QED BY <2>2, <3>1, CaptureReady
    <2> QED BY <2>1, <2>3 DEF Inv, Idle, Settled
  <1>5. ASSUME UNCHANGED vars PROVE Inv'
    BY <1>5 DEF Inv, Idle, vars
  <1> QED BY <1>1, <1>2, <1>3, <1>4, <1>5 DEF Next, Steps_, Done

-----------------------------------------------------------------------------
(* The theorems.                                                           *)

(***************************************************************************)
(* Whenever a driver is idle the target is ready for the next operation,   *)
(* or has been let go; while it plays a script, what is left of the script *)
(* leads to the end that TapDev430, TapDev430X or TapDev430Xv2 owes its    *)
(* caller.                                                                 *)
(***************************************************************************)
THEOREM Invariance == Spec => []Inv
  <1> QED BY InvInit, InvStep, PTL DEF Spec

\* What the invariant says of the target at any time.
LEMMA TargetHeld ==
    ASSUME Inv
    PROVE  /\ t \in Target /\ t.mab \in RegValues(t) /\ \A r \in Regs : t.reg[r] \in RegValues(t)
           /\ t.running => Free(part, t) /\ (~Idle => call.op = "ReleaseDevice" /\ SetFree(part, call, t))
           /\ Idle => Settled(part, t) /\ todo = <<>>
  <1>1. ASSUME NEW u, Free(part, u)
        PROVE  u \in Target /\ u.mab \in RegValues(u) /\ \A r \in Regs : u.reg[r] \in RegValues(u)
    <2> DEFINE b == Stopped(u)
    <2>1. u \in Target /\ Resting(part, b)
      BY <1>1 DEF Free
    <2>2. Sound(b)
      BY <2>1 DEF Resting
    <2>3. b.mab = u.mab /\ b.reg = u.reg /\ b.drv = u.drv
      BY ONLY <2>1 DEF Target, Stopped
    <2>4. RegValues(b) = RegValues(u)
      BY <2>3 DEF RegValues, RegSize
    <2> HIDE DEF b
    <2> QED BY <2>1, <2>2, <2>3, <2>4 DEF Sound
  <1>2. ASSUME NEW u, Sound(u)
        PROVE  /\ u \in Target /\ u.mab \in RegValues(u) /\ \A r \in Regs : u.reg[r] \in RegValues(u)
               /\ ~u.running
    BY <1>2 DEF Sound
  <1>3. CASE Idle
    <2>1. Settled(part, t) /\ todo = <<>>
      BY <1>3 DEF Inv
    <2>2. CASE t.running
      <3>1. Free(part, t)
        BY <2>1, <2>2 DEF Settled
      <3> QED BY <1>1, <1>3, <2>1, <3>1
    <2>3. CASE ~t.running
      <3>1. Sound(t)
        BY <2>1, <2>3 DEF Settled, Ready, Resting
      <3> QED BY <1>2, <1>3, <2>1, <2>3, <3>1
    <2> QED BY <2>2, <2>3
  <1>4. CASE ~Idle
    <2>1. Under(part, call, t, got, todo)
      BY <1>4 DEF Inv
    <2>2. CASE Serving(part, call, t, got, todo) \/ Parting(part, call, t, got, todo)
      <3>1. Sound(t)
        BY <2>2, UnderHeld
      <3> QED BY <1>2, <1>4, <3>1
    <2>3. CASE call.op = "ReleaseDevice" /\ SetFree(part, call, t)
      <3>1. Free(part, t)
        BY <2>3 DEF SetFree
      <3> QED BY <1>1, <1>4, <2>3, <3>1
    <2> QED BY <2>1, <2>2, <2>3 DEF Under
  <1> QED BY <1>3, <1>4

(***************************************************************************)
(* Every register of the target and of its JTAG port keeps the width the   *)
(* drivers rely on, and an operation returns only when its script has been *)
(* played to the end (TapPlayer::Play is synchronous).                     *)
(***************************************************************************)
THEOREM TypeCorrect == Spec => []TypeOK
  <1>1. Inv => TypeOK
    <2> SUFFICES ASSUME Inv PROVE TypeOK
      OBVIOUS
    <2>1. /\ t \in Target /\ t.mab \in RegValues(t) /\ \A r \in Regs : t.reg[r] \in RegValues(t)
          /\ Idle => todo = <<>>
      BY TargetHeld
    <2>2. /\ t.cntrl \in Values16 /\ t.mdb \in Values16 /\ t.mem \in [MemAddr -> Values16]
          /\ DOMAIN t.reg = Regs /\ t.busy \in Nat /\ t.n \in Nat
      BY ONLY <2>1 DEF Target
    <2>3. part \in Parts /\ calls \in 0 .. MaxCalls /\ call \in Calls(part) \cup {NoCall}
      BY DEF Inv
    <2>4. t.busy >= 0 /\ t.n >= 0 /\ \A a \in MemAddr : t.mem[a] \in Values16
      BY ONLY <2>2
    <2> QED BY <2>1, <2>2, <2>3, <2>4 DEF TypeOK
  <1> QED BY <1>1, Invariance, PTL

\* The flash of a target between two operations, as the properties name it.
LEMMA RestingShut ==
    ASSUME NEW p, NEW u, Resting(p, u)
    PROVE  u.lock /\ u.locka = p.has_locka /\ ~u.wrt /\ u.erase = {} /\ u.busy = 0 /\ ~u.violated
  BY DEF Resting, Shut, Belongs

(***************************************************************************)
(* Between two operations the flash is locked, INFO A is as protected as   *)
(* it was, no erase is going on and no access was refused: WriteFlash and  *)
(* EraseFlash strobe long enough for every part, and lock on their way     *)
(* out.                                                                    *)
(***************************************************************************)
THEOREM FlashStaysClosed == Spec => []FlashClosed
  <1>1. Inv => FlashClosed
    <2> SUFFICES ASSUME Inv, Idle
                 PROVE  t.lock /\ t.locka = part.has_locka /\ ~t.wrt /\ t.erase = {} /\ t.busy = 0 /\ ~t.violated
      BY DEF FlashClosed
    <2>1. Settled(part, t) /\ t \in Target
      BY TargetHeld
    <2>2. CASE t.running
      <3> DEFINE b == Stopped(t)
      <3>1. Resting(part, b)
        BY <2>1, <2>2 DEF Settled, Free
      <3>2. b.lock = t.lock /\ b.locka = t.locka /\ b.wrt = t.wrt /\ b.erase = t.erase /\ b.busy = t.busy
            /\ b.violated = t.violated
        BY ONLY <2>1 DEF Target, Stopped
      <3> HIDE DEF b
      <3> QED BY <3>1, <3>2, RestingShut
    <2>3. CASE ~t.running
      <3>1. Resting(part, t)
        BY <2>1, <2>3 DEF Settled, Ready
      <3> QED BY <3>1, RestingShut
    <2> QED BY <2>2, <2>3
  <1> QED BY <1>1, Invariance, PTL

(***************************************************************************)
(* A program that ReleaseDevice lets go has its trigger blocks as the      *)
(* breakpoints armed them (the F149 workaround puts back what it           *)
(* disables), its program counter set, an empty mailbox, and the debug     *)
(* unit enabled just when a breakpoint was asked for.                      *)
(***************************************************************************)
THEOREM LetGoAsAsked == Spec => []ReleasedAsAsked
  <1>1. Inv => ReleasedAsAsked
    <2> SUFFICES ASSUME Inv, t.running
                 PROVE  /\ \A b \in {2, 10, 18} : t.eem[b] = 1000 + b
                        /\ t.pcok /\ t.jmb = <<>>
                        /\ ~Idle => t.eemctl = IF call.bkpt THEN 7 ELSE 6
      BY DEF ReleasedAsAsked
    <2>1. Free(part, t) /\ t \in Target /\ (~Idle => SetFree(part, call, t))
      BY TargetHeld
    <2> DEFINE b == Stopped(t)
    <2>2. Resting(part, b) /\ t.pcok /\ (~Idle => Gone(part, call, b))
      BY <2>1 DEF Free, SetFree
    <2>3. b.eem = t.eem /\ b.jmb = t.jmb /\ b.eemctl = t.eemctl
      BY ONLY <2>1 DEF Target, Stopped
    <2> HIDE DEF b
    <2>4. Armed(b) /\ b.jmb = <<>> /\ (~Idle => b.eemctl = EemWord(call.bkpt))
      BY <2>2 DEF Resting, Gone
    <2> QED BY <2>2, <2>3, <2>4 DEF Armed, EemWord
  <1> QED BY <1>1, Invariance, PTL

(***************************************************************************)
(* ReadRegs of TapDev430Xv2 moves the program counter and fills the        *)
(* mailbox for each register: when its script ends both are as the program *)
(* left them, with the 1377 workaround and without.                        *)
(***************************************************************************)
THEOREM ReadQuietly == Spec => []RegistersReadQuietly
  <1>1. Inv => RegistersReadQuietly
    <2> SUFFICES ASSUME Inv, call.op = "GetRegs", ~Legacy(t), todo = <<>>
                 PROVE  t.pcok /\ t.reg[0] = got["pc"] /\ t.jmb = <<>>
      BY DEF RegistersReadQuietly
    <2>1. ~Idle
      BY DEF Idle, NoCall
    <2>2. Under(part, call, t, got, todo)
      BY <2>1 DEF Inv
    <2>3. Kept(part, call, t, got)
      BY <2>2, ReturnSettles
    <2>4. t.drv = part.drv
      BY <2>3 DEF Kept, Ready, Resting, Belongs
    <2>5. ~Legacy(part)
      BY <2>4 DEF Legacy
    <2> QED BY <2>3, <2>5 DEF Kept, Quietly
  <1> QED BY <1>1, Invariance, PTL

-----------------------------------------------------------------------------
(* The promise of ITapDev is kept.                                         *)

\* The effects of a flash write are a sequence.
LEMMA ProgramsSeq ==
    ASSUME NEW a, NEW v, Len(v) \in Nat
    PROVE  IsSeq(Programs(a, v))
  <1> DEFINE n == Len(v)
             C == AChange(a, v, n)
  <1>1. PICK f : Upto(a, v, n, f) /\ Programs(a, v) = f[n]
    BY ProgramsUpto
  <1>2. f \in [0 .. n -> Seq(C)] /\ n \in Nat
    BY <1>1 DEF Upto
  <1> HIDE DEF n, C
  <1>3. f[n] \in Seq(C)
    BY <1>2
  <1> QED BY <1>1, <1>3 DEF IsSeq

\* The changes of an operation are a sequence.
LEMMA EffectsSeq ==
    ASSUME NEW p, NEW c, LegalCall(p, c)
    PROVE  IsSeq(Effects(p, c))
  <1>1. \A x : IsSeq(<<x>>) /\ IsSeq(<<>>)
    <2>1. IsSeq(<<>>)
      <3>1. <<>> \in Seq({})
        OBVIOUS
      <3> QED BY <3>1 DEF IsSeq
    <2> QED BY <2>1, SeqOne
  <1>2. CASE c.op = "WriteFlash"
    <2>1. c.v \in Seq(Values16)
      BY <1>2 DEF LegalCall
    <2>2. Len(c.v) \in Nat
      BY <2>1
    <2>3. Effects(p, c) = Programs(c.a, c.v)
      BY <1>2 DEF Effects
    <2> QED BY <2>2, <2>3, ProgramsSeq
  <1>3. CASE c.op = "WriteWords"
    <2>1. c.v \in Seq(Values16)
      BY <1>3 DEF LegalCall
    <2> DEFINE e == [i \in DOMAIN c.v |-> Write(c.a + 2 * (i - 1), c.v[i])]
               S == {Write(c.a + 2 * (i - 1), c.v[i]) : i \in DOMAIN c.v}
    <2>2. Effects(p, c) = e
      BY <1>3 DEF Effects
    <2>3. DOMAIN c.v = 1 .. Len(c.v) /\ Len(c.v) \in Nat
      BY <2>1
    <2>4. e \in [DOMAIN c.v -> S]
      OBVIOUS
    <2> HIDE DEF e, S
    <2>5. e \in Seq(S)
      BY <2>3, <2>4
    <2> QED BY <2>2, <2>5 DEF IsSeq
  <1>4. CASE c.op \notin {"WriteFlash", "WriteWords"}
    BY <1>1, <1>4 DEF Effects
  <1> QED BY <1>2, <1>3, <1>4

\* The changes still to come after n of them.
LEMMA ToComeAll ==
    ASSUME NEW E, IsSeq(E)
    PROVE  ToCome(E, 0) = E
  <1>1. PICK S : E \in Seq(S)
    BY DEF IsSeq
  <1>2. SubSeq(E, 1, Len(E)) = E
    BY <1>1
  <1> QED BY <1>2 DEF ToCome

\* Behind the last effect none is to come.
LEMMA ToComeNone ==
    ASSUME NEW E, IsSeq(E), NEW n, n = Len(E)
    PROVE  ToCome(E, n) = <<>>
  <1>1. PICK S : E \in Seq(S)
    BY DEF IsSeq
  <1>2. Len(E) \in Nat
    BY <1>1
  <1>3. SubSeq(E, n + 1, Len(E)) = <<>>
    BY <1>1, <1>2
  <1> QED BY <1>3 DEF ToCome

\* The next effect, and those behind it.
LEMMA ToComeNext ==
    ASSUME NEW E, IsSeq(E), NEW n, n \in Nat, NEW m, m = n + 1, m <= Len(E)
    PROVE  ToCome(E, n) # <<>> /\ Head(ToCome(E, n)) = E[m] /\ Tail(ToCome(E, n)) = ToCome(E, m)
  <1>1. PICK S : E \in Seq(S)
    BY DEF IsSeq
  <1> DEFINE k == Len(E)
             d == ToCome(E, n)
             e == ToCome(E, m)
  <1>2. k \in Nat /\ m \in 1 .. k
    BY <1>1
  <1>3. /\ d \in Seq(S) /\ Len(d) = k - n /\ \A i \in 1 .. k - n : d[i] = E[n + i]
    BY <1>1, <1>2, SubSeqProperties DEF ToCome
  <1>4. /\ e \in Seq(S) /\ Len(e) = k - m /\ \A i \in 1 .. k - m : e[i] = E[m + i]
    BY <1>1, <1>2, SubSeqProperties DEF ToCome
  <1> HIDE DEF k, d, e
  <1>5. d # <<>> /\ Head(d) = E[m]
    BY <1>2, <1>3
  <1>6. Tail(d) \in Seq(S) /\ Len(Tail(d)) = Len(e) /\ \A i \in 1 .. Len(e) : Tail(d)[i] = d[i + 1]
    BY <1>2, <1>3, <1>4, <1>5, HeadTailProperties
  <1>7. \A i \in 1 .. Len(e) : Tail(d)[i] = e[i]
    BY <1>2, <1>3, <1>4, <1>6
  <1>8. Tail(d) = e
    BY <1>4, <1>6, <1>7, SeqEqual
  <1> QED BY <1>5, <1>8 DEF d, e

\* A change of the target is a change of the promise.
LEMMA ChangeMade ==
    ASSUME ~Idle, IsSeq(Effects(part, call)), t.n \in Nat, Fits(Effects(part, call), t, t'),
           ~Same(t, t'),
           UNCHANGED <<part, call, answer>>, RunsAt' = RunsAt
    PROVE  Port!Change
  <1> DEFINE E == Effects(part, call)
             m == t'.n
  <1>1. m = t.n + 1 /\ m <= Len(E) /\ Makes(E[m], t, t')
    BY DEF Fits
  <1>2. Left' = ToCome(E, m) /\ Left = ToCome(E, t.n)
    BY DEF Idle, Left
  <1> HIDE DEF E, m
  <1>3. ToCome(E, t.n) # <<>> /\ Head(ToCome(E, t.n)) = E[m] /\ Tail(ToCome(E, t.n)) = ToCome(E, m)
    BY <1>1, ToComeNext DEF E
  <1> DEFINE e == Head(Left)
  <1>4. Left # <<>> /\ Left' = Tail(Left) /\ Makes(e, t, t')
    BY <1>1, <1>2, <1>3
  <1> HIDE DEF e
  <1>5. \/ e.k = "write" /\ Held(t)' = Held(t) /\ t'.mem = [t.mem EXCEPT ![e.at] = e.v]
        \/ e.k = "program" /\ Held(t)' = Held(t) /\ t'.mem = [t.mem EXCEPT ![e.at] = And16(@, e.v)]
        \/ /\ e.k = "erase" /\ Held(t)' = Held(t)
           /\ t'.mem = [a \in DOMAIN t.mem |-> IF a \in e.at THEN \hFFFF ELSE t.mem[a]]
        \/ e.k = "reg" /\ t'.mem = t.mem /\ Held(t)' = [Held(t) EXCEPT ![e.at] = e.v]
    BY ONLY <1>4 DEF Makes
  <1> QED BY ONLY <1>4, <1>5, ~Idle, UNCHANGED <<part, call, answer>>, RunsAt' = RunsAt DEF Port!Change, Idle, e

\* The promise sees nothing of a step that changes neither memory nor registers.
LEMMA SameStutters ==
    ASSUME Same(t, t'), UNCHANGED <<part, call, answer>>, RunsAt' = RunsAt
    PROVE  UNCHANGED Port!vars
  <1>1. Left' = Left
    BY DEF Same, Left, Idle
  <1>2. t'.mem = t.mem /\ Held(t)' = Held(t)
    BY DEF Same
  <1> QED BY <1>1, <1>2 DEF Port!vars

\* A step of a script is a step of TapPort or none.
LEMMA StepPromised ==
    ASSUME Inv, Steps_
    PROVE  [Port!Next]_(Port!vars)
  <1>1. Moves(<<t, got, todo>>, <<t', got', todo'>>)
    BY PrimitiveMoves, ControlMoves, LocalMoves DEF Steps_
  <1>2. todo # <<>> /\ UNCHANGED <<part, call, answer>>
    BY DEF Steps_, Primitive, Control, Local
  <1>3. ~Idle /\ Under(part, call, t, got, todo) /\ part \in Parts /\ call \in Calls(part)
    BY <1>2 DEF Inv, Idle
  <1>4. IsSeq(Effects(part, call))
    BY <1>3, CallsAssumption, EffectsSeq
  <1>5. t.n \in Nat
    <2>1. t \in Target
      BY TargetHeld
    <2> QED BY ONLY <2>1 DEF Target
  <1>6. \/ Fitting(Effects(part, call), t, t')
        \/ call.op = "ReleaseDevice" /\ Gone(part, call, t) /\ SetFree(part, call, t') /\ Same(t, t')
    BY <1>1, <1>3, StepUnder
  <1>7. CASE Fitting(Effects(part, call), t, t')
    <2>1. Fits(Effects(part, call), t, t') /\ ~t.running /\ ~t'.running
      BY <1>7 DEF Fitting, Sound
    <2>2. RunsAt' = RunsAt
      BY <2>1 DEF RunsAt
    <2> QED BY <1>2, <1>3, <1>4, <1>5, <2>1, <2>2, ChangeMade, SameStutters DEF Port!Next
  <1>8. CASE call.op = "ReleaseDevice" /\ Gone(part, call, t) /\ SetFree(part, call, t') /\ Same(t, t')
    <2>1. t.n = Len(Effects(part, call)) /\ ~t.running
      BY <1>8 DEF Gone, Resting, Sound
    <2>2. Left = <<>>
      BY <1>3, <1>4, <2>1, ToComeNone DEF Left
    <2>3. Left' = Left /\ t'.mem = t.mem /\ Held(t)' = Held(t)
      BY <1>2, <1>8 DEF Same, Left, Idle
    <2>4. RunsAt = -1 /\ RunsAt' = Resume(part, call)
      BY <1>8, <2>1 DEF RunsAt, SetFree, Free
    <2>5. Port!Release
      BY <1>2, <1>3, <1>8, <2>2, <2>3, <2>4 DEF Port!Release, Port!NotRunning, Idle
    <2> QED BY <2>5 DEF Port!Next
  <1> QED BY <1>6, <1>7, <1>8

\* So is a call ...
LEMMA CallPromised ==
    ASSUME Inv, NEW c \in Calls(part), Call(c)
    PROVE  [Port!Next]_(Port!vars)
  <1>1. /\ t'.n = 0 /\ t'.mem = t.mem /\ Held(t') = Held(t) /\ ~t'.running /\ c # NoCall
    BY CallUnder
  <1>2. call = NoCall /\ ~t.running /\ call' = c /\ answer' = <<>> /\ part' = part
    BY DEF Call, Idle
  <1>3. IsSeq(Effects(part, c))
    <2>1. part \in Parts
      BY DEF Inv
    <2> QED BY <2>1, CallsAssumption, EffectsSeq
  <1>4. Left' = Effects(part, c)
    <2>1. Left' = ToCome(Effects(part, c), 0)
      BY <1>1, <1>2 DEF Left, Idle
    <2> QED BY <1>3, <2>1, ToComeAll
  <1>5. RunsAt = -1 /\ RunsAt' = -1
    BY <1>1, <1>2 DEF RunsAt
  <1>6. Port!Begin
    BY <1>1, <1>2, <1>4, <1>5 DEF Port!Begin, Port!NotRunning
  <1> QED BY <1>6 DEF Port!Next

\* ... a return ...
LEMMA ReturnPromised ==
    ASSUME Inv, Return
    PROVE  [Port!Next]_(Port!vars)
  <1>1. /\ ~Idle /\ todo = <<>> /\ call' = NoCall /\ part' = part /\ t' = t
        /\ answer' = Result(part, call, got)
        /\ Under(part, call, t, got, todo) /\ part \in Parts /\ call \in Calls(part)
    BY DEF Return, Inv, Idle
  <1>2. IsSeq(Effects(part, call))
    BY <1>1, CallsAssumption, EffectsSeq
  <1>3. IF call.op = "ReleaseDevice" THEN SetFree(part, call, t) ELSE Kept(part, call, t, got)
    BY <1>1, ReturnSettles
  <1>4. t.n = Len(Effects(part, call))
    <2>1. CASE call.op = "ReleaseDevice"
      <3>1. t \in Target /\ Stopped(t).n = Len(Effects(part, call))
        BY <1>3, <2>1, TargetHeld DEF SetFree, Gone
      <3>2. Stopped(t).n = t.n
        BY ONLY <3>1 DEF Target, Stopped
      <3> QED BY <3>1, <3>2
    <2>2. CASE call.op # "ReleaseDevice"
      BY <1>3, <2>2 DEF Kept
    <2> QED BY <2>1, <2>2
  <1>5. Left = <<>> /\ Left' = <<>>
    BY <1>1, <1>2, <1>4, ToComeNone DEF Left, Idle
  <1>6. answer' = Answer(part, call, <<t.mem, Held(t)>>)
    <2>1. CASE call.op = "ReleaseDevice"
      BY <1>1, <2>1 DEF Result, Answer
    <2>2. CASE call.op # "ReleaseDevice"
      BY <1>1, <1>3, <2>2 DEF Kept
    <2> QED BY <2>1, <2>2
  <1>7. call.op = "ReleaseDevice" => RunsAt # -1
    <2> SUFFICES ASSUME call.op = "ReleaseDevice" PROVE RunsAt # -1
      OBVIOUS
    <2>1. t \in Target /\ t.running
      BY <1>3, TargetHeld DEF SetFree, Free
    <2>2. t.reg[0] \in Nat
      <3>1. 0 \in Regs
        BY DEF Regs
      <3>2. t.reg \in [Regs -> Nat]
        BY ONLY <2>1 DEF Target
      <3> QED BY ONLY <3>1, <3>2
    <2> QED BY <2>1, <2>2 DEF RunsAt
  <1>8. t'.mem = t.mem /\ Held(t)' = Held(t) /\ RunsAt' = RunsAt
    BY <1>1 DEF RunsAt
  <1>9. Port!End
    BY ONLY <1>1, <1>5, <1>6, <1>7, <1>8 DEF Port!End, Port!NotRunning, Idle
  <1> QED BY <1>9 DEF Port!Next

\* ... and a target caught again.
LEMMA CapturePromised ==
    ASSUME Inv, Capture
    PROVE  [Port!Next]_(Port!vars)
  <1>1. /\ Idle /\ t.running /\ part' = part /\ call' = call /\ answer' = <<>>
    BY DEF Capture
  <1>2. t \in Target /\ Free(part, t)
    BY <1>1, TargetHeld
  <1>3. ~t'.running
    <2>1. PICK w \in {\h1234, \hFFFF}, r \in {0, \h54321} : t' = StoppedAgain(t, w, r)
      BY ONLY Capture DEF Capture
    <2> QED BY <1>2, <2>1, CaptureReady
  <1>4. Left = <<>> /\ Left' = <<>>
    BY <1>1 DEF Left, Idle
  <1>5. RunsAt # -1 /\ RunsAt' = -1
    <2>1. 0 \in Regs
      BY DEF Regs
    <2>2. t.reg \in [Regs -> Nat]
      BY ONLY <1>2 DEF Target
    <2>3. t.reg[0] \in Nat
      BY ONLY <2>1, <2>2
    <2> QED BY <1>1, <1>3, <2>3 DEF RunsAt
  <1>6. Port!Capture
    BY ONLY <1>1, <1>4, <1>5 DEF Port!Capture, Port!NotRunning, Idle
  <1> QED BY <1>6 DEF Port!Next

(***************************************************************************)
(* The refinement: each primitive of each script of each driver makes the  *)
(* next change of memory or registers that ITapDev promises for its call,  *)
(* or none; what is returned is what the target holds; and the program is  *)
(* let go only at the address asked for, with all changes made.            *)
(***************************************************************************)
THEOREM PromiseKept == Spec => Implements
  <1>1. Init => Port!Init
    BY DEF Init, Port!Init, Port!NotRunning, Left, RunsAt, Idle, InitTarget
  <1>2. Inv /\ [Next]_vars => [Port!Next]_(Port!vars)
    <2> SUFFICES ASSUME Inv, [Next]_vars PROVE [Port!Next]_(Port!vars)
      OBVIOUS
    <2>1. CASE UNCHANGED vars
      BY <2>1 DEF vars, Port!vars, Left, RunsAt, Idle
    <2> QED BY <2>1, CallPromised, StepPromised, ReturnPromised, CapturePromised DEF Next, Steps_, Done
  <1> QED BY <1>1, <1>2, Invariance, PTL DEF Implements, Spec, Port!Spec

=============================================================================
