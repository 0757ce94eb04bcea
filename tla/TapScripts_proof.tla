-------------------------- MODULE TapScripts_proof --------------------------
(***************************************************************************)
(* What the scripts of the drivers are made of does to the target, for     *)
(* every part and every value: the primitives (a scan of an instruction or *)
(* of data, an edge of the clock, strobes, the mailbox), the steps         *)
(* TapPlayer::Play unpacks from its words, its loops, the short scripts    *)
(* the drivers share, and the operations on registers of the older         *)
(* drivers.                                                                *)
(*                                                                         *)
(* The lemmas say what a script does (Does of TapInvariant) whatever is to *)
(* be played behind it, and follow from those about its parts with         *)
(* DoesBoth; a loop is an induction along its places (LoopDoes).           *)
(***************************************************************************)
EXTENDS TapInvariant, SequenceTheorems, Recursion, TLAPS

\* Sequences put one behind the other; the empty one changes nothing.
LEMMA SeqConcat ==
    ASSUME NEW a, NEW b, IsSeq(a), IsSeq(b)
    PROVE  IsSeq(a \o b) /\ <<>> \o a = a /\ a \o <<>> = a
  <1>1. PICK S : a \in Seq(S)
    BY DEF IsSeq
  <1>2. PICK T : b \in Seq(T)
    BY DEF IsSeq
  <1>3. a \in Seq(S \cup T) /\ b \in Seq(S \cup T)
    BY <1>1, <1>2, SeqMonotonic
  <1>4. a \o b \in Seq(S \cup T)
    BY <1>3, ConcatProperties
  <1>5. <<>> \o a = a /\ a \o <<>> = a
    BY <1>1, ConcatEmptySeq
  <1> QED BY <1>4, <1>5 DEF IsSeq

\* It does not matter which two of three sequences are joined first.
LEMMA SeqAssoc ==
    ASSUME NEW a, NEW b, NEW c, IsSeq(a), IsSeq(b), IsSeq(c)
    PROVE  (a \o b) \o c = a \o (b \o c)
  <1>1. PICK S : a \in Seq(S)
    BY DEF IsSeq
  <1>2. PICK T : b \in Seq(T)
    BY DEF IsSeq
  <1>3. PICK U : c \in Seq(U)
    BY DEF IsSeq
  <1> DEFINE V == S \cup T \cup U
  <1>4. a \in Seq(V) /\ b \in Seq(V) /\ c \in Seq(V)
    BY <1>1, <1>2, <1>3, SeqMonotonic
  <1> HIDE DEF V
  <1> QED BY <1>4, ConcatAssociative

\* A sequence that begins with x has x as its head and the rest as its tail.
LEMMA SeqOne ==
    ASSUME NEW x, NEW r, IsSeq(r)
    PROVE  /\ IsSeq(<<x>>) /\ IsSeq(<<>>)
           /\ <<x>> \o r # <<>> /\ Head(<<x>> \o r) = x /\ Tail(<<x>> \o r) = r
  <1>1. PICK S : r \in Seq(S)
    BY DEF IsSeq
  <1>2. <<x>> \in Seq({x}) /\ <<>> \in Seq({x})
    OBVIOUS
  <1> DEFINE T == S \cup {x}
  <1>3. <<x>> \in Seq(T) /\ r \in Seq(T)
    BY <1>1, <1>2, SeqMonotonic
  <1> HIDE DEF T
  <1>4. /\ <<x>> \o r \in Seq(T) /\ Len(<<x>> \o r) = 1 + Len(r) /\ Len(r) \in Nat
        /\ \A i \in 1 .. 1 + Len(r) : (<<x>> \o r)[i] = IF i <= 1 THEN <<x>>[i] ELSE r[i - 1]
    BY <1>3, ConcatProperties, LenProperties
  <1>5. <<x>> \o r # <<>>
    BY <1>4
  <1>6. Head(<<x>> \o r) = x
    BY <1>4
  <1>7. /\ Tail(<<x>> \o r) \in Seq(T) /\ Len(Tail(<<x>> \o r)) = Len(r)
        /\ \A i \in 1 .. Len(r) : Tail(<<x>> \o r)[i] = (<<x>> \o r)[i + 1]
    BY <1>4, <1>5, HeadTailProperties
  <1>8. \A i \in 1 .. Len(r) : Tail(<<x>> \o r)[i] = r[i]
    BY <1>4, <1>7
  <1>9. Tail(<<x>> \o r) = r
    BY <1>3, <1>7, <1>8, SeqEqual
  <1> QED BY <1>2, <1>5, <1>6, <1>9 DEF IsSeq

-----------------------------------------------------------------------------
(* Runs of a script.  A configuration is <<target, locals, what is to play>>. *)

\* A run of no step.
LEMMA PathNone ==
    ASSUME NEW E, NEW c
    PROVE  Path(E, c, c)
  <1> DEFINE f == [i \in 0 .. 0 |-> c]
  <1>1. f[0] = c /\ \A i \in 0 .. 0 - 1 : Link(E, f[i], f[i + 1])
    OBVIOUS
  <1> HIDE DEF f
  <1> QED BY <1>1 DEF Path

\* A run of one step.
LEMMA PathOne ==
    ASSUME NEW E, NEW c, NEW d, Link(E, c, d)
    PROVE  Path(E, c, d)
  <1> DEFINE f == [i \in 0 .. 1 |-> IF i = 0 THEN c ELSE d]
  <1>1. f[0] = c /\ f[1] = d
    OBVIOUS
  <1> HIDE DEF f
  <1>2. \A i \in 0 .. 1 - 1 : Link(E, f[i], f[i + 1])
    BY <1>1
  <1> QED BY <1>1, <1>2 DEF Path

\* A run that goes on where another ended.
LEMMA PathJoin ==
    ASSUME NEW E, NEW c, NEW d, NEW e, Path(E, c, d), Path(E, d, e)
    PROVE  Path(E, c, e)
  <1>a. PICK k \in Nat : \E f : /\ f[0] = c /\ f[k] = d
                               /\ \A i \in 0 .. k - 1 : Link(E, f[i], f[i + 1])
    BY DEF Path
  <1>1. PICK f : f[0] = c /\ f[k] = d /\ \A i \in 0 .. k - 1 : Link(E, f[i], f[i + 1])
    BY <1>a
  <1>b. PICK l \in Nat : \E h : /\ h[0] = d /\ h[l] = e
                               /\ \A i \in 0 .. l - 1 : Link(E, h[i], h[i + 1])
    BY DEF Path
  <1>2. PICK h : h[0] = d /\ h[l] = e /\ \A i \in 0 .. l - 1 : Link(E, h[i], h[i + 1])
    BY <1>b
  <1> DEFINE j == [i \in 0 .. k + l |-> IF i <= k THEN f[i] ELSE h[i - k]]
  <1>3. j[0] = c /\ j[k + l] = e
    BY <1>1, <1>2
  <1>4. ASSUME NEW i \in 0 .. k + l - 1
        PROVE  Link(E, j[i], j[i + 1])
    <2>1. CASE i < k
      <3>1. j[i] = f[i] /\ j[i + 1] = f[i + 1] /\ i \in 0 .. k - 1
        BY <2>1
      <3> HIDE DEF j
      <3> QED BY <1>1, <3>1
    <2>2. CASE i >= k
      <3>1. j[i] = h[i - k] /\ j[i + 1] = h[(i - k) + 1] /\ i - k \in 0 .. l - 1
        BY <2>2, <1>1, <1>2
      <3> HIDE DEF j
      <3> QED BY <1>2, <3>1
    <2> QED BY <2>1, <2>2
  <1>5. k + l \in Nat
    OBVIOUS
  <1> HIDE DEF j
  <1> QED BY <1>3, <1>4, <1>5 DEF Path

\* A path that is not over yet begins with a step.
LEMMA PathStep ==
    ASSUME NEW E, NEW c, NEW d, Path(E, c, d), c # d
    PROVE  \E b : Link(E, c, b) /\ Path(E, b, d)
  <1>a. PICK k \in Nat : \E f : /\ f[0] = c /\ f[k] = d
                               /\ \A i \in 0 .. k - 1 : Link(E, f[i], f[i + 1])
    BY DEF Path
  <1>1. PICK f : f[0] = c /\ f[k] = d /\ \A i \in 0 .. k - 1 : Link(E, f[i], f[i + 1])
    BY <1>a
  <1>2. k # 0
    BY <1>1
  <1>3. k - 1 \in Nat /\ 0 \in 0 .. k - 1
    BY <1>2
  <1> DEFINE h == [i \in 0 .. k - 1 |-> f[i + 1]]
  <1>4. h[0] = f[1] /\ h[k - 1] = d
    BY <1>1, <1>3
  <1>5. ASSUME NEW i \in 0 .. (k - 1) - 1
        PROVE  Link(E, h[i], h[i + 1])
    <2>1. h[i] = f[i + 1] /\ h[i + 1] = f[(i + 1) + 1] /\ i + 1 \in 0 .. k - 1
      BY <1>3
    <2> HIDE DEF h
    <2> QED BY <1>1, <2>1
  <1> HIDE DEF h
  <1>6. Path(E, h[0], d)
    BY <1>3, <1>4, <1>5 DEF Path
  <1>7. Link(E, c, f[0 + 1])
    BY <1>1, <1>3
  <1> QED BY <1>4, <1>6, <1>7

\* A configuration has one next configuration: scripts are deterministic.
LEMMA MovesOne ==
    ASSUME NEW c, NEW d, NEW e, Moves(c, d), Moves(c, e)
    PROVE  d = e
  BY DEF Moves

-----------------------------------------------------------------------------
(* What a script does, whatever is to be played after it.                  *)

\* The empty script does nothing.
LEMMA DoesNothing ==
    ASSUME NEW E, NEW u, NEW g
    PROVE  Does(E, <<>>, u, g, u, g)
  BY SeqConcat, PathNone, SeqOne DEF Does

\* A script behind a script does what both do in turn.
LEMMA DoesBoth ==
    ASSUME NEW E, NEW a, NEW b, IsSeq(a), IsSeq(b),
           NEW t1, NEW g1, NEW t2, NEW g2, NEW t3, NEW g3,
           Does(E, a, t1, g1, t2, g2), Does(E, b, t2, g2, t3, g3)
    PROVE  Does(E, a \o b, t1, g1, t3, g3) /\ IsSeq(a \o b)
  <1>1. ASSUME Sound(t1), NEW r, IsSeq(r)
        PROVE  Path(E, <<t1, g1, (a \o b) \o r>>, <<t3, g3, r>>)
    <2>1. IsSeq(b \o r) /\ (a \o b) \o r = a \o (b \o r)
      BY <1>1, SeqConcat, SeqAssoc
    <2>2. Path(E, <<t1, g1, a \o (b \o r)>>, <<t2, g2, b \o r>>) /\ Sound(t2)
      BY <1>1, <2>1 DEF Does
    <2>3. Path(E, <<t2, g2, b \o r>>, <<t3, g3, r>>)
      BY <1>1, <2>2 DEF Does
    <2> QED BY <2>1, <2>2, <2>3, PathJoin
  <1>2. Sound(t1) => Sound(t3)
    BY SeqOne DEF Does
  <1> QED BY <1>1, <1>2, SeqConcat DEF Does

\* One step that is not a primitive, and what takes its place.
LEMMA DoesInPlace ==
    ASSUME NEW E, NEW e, e.p \in {"play", "loop", "if", "setpc"}, NEW b, IsSeq(b),
           NEW t1, NEW g1, NEW t2, NEW g2, InPlaceOf(e, g1) = b, Does(E, b, t1, g1, t2, g2)
    PROVE  Does(E, <<e>>, t1, g1, t2, g2)
  <1>1. ASSUME Sound(t1), NEW r, IsSeq(r)
        PROVE  Path(E, <<t1, g1, <<e>> \o r>>, <<t2, g2, r>>)
    <2> DEFINE c == <<t1, g1, <<e>> \o r>>
               d == <<t1, g1, b \o r>>
    <2>1. Moves(c, d)
      BY <1>1, SeqOne DEF Moves, After, Primitives
    <2>2. Link(E, c, d)
      BY <2>1, <1>1 DEF Link, Fits, Same
    <2>3. Path(E, d, <<t2, g2, r>>)
      BY <1>1 DEF Does
    <2> QED BY <2>2, <2>3, PathOne, PathJoin
  <1>2. Sound(t1) => Sound(t2)
    BY SeqOne DEF Does
  <1> QED BY <1>1, <1>2 DEF Does

\* A primitive does to the target what Msp430Target says it does.
LEMMA DoesPrim ==
    ASSUME NEW E, NEW e, e.p \in Primitives, NEW t1, NEW g1, NEW t2, NEW g2,
           t2 = TargetStep(t1, e.p, Arg(e, g1)), g2 = Took(e, g1, TargetOut(t1, e.p)),
           Sound(t1) => Sound(t2) /\ Fits(E, t1, t2)
    PROVE  Does(E, <<e>>, t1, g1, t2, g2)
  <1>1. ASSUME Sound(t1), NEW r, IsSeq(r)
        PROVE  Path(E, <<t1, g1, <<e>> \o r>>, <<t2, g2, r>>)
    <2> DEFINE c == <<t1, g1, <<e>> \o r>>
               d == <<t2, g2, r>>
    <2>1. Moves(c, d)
      BY <1>1, SeqOne DEF Moves, After, Primitives
    <2>2. Link(E, c, d)
      BY <2>1, <1>1 DEF Link
    <2> QED BY <2>2, PathOne
  <1> QED BY <1>1 DEF Does

-----------------------------------------------------------------------------
(* A target by the columns of its port, over the rest of it.               *)

\* The fields of a target whose port is given column by column.
LEMMA PFields ==
    ASSUME NEW b, b \in Target, NEW ir, NEW cntrl, NEW tclk, NEW mab, NEW dto, NEW din, NEW mdb,
           NEW cpu,
           NEW u, u = P(b, ir, cntrl, tclk, mab, dto, din, mdb, cpu)
    PROVE  /\ u.ir = ir /\ u.cntrl = cntrl /\ u.tclk = tclk /\ u.mab = mab /\ u.dto = dto
           /\ u.din = din /\ u.mdb = mdb /\ u.cpu = cpu
           /\ u.drv = b.drv /\ u.id = b.id /\ u.need = b.need /\ u.has_locka = b.has_locka
           /\ u.reg = b.reg /\ u.pcok = b.pcok /\ u.mem = b.mem /\ u.per = b.per /\ u.wdt = b.wdt
           /\ u.wrt = b.wrt /\ u.erase = b.erase /\ u.lock = b.lock /\ u.locka = b.locka
           /\ u.busy = b.busy /\ u.doomed = b.doomed /\ u.spent = b.spent /\ u.n = b.n
           /\ u.violated = b.violated /\ u.eem = b.eem /\ u.eemaddr = b.eemaddr
           /\ u.eemctl = b.eemctl /\ u.jmb = b.jmb /\ u.running = b.running
           /\ u.strobe_end = b.strobe_end
  BY DEF P, Target

\* Such a target is sound if its columns are.
LEMMA PSound ==
    ASSUME NEW b, Sound(b), NEW ir, NEW cntrl, NEW tclk, NEW mab, NEW dto, NEW din, NEW mdb, NEW cpu
    PROVE  Sound(P(b, ir, cntrl, tclk, mab, dto, din, mdb, cpu))
              <=> InPort(b, ir, cntrl, tclk, mab, dto, din, mdb, cpu)
  <1> DEFINE u == P(b, ir, cntrl, tclk, mab, dto, din, mdb, cpu)
  <1>1. b \in Target
    BY DEF Sound
  <1>2. RegValues(u) = RegValues(b) /\ Regs = Regs
    BY <1>1, PFields DEF RegValues, RegSize
  <1>3. Sound(u) => InPort(b, ir, cntrl, tclk, mab, dto, din, mdb, cpu)
    <2> HAVE Sound(u)
    <2>1. /\ u.ir \in Nat /\ u.cntrl \in Values16 /\ u.tclk \in {0, 1} /\ u.dto \in Values16
          /\ u.din \in Values16 /\ u.mdb \in Values16 /\ u.cpu \in CpuStates
      BY DEF Sound, Target
    <2>2. u.mab \in RegValues(b)
      BY <1>2 DEF Sound
    <2> HIDE DEF u
    <2> QED BY <2>1, <2>2, <1>1, PFields DEF InPort, u
  <1>4. ASSUME InPort(b, ir, cntrl, tclk, mab, dto, din, mdb, cpu) PROVE Sound(u)
    <2>1. mab \in Nat
      BY <1>4 DEF InPort, RegValues, RegSize
    <2>2. u \in Target
      BY <1>1, <1>4, <2>1 DEF InPort, P, Target
    <2> HIDE DEF u
    <2> QED BY <2>2, <1>1, <1>2, <1>4, PFields DEF Sound, InPort, u
  <1> QED BY <1>3, <1>4

\* A change of the rest of the target is a change of the target.
LEMMA PBase ==
    ASSUME NEW b, NEW c, b \in Target, c \in Target, NEW E,
           NEW ir, NEW cntrl, NEW tclk, NEW mab, NEW dto, NEW din, NEW mdb, NEW cpu,
           NEW ir2, NEW cntrl2, NEW tclk2, NEW mab2, NEW dto2, NEW din2, NEW mdb2, NEW cpu2
    PROVE  Fits(E, P(b, ir, cntrl, tclk, mab, dto, din, mdb, cpu),
                   P(c, ir2, cntrl2, tclk2, mab2, dto2, din2, mdb2, cpu2)) <=> Fits(E, b, c)
  <1> DEFINE u == P(b, ir, cntrl, tclk, mab, dto, din, mdb, cpu)
             v == P(c, ir2, cntrl2, tclk2, mab2, dto2, din2, mdb2, cpu2)
  <1>1. u.reg = b.reg /\ u.mem = b.mem /\ u.n = b.n /\ v.reg = c.reg /\ v.mem = c.mem /\ v.n = c.n
    BY PFields
  <1> HIDE DEF u, v
  <1>2. Held(u) = Held(b) /\ Held(v) = Held(c)
    BY <1>1 DEF Held
  <1>3. ASSUME NEW e PROVE Makes(e, u, v) <=> Makes(e, b, c)
    BY <1>1, <1>2 DEF Makes
  <1>4. Fits(E, u, v) <=> Fits(E, b, c)
    BY <1>1, <1>2, <1>3 DEF Fits, Same
  <1> QED BY <1>4 DEF u, v

-----------------------------------------------------------------------------
(* What a primitive does to the columns.                                   *)

\* A primitive whose answer nobody takes.
LEMMA PrimDoes ==
    ASSUME NEW E, NEW p \in Primitives, NEW n, NEW t1, NEW g, NEW t2,
           t2 = TargetStep(t1, p, n), Sound(t1) => Sound(t2) /\ Fits(E, t1, t2)
    PROVE  Does(E, <<Prim(p, n, "")>>, t1, g, t2, g)
  <1> DEFINE e == Prim(p, n, "")
  <1>1. e.p = p /\ e.n = n /\ e.from = "" /\ e.to = ""
    BY DEF Prim
  <1> HIDE DEF e
  <1>2. Arg(e, g) = n /\ Took(e, g, TargetOut(t1, e.p)) = g
    BY <1>1 DEF Arg, Took
  <1>3. Does(E, <<e>>, t1, g, t2, g)
    BY <1>1, <1>2, DoesPrim
  <1> QED BY <1>3 DEF e

\* A primitive whose answer goes to a local variable.
LEMMA PrimDoesTo ==
    ASSUME NEW E, NEW p \in Primitives, NEW n, NEW v, v \notin {"", "buf"}, NEW t1, NEW g, NEW t2,
           t2 = TargetStep(t1, p, n), Sound(t1) => Sound(t2) /\ Fits(E, t1, t2)
    PROVE  Does(E, <<Prim(p, n, v)>>, t1, g, t2, [g EXCEPT ![v] = TargetOut(t1, p)])
  <1> DEFINE e == Prim(p, n, v)
  <1>1. e.p = p /\ e.n = n /\ e.from = "" /\ e.to = v
    BY DEF Prim
  <1> HIDE DEF e
  <1>2. Arg(e, g) = n /\ Took(e, g, TargetOut(t1, e.p)) = [g EXCEPT ![v] = TargetOut(t1, p)]
    BY <1>1 DEF Arg, Took
  <1>3. Does(E, <<e>>, t1, g, t2, [g EXCEPT ![v] = TargetOut(t1, p)])
    BY <1>1, <1>2, DoesPrim
  <1> QED BY <1>3 DEF e

\* A primitive whose answer goes into the caller's buffer.
LEMMA PrimDoesBuf ==
    ASSUME NEW E, NEW p \in Primitives, NEW n, NEW t1, NEW g, NEW t2,
           t2 = TargetStep(t1, p, n), Sound(t1) => Sound(t2) /\ Fits(E, t1, t2)
    PROVE  Does(E, <<Prim(p, n, "buf")>>, t1, g, t2,
                [g EXCEPT !["buf"] = Append(@, TargetOut(t1, p))])
  <1> DEFINE e == Prim(p, n, "buf")
  <1>1. e.p = p /\ e.n = n /\ e.from = "" /\ e.to = "buf"
    BY DEF Prim
  <1> HIDE DEF e
  <1>2. /\ Arg(e, g) = n
        /\ Took(e, g, TargetOut(t1, e.p)) = [g EXCEPT !["buf"] = Append(@, TargetOut(t1, p))]
    BY <1>1 DEF Arg, Took
  <1>3. Does(E, <<e>>, t1, g, t2, [g EXCEPT !["buf"] = Append(@, TargetOut(t1, p))])
    BY <1>1, <1>2, DoesPrim
  <1> QED BY <1>3 DEF e

\* What is left alone has moved nowhere.
LEMMA MovedNot ==
    ASSUME NEW b, Sound(b), NEW E
    PROVE  Moved(b, b, E)
  BY DEF Moved, Fits, Same

\* Whatever the port does, the target has moved as what is behind the port has.
LEMMA MovedFits ==
    ASSUME NEW E, NEW b, NEW c, Moved(b, c, E),
           NEW ir, NEW cntrl, NEW tclk, NEW mab, NEW dto, NEW din, NEW mdb, NEW cpu,
           NEW ir2, NEW cntrl2, NEW tclk2, NEW mab2, NEW dto2, NEW din2, NEW mdb2, NEW cpu2,
           InPort(b, ir, cntrl, tclk, mab, dto, din, mdb, cpu)
              => InPort(c, ir2, cntrl2, tclk2, mab2, dto2, din2, mdb2, cpu2)
    PROVE  Sound(P(b, ir, cntrl, tclk, mab, dto, din, mdb, cpu))
              => /\ Sound(P(c, ir2, cntrl2, tclk2, mab2, dto2, din2, mdb2, cpu2))
                 /\ Fits(E, P(b, ir, cntrl, tclk, mab, dto, din, mdb, cpu),
                            P(c, ir2, cntrl2, tclk2, mab2, dto2, din2, mdb2, cpu2))
  <1>1. b \in Target /\ c \in Target
    BY DEF Moved, Sound
  <1> QED BY <1>1, PSound, PBase DEF Moved

\* An instruction scan changes the instruction, and nothing else.
LEMMA DoesIr ==
    ASSUME NEW E, NEW g, NEW b, Sound(b), b.eemaddr = -1,
           NEW ir, NEW cntrl, NEW tclk, NEW mab, NEW dto, NEW din, NEW mdb, NEW cpu,
           NEW n \in Nat, n # IR_CNTRL_SIG_RELEASE
    PROVE  Does(E, Ir(n), P(b, ir, cntrl, tclk, mab, dto, din, mdb, cpu), g,
                          P(b, n, cntrl, tclk, mab, dto, din, mdb, cpu), g)
  <1> DEFINE u == P(b, ir, cntrl, tclk, mab, dto, din, mdb, cpu)
             v == P(b, n, cntrl, tclk, mab, dto, din, mdb, cpu)
  <1>1. TargetStep(u, "ir", n) = v
    BY ZenonT(40) DEF TargetStep, IrScan, P, Sound, Target
  <1>2. Sound(u) => Sound(v) /\ Fits(E, u, v)
    BY MovedNot, MovedFits DEF InPort
  <1> QED BY <1>1, <1>2, PrimDoes DEF Ir, Primitives

USE DEF IR_ADDR_16BIT, IR_ADDR_CAPTURE, IR_DATA_TO_ADDR, IR_DATA_16BIT, IR_DATA_CAPTURE,
        IR_DATA_QUICK, IR_CNTRL_SIG_16BIT, IR_CNTRL_SIG_CAPTURE, IR_CNTRL_SIG_RELEASE,
        IR_CNTRL_SIG_HIGH_BYTE, IR_CNTRL_SIG_LOW_BYTE, IR_EMEX_DATA_EXCHANGE,
        IR_EMEX_WRITE_CONTROL, IR_EMEX_DATA_EXCHANGE32, IR_TEST_REG, IR_TEST_3V_REG

\* A step that changes the columns, and the rest of b to c.
LEMMA ColsDo ==
    ASSUME NEW E, NEW b, NEW c, Moved(b, c, E), NEW p \in Primitives, NEW n, NEW g,
           NEW ir, NEW cntrl, NEW tclk, NEW mab, NEW dto, NEW din, NEW mdb, NEW cpu,
           NEW ir2, NEW cntrl2, NEW tclk2, NEW mab2, NEW dto2, NEW din2, NEW mdb2, NEW cpu2,
           InPort(b, ir, cntrl, tclk, mab, dto, din, mdb, cpu)
              => InPort(c, ir2, cntrl2, tclk2, mab2, dto2, din2, mdb2, cpu2),
           TargetStep(P(b, ir, cntrl, tclk, mab, dto, din, mdb, cpu), p, n)
              = P(c, ir2, cntrl2, tclk2, mab2, dto2, din2, mdb2, cpu2)
    PROVE  /\ Does(E, <<Prim(p, n, "")>>, P(b, ir, cntrl, tclk, mab, dto, din, mdb, cpu), g,
                    P(c, ir2, cntrl2, tclk2, mab2, dto2, din2, mdb2, cpu2), g)
           /\ \A v : v \notin {"", "buf"} =>
                 Does(E, <<Prim(p, n, v)>>, P(b, ir, cntrl, tclk, mab, dto, din, mdb, cpu), g,
                      P(c, ir2, cntrl2, tclk2, mab2, dto2, din2, mdb2, cpu2),
                      [g EXCEPT ![v] = TargetOut(P(b, ir, cntrl, tclk, mab, dto, din, mdb, cpu), p)])
           /\ Does(E, <<Prim(p, n, "buf")>>, P(b, ir, cntrl, tclk, mab, dto, din, mdb, cpu), g,
                    P(c, ir2, cntrl2, tclk2, mab2, dto2, din2, mdb2, cpu2),
                    [g EXCEPT !["buf"] = Append(@, TargetOut(P(b, ir, cntrl, tclk, mab, dto, din, mdb, cpu), p))])
  <1> DEFINE u == P(b, ir, cntrl, tclk, mab, dto, din, mdb, cpu)
             w == P(c, ir2, cntrl2, tclk2, mab2, dto2, din2, mdb2, cpu2)
  <1>1. Sound(u) => Sound(w) /\ Fits(E, u, w)
    BY MovedFits
  <1>2. TargetStep(u, p, n) = w
    OBVIOUS
  <1> HIDE DEF u, w
  <1>3. /\ Does(E, <<Prim(p, n, "")>>, u, g, w, g)
        /\ \A v : v \notin {"", "buf"} =>
              Does(E, <<Prim(p, n, v)>>, u, g, w, [g EXCEPT ![v] = TargetOut(u, p)])
        /\ Does(E, <<Prim(p, n, "buf")>>, u, g, w,
                 [g EXCEPT !["buf"] = Append(@, TargetOut(u, p))])
    BY <1>1, <1>2, PrimDoes, PrimDoesTo, PrimDoesBuf
  <1> QED BY <1>3 DEF u, w

\* A data scan, for each instruction.
LEMMA DrStep ==
    ASSUME NEW u, NEW n
    PROVE  /\ u.ir = IR_CNTRL_SIG_16BIT => TargetStep(u, "dr", n) = [u EXCEPT !.cntrl = n]
           /\ u.ir = IR_CNTRL_SIG_HIGH_BYTE => TargetStep(u, "dr", n) = [u EXCEPT !.cntrl = WithHigh(@, n)]
           /\ u.ir = IR_CNTRL_SIG_LOW_BYTE => TargetStep(u, "dr", n) = [u EXCEPT !.cntrl = WithLow(@, n)]
           /\ u.ir = IR_ADDR_16BIT => TargetStep(u, "dr", n) = [u EXCEPT !.mab = n]
           /\ u.ir = IR_DATA_TO_ADDR => TargetStep(u, "dr", n) = Commit([u EXCEPT !.dto = n])
           /\ u.ir = IR_DATA_16BIT => TargetStep(u, "dr", n) = [u EXCEPT !.din = n]
           /\ u.ir = IR_EMEX_WRITE_CONTROL => TargetStep(u, "dr", n) = [u EXCEPT !.eemctl = n]
           /\ u.ir \in {IR_EMEX_DATA_EXCHANGE, IR_EMEX_DATA_EXCHANGE32} => TargetStep(u, "dr", n) = EmexScan(u, n)
           /\ u.ir \in Unseen => TargetStep(u, "dr", n) = u
  <1>1. TargetStep(u, "dr", n) = DrScan(u, n)
    BY DEF TargetStep
  <1>2. ASSUME u.ir = IR_CNTRL_SIG_16BIT PROVE DrScan(u, n) = [u EXCEPT !.cntrl = n]
    <2>1. ~EemSelected(u)
      BY <1>2 DEF EemSelected
    <2> QED BY <1>2, <2>1 DEF DrScan
  <1>3. ASSUME u.ir = IR_CNTRL_SIG_HIGH_BYTE PROVE DrScan(u, n) = [u EXCEPT !.cntrl = WithHigh(@, n)]
    <2>1. ~EemSelected(u)
      BY <1>3 DEF EemSelected
    <2> QED BY <1>3, <2>1 DEF DrScan
  <1>4. ASSUME u.ir = IR_CNTRL_SIG_LOW_BYTE PROVE DrScan(u, n) = [u EXCEPT !.cntrl = WithLow(@, n)]
    <2>1. ~EemSelected(u)
      BY <1>4 DEF EemSelected
    <2> QED BY <1>4, <2>1 DEF DrScan
  <1>5. ASSUME u.ir = IR_ADDR_16BIT PROVE DrScan(u, n) = [u EXCEPT !.mab = n]
    <2>1. ~EemSelected(u)
      BY <1>5 DEF EemSelected
    <2> QED BY <1>5, <2>1 DEF DrScan
  <1>6. ASSUME u.ir = IR_DATA_TO_ADDR PROVE DrScan(u, n) = Commit([u EXCEPT !.dto = n])
    <2>1. ~EemSelected(u)
      BY <1>6 DEF EemSelected
    <2> QED BY <1>6, <2>1 DEF DrScan
  <1>7. ASSUME u.ir = IR_DATA_16BIT PROVE DrScan(u, n) = [u EXCEPT !.din = n]
    <2>1. ~EemSelected(u)
      BY <1>7 DEF EemSelected
    <2> QED BY <1>7, <2>1 DEF DrScan
  <1>8. ASSUME u.ir = IR_EMEX_WRITE_CONTROL PROVE DrScan(u, n) = [u EXCEPT !.eemctl = n]
    <2>1. ~EemSelected(u)
      BY <1>8 DEF EemSelected
    <2> QED BY <1>8, <2>1 DEF DrScan
  <1>9. ASSUME u.ir \in {IR_EMEX_DATA_EXCHANGE, IR_EMEX_DATA_EXCHANGE32} PROVE DrScan(u, n) = EmexScan(u, n)
    <2>1. EemSelected(u)
      BY <1>9 DEF EemSelected
    <2> QED BY <1>9, <2>1 DEF DrScan
  <1>10. ASSUME u.ir \in Unseen PROVE DrScan(u, n) = u
    <2>1. ~EemSelected(u)
      BY <1>10 DEF EemSelected, Unseen
    <2> QED BY <1>10, <2>1 DEF DrScan, Unseen
  <1> QED BY <1>1, <1>2, <1>3, <1>4, <1>5, <1>6, <1>7, <1>8, <1>9, <1>10
HIDE DEF IR_ADDR_16BIT, IR_ADDR_CAPTURE, IR_DATA_TO_ADDR, IR_DATA_16BIT, IR_DATA_CAPTURE,
         IR_DATA_QUICK, IR_CNTRL_SIG_16BIT, IR_CNTRL_SIG_CAPTURE, IR_CNTRL_SIG_RELEASE,
         IR_CNTRL_SIG_HIGH_BYTE, IR_CNTRL_SIG_LOW_BYTE, IR_EMEX_DATA_EXCHANGE,
         IR_EMEX_WRITE_CONTROL, IR_EMEX_DATA_EXCHANGE32, IR_TEST_REG, IR_TEST_3V_REG

\* The control signals are set as a whole ...
LEMMA DrCntrl ==
    ASSUME NEW E, NEW g, NEW b, Sound(b), NEW cntrl, NEW tclk, NEW mab, NEW dto, NEW din, NEW mdb,
           NEW cpu,
           NEW d \in Values16
    PROVE  Does(E, Dr(d), P(b, IR_CNTRL_SIG_16BIT, cntrl, tclk, mab, dto, din, mdb, cpu), g,
                    P(b, IR_CNTRL_SIG_16BIT, d, tclk, mab, dto, din, mdb, cpu), g)
  <1>1. TargetStep(P(b, IR_CNTRL_SIG_16BIT, cntrl, tclk, mab, dto, din, mdb, cpu), "dr", d)
           = P(b, IR_CNTRL_SIG_16BIT, d, tclk, mab, dto, din, mdb, cpu)
    <2> DEFINE u == P(b, IR_CNTRL_SIG_16BIT, cntrl, tclk, mab, dto, din, mdb, cpu)
    <2>1. u.ir = IR_CNTRL_SIG_16BIT /\ u.tclk = tclk /\ u.cntrl = cntrl
      BY PFields DEF Sound
    <2>2. [u EXCEPT !.cntrl = d] = P(b, IR_CNTRL_SIG_16BIT, d, tclk, mab, dto, din, mdb, cpu)
      BY DEF P
    <2> HIDE DEF u
    <2>3. TargetStep(u, "dr", d) = [u EXCEPT !.cntrl = d]
      BY <2>1, DrStep
    <2> QED BY <2>2, <2>3 DEF u
  <1>2. InPort(b, IR_CNTRL_SIG_16BIT, cntrl, tclk, mab, dto, din, mdb, cpu)
           => InPort(b, IR_CNTRL_SIG_16BIT, d, tclk, mab, dto, din, mdb, cpu)
    BY DEF InPort
  <1>3. "dr" \in Primitives /\ Moved(b, b, E)
    BY MovedNot DEF Primitives
  <1>4. Does(E, <<Prim("dr", d, "")>>, P(b, IR_CNTRL_SIG_16BIT, cntrl, tclk, mab, dto, din, mdb, cpu), g,
                P(b, IR_CNTRL_SIG_16BIT, d, tclk, mab, dto, din, mdb, cpu), g)
    BY <1>1, <1>2, <1>3, ColsDo
  <1> QED BY <1>4 DEF Dr

\* ... the high byte ...
LEMMA DrHigh ==
    ASSUME NEW E, NEW g, NEW b, Sound(b), NEW cntrl, NEW tclk, NEW mab, NEW dto, NEW din, NEW mdb,
           NEW cpu,
           NEW d \in Values16
    PROVE  Does(E, Dr(d), P(b, IR_CNTRL_SIG_HIGH_BYTE, cntrl, tclk, mab, dto, din, mdb, cpu), g,
                    P(b, IR_CNTRL_SIG_HIGH_BYTE, WithHigh(cntrl, d), tclk, mab, dto, din, mdb, cpu), g)
  <1>1. TargetStep(P(b, IR_CNTRL_SIG_HIGH_BYTE, cntrl, tclk, mab, dto, din, mdb, cpu), "dr", d)
           = P(b, IR_CNTRL_SIG_HIGH_BYTE, WithHigh(cntrl, d), tclk, mab, dto, din, mdb, cpu)
    <2> DEFINE u == P(b, IR_CNTRL_SIG_HIGH_BYTE, cntrl, tclk, mab, dto, din, mdb, cpu)
    <2>1. u.ir = IR_CNTRL_SIG_HIGH_BYTE /\ u.tclk = tclk /\ u.cntrl = cntrl
      BY PFields DEF Sound
    <2>2. [u EXCEPT !.cntrl = WithHigh(cntrl, d)] = P(b, IR_CNTRL_SIG_HIGH_BYTE, WithHigh(cntrl, d), tclk, mab, dto, din, mdb, cpu)
      BY DEF P
    <2> HIDE DEF u
    <2>3. TargetStep(u, "dr", d) = [u EXCEPT !.cntrl = WithHigh(cntrl, d)]
      BY <2>1, DrStep
    <2> QED BY <2>2, <2>3 DEF u
  <1>2. InPort(b, IR_CNTRL_SIG_HIGH_BYTE, cntrl, tclk, mab, dto, din, mdb, cpu)
           => InPort(b, IR_CNTRL_SIG_HIGH_BYTE, WithHigh(cntrl, d), tclk, mab, dto, din, mdb, cpu)
    BY DEF InPort, WithHigh, Values16
  <1>3. "dr" \in Primitives /\ Moved(b, b, E)
    BY MovedNot DEF Primitives
  <1>4. Does(E, <<Prim("dr", d, "")>>, P(b, IR_CNTRL_SIG_HIGH_BYTE, cntrl, tclk, mab, dto, din, mdb, cpu), g,
                P(b, IR_CNTRL_SIG_HIGH_BYTE, WithHigh(cntrl, d), tclk, mab, dto, din, mdb, cpu), g)
    BY <1>1, <1>2, <1>3, ColsDo
  <1> QED BY <1>4 DEF Dr

\* ... or the low byte.
LEMMA DrLow ==
    ASSUME NEW E, NEW g, NEW b, Sound(b), NEW cntrl, NEW tclk, NEW mab, NEW dto, NEW din, NEW mdb,
           NEW cpu,
           NEW d \in Values16
    PROVE  Does(E, Dr(d), P(b, IR_CNTRL_SIG_LOW_BYTE, cntrl, tclk, mab, dto, din, mdb, cpu), g,
                    P(b, IR_CNTRL_SIG_LOW_BYTE, WithLow(cntrl, d), tclk, mab, dto, din, mdb, cpu), g)
  <1>1. TargetStep(P(b, IR_CNTRL_SIG_LOW_BYTE, cntrl, tclk, mab, dto, din, mdb, cpu), "dr", d)
           = P(b, IR_CNTRL_SIG_LOW_BYTE, WithLow(cntrl, d), tclk, mab, dto, din, mdb, cpu)
    <2> DEFINE u == P(b, IR_CNTRL_SIG_LOW_BYTE, cntrl, tclk, mab, dto, din, mdb, cpu)
    <2>1. u.ir = IR_CNTRL_SIG_LOW_BYTE /\ u.tclk = tclk /\ u.cntrl = cntrl
      BY PFields DEF Sound
    <2>2. [u EXCEPT !.cntrl = WithLow(cntrl, d)] = P(b, IR_CNTRL_SIG_LOW_BYTE, WithLow(cntrl, d), tclk, mab, dto, din, mdb, cpu)
      BY DEF P
    <2> HIDE DEF u
    <2>3. TargetStep(u, "dr", d) = [u EXCEPT !.cntrl = WithLow(cntrl, d)]
      BY <2>1, DrStep
    <2> QED BY <2>2, <2>3 DEF u
  <1>2. InPort(b, IR_CNTRL_SIG_LOW_BYTE, cntrl, tclk, mab, dto, din, mdb, cpu)
           => InPort(b, IR_CNTRL_SIG_LOW_BYTE, WithLow(cntrl, d), tclk, mab, dto, din, mdb, cpu)
    BY DEF InPort, WithLow, Values16
  <1>3. "dr" \in Primitives /\ Moved(b, b, E)
    BY MovedNot DEF Primitives
  <1>4. Does(E, <<Prim("dr", d, "")>>, P(b, IR_CNTRL_SIG_LOW_BYTE, cntrl, tclk, mab, dto, din, mdb, cpu), g,
                P(b, IR_CNTRL_SIG_LOW_BYTE, WithLow(cntrl, d), tclk, mab, dto, din, mdb, cpu), g)
    BY <1>1, <1>2, <1>3, ColsDo
  <1> QED BY <1>4 DEF Dr

\* The address register.
LEMMA DrMab ==
    ASSUME NEW E, NEW g, NEW b, Sound(b), NEW cntrl, NEW tclk, NEW mab, NEW dto, NEW din, NEW mdb,
           NEW cpu,
           NEW d \in RegValues(b)
    PROVE  Does(E, Dr(d), P(b, IR_ADDR_16BIT, cntrl, tclk, mab, dto, din, mdb, cpu), g,
                    P(b, IR_ADDR_16BIT, cntrl, tclk, d, dto, din, mdb, cpu), g)
  <1>1. TargetStep(P(b, IR_ADDR_16BIT, cntrl, tclk, mab, dto, din, mdb, cpu), "dr", d)
           = P(b, IR_ADDR_16BIT, cntrl, tclk, d, dto, din, mdb, cpu)
    <2> DEFINE u == P(b, IR_ADDR_16BIT, cntrl, tclk, mab, dto, din, mdb, cpu)
    <2>1. u.ir = IR_ADDR_16BIT /\ u.tclk = tclk /\ u.cntrl = cntrl
      BY PFields DEF Sound
    <2>2. [u EXCEPT !.mab = d] = P(b, IR_ADDR_16BIT, cntrl, tclk, d, dto, din, mdb, cpu)
      BY DEF P
    <2> HIDE DEF u
    <2>3. TargetStep(u, "dr", d) = [u EXCEPT !.mab = d]
      BY <2>1, DrStep
    <2> QED BY <2>2, <2>3 DEF u
  <1>2. InPort(b, IR_ADDR_16BIT, cntrl, tclk, mab, dto, din, mdb, cpu)
           => InPort(b, IR_ADDR_16BIT, cntrl, tclk, d, dto, din, mdb, cpu)
    BY DEF InPort
  <1>3. "dr" \in Primitives /\ Moved(b, b, E)
    BY MovedNot DEF Primitives
  <1>4. Does(E, <<Prim("dr", d, "")>>, P(b, IR_ADDR_16BIT, cntrl, tclk, mab, dto, din, mdb, cpu), g,
                P(b, IR_ADDR_16BIT, cntrl, tclk, d, dto, din, mdb, cpu), g)
    BY <1>1, <1>2, <1>3, ColsDo
  <1> QED BY <1>4 DEF Dr

\* What the CPU reads.
LEMMA DrDin ==
    ASSUME NEW E, NEW g, NEW b, Sound(b), NEW cntrl, NEW tclk, NEW mab, NEW dto, NEW din, NEW mdb,
           NEW cpu,
           NEW d \in Values16
    PROVE  Does(E, Dr(d), P(b, IR_DATA_16BIT, cntrl, tclk, mab, dto, din, mdb, cpu), g,
                    P(b, IR_DATA_16BIT, cntrl, tclk, mab, dto, d, mdb, cpu), g)
  <1>1. TargetStep(P(b, IR_DATA_16BIT, cntrl, tclk, mab, dto, din, mdb, cpu), "dr", d)
           = P(b, IR_DATA_16BIT, cntrl, tclk, mab, dto, d, mdb, cpu)
    <2> DEFINE u == P(b, IR_DATA_16BIT, cntrl, tclk, mab, dto, din, mdb, cpu)
    <2>1. u.ir = IR_DATA_16BIT /\ u.tclk = tclk /\ u.cntrl = cntrl
      BY PFields DEF Sound
    <2>2. [u EXCEPT !.din = d] = P(b, IR_DATA_16BIT, cntrl, tclk, mab, dto, d, mdb, cpu)
      BY DEF P
    <2> HIDE DEF u
    <2>3. TargetStep(u, "dr", d) = [u EXCEPT !.din = d]
      BY <2>1, DrStep
    <2> QED BY <2>2, <2>3 DEF u
  <1>2. InPort(b, IR_DATA_16BIT, cntrl, tclk, mab, dto, din, mdb, cpu)
           => InPort(b, IR_DATA_16BIT, cntrl, tclk, mab, dto, d, mdb, cpu)
    BY DEF InPort
  <1>3. "dr" \in Primitives /\ Moved(b, b, E)
    BY MovedNot DEF Primitives
  <1>4. Does(E, <<Prim("dr", d, "")>>, P(b, IR_DATA_16BIT, cntrl, tclk, mab, dto, din, mdb, cpu), g,
                P(b, IR_DATA_16BIT, cntrl, tclk, mab, dto, d, mdb, cpu), g)
    BY <1>1, <1>2, <1>3, ColsDo
  <1> QED BY <1>4 DEF Dr

\* Other registers take nothing.
LEMMA DrNothing ==
    ASSUME NEW E, NEW g, NEW b, Sound(b), NEW ir, NEW cntrl, NEW tclk, NEW mab, NEW dto, NEW din,
           NEW mdb, NEW cpu,
           NEW d, ir \in Unseen
    PROVE  Does(E, Dr(d), P(b, ir, cntrl, tclk, mab, dto, din, mdb, cpu), g,
                    P(b, ir, cntrl, tclk, mab, dto, din, mdb, cpu), g)
  <1>1. TargetStep(P(b, ir, cntrl, tclk, mab, dto, din, mdb, cpu), "dr", d)
           = P(b, ir, cntrl, tclk, mab, dto, din, mdb, cpu)
    <2> DEFINE u == P(b, ir, cntrl, tclk, mab, dto, din, mdb, cpu)
    <2>1. u.ir = ir /\ u.tclk = tclk /\ u.cntrl = cntrl
      BY PFields DEF Sound
    <2>2. u = P(b, ir, cntrl, tclk, mab, dto, din, mdb, cpu)
      BY DEF P
    <2> HIDE DEF u
    <2>3. TargetStep(u, "dr", d) = u
      BY <2>1, DrStep
    <2> QED BY <2>2, <2>3 DEF u
  <1>2. InPort(b, ir, cntrl, tclk, mab, dto, din, mdb, cpu)
           => InPort(b, ir, cntrl, tclk, mab, dto, din, mdb, cpu)
    BY DEF InPort
  <1>3. "dr" \in Primitives /\ Moved(b, b, E)
    BY MovedNot DEF Primitives
  <1>4. Does(E, <<Prim("dr", d, "")>>, P(b, ir, cntrl, tclk, mab, dto, din, mdb, cpu), g,
                P(b, ir, cntrl, tclk, mab, dto, din, mdb, cpu), g)
    BY <1>1, <1>2, <1>3, ColsDo
  <1> QED BY <1>4 DEF Dr

\* TCLK goes low, in no quick access: nothing but the clock moves.
LEMMA Falls ==
    ASSUME NEW E, NEW g, NEW b, Sound(b), NEW ir, NEW cntrl, NEW mab, NEW dto, NEW din, NEW mdb,
           NEW cpu,
           ir # IR_DATA_QUICK
    PROVE  Does(E, Clr, P(b, ir, cntrl, 1, mab, dto, din, mdb, cpu), g,
                    P(b, ir, cntrl, 0, mab, dto, din, mdb, cpu), g)
  <1>1. TargetStep(P(b, ir, cntrl, 1, mab, dto, din, mdb, cpu), "clr", 0)
           = P(b, ir, cntrl, 0, mab, dto, din, mdb, cpu)
    <2> DEFINE u == P(b, ir, cntrl, 1, mab, dto, din, mdb, cpu)
    <2>1. u.ir = ir /\ u.tclk = 1 /\ u.cntrl = cntrl
      BY PFields DEF Sound
    <2>2. [u EXCEPT !.tclk = 0] = P(b, ir, cntrl, 0, mab, dto, din, mdb, cpu)
      BY DEF P
    <2> HIDE DEF u
    <2>3. TargetStep(u, "clr", 0) = [u EXCEPT !.tclk = 0]
      BY <2>1 DEF TargetStep, Level, Fall
    <2> QED BY <2>2, <2>3 DEF u
  <1>2. InPort(b, ir, cntrl, 1, mab, dto, din, mdb, cpu)
           => InPort(b, ir, cntrl, 0, mab, dto, din, mdb, cpu)
    BY DEF InPort
  <1>3. "clr" \in Primitives /\ Moved(b, b, E)
    BY MovedNot DEF Primitives
  <1>4. Does(E, <<Prim("clr", 0, "")>>, P(b, ir, cntrl, 1, mab, dto, din, mdb, cpu), g,
                P(b, ir, cntrl, 0, mab, dto, din, mdb, cpu), g)
    BY <1>1, <1>2, <1>3, ColsDo
  <1> QED BY <1>4 DEF Clr

\* A clock that is low stays low ...
LEMMA StaysLow ==
    ASSUME NEW E, NEW g, NEW b, Sound(b), NEW ir, NEW cntrl, NEW mab, NEW dto, NEW din, NEW mdb,
           NEW cpu
    PROVE  Does(E, Clr, P(b, ir, cntrl, 0, mab, dto, din, mdb, cpu), g,
                    P(b, ir, cntrl, 0, mab, dto, din, mdb, cpu), g)
  <1>1. TargetStep(P(b, ir, cntrl, 0, mab, dto, din, mdb, cpu), "clr", 0)
           = P(b, ir, cntrl, 0, mab, dto, din, mdb, cpu)
    <2> DEFINE u == P(b, ir, cntrl, 0, mab, dto, din, mdb, cpu)
    <2>1. u.ir = ir /\ u.tclk = 0 /\ u.cntrl = cntrl
      BY PFields DEF Sound
    <2>2. u = P(b, ir, cntrl, 0, mab, dto, din, mdb, cpu)
      BY DEF P
    <2> HIDE DEF u
    <2>3. TargetStep(u, "clr", 0) = u
      BY <2>1 DEF TargetStep, Level
    <2> QED BY <2>2, <2>3 DEF u
  <1>2. InPort(b, ir, cntrl, 0, mab, dto, din, mdb, cpu)
           => InPort(b, ir, cntrl, 0, mab, dto, din, mdb, cpu)
    BY DEF InPort
  <1>3. "clr" \in Primitives /\ Moved(b, b, E)
    BY MovedNot DEF Primitives
  <1>4. Does(E, <<Prim("clr", 0, "")>>, P(b, ir, cntrl, 0, mab, dto, din, mdb, cpu), g,
                P(b, ir, cntrl, 0, mab, dto, din, mdb, cpu), g)
    BY <1>1, <1>2, <1>3, ColsDo
  <1> QED BY <1>4 DEF Clr

\* ... and one that is high stays high.
LEMMA StaysHigh ==
    ASSUME NEW E, NEW g, NEW b, Sound(b), NEW ir, NEW cntrl, NEW mab, NEW dto, NEW din, NEW mdb,
           NEW cpu
    PROVE  Does(E, Set, P(b, ir, cntrl, 1, mab, dto, din, mdb, cpu), g,
                    P(b, ir, cntrl, 1, mab, dto, din, mdb, cpu), g)
  <1>1. TargetStep(P(b, ir, cntrl, 1, mab, dto, din, mdb, cpu), "set", 0)
           = P(b, ir, cntrl, 1, mab, dto, din, mdb, cpu)
    <2> DEFINE u == P(b, ir, cntrl, 1, mab, dto, din, mdb, cpu)
    <2>1. u.ir = ir /\ u.tclk = 1 /\ u.cntrl = cntrl
      BY PFields DEF Sound
    <2>2. u = P(b, ir, cntrl, 1, mab, dto, din, mdb, cpu)
      BY DEF P
    <2> HIDE DEF u
    <2>3. TargetStep(u, "set", 0) = u
      BY <2>1 DEF TargetStep, Level
    <2> QED BY <2>2, <2>3 DEF u
  <1>2. InPort(b, ir, cntrl, 1, mab, dto, din, mdb, cpu)
           => InPort(b, ir, cntrl, 1, mab, dto, din, mdb, cpu)
    BY DEF InPort
  <1>3. "set" \in Primitives /\ Moved(b, b, E)
    BY MovedNot DEF Primitives
  <1>4. Does(E, <<Prim("set", 0, "")>>, P(b, ir, cntrl, 1, mab, dto, din, mdb, cpu), g,
                P(b, ir, cntrl, 1, mab, dto, din, mdb, cpu), g)
    BY <1>1, <1>2, <1>3, ColsDo
  <1> QED BY <1>4 DEF Set

-----------------------------------------------------------------------------
(* The edges of TCLK.  What an edge does depends on the control signals c.  *)

\* What the control signals make of the CPU and the bus does not depend on the
\* other columns.
LEMMA PModes ==
    ASSUME NEW b, b \in Target, NEW ir, NEW cntrl, NEW tclk, NEW mab, NEW dto, NEW din, NEW mdb,
           NEW cpu,
           NEW u, u = P(b, ir, cntrl, tclk, mab, dto, din, mdb, cpu)
    PROVE  /\ CpuMode(u) <=> Executes(cntrl)
           /\ JtagHasBus(u) <=> HasBus(b, cntrl)
           /\ Reading(u) <=> Bit(cntrl, 1) = 1
           /\ ByteMode(u) <=> Bit(cntrl, \h10) = 1
           /\ Legacy(u) <=> Legacy(b)
           /\ \A a, byte : BusRead(u, a, byte) = BusRead(b, a, byte)
           /\ \A w : Decode(u, w) = Decode(b, w)
           /\ \A r : Shown(u, r) = Shown(b, r)
           /\ \A n : PcPlus(u, n) = PcPlus(b, n)
           /\ JmbAddr(u) = JmbAddr(b) /\ WdtAddr(u) = WdtAddr(b)
           /\ \A a : Word(u, a) = Word(b, a)
  <1>1. /\ u.cntrl = cntrl /\ u.drv = b.drv /\ u.id = b.id /\ u.reg = b.reg /\ u.mem = b.mem
        /\ u.per = b.per
    BY PFields
  <1>2. Legacy(u) <=> Legacy(b)
    BY <1>1 DEF Legacy
  <1>3. CpuMode(u) <=> Executes(cntrl)
    BY <1>1 DEF CpuMode, Executes
  <1>4. JtagHasBus(u) <=> HasBus(b, cntrl)
    BY <1>1, <1>2, <1>3 DEF JtagHasBus, HasBus, HaltJtag, Executes
  <1>5. (Reading(u) <=> Bit(cntrl, 1) = 1) /\ (ByteMode(u) <=> Bit(cntrl, \h10) = 1)
    BY <1>1 DEF Reading, ByteMode
  <1>6. ASSUME NEW a PROVE Word(u, a) = Word(b, a)
    BY <1>1 DEF Word
  <1>7. ASSUME NEW a, NEW byte PROVE BusRead(u, a, byte) = BusRead(b, a, byte)
    <2> DEFINE e == a - (a % 2)
    <2>1. Word(u, e) = Word(b, e)
      BY <1>6
    <2>2. u.per = b.per
      BY <1>1
    <2>3. BusRead(u, a, byte) = IF a \in Per8Addr THEN u.per[a] ELSE
              CASE ~byte             -> Word(u, e)
                [] byte /\ a % 2 = 0 -> Word(u, e) % 256
                [] byte /\ a % 2 = 1 -> Word(u, e) \div 256
      BY DEF BusRead
    <2>4. BusRead(b, a, byte) = IF a \in Per8Addr THEN b.per[a] ELSE
              CASE ~byte             -> Word(b, e)
                [] byte /\ a % 2 = 0 -> Word(b, e) % 256
                [] byte /\ a % 2 = 1 -> Word(b, e) \div 256
      BY DEF BusRead
    <2> HIDE DEF e
    <2> QED BY <2>1, <2>2, <2>3, <2>4
  <1>8. ASSUME NEW w PROVE Decode(u, w) = Decode(b, w)
    BY <1>1 DEF Decode
  <1>9. RegSize(u) = RegSize(b) /\ \A n : PcPlus(u, n) = PcPlus(b, n)
    BY <1>1 DEF RegSize, PcPlus
  <1>10. ASSUME NEW r PROVE Shown(u, r) = Shown(b, r)
    BY <1>1, <1>9 DEF Shown
  <1>11. JmbAddr(u) = JmbAddr(b) /\ WdtAddr(u) = WdtAddr(b)
    BY <1>1 DEF JmbAddr, WdtAddr, Legacy
  <1> QED BY <1>2, <1>3, <1>4, <1>5, <1>6, <1>7, <1>8, <1>9, <1>10, <1>11

\* A rising edge while the flash controller rests.
LEMMA RiseIs ==
    ASSUME NEW u, u.tclk = 0, u.busy = 0, NEW w, w = [u EXCEPT !.tclk = 1]
    PROVE  /\ u.cpu.k = "store" => TargetStep(u, "set", 0) = StoreClock(w)
           /\ u.cpu.k # "store" /\ CpuMode(u) => TargetStep(u, "set", 0) = CpuClock(w)
           /\ u.cpu.k # "store" /\ ~CpuMode(u) /\ JtagHasBus(u) /\ Reading(u) /\ u.ir # IR_DATA_QUICK
                 => TargetStep(u, "set", 0)
                       = [w EXCEPT !.cpu = Fetch, !.mdb = BusRead(u, u.mab, ByteMode(u))]
           /\ u.cpu.k # "store" /\ ~CpuMode(u) /\ ~(JtagHasBus(u) /\ Reading(u) /\ u.ir # IR_DATA_QUICK)
                 => TargetStep(u, "set", 0) = Commit([w EXCEPT !.cpu = Fetch])
  <1>1. TargetStep(u, "set", 0) = Rise(u)
    BY DEF TargetStep, Level
  <1>2. w.busy = 0
    OBVIOUS
  <1>3. FlashClock(w, 1) = w
    BY <1>2 DEF FlashClock
  <1> QED BY <1>1, <1>3 DEF Rise

\* A rising edge in a read cycle puts the word at the address on the bus.
LEMMA RisesReading ==
    ASSUME NEW E, NEW g, NEW b, Sound(b), b.busy = 0, NEW ir, NEW cntrl, NEW mab, NEW dto, NEW din,
           NEW mdb,
           Reads(b, cntrl), ir # IR_DATA_QUICK,
           NEW d, d = BusRead(b, mab, Bit(cntrl, \h10) = 1), mab \in RegValues(b) => d \in Values16
    PROVE  Does(E, Set, P(b, ir, cntrl, 0, mab, dto, din, mdb, Fetch), g, P(b, ir, cntrl, 1, mab, dto, din, d, Fetch), g)
  <1> DEFINE u == P(b, ir, cntrl, 0, mab, dto, din, mdb, Fetch)
             w == [u EXCEPT !.tclk = 1]
  <1>1. TargetStep(u, "set", 0) = P(b, ir, cntrl, 1, mab, dto, din, d, Fetch)
    <2>1. u.ir = ir /\ u.tclk = 0 /\ u.mab = mab /\ u.busy = 0 /\ u.cpu = Fetch /\ Fetch.k # "store"
      BY PFields DEF Sound, Fetch
    <2>2. ~CpuMode(u) /\ JtagHasBus(u) /\ Reading(u)
      BY PModes DEF Sound, Reads, HasBus, Executes
    <2>6. BusRead(u, mab, ByteMode(u)) = d
      <3>1. BusRead(u, mab, Bit(cntrl, \h10) = 1) = d
        BY PModes DEF Sound
      <3>2. u.cntrl = cntrl
        BY PFields DEF Sound
      <3> HIDE DEF u
      <3> QED BY <3>1, <3>2 DEF ByteMode
    <2>3. [w EXCEPT !.cpu = Fetch, !.mdb = d] = P(b, ir, cntrl, 1, mab, dto, din, d, Fetch)
      BY DEF P
    <2> HIDE DEF u
    <2>4. TargetStep(u, "set", 0) = [w EXCEPT !.cpu = Fetch, !.mdb = d]
      BY <2>1, <2>2, <2>6, RiseIs
    <2> QED BY <2>3, <2>4
  <1>2. InPort(b, ir, cntrl, 0, mab, dto, din, mdb, Fetch) => InPort(b, ir, cntrl, 1, mab, dto, din, d, Fetch)
    BY DEF InPort
  <1>3. "set" \in Primitives /\ Moved(b, b, E)
    BY MovedNot DEF Primitives
  <1> HIDE DEF w
  <1>4. Does(E, <<Prim("set", 0, "")>>, P(b, ir, cntrl, 0, mab, dto, din, mdb, Fetch), g, P(b, ir, cntrl, 1, mab, dto, din, d, Fetch), g)
    BY <1>1, <1>2, <1>3, ColsDo
  <1> QED BY <1>4 DEF Set

\* The bus is not used.
LEMMA RisesIdle ==
    ASSUME NEW E, NEW g, NEW b, Sound(b), b.busy = 0, NEW ir, NEW cntrl, NEW mab, NEW dto, NEW din,
           NEW mdb,
           \/ Rests(b, cntrl)
           \/ Reads(b, cntrl) /\ ir = IR_DATA_QUICK
           \/ Writes(b, cntrl) /\ ir # IR_DATA_TO_ADDR
    PROVE  Does(E, Set, P(b, ir, cntrl, 0, mab, dto, din, mdb, Fetch), g, P(b, ir, cntrl, 1, mab, dto, din, mdb, Fetch), g)
  <1> DEFINE u == P(b, ir, cntrl, 0, mab, dto, din, mdb, Fetch)
             w == [u EXCEPT !.tclk = 1]
  <1>1. TargetStep(u, "set", 0) = P(b, ir, cntrl, 1, mab, dto, din, mdb, Fetch)
    <2>1. u.ir = ir /\ u.tclk = 0 /\ u.busy = 0 /\ u.cpu = Fetch /\ Fetch.k # "store" /\ u.cntrl = cntrl
      BY PFields DEF Sound, Fetch
    <2>2. ~CpuMode(u) /\ ~(JtagHasBus(u) /\ Reading(u) /\ u.ir # IR_DATA_QUICK)
      BY <2>1, PModes DEF Sound, Reads, Writes, Rests, HasBus, Executes
    <2>3. [w EXCEPT !.cpu = Fetch] = P(b, ir, cntrl, 1, mab, dto, din, mdb, Fetch)
      BY DEF P
    <2>4. Commit(P(b, ir, cntrl, 1, mab, dto, din, mdb, Fetch)) = P(b, ir, cntrl, 1, mab, dto, din, mdb, Fetch)
      <3> DEFINE x == P(b, ir, cntrl, 1, mab, dto, din, mdb, Fetch)
      <3>1. x.ir = ir
        BY PFields DEF Sound
      <3>2. ~(JtagHasBus(x) /\ ~Reading(x) /\ x.ir = IR_DATA_TO_ADDR)
        <4>1. (JtagHasBus(x) <=> HasBus(b, cntrl)) /\ (Reading(x) <=> Bit(cntrl, 1) = 1)
          BY PModes DEF Sound
        <4> QED BY <3>1, <4>1 DEF Rests, Reads, Writes, HasBus, IR_DATA_TO_ADDR, IR_DATA_QUICK
      <3> HIDE DEF x
      <3>3. Commit(x) = x
        BY <3>2 DEF Commit
      <3> QED BY <3>3 DEF x
    <2> HIDE DEF u
    <2>5. TargetStep(u, "set", 0) = Commit([w EXCEPT !.cpu = Fetch])
      BY <2>1, <2>2, RiseIs
    <2> HIDE DEF w
    <2> QED BY <2>3, <2>4, <2>5 DEF u
  <1>2. InPort(b, ir, cntrl, 0, mab, dto, din, mdb, Fetch) => InPort(b, ir, cntrl, 1, mab, dto, din, mdb, Fetch)
    BY DEF InPort
  <1>3. "set" \in Primitives /\ Moved(b, b, E)
    BY MovedNot DEF Primitives
  <1> HIDE DEF w
  <1>4. Does(E, <<Prim("set", 0, "")>>, P(b, ir, cntrl, 0, mab, dto, din, mdb, Fetch), g, P(b, ir, cntrl, 1, mab, dto, din, mdb, Fetch), g)
    BY <1>1, <1>2, <1>3, ColsDo
  <1> QED BY <1>4 DEF Set

-----------------------------------------------------------------------------
(* What is behind the bus does not look at the port.                       *)

\* A write to the flash controller does not look at the port.
LEMMA PWriteFctl ==
    ASSUME NEW b, b \in Target, NEW ir, NEW cntrl, NEW tclk, NEW mab, NEW dto, NEW din, NEW mdb,
           NEW cpu, NEW a, NEW v, a \in FctlAddr
    PROVE  WriteFctl(P(b, ir, cntrl, tclk, mab, dto, din, mdb, cpu), a, v) = P(WriteFctl(b, a, v), ir, cntrl, tclk, mab, dto, din, mdb, cpu)
  <1> DEFINE u == P(b, ir, cntrl, tclk, mab, dto, din, mdb, cpu)
  <1>1. /\ u.lock = b.lock /\ u.locka = b.locka /\ u.has_locka = b.has_locka /\ u.spent = b.spent
        /\ u.wrt = b.wrt /\ u.erase = b.erase
    BY PFields
  <1>2. CASE v \div 256 # \hA5
    <2>1. [u EXCEPT !.violated = TRUE] = P([b EXCEPT !.violated = TRUE], ir, cntrl, tclk, mab, dto, din, mdb, cpu)
      BY DEF P
    <2> HIDE DEF u
    <2>2. WriteFctl(u, a, v) = [u EXCEPT !.violated = TRUE] /\ WriteFctl(b, a, v) = [b EXCEPT !.violated = TRUE]
      BY <1>2 DEF WriteFctl, Violate
    <2> QED BY <2>1, <2>2 DEF u
  <1>3. CASE v \div 256 = \hA5 /\ a = \h128
    <2> DEFINE x == Bit(v, \h40) = 1
               y == {k \in {2, 4, 8} : Bit(v, k) = 1}
    <2>1. [u EXCEPT !.wrt = x, !.erase = y] = P([b EXCEPT !.wrt = x, !.erase = y], ir, cntrl, tclk, mab, dto, din, mdb, cpu)
      BY DEF P
    <2> HIDE DEF u
    <2>2. WriteFctl(u, a, v) = [u EXCEPT !.wrt = x, !.erase = y]
          /\ WriteFctl(b, a, v) = [b EXCEPT !.wrt = x, !.erase = y]
      BY <1>3 DEF WriteFctl
    <2> QED BY <2>1, <2>2 DEF u
  <1>4. CASE v \div 256 = \hA5 /\ a = \h12A
    <2> HIDE DEF u
    <2>1. WriteFctl(u, a, v) = u /\ WriteFctl(b, a, v) = b
      BY <1>4 DEF WriteFctl
    <2> QED BY <2>1 DEF u
  <1>5. CASE v \div 256 = \hA5 /\ a = \h12C
    <2> DEFINE l == Bit(v, \h10) = 1
               la == IF Bit(v, \h40) = 1 /\ b.has_locka THEN ~b.locka ELSE b.locka
               s == IF Bit(v, \h10) = 1 THEN [x \in DOMAIN b.spent |-> 0] ELSE b.spent
    <2>1. [u EXCEPT !.lock = l, !.locka = la, !.spent = s]
            = P([b EXCEPT !.lock = l, !.locka = la, !.spent = s], ir, cntrl, tclk, mab, dto, din, mdb, cpu)
      BY DEF P
    <2>2. WriteFctl(b, a, v) = [b EXCEPT !.lock = l, !.locka = la, !.spent = s]
      BY <1>5 DEF WriteFctl, Target
    <2>3. WriteFctl(u, a, v) = [u EXCEPT !.lock = l, !.locka = la, !.spent = s]
      <3> HIDE DEF u
      <3> QED BY <1>1, <1>5 DEF WriteFctl
    <2> HIDE DEF l, la, s, u
    <2> QED BY <2>1, <2>2, <2>3 DEF u
  <1> QED BY <1>2, <1>3, <1>4, <1>5 DEF FctlAddr

\* Nor does a write to a word of flash.
LEMMA PWriteFlashCell ==
    ASSUME NEW b, b \in Target, NEW ir, NEW cntrl, NEW tclk, NEW mab, NEW dto, NEW din, NEW mdb,
           NEW cpu, NEW a, NEW v
    PROVE  WriteFlashCell(P(b, ir, cntrl, tclk, mab, dto, din, mdb, cpu), a, v) = P(WriteFlashCell(b, a, v), ir, cntrl, tclk, mab, dto, din, mdb, cpu)
  <1> DEFINE u == P(b, ir, cntrl, tclk, mab, dto, din, mdb, cpu)
             refused == b.lock \/ b.busy > 0 \/ (~b.wrt /\ b.erase = {})
  <1>1. /\ u.lock = b.lock /\ u.locka = b.locka /\ u.busy = b.busy /\ u.wrt = b.wrt /\ u.need = b.need
        /\ u.erase = b.erase /\ u.mem = b.mem /\ u.n = b.n
    BY PFields
  <1>0. b.busy \in Nat
    BY DEF Target
  <1>2. CASE refused
    <2>1. [u EXCEPT !.violated = TRUE] = P([b EXCEPT !.violated = TRUE], ir, cntrl, tclk, mab, dto, din, mdb, cpu)
      BY DEF P
    <2>4. b.lock \/ (b.busy # 0 /\ b.busy > 0) \/ (~b.wrt /\ b.erase = {})
      BY <1>0, <1>2
    <2> HIDE DEF u, refused
    <2>2. WriteFlashCell(u, a, v) = [u EXCEPT !.violated = TRUE]
      BY <1>1, <2>4 DEF WriteFlashCell, Violate
    <2>3. WriteFlashCell(b, a, v) = [b EXCEPT !.violated = TRUE]
      BY <2>4 DEF WriteFlashCell, Violate
    <2> QED BY <2>1, <2>2, <2>3 DEF u
  <1>3. CASE ~refused /\ b.erase # {}
    <2> DEFINE x == IF b.erase = {2} THEN b.need.seg ELSE b.need.mass
               y == Doomed(b.erase, a) \ (IF b.locka THEN InfoAAddr ELSE {})
    <2>1. [u EXCEPT !.busy = x, !.doomed = y] = P([b EXCEPT !.busy = x, !.doomed = y], ir, cntrl, tclk, mab, dto, din, mdb, cpu)
      BY DEF P
    <2>4. ~b.lock /\ b.busy = 0 /\ b.erase # {}
      BY <1>0, <1>3
    <2> HIDE DEF u, refused
    <2>2. WriteFlashCell(u, a, v) = [u EXCEPT !.busy = x, !.doomed = y]
      BY <1>1, <2>4 DEF WriteFlashCell
    <2>3. WriteFlashCell(b, a, v) = [b EXCEPT !.busy = x, !.doomed = y]
      BY <1>1, <2>4 DEF WriteFlashCell
    <2> QED BY <2>1, <2>2, <2>3 DEF u
  <1>4. CASE ~refused /\ b.erase = {} /\ a \in InfoAAddr /\ b.locka
    <2>4. ~b.lock /\ b.busy = 0 /\ b.wrt
      BY <1>0, <1>4
    <2> HIDE DEF u, refused
    <2>1. WriteFlashCell(u, a, v) = u
      BY <1>1, <1>4, <2>4 DEF WriteFlashCell
    <2>2. WriteFlashCell(b, a, v) = b
      BY <1>1, <1>4, <2>4 DEF WriteFlashCell
    <2> QED BY <2>1, <2>2 DEF u
  <1>5. CASE ~refused /\ b.erase = {} /\ ~(a \in InfoAAddr /\ b.locka)
    <2>1. [u EXCEPT !.mem[a] = And16(@, v), !.busy = b.need.word, !.n = @ + 1]
             = P([b EXCEPT !.mem[a] = And16(@, v), !.busy = b.need.word, !.n = @ + 1], ir, cntrl, tclk, mab, dto, din, mdb, cpu)
      BY DEF P
    <2>4. ~b.lock /\ b.busy = 0 /\ b.wrt
      BY <1>0, <1>5
    <2> HIDE DEF u, refused
    <2>2. WriteFlashCell(u, a, v) = [u EXCEPT !.mem[a] = And16(@, v), !.busy = b.need.word, !.n = @ + 1]
      BY <1>1, <1>5, <2>4 DEF WriteFlashCell
    <2>3. WriteFlashCell(b, a, v) = [b EXCEPT !.mem[a] = And16(@, v), !.busy = b.need.word, !.n = @ + 1]
      BY <1>1, <1>5, <2>4 DEF WriteFlashCell
    <2> QED BY <2>1, <2>2, <2>3 DEF u
  <1> QED BY <1>2, <1>3, <1>4, <1>5

\* The kinds of addresses.
LEMMA Apart ==
    ASSUME NEW b, NEW a
    PROVE  /\ a \in FctlAddr => a # WdtAddr(b) /\ a \notin RamAddr /\ a \notin FlashCell
           /\ a = WdtAddr(b) => a \notin RamAddr /\ a \notin FlashCell
           /\ a \in RamAddr => a \notin FlashCell
  <1>1. WdtAddr(b) \in {\h120, \h1CC, \h15C}
    BY DEF WdtAddr, Legacy
  <1> QED BY <1>1, MemoryAssumption DEF FctlAddr, MemAddr, FlashCell

\* Nor does any write on the bus.
LEMMA PBusWrite ==
    ASSUME NEW b, b \in Target, NEW ir, NEW cntrl, NEW tclk, NEW mab, NEW dto, NEW din, NEW mdb,
           NEW cpu, NEW a, NEW v
    PROVE  BusWrite(P(b, ir, cntrl, tclk, mab, dto, din, mdb, cpu), a, v) = P(BusWrite(b, a, v), ir, cntrl, tclk, mab, dto, din, mdb, cpu)
  <1> DEFINE u == P(b, ir, cntrl, tclk, mab, dto, din, mdb, cpu)
  <1>1. WriteFctl(u, a, v) = P(WriteFctl(b, a, v), ir, cntrl, tclk, mab, dto, din, mdb, cpu) \/ a \notin FctlAddr
    BY PWriteFctl
  <1>2. WriteFlashCell(u, a, v) = P(WriteFlashCell(b, a, v), ir, cntrl, tclk, mab, dto, din, mdb, cpu)
    BY PWriteFlashCell
  <1>3. [u EXCEPT !.wdt = v % 256] = P([b EXCEPT !.wdt = v % 256], ir, cntrl, tclk, mab, dto, din, mdb, cpu)
    BY DEF P
  <1>4. [u EXCEPT !.mem[a] = v, !.n = @ + 1] = P([b EXCEPT !.mem[a] = v, !.n = @ + 1], ir, cntrl, tclk, mab, dto, din, mdb, cpu)
    BY DEF P
  <1>5. WdtAddr(u) = WdtAddr(b) /\ (Legacy(u) <=> Legacy(b))
    BY PModes
  <1>6. u = P(b, ir, cntrl, tclk, mab, dto, din, mdb, cpu)
    OBVIOUS
  <1> HIDE DEF u
  <1>7. CASE a \in FctlAddr
    <2>1. BusWrite(u, a, v) = WriteFctl(u, a, v) /\ BusWrite(b, a, v) = WriteFctl(b, a, v)
      BY <1>7, Apart DEF BusWrite
    <2> QED BY <1>1, <1>6, <1>7, <2>1
  <1>8. CASE a \notin FctlAddr /\ a = WdtAddr(b)
    <2>1. BusWrite(u, a, v) = IF v \div 256 = \h5A THEN [u EXCEPT !.wdt = v % 256] ELSE u
      BY <1>5, <1>8, Apart DEF BusWrite
    <2>2. BusWrite(b, a, v) = IF v \div 256 = \h5A THEN [b EXCEPT !.wdt = v % 256] ELSE b
      BY <1>8, Apart DEF BusWrite
    <2>3. CASE v \div 256 = \h5A
      BY <2>1, <2>2, <2>3, <1>3, <1>6
    <2>4. CASE v \div 256 # \h5A
      BY <2>1, <2>2, <2>4, <1>6
    <2> QED BY <2>3, <2>4
  <1>9. CASE a \notin FctlAddr /\ a # WdtAddr(b) /\ a \in RamAddr
    <2>1. /\ BusWrite(u, a, v) = [u EXCEPT !.mem[a] = v, !.n = @ + 1]
          /\ BusWrite(b, a, v) = [b EXCEPT !.mem[a] = v, !.n = @ + 1]
      BY <1>5, <1>9, Apart DEF BusWrite
    <2> QED BY <1>4, <1>6, <2>1
  <1>10. CASE a \notin FctlAddr /\ a # WdtAddr(b) /\ a \notin RamAddr /\ a \in FlashCell
    <2>1. /\ BusWrite(u, a, v) = IF Legacy(b) THEN WriteFlashCell(u, a, v) ELSE u
          /\ BusWrite(b, a, v) = IF Legacy(b) THEN WriteFlashCell(b, a, v) ELSE b
      BY <1>5, <1>10, Apart DEF BusWrite
    <2>2. CASE Legacy(b)
      BY <1>2, <1>6, <2>1, <2>2
    <2>3. CASE ~Legacy(b)
      BY <1>6, <2>1, <2>3
    <2> QED BY <2>2, <2>3
  <1>11. CASE a \notin FctlAddr /\ a # WdtAddr(b) /\ a \notin RamAddr /\ a \notin FlashCell
    <2>1. BusWrite(u, a, v) = u /\ BusWrite(b, a, v) = b
      BY <1>5, <1>11 DEF BusWrite
    <2> QED BY <1>6, <2>1
  <1> QED BY <1>6, <1>7, <1>8, <1>9, <1>10, <1>11

-----------------------------------------------------------------------------
(* Writes, and scans that answer.                                          *)

\* Columns that fit a target fit every other one of its driver.
LEMMA InPortOf ==
    ASSUME NEW b, NEW c, c.drv = b.drv, NEW ir, NEW cntrl, NEW tclk, NEW mab, NEW dto, NEW din,
           NEW mdb, NEW cpu, InPort(b, ir, cntrl, tclk, mab, dto, din, mdb, cpu)
    PROVE  InPort(c, ir, cntrl, tclk, mab, dto, din, mdb, cpu)
  BY DEF InPort, RegValues, RegSize

\* A rising edge in a write cycle writes the word that was shifted in.
LEMMA RisesWriting ==
    ASSUME NEW E, NEW g, NEW b, b.busy = 0, NEW cntrl, NEW mab, NEW dto, NEW din, NEW mdb,
           Writes(b, cntrl),
           NEW c, c = BusWrite(b, mab - (mab % 2), dto), Moved(b, c, E)
    PROVE  Does(E, Set, P(b, IR_DATA_TO_ADDR, cntrl, 0, mab, dto, din, mdb, Fetch), g,
                        P(c, IR_DATA_TO_ADDR, cntrl, 1, mab, dto, din, mdb, Fetch), g)
  <1> DEFINE u == P(b, IR_DATA_TO_ADDR, cntrl, 0, mab, dto, din, mdb, Fetch)
             w == [u EXCEPT !.tclk = 1]
             x == P(b, IR_DATA_TO_ADDR, cntrl, 1, mab, dto, din, mdb, Fetch)
  <1>0. Sound(b) /\ b \in Target
    BY DEF Moved, Sound
  <1>1. TargetStep(u, "set", 0) = P(c, IR_DATA_TO_ADDR, cntrl, 1, mab, dto, din, mdb, Fetch)
    <2>1. u.tclk = 0 /\ u.busy = 0 /\ u.cpu = Fetch /\ Fetch.k # "store" /\ u.cntrl = cntrl
      BY <1>0, PFields DEF Fetch
    <2>2. ~CpuMode(u) /\ ~(JtagHasBus(u) /\ Reading(u) /\ u.ir # IR_DATA_QUICK)
      BY <1>0, <2>1, PModes DEF Writes, HasBus, Executes
    <2>3. [w EXCEPT !.cpu = Fetch] = x
      BY DEF P
    <2>4. x.ir = IR_DATA_TO_ADDR /\ x.tclk = 1 /\ x.mab = mab /\ x.dto = dto
      BY <1>0, PFields
    <2>5. JtagHasBus(x) /\ ~Reading(x)
      BY <1>0, PModes DEF Writes
    <2>6. BusWrite(x, mab - (mab % 2), dto) = P(c, IR_DATA_TO_ADDR, cntrl, 1, mab, dto, din, mdb, Fetch)
      BY <1>0, PBusWrite
    <2> HIDE DEF x
    <2>7. Commit(x) = BusWrite(x, mab - (mab % 2), dto)
      BY <2>4, <2>5 DEF Commit
    <2> HIDE DEF u
    <2>8. TargetStep(u, "set", 0) = Commit([w EXCEPT !.cpu = Fetch])
      BY <2>1, <2>2, RiseIs
    <2> HIDE DEF w
    <2> QED BY <2>3, <2>6, <2>7, <2>8
  <1>2. InPort(b, IR_DATA_TO_ADDR, cntrl, 0, mab, dto, din, mdb, Fetch) => InPort(c, IR_DATA_TO_ADDR, cntrl, 1, mab, dto, din, mdb, Fetch)
    <2>1. InPort(b, IR_DATA_TO_ADDR, cntrl, 0, mab, dto, din, mdb, Fetch) => InPort(b, IR_DATA_TO_ADDR, cntrl, 1, mab, dto, din, mdb, Fetch)
      BY DEF InPort
    <2> QED BY <2>1, InPortOf DEF Moved
  <1>3. "set" \in Primitives
    BY DEF Primitives
  <1> HIDE DEF w, x
  <1>4. Does(E, <<Prim("set", 0, "")>>, P(b, IR_DATA_TO_ADDR, cntrl, 0, mab, dto, din, mdb, Fetch), g,
                                        P(c, IR_DATA_TO_ADDR, cntrl, 1, mab, dto, din, mdb, Fetch), g)
    BY <1>1, <1>2, <1>3, ColsDo
  <1> QED BY <1>4 DEF Set

\* With TCLK high the data is written as soon as it is there.
LEMMA DrWriting ==
    ASSUME NEW E, NEW g, NEW b, NEW cntrl, NEW mab, NEW din, NEW mdb, NEW cpu, Writes(b, cntrl),
           NEW dto, NEW d \in Values16,
           NEW c, c = BusWrite(b, mab - (mab % 2), d), Moved(b, c, E)
    PROVE  Does(E, Dr(d), P(b, IR_DATA_TO_ADDR, cntrl, 1, mab, dto, din, mdb, cpu), g, P(c, IR_DATA_TO_ADDR, cntrl, 1, mab, d, din, mdb, cpu), g)
  <1> DEFINE u == P(b, IR_DATA_TO_ADDR, cntrl, 1, mab, dto, din, mdb, cpu)
             x == P(b, IR_DATA_TO_ADDR, cntrl, 1, mab, d, din, mdb, cpu)
  <1>0. Sound(b) /\ b \in Target
    BY DEF Moved, Sound
  <1>1. TargetStep(u, "dr", d) = P(c, IR_DATA_TO_ADDR, cntrl, 1, mab, d, din, mdb, cpu)
    <2>1. u.ir = IR_DATA_TO_ADDR
      BY <1>0, PFields
    <2>2. [u EXCEPT !.dto = d] = x
      BY DEF P
    <2>3. TargetStep(u, "dr", d) = Commit([u EXCEPT !.dto = d])
      <3> HIDE DEF u
      <3> QED BY <2>1, DrStep
    <2>4. x.ir = IR_DATA_TO_ADDR /\ x.tclk = 1 /\ x.mab = mab /\ x.dto = d
      BY <1>0, PFields
    <2>5. JtagHasBus(x) /\ ~Reading(x)
      BY <1>0, PModes DEF Writes
    <2>6. BusWrite(x, mab - (mab % 2), d) = P(c, IR_DATA_TO_ADDR, cntrl, 1, mab, d, din, mdb, cpu)
      BY <1>0, PBusWrite
    <2> HIDE DEF x
    <2>7. Commit(x) = BusWrite(x, mab - (mab % 2), d)
      BY <2>4, <2>5 DEF Commit
    <2> HIDE DEF u
    <2> QED BY <2>2, <2>3, <2>6, <2>7
  <1>2. InPort(b, IR_DATA_TO_ADDR, cntrl, 1, mab, dto, din, mdb, cpu) => InPort(c, IR_DATA_TO_ADDR, cntrl, 1, mab, d, din, mdb, cpu)
    <2>1. InPort(b, IR_DATA_TO_ADDR, cntrl, 1, mab, dto, din, mdb, cpu) => InPort(b, IR_DATA_TO_ADDR, cntrl, 1, mab, d, din, mdb, cpu)
      BY DEF InPort
    <2> QED BY <2>1, InPortOf DEF Moved
  <1>3. "dr" \in Primitives
    BY DEF Primitives
  <1> HIDE DEF x
  <1>4. Does(E, <<Prim("dr", d, "")>>, P(b, IR_DATA_TO_ADDR, cntrl, 1, mab, dto, din, mdb, cpu), g, P(c, IR_DATA_TO_ADDR, cntrl, 1, mab, d, din, mdb, cpu), g)
    BY <1>1, <1>2, <1>3, ColsDo
  <1> QED BY <1>4 DEF Dr

\* Otherwise it waits there.
LEMMA DtoStep ==
    ASSUME NEW b, Sound(b), NEW cntrl, NEW tclk, NEW mab, NEW dto, NEW din, NEW mdb, NEW cpu, tclk = 0 \/ ~Writes(b, cntrl), NEW d
    PROVE  TargetStep(P(b, IR_DATA_TO_ADDR, cntrl, tclk, mab, dto, din, mdb, cpu), "dr", d) = P(b, IR_DATA_TO_ADDR, cntrl, tclk, mab, d, din, mdb, cpu)
  <1> DEFINE u == P(b, IR_DATA_TO_ADDR, cntrl, tclk, mab, dto, din, mdb, cpu)
             x == P(b, IR_DATA_TO_ADDR, cntrl, tclk, mab, d, din, mdb, cpu)
  <1>0. b \in Target
    BY DEF Sound
  <1>1. u.ir = IR_DATA_TO_ADDR
    BY <1>0, PFields
  <1>2. [u EXCEPT !.dto = d] = x
    BY DEF P
  <1>3. TargetStep(u, "dr", d) = Commit([u EXCEPT !.dto = d])
    <2> HIDE DEF u
    <2> QED BY <1>1, DrStep
  <1>4. x.tclk = tclk
    BY <1>0, PFields
  <1>5. (JtagHasBus(x) <=> HasBus(b, cntrl)) /\ (Reading(x) <=> Bit(cntrl, 1) = 1)
    BY <1>0, PModes
  <1> HIDE DEF x
  <1>6. Commit(x) = x
    BY <1>4, <1>5 DEF Commit, Writes
  <1> HIDE DEF u
  <1> QED BY <1>2, <1>3, <1>6 DEF u, x

\* A data scan shifts in a word to be written.
LEMMA DrDto ==
    ASSUME NEW E, NEW g, NEW b, Sound(b), NEW cntrl, NEW tclk, NEW mab, NEW dto, NEW din, NEW mdb, NEW cpu, tclk = 0 \/ ~Writes(b, cntrl), NEW d \in Values16
    PROVE  Does(E, Dr(d), P(b, IR_DATA_TO_ADDR, cntrl, tclk, mab, dto, din, mdb, cpu), g, P(b, IR_DATA_TO_ADDR, cntrl, tclk, mab, d, din, mdb, cpu), g)
  <1>1. TargetStep(P(b, IR_DATA_TO_ADDR, cntrl, tclk, mab, dto, din, mdb, cpu), "dr", d) = P(b, IR_DATA_TO_ADDR, cntrl, tclk, mab, d, din, mdb, cpu)
    BY DtoStep
  <1>2. InPort(b, IR_DATA_TO_ADDR, cntrl, tclk, mab, dto, din, mdb, cpu) => InPort(b, IR_DATA_TO_ADDR, cntrl, tclk, mab, d, din, mdb, cpu)
    BY DEF InPort
  <1>3. "dr" \in Primitives /\ Moved(b, b, E)
    BY MovedNot DEF Primitives
  <1>4. Does(E, <<Prim("dr", d, "")>>, P(b, IR_DATA_TO_ADDR, cntrl, tclk, mab, dto, din, mdb, cpu), g, P(b, IR_DATA_TO_ADDR, cntrl, tclk, mab, d, din, mdb, cpu), g)
    BY <1>1, <1>2, <1>3, ColsDo
  <1> QED BY <1>4 DEF Dr

\* What a data scan shows of a bus.
LEMMA OutIsMdb ==
    ASSUME NEW b, Sound(b), NEW ir, NEW cntrl, NEW tclk, NEW mab, NEW dto, NEW din, NEW mdb,
           NEW cpu, ir \in Shows
    PROVE  TargetOut(P(b, ir, cntrl, tclk, mab, dto, din, mdb, cpu), "dr") = mdb
  <1> DEFINE u == P(b, ir, cntrl, tclk, mab, dto, din, mdb, cpu)
  <1>1. u.ir = ir /\ u.mdb = mdb
    BY PFields DEF Sound
  <1> HIDE DEF u
  <1>2. TargetOut(u, "dr") = DrOut(u)
    BY DEF TargetOut
  <1>3. ~EemSelected(u) /\ u.ir # IR_CNTRL_SIG_CAPTURE
    BY <1>1 DEF EemSelected, Shows, IR_EMEX_DATA_EXCHANGE, IR_EMEX_DATA_EXCHANGE32,
       IR_CNTRL_SIG_CAPTURE,
                IR_DATA_TO_ADDR, IR_DATA_CAPTURE, IR_DATA_QUICK
  <1>4. DrOut(u) = u.mdb
    BY <1>1, <1>3 DEF DrOut, Shows
  <1> QED BY <1>1, <1>2, <1>4 DEF u

\* A data scan brings what is on the bus to where the driver keeps it.
LEMMA DrShows ==
    ASSUME NEW E, NEW g, NEW b, Sound(b), NEW ir, NEW cntrl, NEW tclk, NEW mab, NEW dto, NEW din, NEW mdb, NEW cpu, ir \in Shows, tclk = 0 \/ ~Writes(b, cntrl),
           NEW o, o = IF ir = IR_DATA_TO_ADDR THEN 0 ELSE dto
    PROVE  /\ \A v : v \notin {"", "buf"} =>
                 Does(E, DrTo(0, v), P(b, ir, cntrl, tclk, mab, dto, din, mdb, cpu), g, P(b, ir, cntrl, tclk, mab, o, din, mdb, cpu), [g EXCEPT ![v] = mdb])
           /\ Does(E, DrTo(0, "buf"), P(b, ir, cntrl, tclk, mab, dto, din, mdb, cpu), g, P(b, ir, cntrl, tclk, mab, o, din, mdb, cpu), [g EXCEPT !["buf"] = Append(@, mdb)])
  <1>1. TargetStep(P(b, ir, cntrl, tclk, mab, dto, din, mdb, cpu), "dr", 0) = P(b, ir, cntrl, tclk, mab, o, din, mdb, cpu)
    <2>1. CASE ir = IR_DATA_TO_ADDR
      BY <2>1, DtoStep
    <2>2. CASE ir # IR_DATA_TO_ADDR
      <3> DEFINE u == P(b, ir, cntrl, tclk, mab, dto, din, mdb, cpu)
      <3>1. u.ir \in Unseen
        BY <2>2, PFields DEF Sound, Shows, Unseen
      <3> HIDE DEF u
      <3>2. TargetStep(u, "dr", 0) = u
        BY <3>1, DrStep
      <3> QED BY <2>2, <3>2 DEF u
    <2> QED BY <2>1, <2>2
  <1>2. InPort(b, ir, cntrl, tclk, mab, dto, din, mdb, cpu) => InPort(b, ir, cntrl, tclk, mab, o, din, mdb, cpu)
    BY DEF InPort, Values16
  <1>3. "dr" \in Primitives /\ Moved(b, b, E)
    BY MovedNot DEF Primitives
  <1>4. TargetOut(P(b, ir, cntrl, tclk, mab, dto, din, mdb, cpu), "dr") = mdb
    BY OutIsMdb
  <1>5. /\ \A v : v \notin {"", "buf"} =>
             Does(E, <<Prim("dr", 0, v)>>, P(b, ir, cntrl, tclk, mab, dto, din, mdb, cpu), g, P(b, ir, cntrl, tclk, mab, o, din, mdb, cpu), [g EXCEPT ![v] = TargetOut(P(b, ir, cntrl, tclk, mab, dto, din, mdb, cpu), "dr")])
        /\ Does(E, <<Prim("dr", 0, "buf")>>, P(b, ir, cntrl, tclk, mab, dto, din, mdb, cpu), g, P(b, ir, cntrl, tclk, mab, o, din, mdb, cpu),
                [g EXCEPT !["buf"] = Append(@, TargetOut(P(b, ir, cntrl, tclk, mab, dto, din, mdb, cpu), "dr"))])
    BY <1>1, <1>2, <1>3, ColsDo, ZenonT(40)
  <1> QED BY <1>4, <1>5 DEF DrTo

-----------------------------------------------------------------------------
(* The CPU.                                                                *)

\* A rising edge makes the CPU take what JTAG put on the bus for an instruction.
LEMMA RisesFetch ==
    ASSUME NEW E, NEW g, NEW b, Sound(b), b.busy = 0, NEW ir, NEW cntrl, NEW mab, NEW dto, NEW din,
           NEW mdb, Executes(cntrl),
           NEW x \in CpuStates, x = Decode(b, din)
    PROVE  Does(E, Set, P(b, ir, cntrl, 0, mab, dto, din, mdb, Fetch), g, P(b, ir, cntrl, 1, mab, dto, din, mdb, x), g)
  <1> DEFINE u == P(b, ir, cntrl, 0, mab, dto, din, mdb, Fetch)
             w == [u EXCEPT !.tclk = 1]
  <1>0. b \in Target
    BY DEF Sound
  <1>1. TargetStep(u, "set", 0) = P(b, ir, cntrl, 1, mab, dto, din, mdb, x)
    <2>1. u.tclk = 0 /\ u.busy = 0 /\ u.cpu = Fetch /\ Fetch.k = "fetch"
      BY <1>0, PFields DEF Fetch
    <2>2. CpuMode(u)
      BY <1>0, PModes
    <2>3. w = P(b, ir, cntrl, 1, mab, dto, din, mdb, Fetch) /\ [w EXCEPT !.cpu = x] = P(b, ir, cntrl, 1, mab, dto, din, mdb, x)
      BY DEF P
    <2>4. w.cpu = Fetch /\ w.din = din /\ Decode(w, din) = x
      BY <1>0, <2>3, PFields, PModes
    <2>5. TargetStep(u, "set", 0) = CpuClock(w)
      <3> HIDE DEF u
      <3> QED BY <2>1, <2>2, RiseIs
    <2> HIDE DEF u, w
    <2>6. CpuClock(w) = [w EXCEPT !.cpu = x]
      BY <2>1, <2>4 DEF CpuClock
    <2> QED BY <2>3, <2>5, <2>6
  <1>2. InPort(b, ir, cntrl, 0, mab, dto, din, mdb, Fetch) => InPort(b, ir, cntrl, 1, mab, dto, din, mdb, x)
    BY DEF InPort
  <1>3. "set" \in Primitives /\ Moved(b, b, E)
    BY MovedNot DEF Primitives
  <1> HIDE DEF w
  <1>4. Does(E, <<Prim("set", 0, "")>>, P(b, ir, cntrl, 0, mab, dto, din, mdb, Fetch), g, P(b, ir, cntrl, 1, mab, dto, din, mdb, x), g)
    BY <1>1, <1>2, <1>3, ColsDo
  <1> QED BY <1>4 DEF Set

\* The second word of MOV #imm,Rn.
LEMMA RisesLoad ==
    ASSUME NEW E, NEW g, NEW b, b.busy = 0, NEW ir, NEW cntrl, NEW mab, NEW dto, NEW din, NEW mdb,
           Executes(cntrl), NEW r, NEW hi,
           NEW c, c = Loaded(b, r, hi * 2^16 + din), Moved(b, c, E)
    PROVE  Does(E, Set, P(b, ir, cntrl, 0, mab, dto, din, mdb, [k |-> "imm", r |-> r, hi |-> hi]), g,
                        P(c, ir, cntrl, 1, mab, dto, din, mdb, Fetch), g)
  <1> DEFINE y == [k |-> "imm", r |-> r, hi |-> hi]
             u == P(b, ir, cntrl, 0, mab, dto, din, mdb, y)
             w == [u EXCEPT !.tclk = 1]
  <1>0. Sound(b) /\ b \in Target
    BY DEF Moved, Sound
  <1>5. y.k = "imm" /\ y.r = r /\ y.hi = hi
    OBVIOUS
  <1> HIDE DEF y
  <1>1. TargetStep(u, "set", 0) = P(c, ir, cntrl, 1, mab, dto, din, mdb, Fetch)
    <2>1. u.tclk = 0 /\ u.busy = 0 /\ u.cpu = y
      BY <1>0, PFields
    <2>2. CpuMode(u)
      BY <1>0, PModes
    <2>3. w = P(b, ir, cntrl, 1, mab, dto, din, mdb, y)
      BY DEF P
    <2>4. w.cpu = y /\ w.din = din /\ PcPlus(w, 4) = PcPlus(b, 4)
      BY <1>0, <2>3, PFields, PModes
    <2>5. TargetStep(u, "set", 0) = CpuClock(w)
      <3> HIDE DEF u
      <3> QED BY <1>5, <2>1, <2>2, RiseIs
    <2>7. LoadReg(w, r, hi * 2^16 + din) = P(Loaded(b, r, hi * 2^16 + din), ir, cntrl, 1, mab, dto, din, mdb, Fetch)
      <3> DEFINE v == hi * 2^16 + din
                 o == (r = 0)
                 n == IF r = 0 THEN b.n ELSE b.n + 1
                 q == PcPlus(b, 4)
                 s == [[b.reg EXCEPT ![0] = q] EXCEPT ![r] = v]
      <3>1. w.n = b.n /\ w.reg = b.reg /\ PcPlus(w, 4) = q
        BY <1>0, <2>3, <2>4, PFields
      <3>2. LoadReg(w, r, v) = [w EXCEPT !.cpu = Fetch, !.pcok = o, !.n = n, !.reg = s]
        <4> HIDE DEF w, v, q
        <4> QED BY <3>1 DEF LoadReg
      <3>3. Loaded(b, r, v) = [b EXCEPT !.pcok = o, !.n = n, !.reg = s]
        <4> HIDE DEF v, q
        <4> QED BY <1>0 DEF Loaded, q, Target
      <3>4. w = P(b, ir, cntrl, 1, mab, dto, din, mdb, y)
        BY <2>3
      <3> HIDE DEF o, n, s, w, v
      <3>5. LoadReg(w, r, v) = P(Loaded(b, r, v), ir, cntrl, 1, mab, dto, din, mdb, Fetch)
        BY <3>2, <3>3, <3>4, ZenonT(40) DEF P
      <3> QED BY <3>5 DEF v
    <2> HIDE DEF u, w
    <2>6. CpuClock(w) = LoadReg(w, r, hi * 2^16 + din)
      BY <1>5, <2>4 DEF CpuClock
    <2> QED BY <2>5, <2>6, <2>7
  <1>2. InPort(b, ir, cntrl, 0, mab, dto, din, mdb, y) => InPort(c, ir, cntrl, 1, mab, dto, din, mdb, Fetch)
    <2>1. InPort(b, ir, cntrl, 0, mab, dto, din, mdb, y) => InPort(b, ir, cntrl, 1, mab, dto, din, mdb, Fetch)
      BY DEF InPort, CpuStates
    <2> QED BY <2>1, InPortOf DEF Moved
  <1>3. "set" \in Primitives
    BY DEF Primitives
  <1> HIDE DEF w
  <1>4. Does(E, <<Prim("set", 0, "")>>, P(b, ir, cntrl, 0, mab, dto, din, mdb, y), g, P(c, ir, cntrl, 1, mab, dto, din, mdb, Fetch), g)
    BY <1>1, <1>2, <1>3, ColsDo
  <1> QED BY <1>4 DEF Set, y

\* The address of MOV Rn,&abs: the bus shows the register on the edges to come,
\* of a CPUX from this one on.
LEMMA RisesStore ==
    ASSUME NEW E, NEW g, NEW b, b.busy = 0, NEW ir, NEW cntrl, NEW mab, NEW dto, NEW din, NEW mdb,
           Executes(cntrl), NEW r, NEW hi,
           NEW c, c = Stored(b, r, din), Moved(b, c, E), NEW s, s = Shown(b, r),
           NEW x \in CpuStates, NEW o \in Values16,
           x = Showing(IF b.drv = "x" THEN Tail(s) ELSE s),
           o = IF b.drv = "x" THEN Head(s) ELSE mdb
    PROVE  Does(E, Set, P(b, ir, cntrl, 0, mab, dto, din, mdb, [k |-> "abs", r |-> r, hi |-> hi]), g,
                        P(c, ir, cntrl, 1, mab, dto, din, o, x), g)
  <1> DEFINE y == [k |-> "abs", r |-> r, hi |-> hi]
             u == P(b, ir, cntrl, 0, mab, dto, din, mdb, y)
             w == [u EXCEPT !.tclk = 1]
  <1>0. Sound(b) /\ b \in Target
    BY DEF Moved, Sound
  <1>5. y.k = "abs" /\ y.r = r
    OBVIOUS
  <1> HIDE DEF y
  <1>1. TargetStep(u, "set", 0) = P(c, ir, cntrl, 1, mab, dto, din, o, x)
    <2>1. u.tclk = 0 /\ u.busy = 0 /\ u.cpu = y
      BY <1>0, PFields
    <2>2. CpuMode(u)
      BY <1>0, PModes
    <2>3. w = P(b, ir, cntrl, 1, mab, dto, din, mdb, y)
      BY DEF P
    <2>4. /\ w.cpu = y /\ w.din = din /\ w.mdb = mdb /\ w.drv = b.drv /\ w.jmb = b.jmb
          /\ w.reg = b.reg
      BY <1>0, <2>3, PFields
    <2>8. /\ PcPlus(w, 4) = PcPlus(b, 4) /\ Shown(w, r) = s
          /\ JmbAddr(w) = JmbAddr(b) /\ (Legacy(w) <=> Legacy(b))
      BY <1>0, <2>3, PModes
    <2>5. TargetStep(u, "set", 0) = CpuClock(w)
      <3> HIDE DEF u
      <3> QED BY <1>5, <2>1, <2>2, RiseIs
    <2> DEFINE q == PcPlus(b, 4)
               rg == [b.reg EXCEPT ![0] = q]
               mail == ~Legacy(b) /\ din = JmbAddr(b)
               j == IF mail THEN s ELSE b.jmb
               m == Showing(s)
    <2>7. Store(w, r, din) = [w EXCEPT !.cpu = x, !.mdb = o, !.pcok = FALSE, !.reg = rg, !.jmb = j]
      <3> DEFINE v == IF w.drv = "x"
                      THEN [w EXCEPT !.cpu = Showing(Tail(s)), !.mdb = Head(s),
                                     !.pcok = FALSE, !.reg = rg]
                      ELSE [w EXCEPT !.cpu = m, !.pcok = FALSE, !.reg = rg]
      <3>1. v = [w EXCEPT !.cpu = x, !.mdb = o, !.pcok = FALSE, !.reg = rg]
        <4>2. CASE b.drv = "x"
          <5> HIDE DEF rg
          <5> QED BY <2>4, <4>2
        <4>3. CASE b.drv # "x"
          <5>1. x = m /\ o = mdb
            BY <4>3
          <5>2. [w EXCEPT !.cpu = x, !.pcok = FALSE, !.reg = rg]
                  = [w EXCEPT !.cpu = x, !.mdb = o, !.pcok = FALSE, !.reg = rg]
            <6> HIDE DEF rg, m
            <6> QED BY <2>3, <5>1 DEF P
          <5> HIDE DEF rg, m
          <5> QED BY <2>4, <4>3, <5>1, <5>2
        <4> QED BY <4>2, <4>3
      <3>2. Store(w, r, din) = IF ~Legacy(w) /\ din = JmbAddr(w) THEN [v EXCEPT !.jmb = s] ELSE v
        <4> HIDE DEF w
        <4> QED BY <2>4, <2>8 DEF Store
      <3>3. v.jmb = b.jmb
        <4> HIDE DEF rg, v
        <4> QED BY <3>1, <2>4
      <3>4. [v EXCEPT !.jmb = j] = IF mail THEN [v EXCEPT !.jmb = s] ELSE v
        <4> HIDE DEF rg, mail
        <4>1. v = [w EXCEPT !.cpu = x, !.mdb = o, !.pcok = FALSE, !.reg = rg]
          BY <3>1
        <4> HIDE DEF v
        <4> QED BY <4>1, <3>3, <2>3 DEF P
      <3> HIDE DEF v
      <3> QED BY <2>8, <3>1, <3>2, <3>4
    <2>6. CpuClock(w) = Store(w, r, din)
      <3> HIDE DEF w
      <3> QED BY <1>5, <2>4 DEF CpuClock
    <2>9. c = [b EXCEPT !.pcok = FALSE, !.reg = rg, !.jmb = j]
      <3>1. AtPc(b, q) = [b EXCEPT !.pcok = FALSE, !.reg = rg]
        BY DEF AtPc
      <3>2. AtPc(b, q).jmb = b.jmb
        BY <1>0, <3>1 DEF Target
      <3>3. c = [AtPc(b, q) EXCEPT !.jmb = j]
        <4>1. c = [AtPc(b, q) EXCEPT !.jmb = IF mail THEN s ELSE AtPc(b, q).jmb]
          BY DEF Stored
        <4> QED BY <4>1, <3>2
      <3> HIDE DEF q, rg, j
      <3> QED BY <3>1, <3>3
    <2> HIDE DEF rg, j, w
    <2>10. [P(b, ir, cntrl, 1, mab, dto, din, mdb, y) EXCEPT !.cpu = x, !.mdb = o, !.pcok = FALSE, !.reg = rg, !.jmb = j]
             = P([b EXCEPT !.pcok = FALSE, !.reg = rg, !.jmb = j], ir, cntrl, 1, mab, dto, din, o, x)
      BY DEF P
    <2> HIDE DEF u
    <2> QED BY <2>3, <2>5, <2>6, <2>7, <2>9, <2>10
  <1>2. InPort(b, ir, cntrl, 0, mab, dto, din, mdb, y) => InPort(c, ir, cntrl, 1, mab, dto, din, o, x)
    <2>1. InPort(b, ir, cntrl, 0, mab, dto, din, mdb, y) => InPort(b, ir, cntrl, 1, mab, dto, din, o, x)
      BY DEF InPort
    <2> QED BY <2>1, InPortOf DEF Moved
  <1>3. "set" \in Primitives
    BY DEF Primitives
  <1> HIDE DEF w
  <1>4. Does(E, <<Prim("set", 0, "")>>, P(b, ir, cntrl, 0, mab, dto, din, mdb, y), g, P(c, ir, cntrl, 1, mab, dto, din, o, x), g)
    BY <1>1, <1>2, <1>3, ColsDo
  <1> QED BY <1>4 DEF Set, y

\* The next word of the register stored.
LEMMA RisesShowing ==
    ASSUME NEW E, NEW g, NEW b, Sound(b), b.busy = 0, NEW ir, NEW cntrl, NEW mab, NEW dto, NEW din,
           NEW mdb, NEW s, s # <<>>,
           NEW x \in CpuStates, NEW o \in Values16, o = Head(s),
           x = IF Len(s) = 1 THEN Fetch ELSE Showing(Tail(s))
    PROVE  Does(E, Set, P(b, ir, cntrl, 0, mab, dto, din, mdb, Showing(s)), g, P(b, ir, cntrl, 1, mab, dto, din, o, x), g)
  <1> DEFINE y == Showing(s)
             u == P(b, ir, cntrl, 0, mab, dto, din, mdb, y)
             w == [u EXCEPT !.tclk = 1]
  <1>0. b \in Target
    BY DEF Sound
  <1>5. y.k = "store" /\ y.rest = s
    BY DEF Showing
  <1> HIDE DEF y
  <1>1. TargetStep(u, "set", 0) = P(b, ir, cntrl, 1, mab, dto, din, o, x)
    <2>1. u.tclk = 0 /\ u.busy = 0 /\ u.cpu = y
      BY <1>0, PFields
    <2>3. w = P(b, ir, cntrl, 1, mab, dto, din, mdb, y)
      BY DEF P
    <2>4. w.cpu = y
      BY <1>0, <2>3, PFields
    <2>5. TargetStep(u, "set", 0) = StoreClock(w)
      <3> HIDE DEF u
      <3> QED BY <1>5, <2>1, RiseIs
    <2> HIDE DEF w, u
    <2>6. StoreClock(w) = [w EXCEPT !.mdb = o, !.cpu = x]
      BY <1>5, <2>4 DEF StoreClock
    <2>7. [P(b, ir, cntrl, 1, mab, dto, din, mdb, y) EXCEPT !.mdb = o, !.cpu = x] = P(b, ir, cntrl, 1, mab, dto, din, o, x)
      BY DEF P
    <2> QED BY <2>3, <2>5, <2>6, <2>7
  <1>2. InPort(b, ir, cntrl, 0, mab, dto, din, mdb, y) => InPort(b, ir, cntrl, 1, mab, dto, din, o, x)
    BY DEF InPort
  <1>3. "set" \in Primitives /\ Moved(b, b, E)
    BY MovedNot DEF Primitives
  <1> HIDE DEF w
  <1>4. Does(E, <<Prim("set", 0, "")>>, P(b, ir, cntrl, 0, mab, dto, din, mdb, y), g, P(b, ir, cntrl, 1, mab, dto, din, o, x), g)
    BY <1>1, <1>2, <1>3, ColsDo
  <1> QED BY <1>4 DEF Set, y

-----------------------------------------------------------------------------
(* Control words, and the edges of TCLK around a scan.                     *)

\* What the control words of the scripts make of the CPU and the bus.
LEMMA ControlWords ==
    ASSUME NEW b
    PROVE  /\ \A c \in {\h3401, \h3408, \h1400, \h1401} : c \in Values16 /\ Executes(c)
           /\ \A c \in {\h2409, \h2419} : c \in Values16 /\ Reads(b, c) /\ ~Rests(b, c) /\ ~Writes(b, c)
           /\ \A c \in {\h2408} : c \in Values16 /\ Writes(b, c) /\ ~Reads(b, c)
           /\ \A c \in {\h2401} : c \in Values16 /\ ~Writes(b, c) /\ (Legacy(b) => Rests(b, c) /\ ~Reads(b, c))
           /\ \A c \in {\h0501, \h0401, \h0403} :
                 c \in Values16 /\ ~Writes(b, c) /\ ~Executes(c) /\ (~Legacy(b) => Reads(b, c))
           /\ \A c \in {\h0500} : c \in Values16 /\ (~Legacy(b) => Writes(b, c))
           /\ \A c \in {\h2409, \h0501, \h0401, \h0403} : Bit(c, \h10) # 1
           /\ \A c \in {\h2419} : Bit(c, \h10) = 1
  BY DEF Values16, Executes, Reads, Writes, Rests, HasBus, Bit

\* The JTAG instructions fit in a byte, and the special ones are none of the
\* others.
LEMMA Codes ==
    /\ \A n \in {IR_ADDR_16BIT, IR_ADDR_CAPTURE, IR_DATA_TO_ADDR, IR_DATA_16BIT, IR_DATA_CAPTURE,
                 IR_CNTRL_SIG_16BIT, IR_CNTRL_SIG_CAPTURE, IR_CNTRL_SIG_HIGH_BYTE,
                 IR_CNTRL_SIG_LOW_BYTE, IR_EMEX_DATA_EXCHANGE, IR_EMEX_WRITE_CONTROL,
                 IR_EMEX_DATA_EXCHANGE32, IR_TEST_REG, IR_TEST_3V_REG} :
          n \in Octets /\ n \in Nat /\ n # IR_CNTRL_SIG_RELEASE /\ n # IR_DATA_QUICK
    /\ IR_DATA_QUICK \in Octets /\ IR_DATA_QUICK \in Nat /\ IR_DATA_QUICK # IR_CNTRL_SIG_RELEASE
    /\ IR_ADDR_CAPTURE \in Unseen /\ IR_DATA_CAPTURE \in Unseen /\ IR_DATA_QUICK \in Unseen
    /\ IR_DATA_16BIT # IR_DATA_TO_ADDR /\ IR_DATA_CAPTURE # IR_DATA_TO_ADDR
    /\ IR_CNTRL_SIG_16BIT # IR_DATA_TO_ADDR /\ IR_ADDR_CAPTURE # IR_DATA_TO_ADDR
    /\ IR_ADDR_16BIT # IR_DATA_TO_ADDR /\ IR_CNTRL_SIG_LOW_BYTE # IR_DATA_TO_ADDR
    /\ IR_CNTRL_SIG_HIGH_BYTE # IR_DATA_TO_ADDR /\ IR_CNTRL_SIG_CAPTURE # IR_DATA_TO_ADDR
    /\ IR_DATA_TO_ADDR \in Shows /\ IR_DATA_CAPTURE \in Shows /\ IR_DATA_QUICK \in Shows
  BY DEF IR_ADDR_16BIT, IR_ADDR_CAPTURE, IR_DATA_TO_ADDR, IR_DATA_16BIT, IR_DATA_CAPTURE,
         IR_DATA_QUICK, IR_CNTRL_SIG_16BIT, IR_CNTRL_SIG_CAPTURE, IR_CNTRL_SIG_RELEASE,
         IR_CNTRL_SIG_HIGH_BYTE, IR_CNTRL_SIG_LOW_BYTE, IR_EMEX_DATA_EXCHANGE,
         IR_EMEX_WRITE_CONTROL, IR_EMEX_DATA_EXCHANGE32, IR_TEST_REG, IR_TEST_3V_REG, Unseen, Shows, Octets

\* The empty script is a sequence.
LEMMA NoneIsSeq ==
    IsSeq(<<>>)
  <1>1. <<>> \in Seq({}) /\ {} = {}
    OBVIOUS
  <1> QED BY <1>1, Zenon DEF IsSeq

\* The clock primitives are sequences.
LEMMA PulseSeq ==
    IsSeq(Set) /\ IsSeq(Clr) /\ IsSeq(PulseP) /\ IsSeq(PulseN)
  <1>1. IsSeq(<<>>)
    BY NoneIsSeq
  <1>2. IsSeq(Set) /\ IsSeq(Clr)
    BY <1>1, SeqOne DEF Set, Clr
  <1> QED BY <1>2, SeqConcat DEF PulseP, PulseN

\* The primitives of each clocking, OnTclk.
LEMMA ClockIs ==
    /\ OnTclk(kdTclk0) = Clr /\ OnTclk(kdTclk1) = Set /\ OnTclk(kdTclkP) = PulseP
    /\ OnTclk(kdTclkN) = PulseN /\ OnTclk(kdNone) = <<>>
  BY DEF OnTclk, kdTclk0, kdTclk1, kdTclkP, kdTclkN, kdTclk2P, kdTclk2N, kdNone

\* A clocking is a sequence, and its code fits in a field of a step.
LEMMA ClockSeq ==
    ASSUME NEW clk \in Clocks
    PROVE  IsSeq(OnTclk(clk)) /\ clk \in Nibbles
  <1>1. IsSeq(<<>>)
    BY NoneIsSeq
  <1>2. clk \in Nibbles
    BY DEF Clocks, kdTclk0, kdTclk1, kdTclkP, kdTclkN, kdNone, Nibbles
  <1> QED BY <1>1, <1>2, ClockIs, PulseSeq DEF Clocks

\* An edge is what its clocking does, whatever the driver remembers.
LEMMA EdgeIs ==
    ASSUME NEW E, NEW t1, NEW t2
    PROVE  /\ Edge(E, kdNone, t1, t1)
           /\ (\A g : Does(E, Set, t1, g, t2, g)) <=> Edge(E, kdTclk1, t1, t2)
           /\ (\A g : Does(E, Clr, t1, g, t2, g)) <=> Edge(E, kdTclk0, t1, t2)
           /\ (\A g : Does(E, PulseP, t1, g, t2, g)) <=> Edge(E, kdTclkP, t1, t2)
           /\ (\A g : Does(E, PulseN, t1, g, t2, g)) <=> Edge(E, kdTclkN, t1, t2)
  BY ClockIs, DoesNothing DEF Edge

\* A pulse is two edges.
LEMMA EdgePulse ==
    ASSUME NEW E, NEW t1, NEW t2, NEW t3
    PROVE  /\ Edge(E, kdTclk1, t1, t2) /\ Edge(E, kdTclk0, t2, t3) => Edge(E, kdTclkP, t1, t3)
           /\ Edge(E, kdTclk0, t1, t2) /\ Edge(E, kdTclk1, t2, t3) => Edge(E, kdTclkN, t1, t3)
  <1>1. ASSUME Edge(E, kdTclk1, t1, t2), Edge(E, kdTclk0, t2, t3), NEW g
        PROVE  Does(E, PulseP, t1, g, t3, g)
    <2>1. Does(E, Set, t1, g, t2, g) /\ Does(E, Clr, t2, g, t3, g)
      BY <1>1, EdgeIs
    <2> QED BY <2>1, PulseSeq, DoesBoth DEF PulseP
  <1>2. ASSUME Edge(E, kdTclk0, t1, t2), Edge(E, kdTclk1, t2, t3), NEW g
        PROVE  Does(E, PulseN, t1, g, t3, g)
    <2>1. Does(E, Clr, t1, g, t2, g) /\ Does(E, Set, t2, g, t3, g)
      BY <1>2, EdgeIs
    <2> QED BY <2>1, PulseSeq, DoesBoth DEF PulseN
  <1> QED BY <1>1, <1>2, EdgeIs

-----------------------------------------------------------------------------
(* The other primitives.                                                   *)

\* A change of registers that are not the target's memory.
LEMMA MovedPc ==
    ASSUME NEW E, NEW b, Sound(b), NEW pc \in RegValues(b)
    PROVE  Moved(b, AtPc(b, pc), E) /\ Held(AtPc(b, pc)) = Held(b)
  <1> DEFINE c == AtPc(b, pc)
             s == [b.reg EXCEPT ![0] = pc]
  <1>0. b \in Target /\ pc \in Nat /\ 0 \in Regs
    BY DEF Sound, RegValues, RegSize, Regs
  <1>1. c = [b EXCEPT !.pcok = FALSE, !.reg = s]
    BY DEF AtPc
  <1>2. s \in [Regs -> Nat] /\ s[0] = pc /\ \A r \in Regs \ {0} : s[r] = b.reg[r]
    BY <1>0 DEF Target
  <1> HIDE DEF c, s
  <1>3. /\ c.drv = b.drv /\ c.reg = s /\ c.mem = b.mem /\ c.n = b.n /\ c.mab = b.mab
        /\ c.running = b.running
    BY <1>0, <1>1 DEF Target
  <1>4. c \in Target
    BY <1>0, <1>1, <1>2 DEF Target
  <1>5. RegValues(c) = RegValues(b)
    BY <1>3 DEF RegValues, RegSize
  <1>6. Sound(c)
    BY <1>2, <1>3, <1>4, <1>5 DEF Sound
  <1>7. Held(c) = Held(b)
    BY <1>0, <1>2, <1>3 DEF Held, Target
  <1>8. Moved(b, c, E)
    BY <1>3, <1>6, <1>7 DEF Moved, Fits, Same
  <1> QED BY <1>7, <1>8 DEF c

\* A falling edge in quick mode reads at the program counter and goes on by two.
LEMMA FallsQuick ==
    ASSUME NEW E, NEW g, NEW b, NEW cntrl, NEW mab, NEW dto, NEW din, NEW cpu, NEW mdb,
           ~Executes(cntrl),
           NEW c, c = AtPc(b, PcPlus(b, 2)), Moved(b, c, E), NEW o \in Values16,
           o = Word(b, b.reg[0])
    PROVE  Does(E, Clr, P(b, IR_DATA_QUICK, cntrl, 1, mab, dto, din, mdb, cpu), g, P(c, IR_DATA_QUICK, cntrl, 0, mab, dto, din, o, cpu), g)
  <1> DEFINE u == P(b, IR_DATA_QUICK, cntrl, 1, mab, dto, din, mdb, cpu)
             w == P(b, IR_DATA_QUICK, cntrl, 0, mab, dto, din, mdb, cpu)
             q == PcPlus(b, 2)
             s == [b.reg EXCEPT ![0] = q]
  <1>0. Sound(b) /\ b \in Target
    BY DEF Moved, Sound
  <1>1. TargetStep(u, "clr", 0) = P(c, IR_DATA_QUICK, cntrl, 0, mab, dto, din, o, cpu)
    <2>1. u.ir = IR_DATA_QUICK /\ u.tclk = 1 /\ ~CpuMode(u) /\ u.reg = b.reg
          /\ Word(u, b.reg[0]) = o /\ PcPlus(u, 2) = q /\ w.reg = b.reg
      BY <1>0, PFields, PModes
    <2>2. [u EXCEPT !.tclk = 0] = w
      BY DEF P
    <2>3. [w EXCEPT !.mdb = o, !.pcok = FALSE, !.reg = s] = P([b EXCEPT !.pcok = FALSE, !.reg = s], IR_DATA_QUICK, cntrl, 0, mab, dto, din, o, cpu)
      BY DEF P
    <2>4. c = [b EXCEPT !.pcok = FALSE, !.reg = s]
      BY DEF AtPc
    <2> HIDE DEF u, w, q
    <2>7. TargetStep(u, "clr", 0) = Fall(u)
      BY <2>1 DEF TargetStep, Level
    <2>8. Fall(u) = [[u EXCEPT !.tclk = 0] EXCEPT !.mdb = Word(u, u.reg[0]), !.reg[0] = PcPlus(u, 2), !.pcok = FALSE]
      BY <2>1 DEF Fall
    <2>5. TargetStep(u, "clr", 0) = [w EXCEPT !.mdb = o, !.reg[0] = q, !.pcok = FALSE]
      BY <2>1, <2>2, <2>7, <2>8
    <2>6. [w EXCEPT !.mdb = o, !.reg[0] = q, !.pcok = FALSE] = [w EXCEPT !.mdb = o, !.pcok = FALSE, !.reg = s]
      BY <2>1, <2>2 DEF w, P
    <2> QED BY <2>3, <2>4, <2>5, <2>6
  <1>2. InPort(b, IR_DATA_QUICK, cntrl, 1, mab, dto, din, mdb, cpu) => InPort(c, IR_DATA_QUICK, cntrl, 0, mab, dto, din, o, cpu)
    <2>1. InPort(b, IR_DATA_QUICK, cntrl, 1, mab, dto, din, mdb, cpu) => InPort(b, IR_DATA_QUICK, cntrl, 0, mab, dto, din, o, cpu)
      BY DEF InPort
    <2> QED BY <2>1, InPortOf DEF Moved
  <1>3. "clr" \in Primitives
    BY DEF Primitives
  <1>4. Does(E, <<Prim("clr", 0, "")>>, P(b, IR_DATA_QUICK, cntrl, 1, mab, dto, din, mdb, cpu), g,
                                        P(c, IR_DATA_QUICK, cntrl, 0, mab, dto, din, o, cpu), g)
    BY <1>1, <1>2, <1>3, ColsDo
  <1> QED BY <1>4 DEF Clr

\* The clock of the flash controller does not look at the port.
LEMMA PFlashClock ==
    ASSUME NEW b, b \in Target, NEW ir, NEW cntrl, NEW tclk, NEW mab, NEW dto, NEW din, NEW mdb,
           NEW cpu, NEW n
    PROVE  FlashClock(P(b, ir, cntrl, tclk, mab, dto, din, mdb, cpu), n) = P(FlashClock(b, n), ir, cntrl, tclk, mab, dto, din, mdb, cpu)
  <1> DEFINE u == P(b, ir, cntrl, tclk, mab, dto, din, mdb, cpu)
             spent == [x \in DOMAIN b.spent |-> IF x \in b.doomed THEN b.spent[x] + n ELSE b.spent[x]]
             full  == IF b.erase = {2} THEN b.need.seg ELSE b.need.mass * b.need.rep
             gone  == {x \in b.doomed : spent[x] >= full}
             k     == IF \E x \in gone : b.spent[x] < full THEN b.n + 1 ELSE b.n
             m     == [x \in DOMAIN b.mem |-> IF x \in gone THEN \hFFFF ELSE b.mem[x]]
             o     == IF n >= b.busy THEN 0 ELSE b.busy - n
             d     == IF n >= b.busy THEN {} ELSE b.doomed
  <1>1. /\ u.busy = b.busy /\ u.spent = b.spent /\ u.doomed = b.doomed /\ u.erase = b.erase
        /\ u.need = b.need /\ u.n = b.n /\ u.mem = b.mem
    BY PFields
  <1>2. CASE b.busy = 0
    <2> HIDE DEF u
    <2>1. FlashClock(u, n) = u /\ FlashClock(b, n) = b
      BY <1>1, <1>2 DEF FlashClock
    <2> QED BY <2>1 DEF u
  <1>3. CASE b.busy # 0
    <2>1. FlashClock(b, n) = [b EXCEPT !.busy = o, !.spent = spent, !.doomed = d, !.n = k, !.mem = m]
      BY <1>3 DEF FlashClock, Target
    <2>2. FlashClock(u, n) = [u EXCEPT !.busy = o, !.spent = spent, !.doomed = d, !.n = k, !.mem = m]
      <3> HIDE DEF u
      <3> QED BY <1>1, <1>3 DEF FlashClock
    <2> HIDE DEF spent, full, gone, k, m, o, d
    <2>3. [u EXCEPT !.busy = o, !.spent = spent, !.doomed = d, !.n = k, !.mem = m]
             = P([b EXCEPT !.busy = o, !.spent = spent, !.doomed = d, !.n = k, !.mem = m], ir, cntrl, tclk, mab, dto, din, mdb, cpu)
      BY DEF P
    <2> QED BY <2>1, <2>2, <2>3
  <1> QED BY <1>2, <1>3

\* Pulses of the flash controller, with the bus reading.
LEMMA DoesStrobe ==
    ASSUME NEW E, NEW g, NEW b, NEW ir, NEW cntrl, NEW tclk, NEW mab, NEW dto, NEW din, NEW mdb,
           NEW cpu, Bit(cntrl, 1) = 1, NEW n,
           NEW c, c = FlashClock(b, n), Moved(b, c, E), b.strobe_end \in {0, 1}, NEW e,
           e = b.strobe_end,
           c.strobe_end = e
    PROVE  Does(E, Strobe(n), P(b, ir, cntrl, tclk, mab, dto, din, mdb, cpu), g, P(c, ir, cntrl, e, mab, dto, din, mdb, cpu), g)
  <1> DEFINE u == P(b, ir, cntrl, tclk, mab, dto, din, mdb, cpu)
             w == P(c, ir, cntrl, tclk, mab, dto, din, mdb, cpu)
  <1>0. Sound(b) /\ b \in Target /\ c \in Target
    BY DEF Moved, Sound
  <1>1. TargetStep(u, "strobe", n) = P(c, ir, cntrl, e, mab, dto, din, mdb, cpu)
    <2>1. Reading(u) /\ FlashClock(u, n) = w /\ u.strobe_end = e
      BY <1>0, PModes, PFlashClock, PFields
    <2>2. [w EXCEPT !.tclk = e] = P(c, ir, cntrl, e, mab, dto, din, mdb, cpu)
      BY DEF P
    <2> HIDE DEF u, w
    <2>3. TargetStep(u, "strobe", n) = [w EXCEPT !.tclk = e]
      BY <2>1 DEF TargetStep, Strobes
    <2> QED BY <2>2, <2>3
  <1>2. InPort(b, ir, cntrl, tclk, mab, dto, din, mdb, cpu) => InPort(c, ir, cntrl, e, mab, dto, din, mdb, cpu)
    <2>1. InPort(b, ir, cntrl, tclk, mab, dto, din, mdb, cpu) => InPort(b, ir, cntrl, e, mab, dto, din, mdb, cpu)
      BY DEF InPort
    <2> QED BY <2>1, InPortOf DEF Moved
  <1>3. "strobe" \in Primitives
    BY DEF Primitives
  <1>4. Does(E, <<Prim("strobe", n, "")>>, P(b, ir, cntrl, tclk, mab, dto, din, mdb, cpu), g, P(c, ir, cntrl, e, mab, dto, din, mdb, cpu), g)
    BY <1>1, <1>2, <1>3, ColsDo
  <1> QED BY <1>4 DEF Strobe

\* Reading the mailbox empties it.
LEMMA DoesJmbOut ==
    ASSUME NEW E, NEW g, NEW b, NEW ir, NEW cntrl, NEW tclk, NEW mab, NEW dto, NEW din, NEW mdb,
           NEW cpu, NEW c, c = [b EXCEPT !.jmb = <<>>], Moved(b, c, E)
    PROVE  Does(E, ReadJmbOut, P(b, ir, cntrl, tclk, mab, dto, din, mdb, cpu), g, P(c, ir, cntrl, tclk, mab, dto, din, mdb, cpu), g)
  <1>1. TargetStep(P(b, ir, cntrl, tclk, mab, dto, din, mdb, cpu), "jmbout", 0) = P(c, ir, cntrl, tclk, mab, dto, din, mdb, cpu)
    <2> DEFINE u == P(b, ir, cntrl, tclk, mab, dto, din, mdb, cpu)
    <2>1. [u EXCEPT !.jmb = <<>>] = P(c, ir, cntrl, tclk, mab, dto, din, mdb, cpu)
      BY DEF P
    <2> HIDE DEF u
    <2>2. TargetStep(u, "jmbout", 0) = [u EXCEPT !.jmb = <<>>]
      BY DEF TargetStep
    <2> QED BY <2>1, <2>2 DEF u
  <1>2. InPort(b, ir, cntrl, tclk, mab, dto, din, mdb, cpu) => InPort(c, ir, cntrl, tclk, mab, dto, din, mdb, cpu)
    BY InPortOf DEF Moved
  <1>3. "jmbout" \in Primitives
    BY DEF Primitives
  <1>4. Does(E, <<Prim("jmbout", 0, "")>>, P(b, ir, cntrl, tclk, mab, dto, din, mdb, cpu), g, P(c, ir, cntrl, tclk, mab, dto, din, mdb, cpu), g)
    BY <1>1, <1>2, <1>3, ColsDo
  <1> QED BY <1>4 DEF ReadJmbOut

\* Waiting does nothing to a target that stands still.
LEMMA DoesDelay ==
    ASSUME NEW E, NEW g, NEW u, NEW n
    PROVE  Does(E, Delay(n), u, g, u, g)
  <1>1. TargetStep(u, "delay", n) = u /\ "delay" \in Primitives
    BY DEF TargetStep, Primitives
  <1> QED BY <1>1, PrimDoes DEF Delay, Fits, Same

\* An instruction scan answers with the version of the port.
LEMMA DoesIrTo ==
    ASSUME NEW E, NEW g, NEW b, Sound(b), b.eemaddr = -1, NEW ir, NEW cntrl, NEW tclk, NEW mab,
           NEW dto, NEW din, NEW mdb, NEW cpu,
           NEW n \in Nat, n # IR_CNTRL_SIG_RELEASE
    PROVE  \A v : v \notin {"", "buf"}
                    => Does(E, IrTo(n, v), P(b, ir, cntrl, tclk, mab, dto, din, mdb, cpu), g, P(b, n, cntrl, tclk, mab, dto, din, mdb, cpu), [g EXCEPT ![v] = b.id])
  <1> DEFINE u == P(b, ir, cntrl, tclk, mab, dto, din, mdb, cpu)
             w == P(b, n, cntrl, tclk, mab, dto, din, mdb, cpu)
  <1>1. TargetStep(u, "ir", n) = w
    BY ZenonT(40) DEF TargetStep, IrScan, P, Sound, Target
  <1>2. Sound(u) => Sound(w) /\ Fits(E, u, w)
    BY MovedNot, MovedFits DEF InPort
  <1>3. u.id = b.id
    BY PFields DEF Sound
  <1> HIDE DEF u, w
  <1>4. TargetOut(u, "ir") = b.id /\ "ir" \in Primitives
    BY <1>3 DEF TargetOut, Primitives
  <1>5. ASSUME NEW v, v \notin {"", "buf"} PROVE Does(E, IrTo(n, v), u, g, w, [g EXCEPT ![v] = b.id])
    BY <1>1, <1>2, <1>4, <1>5, PrimDoesTo DEF IrTo
  <1> QED BY <1>5 DEF u, w

-----------------------------------------------------------------------------
(* The debug unit.                                                         *)

\* A data scan into the control register of the debug unit.
LEMMA DrControl ==
    ASSUME NEW E, NEW g, NEW b, NEW cntrl, NEW tclk, NEW mab, NEW dto, NEW din, NEW mdb, NEW cpu,
           NEW d \in Nat,
           NEW c, c = [b EXCEPT !.eemctl = d], Moved(b, c, E)
    PROVE  Does(E, Dr(d), P(b, IR_EMEX_WRITE_CONTROL, cntrl, tclk, mab, dto, din, mdb, cpu), g, P(c, IR_EMEX_WRITE_CONTROL, cntrl, tclk, mab, dto, din, mdb, cpu), g)
  <1> DEFINE u == P(b, IR_EMEX_WRITE_CONTROL, cntrl, tclk, mab, dto, din, mdb, cpu)
  <1>0. Sound(b)
    BY DEF Moved
  <1>1. TargetStep(u, "dr", d) = P(c, IR_EMEX_WRITE_CONTROL, cntrl, tclk, mab, dto, din, mdb, cpu)
    <2>1. u.ir = IR_EMEX_WRITE_CONTROL
      BY <1>0, PFields DEF Sound
    <2>2. [u EXCEPT !.eemctl = d] = P(c, IR_EMEX_WRITE_CONTROL, cntrl, tclk, mab, dto, din, mdb, cpu)
      BY DEF P
    <2> HIDE DEF u
    <2>3. TargetStep(u, "dr", d) = [u EXCEPT !.eemctl = d]
      BY <2>1, DrStep
    <2> QED BY <2>2, <2>3
  <1>2. InPort(b, IR_EMEX_WRITE_CONTROL, cntrl, tclk, mab, dto, din, mdb, cpu) => InPort(c, IR_EMEX_WRITE_CONTROL, cntrl, tclk, mab, dto, din, mdb, cpu)
    BY InPortOf DEF Moved
  <1>3. "dr" \in Primitives
    BY DEF Primitives
  <1>4. Does(E, <<Prim("dr", d, "")>>, P(b, IR_EMEX_WRITE_CONTROL, cntrl, tclk, mab, dto, din, mdb, cpu), g, P(c, IR_EMEX_WRITE_CONTROL, cntrl, tclk, mab, dto, din, mdb, cpu), g)
    BY <1>1, <1>2, <1>3, ColsDo
  <1> QED BY <1>4 DEF Dr

\* A data scan of the debug unit takes an address or a word, and shows the word
\* at the address.
LEMMA EemStep ==
    ASSUME NEW b, b \in Target, NEW ir, NEW cntrl, NEW tclk, NEW mab, NEW dto, NEW din, NEW mdb,
           NEW cpu, ir \in EemCodes, NEW d, NEW c, c = EmexScan(b, d)
    PROVE  /\ TargetStep(P(b, ir, cntrl, tclk, mab, dto, din, mdb, cpu), "dr", d) = P(c, ir, cntrl, tclk, mab, dto, din, mdb, cpu)
           /\ TargetOut(P(b, ir, cntrl, tclk, mab, dto, din, mdb, cpu), "dr") = IF b.eemaddr - 1 \in DOMAIN b.eem THEN b.eem[b.eemaddr - 1] ELSE 0
  <1> DEFINE u == P(b, ir, cntrl, tclk, mab, dto, din, mdb, cpu)
             m == IF b.eemaddr % 2 = 0 /\ b.eemaddr \in DOMAIN b.eem
                  THEN [b.eem EXCEPT ![b.eemaddr] = d] ELSE b.eem
  <1>1. u.ir = ir /\ u.eemaddr = b.eemaddr /\ u.eem = b.eem
    BY PFields
  <1>2. [u EXCEPT !.eemaddr = d] = P([b EXCEPT !.eemaddr = d], ir, cntrl, tclk, mab, dto, din, mdb, cpu)
    BY DEF P
  <1>3. [u EXCEPT !.eemaddr = -1, !.eem = m] = P([b EXCEPT !.eemaddr = -1, !.eem = m], ir, cntrl, tclk, mab, dto, din, mdb, cpu)
    BY DEF P
  <1>4. c = IF b.eemaddr = -1 THEN [b EXCEPT !.eemaddr = d] ELSE [b EXCEPT !.eemaddr = -1, !.eem = m]
    BY DEF EmexScan, Target
  <1> HIDE DEF u
  <1>5. EmexScan(u, d) = IF b.eemaddr = -1 THEN [u EXCEPT !.eemaddr = d] ELSE [u EXCEPT !.eemaddr = -1, !.eem = m]
    BY <1>1 DEF EmexScan
  <1> HIDE DEF m
  <1>6. EmexScan(u, d) = P(c, ir, cntrl, tclk, mab, dto, din, mdb, cpu)
    <2>1. CASE b.eemaddr = -1
      <3>1. c = [b EXCEPT !.eemaddr = d] /\ EmexScan(u, d) = [u EXCEPT !.eemaddr = d]
        BY <1>4, <1>5, <2>1
      <3> QED BY <1>2, <3>1
    <2>2. CASE b.eemaddr # -1
      <3>1. c = [b EXCEPT !.eemaddr = -1, !.eem = m] /\ EmexScan(u, d) = [u EXCEPT !.eemaddr = -1, !.eem = m]
        BY <1>4, <1>5, <2>2
      <3> QED BY <1>3, <3>1
    <2> QED BY <2>1, <2>2
  <1>7. TargetStep(u, "dr", d) = EmexScan(u, d)
    BY <1>1, DrStep DEF EemCodes
  <1>8. TargetOut(u, "dr") = DrOut(u)
    BY DEF TargetOut
  <1>9. EemSelected(u) /\ u.ir \notin {IR_CNTRL_SIG_CAPTURE, IR_DATA_TO_ADDR, IR_DATA_CAPTURE, IR_DATA_QUICK}
    BY <1>1 DEF EemSelected, EemCodes, IR_EMEX_DATA_EXCHANGE, IR_EMEX_DATA_EXCHANGE32,
       IR_CNTRL_SIG_CAPTURE,
                IR_DATA_TO_ADDR, IR_DATA_CAPTURE, IR_DATA_QUICK
  <1>10. TargetOut(u, "dr") = IF b.eemaddr - 1 \in DOMAIN b.eem THEN b.eem[b.eemaddr - 1] ELSE 0
    BY <1>1, <1>8, <1>9 DEF DrOut
  <1> QED BY <1>6, <1>7, <1>10 DEF u

\* The exchange register takes an address and a value in turn.
LEMMA DrEem ==
    ASSUME NEW E, NEW g, NEW b, NEW ir, NEW cntrl, NEW tclk, NEW mab, NEW dto, NEW din, NEW mdb,
           NEW cpu, ir \in EemCodes, NEW d,
           NEW c, c = EmexScan(b, d), Moved(b, c, E)
    PROVE  /\ Does(E, Dr(d), P(b, ir, cntrl, tclk, mab, dto, din, mdb, cpu), g, P(c, ir, cntrl, tclk, mab, dto, din, mdb, cpu), g)
           /\ d = 0 => \A v, o : v \notin {"", "buf"}
                              /\ o = (IF b.eemaddr - 1 \in DOMAIN b.eem THEN b.eem[b.eemaddr - 1] ELSE 0)
                            => Does(E, DrTo(0, v), P(b, ir, cntrl, tclk, mab, dto, din, mdb, cpu), g, P(c, ir, cntrl, tclk, mab, dto, din, mdb, cpu), [g EXCEPT ![v] = o])
           /\ \A v, off : v \notin {"", "buf"} /\ d = (IF off = 0 THEN g[v] ELSE g[v] - Bit(g[v], off) * off)
                            => Does(E, DrFrom(v, off), P(b, ir, cntrl, tclk, mab, dto, din, mdb, cpu), g, P(c, ir, cntrl, tclk, mab, dto, din, mdb, cpu), g)
  <1> DEFINE u == P(b, ir, cntrl, tclk, mab, dto, din, mdb, cpu)
             w == P(c, ir, cntrl, tclk, mab, dto, din, mdb, cpu)
  <1>0. Sound(b) /\ b \in Target
    BY DEF Moved, Sound
  <1>1. /\ TargetStep(u, "dr", d) = w
        /\ TargetOut(u, "dr") = IF b.eemaddr - 1 \in DOMAIN b.eem THEN b.eem[b.eemaddr - 1] ELSE 0
    BY <1>0, EemStep
  <1>2. InPort(b, ir, cntrl, tclk, mab, dto, din, mdb, cpu) => InPort(c, ir, cntrl, tclk, mab, dto, din, mdb, cpu)
    BY InPortOf DEF Moved
  <1>3. "dr" \in Primitives
    BY DEF Primitives
  <1>4. Sound(u) => Sound(w) /\ Fits(E, u, w)
    BY <1>2, MovedFits
  <1> HIDE DEF u, w
  <1>5. Does(E, Dr(d), u, g, w, g)
    BY <1>1, <1>3, <1>4, PrimDoes DEF Dr
  <1>6. ASSUME d = 0, NEW v, v \notin {"", "buf"}, NEW o,
               o = IF b.eemaddr - 1 \in DOMAIN b.eem THEN b.eem[b.eemaddr - 1] ELSE 0
        PROVE  Does(E, DrTo(0, v), u, g, w, [g EXCEPT ![v] = o])
    <2>1. TargetOut(u, "dr") = o /\ TargetStep(u, "dr", 0) = w
      BY <1>1, <1>6
    <2> QED BY <1>3, <1>4, <1>6, <2>1, PrimDoesTo DEF DrTo
  <1>7. ASSUME NEW v, NEW off, v \notin {"", "buf"},
               d = IF off = 0 THEN g[v] ELSE g[v] - Bit(g[v], off) * off
        PROVE  Does(E, DrFrom(v, off), u, g, w, g)
    <2> DEFINE e == [Prim("dr", 0, "") EXCEPT !.from = v, !.off = off]
    <2>1. e.p = "dr" /\ e.from = v /\ e.off = off /\ e.to = ""
      BY DEF Prim
    <2> HIDE DEF e
    <2>2. Arg(e, g) = d /\ Took(e, g, TargetOut(u, e.p)) = g
      BY <1>7, <2>1 DEF Arg, Took
    <2>3. Does(E, <<e>>, u, g, w, g)
      BY <1>1, <1>3, <1>4, <2>1, <2>2, DoesPrim
    <2> QED BY <2>3 DEF DrFrom, e
  <1> QED BY <1>5, <1>6, <1>7 DEF u, w

-----------------------------------------------------------------------------
(* Registers that take nothing.                                            *)

\* The instructions whose scans show different things differ.
LEMMA CodesApart ==
    /\ IR_CNTRL_SIG_CAPTURE \notin EemCodes \cup Shows
    /\ \A n \in {IR_TEST_REG, IR_TEST_3V_REG} : n \notin EemCodes \cup Shows \cup {IR_CNTRL_SIG_CAPTURE}
    /\ \A n \in EemCodes : n \notin Shows \cup {IR_CNTRL_SIG_CAPTURE}
  BY DEF EemCodes, Shows, IR_EMEX_DATA_EXCHANGE, IR_EMEX_DATA_EXCHANGE32, IR_CNTRL_SIG_CAPTURE,
         IR_DATA_TO_ADDR, IR_DATA_CAPTURE, IR_DATA_QUICK, IR_TEST_REG, IR_TEST_3V_REG

\* What the scans show that do not reach the bus: the control signals, and the
\* test registers.
LEMMA DrUnseen ==
    ASSUME NEW E, NEW g, NEW b, Sound(b), NEW ir, NEW cntrl, NEW tclk, NEW mab, NEW dto, NEW din,
           NEW mdb, NEW cpu, ir \in Unseen
    PROVE  \A v : v \notin {"", "buf"} =>
           /\ ir = IR_CNTRL_SIG_CAPTURE
                 => Does(E, DrTo(0, v), P(b, ir, cntrl, tclk, mab, dto, din, mdb, cpu), g, P(b, ir, cntrl, tclk, mab, dto, din, mdb, cpu), [g EXCEPT ![v] = Captured(cntrl)])
           /\ ir \in {IR_TEST_REG, IR_TEST_3V_REG}
                 => Does(E, DrTo(0, v), P(b, ir, cntrl, tclk, mab, dto, din, mdb, cpu), g, P(b, ir, cntrl, tclk, mab, dto, din, mdb, cpu), [g EXCEPT ![v] = 0])
           /\ \A off : Does(E, DrFrom(v, off), P(b, ir, cntrl, tclk, mab, dto, din, mdb, cpu), g, P(b, ir, cntrl, tclk, mab, dto, din, mdb, cpu), g)
  <1> DEFINE u == P(b, ir, cntrl, tclk, mab, dto, din, mdb, cpu)
  <1>1. u.ir = ir /\ u.cntrl = cntrl
    BY PFields DEF Sound
  <1> HIDE DEF u
  <1>2. /\ \A n : TargetStep(u, "dr", n) = u
        /\ TargetOut(u, "dr") = DrOut(u) /\ "dr" \in Primitives /\ Fits(E, u, u)
    BY <1>1, DrStep DEF TargetOut, Primitives, Fits, Same
  <1>3. ASSUME ir = IR_CNTRL_SIG_CAPTURE, NEW v, v \notin {"", "buf"}
        PROVE  Does(E, DrTo(0, v), u, g, u, [g EXCEPT ![v] = Captured(cntrl)])
    <2>1. ~EemSelected(u) /\ u.ir \notin {IR_DATA_TO_ADDR, IR_DATA_CAPTURE, IR_DATA_QUICK}
      BY <1>1, <1>3, CodesApart DEF EemSelected, EemCodes, Shows
    <2>2. DrOut(u) = Captured(cntrl)
      BY <1>1, <1>3, <2>1 DEF DrOut, Captured
    <2> QED BY <1>2, <1>3, <2>2, PrimDoesTo DEF DrTo
  <1>4. ASSUME ir \in {IR_TEST_REG, IR_TEST_3V_REG}, NEW v, v \notin {"", "buf"}
        PROVE  Does(E, DrTo(0, v), u, g, u, [g EXCEPT ![v] = 0])
    <2>1. ~EemSelected(u) /\ u.ir \notin {IR_DATA_TO_ADDR, IR_DATA_CAPTURE, IR_DATA_QUICK, IR_CNTRL_SIG_CAPTURE}
      BY <1>1, <1>4, CodesApart DEF EemSelected, EemCodes, Shows
    <2>2. DrOut(u) = 0
      BY <2>1 DEF DrOut
    <2> QED BY <1>2, <1>4, <2>2, PrimDoesTo DEF DrTo
  <1>5. ASSUME NEW v, NEW off PROVE Does(E, DrFrom(v, off), u, g, u, g)
    <2> DEFINE e == [Prim("dr", 0, "") EXCEPT !.from = v, !.off = off]
    <2>1. e.p = "dr" /\ e.to = ""
      BY DEF Prim
    <2> HIDE DEF e
    <2>2. Took(e, g, TargetOut(u, e.p)) = g /\ u = TargetStep(u, e.p, Arg(e, g))
      BY <1>2, <2>1 DEF Took
    <2>3. Does(E, <<e>>, u, g, u, g)
      BY <1>2, <2>1, <2>2, DoesPrim
    <2> QED BY <2>3 DEF DrFrom, e
  <1> QED BY <1>3, <1>4, <1>5 DEF u

-----------------------------------------------------------------------------
(* The steps of a script.                                                  *)

\* An instruction and a data scan survive packing if they fit their fields.
LEMMA PackIrDr ==
    ASSUME NEW ir \in Octets, NEW d \in Values16
    PROVE  /\ kIrDr16(ir, d).cmd = "IrShiftDr"
           /\ Play1(kIrDr16(ir, d)) = Ir(ir) \o Dr(d)
           /\ d \in Octets => kIrDr8(ir, d) = kIrDr16(ir, d)
  <1> DEFINE s == kIrDr16(ir, d)
             n == d * 256 + ir
  <1>1. d % 2^16 = d /\ n % 2^24 = n /\ n % 256 = ir /\ n \div 256 = d
    BY DEF Values16, Octets, Nibbles
  <1>2. s.cmd = "IrShiftDr" /\ s.arg = n
    BY <1>1 DEF kIrDr16, TapStep
  <1> HIDE DEF s, n
  <1>3. Play1(s) = Ir(ir) \o Dr(d)
    BY <1>1, <1>2 DEF Play1, arg8, arg16
  <1>4. d \in Octets => kIrDr8(ir, d) = kIrDr16(ir, d)
    BY DEF kIrDr8, kIrDr16, Values16, Octets
  <1> QED BY <1>2, <1>3, <1>4 DEF s

\* So does an instruction with its clocks.
LEMMA PackIr ==
    ASSUME NEW ir \in Octets, NEW c1 \in Nibbles, NEW c2 \in Nibbles
    PROVE  /\ kIr(c1, ir, c2).cmd = "IrShift"
           /\ Play1(kIr(c1, ir, c2)) = OnTclk(c1) \o Ir(ir) \o OnTclk(c2)
  <1> DEFINE s == kIr(c1, ir, c2)
             n == ir * 256 + c2 * 16 + c1
  <1>1. n % 2^24 = n /\ n % 16 = c1 /\ (n \div 16) % 16 = c2 /\ n \div 256 = ir
    BY DEF Octets, Nibbles
  <1>2. s.cmd = "IrShift" /\ s.arg = n
    BY <1>1 DEF kIr, TapStep
  <1> HIDE DEF s, n
  <1>3. Play1(s) = OnTclk(c1) \o Ir(ir) \o OnTclk(c2)
    BY <1>1, <1>2 DEF Play1, arg4a, arg4b, arg16
  <1> QED BY <1>2, <1>3 DEF s

\* So does a word for the bus with its clocks.
LEMMA PackData ==
    ASSUME NEW d \in Values16, NEW c1 \in Nibbles, NEW c2 \in Nibbles
    PROVE  /\ kIrData16(c1, d, c2).cmd = "IrData16"
           /\ Play1(kIrData16(c1, d, c2)) = OnData16(c1, d, c2)
  <1> DEFINE s == kIrData16(c1, d, c2)
             n == d * 256 + c1 + c2 * 16
  <1>1. n % 2^24 = n /\ n % 16 = c1 /\ (n \div 16) % 16 = c2 /\ n \div 256 = d
    BY SMTT(30) DEF Values16, Octets, Nibbles
  <1>2. s.cmd = "IrData16" /\ s.arg = n
    BY <1>1 DEF kIrData16, TapStep
  <1> HIDE DEF s, n
  <1>3. Play1(s) = OnData16(c1, d, c2)
    BY <1>1, <1>2 DEF Play1, arg4a, arg4b, arg16
  <1> QED BY <1>2, <1>3 DEF s

\* The steps that are clocks only.
LEMMA PackEdge ==
    /\ Play1(kTclk0) = Clr /\ Play1(kTclk1) = Set /\ Play1(kPulseTclk) = PulseP
    /\ Play1(kPulseTclkN) = PulseN
    /\ kTclk0.cmd = "ClrTclk" /\ kTclk1.cmd = "SetTclk" /\ kPulseTclk.cmd = "PulseTclk"
    /\ kPulseTclkN.cmd = "PulseTclkN"
  BY DEF Play1, kTclk0, kTclk1, kPulseTclk, kPulseTclkN, TapStep

\* A data scan survives packing.
LEMMA PackDr ==
    ASSUME NEW d \in Values16
    PROVE  Play1(kDr16(d)) = Dr(d) /\ kDr16(d).cmd = "DrShift"
  <1>1. d % 2^24 = d
    BY DEF Values16, Octets, Nibbles
  <1> QED BY <1>1 DEF Play1, kDr16, TapStep

\* Steps with an argument.
LEMMA PackIrDrArgv ==
    ASSUME NEW ir \in Octets, NEW c1 \in Nibbles, NEW c2 \in Nibbles, NEW a
    PROVE  /\ kIrDr16Argv(c1, ir, c2).cmd = "IrShift16_argv"
           /\ PlayArgv(kIrDr16Argv(c1, ir, c2), a) = OnTclk(c1) \o Ir(ir) \o Dr(a % 2^16) \o OnTclk(c2)
  <1> DEFINE s == kIrDr16Argv(c1, ir, c2)
             n == ir * 256 + c2 * 16 + c1
  <1>1. n % 2^24 = n /\ n % 16 = c1 /\ (n \div 16) % 16 = c2 /\ n \div 256 = ir
    BY DEF Octets, Nibbles
  <1>2. s.cmd = "IrShift16_argv" /\ s.arg = n
    BY <1>1 DEF kIrDr16Argv, TapStep
  <1> HIDE DEF s, n
  <1>3. PlayArgv(s, a) = OnTclk(c1) \o Ir(ir) \o Dr(a % 2^16) \o OnTclk(c2)
    BY <1>1, <1>2 DEF PlayArgv, arg4a, arg4b, arg16
  <1> QED BY <1>2, <1>3 DEF s

\* An address is not packed: it is an argument, of 20 bits.
LEMMA PackIrDr20 ==
    ASSUME NEW ir \in Octets, NEW a
    PROVE  kIrDr20Argv(ir).cmd = "IrShift20_argv" /\ PlayArgv(kIrDr20Argv(ir), a) = Ir(ir) \o Dr(a)
  <1>1. ir % 2^24 = ir
    BY DEF Octets
  <1> QED BY <1>1 DEF PlayArgv, kIrDr20Argv, TapStep

\* A word for the bus that is an argument is cut to 16 bits.
LEMMA PackDataArgv ==
    ASSUME NEW c1 \in Nibbles, NEW c2 \in Nibbles, NEW a
    PROVE  /\ kIrData16Argv(c1, c2).cmd = "IrData16_argv"
           /\ PlayArgv(kIrData16Argv(c1, c2), a) = OnData16(c1, a % 2^16, c2)
  <1> DEFINE s == kIrData16Argv(c1, c2)
             n == c1 + c2 * 16
  <1>1. n % 2^24 = n /\ n % 16 = c1 /\ (n \div 16) % 16 = c2
    BY DEF Nibbles
  <1>2. s.cmd = "IrData16_argv" /\ s.arg = n
    BY <1>1 DEF kIrData16Argv, TapStep
  <1> HIDE DEF s, n
  <1>3. PlayArgv(s, a) = OnData16(c1, a % 2^16, c2)
    BY <1>1, <1>2 DEF PlayArgv, arg4a, arg4b
  <1> QED BY <1>2, <1>3 DEF s

\* Data scans and strobes with an argument.
LEMMA PackDrArgv ==
    ASSUME NEW a
    PROVE  /\ kDr16Argv.cmd = "DrShift16_argv" /\ PlayArgv(kDr16Argv, a) = Dr(a % 2^16)
           /\ kDr16ArgvI.cmd = "DrShift16_argv_i" /\ PlayArgv(kDr16ArgvI, a) = DrFrom(a, 0)
           /\ kStrobeTclkArgv.cmd = "Strobe_argv" /\ PlayArgv(kStrobeTclkArgv, a) = Strobe(a)
           /\ kDr16_ret(0).cmd = "DrShift16_argv_p" /\ PlayArgv(kDr16_ret(0), a) = DrTo(0, a)
  <1>1. 0 % 2^24 = 0
    OBVIOUS
  <1> QED BY <1>1 DEF PlayArgv, kDr16Argv, kDr16ArgvI, kStrobeTclkArgv, kDr16_ret, TapStep

\* Primitives are sequences.
LEMMA PrimSeq ==
    /\ \A n : IsSeq(Ir(n)) /\ IsSeq(Dr(n)) /\ IsSeq(Strobe(n)) /\ IsSeq(Delay(n))
    /\ \A n, v : IsSeq(IrTo(n, v)) /\ IsSeq(DrTo(n, v)) /\ IsSeq(DrFrom(v, n))
    /\ \A S, A, i, j : IsSeq(Playing(S, A, i, j)) /\ IsSeq(Play(S, A))
    /\ IsSeq(ReadJmbOut)
  BY SeqOne, NoneIsSeq DEF Ir, Dr, Strobe, Delay, IrTo, DrTo, DrFrom, Playing, Play, ReadJmbOut

\* Play stands before its first step and its first argument.
LEMMA RowBegin ==
    ASSUME NEW E, NEW S, NEW A, NEW t0, NEW g0
    PROVE  Reached(E, S, A, t0, g0, 1, 1, t0, g0)
  BY PathNone DEF Reached, Play

\* What a step of the script unpacks to is played next.
LEMMA RowNext ==
    ASSUME NEW E, NEW S, NEW A, NEW t0, NEW g0, NEW i, NEW j, NEW t1, NEW g1,
           Reached(E, S, A, t0, g0, i, j, t1, g1),
           NEW row, IsSeq(row), NEW e, <<e>> = Playing(S, A, i, j), e.p = "play",
           NEW rest, IsSeq(rest), Unpack(e) = row \o rest,
           NEW t2, NEW g2, Does(E, row, t1, g1, t2, g2)
    PROVE  Sound(t0) => /\ Sound(t2)
                        /\ \A r : IsSeq(r) => Path(E, <<t0, g0, Play(S, A) \o r>>, <<t2, g2, rest \o r>>)
  <1> SUFFICES ASSUME Sound(t0) PROVE Sound(t2) /\ \A r : IsSeq(r) =>
                 Path(E, <<t0, g0, Play(S, A) \o r>>, <<t2, g2, rest \o r>>)
    OBVIOUS
  <1>1. Sound(t1) /\ \A r : IsSeq(r) => Path(E, <<t0, g0, Play(S, A) \o r>>, <<t1, g1, <<e>> \o r>>)
    BY DEF Reached
  <1>2. Sound(t2) /\ \A r : IsSeq(r) => Path(E, <<t1, g1, row \o r>>, <<t2, g2, r>>)
    BY <1>1 DEF Does
  <1>3. ASSUME NEW r, IsSeq(r) PROVE Path(E, <<t0, g0, Play(S, A) \o r>>, <<t2, g2, rest \o r>>)
    <2> DEFINE c == <<t1, g1, <<e>> \o r>>
               d == <<t1, g1, (row \o rest) \o r>>
    <2>1. Moves(c, d)
      <3>1. c[3] # <<>> /\ Head(c[3]) = e /\ Tail(c[3]) = r
        BY <1>3, SeqOne
      <3> HIDE DEF c
      <3>2. After(c) = <<c[1], c[2], Unpack(e) \o r>>
        BY <3>1 DEF After, InPlaceOf, Primitives
      <3> QED BY <3>1, <3>2 DEF Moves, c
    <2>2. Link(E, c, d)
      BY <2>1, <1>1 DEF Link, Fits, Same
    <2>3. (row \o rest) \o r = row \o (rest \o r) /\ IsSeq(rest \o r)
      BY <1>3, SeqAssoc, SeqConcat
    <2>4. Path(E, <<t1, g1, row \o (rest \o r)>>, <<t2, g2, rest \o r>>)
      BY <1>2, <2>3
    <2>5. Path(E, <<t0, g0, Play(S, A) \o r>>, c)
      BY <1>1, <1>3
    <2>6. Path(E, c, <<t2, g2, rest \o r>>)
      BY <2>2, <2>3, <2>4, PathOne, PathJoin
    <2> HIDE DEF c, d
    <2> QED BY <2>5, <2>6, PathJoin
  <1> QED BY <1>2, <1>3

\* The kinds of steps.
LEMMA RowPlain ==
    ASSUME NEW E, NEW S, NEW A, NEW t0, NEW g0, NEW i \in 1 .. Len(S), Len(S) \in Nat, NEW j,
           NEW t1, NEW g1,
           Reached(E, S, A, t0, g0, i, j, t1, g1),
           S[i].cmd \in {"IrShift", "IrShiftDr", "DrShift", "IrData16", "ClrTclk", "SetTclk",
                         "PulseTclk", "PulseTclkN"},
           IsSeq(Play1(S[i])), NEW t2, NEW g2, Does(E, Play1(S[i]), t1, g1, t2, g2)
    PROVE  Reached(E, S, A, t0, g0, i + 1, j, t2, g2)
  <1> DEFINE e == [p |-> "play", steps |-> S, argv |-> A, i |-> i, j |-> j]
             row == Play1(S[i])
             rest == Playing(S, A, i + 1, j)
  <1>1. /\ e.p = "play" /\ e.steps = S /\ e.argv = A /\ e.i = i /\ e.j = j
        /\ <<e>> = Playing(S, A, i, j)
    BY DEF Playing
  <1> HIDE DEF e
  <1>2. i <= Len(S) /\ ~(i > Len(S)) /\ S[i].cmd \notin ArgvCommands /\ S[i].cmd # "ReleaseCpu"
    BY DEF ArgvCommands
  <1>3. Unpack(e) = row \o rest
    BY <1>1, <1>2 DEF Unpack
  <1>4. IsSeq(rest) /\ IsSeq(row) /\ Does(E, row, t1, g1, t2, g2)
    BY PrimSeq
  <1> HIDE DEF row, rest
  <1>5. Sound(t0) => /\ Sound(t2)
                     /\ \A r : IsSeq(r) => Path(E, <<t0, g0, Play(S, A) \o r>>,
                                                   <<t2, g2, rest \o r>>)
    BY <1>1, <1>3, <1>4, RowNext
  <1> QED BY <1>5 DEF Reached, rest

\* Play takes a step with its argument.
LEMMA RowArgv ==
    ASSUME NEW E, NEW S, NEW A, NEW t0, NEW g0, NEW i \in 1 .. Len(S), Len(S) \in Nat, NEW j,
           NEW t1, NEW g1,
           Reached(E, S, A, t0, g0, i, j, t1, g1), S[i].cmd \in ArgvCommands,
           IsSeq(PlayArgv(S[i], A[j])), NEW t2, NEW g2, Does(E, PlayArgv(S[i], A[j]), t1, g1, t2, g2)
    PROVE  Reached(E, S, A, t0, g0, i + 1, j + 1, t2, g2)
  <1> DEFINE e == [p |-> "play", steps |-> S, argv |-> A, i |-> i, j |-> j]
             row == PlayArgv(S[i], A[j])
             rest == Playing(S, A, i + 1, j + 1)
  <1>1. /\ e.p = "play" /\ e.steps = S /\ e.argv = A /\ e.i = i /\ e.j = j
        /\ <<e>> = Playing(S, A, i, j)
    BY DEF Playing
  <1> HIDE DEF e
  <1>2. i <= Len(S) /\ ~(i > Len(S)) /\ S[i].cmd # "ReleaseCpu"
    BY DEF ArgvCommands
  <1>3. Unpack(e) = row \o rest
    BY <1>1, <1>2 DEF Unpack
  <1>4. IsSeq(rest) /\ IsSeq(row) /\ Does(E, row, t1, g1, t2, g2)
    BY PrimSeq
  <1> HIDE DEF row, rest
  <1>5. Sound(t0) => /\ Sound(t2)
                     /\ \A r : IsSeq(r) => Path(E, <<t0, g0, Play(S, A) \o r>>,
                                                   <<t2, g2, rest \o r>>)
    BY <1>1, <1>3, <1>4, RowNext
  <1> QED BY <1>5 DEF Reached, rest

\* Play takes the step that lets the CPU go on.
LEMMA RowRelease ==
    ASSUME NEW E, NEW S, NEW A, NEW t0, NEW g0, NEW i \in 1 .. Len(S), Len(S) \in Nat, NEW j,
           NEW t1, NEW g1,
           Reached(E, S, A, t0, g0, i, j, t1, g1), S[i] = kReleaseCpu, IsSeq(ReleaseCpu),
           NEW t2, NEW g2, Does(E, ReleaseCpu, t1, g1, t2, g2)
    PROVE  Reached(E, S, A, t0, g0, i + 1, j, t2, g2)
  <1> DEFINE e == [p |-> "play", steps |-> S, argv |-> A, i |-> i, j |-> j]
             row == ReleaseCpu
             rest == Playing(S, A, i + 1, j)
  <1>1. /\ e.p = "play" /\ e.steps = S /\ e.argv = A /\ e.i = i /\ e.j = j
        /\ <<e>> = Playing(S, A, i, j)
    BY DEF Playing
  <1> HIDE DEF e
  <1>2. i <= Len(S) /\ ~(i > Len(S)) /\ S[i].cmd = "ReleaseCpu" /\ S[i].cmd \notin ArgvCommands
    BY DEF ArgvCommands, kReleaseCpu, TapStep
  <1>3. Unpack(e) = row \o rest
    BY <1>1, <1>2 DEF Unpack
  <1>4. IsSeq(rest) /\ IsSeq(row) /\ Does(E, row, t1, g1, t2, g2)
    BY PrimSeq
  <1> HIDE DEF row, rest
  <1>5. Sound(t0) => /\ Sound(t2)
                     /\ \A r : IsSeq(r) => Path(E, <<t0, g0, Play(S, A) \o r>>,
                                                   <<t2, g2, rest \o r>>)
    BY <1>1, <1>3, <1>4, RowNext
  <1> QED BY <1>5 DEF Reached, rest

\* Behind the last step the list has been played.
LEMMA RowEnd ==
    ASSUME NEW E, NEW S, NEW A, NEW t0, NEW g0, NEW i, i = Len(S) + 1, Len(S) \in Nat, NEW j,
           NEW t1, NEW g1,
           Reached(E, S, A, t0, g0, i, j, t1, g1)
    PROVE  Does(E, Play(S, A), t0, g0, t1, g1)
  <1> DEFINE e == [p |-> "play", steps |-> S, argv |-> A, i |-> i, j |-> j]
  <1>1. /\ e.p = "play" /\ e.steps = S /\ e.argv = A /\ e.i = i /\ e.j = j
        /\ <<e>> = Playing(S, A, i, j)
    BY DEF Playing
  <1> HIDE DEF e
  <1>2. i > Len(S) /\ ~(i <= Len(S))
    OBVIOUS
  <1>3. Unpack(e) = <<>>
    BY <1>1, <1>2 DEF Unpack
  <1>4. Unpack(e) = <<>> \o <<>> /\ IsSeq(<<>>) /\ Does(E, <<>>, t1, g1, t1, g1)
    BY <1>3, NoneIsSeq, SeqConcat, DoesNothing
  <1>5. Sound(t0) => /\ Sound(t1)
                     /\ \A r : IsSeq(r) => Path(E, <<t0, g0, Play(S, A) \o r>>, <<t1, g1, <<>> \o r>>)
    BY <1>1, <1>4, RowNext
  <1>6. \A r : IsSeq(r) => <<>> \o r = r
    BY SeqConcat
  <1> QED BY <1>5, <1>6 DEF Does

-----------------------------------------------------------------------------
(* The kinds of steps, in the form the scripts need them.                  *)

\* A step without an argument, found by its place.
LEMMA StepPlain ==
    ASSUME NEW E, NEW S, NEW A, NEW t0, NEW g0, NEW i, NEW j, NEW t1, NEW g1, NEW k, NEW x,
           Reached(E, S, A, t0, g0, i, j, t1, g1), At(S, i, k, x),
           x.cmd \in {"IrShift", "IrShiftDr", "DrShift", "IrData16", "ClrTclk", "SetTclk",
                      "PulseTclk", "PulseTclkN"},
           IsSeq(Play1(x)), NEW t2, NEW g2, Does(E, Play1(x), t1, g1, t2, g2)
    PROVE  Reached(E, S, A, t0, g0, k, j, t2, g2)
  <1>1. Len(S) \in Nat /\ i \in 1 .. Len(S) /\ S[i] = x /\ k = i + 1
    BY DEF At
  <1> QED BY <1>1, RowPlain

\* A step with an argument, both found by their places.
LEMMA StepArgv ==
    ASSUME NEW E, NEW S, NEW A, NEW t0, NEW g0, NEW i, NEW j, NEW t1, NEW g1, NEW k, NEW x, NEW l,
           NEW a,
           Reached(E, S, A, t0, g0, i, j, t1, g1), At(S, i, k, x), Given(A, j, l, a),
           x.cmd \in ArgvCommands,
           IsSeq(PlayArgv(x, a)), NEW t2, NEW g2, Does(E, PlayArgv(x, a), t1, g1, t2, g2)
    PROVE  Reached(E, S, A, t0, g0, k, l, t2, g2)
  <1>1. Len(S) \in Nat /\ i \in 1 .. Len(S) /\ S[i] = x /\ k = i + 1 /\ A[j] = a /\ l = j + 1
    BY DEF At, Given
  <1> QED BY <1>1, RowArgv

\* The step that lets the CPU go on, found by its place.
LEMMA StepRelease ==
    ASSUME NEW E, NEW S, NEW A, NEW t0, NEW g0, NEW i, NEW j, NEW t1, NEW g1, NEW k,
           Reached(E, S, A, t0, g0, i, j, t1, g1), At(S, i, k, kReleaseCpu),
           IsSeq(ReleaseCpu), NEW t2, NEW g2, Does(E, ReleaseCpu, t1, g1, t2, g2)
    PROVE  Reached(E, S, A, t0, g0, k, j, t2, g2)
  <1>1. Len(S) \in Nat /\ i \in 1 .. Len(S) /\ S[i] = kReleaseCpu /\ k = i + 1
    BY DEF At
  <1> QED BY <1>1, RowRelease

\* The commands with an argument.
LEMMA ArgvAre ==
    /\ "IrShift_argv_p" \in ArgvCommands /\ "IrShift16_argv" \in ArgvCommands
    /\ "IrShift20_argv" \in ArgvCommands /\ "DrShift16_argv" \in ArgvCommands
    /\ "DrShift16_argv_i" \in ArgvCommands /\ "DrShift16_argv_p" \in ArgvCommands
    /\ "IrData16_argv" \in ArgvCommands /\ "Strobe_argv" \in ArgvCommands
  BY DEF ArgvCommands

\* A step that clocks.
LEMMA RowEdge ==
    ASSUME NEW E, NEW S, NEW A, NEW t0, NEW g0, NEW i, NEW j, NEW g, NEW t1, NEW k, NEW x, NEW t2,
           Reached(E, S, A, t0, g0, i, j, t1, g), At(S, i, k, x),
           \/ x = kTclk0 /\ Edge(E, kdTclk0, t1, t2)
           \/ x = kTclk1 /\ Edge(E, kdTclk1, t1, t2)
           \/ x = kPulseTclk /\ Edge(E, kdTclkP, t1, t2)
           \/ x = kPulseTclkN /\ Edge(E, kdTclkN, t1, t2)
    PROVE  Reached(E, S, A, t0, g0, k, j, t2, g)
  <1>1. IsSeq(Play1(x)) /\ Does(E, Play1(x), t1, g, t2, g)
    BY PackEdge, PulseSeq, EdgeIs
  <1>2. x.cmd \in {"ClrTclk", "SetTclk", "PulseTclk", "PulseTclkN"}
    BY PackEdge
  <1> QED BY <1>1, <1>2, StepPlain

\* A step with an instruction scan between two clockings.
LEMMA RowIr ==
    ASSUME NEW E, NEW S, NEW A, NEW t0, NEW g0, NEW i, NEW j, NEW g, NEW t1, NEW k,
           NEW c1 \in Clocks, NEW c2 \in Clocks, NEW n \in Octets,
           Reached(E, S, A, t0, g0, i, j, t1, g), At(S, i, k, kIr(c1, n, c2)), NEW u, NEW w, NEW t2,
           Edge(E, c1, t1, u), Does(E, Ir(n), u, g, w, g), Edge(E, c2, w, t2)
    PROVE  Reached(E, S, A, t0, g0, k, j, t2, g)
  <1>3. c1 \in Nibbles /\ c2 \in Nibbles /\ IsSeq(OnTclk(c1)) /\ IsSeq(OnTclk(c2)) /\ IsSeq(Ir(n))
    BY ClockSeq, PrimSeq
  <1>4. Does(E, OnTclk(c1) \o Ir(n), t1, g, w, g) /\ IsSeq(OnTclk(c1) \o Ir(n))
    BY <1>3, DoesBoth DEF Edge
  <1>5. Does(E, OnTclk(c1) \o Ir(n) \o OnTclk(c2), t1, g, t2, g) /\ IsSeq(OnTclk(c1) \o Ir(n) \o OnTclk(c2))
    BY <1>3, <1>4, DoesBoth DEF Edge
  <1> DEFINE x == kIr(c1, n, c2)
  <1>6. Play1(x) = OnTclk(c1) \o Ir(n) \o OnTclk(c2) /\ x.cmd = "IrShift"
    BY <1>3, PackIr
  <1>7. At(S, i, k, x)
    OBVIOUS
  <1> HIDE DEF x
  <1> QED BY <1>5, <1>6, <1>7, StepPlain

\* A step with an instruction and a data scan.
LEMMA RowIrDr ==
    ASSUME NEW E, NEW S, NEW A, NEW t0, NEW g0, NEW i, NEW j, NEW g, NEW t1, NEW k,
           NEW n \in Octets, NEW d \in Values16,
           Reached(E, S, A, t0, g0, i, j, t1, g), At(S, i, k, kIrDr16(n, d)), NEW w, NEW t2, NEW g2,
           Does(E, Ir(n), t1, g, w, g), Does(E, Dr(d), w, g, t2, g2)
    PROVE  Reached(E, S, A, t0, g0, k, j, t2, g2)
  <1>3. IsSeq(Ir(n)) /\ IsSeq(Dr(d))
    BY PrimSeq
  <1>4. Does(E, Ir(n) \o Dr(d), t1, g, t2, g2) /\ IsSeq(Ir(n) \o Dr(d))
    BY <1>3, DoesBoth
  <1> DEFINE x == kIrDr16(n, d)
  <1>6. Play1(x) = Ir(n) \o Dr(d) /\ x.cmd = "IrShiftDr"
    BY PackIrDr
  <1>7. At(S, i, k, x)
    OBVIOUS
  <1> HIDE DEF x
  <1> QED BY <1>4, <1>6, <1>7, StepPlain

\* A step with a data scan.
LEMMA RowDr ==
    ASSUME NEW E, NEW S, NEW A, NEW t0, NEW g0, NEW i, NEW j, NEW g, NEW t1, NEW k,
           NEW d \in Values16, NEW t2, NEW g2,
           Reached(E, S, A, t0, g0, i, j, t1, g), At(S, i, k, kDr16(d)), Does(E, Dr(d), t1, g, t2, g2)
    PROVE  Reached(E, S, A, t0, g0, k, j, t2, g2)
  <1> DEFINE x == kDr16(d)
  <1>1. IsSeq(Dr(d)) /\ Play1(x) = Dr(d) /\ x.cmd = "DrShift"
    BY PackDr, PrimSeq
  <1>2. At(S, i, k, x)
    OBVIOUS
  <1> HIDE DEF x
  <1> QED BY <1>1, <1>2, StepPlain

\* A word for the bus between two clockings.
LEMMA DoesData ==
    ASSUME NEW E, NEW g, NEW t1, NEW u, NEW v, NEW w, NEW t2, NEW c1 \in Clocks, NEW c2 \in Clocks,
           NEW d,
           Does(E, Ir(IR_DATA_16BIT), t1, g, u, g), Edge(E, c1, u, v), Does(E, Dr(d), v, g, w, g),
           Edge(E, c2, w, t2)
    PROVE  Does(E, OnData16(c1, d, c2), t1, g, t2, g) /\ IsSeq(OnData16(c1, d, c2))
  <1> DEFINE n == IR_DATA_16BIT
  <1>4. IsSeq(OnTclk(c1)) /\ IsSeq(OnTclk(c2)) /\ IsSeq(Ir(n)) /\ IsSeq(Dr(d)) /\ Does(E, Ir(n), t1, g, u, g)
    BY ClockSeq, PrimSeq
  <1> HIDE DEF n
  <1>5. Does(E, Ir(n) \o OnTclk(c1), t1, g, v, g) /\ IsSeq(Ir(n) \o OnTclk(c1))
    BY <1>4, DoesBoth DEF Edge
  <1>6. Does(E, Ir(n) \o OnTclk(c1) \o Dr(d), t1, g, w, g) /\ IsSeq(Ir(n) \o OnTclk(c1) \o Dr(d))
    BY <1>4, <1>5, DoesBoth
  <1>7. /\ Does(E, Ir(n) \o OnTclk(c1) \o Dr(d) \o OnTclk(c2), t1, g, t2, g)
        /\ IsSeq(Ir(n) \o OnTclk(c1) \o Dr(d) \o OnTclk(c2))
    BY <1>4, <1>6, DoesBoth DEF Edge
  <1> QED BY <1>7 DEF OnData16, n

\* A step that puts a word on the bus.
LEMMA RowData ==
    ASSUME NEW E, NEW S, NEW A, NEW t0, NEW g0, NEW i, NEW j, NEW g, NEW t1, NEW k,
           NEW u, NEW v, NEW w, NEW t2, NEW c1 \in Clocks, NEW c2 \in Clocks, NEW d \in Values16,
           Reached(E, S, A, t0, g0, i, j, t1, g), At(S, i, k, kIrData16(c1, d, c2)),
           Does(E, Ir(IR_DATA_16BIT), t1, g, u, g), Edge(E, c1, u, v), Does(E, Dr(d), v, g, w, g),
           Edge(E, c2, w, t2)
    PROVE  Reached(E, S, A, t0, g0, k, j, t2, g)
  <1> DEFINE x == kIrData16(c1, d, c2)
  <1>1. Play1(x) = OnData16(c1, d, c2) /\ x.cmd = "IrData16"
    BY ClockSeq, PackData
  <1>2. At(S, i, k, x)
    OBVIOUS
  <1> HIDE DEF x
  <1>3. Does(E, OnData16(c1, d, c2), t1, g, t2, g) /\ IsSeq(OnData16(c1, d, c2))
    BY DoesData
  <1> QED BY <1>1, <1>2, <1>3, StepPlain

\* A step that puts an argument on the bus.
LEMMA RowDataArgv ==
    ASSUME NEW E, NEW S, NEW A, NEW t0, NEW g0, NEW i, NEW j, NEW g, NEW t1, NEW k, NEW l, NEW a,
           NEW u, NEW v, NEW w, NEW t2, NEW c1 \in Clocks, NEW c2 \in Clocks, NEW d, Low(a, d),
           Reached(E, S, A, t0, g0, i, j, t1, g), At(S, i, k, kIrData16Argv(c1, c2)), Given(A, j, l, a),
           Does(E, Ir(IR_DATA_16BIT), t1, g, u, g), Edge(E, c1, u, v), Does(E, Dr(d), v, g, w, g),
           Edge(E, c2, w, t2)
    PROVE  Reached(E, S, A, t0, g0, k, l, t2, g)
  <1> DEFINE x == kIrData16Argv(c1, c2)
  <1>0. d = a % 2^16
    BY DEF Low
  <1>1. PlayArgv(x, a) = OnData16(c1, d, c2) /\ x.cmd = "IrData16_argv"
    BY <1>0, ClockSeq, PackDataArgv
  <1>2. At(S, i, k, x)
    OBVIOUS
  <1> HIDE DEF x
  <1>3. Does(E, OnData16(c1, d, c2), t1, g, t2, g) /\ IsSeq(OnData16(c1, d, c2))
    BY DoesData
  <1> QED BY <1>1, <1>2, <1>3, StepArgv, ArgvAre

\* A scan between two clocks.
LEMMA RowIrDrArgv ==
    ASSUME NEW E, NEW S, NEW A, NEW t0, NEW g0, NEW i, NEW j, NEW g, NEW t1, NEW k, NEW l, NEW a,
           NEW c1 \in Clocks, NEW c2 \in Clocks, NEW n \in Octets, NEW d, Low(a, d),
           Reached(E, S, A, t0, g0, i, j, t1, g), At(S, i, k, kIrDr16Argv(c1, n, c2)), Given(A, j, l, a),
           NEW u, NEW v, NEW w, NEW t2, Edge(E, c1, t1, u), Does(E, Ir(n), u, g, v, g),
           Does(E, Dr(d), v, g, w, g), Edge(E, c2, w, t2)
    PROVE  Reached(E, S, A, t0, g0, k, l, t2, g)
  <1>3. c1 \in Nibbles /\ c2 \in Nibbles /\ IsSeq(OnTclk(c1)) /\ IsSeq(OnTclk(c2)) /\ IsSeq(Ir(n)) /\ IsSeq(Dr(d))
    BY ClockSeq, PrimSeq
  <1>4. Does(E, OnTclk(c1) \o Ir(n), t1, g, v, g) /\ IsSeq(OnTclk(c1) \o Ir(n))
    BY <1>3, DoesBoth DEF Edge
  <1>5. Does(E, OnTclk(c1) \o Ir(n) \o Dr(d), t1, g, w, g) /\ IsSeq(OnTclk(c1) \o Ir(n) \o Dr(d))
    BY <1>3, <1>4, DoesBoth
  <1>6. /\ Does(E, OnTclk(c1) \o Ir(n) \o Dr(d) \o OnTclk(c2), t1, g, t2, g)
        /\ IsSeq(OnTclk(c1) \o Ir(n) \o Dr(d) \o OnTclk(c2))
    BY <1>3, <1>5, DoesBoth DEF Edge
  <1> DEFINE x == kIrDr16Argv(c1, n, c2)
  <1>0. d = a % 2^16
    BY DEF Low
  <1>7. PlayArgv(x, a) = OnTclk(c1) \o Ir(n) \o Dr(a % 2^16) \o OnTclk(c2) /\ x.cmd = "IrShift16_argv"
    BY <1>3, PackIrDrArgv
  <1>8. At(S, i, k, x)
    OBVIOUS
  <1> HIDE DEF x
  <1>9. PlayArgv(x, a) = OnTclk(c1) \o Ir(n) \o Dr(d) \o OnTclk(c2)
    BY <1>0, <1>7
  <1> QED BY <1>6, <1>7, <1>8, <1>9, StepArgv, ArgvAre

\* A step that shifts an address of 20 bits.
LEMMA RowIrDr20 ==
    ASSUME NEW E, NEW S, NEW A, NEW t0, NEW g0, NEW i, NEW j, NEW g, NEW t1, NEW k, NEW l, NEW a,
           NEW n \in Octets,
           Reached(E, S, A, t0, g0, i, j, t1, g), At(S, i, k, kIrDr20Argv(n)), Given(A, j, l, a),
           NEW w, NEW t2, Does(E, Ir(n), t1, g, w, g), Does(E, Dr(a), w, g, t2, g)
    PROVE  Reached(E, S, A, t0, g0, k, l, t2, g)
  <1>3. IsSeq(Ir(n)) /\ IsSeq(Dr(a))
    BY PrimSeq
  <1>4. Does(E, Ir(n) \o Dr(a), t1, g, t2, g) /\ IsSeq(Ir(n) \o Dr(a))
    BY <1>3, DoesBoth
  <1> DEFINE x == kIrDr20Argv(n)
  <1>6. PlayArgv(x, a) = Ir(n) \o Dr(a) /\ x.cmd = "IrShift20_argv"
    BY PackIrDr20
  <1>7. At(S, i, k, x)
    OBVIOUS
  <1> HIDE DEF x
  <1> QED BY <1>4, <1>6, <1>7, StepArgv, ArgvAre

\* Data scans alone, and strobes.
LEMMA RowDrLow ==
    ASSUME NEW E, NEW S, NEW A, NEW t0, NEW g0, NEW i, NEW j, NEW g, NEW t1, NEW k, NEW l, NEW a,
           NEW t2, NEW g2, NEW d, Low(a, d), Reached(E, S, A, t0, g0, i, j, t1, g),
           At(S, i, k, kDr16Argv), Given(A, j, l, a),
           Does(E, Dr(d), t1, g, t2, g2)
    PROVE  Reached(E, S, A, t0, g0, k, l, t2, g2)
  <1> DEFINE x == kDr16Argv
  <1>1. At(S, i, k, x) /\ d = a % 2^16
    BY DEF Low
  <1>2. IsSeq(PlayArgv(x, a)) /\ Does(E, PlayArgv(x, a), t1, g, t2, g2) /\ x.cmd = "DrShift16_argv"
    BY <1>1, PackDrArgv, PrimSeq
  <1> HIDE DEF x
  <1> QED BY <1>1, <1>2, StepArgv, ArgvAre

\* A step that keeps what a data scan shows.
LEMMA RowDrTo ==
    ASSUME NEW E, NEW S, NEW A, NEW t0, NEW g0, NEW i, NEW j, NEW g, NEW t1, NEW k, NEW l, NEW a,
           NEW t2, NEW g2, Reached(E, S, A, t0, g0, i, j, t1, g), At(S, i, k, kDr16_ret(0)),
           Given(A, j, l, a),
           Does(E, DrTo(0, a), t1, g, t2, g2)
    PROVE  Reached(E, S, A, t0, g0, k, l, t2, g2)
  <1> DEFINE x == kDr16_ret(0)
  <1>1. At(S, i, k, x)
    OBVIOUS
  <1>2. IsSeq(PlayArgv(x, a)) /\ Does(E, PlayArgv(x, a), t1, g, t2, g2) /\ x.cmd = "DrShift16_argv_p"
    BY <1>1, PackDrArgv, PrimSeq
  <1> HIDE DEF x
  <1> QED BY <1>1, <1>2, StepArgv, ArgvAre

\* A step that shifts in what the driver kept.
LEMMA RowDrFrom ==
    ASSUME NEW E, NEW S, NEW A, NEW t0, NEW g0, NEW i, NEW j, NEW g, NEW t1, NEW k, NEW l, NEW a,
           NEW t2, NEW g2, Reached(E, S, A, t0, g0, i, j, t1, g), At(S, i, k, kDr16ArgvI),
           Given(A, j, l, a),
           Does(E, DrFrom(a, 0), t1, g, t2, g2)
    PROVE  Reached(E, S, A, t0, g0, k, l, t2, g2)
  <1> DEFINE x == kDr16ArgvI
  <1>1. At(S, i, k, x)
    OBVIOUS
  <1>2. IsSeq(PlayArgv(x, a)) /\ Does(E, PlayArgv(x, a), t1, g, t2, g2) /\ x.cmd = "DrShift16_argv_i"
    BY <1>1, PackDrArgv, PrimSeq
  <1> HIDE DEF x
  <1> QED BY <1>1, <1>2, StepArgv, ArgvAre

\* A step that strobes TCLK.
LEMMA RowStrobe ==
    ASSUME NEW E, NEW S, NEW A, NEW t0, NEW g0, NEW i, NEW j, NEW g, NEW t1, NEW k, NEW l, NEW a,
           NEW t2, NEW g2, Reached(E, S, A, t0, g0, i, j, t1, g), At(S, i, k, kStrobeTclkArgv),
           Given(A, j, l, a),
           Does(E, Strobe(a), t1, g, t2, g2)
    PROVE  Reached(E, S, A, t0, g0, k, l, t2, g2)
  <1> DEFINE x == kStrobeTclkArgv
  <1>1. At(S, i, k, x)
    OBVIOUS
  <1>2. IsSeq(PlayArgv(x, a)) /\ Does(E, PlayArgv(x, a), t1, g, t2, g2) /\ x.cmd = "Strobe_argv"
    BY <1>1, PackDrArgv, PrimSeq
  <1> HIDE DEF x
  <1> QED BY <1>1, <1>2, StepArgv, ArgvAre

\* Behind its last step the script has been played.
LEMMA ScriptEnd ==
    ASSUME NEW E, NEW S, NEW A, NEW t0, NEW g0, NEW k, Ends(S, k),
           NEW j, NEW t1, NEW g1, Reached(E, S, A, t0, g0, k, j, t1, g1)
    PROVE  Does(E, Play(S, A), t0, g0, t1, g1)
  BY RowEnd DEF Ends

-----------------------------------------------------------------------------
(* Clock edges and scans of a target at rest.                              *)

\* The bus of a sound target shows words.
LEMMA BusIn ==
    ASSUME NEW b, Sound(b), NEW a \in RegValues(b), NEW byte
    PROVE  BusRead(b, a, byte) \in Values16
  <1>1. b.per \in [Per8Addr -> Values16] /\ b.mem \in [MemAddr -> Values16]
    BY DEF Sound, Target
  <1>2. \A x : Word(b, x) \in Values16
    <2>1. \h3FFF \in Values16
      BY DEF Values16
    <2>2. DOMAIN b.mem = MemAddr
      BY <1>1
    <2> QED BY <1>1, <2>1, <2>2 DEF Word
  <1>3. \A w \in Values16 : w % 256 \in Values16 /\ w \div 256 \in Values16
    BY DEF Values16
  <1>4. a \in Int
    BY DEF RegValues, RegSize
  <1>5. a % 2 = 0 \/ a % 2 = 1
    BY <1>4
  <1>6. CASE a \in Per8Addr
    BY <1>1, <1>6 DEF BusRead
  <1>7. CASE a \notin Per8Addr
    <2> DEFINE w == Word(b, a - (a % 2))
    <2>1. w \in Values16
      BY <1>2
    <2>2. BusRead(b, a, byte) = CASE ~byte -> w
               [] byte /\ a % 2 = 0 -> w % 256
               [] byte /\ a % 2 = 1 -> w \div 256
      BY <1>7 DEF BusRead
    <2> HIDE DEF w
    <2> QED BY <2>1, <2>2, <1>3, <1>5
  <1> QED BY <1>6, <1>7

\* No edge, no change.
LEMMA EdgeNone ==
    ASSUME NEW E, NEW u
    PROVE  Edge(E, kdNone, u, u)
  BY EdgeIs

\* TCLK falls while the target rests.
LEMMA EdgeFall ==
    ASSUME NEW E, NEW b, Quiet(b), NEW ir, NEW cntrl, NEW mab, NEW dto, NEW din, NEW mdb, NEW cpu,
           ir # IR_DATA_QUICK
    PROVE  Edge(E, kdTclk0, P(b, ir, cntrl, 1, mab, dto, din, mdb, cpu), P(b, ir, cntrl, 0, mab, dto, din, mdb, cpu))
  BY Falls, EdgeIs DEF Quiet

\* TCLK that is low and made low.
LEMMA EdgeLow ==
    ASSUME NEW E, NEW b, Quiet(b), NEW ir, NEW cntrl, NEW mab, NEW dto, NEW din, NEW mdb, NEW cpu
    PROVE  Edge(E, kdTclk0, P(b, ir, cntrl, 0, mab, dto, din, mdb, cpu), P(b, ir, cntrl, 0, mab, dto, din, mdb, cpu))
  BY StaysLow, EdgeIs DEF Quiet

\* TCLK that is high and made high.
LEMMA EdgeHigh ==
    ASSUME NEW E, NEW b, Quiet(b), NEW ir, NEW cntrl, NEW mab, NEW dto, NEW din, NEW mdb, NEW cpu
    PROVE  Edge(E, kdTclk1, P(b, ir, cntrl, 1, mab, dto, din, mdb, cpu), P(b, ir, cntrl, 1, mab, dto, din, mdb, cpu))
  BY StaysHigh, EdgeIs DEF Quiet

\* TCLK rises in a read cycle.
LEMMA EdgeRead ==
    ASSUME NEW E, NEW b, Calm(b), NEW ir, NEW cntrl, NEW mab, NEW dto, NEW din, NEW mdb,
           Reads(b, cntrl), ir # IR_DATA_QUICK
    PROVE  Edge(E, kdTclk1, P(b, ir, cntrl, 0, mab, dto, din, mdb, Fetch), P(b, ir, cntrl, 1, mab, dto, din, Bus(b, cntrl, mab), Fetch))
  <1> DEFINE d == Bus(b, cntrl, mab)
  <1>1. d = BusRead(b, mab, Bit(cntrl, \h10) = 1)
    <2>1. CASE Bit(cntrl, \h10) = 1
      <3>1. (Bit(cntrl, \h10) = 1) = TRUE
        BY <2>1
      <3>2. d = BusRead(b, mab, TRUE)
        BY <2>1 DEF Bus
      <3> HIDE DEF d
      <3> QED BY <3>1, <3>2, Zenon
    <2>2. CASE ~(Bit(cntrl, \h10) = 1)
      <3>1. (Bit(cntrl, \h10) = 1) = FALSE
        BY <2>2
      <3>2. d = BusRead(b, mab, FALSE)
        BY <2>2 DEF Bus
      <3> HIDE DEF d
      <3> QED BY <3>1, <3>2, Zenon
    <2> QED BY <2>1, <2>2
  <1>2. mab \in RegValues(b) => d \in Values16
    BY BusIn DEF Bus, Calm, Quiet
  <1>3. Sound(b) /\ b.busy = 0
    BY DEF Calm, Quiet
  <1> HIDE DEF d
  <1>4. ASSUME NEW g PROVE Does(E, Set, P(b, ir, cntrl, 0, mab, dto, din, mdb, Fetch), g, P(b, ir, cntrl, 1, mab, dto, din, d, Fetch), g)
    BY <1>1, <1>2, <1>3, RisesReading
  <1>5. Edge(E, kdTclk1, P(b, ir, cntrl, 0, mab, dto, din, mdb, Fetch), P(b, ir, cntrl, 1, mab, dto, din, d, Fetch))
    BY <1>4, EdgeIs
  <1> QED BY <1>5 DEF d

\* TCLK rises and nothing happens.
LEMMA EdgeIdle ==
    ASSUME NEW E, NEW b, Calm(b), NEW ir, NEW cntrl, NEW mab, NEW dto, NEW din, NEW mdb,
           Rests(b, cntrl) \/ (Reads(b, cntrl) /\ ir = IR_DATA_QUICK)
              \/ (Writes(b, cntrl) /\ ir # IR_DATA_TO_ADDR)
    PROVE  Edge(E, kdTclk1, P(b, ir, cntrl, 0, mab, dto, din, mdb, Fetch), P(b, ir, cntrl, 1, mab, dto, din, mdb, Fetch))
  <1>3. Sound(b) /\ b.busy = 0
    BY DEF Calm, Quiet
  <1>4. ASSUME NEW g PROVE Does(E, Set, P(b, ir, cntrl, 0, mab, dto, din, mdb, Fetch), g, P(b, ir, cntrl, 1, mab, dto, din, mdb, Fetch), g)
    BY <1>3, RisesIdle
  <1> QED BY <1>4, EdgeIs

\* TCLK rises in a write cycle.
LEMMA EdgeWrite ==
    ASSUME NEW E, NEW b, NEW cntrl, NEW mab, NEW dto, NEW din, NEW mdb, Writes(b, cntrl), NEW c,
           Wrote(E, b, mab, dto, c)
    PROVE  Edge(E, kdTclk1, P(b, IR_DATA_TO_ADDR, cntrl, 0, mab, dto, din, mdb, Fetch),
                            P(c, IR_DATA_TO_ADDR, cntrl, 1, mab, dto, din, mdb, Fetch))
  <1>3. b.busy = 0 /\ c = BusWrite(b, mab - (mab % 2), dto) /\ Moved(b, c, E)
    BY DEF Wrote, Calm, Quiet
  <1>4. ASSUME NEW g PROVE Does(E, Set, P(b, IR_DATA_TO_ADDR, cntrl, 0, mab, dto, din, mdb, Fetch), g,
                                        P(c, IR_DATA_TO_ADDR, cntrl, 1, mab, dto, din, mdb, Fetch), g)
    BY <1>3, RisesWriting
  <1> QED BY <1>4, EdgeIs

\* With TCLK high the data is written as it comes.
LEMMA DrWrites ==
    ASSUME NEW E, NEW g, NEW b, NEW cntrl, NEW mab, NEW dto, NEW din, NEW mdb, NEW cpu,
           Writes(b, cntrl), NEW d \in Values16,
           NEW c, Wrote(E, b, mab, d, c)
    PROVE  Does(E, Dr(d), P(b, IR_DATA_TO_ADDR, cntrl, 1, mab, dto, din, mdb, cpu), g, P(c, IR_DATA_TO_ADDR, cntrl, 1, mab, d, din, mdb, cpu), g)
  <1>3. c = BusWrite(b, mab - (mab % 2), d) /\ Moved(b, c, E)
    BY DEF Wrote
  <1> QED BY <1>3, DrWriting

\* TCLK rises and the CPU takes an instruction.
LEMMA EdgeFetch ==
    ASSUME NEW E, NEW b, Calm(b), NEW ir, NEW cntrl, NEW mab, NEW dto, NEW din, NEW mdb,
           Executes(cntrl), NEW x, Fetches(b, din, x)
    PROVE  Edge(E, kdTclk1, P(b, ir, cntrl, 0, mab, dto, din, mdb, Fetch), P(b, ir, cntrl, 1, mab, dto, din, mdb, x))
  <1>3. Sound(b) /\ b.busy = 0 /\ x \in CpuStates /\ x = Decode(b, din)
    BY DEF Calm, Quiet, Fetches
  <1>4. ASSUME NEW g PROVE Does(E, Set, P(b, ir, cntrl, 0, mab, dto, din, mdb, Fetch), g, P(b, ir, cntrl, 1, mab, dto, din, mdb, x), g)
    BY <1>3, RisesFetch
  <1> QED BY <1>4, EdgeIs

\* TCLK rises and the CPU takes the word an instruction needs.
LEMMA EdgeLoad ==
    ASSUME NEW E, NEW b, NEW ir, NEW cntrl, NEW mab, NEW dto, NEW din, NEW mdb, Executes(cntrl),
           NEW x, NEW c, Loads(E, b, x, din, c)
    PROVE  Edge(E, kdTclk1, P(b, ir, cntrl, 0, mab, dto, din, mdb, x), P(c, ir, cntrl, 1, mab, dto, din, mdb, Fetch))
  <1>1. PICK r, hi : x = [k |-> "imm", r |-> r, hi |-> hi] /\ c = Loaded(b, r, hi * 2^16 + din)
    BY DEF Loads
  <1>2. b.busy = 0 /\ Moved(b, c, E)
    BY DEF Loads, Calm, Quiet
  <1>4. ASSUME NEW g PROVE Does(E, Set, P(b, ir, cntrl, 0, mab, dto, din, mdb, [k |-> "imm", r |-> r, hi |-> hi]), g, P(c, ir, cntrl, 1, mab, dto, din, mdb, Fetch), g)
    BY <1>1, <1>2, RisesLoad
  <1> QED BY <1>1, <1>4, EdgeIs

\* TCLK rises and the CPU shows the word it stores.
LEMMA EdgeStore ==
    ASSUME NEW E, NEW b, NEW ir, NEW cntrl, NEW mab, NEW dto, NEW din, NEW mdb, Executes(cntrl),
           NEW z, NEW c, NEW o, NEW x,
           Stores(E, b, z, din, mdb, c, o, x)
    PROVE  Edge(E, kdTclk1, P(b, ir, cntrl, 0, mab, dto, din, mdb, z), P(c, ir, cntrl, 1, mab, dto, din, o, x))
  <1>1. PICK r, hi : /\ z = [k |-> "abs", r |-> r, hi |-> hi] /\ c = Stored(b, r, din)
                     /\ x = Showing(IF b.drv = "x" THEN Tail(Shown(b, r)) ELSE Shown(b, r))
                     /\ o = IF b.drv = "x" THEN Head(Shown(b, r)) ELSE mdb
    BY DEF Stores
  <1>2. b.busy = 0 /\ Moved(b, c, E) /\ x \in CpuStates /\ (mdb \in Values16 => o \in Values16)
    BY DEF Stores, Calm, Quiet
  <1> DEFINE s == Shown(b, r)
  <1>3. s = Shown(b, r) /\ x = Showing(IF b.drv = "x" THEN Tail(s) ELSE s)
        /\ o = IF b.drv = "x" THEN Head(s) ELSE mdb
    BY <1>1
  <1> HIDE DEF s
  <1>4. ASSUME NEW g PROVE Does(E, Set, P(b, ir, cntrl, 0, mab, dto, din, mdb, [k |-> "abs", r |-> r, hi |-> hi]), g, P(c, ir, cntrl, 1, mab, dto, din, o, x), g)
    <2>1. CASE mdb \in Values16
      BY <1>1, <1>2, <1>3, <2>1, RisesStore
    <2>2. CASE mdb \notin Values16
      <3>1. Sound(b)
        BY DEF Stores, Calm, Quiet
      <3>2. ~Sound(P(b, ir, cntrl, 0, mab, dto, din, mdb, [k |-> "abs", r |-> r, hi |-> hi]))
        BY <2>2, <3>1, PSound DEF InPort
      <3> QED BY <3>2 DEF Does
    <2> QED BY <2>1, <2>2
  <1> QED BY <1>1, <1>4, EdgeIs

\* TCLK rises and the CPU shows an address.
LEMMA EdgeShow ==
    ASSUME NEW E, NEW b, Calm(b), NEW ir, NEW cntrl, NEW mab, NEW dto, NEW din, NEW mdb, NEW z,
           NEW x, NEW o, Displays(z, o, x)
    PROVE  Edge(E, kdTclk1, P(b, ir, cntrl, 0, mab, dto, din, mdb, z), P(b, ir, cntrl, 1, mab, dto, din, o, x))
  <1>1. PICK s : z = Showing(s) /\ s # <<>> /\ o = Head(s) /\ x = IF Len(s) = 1 THEN Fetch ELSE Showing(Tail(s))
    BY DEF Displays
  <1>3. Sound(b) /\ b.busy = 0 /\ o \in Values16 /\ x \in CpuStates
    BY DEF Calm, Quiet, Displays
  <1>4. ASSUME NEW g PROVE Does(E, Set, P(b, ir, cntrl, 0, mab, dto, din, mdb, Showing(s)), g, P(b, ir, cntrl, 1, mab, dto, din, o, x), g)
    BY <1>1, <1>3, RisesShowing
  <1> QED BY <1>1, <1>4, EdgeIs

\* TCLK falls in quick mode.
LEMMA EdgeQuick ==
    ASSUME NEW E, NEW b, NEW cntrl, NEW mab, NEW dto, NEW din, NEW mdb, NEW cpu, ~Executes(cntrl),
           NEW c, NEW o, Quick(E, b, c, o)
    PROVE  Edge(E, kdTclk0, P(b, IR_DATA_QUICK, cntrl, 1, mab, dto, din, mdb, cpu), P(c, IR_DATA_QUICK, cntrl, 0, mab, dto, din, o, cpu))
  <1>1. c = AtPc(b, PcPlus(b, 2)) /\ Moved(b, c, E) /\ o = Word(b, b.reg[0]) /\ o \in Values16
    BY DEF Quick
  <1>4. ASSUME NEW g PROVE Does(E, Clr, P(b, IR_DATA_QUICK, cntrl, 1, mab, dto, din, mdb, cpu), g, P(c, IR_DATA_QUICK, cntrl, 0, mab, dto, din, o, cpu), g)
    BY <1>1, FallsQuick
  <1> QED BY <1>4, EdgeIs

\* An instruction scan while the target rests.
LEMMA IrDoes ==
    ASSUME NEW E, NEW g, NEW b, Quiet(b), NEW ir, NEW cntrl, NEW tclk, NEW mab, NEW dto, NEW din,
           NEW mdb, NEW cpu, NEW n \in Octets, n # IR_CNTRL_SIG_RELEASE
    PROVE  Does(E, Ir(n), P(b, ir, cntrl, tclk, mab, dto, din, mdb, cpu), g, P(b, n, cntrl, tclk, mab, dto, din, mdb, cpu), g)
  BY DoesIr DEF Quiet, Octets

\* What is known of the codes.
LEMMA Ports ==
    /\ IR_ADDR_16BIT \in Octets /\ IR_ADDR_CAPTURE \in Octets /\ IR_DATA_TO_ADDR \in Octets
    /\ IR_DATA_16BIT \in Octets /\ IR_DATA_CAPTURE \in Octets /\ IR_CNTRL_SIG_16BIT \in Octets
    /\ IR_CNTRL_SIG_CAPTURE \in Octets /\ IR_CNTRL_SIG_HIGH_BYTE \in Octets
    /\ IR_CNTRL_SIG_LOW_BYTE \in Octets /\ IR_EMEX_DATA_EXCHANGE \in Octets
    /\ IR_EMEX_WRITE_CONTROL \in Octets /\ IR_EMEX_DATA_EXCHANGE32 \in Octets
    /\ IR_TEST_REG \in Octets /\ IR_TEST_3V_REG \in Octets /\ IR_DATA_QUICK \in Octets
    /\ IR_ADDR_16BIT # IR_CNTRL_SIG_RELEASE /\ IR_ADDR_CAPTURE # IR_CNTRL_SIG_RELEASE
    /\ IR_DATA_TO_ADDR # IR_CNTRL_SIG_RELEASE /\ IR_DATA_16BIT # IR_CNTRL_SIG_RELEASE
    /\ IR_DATA_CAPTURE # IR_CNTRL_SIG_RELEASE /\ IR_CNTRL_SIG_16BIT # IR_CNTRL_SIG_RELEASE
    /\ IR_CNTRL_SIG_CAPTURE # IR_CNTRL_SIG_RELEASE /\ IR_CNTRL_SIG_HIGH_BYTE # IR_CNTRL_SIG_RELEASE
    /\ IR_CNTRL_SIG_LOW_BYTE # IR_CNTRL_SIG_RELEASE /\ IR_EMEX_DATA_EXCHANGE # IR_CNTRL_SIG_RELEASE
    /\ IR_EMEX_WRITE_CONTROL # IR_CNTRL_SIG_RELEASE /\ IR_EMEX_DATA_EXCHANGE32 # IR_CNTRL_SIG_RELEASE
    /\ IR_TEST_REG # IR_CNTRL_SIG_RELEASE /\ IR_TEST_3V_REG # IR_CNTRL_SIG_RELEASE
    /\ IR_DATA_QUICK # IR_CNTRL_SIG_RELEASE
    /\ IR_ADDR_16BIT # IR_DATA_QUICK /\ IR_ADDR_CAPTURE # IR_DATA_QUICK /\ IR_DATA_TO_ADDR # IR_DATA_QUICK
    /\ IR_DATA_16BIT # IR_DATA_QUICK /\ IR_DATA_CAPTURE # IR_DATA_QUICK
    /\ IR_CNTRL_SIG_16BIT # IR_DATA_QUICK /\ IR_CNTRL_SIG_CAPTURE # IR_DATA_QUICK
    /\ IR_CNTRL_SIG_HIGH_BYTE # IR_DATA_QUICK /\ IR_CNTRL_SIG_LOW_BYTE # IR_DATA_QUICK
    /\ IR_EMEX_DATA_EXCHANGE # IR_DATA_QUICK /\ IR_EMEX_WRITE_CONTROL # IR_DATA_QUICK
    /\ IR_ADDR_CAPTURE \in Unseen /\ IR_DATA_CAPTURE \in Unseen /\ IR_DATA_QUICK \in Unseen
    /\ IR_DATA_TO_ADDR \in Shows /\ IR_DATA_CAPTURE \in Shows /\ IR_DATA_QUICK \in Shows
    /\ IR_DATA_16BIT # IR_DATA_TO_ADDR /\ IR_DATA_CAPTURE # IR_DATA_TO_ADDR
    /\ IR_CNTRL_SIG_16BIT # IR_DATA_TO_ADDR /\ IR_ADDR_CAPTURE # IR_DATA_TO_ADDR
    /\ IR_ADDR_16BIT # IR_DATA_TO_ADDR /\ IR_CNTRL_SIG_LOW_BYTE # IR_DATA_TO_ADDR
    /\ IR_CNTRL_SIG_HIGH_BYTE # IR_DATA_TO_ADDR /\ IR_CNTRL_SIG_CAPTURE # IR_DATA_TO_ADDR
    /\ kdNone \in Clocks /\ kdTclk0 \in Clocks /\ kdTclk1 \in Clocks /\ kdTclkP \in Clocks
    /\ kdTclkN \in Clocks
  BY Codes DEF Clocks

\* Words the scripts give.
LEMMA PackAlike ==
    ASSUME NEW ir \in Octets
    PROVE  \A d \in {\h34, \h24, \h08, \h09, \h19} : d \in Values16 /\ kIrDr8(ir, d) = kIrDr16(ir, d)
  <1>1. \A d \in {\h34, \h24, \h08, \h09, \h19} : d \in Octets /\ d \in Values16
    BY DEF Octets, Values16
  <1> QED BY <1>1, PackIrDr

\* The local variables that hold one word.
LEMMA PlainAre ==
    /\ Plain("data") /\ Plain("rx_l") /\ Plain("rx_h") /\ Plain("ctrl") /\ Plain("sig")
    /\ Plain("jtagId") /\ Plain("jtag_id") /\ Plain("back_r0") /\ Plain("backup0")
    /\ Plain("backup1") /\ Plain("backup2") /\ Plain("clk_ctrl") /\ Plain("reg_3V")
    /\ Plain("reg_test") /\ Plain("tmp")
  BY DEF Plain

\* A data scan keeps what is on the bus.
LEMMA DrShown ==
    ASSUME NEW E, NEW g, NEW b, Sound(b), NEW ir, NEW cntrl, NEW tclk, NEW mab, NEW dto, NEW din,
           NEW mdb, NEW cpu, ir \in Shows, ir # IR_DATA_TO_ADDR,
           tclk = 0 \/ ~Writes(b, cntrl), NEW v, Plain(v)
    PROVE  Does(E, DrTo(0, v), P(b, ir, cntrl, tclk, mab, dto, din, mdb, cpu), g, P(b, ir, cntrl, tclk, mab, dto, din, mdb, cpu), Got(g, v, mdb))
  BY DrShows DEF Got, Plain

\* So does one that also shifts in the word to be written, a zero.
LEMMA DrShownDto ==
    ASSUME NEW E, NEW g, NEW b, Sound(b), NEW cntrl, NEW tclk, NEW mab, NEW dto, NEW din, NEW mdb, NEW cpu, tclk = 0 \/ ~Writes(b, cntrl), NEW v, Plain(v)
    PROVE  Does(E, DrTo(0, v), P(b, IR_DATA_TO_ADDR, cntrl, tclk, mab, dto, din, mdb, cpu), g, P(b, IR_DATA_TO_ADDR, cntrl, tclk, mab, 0, din, mdb, cpu), Got(g, v, mdb))
  BY DrShows, Ports DEF Got, Plain

\* What is on the bus is appended to the buffer.
LEMMA DrShownBuf ==
    ASSUME NEW E, NEW g, NEW b, Sound(b), NEW ir, NEW cntrl, NEW tclk, NEW mab, NEW dto, NEW din,
           NEW mdb, NEW cpu, ir \in Shows, ir # IR_DATA_TO_ADDR,
           tclk = 0 \/ ~Writes(b, cntrl)
    PROVE  Does(E, DrTo(0, "buf"), P(b, ir, cntrl, tclk, mab, dto, din, mdb, cpu), g, P(b, ir, cntrl, tclk, mab, dto, din, mdb, cpu), Also(g, mdb))
  BY DrShows DEF Also

\* So it is by the scan that also shifts in a zero.
LEMMA DrShownDtoBuf ==
    ASSUME NEW E, NEW g, NEW b, Sound(b), NEW cntrl, NEW tclk, NEW mab, NEW dto, NEW din, NEW mdb, NEW cpu, tclk = 0 \/ ~Writes(b, cntrl)
    PROVE  Does(E, DrTo(0, "buf"), P(b, IR_DATA_TO_ADDR, cntrl, tclk, mab, dto, din, mdb, cpu), g, P(b, IR_DATA_TO_ADDR, cntrl, tclk, mab, 0, din, mdb, cpu), Also(g, mdb))
  BY DrShows, Ports DEF Also

\* The control signals are kept.
LEMMA DrCaptured ==
    ASSUME NEW E, NEW g, NEW b, Sound(b), NEW cntrl, NEW tclk, NEW mab, NEW dto, NEW din, NEW mdb,
           NEW cpu, NEW v, Plain(v)
    PROVE  Does(E, DrTo(0, v), P(b, IR_CNTRL_SIG_CAPTURE, cntrl, tclk, mab, dto, din, mdb, cpu), g, P(b, IR_CNTRL_SIG_CAPTURE, cntrl, tclk, mab, dto, din, mdb, cpu),
                Got(g, v, Captured(cntrl)))
  <1>1. IR_CNTRL_SIG_CAPTURE \in Unseen
    BY DEF Unseen
  <1> QED BY <1>1, DrUnseen DEF Got, Plain

\* Words of program that do nothing.
LEMMA Nops ==
    ASSUME NEW b
    PROVE  Fetches(b, \h3FFD, Fetch) /\ Fetches(b, \h4303, Fetch) /\ Fetches(b, \h3FFF, Fetch)
  BY DEF Fetches, Decode, CpuStates

\* A step that shifts an address, of 16 or of 20 bits.
LEMMA RowAddr ==
    ASSUME NEW E, NEW S, NEW A, NEW t0, NEW g0, NEW i, NEW j, NEW g, NEW t1, NEW k, NEW l, NEW x,
           NEW a,
           NEW w, NEW t2, Addressing(x, a),
           Reached(E, S, A, t0, g0, i, j, t1, g), At(S, i, k, x), Given(A, j, l, a),
           Does(E, Ir(IR_ADDR_16BIT), t1, g, w, g), Does(E, Dr(a), w, g, t2, g)
    PROVE  Reached(E, S, A, t0, g0, k, l, t2, g)
  <1>1. CASE x = kAddr20
    BY <1>1, RowIrDr20, Ports DEF kAddr20
  <1>2. CASE x = kAddr16 /\ a \in Values16
    <2>1. Low(a, a)
      BY <1>2 DEF Low, Values16
    <2>2. At(S, i, k, kIrDr16Argv(kdNone, IR_ADDR_16BIT, kdNone))
      BY <1>2 DEF kAddr16
    <2>3. IR_ADDR_16BIT \in Octets /\ kdNone \in Clocks
      BY Ports
    <2>4. Edge(E, kdNone, t1, t1) /\ Edge(E, kdNone, t2, t2)
      BY EdgeNone
    <2> QED BY <2>1, <2>2, <2>3, <2>4, RowIrDrArgv
  <1> QED BY <1>1, <1>2 DEF Addressing

\* A change of the target keeps the sizes of its registers.
LEMMA RegsSame ==
    ASSUME NEW E, NEW b, NEW c, Moved(b, c, E)
    PROVE  RegValues(c) = RegValues(b)
  BY DEF Moved, RegValues, RegSize

\* The bus is not written while the CPU executes.
LEMMA ExecutesOnly ==
    ASSUME NEW b, NEW c, Executes(c)
    PROVE  ~Writes(b, c)
  BY DEF Executes, Writes, HasBus

\* Addresses of peripherals.
LEMMA Peripherals ==
    ASSUME NEW b
    PROVE  \A a \in {\h120, \h128, \h12A, \h12C, \h14C, \h15C, \h18C, \h1CC} : a \in RegValues(b) /\ a \in Values16
  BY DEF RegValues, RegSize, Values16

-----------------------------------------------------------------------------
(* The scripts of the drivers.                                             *)

\* A JMP $ keeps the CPU where it is, and JTAG takes the bus.
LEMMA HaltCpuDoes ==
    ASSUME NEW E, NEW g, NEW b, Calm(b), Legacy(b), NEW ir, NEW cntrl, NEW mab, NEW dto, NEW din,
           NEW mdb
    PROVE  Does(E, HaltCpu, P(b, ir, cntrl, 1, mab, dto, din, mdb, Fetch), g,
                P(b, IR_CNTRL_SIG_16BIT, \h2409, 1, mab, dto, \h3FFF, Bus(b, \h2409, mab), Fetch), g)
  <1> DEFINE S == <<kIrData16(kdNone, \h3FFF, kdTclk0),
                    kIrDr16(IR_CNTRL_SIG_16BIT, \h2409),
                    kTclk1>>
             A == <<>>
             u0 == P(b, ir, cntrl, 1, mab, dto, din, mdb, Fetch)
             u1 == P(b, IR_DATA_16BIT, cntrl, 1, mab, dto, din, mdb, Fetch)
             u2 == P(b, IR_DATA_16BIT, cntrl, 1, mab, dto, \h3FFF, mdb, Fetch)
             u3 == P(b, IR_DATA_16BIT, cntrl, 0, mab, dto, \h3FFF, mdb, Fetch)
             u4 == P(b, IR_CNTRL_SIG_16BIT, cntrl, 0, mab, dto, \h3FFF, mdb, Fetch)
             u5 == P(b, IR_CNTRL_SIG_16BIT, \h2409, 0, mab, dto, \h3FFF, mdb, Fetch)
             u6 == P(b, IR_CNTRL_SIG_16BIT, \h2409, 1, mab, dto, \h3FFF, Bus(b, \h2409, mab), Fetch)
  <1>l. Len(S) = 3
        /\ S[1] = kIrData16(kdNone, \h3FFF, kdTclk0) /\ S[2] = kIrDr16(IR_CNTRL_SIG_16BIT, \h2409) /\ S[3] = kTclk1
    OBVIOUS
  <1> HIDE DEF S, A
  <1>0. /\ At(S, 1, 2, kIrData16(kdNone, \h3FFF, kdTclk0)) /\ At(S, 2, 3, kIrDr16(IR_CNTRL_SIG_16BIT, \h2409))
        /\ At(S, 3, 4, kTclk1) /\ Ends(S, 4)
    BY <1>l DEF At, Given, Ends
  <1>q. /\ Sound(b) /\ Quiet(b) /\ Calm(b) /\ Legacy(b)
    BY DEF Calm, Quiet
  <1>k. /\ \h2409 \in Values16 /\ \h3FFF \in Values16 /\ Reads(b, \h2409) /\ ~Writes(b, \h2409)
    BY <1>q, ControlWords, ExecutesOnly DEF Values16
  <1> HIDE DEF u0, u1, u2, u3, u4, u5, u6
  <1>1. Reached(E, S, A, u0, g, 1, 1, u0, g)
    BY RowBegin
  <1>2. Does(E, Ir(IR_DATA_16BIT), u0, g, u1, g)
    BY <1>q, <1>k, Ports, IrDoes DEF u0, u1
  <1>3. Edge(E, kdNone, u1, u1)
    BY EdgeNone
  <1>4. Does(E, Dr(\h3FFF), u1, g, u2, g)
    BY <1>q, <1>k, DrDin DEF u1, u2
  <1>5. Edge(E, kdTclk0, u2, u3)
    BY <1>q, <1>k, Ports, EdgeFall DEF u2, u3
  <1>6. Reached(E, S, A, u0, g, 2, 1, u3, g)
    BY <1>0, <1>k, Ports, <1>1, <1>2, <1>3, <1>4, <1>5, RowData
  <1>7. Does(E, Ir(IR_CNTRL_SIG_16BIT), u3, g, u4, g)
    BY <1>q, <1>k, Ports, IrDoes DEF u3, u4
  <1>8. Does(E, Dr(\h2409), u4, g, u5, g)
    BY <1>q, <1>k, DrCntrl DEF u4, u5
  <1>9. Reached(E, S, A, u0, g, 3, 1, u5, g)
    BY <1>0, <1>k, Ports, <1>6, <1>7, <1>8, RowIrDr
  <1>10. Edge(E, kdTclk1, u5, u6)
    BY <1>q, <1>k, Ports, EdgeRead DEF u5, u6
  <1>11. Reached(E, S, A, u0, g, 4, 1, u6, g)
    BY <1>0, <1>k, Ports, <1>9, <1>10, RowEdge
  <1>12. Does(E, Play(S, A), u0, g, u6, g)
    BY <1>0, <1>11, ScriptEnd
  <1> QED BY <1>12 DEF S, A, u0, u6, HaltCpu

\* MOV #imm,PC.
LEMMA SetPCDoes ==
    ASSUME NEW E, NEW g, NEW b, Calm(b), Legacy(b), NEW ir, NEW cntrl, NEW mab, NEW dto, NEW din,
           NEW mdb,
           NEW address, NEW d, Low(address, d), NEW x, Fetches(b, \h4030, x), NEW c,
           Loads(E, b, x, d, c)
    PROVE  Does(E, SetPC(address), P(b, ir, cntrl, 1, mab, dto, din, mdb, Fetch), g,
                P(c, IR_CNTRL_SIG_16BIT, \h2401, 1, mab, dto, d, mdb, Fetch), g)
  <1> DEFINE S == <<kIrDr16(IR_CNTRL_SIG_16BIT, \h3401),
                    kIrData16(kdNone, \h4030, kdTclkN),
                    kDr16Argv,
                    kIr(kdTclkN, IR_ADDR_CAPTURE, kdTclk0),
                    kIrDr16(IR_CNTRL_SIG_16BIT, \h2401),
                    kTclk1>>
             A == <<address>>
             u0 == P(b, ir, cntrl, 1, mab, dto, din, mdb, Fetch)
             u1 == P(b, IR_CNTRL_SIG_16BIT, cntrl, 1, mab, dto, din, mdb, Fetch)
             u2 == P(b, IR_CNTRL_SIG_16BIT, \h3401, 1, mab, dto, din, mdb, Fetch)
             u3 == P(b, IR_DATA_16BIT, \h3401, 1, mab, dto, din, mdb, Fetch)
             u4 == P(b, IR_DATA_16BIT, \h3401, 1, mab, dto, \h4030, mdb, Fetch)
             u5 == P(b, IR_DATA_16BIT, \h3401, 0, mab, dto, \h4030, mdb, Fetch)
             u6 == P(b, IR_DATA_16BIT, \h3401, 1, mab, dto, \h4030, mdb, x)
             u7 == P(b, IR_DATA_16BIT, \h3401, 1, mab, dto, d, mdb, x)
             u8 == P(b, IR_DATA_16BIT, \h3401, 0, mab, dto, d, mdb, x)
             u9 == P(c, IR_DATA_16BIT, \h3401, 1, mab, dto, d, mdb, Fetch)
             u10 == P(c, IR_ADDR_CAPTURE, \h3401, 1, mab, dto, d, mdb, Fetch)
             u11 == P(c, IR_ADDR_CAPTURE, \h3401, 0, mab, dto, d, mdb, Fetch)
             u12 == P(c, IR_CNTRL_SIG_16BIT, \h3401, 0, mab, dto, d, mdb, Fetch)
             u13 == P(c, IR_CNTRL_SIG_16BIT, \h2401, 0, mab, dto, d, mdb, Fetch)
             u14 == P(c, IR_CNTRL_SIG_16BIT, \h2401, 1, mab, dto, d, mdb, Fetch)
  <1>l. Len(S) = 6
        /\ S[1] = kIrDr16(IR_CNTRL_SIG_16BIT, \h3401) /\ S[2] = kIrData16(kdNone, \h4030, kdTclkN) /\ S[3] = kDr16Argv
        /\ S[4] = kIr(kdTclkN, IR_ADDR_CAPTURE, kdTclk0) /\ S[5] = kIrDr16(IR_CNTRL_SIG_16BIT, \h2401) /\ S[6] = kTclk1
    OBVIOUS
  <1>a. A[1] = address
    OBVIOUS
  <1> HIDE DEF S, A
  <1>0. /\ At(S, 1, 2, kIrDr16(IR_CNTRL_SIG_16BIT, \h3401)) /\ At(S, 2, 3, kIrData16(kdNone, \h4030, kdTclkN))
        /\ At(S, 3, 4, kDr16Argv) /\ At(S, 4, 5, kIr(kdTclkN, IR_ADDR_CAPTURE, kdTclk0))
        /\ At(S, 5, 6, kIrDr16(IR_CNTRL_SIG_16BIT, \h2401)) /\ At(S, 6, 7, kTclk1)
        /\ Ends(S, 7) /\ Given(A, 1, 2, address)
    BY <1>l, <1>a DEF At, Given, Ends
  <1>q. /\ Sound(b) /\ Quiet(b) /\ Calm(b) /\ Legacy(b)
        /\ Sound(c) /\ Quiet(c) /\ Calm(c) /\ Legacy(c)
    BY DEF Calm, Quiet, Loads, Low
  <1>v. d \in Values16
    BY ControlWords DEF Low
  <1>k. /\ d \in Values16 /\ \h2401 \in Values16 /\ \h3401 \in Values16 /\ \h4030 \in Values16 /\ Rests(b, \h2401) /\ ~Writes(b, \h2401)
        /\ Rests(c, \h2401) /\ ~Writes(c, \h2401) /\ Executes(\h3401) /\ ~Writes(b, \h3401) /\ Executes(\h3401) /\ ~Writes(c, \h3401)
    BY <1>q, ControlWords, ExecutesOnly, <1>v DEF Values16
  <1> HIDE DEF u0, u1, u2, u3, u4, u5, u6, u7, u8, u9, u10, u11, u12, u13, u14
  <1>1. Reached(E, S, A, u0, g, 1, 1, u0, g)
    BY RowBegin
  <1>2. Does(E, Ir(IR_CNTRL_SIG_16BIT), u0, g, u1, g)
    BY <1>q, <1>k, Ports, IrDoes DEF u0, u1
  <1>3. Does(E, Dr(\h3401), u1, g, u2, g)
    BY <1>q, <1>k, DrCntrl DEF u1, u2
  <1>4. Reached(E, S, A, u0, g, 2, 1, u2, g)
    BY <1>0, <1>k, Ports, <1>1, <1>2, <1>3, RowIrDr
  <1>5. Does(E, Ir(IR_DATA_16BIT), u2, g, u3, g)
    BY <1>q, <1>k, Ports, IrDoes DEF u2, u3
  <1>6. Edge(E, kdNone, u3, u3)
    BY EdgeNone
  <1>7. Does(E, Dr(\h4030), u3, g, u4, g)
    BY <1>q, <1>k, DrDin DEF u3, u4
  <1>8. Edge(E, kdTclk0, u4, u5)
    BY <1>q, <1>k, Ports, EdgeFall DEF u4, u5
  <1>9. Edge(E, kdTclk1, u5, u6)
    BY <1>q, <1>k, EdgeFetch DEF u5, u6
  <1>10. Edge(E, kdTclkN, u4, u6)
    BY <1>8, <1>9, EdgePulse
  <1>11. Reached(E, S, A, u0, g, 3, 1, u6, g)
    BY <1>0, <1>k, Ports, <1>4, <1>5, <1>6, <1>7, <1>10, RowData
  <1>12. Does(E, Dr(d), u6, g, u7, g)
    BY <1>q, <1>k, DrDin DEF u6, u7
  <1>13. Reached(E, S, A, u0, g, 4, 2, u7, g)
    BY <1>0, <1>k, Ports, <1>11, <1>12, RowDrLow
  <1>14. Edge(E, kdTclk0, u7, u8)
    BY <1>q, <1>k, Ports, EdgeFall DEF u7, u8
  <1>15. Edge(E, kdTclk1, u8, u9)
    BY <1>q, <1>k, EdgeLoad DEF u8, u9
  <1>16. Edge(E, kdTclkN, u7, u9)
    BY <1>14, <1>15, EdgePulse
  <1>17. Does(E, Ir(IR_ADDR_CAPTURE), u9, g, u10, g)
    BY <1>q, <1>k, Ports, IrDoes DEF u9, u10
  <1>18. Edge(E, kdTclk0, u10, u11)
    BY <1>q, <1>k, Ports, EdgeFall DEF u10, u11
  <1>19. Reached(E, S, A, u0, g, 5, 2, u11, g)
    BY <1>0, <1>k, Ports, <1>13, <1>16, <1>17, <1>18, RowIr
  <1>20. Does(E, Ir(IR_CNTRL_SIG_16BIT), u11, g, u12, g)
    BY <1>q, <1>k, Ports, IrDoes DEF u11, u12
  <1>21. Does(E, Dr(\h2401), u12, g, u13, g)
    BY <1>q, <1>k, DrCntrl DEF u12, u13
  <1>22. Reached(E, S, A, u0, g, 6, 2, u13, g)
    BY <1>0, <1>k, Ports, <1>19, <1>20, <1>21, RowIrDr
  <1>23. Edge(E, kdTclk1, u13, u14)
    BY <1>q, <1>k, Ports, EdgeIdle DEF u13, u14
  <1>24. Reached(E, S, A, u0, g, 7, 2, u14, g)
    BY <1>0, <1>k, Ports, <1>22, <1>23, RowEdge
  <1>25. Does(E, Play(S, A), u0, g, u14, g)
    BY <1>0, <1>24, ScriptEnd
  <1> QED BY <1>25 DEF S, A, u0, u14, SetPC

-----------------------------------------------------------------------------
(* Scripts that are not lists of steps.                                    *)

\* An instruction and a data scan outside of a list.
LEMMA DoesIrDr ==
    ASSUME NEW E, NEW t1, NEW t2, NEW t3, NEW g, NEW h, NEW n \in Octets, NEW d \in Values16,
           Does(E, Ir(n), t1, g, t2, g), Does(E, Dr(d), t2, g, t3, h)
    PROVE  Does(E, Play1(kIrDr16(n, d)), t1, g, t3, h) /\ IsSeq(Play1(kIrDr16(n, d)))
  <1>1. IsSeq(Ir(n)) /\ IsSeq(Dr(d))
    BY PrimSeq
  <1>2. Play1(kIrDr16(n, d)) = Ir(n) \o Dr(d)
    BY PackIrDr
  <1> QED BY <1>1, <1>2, DoesBoth

\* The target is let go from the controlled stop.
LEMMA ReleaseCpuDoes ==
    ASSUME NEW E, NEW g, NEW b, Calm(b), Legacy(b), NEW ir, NEW cntrl, NEW mab, NEW dto, NEW din,
           NEW mdb, NEW t0,
           Edge(E, kdTclk0, t0, P(b, ir, cntrl, 0, mab, dto, din, mdb, Fetch))
    PROVE  /\ Does(E, ReleaseCpu, t0, g, P(b, IR_ADDR_CAPTURE, \h2401, 1, mab, dto, din, mdb, Fetch), g)
           /\ IsSeq(ReleaseCpu)
  <1> DEFINE u1 == P(b, ir, cntrl, 0, mab, dto, din, mdb, Fetch)
             u2 == P(b, IR_CNTRL_SIG_16BIT, cntrl, 0, mab, dto, din, mdb, Fetch)
             u3 == P(b, IR_CNTRL_SIG_16BIT, \h2401, 0, mab, dto, din, mdb, Fetch)
             u4 == P(b, IR_ADDR_CAPTURE, \h2401, 0, mab, dto, din, mdb, Fetch)
             u5 == P(b, IR_ADDR_CAPTURE, \h2401, 1, mab, dto, din, mdb, Fetch)
             A  == Play1(kIrDr16(IR_CNTRL_SIG_16BIT, \h2401))
             B  == Play1(kIr(kdNone, IR_ADDR_CAPTURE, kdNone))
  <1>q. Quiet(b) /\ Sound(b) /\ \h2401 \in Values16 /\ Rests(b, \h2401)
    BY ControlWords DEF Calm, Quiet
  <1>0. Edge(E, kdTclk0, t0, u1)
    OBVIOUS
  <1> HIDE DEF u1, u2, u3, u4, u5
  <1>1. Does(E, Clr, t0, g, u1, g)
    BY <1>0, EdgeIs
  <1>2. Does(E, Ir(IR_CNTRL_SIG_16BIT), u1, g, u2, g)
    BY <1>q, Ports, IrDoes DEF u1, u2
  <1>3. Does(E, Dr(\h2401), u2, g, u3, g)
    BY <1>q, DrCntrl DEF u2, u3
  <1>4. Does(E, A, u1, g, u3, g) /\ IsSeq(A)
    BY <1>q, <1>2, <1>3, Ports, DoesIrDr
  <1>5. Does(E, Ir(IR_ADDR_CAPTURE), u3, g, u4, g)
    BY <1>q, Ports, IrDoes DEF u3, u4
  <1>6. IsSeq(Ir(IR_ADDR_CAPTURE))
    BY PrimSeq
  <1>7. B = OnTclk(kdNone) \o Ir(IR_ADDR_CAPTURE) \o OnTclk(kdNone)
    BY PackIr, ClockSeq, Ports
  <1>8. B = Ir(IR_ADDR_CAPTURE)
    BY <1>6, <1>7, ClockIs, SeqConcat
  <1>9. Edge(E, kdTclk1, u4, u5)
    BY <1>q, EdgeIdle DEF u4, u5
  <1>10. Does(E, Set, u4, g, u5, g)
    BY <1>9, EdgeIs
  <1> HIDE DEF A, B
  <1>11. Does(E, Clr \o A, t0, g, u3, g) /\ IsSeq(Clr \o A)
    BY <1>1, <1>4, PulseSeq, DoesBoth
  <1>12. Does(E, Clr \o A \o B, t0, g, u4, g) /\ IsSeq(Clr \o A \o B)
    BY <1>11, <1>5, <1>6, <1>8, DoesBoth
  <1>13. Does(E, Clr \o A \o B \o Set, t0, g, u5, g) /\ IsSeq(Clr \o A \o B \o Set)
    BY <1>12, <1>10, PulseSeq, DoesBoth
  <1> QED BY <1>13 DEF ReleaseCpu, A, B, u5

-----------------------------------------------------------------------------
(* Registers of a MSP430.                                                  *)

\* MOV #imm,Rn, and then words that do nothing.
LEMMA SetRegDoes ==
    ASSUME NEW E, NEW g, NEW b, Calm(b), Legacy(b), NEW ir, NEW cntrl, NEW mab, NEW dto, NEW din,
           NEW mdb,
           NEW r, NEW value, NEW w, Low(\h4030 + r, w), NEW d, Low(value, d), NEW x,
           Fetches(b, w, x), NEW c, Loads(E, b, x, d, c)
    PROVE  Does(E, SetReg(r, value), P(b, ir, cntrl, 1, mab, dto, din, mdb, Fetch), g,
                P(c, IR_CNTRL_SIG_16BIT, \h2401, 1, mab, dto, \h3FFD, mdb, Fetch), g)
  <1> DEFINE S == <<kIrDr16(IR_CNTRL_SIG_16BIT, \h3401),
                    kIrData16Argv(kdNone, kdTclk0),
                    kIr(kdNone, IR_DATA_CAPTURE, kdNone),
                    kIrData16Argv(kdTclk1, kdTclk0),
                    kIr(kdNone, IR_DATA_CAPTURE, kdTclk1),
                    kIrData16(kdNone, \h3FFD, kdTclk0),
                    kIr(kdNone, IR_DATA_CAPTURE, kdTclkP),
                    kIrDr16(IR_CNTRL_SIG_16BIT, \h2401),
                    kTclk1>>
             A == <<\h4030 + r, value>>
             u0 == P(b, ir, cntrl, 1, mab, dto, din, mdb, Fetch)
             u1 == P(b, IR_CNTRL_SIG_16BIT, cntrl, 1, mab, dto, din, mdb, Fetch)
             u2 == P(b, IR_CNTRL_SIG_16BIT, \h3401, 1, mab, dto, din, mdb, Fetch)
             u3 == P(b, IR_DATA_16BIT, \h3401, 1, mab, dto, din, mdb, Fetch)
             u4 == P(b, IR_DATA_16BIT, \h3401, 1, mab, dto, w, mdb, Fetch)
             u5 == P(b, IR_DATA_16BIT, \h3401, 0, mab, dto, w, mdb, Fetch)
             u6 == P(b, IR_DATA_CAPTURE, \h3401, 0, mab, dto, w, mdb, Fetch)
             u7 == P(b, IR_DATA_16BIT, \h3401, 1, mab, dto, w, mdb, x)
             u8 == P(b, IR_DATA_16BIT, \h3401, 1, mab, dto, d, mdb, x)
             u9 == P(b, IR_DATA_16BIT, \h3401, 0, mab, dto, d, mdb, x)
             u10 == P(b, IR_DATA_CAPTURE, \h3401, 0, mab, dto, d, mdb, x)
             u11 == P(c, IR_DATA_CAPTURE, \h3401, 1, mab, dto, d, mdb, Fetch)
             u12 == P(c, IR_DATA_16BIT, \h3401, 1, mab, dto, d, mdb, Fetch)
             u13 == P(c, IR_DATA_16BIT, \h3401, 1, mab, dto, \h3FFD, mdb, Fetch)
             u14 == P(c, IR_DATA_16BIT, \h3401, 0, mab, dto, \h3FFD, mdb, Fetch)
             u15 == P(c, IR_DATA_CAPTURE, \h3401, 0, mab, dto, \h3FFD, mdb, Fetch)
             u16 == P(c, IR_DATA_CAPTURE, \h3401, 1, mab, dto, \h3FFD, mdb, Fetch)
             u17 == P(c, IR_CNTRL_SIG_16BIT, \h3401, 0, mab, dto, \h3FFD, mdb, Fetch)
             u18 == P(c, IR_CNTRL_SIG_16BIT, \h2401, 0, mab, dto, \h3FFD, mdb, Fetch)
             u19 == P(c, IR_CNTRL_SIG_16BIT, \h2401, 1, mab, dto, \h3FFD, mdb, Fetch)
  <1>l. Len(S) = 9
        /\ S[1] = kIrDr16(IR_CNTRL_SIG_16BIT, \h3401) /\ S[2] = kIrData16Argv(kdNone, kdTclk0) /\ S[3] = kIr(kdNone, IR_DATA_CAPTURE, kdNone)
        /\ S[4] = kIrData16Argv(kdTclk1, kdTclk0) /\ S[5] = kIr(kdNone, IR_DATA_CAPTURE, kdTclk1) /\ S[6] = kIrData16(kdNone, \h3FFD, kdTclk0)
        /\ S[7] = kIr(kdNone, IR_DATA_CAPTURE, kdTclkP) /\ S[8] = kIrDr16(IR_CNTRL_SIG_16BIT, \h2401) /\ S[9] = kTclk1
    OBVIOUS
  <1>a. A[1] = \h4030 + r /\ A[2] = value
    OBVIOUS
  <1> HIDE DEF S, A
  <1>0. /\ At(S, 1, 2, kIrDr16(IR_CNTRL_SIG_16BIT, \h3401)) /\ At(S, 2, 3, kIrData16Argv(kdNone, kdTclk0))
        /\ At(S, 3, 4, kIr(kdNone, IR_DATA_CAPTURE, kdNone)) /\ At(S, 4, 5, kIrData16Argv(kdTclk1, kdTclk0))
        /\ At(S, 5, 6, kIr(kdNone, IR_DATA_CAPTURE, kdTclk1)) /\ At(S, 6, 7, kIrData16(kdNone, \h3FFD, kdTclk0))
        /\ At(S, 7, 8, kIr(kdNone, IR_DATA_CAPTURE, kdTclkP)) /\ At(S, 8, 9, kIrDr16(IR_CNTRL_SIG_16BIT, \h2401))
        /\ At(S, 9, 10, kTclk1) /\ Ends(S, 10)
        /\ Given(A, 1, 2, \h4030 + r) /\ Given(A, 2, 3, value)
    BY <1>l, <1>a DEF At, Given, Ends
  <1>q. /\ Sound(b) /\ Quiet(b) /\ Calm(b) /\ Legacy(b)
        /\ Sound(c) /\ Quiet(c) /\ Calm(c) /\ Legacy(c)
    BY DEF Calm, Quiet, Loads, Low
  <1>v. d \in Values16 /\ w \in Values16
    BY ControlWords DEF Low
  <1>k. /\ d \in Values16 /\ w \in Values16 /\ \h2401 \in Values16 /\ \h3401 \in Values16 /\ \h3FFD \in Values16 /\ Rests(b, \h2401) /\ ~Writes(b, \h2401)
        /\ Rests(c, \h2401) /\ ~Writes(c, \h2401) /\ Executes(\h3401) /\ ~Writes(b, \h3401) /\ Executes(\h3401) /\ ~Writes(c, \h3401)
    BY <1>q, ControlWords, ExecutesOnly, <1>v DEF Values16
  <1> HIDE DEF u0, u1, u2, u3, u4, u5, u6, u7, u8, u9, u10, u11, u12, u13, u14, u15, u16, u17, u18, u19
  <1>1. Reached(E, S, A, u0, g, 1, 1, u0, g)
    BY RowBegin
  <1>2. Does(E, Ir(IR_CNTRL_SIG_16BIT), u0, g, u1, g)
    BY <1>q, <1>k, Ports, IrDoes DEF u0, u1
  <1>3. Does(E, Dr(\h3401), u1, g, u2, g)
    BY <1>q, <1>k, DrCntrl DEF u1, u2
  <1>4. Reached(E, S, A, u0, g, 2, 1, u2, g)
    BY <1>0, <1>k, Ports, <1>1, <1>2, <1>3, RowIrDr
  <1>5. Does(E, Ir(IR_DATA_16BIT), u2, g, u3, g)
    BY <1>q, <1>k, Ports, IrDoes DEF u2, u3
  <1>6. Edge(E, kdNone, u3, u3)
    BY EdgeNone
  <1>7. Does(E, Dr(w), u3, g, u4, g)
    BY <1>q, <1>k, DrDin DEF u3, u4
  <1>8. Edge(E, kdTclk0, u4, u5)
    BY <1>q, <1>k, Ports, EdgeFall DEF u4, u5
  <1>9. Reached(E, S, A, u0, g, 3, 2, u5, g)
    BY <1>0, <1>k, Ports, <1>4, <1>5, <1>6, <1>7, <1>8, RowDataArgv
  <1>10. Edge(E, kdNone, u5, u5)
    BY EdgeNone
  <1>11. Does(E, Ir(IR_DATA_CAPTURE), u5, g, u6, g)
    BY <1>q, <1>k, Ports, IrDoes DEF u5, u6
  <1>12. Edge(E, kdNone, u6, u6)
    BY EdgeNone
  <1>13. Reached(E, S, A, u0, g, 4, 2, u6, g)
    BY <1>0, <1>k, Ports, <1>9, <1>10, <1>11, <1>12, RowIr
  <1>14. Does(E, Ir(IR_DATA_16BIT), u6, g, u5, g)
    BY <1>q, <1>k, Ports, IrDoes DEF u6, u5
  <1>15. Edge(E, kdTclk1, u5, u7)
    BY <1>q, <1>k, EdgeFetch DEF u5, u7
  <1>16. Does(E, Dr(d), u7, g, u8, g)
    BY <1>q, <1>k, DrDin DEF u7, u8
  <1>17. Edge(E, kdTclk0, u8, u9)
    BY <1>q, <1>k, Ports, EdgeFall DEF u8, u9
  <1>18. Reached(E, S, A, u0, g, 5, 3, u9, g)
    BY <1>0, <1>k, Ports, <1>13, <1>14, <1>15, <1>16, <1>17, RowDataArgv
  <1>19. Edge(E, kdNone, u9, u9)
    BY EdgeNone
  <1>20. Does(E, Ir(IR_DATA_CAPTURE), u9, g, u10, g)
    BY <1>q, <1>k, Ports, IrDoes DEF u9, u10
  <1>21. Edge(E, kdTclk1, u10, u11)
    BY <1>q, <1>k, EdgeLoad DEF u10, u11
  <1>22. Reached(E, S, A, u0, g, 6, 3, u11, g)
    BY <1>0, <1>k, Ports, <1>18, <1>19, <1>20, <1>21, RowIr
  <1>23. Does(E, Ir(IR_DATA_16BIT), u11, g, u12, g)
    BY <1>q, <1>k, Ports, IrDoes DEF u11, u12
  <1>24. Edge(E, kdNone, u12, u12)
    BY EdgeNone
  <1>25. Does(E, Dr(\h3FFD), u12, g, u13, g)
    BY <1>q, <1>k, DrDin DEF u12, u13
  <1>26. Edge(E, kdTclk0, u13, u14)
    BY <1>q, <1>k, Ports, EdgeFall DEF u13, u14
  <1>27. Reached(E, S, A, u0, g, 7, 3, u14, g)
    BY <1>0, <1>k, Ports, <1>22, <1>23, <1>24, <1>25, <1>26, RowData
  <1>28. Edge(E, kdNone, u14, u14)
    BY EdgeNone
  <1>29. Does(E, Ir(IR_DATA_CAPTURE), u14, g, u15, g)
    BY <1>q, <1>k, Ports, IrDoes DEF u14, u15
  <1>30. Edge(E, kdTclk1, u15, u16)
    BY <1>q, <1>k, Nops, EdgeFetch DEF u15, u16
  <1>31. Edge(E, kdTclk0, u16, u15)
    BY <1>q, <1>k, Ports, EdgeFall DEF u16, u15
  <1>32. Edge(E, kdTclkP, u15, u15)
    BY <1>30, <1>31, EdgePulse
  <1>33. Reached(E, S, A, u0, g, 8, 3, u15, g)
    BY <1>0, <1>k, Ports, <1>27, <1>28, <1>29, <1>32, RowIr
  <1>34. Does(E, Ir(IR_CNTRL_SIG_16BIT), u15, g, u17, g)
    BY <1>q, <1>k, Ports, IrDoes DEF u15, u17
  <1>35. Does(E, Dr(\h2401), u17, g, u18, g)
    BY <1>q, <1>k, DrCntrl DEF u17, u18
  <1>36. Reached(E, S, A, u0, g, 9, 3, u18, g)
    BY <1>0, <1>k, Ports, <1>33, <1>34, <1>35, RowIrDr
  <1>37. Edge(E, kdTclk1, u18, u19)
    BY <1>q, <1>k, Ports, EdgeIdle DEF u18, u19
  <1>38. Reached(E, S, A, u0, g, 10, 3, u19, g)
    BY <1>0, <1>k, Ports, <1>36, <1>37, RowEdge
  <1>39. Does(E, Play(S, A), u0, g, u19, g)
    BY <1>0, <1>38, ScriptEnd
  <1> QED BY <1>39 DEF S, A, u0, u19, SetReg

\* MOV Rn,&abs: the bus shows the register.
LEMMA GetRegDoes ==
    ASSUME NEW E, NEW g, NEW b, Calm(b), Legacy(b), NEW ir, NEW cntrl, NEW mab, NEW dto, NEW din,
           NEW mdb,
           NEW r, NEW w, Low(r * 256 + \h4082, w), NEW z, Fetches(b, w, z), NEW c, NEW x, NEW o,
           Displays(x, o, Fetch),
           Stores(E, b, z, \h00FE, mdb, c, mdb, x)
    PROVE  Does(E, GetReg(r), P(b, ir, cntrl, 1, mab, dto, din, mdb, Fetch), g,
                P(c, IR_CNTRL_SIG_16BIT, \h2401, 1, mab, dto, \h00FE, o, Fetch), Got(g, "data", o))
  <1> DEFINE S == <<kIrDr16(IR_CNTRL_SIG_16BIT, \h3401),
                    kIrDr16Argv(kdNone, IR_DATA_16BIT, kdNone),
                    kIr(kdTclk0, IR_DATA_CAPTURE, kdTclk1),
                    kIrData16(kdNone, \h00FE, kdTclk0),
                    kIr(kdNone, IR_DATA_CAPTURE, kdTclkP),
                    kTclk1,
                    kDr16_ret(0),
                    kTclk0,
                    kIrDr16(IR_CNTRL_SIG_16BIT, \h2401),
                    kTclk1>>
             A == <<r * 256 + \h4082, "data">>
             u0 == P(b, ir, cntrl, 1, mab, dto, din, mdb, Fetch)
             u1 == P(b, IR_CNTRL_SIG_16BIT, cntrl, 1, mab, dto, din, mdb, Fetch)
             u2 == P(b, IR_CNTRL_SIG_16BIT, \h3401, 1, mab, dto, din, mdb, Fetch)
             u3 == P(b, IR_DATA_16BIT, \h3401, 1, mab, dto, din, mdb, Fetch)
             u4 == P(b, IR_DATA_16BIT, \h3401, 1, mab, dto, w, mdb, Fetch)
             u5 == P(b, IR_DATA_16BIT, \h3401, 0, mab, dto, w, mdb, Fetch)
             u6 == P(b, IR_DATA_CAPTURE, \h3401, 0, mab, dto, w, mdb, Fetch)
             u7 == P(b, IR_DATA_CAPTURE, \h3401, 1, mab, dto, w, mdb, z)
             u8 == P(b, IR_DATA_16BIT, \h3401, 1, mab, dto, w, mdb, z)
             u9 == P(b, IR_DATA_16BIT, \h3401, 1, mab, dto, \h00FE, mdb, z)
             u10 == P(b, IR_DATA_16BIT, \h3401, 0, mab, dto, \h00FE, mdb, z)
             u11 == P(b, IR_DATA_CAPTURE, \h3401, 0, mab, dto, \h00FE, mdb, z)
             u12 == P(c, IR_DATA_CAPTURE, \h3401, 1, mab, dto, \h00FE, mdb, x)
             u13 == P(c, IR_DATA_CAPTURE, \h3401, 0, mab, dto, \h00FE, mdb, x)
             u14 == P(c, IR_DATA_CAPTURE, \h3401, 1, mab, dto, \h00FE, o, Fetch)
             u15 == P(c, IR_DATA_CAPTURE, \h3401, 0, mab, dto, \h00FE, o, Fetch)
             u16 == P(c, IR_CNTRL_SIG_16BIT, \h3401, 0, mab, dto, \h00FE, o, Fetch)
             u17 == P(c, IR_CNTRL_SIG_16BIT, \h2401, 0, mab, dto, \h00FE, o, Fetch)
             u18 == P(c, IR_CNTRL_SIG_16BIT, \h2401, 1, mab, dto, \h00FE, o, Fetch)
             h1 == Got(g, "data", o)
  <1>l. Len(S) = 10
        /\ S[1] = kIrDr16(IR_CNTRL_SIG_16BIT, \h3401) /\ S[2] = kIrDr16Argv(kdNone, IR_DATA_16BIT, kdNone) /\ S[3] = kIr(kdTclk0, IR_DATA_CAPTURE, kdTclk1)
        /\ S[4] = kIrData16(kdNone, \h00FE, kdTclk0) /\ S[5] = kIr(kdNone, IR_DATA_CAPTURE, kdTclkP) /\ S[6] = kTclk1
        /\ S[7] = kDr16_ret(0) /\ S[8] = kTclk0 /\ S[9] = kIrDr16(IR_CNTRL_SIG_16BIT, \h2401)
        /\ S[10] = kTclk1
    OBVIOUS
  <1>a. A[1] = r * 256 + \h4082 /\ A[2] = "data"
    OBVIOUS
  <1> HIDE DEF S, A
  <1>0. /\ At(S, 1, 2, kIrDr16(IR_CNTRL_SIG_16BIT, \h3401)) /\ At(S, 2, 3, kIrDr16Argv(kdNone, IR_DATA_16BIT, kdNone))
        /\ At(S, 3, 4, kIr(kdTclk0, IR_DATA_CAPTURE, kdTclk1)) /\ At(S, 4, 5, kIrData16(kdNone, \h00FE, kdTclk0))
        /\ At(S, 5, 6, kIr(kdNone, IR_DATA_CAPTURE, kdTclkP)) /\ At(S, 6, 7, kTclk1)
        /\ At(S, 7, 8, kDr16_ret(0)) /\ At(S, 8, 9, kTclk0)
        /\ At(S, 9, 10, kIrDr16(IR_CNTRL_SIG_16BIT, \h2401)) /\ At(S, 10, 11, kTclk1)
        /\ Ends(S, 11) /\ Given(A, 1, 2, r * 256 + \h4082)
        /\ Given(A, 2, 3, "data")
    BY <1>l, <1>a DEF At, Given, Ends
  <1>q. /\ Sound(b) /\ Quiet(b) /\ Calm(b) /\ Legacy(b)
        /\ Sound(c) /\ Quiet(c) /\ Calm(c) /\ Legacy(c)
    BY DEF Calm, Quiet, Stores, Low, Displays
  <1>v. w \in Values16
    BY ControlWords DEF Low
  <1>k. /\ w \in Values16 /\ \h00FE \in Values16 /\ \h2401 \in Values16 /\ \h3401 \in Values16 /\ Rests(b, \h2401) /\ ~Writes(b, \h2401)
        /\ Rests(c, \h2401) /\ ~Writes(c, \h2401) /\ Executes(\h3401) /\ ~Writes(b, \h3401) /\ Executes(\h3401) /\ ~Writes(c, \h3401)
    BY <1>q, ControlWords, ExecutesOnly, <1>v DEF Values16
  <1> HIDE DEF u0, u1, u2, u3, u4, u5, u6, u7, u8, u9, u10, u11, u12, u13, u14, u15, u16, u17, u18, h1
  <1>1. Reached(E, S, A, u0, g, 1, 1, u0, g)
    BY RowBegin
  <1>2. Does(E, Ir(IR_CNTRL_SIG_16BIT), u0, g, u1, g)
    BY <1>q, <1>k, Ports, IrDoes DEF u0, u1
  <1>3. Does(E, Dr(\h3401), u1, g, u2, g)
    BY <1>q, <1>k, DrCntrl DEF u1, u2
  <1>4. Reached(E, S, A, u0, g, 2, 1, u2, g)
    BY <1>0, <1>k, Ports, <1>1, <1>2, <1>3, RowIrDr
  <1>5. Edge(E, kdNone, u2, u2)
    BY EdgeNone
  <1>6. Does(E, Ir(IR_DATA_16BIT), u2, g, u3, g)
    BY <1>q, <1>k, Ports, IrDoes DEF u2, u3
  <1>7. Does(E, Dr(w), u3, g, u4, g)
    BY <1>q, <1>k, DrDin DEF u3, u4
  <1>8. Edge(E, kdNone, u4, u4)
    BY EdgeNone
  <1>9. Reached(E, S, A, u0, g, 3, 2, u4, g)
    BY <1>0, <1>k, Ports, <1>4, <1>5, <1>6, <1>7, <1>8, RowIrDrArgv
  <1>10. Edge(E, kdTclk0, u4, u5)
    BY <1>q, <1>k, Ports, EdgeFall DEF u4, u5
  <1>11. Does(E, Ir(IR_DATA_CAPTURE), u5, g, u6, g)
    BY <1>q, <1>k, Ports, IrDoes DEF u5, u6
  <1>12. Edge(E, kdTclk1, u6, u7)
    BY <1>q, <1>k, EdgeFetch DEF u6, u7
  <1>13. Reached(E, S, A, u0, g, 4, 2, u7, g)
    BY <1>0, <1>k, Ports, <1>9, <1>10, <1>11, <1>12, RowIr
  <1>14. Does(E, Ir(IR_DATA_16BIT), u7, g, u8, g)
    BY <1>q, <1>k, Ports, IrDoes DEF u7, u8
  <1>15. Edge(E, kdNone, u8, u8)
    BY EdgeNone
  <1>16. Does(E, Dr(\h00FE), u8, g, u9, g)
    BY <1>q, <1>k, DrDin DEF u8, u9
  <1>17. Edge(E, kdTclk0, u9, u10)
    BY <1>q, <1>k, Ports, EdgeFall DEF u9, u10
  <1>18. Reached(E, S, A, u0, g, 5, 2, u10, g)
    BY <1>0, <1>k, Ports, <1>13, <1>14, <1>15, <1>16, <1>17, RowData
  <1>19. Edge(E, kdNone, u10, u10)
    BY EdgeNone
  <1>20. Does(E, Ir(IR_DATA_CAPTURE), u10, g, u11, g)
    BY <1>q, <1>k, Ports, IrDoes DEF u10, u11
  <1>21. Edge(E, kdTclk1, u11, u12)
    BY <1>q, <1>k, EdgeStore DEF u11, u12
  <1>22. Edge(E, kdTclk0, u12, u13)
    BY <1>q, <1>k, Ports, EdgeFall DEF u12, u13
  <1>23. Edge(E, kdTclkP, u11, u13)
    BY <1>21, <1>22, EdgePulse
  <1>24. Reached(E, S, A, u0, g, 6, 2, u13, g)
    BY <1>0, <1>k, Ports, <1>18, <1>19, <1>20, <1>23, RowIr
  <1>25. Edge(E, kdTclk1, u13, u14)
    BY <1>q, <1>k, EdgeShow DEF u13, u14
  <1>26. Reached(E, S, A, u0, g, 7, 2, u14, g)
    BY <1>0, <1>k, Ports, <1>24, <1>25, RowEdge
  <1>27. Does(E, DrTo(0, "data"), u14, g, u14, h1)
    BY <1>q, <1>k, Ports, PlainAre, DrShown DEF u14, h1
  <1>28. Reached(E, S, A, u0, g, 8, 3, u14, h1)
    BY <1>0, <1>k, Ports, <1>26, <1>27, RowDrTo
  <1>29. Edge(E, kdTclk0, u14, u15)
    BY <1>q, <1>k, Ports, EdgeFall DEF u14, u15
  <1>30. Reached(E, S, A, u0, g, 9, 3, u15, h1)
    BY <1>0, <1>k, Ports, <1>28, <1>29, RowEdge
  <1>31. Does(E, Ir(IR_CNTRL_SIG_16BIT), u15, h1, u16, h1)
    BY <1>q, <1>k, Ports, IrDoes DEF u15, u16
  <1>32. Does(E, Dr(\h2401), u16, h1, u17, h1)
    BY <1>q, <1>k, DrCntrl DEF u16, u17
  <1>33. Reached(E, S, A, u0, g, 10, 3, u17, h1)
    BY <1>0, <1>k, Ports, <1>30, <1>31, <1>32, RowIrDr
  <1>34. Edge(E, kdTclk1, u17, u18)
    BY <1>q, <1>k, Ports, EdgeIdle DEF u17, u18
  <1>35. Reached(E, S, A, u0, g, 11, 3, u18, h1)
    BY <1>0, <1>k, Ports, <1>33, <1>34, RowEdge
  <1>36. Does(E, Play(S, A), u0, g, u18, h1)
    BY <1>0, <1>35, ScriptEnd
  <1> QED BY <1>36 DEF S, A, u0, u18, h1, GetReg

-----------------------------------------------------------------------------
(* Loops of the drivers.                                                   *)

\* A loop is a sequence.
LEMMA LoopSeq ==
    ASSUME NEW B, NEW i
    PROVE  IsSeq(Looping(B, i)) /\ IsSeq(Loop(B))
  <1>1. IsSeq(<<>>)
    BY NoneIsSeq
  <1> QED BY <1>1, SeqOne DEF Loop, Looping

\* A round of a loop.
LEMMA LoopNext ==
    ASSUME NEW E, NEW B, NEW t0, NEW g0, NEW i, NEW t1, NEW g1,
           Looped(E, B, t0, g0, i, t1, g1), Len(B) \in Nat, i \in 1 .. Len(B),
           IsSeq(B[i]), NEW t2, NEW g2, Does(E, B[i], t1, g1, t2, g2)
    PROVE  Looped(E, B, t0, g0, i + 1, t2, g2)
  <1> SUFFICES ASSUME Sound(t0)
               PROVE  /\ Sound(t2)
                      /\ \A r : IsSeq(r) => Path(E, <<t0, g0, Loop(B) \o r>>,
                                                    <<t2, g2, Looping(B, i + 1) \o r>>)
    BY DEF Looped
  <1> DEFINE e == [p |-> "loop", bodies |-> B, i |-> i]
  <1>1. Sound(t1)
    BY DEF Looped
  <1>2. Sound(t2)
    BY <1>1 DEF Does
  <1>3. Looping(B, i) = <<e>>
    BY DEF Looping
  <1>4. InPlaceOf(e, g1) = B[i] \o Looping(B, i + 1)
    <2>1. InPlaceOf(e, g1) = Iterate(e)
      BY DEF InPlaceOf
    <2>2. ~(i > Len(B))
      OBVIOUS
    <2> QED BY <2>1, <2>2 DEF Iterate
  <1>5. e.p \in {"play", "loop", "if", "setpc"}
    OBVIOUS
  <1> HIDE DEF e
  <1> SUFFICES ASSUME NEW r, IsSeq(r)
               PROVE  Path(E, <<t0, g0, Loop(B) \o r>>, <<t2, g2, Looping(B, i + 1) \o r>>)
    BY <1>2
  <1>6. Path(E, <<t0, g0, Loop(B) \o r>>, <<t1, g1, Looping(B, i) \o r>>)
    BY DEF Looped
  <1>7. IsSeq(Looping(B, i + 1)) /\ IsSeq(Looping(B, i + 1) \o r)
    BY LoopSeq, SeqConcat
  <1>8. Path(E, <<t1, g1, B[i] \o (Looping(B, i + 1) \o r)>>, <<t2, g2, Looping(B, i + 1) \o r>>)
    BY <1>1, <1>7 DEF Does
  <1>9. Path(E, <<t1, g1, Looping(B, i) \o r>>, <<t1, g1, B[i] \o (Looping(B, i + 1) \o r)>>)
    <2> DEFINE c == <<t1, g1, <<e>> \o r>>
               d == <<t1, g1, B[i] \o (Looping(B, i + 1) \o r)>>
    <2>1. <<e>> \o r # <<>> /\ Head(<<e>> \o r) = e /\ Tail(<<e>> \o r) = r
      BY SeqOne
    <2>2. (B[i] \o Looping(B, i + 1)) \o r = B[i] \o (Looping(B, i + 1) \o r)
      <3> DEFINE s1 == B[i]
                 s2 == Looping(B, i + 1)
      <3>1. IsSeq(s1) /\ IsSeq(s2) /\ IsSeq(r)
        BY <1>7
      <3> HIDE DEF s1, s2
      <3>2. (s1 \o s2) \o r = s1 \o (s2 \o r)
        BY <3>1, SeqAssoc
      <3> QED BY <3>2 DEF s1, s2
    <2>3. e.p \notin Primitives
      BY <1>5 DEF Primitives
    <2>4. Moves(c, d)
      BY <1>4, <1>5, <2>1, <2>2, <2>3 DEF Moves, After
    <2>5. Fits(E, c[1], d[1])
      BY DEF Fits, Same
    <2>6. Link(E, c, d)
      BY <1>1, <2>4, <2>5 DEF Link
    <2> QED BY <1>3, <2>6, PathOne
  <1> QED BY <1>6, <1>8, <1>9, PathJoin

\* Behind its last round a loop has been played.
LEMMA LoopEnd ==
    ASSUME NEW E, NEW B, NEW t0, NEW g0, NEW i, NEW t1, NEW g1,
           Looped(E, B, t0, g0, i, t1, g1), Len(B) \in Nat, i = Len(B) + 1
    PROVE  Does(E, Loop(B), t0, g0, t1, g1)
  <1> SUFFICES ASSUME Sound(t0)
               PROVE  /\ Sound(t1)
                      /\ \A r : IsSeq(r) => Path(E, <<t0, g0, Loop(B) \o r>>, <<t1, g1, r>>)
    BY DEF Does
  <1> DEFINE e == [p |-> "loop", bodies |-> B, i |-> i]
  <1>1. Sound(t1)
    BY DEF Looped
  <1>3. Looping(B, i) = <<e>>
    BY DEF Looping
  <1>4. InPlaceOf(e, g1) = <<>>
    BY DEF InPlaceOf, Iterate
  <1>5. e.p \in {"play", "loop", "if", "setpc"}
    OBVIOUS
  <1>6. IsSeq(<<>>)
    BY SeqOne, LoopSeq
  <1> HIDE DEF e
  <1>7. Does(E, <<e>>, t1, g1, t1, g1)
    BY <1>4, <1>5, <1>6, DoesNothing, DoesInPlace
  <1> SUFFICES ASSUME NEW r, IsSeq(r)
               PROVE  Path(E, <<t0, g0, Loop(B) \o r>>, <<t1, g1, r>>)
    BY <1>1
  <1>8. Path(E, <<t1, g1, <<e>> \o r>>, <<t1, g1, r>>)
    BY <1>1, <1>7 DEF Does
  <1>9. Path(E, <<t0, g0, Loop(B) \o r>>, <<t1, g1, Looping(B, i) \o r>>)
    BY DEF Looped
  <1> QED BY <1>3, <1>8, <1>9, PathJoin

\* A loop does what its rounds do, if each takes a target from one set to the
\* next.
LEMMA LoopDoes ==
    ASSUME NEW E, NEW B, NEW I, NEW G, LoopKeeps(E, B, I, G), NEW t1 \in I[1]
    PROVE  \E u \in I[Len(B) + 1] : Does(E, Loop(B), t1, G[1], u, G[Len(B) + 1])
  <1> DEFINE n == Len(B)
             S == {i \in 0 .. n : \E u \in I[i + 1] : Looped(E, B, t1, G[1], i + 1, u, G[i + 1])}
  <1>0. n \in Nat
    BY DEF LoopKeeps
  <1>1. 0 \in S
    <2>1. Looped(E, B, t1, G[1], 1, t1, G[1])
      BY PathNone DEF Looped, Loop
    <2>2. 0 \in 0 .. n /\ 0 + 1 = 1
      BY <1>0
    <2> QED BY <2>1, <2>2
  <1>2. ASSUME NEW i \in 1 .. n, i - 1 \in S
        PROVE  i \in S
    <2>1. (i - 1) + 1 = i /\ i \in 0 .. n
      BY <1>0
    <2>2. PICK u \in I[i] : Looped(E, B, t1, G[1], i, u, G[i])
      BY <1>2, <2>1
    <2>3. PICK v \in I[i + 1] : IsSeq(B[i]) /\ Does(E, B[i], u, G[i], v, G[i + 1])
      BY <2>2 DEF LoopKeeps
    <2>4. Looped(E, B, t1, G[1], i + 1, v, G[i + 1])
      BY <1>0, <2>2, <2>3, LoopNext
    <2> QED BY <2>1, <2>4
  <1> HIDE DEF S
  <1>3. Climbs(n, S)
    BY <1>1, <1>2 DEF Climbs
  <1>4. n \in S
    BY <1>0, <1>3, UpTo
  <1>5. PICK u \in I[n + 1] : Looped(E, B, t1, G[1], n + 1, u, G[n + 1])
    BY <1>4 DEF S
  <1>6. Does(E, Loop(B), t1, G[1], u, G[n + 1])
    BY <1>0, <1>5, LoopEnd
  <1> QED BY <1>5, <1>6

-----------------------------------------------------------------------------
(* Memory of a MSP430 and of a MSP430X.                                    *)

\* A word or a byte is read: the control signals are set ...
LEMMA ReadRows ==
    ASSUME NEW E, NEW g, NEW b, Calm(b), Legacy(b), NEW mab, NEW dto, NEW din, NEW mdb,
           NEW k \in {\h2409, \h2419}, NEW kAddr, NEW a \in RegValues(b), Addressing(kAddr, a)
    PROVE  Does(E, Play(<<kTclk0, kIrDr16(IR_CNTRL_SIG_16BIT, k), kAddr,
                        kIr(kdNone, IR_DATA_TO_ADDR, kdTclkP), kDr16_ret(0), kReleaseCpu>>, <<a, "data">>), P(b, IR_CNTRL_SIG_16BIT, \h2409, 1, mab, dto, din, mdb, Fetch), g,
                P(b, IR_ADDR_CAPTURE, \h2401, 1, a, 0, din, Bus(b, k, a), Fetch), Got(g, "data", Bus(b, k, a)))
  <1> DEFINE S == <<kTclk0,
                    kIrDr16(IR_CNTRL_SIG_16BIT, k),
                    kAddr,
                    kIr(kdNone, IR_DATA_TO_ADDR, kdTclkP),
                    kDr16_ret(0),
                    kReleaseCpu>>
             A == <<a, "data">>
             u0 == P(b, IR_CNTRL_SIG_16BIT, \h2409, 1, mab, dto, din, mdb, Fetch)
             u1 == P(b, IR_CNTRL_SIG_16BIT, \h2409, 0, mab, dto, din, mdb, Fetch)
             u2 == P(b, IR_CNTRL_SIG_16BIT, k, 0, mab, dto, din, mdb, Fetch)
             u3 == P(b, IR_ADDR_16BIT, k, 0, mab, dto, din, mdb, Fetch)
             u4 == P(b, IR_ADDR_16BIT, k, 0, a, dto, din, mdb, Fetch)
             u5 == P(b, IR_DATA_TO_ADDR, k, 0, a, dto, din, mdb, Fetch)
             u6 == P(b, IR_DATA_TO_ADDR, k, 1, a, dto, din, Bus(b, k, a), Fetch)
             u7 == P(b, IR_DATA_TO_ADDR, k, 0, a, dto, din, Bus(b, k, a), Fetch)
             u8 == P(b, IR_DATA_TO_ADDR, k, 0, a, 0, din, Bus(b, k, a), Fetch)
             u9 == P(b, IR_ADDR_CAPTURE, \h2401, 1, a, 0, din, Bus(b, k, a), Fetch)
             h1 == Got(g, "data", Bus(b, k, a))
  <1>l. Len(S) = 6
        /\ S[1] = kTclk0 /\ S[2] = kIrDr16(IR_CNTRL_SIG_16BIT, k) /\ S[3] = kAddr
        /\ S[4] = kIr(kdNone, IR_DATA_TO_ADDR, kdTclkP) /\ S[5] = kDr16_ret(0) /\ S[6] = kReleaseCpu
    OBVIOUS
  <1>a. A[1] = a /\ A[2] = "data"
    OBVIOUS
  <1> HIDE DEF S, A
  <1>0. /\ At(S, 1, 2, kTclk0) /\ At(S, 2, 3, kIrDr16(IR_CNTRL_SIG_16BIT, k))
        /\ At(S, 3, 4, kAddr) /\ At(S, 4, 5, kIr(kdNone, IR_DATA_TO_ADDR, kdTclkP))
        /\ At(S, 5, 6, kDr16_ret(0)) /\ At(S, 6, 7, kReleaseCpu)
        /\ Ends(S, 7) /\ Given(A, 1, 2, a)
        /\ Given(A, 2, 3, "data")
    BY <1>l, <1>a DEF At, Given, Ends
  <1>q. /\ Sound(b) /\ Quiet(b) /\ Calm(b) /\ Legacy(b)
    BY DEF Calm, Quiet
  <1>v. k \in Values16
    BY ControlWords DEF Low
  <1>r. a \in RegValues(b)
    BY <1>q, RegsSame, Peripherals
  <1>k. /\ k \in Values16 /\ Rests(b, \h2401) /\ ~Writes(b, \h2401) /\ Reads(b, \h2409) /\ ~Writes(b, \h2409)
        /\ Reads(b, k) /\ ~Writes(b, k)
    BY <1>q, ControlWords, ExecutesOnly, <1>v DEF Values16
  <1> HIDE DEF u0, u1, u2, u3, u4, u5, u6, u7, u8, u9, h1
  <1>1. Reached(E, S, A, u0, g, 1, 1, u0, g)
    BY RowBegin
  <1>2. Edge(E, kdTclk0, u0, u1)
    BY <1>q, <1>k, Ports, EdgeFall DEF u0, u1
  <1>3. Reached(E, S, A, u0, g, 2, 1, u1, g)
    BY <1>0, <1>k, Ports, <1>1, <1>2, RowEdge
  <1>4. Does(E, Ir(IR_CNTRL_SIG_16BIT), u1, g, u1, g)
    BY <1>q, <1>k, Ports, IrDoes DEF u1
  <1>5. Does(E, Dr(k), u1, g, u2, g)
    BY <1>q, <1>k, DrCntrl DEF u1, u2
  <1>6. Reached(E, S, A, u0, g, 3, 1, u2, g)
    BY <1>0, <1>k, Ports, <1>3, <1>4, <1>5, RowIrDr
  <1>7. Does(E, Ir(IR_ADDR_16BIT), u2, g, u3, g)
    BY <1>q, <1>k, Ports, IrDoes DEF u2, u3
  <1>8. Does(E, Dr(a), u3, g, u4, g)
    BY <1>q, <1>k, <1>r, DrMab DEF u3, u4
  <1>9. Reached(E, S, A, u0, g, 4, 2, u4, g)
    BY <1>0, <1>k, Ports, <1>6, <1>7, <1>8, RowAddr
  <1>10. Edge(E, kdNone, u4, u4)
    BY EdgeNone
  <1>11. Does(E, Ir(IR_DATA_TO_ADDR), u4, g, u5, g)
    BY <1>q, <1>k, Ports, IrDoes DEF u4, u5
  <1>12. Edge(E, kdTclk1, u5, u6)
    BY <1>q, <1>k, Ports, EdgeRead DEF u5, u6
  <1>13. Edge(E, kdTclk0, u6, u7)
    BY <1>q, <1>k, Ports, EdgeFall DEF u6, u7
  <1>14. Edge(E, kdTclkP, u5, u7)
    BY <1>12, <1>13, EdgePulse
  <1>15. Reached(E, S, A, u0, g, 5, 2, u7, g)
    BY <1>0, <1>k, Ports, <1>9, <1>10, <1>11, <1>14, RowIr
  <1>16. Does(E, DrTo(0, "data"), u7, g, u8, h1)
    BY <1>q, <1>k, Ports, PlainAre, DrShownDto DEF u7, u8, h1
  <1>17. Reached(E, S, A, u0, g, 6, 3, u8, h1)
    BY <1>0, <1>k, Ports, <1>15, <1>16, RowDrTo
  <1>18. Edge(E, kdTclk0, u8, u8)
    BY <1>q, EdgeLow DEF u8
  <1>19. Does(E, ReleaseCpu, u8, h1, u9, h1) /\ IsSeq(ReleaseCpu)
    BY <1>q, <1>18, ReleaseCpuDoes DEF u8, u9
  <1>20. Reached(E, S, A, u0, g, 7, 3, u9, h1)
    BY <1>0, <1>k, Ports, <1>17, <1>19, StepRelease
  <1>21. Does(E, Play(S, A), u0, g, u9, h1)
    BY <1>0, <1>20, ScriptEnd
  <1> QED BY <1>21 DEF S, A, u0, u9, h1

\* ... or their low byte.
LEMMA ReadRows_X ==
    ASSUME NEW E, NEW g, NEW b, Calm(b), Legacy(b), NEW mab, NEW dto, NEW din, NEW mdb,
           NEW k \in {\h2409, \h2419}, NEW l \in Values16, k = WithLow(\h2409, l),
           NEW kAddr, NEW a \in RegValues(b), Addressing(kAddr, a)
    PROVE  Does(E, Play(<<kTclk0, kIrDr16(IR_CNTRL_SIG_LOW_BYTE, l), kAddr,
                        kIr(kdNone, IR_DATA_TO_ADDR, kdTclkP), kDr16_ret(0), kReleaseCpu>>, <<a, "data">>), P(b, IR_CNTRL_SIG_16BIT, \h2409, 1, mab, dto, din, mdb, Fetch), g,
                P(b, IR_ADDR_CAPTURE, \h2401, 1, a, 0, din, Bus(b, k, a), Fetch), Got(g, "data", Bus(b, k, a)))
  <1> DEFINE S == <<kTclk0,
                    kIrDr16(IR_CNTRL_SIG_LOW_BYTE, l),
                    kAddr,
                    kIr(kdNone, IR_DATA_TO_ADDR, kdTclkP),
                    kDr16_ret(0),
                    kReleaseCpu>>
             A == <<a, "data">>
             u0 == P(b, IR_CNTRL_SIG_16BIT, \h2409, 1, mab, dto, din, mdb, Fetch)
             u1 == P(b, IR_CNTRL_SIG_16BIT, \h2409, 0, mab, dto, din, mdb, Fetch)
             u2 == P(b, IR_CNTRL_SIG_LOW_BYTE, \h2409, 0, mab, dto, din, mdb, Fetch)
             u3 == P(b, IR_CNTRL_SIG_LOW_BYTE, k, 0, mab, dto, din, mdb, Fetch)
             u4 == P(b, IR_ADDR_16BIT, k, 0, mab, dto, din, mdb, Fetch)
             u5 == P(b, IR_ADDR_16BIT, k, 0, a, dto, din, mdb, Fetch)
             u6 == P(b, IR_DATA_TO_ADDR, k, 0, a, dto, din, mdb, Fetch)
             u7 == P(b, IR_DATA_TO_ADDR, k, 1, a, dto, din, Bus(b, k, a), Fetch)
             u8 == P(b, IR_DATA_TO_ADDR, k, 0, a, dto, din, Bus(b, k, a), Fetch)
             u9 == P(b, IR_DATA_TO_ADDR, k, 0, a, 0, din, Bus(b, k, a), Fetch)
             u10 == P(b, IR_ADDR_CAPTURE, \h2401, 1, a, 0, din, Bus(b, k, a), Fetch)
             h1 == Got(g, "data", Bus(b, k, a))
  <1>l. Len(S) = 6
        /\ S[1] = kTclk0 /\ S[2] = kIrDr16(IR_CNTRL_SIG_LOW_BYTE, l) /\ S[3] = kAddr
        /\ S[4] = kIr(kdNone, IR_DATA_TO_ADDR, kdTclkP) /\ S[5] = kDr16_ret(0) /\ S[6] = kReleaseCpu
    OBVIOUS
  <1>a. A[1] = a /\ A[2] = "data"
    OBVIOUS
  <1> HIDE DEF S, A
  <1>0. /\ At(S, 1, 2, kTclk0) /\ At(S, 2, 3, kIrDr16(IR_CNTRL_SIG_LOW_BYTE, l))
        /\ At(S, 3, 4, kAddr) /\ At(S, 4, 5, kIr(kdNone, IR_DATA_TO_ADDR, kdTclkP))
        /\ At(S, 5, 6, kDr16_ret(0)) /\ At(S, 6, 7, kReleaseCpu)
        /\ Ends(S, 7) /\ Given(A, 1, 2, a)
        /\ Given(A, 2, 3, "data")
    BY <1>l, <1>a DEF At, Given, Ends
  <1>q. /\ Sound(b) /\ Quiet(b) /\ Calm(b) /\ Legacy(b)
    BY DEF Calm, Quiet
  <1>v. l \in Values16
    BY ControlWords DEF Low
  <1>r. a \in RegValues(b)
    BY <1>q, RegsSame, Peripherals
  <1>k. /\ l \in Values16 /\ Rests(b, \h2401) /\ ~Writes(b, \h2401) /\ Reads(b, \h2409) /\ ~Writes(b, \h2409)
        /\ Reads(b, k) /\ ~Writes(b, k)
    BY <1>q, ControlWords, ExecutesOnly, <1>v DEF Values16
  <1> HIDE DEF u0, u1, u2, u3, u4, u5, u6, u7, u8, u9, u10, h1
  <1>1. Reached(E, S, A, u0, g, 1, 1, u0, g)
    BY RowBegin
  <1>2. Edge(E, kdTclk0, u0, u1)
    BY <1>q, <1>k, Ports, EdgeFall DEF u0, u1
  <1>3. Reached(E, S, A, u0, g, 2, 1, u1, g)
    BY <1>0, <1>k, Ports, <1>1, <1>2, RowEdge
  <1>4. Does(E, Ir(IR_CNTRL_SIG_LOW_BYTE), u1, g, u2, g)
    BY <1>q, <1>k, Ports, IrDoes DEF u1, u2
  <1>5. Does(E, Dr(l), u2, g, u3, g)
    BY <1>q, <1>k, DrLow DEF u2, u3
  <1>6. Reached(E, S, A, u0, g, 3, 1, u3, g)
    BY <1>0, <1>k, Ports, <1>3, <1>4, <1>5, RowIrDr
  <1>7. Does(E, Ir(IR_ADDR_16BIT), u3, g, u4, g)
    BY <1>q, <1>k, Ports, IrDoes DEF u3, u4
  <1>8. Does(E, Dr(a), u4, g, u5, g)
    BY <1>q, <1>k, <1>r, DrMab DEF u4, u5
  <1>9. Reached(E, S, A, u0, g, 4, 2, u5, g)
    BY <1>0, <1>k, Ports, <1>6, <1>7, <1>8, RowAddr
  <1>10. Edge(E, kdNone, u5, u5)
    BY EdgeNone
  <1>11. Does(E, Ir(IR_DATA_TO_ADDR), u5, g, u6, g)
    BY <1>q, <1>k, Ports, IrDoes DEF u5, u6
  <1>12. Edge(E, kdTclk1, u6, u7)
    BY <1>q, <1>k, Ports, EdgeRead DEF u6, u7
  <1>13. Edge(E, kdTclk0, u7, u8)
    BY <1>q, <1>k, Ports, EdgeFall DEF u7, u8
  <1>14. Edge(E, kdTclkP, u6, u8)
    BY <1>12, <1>13, EdgePulse
  <1>15. Reached(E, S, A, u0, g, 5, 2, u8, g)
    BY <1>0, <1>k, Ports, <1>9, <1>10, <1>11, <1>14, RowIr
  <1>16. Does(E, DrTo(0, "data"), u8, g, u9, h1)
    BY <1>q, <1>k, Ports, PlainAre, DrShownDto DEF u8, u9, h1
  <1>17. Reached(E, S, A, u0, g, 6, 3, u9, h1)
    BY <1>0, <1>k, Ports, <1>15, <1>16, RowDrTo
  <1>18. Edge(E, kdTclk0, u9, u9)
    BY <1>q, EdgeLow DEF u9
  <1>19. Does(E, ReleaseCpu, u9, h1, u10, h1) /\ IsSeq(ReleaseCpu)
    BY <1>q, <1>18, ReleaseCpuDoes DEF u9, u10
  <1>20. Reached(E, S, A, u0, g, 7, 3, u10, h1)
    BY <1>0, <1>k, Ports, <1>17, <1>19, StepRelease
  <1>21. Does(E, Play(S, A), u0, g, u10, h1)
    BY <1>0, <1>20, ScriptEnd
  <1> QED BY <1>21 DEF S, A, u0, u10, h1

\* A word is written, and the CPU let go.
LEMMA WriteRows ==
    ASSUME NEW E, NEW g, NEW b, Calm(b), Legacy(b), NEW mab, NEW dto, NEW din, NEW mdb,
           NEW kAddr, NEW a \in RegValues(b), Addressing(kAddr, a), NEW v, NEW d, Low(v, d),
           NEW c, Wrote(E, b, a, d, c), Calm(c)
    PROVE  Does(E, Play(<<kTclk0, kIrDr8(IR_CNTRL_SIG_LOW_BYTE, \h08), kAddr,
                        kIrDr16Argv(kdNone, IR_DATA_TO_ADDR, kdTclk1), kReleaseCpu>>, <<a, v>>), P(b, IR_CNTRL_SIG_16BIT, \h2409, 1, mab, dto, din, mdb, Fetch), g,
                P(c, IR_ADDR_CAPTURE, \h2401, 1, a, d, din, mdb, Fetch), g)
  <1> DEFINE S == <<kTclk0,
                    kIrDr8(IR_CNTRL_SIG_LOW_BYTE, \h08),
                    kAddr,
                    kIrDr16Argv(kdNone, IR_DATA_TO_ADDR, kdTclk1),
                    kReleaseCpu>>
             A == <<a, v>>
             u0 == P(b, IR_CNTRL_SIG_16BIT, \h2409, 1, mab, dto, din, mdb, Fetch)
             u1 == P(b, IR_CNTRL_SIG_16BIT, \h2409, 0, mab, dto, din, mdb, Fetch)
             u2 == P(b, IR_CNTRL_SIG_LOW_BYTE, \h2409, 0, mab, dto, din, mdb, Fetch)
             u3 == P(b, IR_CNTRL_SIG_LOW_BYTE, \h2408, 0, mab, dto, din, mdb, Fetch)
             u4 == P(b, IR_ADDR_16BIT, \h2408, 0, mab, dto, din, mdb, Fetch)
             u5 == P(b, IR_ADDR_16BIT, \h2408, 0, a, dto, din, mdb, Fetch)
             u6 == P(b, IR_DATA_TO_ADDR, \h2408, 0, a, dto, din, mdb, Fetch)
             u7 == P(b, IR_DATA_TO_ADDR, \h2408, 0, a, d, din, mdb, Fetch)
             u8 == P(c, IR_DATA_TO_ADDR, \h2408, 1, a, d, din, mdb, Fetch)
             u9 == P(c, IR_DATA_TO_ADDR, \h2408, 0, a, d, din, mdb, Fetch)
             u10 == P(c, IR_ADDR_CAPTURE, \h2401, 1, a, d, din, mdb, Fetch)
  <1>l. Len(S) = 5
        /\ S[1] = kTclk0 /\ S[2] = kIrDr8(IR_CNTRL_SIG_LOW_BYTE, \h08) /\ S[3] = kAddr
        /\ S[4] = kIrDr16Argv(kdNone, IR_DATA_TO_ADDR, kdTclk1) /\ S[5] = kReleaseCpu
    OBVIOUS
  <1>m. kIrDr8(IR_CNTRL_SIG_LOW_BYTE, \h08) = kIrDr16(IR_CNTRL_SIG_LOW_BYTE, \h08)
    BY Ports, PackAlike
  <1>a. A[1] = a /\ A[2] = v
    OBVIOUS
  <1> HIDE DEF S, A
  <1>0. /\ At(S, 1, 2, kTclk0) /\ At(S, 2, 3, kIrDr16(IR_CNTRL_SIG_LOW_BYTE, \h08))
        /\ At(S, 3, 4, kAddr) /\ At(S, 4, 5, kIrDr16Argv(kdNone, IR_DATA_TO_ADDR, kdTclk1))
        /\ At(S, 5, 6, kReleaseCpu) /\ Ends(S, 6)
        /\ Given(A, 1, 2, a) /\ Given(A, 2, 3, v)
    BY <1>l, <1>m, <1>a DEF At, Given, Ends
  <1>q. /\ Sound(b) /\ Quiet(b) /\ Calm(b) /\ Legacy(b)
        /\ Sound(c) /\ Quiet(c) /\ Calm(c) /\ Legacy(c)
    BY DEF Calm, Quiet, Wrote, Low
  <1>v. d \in Values16
    BY ControlWords DEF Low
  <1>r. a \in RegValues(b)
    BY <1>q, RegsSame, Peripherals DEF Wrote, Low
  <1>k. /\ d \in Values16 /\ \h08 \in Values16 /\ Rests(b, \h2401) /\ ~Writes(b, \h2401)
        /\ Rests(c, \h2401) /\ ~Writes(c, \h2401) /\ Writes(b, \h2408) /\ Writes(c, \h2408)
        /\ Reads(b, \h2409) /\ ~Writes(b, \h2409) /\ Reads(c, \h2409) /\ ~Writes(c, \h2409) /\ WithLow(\h2409, \h08) = \h2408
    BY <1>q, ControlWords, ExecutesOnly, <1>v DEF Values16, WithLow
  <1> HIDE DEF u0, u1, u2, u3, u4, u5, u6, u7, u8, u9, u10
  <1>1. Reached(E, S, A, u0, g, 1, 1, u0, g)
    BY RowBegin
  <1>2. Edge(E, kdTclk0, u0, u1)
    BY <1>q, <1>k, Ports, EdgeFall DEF u0, u1
  <1>3. Reached(E, S, A, u0, g, 2, 1, u1, g)
    BY <1>0, <1>k, Ports, <1>1, <1>2, RowEdge
  <1>4. Does(E, Ir(IR_CNTRL_SIG_LOW_BYTE), u1, g, u2, g)
    BY <1>q, <1>k, Ports, IrDoes DEF u1, u2
  <1>5. Does(E, Dr(\h08), u2, g, u3, g)
    BY <1>q, <1>k, DrLow DEF u2, u3
  <1>6. Reached(E, S, A, u0, g, 3, 1, u3, g)
    BY <1>0, <1>k, Ports, <1>3, <1>4, <1>5, RowIrDr
  <1>7. Does(E, Ir(IR_ADDR_16BIT), u3, g, u4, g)
    BY <1>q, <1>k, Ports, IrDoes DEF u3, u4
  <1>8. Does(E, Dr(a), u4, g, u5, g)
    BY <1>q, <1>k, <1>r, DrMab DEF u4, u5
  <1>9. Reached(E, S, A, u0, g, 4, 2, u5, g)
    BY <1>0, <1>k, Ports, <1>6, <1>7, <1>8, RowAddr
  <1>10. Edge(E, kdNone, u5, u5)
    BY EdgeNone
  <1>11. Does(E, Ir(IR_DATA_TO_ADDR), u5, g, u6, g)
    BY <1>q, <1>k, Ports, IrDoes DEF u5, u6
  <1>12. Does(E, Dr(d), u6, g, u7, g)
    BY <1>q, <1>k, DrDto DEF u6, u7
  <1>13. Edge(E, kdTclk1, u7, u8)
    BY <1>q, <1>k, EdgeWrite DEF u7, u8
  <1>14. Reached(E, S, A, u0, g, 5, 3, u8, g)
    BY <1>0, <1>k, Ports, <1>9, <1>10, <1>11, <1>12, <1>13, RowIrDrArgv
  <1>15. Edge(E, kdTclk0, u8, u9)
    BY <1>q, <1>k, Ports, EdgeFall DEF u8, u9
  <1>16. Does(E, ReleaseCpu, u8, g, u10, g) /\ IsSeq(ReleaseCpu)
    BY <1>q, <1>15, ReleaseCpuDoes DEF u9, u10
  <1>17. Reached(E, S, A, u0, g, 6, 3, u10, g)
    BY <1>0, <1>k, Ports, <1>14, <1>16, StepRelease
  <1>18. Does(E, Play(S, A), u0, g, u10, g)
    BY <1>0, <1>17, ScriptEnd
  <1> QED BY <1>18 DEF S, A, u0, u10

\* Words are written one after the other.
LEMMA WriteNextRows ==
    ASSUME NEW E, NEW g, NEW b, Calm(b), Legacy(b), NEW ir, NEW mab, NEW dto, NEW din, NEW mdb,
           ir # IR_DATA_QUICK,
           NEW kAddr, NEW a \in RegValues(b), Addressing(kAddr, a), NEW v, NEW d, Low(v, d),
           NEW c, Wrote(E, b, a, d, c), Calm(c)
    PROVE  Does(E, Play(<<kAddr, kIrDr16Argv(kdNone, IR_DATA_TO_ADDR, kdTclkP)>>, <<a, v>>), P(b, ir, \h2408, 0, mab, dto, din, mdb, Fetch), g,
                P(c, IR_DATA_TO_ADDR, \h2408, 0, a, d, din, mdb, Fetch), g)
  <1> DEFINE S == <<kAddr,
                    kIrDr16Argv(kdNone, IR_DATA_TO_ADDR, kdTclkP)>>
             A == <<a, v>>
             u0 == P(b, ir, \h2408, 0, mab, dto, din, mdb, Fetch)
             u1 == P(b, IR_ADDR_16BIT, \h2408, 0, mab, dto, din, mdb, Fetch)
             u2 == P(b, IR_ADDR_16BIT, \h2408, 0, a, dto, din, mdb, Fetch)
             u3 == P(b, IR_DATA_TO_ADDR, \h2408, 0, a, dto, din, mdb, Fetch)
             u4 == P(b, IR_DATA_TO_ADDR, \h2408, 0, a, d, din, mdb, Fetch)
             u5 == P(c, IR_DATA_TO_ADDR, \h2408, 1, a, d, din, mdb, Fetch)
             u6 == P(c, IR_DATA_TO_ADDR, \h2408, 0, a, d, din, mdb, Fetch)
  <1>l. Len(S) = 2
        /\ S[1] = kAddr /\ S[2] = kIrDr16Argv(kdNone, IR_DATA_TO_ADDR, kdTclkP)
    OBVIOUS
  <1>a. A[1] = a /\ A[2] = v
    OBVIOUS
  <1> HIDE DEF S, A
  <1>0. /\ At(S, 1, 2, kAddr) /\ At(S, 2, 3, kIrDr16Argv(kdNone, IR_DATA_TO_ADDR, kdTclkP))
        /\ Ends(S, 3) /\ Given(A, 1, 2, a)
        /\ Given(A, 2, 3, v)
    BY <1>l, <1>a DEF At, Given, Ends
  <1>q. /\ Sound(b) /\ Quiet(b) /\ Calm(b) /\ Legacy(b)
        /\ Sound(c) /\ Quiet(c) /\ Calm(c) /\ Legacy(c)
    BY DEF Calm, Quiet, Wrote, Low
  <1>v. d \in Values16
    BY ControlWords DEF Low
  <1>r. a \in RegValues(b)
    BY <1>q, RegsSame, Peripherals DEF Wrote, Low
  <1>k. /\ d \in Values16 /\ Writes(b, \h2408) /\ Writes(c, \h2408)
    BY <1>q, ControlWords, ExecutesOnly, <1>v DEF Values16
  <1> HIDE DEF u0, u1, u2, u3, u4, u5, u6
  <1>1. Reached(E, S, A, u0, g, 1, 1, u0, g)
    BY RowBegin
  <1>2. Does(E, Ir(IR_ADDR_16BIT), u0, g, u1, g)
    BY <1>q, <1>k, Ports, IrDoes DEF u0, u1
  <1>3. Does(E, Dr(a), u1, g, u2, g)
    BY <1>q, <1>k, <1>r, DrMab DEF u1, u2
  <1>4. Reached(E, S, A, u0, g, 2, 2, u2, g)
    BY <1>0, <1>k, Ports, <1>1, <1>2, <1>3, RowAddr
  <1>5. Edge(E, kdNone, u2, u2)
    BY EdgeNone
  <1>6. Does(E, Ir(IR_DATA_TO_ADDR), u2, g, u3, g)
    BY <1>q, <1>k, Ports, IrDoes DEF u2, u3
  <1>7. Does(E, Dr(d), u3, g, u4, g)
    BY <1>q, <1>k, DrDto DEF u3, u4
  <1>8. Edge(E, kdTclk1, u4, u5)
    BY <1>q, <1>k, EdgeWrite DEF u4, u5
  <1>9. Edge(E, kdTclk0, u5, u6)
    BY <1>q, <1>k, Ports, EdgeFall DEF u5, u6
  <1>10. Edge(E, kdTclkP, u4, u6)
    BY <1>8, <1>9, EdgePulse
  <1>11. Reached(E, S, A, u0, g, 3, 3, u6, g)
    BY <1>0, <1>k, Ports, <1>4, <1>5, <1>6, <1>7, <1>10, RowIrDrArgv
  <1>12. Does(E, Play(S, A), u0, g, u6, g)
    BY <1>0, <1>11, ScriptEnd
  <1> QED BY <1>12 DEF S, A, u0, u6

-----------------------------------------------------------------------------
(* The flash controller.                                                   *)

\* Strobes of TCLK run the flash controller.
LEMMA StrobeDoes ==
    ASSUME NEW E, NEW g, NEW b, NEW ir, NEW cntrl, NEW tclk, NEW mab, NEW dto, NEW din, NEW mdb,
           NEW cpu, Reads(b, cntrl), NEW n, NEW c, NEW e, Strobed(E, b, n, c, e)
    PROVE  Does(E, Strobe(n), P(b, ir, cntrl, tclk, mab, dto, din, mdb, cpu), g, P(c, ir, cntrl, e, mab, dto, din, mdb, cpu), g)
  BY DoesStrobe DEF Strobed, Reads

\* The flash is unlocked for words.
LEMMA FlashOpenRows ==
    ASSUME NEW E, NEW g, NEW b, Calm(b), Legacy(b), NEW mab, NEW dto, NEW din, NEW mdb,
           NEW f, NEW d, Low(f, d), NEW c1, Wrote(E, b, \h128, \hA540, c1), Calm(c1),
           NEW c2, Wrote(E, c1, \h12A, \hA540, c2), Calm(c2), NEW c3, Wrote(E, c2, \h12C, d, c3),
           Calm(c3)
    PROVE  Does(E, Play(<<kTclk0, kIrDr16(IR_CNTRL_SIG_16BIT, \h2408),
                        kIrDr16(IR_ADDR_16BIT, \h128), kIrDr16(IR_DATA_TO_ADDR, \hA540), kPulseTclk,
                        kIrDr16(IR_ADDR_16BIT, \h12A), kIrDr16(IR_DATA_TO_ADDR, \hA540), kPulseTclk,
                        kIrDr16(IR_ADDR_16BIT, \h12C), kIrDr16Argv(kdNone, IR_DATA_TO_ADDR, kdNone),
                        kIr(kdTclkP, IR_CNTRL_SIG_16BIT, kdNone)>>, <<f>>), P(b, IR_CNTRL_SIG_16BIT, \h2409, 1, mab, dto, din, mdb, Fetch), g,
                P(c3, IR_CNTRL_SIG_16BIT, \h2408, 0, \h12C, d, din, mdb, Fetch), g)
  <1> DEFINE S == <<kTclk0,
                    kIrDr16(IR_CNTRL_SIG_16BIT, \h2408),
                    kIrDr16(IR_ADDR_16BIT, \h128),
                    kIrDr16(IR_DATA_TO_ADDR, \hA540),
                    kPulseTclk,
                    kIrDr16(IR_ADDR_16BIT, \h12A),
                    kIrDr16(IR_DATA_TO_ADDR, \hA540),
                    kPulseTclk,
                    kIrDr16(IR_ADDR_16BIT, \h12C),
                    kIrDr16Argv(kdNone, IR_DATA_TO_ADDR, kdNone),
                    kIr(kdTclkP, IR_CNTRL_SIG_16BIT, kdNone)>>
             A == <<f>>
             u0 == P(b, IR_CNTRL_SIG_16BIT, \h2409, 1, mab, dto, din, mdb, Fetch)
             u1 == P(b, IR_CNTRL_SIG_16BIT, \h2409, 0, mab, dto, din, mdb, Fetch)
             u2 == P(b, IR_CNTRL_SIG_16BIT, \h2408, 0, mab, dto, din, mdb, Fetch)
             u3 == P(b, IR_ADDR_16BIT, \h2408, 0, mab, dto, din, mdb, Fetch)
             u4 == P(b, IR_ADDR_16BIT, \h2408, 0, \h128, dto, din, mdb, Fetch)
             u5 == P(b, IR_DATA_TO_ADDR, \h2408, 0, \h128, dto, din, mdb, Fetch)
             u6 == P(b, IR_DATA_TO_ADDR, \h2408, 0, \h128, \hA540, din, mdb, Fetch)
             u7 == P(c1, IR_DATA_TO_ADDR, \h2408, 1, \h128, \hA540, din, mdb, Fetch)
             u8 == P(c1, IR_DATA_TO_ADDR, \h2408, 0, \h128, \hA540, din, mdb, Fetch)
             u9 == P(c1, IR_ADDR_16BIT, \h2408, 0, \h128, \hA540, din, mdb, Fetch)
             u10 == P(c1, IR_ADDR_16BIT, \h2408, 0, \h12A, \hA540, din, mdb, Fetch)
             u11 == P(c1, IR_DATA_TO_ADDR, \h2408, 0, \h12A, \hA540, din, mdb, Fetch)
             u12 == P(c2, IR_DATA_TO_ADDR, \h2408, 1, \h12A, \hA540, din, mdb, Fetch)
             u13 == P(c2, IR_DATA_TO_ADDR, \h2408, 0, \h12A, \hA540, din, mdb, Fetch)
             u14 == P(c2, IR_ADDR_16BIT, \h2408, 0, \h12A, \hA540, din, mdb, Fetch)
             u15 == P(c2, IR_ADDR_16BIT, \h2408, 0, \h12C, \hA540, din, mdb, Fetch)
             u16 == P(c2, IR_DATA_TO_ADDR, \h2408, 0, \h12C, \hA540, din, mdb, Fetch)
             u17 == P(c2, IR_DATA_TO_ADDR, \h2408, 0, \h12C, d, din, mdb, Fetch)
             u18 == P(c3, IR_DATA_TO_ADDR, \h2408, 1, \h12C, d, din, mdb, Fetch)
             u19 == P(c3, IR_DATA_TO_ADDR, \h2408, 0, \h12C, d, din, mdb, Fetch)
             u20 == P(c3, IR_CNTRL_SIG_16BIT, \h2408, 0, \h12C, d, din, mdb, Fetch)
  <1>l. Len(S) = 11
        /\ S[1] = kTclk0 /\ S[2] = kIrDr16(IR_CNTRL_SIG_16BIT, \h2408) /\ S[3] = kIrDr16(IR_ADDR_16BIT, \h128)
        /\ S[4] = kIrDr16(IR_DATA_TO_ADDR, \hA540) /\ S[5] = kPulseTclk /\ S[6] = kIrDr16(IR_ADDR_16BIT, \h12A)
        /\ S[7] = kIrDr16(IR_DATA_TO_ADDR, \hA540) /\ S[8] = kPulseTclk /\ S[9] = kIrDr16(IR_ADDR_16BIT, \h12C)
        /\ S[10] = kIrDr16Argv(kdNone, IR_DATA_TO_ADDR, kdNone) /\ S[11] = kIr(kdTclkP, IR_CNTRL_SIG_16BIT, kdNone)
    OBVIOUS
  <1>a. A[1] = f
    OBVIOUS
  <1> HIDE DEF S, A
  <1>0. /\ At(S, 1, 2, kTclk0) /\ At(S, 2, 3, kIrDr16(IR_CNTRL_SIG_16BIT, \h2408))
        /\ At(S, 3, 4, kIrDr16(IR_ADDR_16BIT, \h128)) /\ At(S, 4, 5, kIrDr16(IR_DATA_TO_ADDR, \hA540))
        /\ At(S, 5, 6, kPulseTclk) /\ At(S, 6, 7, kIrDr16(IR_ADDR_16BIT, \h12A))
        /\ At(S, 7, 8, kIrDr16(IR_DATA_TO_ADDR, \hA540)) /\ At(S, 8, 9, kPulseTclk)
        /\ At(S, 9, 10, kIrDr16(IR_ADDR_16BIT, \h12C)) /\ At(S, 10, 11, kIrDr16Argv(kdNone, IR_DATA_TO_ADDR, kdNone))
        /\ At(S, 11, 12, kIr(kdTclkP, IR_CNTRL_SIG_16BIT, kdNone)) /\ Ends(S, 12)
        /\ Given(A, 1, 2, f)
    BY <1>l, <1>a DEF At, Given, Ends
  <1>q. /\ Sound(b) /\ Quiet(b) /\ Calm(b) /\ Legacy(b)
        /\ Sound(c1) /\ Quiet(c1) /\ Calm(c1) /\ Legacy(c1)
        /\ Sound(c2) /\ Quiet(c2) /\ Calm(c2) /\ Legacy(c2)
        /\ Sound(c3) /\ Quiet(c3) /\ Calm(c3) /\ Legacy(c3)
    BY DEF Calm, Quiet, Wrote, Low, Strobed
  <1>v. d \in Values16
    BY ControlWords DEF Low
  <1>r. \h128 \in RegValues(b) /\ \h12A \in RegValues(c1) /\ \h12C \in RegValues(c2)
    BY <1>q, RegsSame, Peripherals DEF Wrote, Low, Strobed
  <1>k. /\ d \in Values16 /\ \h128 \in Values16 /\ \h12A \in Values16 /\ \h12C \in Values16 /\ \h2408 \in Values16 /\ \hA540 \in Values16 /\ Writes(b, \h2408)
        /\ Writes(c1, \h2408) /\ Writes(c2, \h2408) /\ Writes(c3, \h2408)
        /\ Reads(b, \h2409) /\ ~Writes(b, \h2409) /\ Reads(c1, \h2409) /\ ~Writes(c1, \h2409) /\ Reads(c2, \h2409) /\ ~Writes(c2, \h2409)
        /\ Reads(c3, \h2409) /\ ~Writes(c3, \h2409)
    BY <1>q, ControlWords, ExecutesOnly, <1>v DEF Values16
  <1> HIDE DEF u0, u1, u2, u3, u4, u5, u6, u7, u8, u9, u10, u11, u12, u13, u14, u15, u16, u17, u18, u19, u20
  <1>1. Reached(E, S, A, u0, g, 1, 1, u0, g)
    BY RowBegin
  <1>2. Edge(E, kdTclk0, u0, u1)
    BY <1>q, <1>k, Ports, EdgeFall DEF u0, u1
  <1>3. Reached(E, S, A, u0, g, 2, 1, u1, g)
    BY <1>0, <1>k, Ports, <1>1, <1>2, RowEdge
  <1>4. Does(E, Ir(IR_CNTRL_SIG_16BIT), u1, g, u1, g)
    BY <1>q, <1>k, Ports, IrDoes DEF u1
  <1>5. Does(E, Dr(\h2408), u1, g, u2, g)
    BY <1>q, <1>k, DrCntrl DEF u1, u2
  <1>6. Reached(E, S, A, u0, g, 3, 1, u2, g)
    BY <1>0, <1>k, Ports, <1>3, <1>4, <1>5, RowIrDr
  <1>7. Does(E, Ir(IR_ADDR_16BIT), u2, g, u3, g)
    BY <1>q, <1>k, Ports, IrDoes DEF u2, u3
  <1>8. Does(E, Dr(\h128), u3, g, u4, g)
    BY <1>q, <1>k, <1>r, DrMab DEF u3, u4
  <1>9. Reached(E, S, A, u0, g, 4, 1, u4, g)
    BY <1>0, <1>k, Ports, <1>6, <1>7, <1>8, RowIrDr
  <1>10. Does(E, Ir(IR_DATA_TO_ADDR), u4, g, u5, g)
    BY <1>q, <1>k, Ports, IrDoes DEF u4, u5
  <1>11. Does(E, Dr(\hA540), u5, g, u6, g)
    BY <1>q, <1>k, DrDto DEF u5, u6
  <1>12. Reached(E, S, A, u0, g, 5, 1, u6, g)
    BY <1>0, <1>k, Ports, <1>9, <1>10, <1>11, RowIrDr
  <1>13. Edge(E, kdTclk1, u6, u7)
    BY <1>q, <1>k, EdgeWrite DEF u6, u7
  <1>14. Edge(E, kdTclk0, u7, u8)
    BY <1>q, <1>k, Ports, EdgeFall DEF u7, u8
  <1>15. Edge(E, kdTclkP, u6, u8)
    BY <1>13, <1>14, EdgePulse
  <1>16. Reached(E, S, A, u0, g, 6, 1, u8, g)
    BY <1>0, <1>k, Ports, <1>12, <1>15, RowEdge
  <1>17. Does(E, Ir(IR_ADDR_16BIT), u8, g, u9, g)
    BY <1>q, <1>k, Ports, IrDoes DEF u8, u9
  <1>18. Does(E, Dr(\h12A), u9, g, u10, g)
    BY <1>q, <1>k, <1>r, DrMab DEF u9, u10
  <1>19. Reached(E, S, A, u0, g, 7, 1, u10, g)
    BY <1>0, <1>k, Ports, <1>16, <1>17, <1>18, RowIrDr
  <1>20. Does(E, Ir(IR_DATA_TO_ADDR), u10, g, u11, g)
    BY <1>q, <1>k, Ports, IrDoes DEF u10, u11
  <1>21. Does(E, Dr(\hA540), u11, g, u11, g)
    BY <1>q, <1>k, DrDto DEF u11
  <1>22. Reached(E, S, A, u0, g, 8, 1, u11, g)
    BY <1>0, <1>k, Ports, <1>19, <1>20, <1>21, RowIrDr
  <1>23. Edge(E, kdTclk1, u11, u12)
    BY <1>q, <1>k, EdgeWrite DEF u11, u12
  <1>24. Edge(E, kdTclk0, u12, u13)
    BY <1>q, <1>k, Ports, EdgeFall DEF u12, u13
  <1>25. Edge(E, kdTclkP, u11, u13)
    BY <1>23, <1>24, EdgePulse
  <1>26. Reached(E, S, A, u0, g, 9, 1, u13, g)
    BY <1>0, <1>k, Ports, <1>22, <1>25, RowEdge
  <1>27. Does(E, Ir(IR_ADDR_16BIT), u13, g, u14, g)
    BY <1>q, <1>k, Ports, IrDoes DEF u13, u14
  <1>28. Does(E, Dr(\h12C), u14, g, u15, g)
    BY <1>q, <1>k, <1>r, DrMab DEF u14, u15
  <1>29. Reached(E, S, A, u0, g, 10, 1, u15, g)
    BY <1>0, <1>k, Ports, <1>26, <1>27, <1>28, RowIrDr
  <1>30. Edge(E, kdNone, u15, u15)
    BY EdgeNone
  <1>31. Does(E, Ir(IR_DATA_TO_ADDR), u15, g, u16, g)
    BY <1>q, <1>k, Ports, IrDoes DEF u15, u16
  <1>32. Does(E, Dr(d), u16, g, u17, g)
    BY <1>q, <1>k, DrDto DEF u16, u17
  <1>33. Edge(E, kdNone, u17, u17)
    BY EdgeNone
  <1>34. Reached(E, S, A, u0, g, 11, 2, u17, g)
    BY <1>0, <1>k, Ports, <1>29, <1>30, <1>31, <1>32, <1>33, RowIrDrArgv
  <1>35. Edge(E, kdTclk1, u17, u18)
    BY <1>q, <1>k, EdgeWrite DEF u17, u18
  <1>36. Edge(E, kdTclk0, u18, u19)
    BY <1>q, <1>k, Ports, EdgeFall DEF u18, u19
  <1>37. Edge(E, kdTclkP, u17, u19)
    BY <1>35, <1>36, EdgePulse
  <1>38. Does(E, Ir(IR_CNTRL_SIG_16BIT), u19, g, u20, g)
    BY <1>q, <1>k, Ports, IrDoes DEF u19, u20
  <1>39. Edge(E, kdNone, u20, u20)
    BY EdgeNone
  <1>40. Reached(E, S, A, u0, g, 12, 2, u20, g)
    BY <1>0, <1>k, Ports, <1>34, <1>37, <1>38, <1>39, RowIr
  <1>41. Does(E, Play(S, A), u0, g, u20, g)
    BY <1>0, <1>40, ScriptEnd
  <1> QED BY <1>41 DEF S, A, u0, u20

\* A word of flash, with TCLK low at first.
LEMMA FlashWordRowsLow ==
    ASSUME NEW E, NEW g, NEW b, Calm(b), Legacy(b), NEW cntrl, NEW mab, NEW dto, NEW din, NEW mdb,
           NEW kAddr, NEW a \in RegValues(b), Addressing(kAddr, a), NEW v, NEW d, Low(v, d), NEW n,
           NEW c1, Wrote(E, b, a, d, c1), NEW c2, NEW e, Strobed(E, c1, n, c2, e)
    PROVE  Does(E, Play(<<kDr16(\h2408), kAddr, kIrDr16Argv(kdNone, IR_DATA_TO_ADDR, kdTclkP),
                        kIrDr16(IR_CNTRL_SIG_16BIT, \h2409), kStrobeTclkArgv>>, <<a, v, n>>), P(b, IR_CNTRL_SIG_16BIT, cntrl, 0, mab, dto, din, mdb, Fetch), g,
                P(c2, IR_CNTRL_SIG_16BIT, \h2409, e, a, d, din, mdb, Fetch), g)
  <1> DEFINE S == <<kDr16(\h2408),
                    kAddr,
                    kIrDr16Argv(kdNone, IR_DATA_TO_ADDR, kdTclkP),
                    kIrDr16(IR_CNTRL_SIG_16BIT, \h2409),
                    kStrobeTclkArgv>>
             A == <<a, v, n>>
             u0 == P(b, IR_CNTRL_SIG_16BIT, cntrl, 0, mab, dto, din, mdb, Fetch)
             u1 == P(b, IR_CNTRL_SIG_16BIT, \h2408, 0, mab, dto, din, mdb, Fetch)
             u2 == P(b, IR_ADDR_16BIT, \h2408, 0, mab, dto, din, mdb, Fetch)
             u3 == P(b, IR_ADDR_16BIT, \h2408, 0, a, dto, din, mdb, Fetch)
             u4 == P(b, IR_DATA_TO_ADDR, \h2408, 0, a, dto, din, mdb, Fetch)
             u5 == P(b, IR_DATA_TO_ADDR, \h2408, 0, a, d, din, mdb, Fetch)
             u6 == P(c1, IR_DATA_TO_ADDR, \h2408, 1, a, d, din, mdb, Fetch)
             u7 == P(c1, IR_DATA_TO_ADDR, \h2408, 0, a, d, din, mdb, Fetch)
             u8 == P(c1, IR_CNTRL_SIG_16BIT, \h2408, 0, a, d, din, mdb, Fetch)
             u9 == P(c1, IR_CNTRL_SIG_16BIT, \h2409, 0, a, d, din, mdb, Fetch)
             u10 == P(c2, IR_CNTRL_SIG_16BIT, \h2409, e, a, d, din, mdb, Fetch)
  <1>l. Len(S) = 5
        /\ S[1] = kDr16(\h2408) /\ S[2] = kAddr /\ S[3] = kIrDr16Argv(kdNone, IR_DATA_TO_ADDR, kdTclkP)
        /\ S[4] = kIrDr16(IR_CNTRL_SIG_16BIT, \h2409) /\ S[5] = kStrobeTclkArgv
    OBVIOUS
  <1>a. A[1] = a /\ A[2] = v /\ A[3] = n
    OBVIOUS
  <1> HIDE DEF S, A
  <1>0. /\ At(S, 1, 2, kDr16(\h2408)) /\ At(S, 2, 3, kAddr)
        /\ At(S, 3, 4, kIrDr16Argv(kdNone, IR_DATA_TO_ADDR, kdTclkP)) /\ At(S, 4, 5, kIrDr16(IR_CNTRL_SIG_16BIT, \h2409))
        /\ At(S, 5, 6, kStrobeTclkArgv) /\ Ends(S, 6)
        /\ Given(A, 1, 2, a) /\ Given(A, 2, 3, v)
        /\ Given(A, 3, 4, n)
    BY <1>l, <1>a DEF At, Given, Ends
  <1>q. /\ Sound(b) /\ Quiet(b) /\ Calm(b) /\ Legacy(b)
        /\ Sound(c1) /\ Quiet(c1) /\ Legacy(c1)
        /\ Sound(c2) /\ Quiet(c2) /\ Calm(c2) /\ Legacy(c2)
    BY DEF Calm, Quiet, Wrote, Low, Strobed
  <1>v. d \in Values16
    BY ControlWords DEF Low
  <1>r. a \in RegValues(b)
    BY <1>q, RegsSame, Peripherals DEF Wrote, Low, Strobed
  <1>k. /\ d \in Values16 /\ \h2408 \in Values16 /\ \h2409 \in Values16 /\ Writes(b, \h2408)
        /\ Writes(c1, \h2408) /\ Writes(c2, \h2408) /\ Reads(b, \h2409) /\ ~Writes(b, \h2409)
        /\ Reads(c1, \h2409) /\ ~Writes(c1, \h2409) /\ Reads(c2, \h2409) /\ ~Writes(c2, \h2409)
    BY <1>q, ControlWords, ExecutesOnly, <1>v DEF Values16
  <1> HIDE DEF u0, u1, u2, u3, u4, u5, u6, u7, u8, u9, u10
  <1>1. Reached(E, S, A, u0, g, 1, 1, u0, g)
    BY RowBegin
  <1>2. Does(E, Dr(\h2408), u0, g, u1, g)
    BY <1>q, <1>k, DrCntrl DEF u0, u1
  <1>3. Reached(E, S, A, u0, g, 2, 1, u1, g)
    BY <1>0, <1>k, Ports, <1>1, <1>2, RowDr
  <1>4. Does(E, Ir(IR_ADDR_16BIT), u1, g, u2, g)
    BY <1>q, <1>k, Ports, IrDoes DEF u1, u2
  <1>5. Does(E, Dr(a), u2, g, u3, g)
    BY <1>q, <1>k, <1>r, DrMab DEF u2, u3
  <1>6. Reached(E, S, A, u0, g, 3, 2, u3, g)
    BY <1>0, <1>k, Ports, <1>3, <1>4, <1>5, RowAddr
  <1>7. Edge(E, kdNone, u3, u3)
    BY EdgeNone
  <1>8. Does(E, Ir(IR_DATA_TO_ADDR), u3, g, u4, g)
    BY <1>q, <1>k, Ports, IrDoes DEF u3, u4
  <1>9. Does(E, Dr(d), u4, g, u5, g)
    BY <1>q, <1>k, DrDto DEF u4, u5
  <1>10. Edge(E, kdTclk1, u5, u6)
    BY <1>q, <1>k, EdgeWrite DEF u5, u6
  <1>11. Edge(E, kdTclk0, u6, u7)
    BY <1>q, <1>k, Ports, EdgeFall DEF u6, u7
  <1>12. Edge(E, kdTclkP, u5, u7)
    BY <1>10, <1>11, EdgePulse
  <1>13. Reached(E, S, A, u0, g, 4, 3, u7, g)
    BY <1>0, <1>k, Ports, <1>6, <1>7, <1>8, <1>9, <1>12, RowIrDrArgv
  <1>14. Does(E, Ir(IR_CNTRL_SIG_16BIT), u7, g, u8, g)
    BY <1>q, <1>k, Ports, IrDoes DEF u7, u8
  <1>15. Does(E, Dr(\h2409), u8, g, u9, g)
    BY <1>q, <1>k, DrCntrl DEF u8, u9
  <1>16. Reached(E, S, A, u0, g, 5, 3, u9, g)
    BY <1>0, <1>k, Ports, <1>13, <1>14, <1>15, RowIrDr
  <1>17. Does(E, Strobe(n), u9, g, u10, g)
    BY <1>q, <1>k, StrobeDoes DEF u9, u10
  <1>18. Reached(E, S, A, u0, g, 6, 4, u10, g)
    BY <1>0, <1>k, Ports, <1>16, <1>17, RowStrobe
  <1>19. Does(E, Play(S, A), u0, g, u10, g)
    BY <1>0, <1>18, ScriptEnd
  <1> QED BY <1>19 DEF S, A, u0, u10

\* A word of flash, with TCLK high at first.
LEMMA FlashWordRowsHigh ==
    ASSUME NEW E, NEW g, NEW b, Calm(b), Legacy(b), NEW cntrl, NEW mab, NEW dto, NEW din, NEW mdb,
           NEW kAddr, NEW a \in RegValues(b), Addressing(kAddr, a), NEW v, NEW d, Low(v, d), NEW n,
           NEW c1, Wrote(E, b, a, d, c1), NEW c2, NEW e, Strobed(E, c1, n, c2, e)
    PROVE  Does(E, Play(<<kDr16(\h2408), kAddr, kIrDr16Argv(kdNone, IR_DATA_TO_ADDR, kdTclkP),
                        kIrDr16(IR_CNTRL_SIG_16BIT, \h2409), kStrobeTclkArgv>>, <<a, v, n>>), P(b, IR_CNTRL_SIG_16BIT, cntrl, 1, mab, dto, din, mdb, Fetch), g,
                P(c2, IR_CNTRL_SIG_16BIT, \h2409, e, a, d, din, mdb, Fetch), g)
  <1> DEFINE S == <<kDr16(\h2408),
                    kAddr,
                    kIrDr16Argv(kdNone, IR_DATA_TO_ADDR, kdTclkP),
                    kIrDr16(IR_CNTRL_SIG_16BIT, \h2409),
                    kStrobeTclkArgv>>
             A == <<a, v, n>>
             u0 == P(b, IR_CNTRL_SIG_16BIT, cntrl, 1, mab, dto, din, mdb, Fetch)
             u1 == P(b, IR_CNTRL_SIG_16BIT, \h2408, 1, mab, dto, din, mdb, Fetch)
             u2 == P(b, IR_ADDR_16BIT, \h2408, 1, mab, dto, din, mdb, Fetch)
             u3 == P(b, IR_ADDR_16BIT, \h2408, 1, a, dto, din, mdb, Fetch)
             u4 == P(b, IR_DATA_TO_ADDR, \h2408, 1, a, dto, din, mdb, Fetch)
             u5 == P(c1, IR_DATA_TO_ADDR, \h2408, 1, a, d, din, mdb, Fetch)
             u6 == P(c1, IR_DATA_TO_ADDR, \h2408, 0, a, d, din, mdb, Fetch)
             u7 == P(c1, IR_CNTRL_SIG_16BIT, \h2408, 0, a, d, din, mdb, Fetch)
             u8 == P(c1, IR_CNTRL_SIG_16BIT, \h2409, 0, a, d, din, mdb, Fetch)
             u9 == P(c2, IR_CNTRL_SIG_16BIT, \h2409, e, a, d, din, mdb, Fetch)
  <1>l. Len(S) = 5
        /\ S[1] = kDr16(\h2408) /\ S[2] = kAddr /\ S[3] = kIrDr16Argv(kdNone, IR_DATA_TO_ADDR, kdTclkP)
        /\ S[4] = kIrDr16(IR_CNTRL_SIG_16BIT, \h2409) /\ S[5] = kStrobeTclkArgv
    OBVIOUS
  <1>a. A[1] = a /\ A[2] = v /\ A[3] = n
    OBVIOUS
  <1> HIDE DEF S, A
  <1>0. /\ At(S, 1, 2, kDr16(\h2408)) /\ At(S, 2, 3, kAddr)
        /\ At(S, 3, 4, kIrDr16Argv(kdNone, IR_DATA_TO_ADDR, kdTclkP)) /\ At(S, 4, 5, kIrDr16(IR_CNTRL_SIG_16BIT, \h2409))
        /\ At(S, 5, 6, kStrobeTclkArgv) /\ Ends(S, 6)
        /\ Given(A, 1, 2, a) /\ Given(A, 2, 3, v)
        /\ Given(A, 3, 4, n)
    BY <1>l, <1>a DEF At, Given, Ends
  <1>q. /\ Sound(b) /\ Quiet(b) /\ Calm(b) /\ Legacy(b)
        /\ Sound(c1) /\ Quiet(c1) /\ Legacy(c1)
        /\ Sound(c2) /\ Quiet(c2) /\ Calm(c2) /\ Legacy(c2)
    BY DEF Calm, Quiet, Wrote, Low, Strobed
  <1>v. d \in Values16
    BY ControlWords DEF Low
  <1>r. a \in RegValues(b)
    BY <1>q, RegsSame, Peripherals DEF Wrote, Low, Strobed
  <1>k. /\ d \in Values16 /\ \h2408 \in Values16 /\ \h2409 \in Values16 /\ Writes(b, \h2408)
        /\ Writes(c1, \h2408) /\ Writes(c2, \h2408) /\ Reads(b, \h2409) /\ ~Writes(b, \h2409)
        /\ Reads(c1, \h2409) /\ ~Writes(c1, \h2409) /\ Reads(c2, \h2409) /\ ~Writes(c2, \h2409)
    BY <1>q, ControlWords, ExecutesOnly, <1>v DEF Values16
  <1> HIDE DEF u0, u1, u2, u3, u4, u5, u6, u7, u8, u9
  <1>1. Reached(E, S, A, u0, g, 1, 1, u0, g)
    BY RowBegin
  <1>2. Does(E, Dr(\h2408), u0, g, u1, g)
    BY <1>q, <1>k, DrCntrl DEF u0, u1
  <1>3. Reached(E, S, A, u0, g, 2, 1, u1, g)
    BY <1>0, <1>k, Ports, <1>1, <1>2, RowDr
  <1>4. Does(E, Ir(IR_ADDR_16BIT), u1, g, u2, g)
    BY <1>q, <1>k, Ports, IrDoes DEF u1, u2
  <1>5. Does(E, Dr(a), u2, g, u3, g)
    BY <1>q, <1>k, <1>r, DrMab DEF u2, u3
  <1>6. Reached(E, S, A, u0, g, 3, 2, u3, g)
    BY <1>0, <1>k, Ports, <1>3, <1>4, <1>5, RowAddr
  <1>7. Edge(E, kdNone, u3, u3)
    BY EdgeNone
  <1>8. Does(E, Ir(IR_DATA_TO_ADDR), u3, g, u4, g)
    BY <1>q, <1>k, Ports, IrDoes DEF u3, u4
  <1>9. Does(E, Dr(d), u4, g, u5, g)
    BY <1>q, <1>k, DrWrites DEF u4, u5
  <1>10. Edge(E, kdTclk1, u5, u5)
    BY <1>q, EdgeHigh DEF u5
  <1>11. Edge(E, kdTclk0, u5, u6)
    BY <1>q, <1>k, Ports, EdgeFall DEF u5, u6
  <1>12. Edge(E, kdTclkP, u5, u6)
    BY <1>10, <1>11, EdgePulse
  <1>13. Reached(E, S, A, u0, g, 4, 3, u6, g)
    BY <1>0, <1>k, Ports, <1>6, <1>7, <1>8, <1>9, <1>12, RowIrDrArgv
  <1>14. Does(E, Ir(IR_CNTRL_SIG_16BIT), u6, g, u7, g)
    BY <1>q, <1>k, Ports, IrDoes DEF u6, u7
  <1>15. Does(E, Dr(\h2409), u7, g, u8, g)
    BY <1>q, <1>k, DrCntrl DEF u7, u8
  <1>16. Reached(E, S, A, u0, g, 5, 3, u8, g)
    BY <1>0, <1>k, Ports, <1>13, <1>14, <1>15, RowIrDr
  <1>17. Does(E, Strobe(n), u8, g, u9, g)
    BY <1>q, <1>k, StrobeDoes DEF u8, u9
  <1>18. Reached(E, S, A, u0, g, 6, 4, u9, g)
    BY <1>0, <1>k, Ports, <1>16, <1>17, RowStrobe
  <1>19. Does(E, Play(S, A), u0, g, u9, g)
    BY <1>0, <1>18, ScriptEnd
  <1> QED BY <1>19 DEF S, A, u0, u9

\* The flash is locked again, with TCLK low at first.
LEMMA FlashCloseRowsLow ==
    ASSUME NEW E, NEW g, NEW b, Calm(b), Legacy(b), NEW cntrl, NEW mab, NEW dto, NEW din, NEW mdb,
           NEW f, NEW d, Low(f, d), NEW c1, Wrote(E, b, \h128, \hA500, c1), Calm(c1),
           NEW c2, Wrote(E, c1, \h12C, d, c2), Calm(c2)
    PROVE  Does(E, Play(<<kIrDr16(IR_CNTRL_SIG_16BIT, \h2408), kIrDr16(IR_ADDR_16BIT, \h128),
                        kIrDr16(IR_DATA_TO_ADDR, \hA500), kPulseTclk, kIrDr16(IR_ADDR_16BIT, \h12C),
                        kIrDr16Argv(kdNone, IR_DATA_TO_ADDR, kdTclk1), kReleaseCpu>>, <<f>>), P(b, IR_CNTRL_SIG_16BIT, cntrl, 0, mab, dto, din, mdb, Fetch), g,
                P(c2, IR_ADDR_CAPTURE, \h2401, 1, \h12C, d, din, mdb, Fetch), g)
  <1> DEFINE S == <<kIrDr16(IR_CNTRL_SIG_16BIT, \h2408),
                    kIrDr16(IR_ADDR_16BIT, \h128),
                    kIrDr16(IR_DATA_TO_ADDR, \hA500),
                    kPulseTclk,
                    kIrDr16(IR_ADDR_16BIT, \h12C),
                    kIrDr16Argv(kdNone, IR_DATA_TO_ADDR, kdTclk1),
                    kReleaseCpu>>
             A == <<f>>
             u0 == P(b, IR_CNTRL_SIG_16BIT, cntrl, 0, mab, dto, din, mdb, Fetch)
             u1 == P(b, IR_CNTRL_SIG_16BIT, \h2408, 0, mab, dto, din, mdb, Fetch)
             u2 == P(b, IR_ADDR_16BIT, \h2408, 0, mab, dto, din, mdb, Fetch)
             u3 == P(b, IR_ADDR_16BIT, \h2408, 0, \h128, dto, din, mdb, Fetch)
             u4 == P(b, IR_DATA_TO_ADDR, \h2408, 0, \h128, dto, din, mdb, Fetch)
             u5 == P(b, IR_DATA_TO_ADDR, \h2408, 0, \h128, \hA500, din, mdb, Fetch)
             u6 == P(c1, IR_DATA_TO_ADDR, \h2408, 1, \h128, \hA500, din, mdb, Fetch)
             u7 == P(c1, IR_DATA_TO_ADDR, \h2408, 0, \h128, \hA500, din, mdb, Fetch)
             u8 == P(c1, IR_ADDR_16BIT, \h2408, 0, \h128, \hA500, din, mdb, Fetch)
             u9 == P(c1, IR_ADDR_16BIT, \h2408, 0, \h12C, \hA500, din, mdb, Fetch)
             u10 == P(c1, IR_DATA_TO_ADDR, \h2408, 0, \h12C, \hA500, din, mdb, Fetch)
             u11 == P(c1, IR_DATA_TO_ADDR, \h2408, 0, \h12C, d, din, mdb, Fetch)
             u12 == P(c2, IR_DATA_TO_ADDR, \h2408, 1, \h12C, d, din, mdb, Fetch)
             u13 == P(c2, IR_DATA_TO_ADDR, \h2408, 0, \h12C, d, din, mdb, Fetch)
             u14 == P(c2, IR_ADDR_CAPTURE, \h2401, 1, \h12C, d, din, mdb, Fetch)
  <1>l. Len(S) = 7
        /\ S[1] = kIrDr16(IR_CNTRL_SIG_16BIT, \h2408) /\ S[2] = kIrDr16(IR_ADDR_16BIT, \h128) /\ S[3] = kIrDr16(IR_DATA_TO_ADDR, \hA500)
        /\ S[4] = kPulseTclk /\ S[5] = kIrDr16(IR_ADDR_16BIT, \h12C) /\ S[6] = kIrDr16Argv(kdNone, IR_DATA_TO_ADDR, kdTclk1)
        /\ S[7] = kReleaseCpu
    OBVIOUS
  <1>a. A[1] = f
    OBVIOUS
  <1> HIDE DEF S, A
  <1>0. /\ At(S, 1, 2, kIrDr16(IR_CNTRL_SIG_16BIT, \h2408)) /\ At(S, 2, 3, kIrDr16(IR_ADDR_16BIT, \h128))
        /\ At(S, 3, 4, kIrDr16(IR_DATA_TO_ADDR, \hA500)) /\ At(S, 4, 5, kPulseTclk)
        /\ At(S, 5, 6, kIrDr16(IR_ADDR_16BIT, \h12C)) /\ At(S, 6, 7, kIrDr16Argv(kdNone, IR_DATA_TO_ADDR, kdTclk1))
        /\ At(S, 7, 8, kReleaseCpu) /\ Ends(S, 8)
        /\ Given(A, 1, 2, f)
    BY <1>l, <1>a DEF At, Given, Ends
  <1>q. /\ Sound(b) /\ Quiet(b) /\ Calm(b) /\ Legacy(b)
        /\ Sound(c1) /\ Quiet(c1) /\ Calm(c1) /\ Legacy(c1)
        /\ Sound(c2) /\ Quiet(c2) /\ Calm(c2) /\ Legacy(c2)
    BY DEF Calm, Quiet, Wrote, Low, Strobed
  <1>v. d \in Values16
    BY ControlWords DEF Low
  <1>r. \h128 \in RegValues(b) /\ \h12C \in RegValues(c1)
    BY <1>q, RegsSame, Peripherals DEF Wrote, Low, Strobed
  <1>k. /\ d \in Values16 /\ \h128 \in Values16 /\ \h12C \in Values16 /\ \h2408 \in Values16 /\ \hA500 \in Values16 /\ Rests(b, \h2401) /\ ~Writes(b, \h2401)
        /\ Rests(c1, \h2401) /\ ~Writes(c1, \h2401) /\ Rests(c2, \h2401) /\ ~Writes(c2, \h2401) /\ Writes(b, \h2408)
        /\ Writes(c1, \h2408) /\ Writes(c2, \h2408)
    BY <1>q, ControlWords, ExecutesOnly, <1>v DEF Values16
  <1> HIDE DEF u0, u1, u2, u3, u4, u5, u6, u7, u8, u9, u10, u11, u12, u13, u14
  <1>1. Reached(E, S, A, u0, g, 1, 1, u0, g)
    BY RowBegin
  <1>2. Does(E, Ir(IR_CNTRL_SIG_16BIT), u0, g, u0, g)
    BY <1>q, <1>k, Ports, IrDoes DEF u0
  <1>3. Does(E, Dr(\h2408), u0, g, u1, g)
    BY <1>q, <1>k, DrCntrl DEF u0, u1
  <1>4. Reached(E, S, A, u0, g, 2, 1, u1, g)
    BY <1>0, <1>k, Ports, <1>1, <1>2, <1>3, RowIrDr
  <1>5. Does(E, Ir(IR_ADDR_16BIT), u1, g, u2, g)
    BY <1>q, <1>k, Ports, IrDoes DEF u1, u2
  <1>6. Does(E, Dr(\h128), u2, g, u3, g)
    BY <1>q, <1>k, <1>r, DrMab DEF u2, u3
  <1>7. Reached(E, S, A, u0, g, 3, 1, u3, g)
    BY <1>0, <1>k, Ports, <1>4, <1>5, <1>6, RowIrDr
  <1>8. Does(E, Ir(IR_DATA_TO_ADDR), u3, g, u4, g)
    BY <1>q, <1>k, Ports, IrDoes DEF u3, u4
  <1>9. Does(E, Dr(\hA500), u4, g, u5, g)
    BY <1>q, <1>k, DrDto DEF u4, u5
  <1>10. Reached(E, S, A, u0, g, 4, 1, u5, g)
    BY <1>0, <1>k, Ports, <1>7, <1>8, <1>9, RowIrDr
  <1>11. Edge(E, kdTclk1, u5, u6)
    BY <1>q, <1>k, EdgeWrite DEF u5, u6
  <1>12. Edge(E, kdTclk0, u6, u7)
    BY <1>q, <1>k, Ports, EdgeFall DEF u6, u7
  <1>13. Edge(E, kdTclkP, u5, u7)
    BY <1>11, <1>12, EdgePulse
  <1>14. Reached(E, S, A, u0, g, 5, 1, u7, g)
    BY <1>0, <1>k, Ports, <1>10, <1>13, RowEdge
  <1>15. Does(E, Ir(IR_ADDR_16BIT), u7, g, u8, g)
    BY <1>q, <1>k, Ports, IrDoes DEF u7, u8
  <1>16. Does(E, Dr(\h12C), u8, g, u9, g)
    BY <1>q, <1>k, <1>r, DrMab DEF u8, u9
  <1>17. Reached(E, S, A, u0, g, 6, 1, u9, g)
    BY <1>0, <1>k, Ports, <1>14, <1>15, <1>16, RowIrDr
  <1>18. Edge(E, kdNone, u9, u9)
    BY EdgeNone
  <1>19. Does(E, Ir(IR_DATA_TO_ADDR), u9, g, u10, g)
    BY <1>q, <1>k, Ports, IrDoes DEF u9, u10
  <1>20. Does(E, Dr(d), u10, g, u11, g)
    BY <1>q, <1>k, DrDto DEF u10, u11
  <1>21. Edge(E, kdTclk1, u11, u12)
    BY <1>q, <1>k, EdgeWrite DEF u11, u12
  <1>22. Reached(E, S, A, u0, g, 7, 2, u12, g)
    BY <1>0, <1>k, Ports, <1>17, <1>18, <1>19, <1>20, <1>21, RowIrDrArgv
  <1>23. Edge(E, kdTclk0, u12, u13)
    BY <1>q, <1>k, Ports, EdgeFall DEF u12, u13
  <1>24. Does(E, ReleaseCpu, u12, g, u14, g) /\ IsSeq(ReleaseCpu)
    BY <1>q, <1>23, ReleaseCpuDoes DEF u13, u14
  <1>25. Reached(E, S, A, u0, g, 8, 2, u14, g)
    BY <1>0, <1>k, Ports, <1>22, <1>24, StepRelease
  <1>26. Does(E, Play(S, A), u0, g, u14, g)
    BY <1>0, <1>25, ScriptEnd
  <1> QED BY <1>26 DEF S, A, u0, u14

\* The flash is locked again, with TCLK high at first.
LEMMA FlashCloseRowsHigh ==
    ASSUME NEW E, NEW g, NEW b, Calm(b), Legacy(b), NEW cntrl, NEW mab, NEW dto, NEW din, NEW mdb,
           NEW f, NEW d, Low(f, d), NEW c1, Wrote(E, b, \h128, \hA500, c1), Calm(c1),
           NEW c2, Wrote(E, c1, \h12C, d, c2), Calm(c2)
    PROVE  Does(E, Play(<<kIrDr16(IR_CNTRL_SIG_16BIT, \h2408), kIrDr16(IR_ADDR_16BIT, \h128),
                        kIrDr16(IR_DATA_TO_ADDR, \hA500), kPulseTclk, kIrDr16(IR_ADDR_16BIT, \h12C),
                        kIrDr16Argv(kdNone, IR_DATA_TO_ADDR, kdTclk1), kReleaseCpu>>, <<f>>), P(b, IR_CNTRL_SIG_16BIT, cntrl, 1, mab, dto, din, mdb, Fetch), g,
                P(c2, IR_ADDR_CAPTURE, \h2401, 1, \h12C, d, din, mdb, Fetch), g)
  <1> DEFINE S == <<kIrDr16(IR_CNTRL_SIG_16BIT, \h2408),
                    kIrDr16(IR_ADDR_16BIT, \h128),
                    kIrDr16(IR_DATA_TO_ADDR, \hA500),
                    kPulseTclk,
                    kIrDr16(IR_ADDR_16BIT, \h12C),
                    kIrDr16Argv(kdNone, IR_DATA_TO_ADDR, kdTclk1),
                    kReleaseCpu>>
             A == <<f>>
             u0 == P(b, IR_CNTRL_SIG_16BIT, cntrl, 1, mab, dto, din, mdb, Fetch)
             u1 == P(b, IR_CNTRL_SIG_16BIT, \h2408, 1, mab, dto, din, mdb, Fetch)
             u2 == P(b, IR_ADDR_16BIT, \h2408, 1, mab, dto, din, mdb, Fetch)
             u3 == P(b, IR_ADDR_16BIT, \h2408, 1, \h128, dto, din, mdb, Fetch)
             u4 == P(b, IR_DATA_TO_ADDR, \h2408, 1, \h128, dto, din, mdb, Fetch)
             u5 == P(c1, IR_DATA_TO_ADDR, \h2408, 1, \h128, \hA500, din, mdb, Fetch)
             u6 == P(c1, IR_DATA_TO_ADDR, \h2408, 0, \h128, \hA500, din, mdb, Fetch)
             u7 == P(c1, IR_ADDR_16BIT, \h2408, 0, \h128, \hA500, din, mdb, Fetch)
             u8 == P(c1, IR_ADDR_16BIT, \h2408, 0, \h12C, \hA500, din, mdb, Fetch)
             u9 == P(c1, IR_DATA_TO_ADDR, \h2408, 0, \h12C, \hA500, din, mdb, Fetch)
             u10 == P(c1, IR_DATA_TO_ADDR, \h2408, 0, \h12C, d, din, mdb, Fetch)
             u11 == P(c2, IR_DATA_TO_ADDR, \h2408, 1, \h12C, d, din, mdb, Fetch)
             u12 == P(c2, IR_DATA_TO_ADDR, \h2408, 0, \h12C, d, din, mdb, Fetch)
             u13 == P(c2, IR_ADDR_CAPTURE, \h2401, 1, \h12C, d, din, mdb, Fetch)
  <1>l. Len(S) = 7
        /\ S[1] = kIrDr16(IR_CNTRL_SIG_16BIT, \h2408) /\ S[2] = kIrDr16(IR_ADDR_16BIT, \h128) /\ S[3] = kIrDr16(IR_DATA_TO_ADDR, \hA500)
        /\ S[4] = kPulseTclk /\ S[5] = kIrDr16(IR_ADDR_16BIT, \h12C) /\ S[6] = kIrDr16Argv(kdNone, IR_DATA_TO_ADDR, kdTclk1)
        /\ S[7] = kReleaseCpu
    OBVIOUS
  <1>a. A[1] = f
    OBVIOUS
  <1> HIDE DEF S, A
  <1>0. /\ At(S, 1, 2, kIrDr16(IR_CNTRL_SIG_16BIT, \h2408)) /\ At(S, 2, 3, kIrDr16(IR_ADDR_16BIT, \h128))
        /\ At(S, 3, 4, kIrDr16(IR_DATA_TO_ADDR, \hA500)) /\ At(S, 4, 5, kPulseTclk)
        /\ At(S, 5, 6, kIrDr16(IR_ADDR_16BIT, \h12C)) /\ At(S, 6, 7, kIrDr16Argv(kdNone, IR_DATA_TO_ADDR, kdTclk1))
        /\ At(S, 7, 8, kReleaseCpu) /\ Ends(S, 8)
        /\ Given(A, 1, 2, f)
    BY <1>l, <1>a DEF At, Given, Ends
  <1>q. /\ Sound(b) /\ Quiet(b) /\ Calm(b) /\ Legacy(b)
        /\ Sound(c1) /\ Quiet(c1) /\ Calm(c1) /\ Legacy(c1)
        /\ Sound(c2) /\ Quiet(c2) /\ Calm(c2) /\ Legacy(c2)
    BY DEF Calm, Quiet, Wrote, Low, Strobed
  <1>v. d \in Values16
    BY ControlWords DEF Low
  <1>r. \h128 \in RegValues(b) /\ \h12C \in RegValues(c1)
    BY <1>q, RegsSame, Peripherals DEF Wrote, Low, Strobed
  <1>k. /\ d \in Values16 /\ \h128 \in Values16 /\ \h12C \in Values16 /\ \h2408 \in Values16 /\ \hA500 \in Values16 /\ Rests(b, \h2401) /\ ~Writes(b, \h2401)
        /\ Rests(c1, \h2401) /\ ~Writes(c1, \h2401) /\ Rests(c2, \h2401) /\ ~Writes(c2, \h2401) /\ Writes(b, \h2408)
        /\ Writes(c1, \h2408) /\ Writes(c2, \h2408)
    BY <1>q, ControlWords, ExecutesOnly, <1>v DEF Values16
  <1> HIDE DEF u0, u1, u2, u3, u4, u5, u6, u7, u8, u9, u10, u11, u12, u13
  <1>1. Reached(E, S, A, u0, g, 1, 1, u0, g)
    BY RowBegin
  <1>2. Does(E, Ir(IR_CNTRL_SIG_16BIT), u0, g, u0, g)
    BY <1>q, <1>k, Ports, IrDoes DEF u0
  <1>3. Does(E, Dr(\h2408), u0, g, u1, g)
    BY <1>q, <1>k, DrCntrl DEF u0, u1
  <1>4. Reached(E, S, A, u0, g, 2, 1, u1, g)
    BY <1>0, <1>k, Ports, <1>1, <1>2, <1>3, RowIrDr
  <1>5. Does(E, Ir(IR_ADDR_16BIT), u1, g, u2, g)
    BY <1>q, <1>k, Ports, IrDoes DEF u1, u2
  <1>6. Does(E, Dr(\h128), u2, g, u3, g)
    BY <1>q, <1>k, <1>r, DrMab DEF u2, u3
  <1>7. Reached(E, S, A, u0, g, 3, 1, u3, g)
    BY <1>0, <1>k, Ports, <1>4, <1>5, <1>6, RowIrDr
  <1>8. Does(E, Ir(IR_DATA_TO_ADDR), u3, g, u4, g)
    BY <1>q, <1>k, Ports, IrDoes DEF u3, u4
  <1>9. Does(E, Dr(\hA500), u4, g, u5, g)
    BY <1>q, <1>k, DrWrites DEF u4, u5
  <1>10. Reached(E, S, A, u0, g, 4, 1, u5, g)
    BY <1>0, <1>k, Ports, <1>7, <1>8, <1>9, RowIrDr
  <1>11. Edge(E, kdTclk1, u5, u5)
    BY <1>q, EdgeHigh DEF u5
  <1>12. Edge(E, kdTclk0, u5, u6)
    BY <1>q, <1>k, Ports, EdgeFall DEF u5, u6
  <1>13. Edge(E, kdTclkP, u5, u6)
    BY <1>11, <1>12, EdgePulse
  <1>14. Reached(E, S, A, u0, g, 5, 1, u6, g)
    BY <1>0, <1>k, Ports, <1>10, <1>13, RowEdge
  <1>15. Does(E, Ir(IR_ADDR_16BIT), u6, g, u7, g)
    BY <1>q, <1>k, Ports, IrDoes DEF u6, u7
  <1>16. Does(E, Dr(\h12C), u7, g, u8, g)
    BY <1>q, <1>k, <1>r, DrMab DEF u7, u8
  <1>17. Reached(E, S, A, u0, g, 6, 1, u8, g)
    BY <1>0, <1>k, Ports, <1>14, <1>15, <1>16, RowIrDr
  <1>18. Edge(E, kdNone, u8, u8)
    BY EdgeNone
  <1>19. Does(E, Ir(IR_DATA_TO_ADDR), u8, g, u9, g)
    BY <1>q, <1>k, Ports, IrDoes DEF u8, u9
  <1>20. Does(E, Dr(d), u9, g, u10, g)
    BY <1>q, <1>k, DrDto DEF u9, u10
  <1>21. Edge(E, kdTclk1, u10, u11)
    BY <1>q, <1>k, EdgeWrite DEF u10, u11
  <1>22. Reached(E, S, A, u0, g, 7, 2, u11, g)
    BY <1>0, <1>k, Ports, <1>17, <1>18, <1>19, <1>20, <1>21, RowIrDrArgv
  <1>23. Edge(E, kdTclk0, u11, u12)
    BY <1>q, <1>k, Ports, EdgeFall DEF u11, u12
  <1>24. Does(E, ReleaseCpu, u11, g, u13, g) /\ IsSeq(ReleaseCpu)
    BY <1>q, <1>23, ReleaseCpuDoes DEF u12, u13
  <1>25. Reached(E, S, A, u0, g, 8, 2, u13, g)
    BY <1>0, <1>k, Ports, <1>22, <1>24, StepRelease
  <1>26. Does(E, Play(S, A), u0, g, u13, g)
    BY <1>0, <1>25, ScriptEnd
  <1> QED BY <1>26 DEF S, A, u0, u13

\* One run of an erase, with pulses that end low.
LEMMA EraseRowsLow ==
    ASSUME NEW E, NEW g, NEW b, Calm(b), Legacy(b), NEW ir, NEW cntrl, NEW mab, NEW dto, NEW din,
           NEW mdb,
           ir # IR_DATA_QUICK, NEW kAddr, NEW a \in RegValues(b), Addressing(kAddr, a), NEW n,
           NEW f1, NEW d1, Low(f1, d1), NEW f3, NEW d3, Low(f3, d3),
           NEW c1, Wrote(E, b, \h128, d1, c1), Calm(c1), NEW c2, Wrote(E, c1, \h12A, \hA540, c2),
           Calm(c2),
           NEW c3, Wrote(E, c2, \h12C, d3, c3), Calm(c3), NEW c4, Wrote(E, c3, a, \h55AA, c4),
           NEW c5, Strobed(E, c4, n, c5, 0), NEW c6, Wrote(E, c5, \h128, \hA500, c6), Calm(c6)
    PROVE  Does(E, EraseOnce(kAddr, a, f1, f3, n), P(b, ir, cntrl, 1, mab, dto, din, mdb, Fetch), g,
                P(c6, IR_DATA_TO_ADDR, \h2408, 1, \h128, \hA500, din, mdb, Fetch), g)
  <1> DEFINE S == <<kTclk0,
                    kIrDr16(IR_CNTRL_SIG_16BIT, \h2408),
                    kIrDr16(IR_ADDR_16BIT, \h128),
                    kIrDr16Argv(kdNone, IR_DATA_TO_ADDR, kdTclkP),
                    kIrDr16(IR_ADDR_16BIT, \h12A),
                    kIrDr16(IR_DATA_TO_ADDR, \hA540),
                    kPulseTclk,
                    kIrDr16(IR_ADDR_16BIT, \h12C),
                    kIrDr16Argv(kdNone, IR_DATA_TO_ADDR, kdTclkP),
                    kAddr,
                    kIrDr16(IR_DATA_TO_ADDR, \h55AA),
                    kPulseTclk,
                    kIrDr16(IR_CNTRL_SIG_16BIT, \h2409),
                    kStrobeTclkArgv,
                    kIrDr16(IR_CNTRL_SIG_16BIT, \h2408),
                    kIrDr16(IR_ADDR_16BIT, \h128),
                    kIrDr16(IR_DATA_TO_ADDR, \hA500),
                    kTclk1>>
             A == <<f1, f3, a, n>>
             u0 == P(b, ir, cntrl, 1, mab, dto, din, mdb, Fetch)
             u1 == P(b, ir, cntrl, 0, mab, dto, din, mdb, Fetch)
             u2 == P(b, IR_CNTRL_SIG_16BIT, cntrl, 0, mab, dto, din, mdb, Fetch)
             u3 == P(b, IR_CNTRL_SIG_16BIT, \h2408, 0, mab, dto, din, mdb, Fetch)
             u4 == P(b, IR_ADDR_16BIT, \h2408, 0, mab, dto, din, mdb, Fetch)
             u5 == P(b, IR_ADDR_16BIT, \h2408, 0, \h128, dto, din, mdb, Fetch)
             u6 == P(b, IR_DATA_TO_ADDR, \h2408, 0, \h128, dto, din, mdb, Fetch)
             u7 == P(b, IR_DATA_TO_ADDR, \h2408, 0, \h128, d1, din, mdb, Fetch)
             u8 == P(c1, IR_DATA_TO_ADDR, \h2408, 1, \h128, d1, din, mdb, Fetch)
             u9 == P(c1, IR_DATA_TO_ADDR, \h2408, 0, \h128, d1, din, mdb, Fetch)
             u10 == P(c1, IR_ADDR_16BIT, \h2408, 0, \h128, d1, din, mdb, Fetch)
             u11 == P(c1, IR_ADDR_16BIT, \h2408, 0, \h12A, d1, din, mdb, Fetch)
             u12 == P(c1, IR_DATA_TO_ADDR, \h2408, 0, \h12A, d1, din, mdb, Fetch)
             u13 == P(c1, IR_DATA_TO_ADDR, \h2408, 0, \h12A, \hA540, din, mdb, Fetch)
             u14 == P(c2, IR_DATA_TO_ADDR, \h2408, 1, \h12A, \hA540, din, mdb, Fetch)
             u15 == P(c2, IR_DATA_TO_ADDR, \h2408, 0, \h12A, \hA540, din, mdb, Fetch)
             u16 == P(c2, IR_ADDR_16BIT, \h2408, 0, \h12A, \hA540, din, mdb, Fetch)
             u17 == P(c2, IR_ADDR_16BIT, \h2408, 0, \h12C, \hA540, din, mdb, Fetch)
             u18 == P(c2, IR_DATA_TO_ADDR, \h2408, 0, \h12C, \hA540, din, mdb, Fetch)
             u19 == P(c2, IR_DATA_TO_ADDR, \h2408, 0, \h12C, d3, din, mdb, Fetch)
             u20 == P(c3, IR_DATA_TO_ADDR, \h2408, 1, \h12C, d3, din, mdb, Fetch)
             u21 == P(c3, IR_DATA_TO_ADDR, \h2408, 0, \h12C, d3, din, mdb, Fetch)
             u22 == P(c3, IR_ADDR_16BIT, \h2408, 0, \h12C, d3, din, mdb, Fetch)
             u23 == P(c3, IR_ADDR_16BIT, \h2408, 0, a, d3, din, mdb, Fetch)
             u24 == P(c3, IR_DATA_TO_ADDR, \h2408, 0, a, d3, din, mdb, Fetch)
             u25 == P(c3, IR_DATA_TO_ADDR, \h2408, 0, a, \h55AA, din, mdb, Fetch)
             u26 == P(c4, IR_DATA_TO_ADDR, \h2408, 1, a, \h55AA, din, mdb, Fetch)
             u27 == P(c4, IR_DATA_TO_ADDR, \h2408, 0, a, \h55AA, din, mdb, Fetch)
             u28 == P(c4, IR_CNTRL_SIG_16BIT, \h2408, 0, a, \h55AA, din, mdb, Fetch)
             u29 == P(c4, IR_CNTRL_SIG_16BIT, \h2409, 0, a, \h55AA, din, mdb, Fetch)
             u30 == P(c5, IR_CNTRL_SIG_16BIT, \h2409, 0, a, \h55AA, din, mdb, Fetch)
             u31 == P(c5, IR_CNTRL_SIG_16BIT, \h2408, 0, a, \h55AA, din, mdb, Fetch)
             u32 == P(c5, IR_ADDR_16BIT, \h2408, 0, a, \h55AA, din, mdb, Fetch)
             u33 == P(c5, IR_ADDR_16BIT, \h2408, 0, \h128, \h55AA, din, mdb, Fetch)
             u34 == P(c5, IR_DATA_TO_ADDR, \h2408, 0, \h128, \h55AA, din, mdb, Fetch)
             u35 == P(c5, IR_DATA_TO_ADDR, \h2408, 0, \h128, \hA500, din, mdb, Fetch)
             u36 == P(c6, IR_DATA_TO_ADDR, \h2408, 1, \h128, \hA500, din, mdb, Fetch)
  <1>l. Len(S) = 18
        /\ S[1] = kTclk0 /\ S[2] = kIrDr16(IR_CNTRL_SIG_16BIT, \h2408) /\ S[3] = kIrDr16(IR_ADDR_16BIT, \h128)
        /\ S[4] = kIrDr16Argv(kdNone, IR_DATA_TO_ADDR, kdTclkP) /\ S[5] = kIrDr16(IR_ADDR_16BIT, \h12A) /\ S[6] = kIrDr16(IR_DATA_TO_ADDR, \hA540)
        /\ S[7] = kPulseTclk /\ S[8] = kIrDr16(IR_ADDR_16BIT, \h12C) /\ S[9] = kIrDr16Argv(kdNone, IR_DATA_TO_ADDR, kdTclkP)
        /\ S[10] = kAddr /\ S[11] = kIrDr16(IR_DATA_TO_ADDR, \h55AA) /\ S[12] = kPulseTclk
        /\ S[13] = kIrDr16(IR_CNTRL_SIG_16BIT, \h2409) /\ S[14] = kStrobeTclkArgv /\ S[15] = kIrDr16(IR_CNTRL_SIG_16BIT, \h2408)
        /\ S[16] = kIrDr16(IR_ADDR_16BIT, \h128) /\ S[17] = kIrDr16(IR_DATA_TO_ADDR, \hA500) /\ S[18] = kTclk1
    OBVIOUS
  <1>a. A[1] = f1 /\ A[2] = f3 /\ A[3] = a /\ A[4] = n
    OBVIOUS
  <1> HIDE DEF S, A
  <1>0. /\ At(S, 1, 2, kTclk0) /\ At(S, 2, 3, kIrDr16(IR_CNTRL_SIG_16BIT, \h2408))
        /\ At(S, 3, 4, kIrDr16(IR_ADDR_16BIT, \h128)) /\ At(S, 4, 5, kIrDr16Argv(kdNone, IR_DATA_TO_ADDR, kdTclkP))
        /\ At(S, 5, 6, kIrDr16(IR_ADDR_16BIT, \h12A)) /\ At(S, 6, 7, kIrDr16(IR_DATA_TO_ADDR, \hA540))
        /\ At(S, 7, 8, kPulseTclk) /\ At(S, 8, 9, kIrDr16(IR_ADDR_16BIT, \h12C))
        /\ At(S, 9, 10, kIrDr16Argv(kdNone, IR_DATA_TO_ADDR, kdTclkP)) /\ At(S, 10, 11, kAddr)
        /\ At(S, 11, 12, kIrDr16(IR_DATA_TO_ADDR, \h55AA)) /\ At(S, 12, 13, kPulseTclk)
        /\ At(S, 13, 14, kIrDr16(IR_CNTRL_SIG_16BIT, \h2409)) /\ At(S, 14, 15, kStrobeTclkArgv)
        /\ At(S, 15, 16, kIrDr16(IR_CNTRL_SIG_16BIT, \h2408)) /\ At(S, 16, 17, kIrDr16(IR_ADDR_16BIT, \h128))
        /\ At(S, 17, 18, kIrDr16(IR_DATA_TO_ADDR, \hA500)) /\ At(S, 18, 19, kTclk1)
        /\ Ends(S, 19) /\ Given(A, 1, 2, f1)
        /\ Given(A, 2, 3, f3) /\ Given(A, 3, 4, a)
        /\ Given(A, 4, 5, n)
    BY <1>l, <1>a DEF At, Given, Ends
  <1>q. /\ Sound(b) /\ Quiet(b) /\ Calm(b) /\ Legacy(b)
        /\ Sound(c1) /\ Quiet(c1) /\ Calm(c1) /\ Legacy(c1)
        /\ Sound(c2) /\ Quiet(c2) /\ Calm(c2) /\ Legacy(c2)
        /\ Sound(c3) /\ Quiet(c3) /\ Calm(c3) /\ Legacy(c3)
        /\ Sound(c4) /\ Quiet(c4) /\ Legacy(c4)
        /\ Sound(c5) /\ Quiet(c5) /\ Calm(c5) /\ Legacy(c5)
        /\ Sound(c6) /\ Quiet(c6) /\ Calm(c6) /\ Legacy(c6)
    BY DEF Calm, Quiet, Wrote, Low, Strobed
  <1>v. d1 \in Values16 /\ d3 \in Values16
    BY ControlWords DEF Low
  <1>r. \h128 \in RegValues(b) /\ \h12A \in RegValues(c1) /\ \h12C \in RegValues(c2) /\ a \in RegValues(c3) /\ \h128 \in RegValues(c5)
    BY <1>q, RegsSame, Peripherals DEF Wrote, Low, Strobed
  <1>k. /\ d1 \in Values16 /\ d3 \in Values16 /\ \h128 \in Values16 /\ \h12A \in Values16 /\ \h12C \in Values16 /\ \h2408 \in Values16 /\ \h2409 \in Values16 /\ \h55AA \in Values16 /\ \hA500 \in Values16 /\ \hA540 \in Values16 /\ Writes(b, \h2408)
        /\ Writes(c1, \h2408) /\ Writes(c2, \h2408) /\ Writes(c3, \h2408)
        /\ Writes(c4, \h2408) /\ Writes(c5, \h2408) /\ Writes(c6, \h2408)
        /\ Reads(b, \h2409) /\ ~Writes(b, \h2409) /\ Reads(c1, \h2409) /\ ~Writes(c1, \h2409) /\ Reads(c2, \h2409) /\ ~Writes(c2, \h2409)
        /\ Reads(c3, \h2409) /\ ~Writes(c3, \h2409) /\ Reads(c4, \h2409) /\ ~Writes(c4, \h2409) /\ Reads(c5, \h2409) /\ ~Writes(c5, \h2409)
        /\ Reads(c6, \h2409) /\ ~Writes(c6, \h2409)
    BY <1>q, ControlWords, ExecutesOnly, <1>v DEF Values16
  <1> HIDE DEF u0, u1, u2, u3, u4, u5, u6, u7, u8, u9, u10, u11, u12, u13, u14, u15, u16, u17, u18, u19, u20, u21, u22, u23, u24, u25, u26, u27, u28, u29, u30, u31, u32, u33, u34, u35, u36
  <1>1. Reached(E, S, A, u0, g, 1, 1, u0, g)
    BY RowBegin
  <1>2. Edge(E, kdTclk0, u0, u1)
    BY <1>q, <1>k, Ports, EdgeFall DEF u0, u1
  <1>3. Reached(E, S, A, u0, g, 2, 1, u1, g)
    BY <1>0, <1>k, Ports, <1>1, <1>2, RowEdge
  <1>4. Does(E, Ir(IR_CNTRL_SIG_16BIT), u1, g, u2, g)
    BY <1>q, <1>k, Ports, IrDoes DEF u1, u2
  <1>5. Does(E, Dr(\h2408), u2, g, u3, g)
    BY <1>q, <1>k, DrCntrl DEF u2, u3
  <1>6. Reached(E, S, A, u0, g, 3, 1, u3, g)
    BY <1>0, <1>k, Ports, <1>3, <1>4, <1>5, RowIrDr
  <1>7. Does(E, Ir(IR_ADDR_16BIT), u3, g, u4, g)
    BY <1>q, <1>k, Ports, IrDoes DEF u3, u4
  <1>8. Does(E, Dr(\h128), u4, g, u5, g)
    BY <1>q, <1>k, <1>r, DrMab DEF u4, u5
  <1>9. Reached(E, S, A, u0, g, 4, 1, u5, g)
    BY <1>0, <1>k, Ports, <1>6, <1>7, <1>8, RowIrDr
  <1>10. Edge(E, kdNone, u5, u5)
    BY EdgeNone
  <1>11. Does(E, Ir(IR_DATA_TO_ADDR), u5, g, u6, g)
    BY <1>q, <1>k, Ports, IrDoes DEF u5, u6
  <1>12. Does(E, Dr(d1), u6, g, u7, g)
    BY <1>q, <1>k, DrDto DEF u6, u7
  <1>13. Edge(E, kdTclk1, u7, u8)
    BY <1>q, <1>k, EdgeWrite DEF u7, u8
  <1>14. Edge(E, kdTclk0, u8, u9)
    BY <1>q, <1>k, Ports, EdgeFall DEF u8, u9
  <1>15. Edge(E, kdTclkP, u7, u9)
    BY <1>13, <1>14, EdgePulse
  <1>16. Reached(E, S, A, u0, g, 5, 2, u9, g)
    BY <1>0, <1>k, Ports, <1>9, <1>10, <1>11, <1>12, <1>15, RowIrDrArgv
  <1>17. Does(E, Ir(IR_ADDR_16BIT), u9, g, u10, g)
    BY <1>q, <1>k, Ports, IrDoes DEF u9, u10
  <1>18. Does(E, Dr(\h12A), u10, g, u11, g)
    BY <1>q, <1>k, <1>r, DrMab DEF u10, u11
  <1>19. Reached(E, S, A, u0, g, 6, 2, u11, g)
    BY <1>0, <1>k, Ports, <1>16, <1>17, <1>18, RowIrDr
  <1>20. Does(E, Ir(IR_DATA_TO_ADDR), u11, g, u12, g)
    BY <1>q, <1>k, Ports, IrDoes DEF u11, u12
  <1>21. Does(E, Dr(\hA540), u12, g, u13, g)
    BY <1>q, <1>k, DrDto DEF u12, u13
  <1>22. Reached(E, S, A, u0, g, 7, 2, u13, g)
    BY <1>0, <1>k, Ports, <1>19, <1>20, <1>21, RowIrDr
  <1>23. Edge(E, kdTclk1, u13, u14)
    BY <1>q, <1>k, EdgeWrite DEF u13, u14
  <1>24. Edge(E, kdTclk0, u14, u15)
    BY <1>q, <1>k, Ports, EdgeFall DEF u14, u15
  <1>25. Edge(E, kdTclkP, u13, u15)
    BY <1>23, <1>24, EdgePulse
  <1>26. Reached(E, S, A, u0, g, 8, 2, u15, g)
    BY <1>0, <1>k, Ports, <1>22, <1>25, RowEdge
  <1>27. Does(E, Ir(IR_ADDR_16BIT), u15, g, u16, g)
    BY <1>q, <1>k, Ports, IrDoes DEF u15, u16
  <1>28. Does(E, Dr(\h12C), u16, g, u17, g)
    BY <1>q, <1>k, <1>r, DrMab DEF u16, u17
  <1>29. Reached(E, S, A, u0, g, 9, 2, u17, g)
    BY <1>0, <1>k, Ports, <1>26, <1>27, <1>28, RowIrDr
  <1>30. Edge(E, kdNone, u17, u17)
    BY EdgeNone
  <1>31. Does(E, Ir(IR_DATA_TO_ADDR), u17, g, u18, g)
    BY <1>q, <1>k, Ports, IrDoes DEF u17, u18
  <1>32. Does(E, Dr(d3), u18, g, u19, g)
    BY <1>q, <1>k, DrDto DEF u18, u19
  <1>33. Edge(E, kdTclk1, u19, u20)
    BY <1>q, <1>k, EdgeWrite DEF u19, u20
  <1>34. Edge(E, kdTclk0, u20, u21)
    BY <1>q, <1>k, Ports, EdgeFall DEF u20, u21
  <1>35. Edge(E, kdTclkP, u19, u21)
    BY <1>33, <1>34, EdgePulse
  <1>36. Reached(E, S, A, u0, g, 10, 3, u21, g)
    BY <1>0, <1>k, Ports, <1>29, <1>30, <1>31, <1>32, <1>35, RowIrDrArgv
  <1>37. Does(E, Ir(IR_ADDR_16BIT), u21, g, u22, g)
    BY <1>q, <1>k, Ports, IrDoes DEF u21, u22
  <1>38. Does(E, Dr(a), u22, g, u23, g)
    BY <1>q, <1>k, <1>r, DrMab DEF u22, u23
  <1>39. Reached(E, S, A, u0, g, 11, 4, u23, g)
    BY <1>0, <1>k, Ports, <1>36, <1>37, <1>38, RowAddr
  <1>40. Does(E, Ir(IR_DATA_TO_ADDR), u23, g, u24, g)
    BY <1>q, <1>k, Ports, IrDoes DEF u23, u24
  <1>41. Does(E, Dr(\h55AA), u24, g, u25, g)
    BY <1>q, <1>k, DrDto DEF u24, u25
  <1>42. Reached(E, S, A, u0, g, 12, 4, u25, g)
    BY <1>0, <1>k, Ports, <1>39, <1>40, <1>41, RowIrDr
  <1>43. Edge(E, kdTclk1, u25, u26)
    BY <1>q, <1>k, EdgeWrite DEF u25, u26
  <1>44. Edge(E, kdTclk0, u26, u27)
    BY <1>q, <1>k, Ports, EdgeFall DEF u26, u27
  <1>45. Edge(E, kdTclkP, u25, u27)
    BY <1>43, <1>44, EdgePulse
  <1>46. Reached(E, S, A, u0, g, 13, 4, u27, g)
    BY <1>0, <1>k, Ports, <1>42, <1>45, RowEdge
  <1>47. Does(E, Ir(IR_CNTRL_SIG_16BIT), u27, g, u28, g)
    BY <1>q, <1>k, Ports, IrDoes DEF u27, u28
  <1>48. Does(E, Dr(\h2409), u28, g, u29, g)
    BY <1>q, <1>k, DrCntrl DEF u28, u29
  <1>49. Reached(E, S, A, u0, g, 14, 4, u29, g)
    BY <1>0, <1>k, Ports, <1>46, <1>47, <1>48, RowIrDr
  <1>50. Does(E, Strobe(n), u29, g, u30, g)
    BY <1>q, <1>k, StrobeDoes DEF u29, u30
  <1>51. Reached(E, S, A, u0, g, 15, 5, u30, g)
    BY <1>0, <1>k, Ports, <1>49, <1>50, RowStrobe
  <1>52. Does(E, Ir(IR_CNTRL_SIG_16BIT), u30, g, u30, g)
    BY <1>q, <1>k, Ports, IrDoes DEF u30
  <1>53. Does(E, Dr(\h2408), u30, g, u31, g)
    BY <1>q, <1>k, DrCntrl DEF u30, u31
  <1>54. Reached(E, S, A, u0, g, 16, 5, u31, g)
    BY <1>0, <1>k, Ports, <1>51, <1>52, <1>53, RowIrDr
  <1>55. Does(E, Ir(IR_ADDR_16BIT), u31, g, u32, g)
    BY <1>q, <1>k, Ports, IrDoes DEF u31, u32
  <1>56. Does(E, Dr(\h128), u32, g, u33, g)
    BY <1>q, <1>k, <1>r, DrMab DEF u32, u33
  <1>57. Reached(E, S, A, u0, g, 17, 5, u33, g)
    BY <1>0, <1>k, Ports, <1>54, <1>55, <1>56, RowIrDr
  <1>58. Does(E, Ir(IR_DATA_TO_ADDR), u33, g, u34, g)
    BY <1>q, <1>k, Ports, IrDoes DEF u33, u34
  <1>59. Does(E, Dr(\hA500), u34, g, u35, g)
    BY <1>q, <1>k, DrDto DEF u34, u35
  <1>60. Reached(E, S, A, u0, g, 18, 5, u35, g)
    BY <1>0, <1>k, Ports, <1>57, <1>58, <1>59, RowIrDr
  <1>61. Edge(E, kdTclk1, u35, u36)
    BY <1>q, <1>k, EdgeWrite DEF u35, u36
  <1>62. Reached(E, S, A, u0, g, 19, 5, u36, g)
    BY <1>0, <1>k, Ports, <1>60, <1>61, RowEdge
  <1>63. Does(E, Play(S, A), u0, g, u36, g)
    BY <1>0, <1>62, ScriptEnd
  <1> QED BY <1>63 DEF S, A, u0, u36, EraseOnce, kFctl1Addr, kFctl2Addr, kFctl3Addr, kFctl1Lock

\* One run of an erase, with pulses that end high.
LEMMA EraseRowsHigh ==
    ASSUME NEW E, NEW g, NEW b, Calm(b), Legacy(b), NEW ir, NEW cntrl, NEW mab, NEW dto, NEW din,
           NEW mdb,
           ir # IR_DATA_QUICK, NEW kAddr, NEW a \in RegValues(b), Addressing(kAddr, a), NEW n,
           NEW f1, NEW d1, Low(f1, d1), NEW f3, NEW d3, Low(f3, d3),
           NEW c1, Wrote(E, b, \h128, d1, c1), Calm(c1), NEW c2, Wrote(E, c1, \h12A, \hA540, c2),
           Calm(c2),
           NEW c3, Wrote(E, c2, \h12C, d3, c3), Calm(c3), NEW c4, Wrote(E, c3, a, \h55AA, c4),
           NEW c5, Strobed(E, c4, n, c5, 1), NEW c6, Wrote(E, c5, \h128, \hA500, c6), Calm(c6)
    PROVE  Does(E, EraseOnce(kAddr, a, f1, f3, n), P(b, ir, cntrl, 1, mab, dto, din, mdb, Fetch), g,
                P(c6, IR_DATA_TO_ADDR, \h2408, 1, \h128, \hA500, din, mdb, Fetch), g)
  <1> DEFINE S == <<kTclk0,
                    kIrDr16(IR_CNTRL_SIG_16BIT, \h2408),
                    kIrDr16(IR_ADDR_16BIT, \h128),
                    kIrDr16Argv(kdNone, IR_DATA_TO_ADDR, kdTclkP),
                    kIrDr16(IR_ADDR_16BIT, \h12A),
                    kIrDr16(IR_DATA_TO_ADDR, \hA540),
                    kPulseTclk,
                    kIrDr16(IR_ADDR_16BIT, \h12C),
                    kIrDr16Argv(kdNone, IR_DATA_TO_ADDR, kdTclkP),
                    kAddr,
                    kIrDr16(IR_DATA_TO_ADDR, \h55AA),
                    kPulseTclk,
                    kIrDr16(IR_CNTRL_SIG_16BIT, \h2409),
                    kStrobeTclkArgv,
                    kIrDr16(IR_CNTRL_SIG_16BIT, \h2408),
                    kIrDr16(IR_ADDR_16BIT, \h128),
                    kIrDr16(IR_DATA_TO_ADDR, \hA500),
                    kTclk1>>
             A == <<f1, f3, a, n>>
             u0 == P(b, ir, cntrl, 1, mab, dto, din, mdb, Fetch)
             u1 == P(b, ir, cntrl, 0, mab, dto, din, mdb, Fetch)
             u2 == P(b, IR_CNTRL_SIG_16BIT, cntrl, 0, mab, dto, din, mdb, Fetch)
             u3 == P(b, IR_CNTRL_SIG_16BIT, \h2408, 0, mab, dto, din, mdb, Fetch)
             u4 == P(b, IR_ADDR_16BIT, \h2408, 0, mab, dto, din, mdb, Fetch)
             u5 == P(b, IR_ADDR_16BIT, \h2408, 0, \h128, dto, din, mdb, Fetch)
             u6 == P(b, IR_DATA_TO_ADDR, \h2408, 0, \h128, dto, din, mdb, Fetch)
             u7 == P(b, IR_DATA_TO_ADDR, \h2408, 0, \h128, d1, din, mdb, Fetch)
             u8 == P(c1, IR_DATA_TO_ADDR, \h2408, 1, \h128, d1, din, mdb, Fetch)
             u9 == P(c1, IR_DATA_TO_ADDR, \h2408, 0, \h128, d1, din, mdb, Fetch)
             u10 == P(c1, IR_ADDR_16BIT, \h2408, 0, \h128, d1, din, mdb, Fetch)
             u11 == P(c1, IR_ADDR_16BIT, \h2408, 0, \h12A, d1, din, mdb, Fetch)
             u12 == P(c1, IR_DATA_TO_ADDR, \h2408, 0, \h12A, d1, din, mdb, Fetch)
             u13 == P(c1, IR_DATA_TO_ADDR, \h2408, 0, \h12A, \hA540, din, mdb, Fetch)
             u14 == P(c2, IR_DATA_TO_ADDR, \h2408, 1, \h12A, \hA540, din, mdb, Fetch)
             u15 == P(c2, IR_DATA_TO_ADDR, \h2408, 0, \h12A, \hA540, din, mdb, Fetch)
             u16 == P(c2, IR_ADDR_16BIT, \h2408, 0, \h12A, \hA540, din, mdb, Fetch)
             u17 == P(c2, IR_ADDR_16BIT, \h2408, 0, \h12C, \hA540, din, mdb, Fetch)
             u18 == P(c2, IR_DATA_TO_ADDR, \h2408, 0, \h12C, \hA540, din, mdb, Fetch)
             u19 == P(c2, IR_DATA_TO_ADDR, \h2408, 0, \h12C, d3, din, mdb, Fetch)
             u20 == P(c3, IR_DATA_TO_ADDR, \h2408, 1, \h12C, d3, din, mdb, Fetch)
             u21 == P(c3, IR_DATA_TO_ADDR, \h2408, 0, \h12C, d3, din, mdb, Fetch)
             u22 == P(c3, IR_ADDR_16BIT, \h2408, 0, \h12C, d3, din, mdb, Fetch)
             u23 == P(c3, IR_ADDR_16BIT, \h2408, 0, a, d3, din, mdb, Fetch)
             u24 == P(c3, IR_DATA_TO_ADDR, \h2408, 0, a, d3, din, mdb, Fetch)
             u25 == P(c3, IR_DATA_TO_ADDR, \h2408, 0, a, \h55AA, din, mdb, Fetch)
             u26 == P(c4, IR_DATA_TO_ADDR, \h2408, 1, a, \h55AA, din, mdb, Fetch)
             u27 == P(c4, IR_DATA_TO_ADDR, \h2408, 0, a, \h55AA, din, mdb, Fetch)
             u28 == P(c4, IR_CNTRL_SIG_16BIT, \h2408, 0, a, \h55AA, din, mdb, Fetch)
             u29 == P(c4, IR_CNTRL_SIG_16BIT, \h2409, 0, a, \h55AA, din, mdb, Fetch)
             u30 == P(c5, IR_CNTRL_SIG_16BIT, \h2409, 1, a, \h55AA, din, mdb, Fetch)
             u31 == P(c5, IR_CNTRL_SIG_16BIT, \h2408, 1, a, \h55AA, din, mdb, Fetch)
             u32 == P(c5, IR_ADDR_16BIT, \h2408, 1, a, \h55AA, din, mdb, Fetch)
             u33 == P(c5, IR_ADDR_16BIT, \h2408, 1, \h128, \h55AA, din, mdb, Fetch)
             u34 == P(c5, IR_DATA_TO_ADDR, \h2408, 1, \h128, \h55AA, din, mdb, Fetch)
             u35 == P(c6, IR_DATA_TO_ADDR, \h2408, 1, \h128, \hA500, din, mdb, Fetch)
  <1>l. Len(S) = 18
        /\ S[1] = kTclk0 /\ S[2] = kIrDr16(IR_CNTRL_SIG_16BIT, \h2408) /\ S[3] = kIrDr16(IR_ADDR_16BIT, \h128)
        /\ S[4] = kIrDr16Argv(kdNone, IR_DATA_TO_ADDR, kdTclkP) /\ S[5] = kIrDr16(IR_ADDR_16BIT, \h12A) /\ S[6] = kIrDr16(IR_DATA_TO_ADDR, \hA540)
        /\ S[7] = kPulseTclk /\ S[8] = kIrDr16(IR_ADDR_16BIT, \h12C) /\ S[9] = kIrDr16Argv(kdNone, IR_DATA_TO_ADDR, kdTclkP)
        /\ S[10] = kAddr /\ S[11] = kIrDr16(IR_DATA_TO_ADDR, \h55AA) /\ S[12] = kPulseTclk
        /\ S[13] = kIrDr16(IR_CNTRL_SIG_16BIT, \h2409) /\ S[14] = kStrobeTclkArgv /\ S[15] = kIrDr16(IR_CNTRL_SIG_16BIT, \h2408)
        /\ S[16] = kIrDr16(IR_ADDR_16BIT, \h128) /\ S[17] = kIrDr16(IR_DATA_TO_ADDR, \hA500) /\ S[18] = kTclk1
    OBVIOUS
  <1>a. A[1] = f1 /\ A[2] = f3 /\ A[3] = a /\ A[4] = n
    OBVIOUS
  <1> HIDE DEF S, A
  <1>0. /\ At(S, 1, 2, kTclk0) /\ At(S, 2, 3, kIrDr16(IR_CNTRL_SIG_16BIT, \h2408))
        /\ At(S, 3, 4, kIrDr16(IR_ADDR_16BIT, \h128)) /\ At(S, 4, 5, kIrDr16Argv(kdNone, IR_DATA_TO_ADDR, kdTclkP))
        /\ At(S, 5, 6, kIrDr16(IR_ADDR_16BIT, \h12A)) /\ At(S, 6, 7, kIrDr16(IR_DATA_TO_ADDR, \hA540))
        /\ At(S, 7, 8, kPulseTclk) /\ At(S, 8, 9, kIrDr16(IR_ADDR_16BIT, \h12C))
        /\ At(S, 9, 10, kIrDr16Argv(kdNone, IR_DATA_TO_ADDR, kdTclkP)) /\ At(S, 10, 11, kAddr)
        /\ At(S, 11, 12, kIrDr16(IR_DATA_TO_ADDR, \h55AA)) /\ At(S, 12, 13, kPulseTclk)
        /\ At(S, 13, 14, kIrDr16(IR_CNTRL_SIG_16BIT, \h2409)) /\ At(S, 14, 15, kStrobeTclkArgv)
        /\ At(S, 15, 16, kIrDr16(IR_CNTRL_SIG_16BIT, \h2408)) /\ At(S, 16, 17, kIrDr16(IR_ADDR_16BIT, \h128))
        /\ At(S, 17, 18, kIrDr16(IR_DATA_TO_ADDR, \hA500)) /\ At(S, 18, 19, kTclk1)
        /\ Ends(S, 19) /\ Given(A, 1, 2, f1)
        /\ Given(A, 2, 3, f3) /\ Given(A, 3, 4, a)
        /\ Given(A, 4, 5, n)
    BY <1>l, <1>a DEF At, Given, Ends
  <1>q. /\ Sound(b) /\ Quiet(b) /\ Calm(b) /\ Legacy(b)
        /\ Sound(c1) /\ Quiet(c1) /\ Calm(c1) /\ Legacy(c1)
        /\ Sound(c2) /\ Quiet(c2) /\ Calm(c2) /\ Legacy(c2)
        /\ Sound(c3) /\ Quiet(c3) /\ Calm(c3) /\ Legacy(c3)
        /\ Sound(c4) /\ Quiet(c4) /\ Legacy(c4)
        /\ Sound(c5) /\ Quiet(c5) /\ Calm(c5) /\ Legacy(c5)
        /\ Sound(c6) /\ Quiet(c6) /\ Calm(c6) /\ Legacy(c6)
    BY DEF Calm, Quiet, Wrote, Low, Strobed
  <1>v. d1 \in Values16 /\ d3 \in Values16
    BY ControlWords DEF Low
  <1>r. \h128 \in RegValues(b) /\ \h12A \in RegValues(c1) /\ \h12C \in RegValues(c2) /\ a \in RegValues(c3) /\ \h128 \in RegValues(c5)
    BY <1>q, RegsSame, Peripherals DEF Wrote, Low, Strobed
  <1>k. /\ d1 \in Values16 /\ d3 \in Values16 /\ \h128 \in Values16 /\ \h12A \in Values16 /\ \h12C \in Values16 /\ \h2408 \in Values16 /\ \h2409 \in Values16 /\ \h55AA \in Values16 /\ \hA500 \in Values16 /\ \hA540 \in Values16 /\ Writes(b, \h2408)
        /\ Writes(c1, \h2408) /\ Writes(c2, \h2408) /\ Writes(c3, \h2408)
        /\ Writes(c4, \h2408) /\ Writes(c5, \h2408) /\ Writes(c6, \h2408)
        /\ Reads(b, \h2409) /\ ~Writes(b, \h2409) /\ Reads(c1, \h2409) /\ ~Writes(c1, \h2409) /\ Reads(c2, \h2409) /\ ~Writes(c2, \h2409)
        /\ Reads(c3, \h2409) /\ ~Writes(c3, \h2409) /\ Reads(c4, \h2409) /\ ~Writes(c4, \h2409) /\ Reads(c5, \h2409) /\ ~Writes(c5, \h2409)
        /\ Reads(c6, \h2409) /\ ~Writes(c6, \h2409)
    BY <1>q, ControlWords, ExecutesOnly, <1>v DEF Values16
  <1> HIDE DEF u0, u1, u2, u3, u4, u5, u6, u7, u8, u9, u10, u11, u12, u13, u14, u15, u16, u17, u18, u19, u20, u21, u22, u23, u24, u25, u26, u27, u28, u29, u30, u31, u32, u33, u34, u35
  <1>1. Reached(E, S, A, u0, g, 1, 1, u0, g)
    BY RowBegin
  <1>2. Edge(E, kdTclk0, u0, u1)
    BY <1>q, <1>k, Ports, EdgeFall DEF u0, u1
  <1>3. Reached(E, S, A, u0, g, 2, 1, u1, g)
    BY <1>0, <1>k, Ports, <1>1, <1>2, RowEdge
  <1>4. Does(E, Ir(IR_CNTRL_SIG_16BIT), u1, g, u2, g)
    BY <1>q, <1>k, Ports, IrDoes DEF u1, u2
  <1>5. Does(E, Dr(\h2408), u2, g, u3, g)
    BY <1>q, <1>k, DrCntrl DEF u2, u3
  <1>6. Reached(E, S, A, u0, g, 3, 1, u3, g)
    BY <1>0, <1>k, Ports, <1>3, <1>4, <1>5, RowIrDr
  <1>7. Does(E, Ir(IR_ADDR_16BIT), u3, g, u4, g)
    BY <1>q, <1>k, Ports, IrDoes DEF u3, u4
  <1>8. Does(E, Dr(\h128), u4, g, u5, g)
    BY <1>q, <1>k, <1>r, DrMab DEF u4, u5
  <1>9. Reached(E, S, A, u0, g, 4, 1, u5, g)
    BY <1>0, <1>k, Ports, <1>6, <1>7, <1>8, RowIrDr
  <1>10. Edge(E, kdNone, u5, u5)
    BY EdgeNone
  <1>11. Does(E, Ir(IR_DATA_TO_ADDR), u5, g, u6, g)
    BY <1>q, <1>k, Ports, IrDoes DEF u5, u6
  <1>12. Does(E, Dr(d1), u6, g, u7, g)
    BY <1>q, <1>k, DrDto DEF u6, u7
  <1>13. Edge(E, kdTclk1, u7, u8)
    BY <1>q, <1>k, EdgeWrite DEF u7, u8
  <1>14. Edge(E, kdTclk0, u8, u9)
    BY <1>q, <1>k, Ports, EdgeFall DEF u8, u9
  <1>15. Edge(E, kdTclkP, u7, u9)
    BY <1>13, <1>14, EdgePulse
  <1>16. Reached(E, S, A, u0, g, 5, 2, u9, g)
    BY <1>0, <1>k, Ports, <1>9, <1>10, <1>11, <1>12, <1>15, RowIrDrArgv
  <1>17. Does(E, Ir(IR_ADDR_16BIT), u9, g, u10, g)
    BY <1>q, <1>k, Ports, IrDoes DEF u9, u10
  <1>18. Does(E, Dr(\h12A), u10, g, u11, g)
    BY <1>q, <1>k, <1>r, DrMab DEF u10, u11
  <1>19. Reached(E, S, A, u0, g, 6, 2, u11, g)
    BY <1>0, <1>k, Ports, <1>16, <1>17, <1>18, RowIrDr
  <1>20. Does(E, Ir(IR_DATA_TO_ADDR), u11, g, u12, g)
    BY <1>q, <1>k, Ports, IrDoes DEF u11, u12
  <1>21. Does(E, Dr(\hA540), u12, g, u13, g)
    BY <1>q, <1>k, DrDto DEF u12, u13
  <1>22. Reached(E, S, A, u0, g, 7, 2, u13, g)
    BY <1>0, <1>k, Ports, <1>19, <1>20, <1>21, RowIrDr
  <1>23. Edge(E, kdTclk1, u13, u14)
    BY <1>q, <1>k, EdgeWrite DEF u13, u14
  <1>24. Edge(E, kdTclk0, u14, u15)
    BY <1>q, <1>k, Ports, EdgeFall DEF u14, u15
  <1>25. Edge(E, kdTclkP, u13, u15)
    BY <1>23, <1>24, EdgePulse
  <1>26. Reached(E, S, A, u0, g, 8, 2, u15, g)
    BY <1>0, <1>k, Ports, <1>22, <1>25, RowEdge
  <1>27. Does(E, Ir(IR_ADDR_16BIT), u15, g, u16, g)
    BY <1>q, <1>k, Ports, IrDoes DEF u15, u16
  <1>28. Does(E, Dr(\h12C), u16, g, u17, g)
    BY <1>q, <1>k, <1>r, DrMab DEF u16, u17
  <1>29. Reached(E, S, A, u0, g, 9, 2, u17, g)
    BY <1>0, <1>k, Ports, <1>26, <1>27, <1>28, RowIrDr
  <1>30. Edge(E, kdNone, u17, u17)
    BY EdgeNone
  <1>31. Does(E, Ir(IR_DATA_TO_ADDR), u17, g, u18, g)
    BY <1>q, <1>k, Ports, IrDoes DEF u17, u18
  <1>32. Does(E, Dr(d3), u18, g, u19, g)
    BY <1>q, <1>k, DrDto DEF u18, u19
  <1>33. Edge(E, kdTclk1, u19, u20)
    BY <1>q, <1>k, EdgeWrite DEF u19, u20
  <1>34. Edge(E, kdTclk0, u20, u21)
    BY <1>q, <1>k, Ports, EdgeFall DEF u20, u21
  <1>35. Edge(E, kdTclkP, u19, u21)
    BY <1>33, <1>34, EdgePulse
  <1>36. Reached(E, S, A, u0, g, 10, 3, u21, g)
    BY <1>0, <1>k, Ports, <1>29, <1>30, <1>31, <1>32, <1>35, RowIrDrArgv
  <1>37. Does(E, Ir(IR_ADDR_16BIT), u21, g, u22, g)
    BY <1>q, <1>k, Ports, IrDoes DEF u21, u22
  <1>38. Does(E, Dr(a), u22, g, u23, g)
    BY <1>q, <1>k, <1>r, DrMab DEF u22, u23
  <1>39. Reached(E, S, A, u0, g, 11, 4, u23, g)
    BY <1>0, <1>k, Ports, <1>36, <1>37, <1>38, RowAddr
  <1>40. Does(E, Ir(IR_DATA_TO_ADDR), u23, g, u24, g)
    BY <1>q, <1>k, Ports, IrDoes DEF u23, u24
  <1>41. Does(E, Dr(\h55AA), u24, g, u25, g)
    BY <1>q, <1>k, DrDto DEF u24, u25
  <1>42. Reached(E, S, A, u0, g, 12, 4, u25, g)
    BY <1>0, <1>k, Ports, <1>39, <1>40, <1>41, RowIrDr
  <1>43. Edge(E, kdTclk1, u25, u26)
    BY <1>q, <1>k, EdgeWrite DEF u25, u26
  <1>44. Edge(E, kdTclk0, u26, u27)
    BY <1>q, <1>k, Ports, EdgeFall DEF u26, u27
  <1>45. Edge(E, kdTclkP, u25, u27)
    BY <1>43, <1>44, EdgePulse
  <1>46. Reached(E, S, A, u0, g, 13, 4, u27, g)
    BY <1>0, <1>k, Ports, <1>42, <1>45, RowEdge
  <1>47. Does(E, Ir(IR_CNTRL_SIG_16BIT), u27, g, u28, g)
    BY <1>q, <1>k, Ports, IrDoes DEF u27, u28
  <1>48. Does(E, Dr(\h2409), u28, g, u29, g)
    BY <1>q, <1>k, DrCntrl DEF u28, u29
  <1>49. Reached(E, S, A, u0, g, 14, 4, u29, g)
    BY <1>0, <1>k, Ports, <1>46, <1>47, <1>48, RowIrDr
  <1>50. Does(E, Strobe(n), u29, g, u30, g)
    BY <1>q, <1>k, StrobeDoes DEF u29, u30
  <1>51. Reached(E, S, A, u0, g, 15, 5, u30, g)
    BY <1>0, <1>k, Ports, <1>49, <1>50, RowStrobe
  <1>52. Does(E, Ir(IR_CNTRL_SIG_16BIT), u30, g, u30, g)
    BY <1>q, <1>k, Ports, IrDoes DEF u30
  <1>53. Does(E, Dr(\h2408), u30, g, u31, g)
    BY <1>q, <1>k, DrCntrl DEF u30, u31
  <1>54. Reached(E, S, A, u0, g, 16, 5, u31, g)
    BY <1>0, <1>k, Ports, <1>51, <1>52, <1>53, RowIrDr
  <1>55. Does(E, Ir(IR_ADDR_16BIT), u31, g, u32, g)
    BY <1>q, <1>k, Ports, IrDoes DEF u31, u32
  <1>56. Does(E, Dr(\h128), u32, g, u33, g)
    BY <1>q, <1>k, <1>r, DrMab DEF u32, u33
  <1>57. Reached(E, S, A, u0, g, 17, 5, u33, g)
    BY <1>0, <1>k, Ports, <1>54, <1>55, <1>56, RowIrDr
  <1>58. Does(E, Ir(IR_DATA_TO_ADDR), u33, g, u34, g)
    BY <1>q, <1>k, Ports, IrDoes DEF u33, u34
  <1>59. Does(E, Dr(\hA500), u34, g, u35, g)
    BY <1>q, <1>k, DrWrites DEF u34, u35
  <1>60. Reached(E, S, A, u0, g, 18, 5, u35, g)
    BY <1>0, <1>k, Ports, <1>57, <1>58, <1>59, RowIrDr
  <1>61. Edge(E, kdTclk1, u35, u35)
    BY <1>q, EdgeHigh DEF u35
  <1>62. Reached(E, S, A, u0, g, 19, 5, u35, g)
    BY <1>0, <1>k, Ports, <1>60, <1>61, RowEdge
  <1>63. Does(E, Play(S, A), u0, g, u35, g)
    BY <1>0, <1>62, ScriptEnd
  <1> QED BY <1>63 DEF S, A, u0, u35, EraseOnce, kFctl1Addr, kFctl2Addr, kFctl3Addr, kFctl1Lock

\* The flash is locked again after an erase.
LEMMA EraseCloseRows ==
    ASSUME NEW E, NEW g, NEW b, Calm(b), Legacy(b), NEW mab, NEW dto, NEW din, NEW mdb,
           NEW f, NEW d, Low(f, d), NEW c, Wrote(E, b, \h12C, d, c), Calm(c)
    PROVE  Does(E, Play(<<kTclk0, kIrDr16(IR_ADDR_16BIT, \h12C), kIrDr16Argv(kdNone, IR_DATA_TO_ADDR, kdTclk1)>>, <<f>>), P(b, IR_DATA_TO_ADDR, \h2408, 1, mab, dto, din, mdb, Fetch), g,
                P(c, IR_DATA_TO_ADDR, \h2408, 1, \h12C, d, din, mdb, Fetch), g)
  <1> DEFINE S == <<kTclk0,
                    kIrDr16(IR_ADDR_16BIT, \h12C),
                    kIrDr16Argv(kdNone, IR_DATA_TO_ADDR, kdTclk1)>>
             A == <<f>>
             u0 == P(b, IR_DATA_TO_ADDR, \h2408, 1, mab, dto, din, mdb, Fetch)
             u1 == P(b, IR_DATA_TO_ADDR, \h2408, 0, mab, dto, din, mdb, Fetch)
             u2 == P(b, IR_ADDR_16BIT, \h2408, 0, mab, dto, din, mdb, Fetch)
             u3 == P(b, IR_ADDR_16BIT, \h2408, 0, \h12C, dto, din, mdb, Fetch)
             u4 == P(b, IR_DATA_TO_ADDR, \h2408, 0, \h12C, dto, din, mdb, Fetch)
             u5 == P(b, IR_DATA_TO_ADDR, \h2408, 0, \h12C, d, din, mdb, Fetch)
             u6 == P(c, IR_DATA_TO_ADDR, \h2408, 1, \h12C, d, din, mdb, Fetch)
  <1>l. Len(S) = 3
        /\ S[1] = kTclk0 /\ S[2] = kIrDr16(IR_ADDR_16BIT, \h12C) /\ S[3] = kIrDr16Argv(kdNone, IR_DATA_TO_ADDR, kdTclk1)
    OBVIOUS
  <1>a. A[1] = f
    OBVIOUS
  <1> HIDE DEF S, A
  <1>0. /\ At(S, 1, 2, kTclk0) /\ At(S, 2, 3, kIrDr16(IR_ADDR_16BIT, \h12C))
        /\ At(S, 3, 4, kIrDr16Argv(kdNone, IR_DATA_TO_ADDR, kdTclk1)) /\ Ends(S, 4)
        /\ Given(A, 1, 2, f)
    BY <1>l, <1>a DEF At, Given, Ends
  <1>q. /\ Sound(b) /\ Quiet(b) /\ Calm(b) /\ Legacy(b)
        /\ Sound(c) /\ Quiet(c) /\ Calm(c) /\ Legacy(c)
    BY DEF Calm, Quiet, Wrote, Low, Strobed
  <1>v. d \in Values16
    BY ControlWords DEF Low
  <1>r. \h12C \in RegValues(b)
    BY <1>q, RegsSame, Peripherals DEF Wrote, Low, Strobed
  <1>k. /\ d \in Values16 /\ \h12C \in Values16 /\ Writes(b, \h2408)
        /\ Writes(c, \h2408)
    BY <1>q, ControlWords, ExecutesOnly, <1>v DEF Values16
  <1> HIDE DEF u0, u1, u2, u3, u4, u5, u6
  <1>1. Reached(E, S, A, u0, g, 1, 1, u0, g)
    BY RowBegin
  <1>2. Edge(E, kdTclk0, u0, u1)
    BY <1>q, <1>k, Ports, EdgeFall DEF u0, u1
  <1>3. Reached(E, S, A, u0, g, 2, 1, u1, g)
    BY <1>0, <1>k, Ports, <1>1, <1>2, RowEdge
  <1>4. Does(E, Ir(IR_ADDR_16BIT), u1, g, u2, g)
    BY <1>q, <1>k, Ports, IrDoes DEF u1, u2
  <1>5. Does(E, Dr(\h12C), u2, g, u3, g)
    BY <1>q, <1>k, <1>r, DrMab DEF u2, u3
  <1>6. Reached(E, S, A, u0, g, 3, 1, u3, g)
    BY <1>0, <1>k, Ports, <1>3, <1>4, <1>5, RowIrDr
  <1>7. Edge(E, kdNone, u3, u3)
    BY EdgeNone
  <1>8. Does(E, Ir(IR_DATA_TO_ADDR), u3, g, u4, g)
    BY <1>q, <1>k, Ports, IrDoes DEF u3, u4
  <1>9. Does(E, Dr(d), u4, g, u5, g)
    BY <1>q, <1>k, DrDto DEF u4, u5
  <1>10. Edge(E, kdTclk1, u5, u6)
    BY <1>q, <1>k, EdgeWrite DEF u5, u6
  <1>11. Reached(E, S, A, u0, g, 4, 2, u6, g)
    BY <1>0, <1>k, Ports, <1>6, <1>7, <1>8, <1>9, <1>10, RowIrDrArgv
  <1>12. Does(E, Play(S, A), u0, g, u6, g)
    BY <1>0, <1>11, ScriptEnd
  <1> QED BY <1>12 DEF S, A, u0, u6

-----------------------------------------------------------------------------
(* Registers of a MSP430X.                                                 *)

\* The words that make the CPU step, or leave it alone, have a meaning.
LEMMA TakesIs ==
    ASSUME NEW k \in {\h2401, \h2408}
    PROVE  \E m : Takes(k, m)
  <1>1. WithHigh(\h2401, \h34) = \h3401 /\ WithHigh(\h3401, \h24) = \h2401
    BY DEF WithHigh
  <1>2. WithHigh(\h2408, \h34) = \h3408 /\ WithHigh(\h3408, \h24) = \h2408
    BY DEF WithHigh
  <1>3. \h3401 \in Values16 /\ Executes(\h3401) /\ \h3408 \in Values16 /\ Executes(\h3408)
    BY ControlWords
  <1>4. CASE k = \h2401
    BY <1>1, <1>3, <1>4 DEF Takes
  <1>5. CASE k = \h2408
    BY <1>2, <1>3, <1>5 DEF Takes
  <1> QED BY <1>4, <1>5

\* MOVA #imm,PC.
LEMMA SetPCDoes_X ==
    ASSUME NEW E, NEW g, NEW b, Calm(b), Legacy(b), NEW k, NEW m, Takes(k, m), NEW ir, NEW mab,
           NEW dto, NEW din, NEW mdb,
           NEW address, NEW w, Low(\h0080 + High(address), w), NEW d, Low(address, d),
           NEW x, Fetches(b, w, x), NEW c, Loads(E, b, x, d, c)
    PROVE  Does(E, SetPC_X(address), P(b, ir, k, 1, mab, dto, din, mdb, Fetch), g,
                P(c, IR_CNTRL_SIG_HIGH_BYTE, k, 1, mab, dto, d, mdb, Fetch), g)
  <1> DEFINE S == <<kIrDr16(IR_CNTRL_SIG_HIGH_BYTE, \h34),
                    kIrDr16Argv(kdNone, IR_DATA_16BIT, kdTclkN),
                    kDr16Argv,
                    kIr(kdTclkN, IR_ADDR_CAPTURE, kdTclk0),
                    kIrDr16(IR_CNTRL_SIG_HIGH_BYTE, \h24),
                    kTclk1>>
             A == <<\h0080 + High(address), address>>
             u0 == P(b, ir, k, 1, mab, dto, din, mdb, Fetch)
             u1 == P(b, IR_CNTRL_SIG_HIGH_BYTE, k, 1, mab, dto, din, mdb, Fetch)
             u2 == P(b, IR_CNTRL_SIG_HIGH_BYTE, m, 1, mab, dto, din, mdb, Fetch)
             u3 == P(b, IR_DATA_16BIT, m, 1, mab, dto, din, mdb, Fetch)
             u4 == P(b, IR_DATA_16BIT, m, 1, mab, dto, w, mdb, Fetch)
             u5 == P(b, IR_DATA_16BIT, m, 0, mab, dto, w, mdb, Fetch)
             u6 == P(b, IR_DATA_16BIT, m, 1, mab, dto, w, mdb, x)
             u7 == P(b, IR_DATA_16BIT, m, 1, mab, dto, d, mdb, x)
             u8 == P(b, IR_DATA_16BIT, m, 0, mab, dto, d, mdb, x)
             u9 == P(c, IR_DATA_16BIT, m, 1, mab, dto, d, mdb, Fetch)
             u10 == P(c, IR_ADDR_CAPTURE, m, 1, mab, dto, d, mdb, Fetch)
             u11 == P(c, IR_ADDR_CAPTURE, m, 0, mab, dto, d, mdb, Fetch)
             u12 == P(c, IR_CNTRL_SIG_HIGH_BYTE, m, 0, mab, dto, d, mdb, Fetch)
             u13 == P(c, IR_CNTRL_SIG_HIGH_BYTE, k, 0, mab, dto, d, mdb, Fetch)
             u14 == P(c, IR_CNTRL_SIG_HIGH_BYTE, k, 1, mab, dto, d, mdb, Fetch)
  <1>l. Len(S) = 6
        /\ S[1] = kIrDr16(IR_CNTRL_SIG_HIGH_BYTE, \h34) /\ S[2] = kIrDr16Argv(kdNone, IR_DATA_16BIT, kdTclkN) /\ S[3] = kDr16Argv
        /\ S[4] = kIr(kdTclkN, IR_ADDR_CAPTURE, kdTclk0) /\ S[5] = kIrDr16(IR_CNTRL_SIG_HIGH_BYTE, \h24) /\ S[6] = kTclk1
    OBVIOUS
  <1>a. A[1] = \h0080 + High(address) /\ A[2] = address
    OBVIOUS
  <1> HIDE DEF S, A
  <1>0. /\ At(S, 1, 2, kIrDr16(IR_CNTRL_SIG_HIGH_BYTE, \h34)) /\ At(S, 2, 3, kIrDr16Argv(kdNone, IR_DATA_16BIT, kdTclkN))
        /\ At(S, 3, 4, kDr16Argv) /\ At(S, 4, 5, kIr(kdTclkN, IR_ADDR_CAPTURE, kdTclk0))
        /\ At(S, 5, 6, kIrDr16(IR_CNTRL_SIG_HIGH_BYTE, \h24)) /\ At(S, 6, 7, kTclk1)
        /\ Ends(S, 7) /\ Given(A, 1, 2, \h0080 + High(address))
        /\ Given(A, 2, 3, address)
    BY <1>l, <1>a DEF At, Given, Ends
  <1>q. /\ Sound(b) /\ Quiet(b) /\ Calm(b) /\ Legacy(b)
        /\ Sound(c) /\ Quiet(c) /\ Calm(c) /\ Legacy(c)
    BY DEF Calm, Quiet, Loads, Low
  <1>v. d \in Values16 /\ w \in Values16
    BY ControlWords DEF Low
  <1>k. /\ d \in Values16 /\ w \in Values16 /\ \h24 \in Values16 /\ \h34 \in Values16 /\ (Rests(b, k) \/ Writes(b, k))
        /\ (Rests(c, k) \/ Writes(c, k)) /\ Executes(m) /\ ~Writes(b, m) /\ Executes(m) /\ ~Writes(c, m)
        /\ m = WithHigh(k, \h34) /\ k = WithHigh(m, \h24) /\ m \in Values16
        /\ k \in Values16
    BY <1>q, ControlWords, ExecutesOnly, <1>v DEF Values16, Takes
  <1> HIDE DEF u0, u1, u2, u3, u4, u5, u6, u7, u8, u9, u10, u11, u12, u13, u14
  <1>1. Reached(E, S, A, u0, g, 1, 1, u0, g)
    BY RowBegin
  <1>2. Does(E, Ir(IR_CNTRL_SIG_HIGH_BYTE), u0, g, u1, g)
    BY <1>q, <1>k, Ports, IrDoes DEF u0, u1
  <1>3. Does(E, Dr(\h34), u1, g, u2, g)
    BY <1>q, <1>k, DrHigh DEF u1, u2
  <1>4. Reached(E, S, A, u0, g, 2, 1, u2, g)
    BY <1>0, <1>k, Ports, <1>1, <1>2, <1>3, RowIrDr
  <1>5. Edge(E, kdNone, u2, u2)
    BY EdgeNone
  <1>6. Does(E, Ir(IR_DATA_16BIT), u2, g, u3, g)
    BY <1>q, <1>k, Ports, IrDoes DEF u2, u3
  <1>7. Does(E, Dr(w), u3, g, u4, g)
    BY <1>q, <1>k, DrDin DEF u3, u4
  <1>8. Edge(E, kdTclk0, u4, u5)
    BY <1>q, <1>k, Ports, EdgeFall DEF u4, u5
  <1>9. Edge(E, kdTclk1, u5, u6)
    BY <1>q, <1>k, EdgeFetch DEF u5, u6
  <1>10. Edge(E, kdTclkN, u4, u6)
    BY <1>8, <1>9, EdgePulse
  <1>11. Reached(E, S, A, u0, g, 3, 2, u6, g)
    BY <1>0, <1>k, Ports, <1>4, <1>5, <1>6, <1>7, <1>10, RowIrDrArgv
  <1>12. Does(E, Dr(d), u6, g, u7, g)
    BY <1>q, <1>k, DrDin DEF u6, u7
  <1>13. Reached(E, S, A, u0, g, 4, 3, u7, g)
    BY <1>0, <1>k, Ports, <1>11, <1>12, RowDrLow
  <1>14. Edge(E, kdTclk0, u7, u8)
    BY <1>q, <1>k, Ports, EdgeFall DEF u7, u8
  <1>15. Edge(E, kdTclk1, u8, u9)
    BY <1>q, <1>k, EdgeLoad DEF u8, u9
  <1>16. Edge(E, kdTclkN, u7, u9)
    BY <1>14, <1>15, EdgePulse
  <1>17. Does(E, Ir(IR_ADDR_CAPTURE), u9, g, u10, g)
    BY <1>q, <1>k, Ports, IrDoes DEF u9, u10
  <1>18. Edge(E, kdTclk0, u10, u11)
    BY <1>q, <1>k, Ports, EdgeFall DEF u10, u11
  <1>19. Reached(E, S, A, u0, g, 5, 3, u11, g)
    BY <1>0, <1>k, Ports, <1>13, <1>16, <1>17, <1>18, RowIr
  <1>20. Does(E, Ir(IR_CNTRL_SIG_HIGH_BYTE), u11, g, u12, g)
    BY <1>q, <1>k, Ports, IrDoes DEF u11, u12
  <1>21. Does(E, Dr(\h24), u12, g, u13, g)
    BY <1>q, <1>k, DrHigh DEF u12, u13
  <1>22. Reached(E, S, A, u0, g, 6, 3, u13, g)
    BY <1>0, <1>k, Ports, <1>19, <1>20, <1>21, RowIrDr
  <1>23. Edge(E, kdTclk1, u13, u14)
    BY <1>q, <1>k, Ports, EdgeIdle DEF u13, u14
  <1>24. Reached(E, S, A, u0, g, 7, 3, u14, g)
    BY <1>0, <1>k, Ports, <1>22, <1>23, RowEdge
  <1>25. Does(E, Play(S, A), u0, g, u14, g)
    BY <1>0, <1>24, ScriptEnd
  <1> QED BY <1>25 DEF S, A, u0, u14, SetPC_X

\* MOVA #imm,Rn.
LEMMA SetRegDoes_X ==
    ASSUME NEW E, NEW g, NEW b, Calm(b), Legacy(b), NEW k, NEW m, Takes(k, m), NEW ir, NEW mab,
           NEW dto, NEW din, NEW mdb,
           NEW r, NEW value, NEW w, Low(\h0080 + r + High(value), w), NEW d, Low(value, d),
           NEW x, Fetches(b, w, x), NEW c, Loads(E, b, x, d, c)
    PROVE  Does(E, SetReg_X(r, value), P(b, ir, k, 1, mab, dto, din, mdb, Fetch), g,
                P(c, IR_CNTRL_SIG_HIGH_BYTE, k, 1, mab, dto, \h3FFD, mdb, Fetch), g)
  <1> DEFINE S == <<kIrDr8(IR_CNTRL_SIG_HIGH_BYTE, \h34),
                    kIrData16Argv(kdTclk1, kdTclk0),
                    kIr(kdNone, IR_DATA_CAPTURE, kdTclk1),
                    kIrData16Argv(kdTclk1, kdTclk0),
                    kIr(kdNone, IR_DATA_CAPTURE, kdTclk1),
                    kIrData16(kdTclk1, \h3FFD, kdTclk0),
                    kIr(kdNone, IR_DATA_CAPTURE, kdTclkP),
                    kIrDr8(IR_CNTRL_SIG_HIGH_BYTE, \h24),
                    kTclk1>>
             A == <<\h0080 + r + High(value), value>>
             u0 == P(b, ir, k, 1, mab, dto, din, mdb, Fetch)
             u1 == P(b, IR_CNTRL_SIG_HIGH_BYTE, k, 1, mab, dto, din, mdb, Fetch)
             u2 == P(b, IR_CNTRL_SIG_HIGH_BYTE, m, 1, mab, dto, din, mdb, Fetch)
             u3 == P(b, IR_DATA_16BIT, m, 1, mab, dto, din, mdb, Fetch)
             u4 == P(b, IR_DATA_16BIT, m, 1, mab, dto, w, mdb, Fetch)
             u5 == P(b, IR_DATA_16BIT, m, 0, mab, dto, w, mdb, Fetch)
             u6 == P(b, IR_DATA_CAPTURE, m, 0, mab, dto, w, mdb, Fetch)
             u7 == P(b, IR_DATA_CAPTURE, m, 1, mab, dto, w, mdb, x)
             u8 == P(b, IR_DATA_16BIT, m, 1, mab, dto, w, mdb, x)
             u9 == P(b, IR_DATA_16BIT, m, 1, mab, dto, d, mdb, x)
             u10 == P(b, IR_DATA_16BIT, m, 0, mab, dto, d, mdb, x)
             u11 == P(b, IR_DATA_CAPTURE, m, 0, mab, dto, d, mdb, x)
             u12 == P(c, IR_DATA_CAPTURE, m, 1, mab, dto, d, mdb, Fetch)
             u13 == P(c, IR_DATA_16BIT, m, 1, mab, dto, d, mdb, Fetch)
             u14 == P(c, IR_DATA_16BIT, m, 1, mab, dto, \h3FFD, mdb, Fetch)
             u15 == P(c, IR_DATA_16BIT, m, 0, mab, dto, \h3FFD, mdb, Fetch)
             u16 == P(c, IR_DATA_CAPTURE, m, 0, mab, dto, \h3FFD, mdb, Fetch)
             u17 == P(c, IR_DATA_CAPTURE, m, 1, mab, dto, \h3FFD, mdb, Fetch)
             u18 == P(c, IR_CNTRL_SIG_HIGH_BYTE, m, 0, mab, dto, \h3FFD, mdb, Fetch)
             u19 == P(c, IR_CNTRL_SIG_HIGH_BYTE, k, 0, mab, dto, \h3FFD, mdb, Fetch)
             u20 == P(c, IR_CNTRL_SIG_HIGH_BYTE, k, 1, mab, dto, \h3FFD, mdb, Fetch)
  <1>l. Len(S) = 9
        /\ S[1] = kIrDr8(IR_CNTRL_SIG_HIGH_BYTE, \h34) /\ S[2] = kIrData16Argv(kdTclk1, kdTclk0) /\ S[3] = kIr(kdNone, IR_DATA_CAPTURE, kdTclk1)
        /\ S[4] = kIrData16Argv(kdTclk1, kdTclk0) /\ S[5] = kIr(kdNone, IR_DATA_CAPTURE, kdTclk1) /\ S[6] = kIrData16(kdTclk1, \h3FFD, kdTclk0)
        /\ S[7] = kIr(kdNone, IR_DATA_CAPTURE, kdTclkP) /\ S[8] = kIrDr8(IR_CNTRL_SIG_HIGH_BYTE, \h24) /\ S[9] = kTclk1
    OBVIOUS
  <1>m. kIrDr8(IR_CNTRL_SIG_HIGH_BYTE, \h34) = kIrDr16(IR_CNTRL_SIG_HIGH_BYTE, \h34) /\ kIrDr8(IR_CNTRL_SIG_HIGH_BYTE, \h24) = kIrDr16(IR_CNTRL_SIG_HIGH_BYTE, \h24)
    BY Ports, PackAlike
  <1>a. A[1] = \h0080 + r + High(value) /\ A[2] = value
    OBVIOUS
  <1> HIDE DEF S, A
  <1>0. /\ At(S, 1, 2, kIrDr16(IR_CNTRL_SIG_HIGH_BYTE, \h34)) /\ At(S, 2, 3, kIrData16Argv(kdTclk1, kdTclk0))
        /\ At(S, 3, 4, kIr(kdNone, IR_DATA_CAPTURE, kdTclk1)) /\ At(S, 4, 5, kIrData16Argv(kdTclk1, kdTclk0))
        /\ At(S, 5, 6, kIr(kdNone, IR_DATA_CAPTURE, kdTclk1)) /\ At(S, 6, 7, kIrData16(kdTclk1, \h3FFD, kdTclk0))
        /\ At(S, 7, 8, kIr(kdNone, IR_DATA_CAPTURE, kdTclkP)) /\ At(S, 8, 9, kIrDr16(IR_CNTRL_SIG_HIGH_BYTE, \h24))
        /\ At(S, 9, 10, kTclk1) /\ Ends(S, 10)
        /\ Given(A, 1, 2, \h0080 + r + High(value)) /\ Given(A, 2, 3, value)
    BY <1>l, <1>m, <1>a DEF At, Given, Ends
  <1>q. /\ Sound(b) /\ Quiet(b) /\ Calm(b) /\ Legacy(b)
        /\ Sound(c) /\ Quiet(c) /\ Calm(c) /\ Legacy(c)
    BY DEF Calm, Quiet, Loads, Low
  <1>v. d \in Values16 /\ w \in Values16
    BY ControlWords DEF Low
  <1>k. /\ d \in Values16 /\ w \in Values16 /\ \h24 \in Values16 /\ \h34 \in Values16 /\ \h3FFD \in Values16 /\ (Rests(b, k) \/ Writes(b, k))
        /\ (Rests(c, k) \/ Writes(c, k)) /\ Executes(m) /\ ~Writes(b, m) /\ Executes(m) /\ ~Writes(c, m)
        /\ m = WithHigh(k, \h34) /\ k = WithHigh(m, \h24) /\ m \in Values16
        /\ k \in Values16
    BY <1>q, ControlWords, ExecutesOnly, <1>v DEF Values16, Takes
  <1> HIDE DEF u0, u1, u2, u3, u4, u5, u6, u7, u8, u9, u10, u11, u12, u13, u14, u15, u16, u17, u18, u19, u20
  <1>1. Reached(E, S, A, u0, g, 1, 1, u0, g)
    BY RowBegin
  <1>2. Does(E, Ir(IR_CNTRL_SIG_HIGH_BYTE), u0, g, u1, g)
    BY <1>q, <1>k, Ports, IrDoes DEF u0, u1
  <1>3. Does(E, Dr(\h34), u1, g, u2, g)
    BY <1>q, <1>k, DrHigh DEF u1, u2
  <1>4. Reached(E, S, A, u0, g, 2, 1, u2, g)
    BY <1>0, <1>k, Ports, <1>1, <1>2, <1>3, RowIrDr
  <1>5. Does(E, Ir(IR_DATA_16BIT), u2, g, u3, g)
    BY <1>q, <1>k, Ports, IrDoes DEF u2, u3
  <1>6. Edge(E, kdTclk1, u3, u3)
    BY <1>q, EdgeHigh DEF u3
  <1>7. Does(E, Dr(w), u3, g, u4, g)
    BY <1>q, <1>k, DrDin DEF u3, u4
  <1>8. Edge(E, kdTclk0, u4, u5)
    BY <1>q, <1>k, Ports, EdgeFall DEF u4, u5
  <1>9. Reached(E, S, A, u0, g, 3, 2, u5, g)
    BY <1>0, <1>k, Ports, <1>4, <1>5, <1>6, <1>7, <1>8, RowDataArgv
  <1>10. Edge(E, kdNone, u5, u5)
    BY EdgeNone
  <1>11. Does(E, Ir(IR_DATA_CAPTURE), u5, g, u6, g)
    BY <1>q, <1>k, Ports, IrDoes DEF u5, u6
  <1>12. Edge(E, kdTclk1, u6, u7)
    BY <1>q, <1>k, EdgeFetch DEF u6, u7
  <1>13. Reached(E, S, A, u0, g, 4, 2, u7, g)
    BY <1>0, <1>k, Ports, <1>9, <1>10, <1>11, <1>12, RowIr
  <1>14. Does(E, Ir(IR_DATA_16BIT), u7, g, u8, g)
    BY <1>q, <1>k, Ports, IrDoes DEF u7, u8
  <1>15. Edge(E, kdTclk1, u8, u8)
    BY <1>q, EdgeHigh DEF u8
  <1>16. Does(E, Dr(d), u8, g, u9, g)
    BY <1>q, <1>k, DrDin DEF u8, u9
  <1>17. Edge(E, kdTclk0, u9, u10)
    BY <1>q, <1>k, Ports, EdgeFall DEF u9, u10
  <1>18. Reached(E, S, A, u0, g, 5, 3, u10, g)
    BY <1>0, <1>k, Ports, <1>13, <1>14, <1>15, <1>16, <1>17, RowDataArgv
  <1>19. Edge(E, kdNone, u10, u10)
    BY EdgeNone
  <1>20. Does(E, Ir(IR_DATA_CAPTURE), u10, g, u11, g)
    BY <1>q, <1>k, Ports, IrDoes DEF u10, u11
  <1>21. Edge(E, kdTclk1, u11, u12)
    BY <1>q, <1>k, EdgeLoad DEF u11, u12
  <1>22. Reached(E, S, A, u0, g, 6, 3, u12, g)
    BY <1>0, <1>k, Ports, <1>18, <1>19, <1>20, <1>21, RowIr
  <1>23. Does(E, Ir(IR_DATA_16BIT), u12, g, u13, g)
    BY <1>q, <1>k, Ports, IrDoes DEF u12, u13
  <1>24. Edge(E, kdTclk1, u13, u13)
    BY <1>q, EdgeHigh DEF u13
  <1>25. Does(E, Dr(\h3FFD), u13, g, u14, g)
    BY <1>q, <1>k, DrDin DEF u13, u14
  <1>26. Edge(E, kdTclk0, u14, u15)
    BY <1>q, <1>k, Ports, EdgeFall DEF u14, u15
  <1>27. Reached(E, S, A, u0, g, 7, 3, u15, g)
    BY <1>0, <1>k, Ports, <1>22, <1>23, <1>24, <1>25, <1>26, RowData
  <1>28. Edge(E, kdNone, u15, u15)
    BY EdgeNone
  <1>29. Does(E, Ir(IR_DATA_CAPTURE), u15, g, u16, g)
    BY <1>q, <1>k, Ports, IrDoes DEF u15, u16
  <1>30. Edge(E, kdTclk1, u16, u17)
    BY <1>q, <1>k, Nops, EdgeFetch DEF u16, u17
  <1>31. Edge(E, kdTclk0, u17, u16)
    BY <1>q, <1>k, Ports, EdgeFall DEF u17, u16
  <1>32. Edge(E, kdTclkP, u16, u16)
    BY <1>30, <1>31, EdgePulse
  <1>33. Reached(E, S, A, u0, g, 8, 3, u16, g)
    BY <1>0, <1>k, Ports, <1>27, <1>28, <1>29, <1>32, RowIr
  <1>34. Does(E, Ir(IR_CNTRL_SIG_HIGH_BYTE), u16, g, u18, g)
    BY <1>q, <1>k, Ports, IrDoes DEF u16, u18
  <1>35. Does(E, Dr(\h24), u18, g, u19, g)
    BY <1>q, <1>k, DrHigh DEF u18, u19
  <1>36. Reached(E, S, A, u0, g, 9, 3, u19, g)
    BY <1>0, <1>k, Ports, <1>33, <1>34, <1>35, RowIrDr
  <1>37. Edge(E, kdTclk1, u19, u20)
    BY <1>q, <1>k, Ports, EdgeIdle DEF u19, u20
  <1>38. Reached(E, S, A, u0, g, 10, 3, u20, g)
    BY <1>0, <1>k, Ports, <1>36, <1>37, RowEdge
  <1>39. Does(E, Play(S, A), u0, g, u20, g)
    BY <1>0, <1>38, ScriptEnd
  <1> QED BY <1>39 DEF S, A, u0, u20, SetReg_X

\* MOVA Rn,&abs: the bus shows the register in two words.
LEMMA GetRegDoes_X ==
    ASSUME NEW E, NEW g, NEW b, Calm(b), Legacy(b), NEW k, NEW m, Takes(k, m), NEW ir, NEW mab,
           NEW dto, NEW din, NEW mdb,
           NEW r, NEW w, Low(r * 256 + \h60, w), NEW z, Fetches(b, w, z), NEW c, NEW x, NEW o1,
           NEW o2, Displays(x, o2, Fetch),
           Stores(E, b, z, \h00FC, mdb, c, o1, x)
    PROVE  Does(E, GetReg_X(r), P(b, ir, k, 1, mab, dto, din, mdb, Fetch), g,
                P(c, IR_CNTRL_SIG_HIGH_BYTE, k, 1, mab, dto, \h00FC, o2, Fetch), Got(Got(g, "rx_l", o1), "rx_h", o2))
  <1> DEFINE S == <<kIrDr8(IR_CNTRL_SIG_HIGH_BYTE, \h34),
                    kIrData16Argv(kdTclk1, kdTclk0),
                    kIr(kdNone, IR_DATA_CAPTURE, kdTclk1),
                    kIrData16(kdTclk1, \h00FC, kdTclk0),
                    kIr(kdNone, IR_DATA_CAPTURE, kdTclk1),
                    kDr16_ret(0),
                    kPulseTclkN,
                    kDr16_ret(0),
                    kTclk0,
                    kIrDr8(IR_CNTRL_SIG_HIGH_BYTE, \h24),
                    kTclk1>>
             A == <<r * 256 + \h60, "rx_l", "rx_h">>
             u0 == P(b, ir, k, 1, mab, dto, din, mdb, Fetch)
             u1 == P(b, IR_CNTRL_SIG_HIGH_BYTE, k, 1, mab, dto, din, mdb, Fetch)
             u2 == P(b, IR_CNTRL_SIG_HIGH_BYTE, m, 1, mab, dto, din, mdb, Fetch)
             u3 == P(b, IR_DATA_16BIT, m, 1, mab, dto, din, mdb, Fetch)
             u4 == P(b, IR_DATA_16BIT, m, 1, mab, dto, w, mdb, Fetch)
             u5 == P(b, IR_DATA_16BIT, m, 0, mab, dto, w, mdb, Fetch)
             u6 == P(b, IR_DATA_CAPTURE, m, 0, mab, dto, w, mdb, Fetch)
             u7 == P(b, IR_DATA_CAPTURE, m, 1, mab, dto, w, mdb, z)
             u8 == P(b, IR_DATA_16BIT, m, 1, mab, dto, w, mdb, z)
             u9 == P(b, IR_DATA_16BIT, m, 1, mab, dto, \h00FC, mdb, z)
             u10 == P(b, IR_DATA_16BIT, m, 0, mab, dto, \h00FC, mdb, z)
             u11 == P(b, IR_DATA_CAPTURE, m, 0, mab, dto, \h00FC, mdb, z)
             u12 == P(c, IR_DATA_CAPTURE, m, 1, mab, dto, \h00FC, o1, x)
             u13 == P(c, IR_DATA_CAPTURE, m, 0, mab, dto, \h00FC, o1, x)
             u14 == P(c, IR_DATA_CAPTURE, m, 1, mab, dto, \h00FC, o2, Fetch)
             u15 == P(c, IR_DATA_CAPTURE, m, 0, mab, dto, \h00FC, o2, Fetch)
             u16 == P(c, IR_CNTRL_SIG_HIGH_BYTE, m, 0, mab, dto, \h00FC, o2, Fetch)
             u17 == P(c, IR_CNTRL_SIG_HIGH_BYTE, k, 0, mab, dto, \h00FC, o2, Fetch)
             u18 == P(c, IR_CNTRL_SIG_HIGH_BYTE, k, 1, mab, dto, \h00FC, o2, Fetch)
             h1 == Got(g, "rx_l", o1)
             h2 == Got(h1, "rx_h", o2)
  <1>l. Len(S) = 11
        /\ S[1] = kIrDr8(IR_CNTRL_SIG_HIGH_BYTE, \h34) /\ S[2] = kIrData16Argv(kdTclk1, kdTclk0) /\ S[3] = kIr(kdNone, IR_DATA_CAPTURE, kdTclk1)
        /\ S[4] = kIrData16(kdTclk1, \h00FC, kdTclk0) /\ S[5] = kIr(kdNone, IR_DATA_CAPTURE, kdTclk1) /\ S[6] = kDr16_ret(0)
        /\ S[7] = kPulseTclkN /\ S[8] = kDr16_ret(0) /\ S[9] = kTclk0
        /\ S[10] = kIrDr8(IR_CNTRL_SIG_HIGH_BYTE, \h24) /\ S[11] = kTclk1
    OBVIOUS
  <1>m. kIrDr8(IR_CNTRL_SIG_HIGH_BYTE, \h34) = kIrDr16(IR_CNTRL_SIG_HIGH_BYTE, \h34) /\ kIrDr8(IR_CNTRL_SIG_HIGH_BYTE, \h24) = kIrDr16(IR_CNTRL_SIG_HIGH_BYTE, \h24)
    BY Ports, PackAlike
  <1>a. A[1] = r * 256 + \h60 /\ A[2] = "rx_l" /\ A[3] = "rx_h"
    OBVIOUS
  <1> HIDE DEF S, A
  <1>0. /\ At(S, 1, 2, kIrDr16(IR_CNTRL_SIG_HIGH_BYTE, \h34)) /\ At(S, 2, 3, kIrData16Argv(kdTclk1, kdTclk0))
        /\ At(S, 3, 4, kIr(kdNone, IR_DATA_CAPTURE, kdTclk1)) /\ At(S, 4, 5, kIrData16(kdTclk1, \h00FC, kdTclk0))
        /\ At(S, 5, 6, kIr(kdNone, IR_DATA_CAPTURE, kdTclk1)) /\ At(S, 6, 7, kDr16_ret(0))
        /\ At(S, 7, 8, kPulseTclkN) /\ At(S, 8, 9, kDr16_ret(0))
        /\ At(S, 9, 10, kTclk0) /\ At(S, 10, 11, kIrDr16(IR_CNTRL_SIG_HIGH_BYTE, \h24))
        /\ At(S, 11, 12, kTclk1) /\ Ends(S, 12)
        /\ Given(A, 1, 2, r * 256 + \h60) /\ Given(A, 2, 3, "rx_l")
        /\ Given(A, 3, 4, "rx_h")
    BY <1>l, <1>m, <1>a DEF At, Given, Ends
  <1>q. /\ Sound(b) /\ Quiet(b) /\ Calm(b) /\ Legacy(b)
        /\ Sound(c) /\ Quiet(c) /\ Calm(c) /\ Legacy(c)
    BY DEF Calm, Quiet, Stores, Low, Displays
  <1>v. w \in Values16
    BY ControlWords DEF Low
  <1>k. /\ w \in Values16 /\ \h00FC \in Values16 /\ \h24 \in Values16 /\ \h34 \in Values16 /\ (Rests(b, k) \/ Writes(b, k))
        /\ (Rests(c, k) \/ Writes(c, k)) /\ Executes(m) /\ ~Writes(b, m) /\ Executes(m) /\ ~Writes(c, m)
        /\ m = WithHigh(k, \h34) /\ k = WithHigh(m, \h24) /\ m \in Values16
        /\ k \in Values16
    BY <1>q, ControlWords, ExecutesOnly, <1>v DEF Values16, Takes
  <1> HIDE DEF u0, u1, u2, u3, u4, u5, u6, u7, u8, u9, u10, u11, u12, u13, u14, u15, u16, u17, u18, h1, h2
  <1>1. Reached(E, S, A, u0, g, 1, 1, u0, g)
    BY RowBegin
  <1>2. Does(E, Ir(IR_CNTRL_SIG_HIGH_BYTE), u0, g, u1, g)
    BY <1>q, <1>k, Ports, IrDoes DEF u0, u1
  <1>3. Does(E, Dr(\h34), u1, g, u2, g)
    BY <1>q, <1>k, DrHigh DEF u1, u2
  <1>4. Reached(E, S, A, u0, g, 2, 1, u2, g)
    BY <1>0, <1>k, Ports, <1>1, <1>2, <1>3, RowIrDr
  <1>5. Does(E, Ir(IR_DATA_16BIT), u2, g, u3, g)
    BY <1>q, <1>k, Ports, IrDoes DEF u2, u3
  <1>6. Edge(E, kdTclk1, u3, u3)
    BY <1>q, EdgeHigh DEF u3
  <1>7. Does(E, Dr(w), u3, g, u4, g)
    BY <1>q, <1>k, DrDin DEF u3, u4
  <1>8. Edge(E, kdTclk0, u4, u5)
    BY <1>q, <1>k, Ports, EdgeFall DEF u4, u5
  <1>9. Reached(E, S, A, u0, g, 3, 2, u5, g)
    BY <1>0, <1>k, Ports, <1>4, <1>5, <1>6, <1>7, <1>8, RowDataArgv
  <1>10. Edge(E, kdNone, u5, u5)
    BY EdgeNone
  <1>11. Does(E, Ir(IR_DATA_CAPTURE), u5, g, u6, g)
    BY <1>q, <1>k, Ports, IrDoes DEF u5, u6
  <1>12. Edge(E, kdTclk1, u6, u7)
    BY <1>q, <1>k, EdgeFetch DEF u6, u7
  <1>13. Reached(E, S, A, u0, g, 4, 2, u7, g)
    BY <1>0, <1>k, Ports, <1>9, <1>10, <1>11, <1>12, RowIr
  <1>14. Does(E, Ir(IR_DATA_16BIT), u7, g, u8, g)
    BY <1>q, <1>k, Ports, IrDoes DEF u7, u8
  <1>15. Edge(E, kdTclk1, u8, u8)
    BY <1>q, EdgeHigh DEF u8
  <1>16. Does(E, Dr(\h00FC), u8, g, u9, g)
    BY <1>q, <1>k, DrDin DEF u8, u9
  <1>17. Edge(E, kdTclk0, u9, u10)
    BY <1>q, <1>k, Ports, EdgeFall DEF u9, u10
  <1>18. Reached(E, S, A, u0, g, 5, 2, u10, g)
    BY <1>0, <1>k, Ports, <1>13, <1>14, <1>15, <1>16, <1>17, RowData
  <1>19. Edge(E, kdNone, u10, u10)
    BY EdgeNone
  <1>20. Does(E, Ir(IR_DATA_CAPTURE), u10, g, u11, g)
    BY <1>q, <1>k, Ports, IrDoes DEF u10, u11
  <1>21. Edge(E, kdTclk1, u11, u12)
    BY <1>q, <1>k, EdgeStore DEF u11, u12
  <1>22. Reached(E, S, A, u0, g, 6, 2, u12, g)
    BY <1>0, <1>k, Ports, <1>18, <1>19, <1>20, <1>21, RowIr
  <1>23. Does(E, DrTo(0, "rx_l"), u12, g, u12, h1)
    BY <1>q, <1>k, Ports, PlainAre, DrShown DEF u12, h1
  <1>24. Reached(E, S, A, u0, g, 7, 3, u12, h1)
    BY <1>0, <1>k, Ports, <1>22, <1>23, RowDrTo
  <1>25. Edge(E, kdTclk0, u12, u13)
    BY <1>q, <1>k, Ports, EdgeFall DEF u12, u13
  <1>26. Edge(E, kdTclk1, u13, u14)
    BY <1>q, <1>k, EdgeShow DEF u13, u14
  <1>27. Edge(E, kdTclkN, u12, u14)
    BY <1>25, <1>26, EdgePulse
  <1>28. Reached(E, S, A, u0, g, 8, 3, u14, h1)
    BY <1>0, <1>k, Ports, <1>24, <1>27, RowEdge
  <1>29. Does(E, DrTo(0, "rx_h"), u14, h1, u14, h2)
    BY <1>q, <1>k, Ports, PlainAre, DrShown DEF u14, h2
  <1>30. Reached(E, S, A, u0, g, 9, 4, u14, h2)
    BY <1>0, <1>k, Ports, <1>28, <1>29, RowDrTo
  <1>31. Edge(E, kdTclk0, u14, u15)
    BY <1>q, <1>k, Ports, EdgeFall DEF u14, u15
  <1>32. Reached(E, S, A, u0, g, 10, 4, u15, h2)
    BY <1>0, <1>k, Ports, <1>30, <1>31, RowEdge
  <1>33. Does(E, Ir(IR_CNTRL_SIG_HIGH_BYTE), u15, h2, u16, h2)
    BY <1>q, <1>k, Ports, IrDoes DEF u15, u16
  <1>34. Does(E, Dr(\h24), u16, h2, u17, h2)
    BY <1>q, <1>k, DrHigh DEF u16, u17
  <1>35. Reached(E, S, A, u0, g, 11, 4, u17, h2)
    BY <1>0, <1>k, Ports, <1>32, <1>33, <1>34, RowIrDr
  <1>36. Edge(E, kdTclk1, u17, u18)
    BY <1>q, <1>k, Ports, EdgeIdle DEF u17, u18
  <1>37. Reached(E, S, A, u0, g, 12, 4, u18, h2)
    BY <1>0, <1>k, Ports, <1>35, <1>36, RowEdge
  <1>38. Does(E, Play(S, A), u0, g, u18, h2)
    BY <1>0, <1>37, ScriptEnd
  <1> QED BY <1>38 DEF S, A, u0, u18, h1, h2, GetReg_X

-----------------------------------------------------------------------------
(* The scripts of a MSP430Xv2.                                             *)

SetPCPlay(v) ==
    Play(<<kTclk0, kIrData16Argv(kdTclk1, kdTclk0),
         kIrDr16(IR_CNTRL_SIG_16BIT, \h1400), kIrData16Argv(kdTclkN, kdTclkN),
         kDr16(\h4303), kTclk0, kIrDr16(IR_ADDR_CAPTURE, 0)>>, <<\h0080 + High(v), v>>)

\* MOVA #imm,PC, and then NOP.
LEMMA SetPCRows_Xv2 ==
    ASSUME NEW E, NEW g, NEW b, Calm(b), ~Legacy(b), NEW ir, NEW cntrl, NEW mab, NEW dto, NEW din,
           NEW mdb, NEW t0,
           Edge(E, kdTclk0, t0, P(b, ir, cntrl, 0, mab, dto, din, mdb, Fetch)),
           NEW o0, Edge(E, kdTclk1, P(b, IR_DATA_16BIT, cntrl, 0, mab, dto, din, mdb, Fetch),
                                P(b, IR_DATA_16BIT, cntrl, 1, mab, dto, din, o0, Fetch)),
           NEW a, NEW w, Low(\h0080 + High(a), w), NEW d, Low(a, d), NEW x, Fetches(b, w, x), NEW c,
           Loads(E, b, x, d, c)
    PROVE  Does(E, SetPCPlay(a), t0, g,
                P(c, IR_ADDR_CAPTURE, \h1400, 0, mab, dto, \h4303, o0, Fetch), g)
  <1> DEFINE S == <<kTclk0,
                    kIrData16Argv(kdTclk1, kdTclk0),
                    kIrDr16(IR_CNTRL_SIG_16BIT, \h1400),
                    kIrData16Argv(kdTclkN, kdTclkN),
                    kDr16(\h4303),
                    kTclk0,
                    kIrDr16(IR_ADDR_CAPTURE, 0)>>
             A == <<\h0080 + High(a), a>>
             u0 == t0
             u1 == P(b, ir, cntrl, 0, mab, dto, din, mdb, Fetch)
             u2 == P(b, IR_DATA_16BIT, cntrl, 0, mab, dto, din, mdb, Fetch)
             u3 == P(b, IR_DATA_16BIT, cntrl, 1, mab, dto, din, o0, Fetch)
             u4 == P(b, IR_DATA_16BIT, cntrl, 1, mab, dto, w, o0, Fetch)
             u5 == P(b, IR_DATA_16BIT, cntrl, 0, mab, dto, w, o0, Fetch)
             u6 == P(b, IR_CNTRL_SIG_16BIT, cntrl, 0, mab, dto, w, o0, Fetch)
             u7 == P(b, IR_CNTRL_SIG_16BIT, \h1400, 0, mab, dto, w, o0, Fetch)
             u8 == P(b, IR_DATA_16BIT, \h1400, 0, mab, dto, w, o0, Fetch)
             u9 == P(b, IR_DATA_16BIT, \h1400, 1, mab, dto, w, o0, x)
             u10 == P(b, IR_DATA_16BIT, \h1400, 1, mab, dto, d, o0, x)
             u11 == P(b, IR_DATA_16BIT, \h1400, 0, mab, dto, d, o0, x)
             u12 == P(c, IR_DATA_16BIT, \h1400, 1, mab, dto, d, o0, Fetch)
             u13 == P(c, IR_DATA_16BIT, \h1400, 1, mab, dto, \h4303, o0, Fetch)
             u14 == P(c, IR_DATA_16BIT, \h1400, 0, mab, dto, \h4303, o0, Fetch)
             u15 == P(c, IR_ADDR_CAPTURE, \h1400, 0, mab, dto, \h4303, o0, Fetch)
  <1>l. Len(S) = 7
        /\ S[1] = kTclk0 /\ S[2] = kIrData16Argv(kdTclk1, kdTclk0) /\ S[3] = kIrDr16(IR_CNTRL_SIG_16BIT, \h1400)
        /\ S[4] = kIrData16Argv(kdTclkN, kdTclkN) /\ S[5] = kDr16(\h4303) /\ S[6] = kTclk0
        /\ S[7] = kIrDr16(IR_ADDR_CAPTURE, 0)
    OBVIOUS
  <1>a. A[1] = \h0080 + High(a) /\ A[2] = a
    OBVIOUS
  <1> HIDE DEF S, A
  <1>0. /\ At(S, 1, 2, kTclk0) /\ At(S, 2, 3, kIrData16Argv(kdTclk1, kdTclk0))
        /\ At(S, 3, 4, kIrDr16(IR_CNTRL_SIG_16BIT, \h1400)) /\ At(S, 4, 5, kIrData16Argv(kdTclkN, kdTclkN))
        /\ At(S, 5, 6, kDr16(\h4303)) /\ At(S, 6, 7, kTclk0)
        /\ At(S, 7, 8, kIrDr16(IR_ADDR_CAPTURE, 0)) /\ Ends(S, 8)
        /\ Given(A, 1, 2, \h0080 + High(a)) /\ Given(A, 2, 3, a)
    BY <1>l, <1>a DEF At, Given, Ends
  <1>q. /\ Sound(b) /\ Quiet(b) /\ Calm(b) /\ ~Legacy(b)
        /\ Sound(c) /\ Quiet(c) /\ Calm(c) /\ ~Legacy(c)
    BY DEF Calm, Quiet, Loads, Low
  <1>v. d \in Values16 /\ w \in Values16
    BY ControlWords DEF Low
  <1>k. /\ d \in Values16 /\ w \in Values16 /\ 0 \in Values16 /\ \h1400 \in Values16 /\ \h4303 \in Values16 /\ Executes(\h1400) /\ ~Writes(b, \h1400)
        /\ Executes(\h1400) /\ ~Writes(c, \h1400)
    BY <1>q, ControlWords, ExecutesOnly, <1>v DEF Values16
  <1> HIDE DEF u0, u1, u2, u3, u4, u5, u6, u7, u8, u9, u10, u11, u12, u13, u14, u15
  <1>1. Reached(E, S, A, u0, g, 1, 1, u0, g)
    BY RowBegin
  <1>2. Edge(E, kdTclk0, u0, u1)
    BY DEF u0, u1
  <1>3. Reached(E, S, A, u0, g, 2, 1, u1, g)
    BY <1>0, <1>k, Ports, <1>1, <1>2, RowEdge
  <1>4. Does(E, Ir(IR_DATA_16BIT), u1, g, u2, g)
    BY <1>q, <1>k, Ports, IrDoes DEF u1, u2
  <1>5. Edge(E, kdTclk1, u2, u3)
    BY DEF u2, u3
  <1>6. Does(E, Dr(w), u3, g, u4, g)
    BY <1>q, <1>k, DrDin DEF u3, u4
  <1>7. Edge(E, kdTclk0, u4, u5)
    BY <1>q, <1>k, Ports, EdgeFall DEF u4, u5
  <1>8. Reached(E, S, A, u0, g, 3, 2, u5, g)
    BY <1>0, <1>k, Ports, <1>3, <1>4, <1>5, <1>6, <1>7, RowDataArgv
  <1>9. Does(E, Ir(IR_CNTRL_SIG_16BIT), u5, g, u6, g)
    BY <1>q, <1>k, Ports, IrDoes DEF u5, u6
  <1>10. Does(E, Dr(\h1400), u6, g, u7, g)
    BY <1>q, <1>k, DrCntrl DEF u6, u7
  <1>11. Reached(E, S, A, u0, g, 4, 2, u7, g)
    BY <1>0, <1>k, Ports, <1>8, <1>9, <1>10, RowIrDr
  <1>12. Does(E, Ir(IR_DATA_16BIT), u7, g, u8, g)
    BY <1>q, <1>k, Ports, IrDoes DEF u7, u8
  <1>13. Edge(E, kdTclk0, u8, u8)
    BY <1>q, EdgeLow DEF u8
  <1>14. Edge(E, kdTclk1, u8, u9)
    BY <1>q, <1>k, EdgeFetch DEF u8, u9
  <1>15. Edge(E, kdTclkN, u8, u9)
    BY <1>13, <1>14, EdgePulse
  <1>16. Does(E, Dr(d), u9, g, u10, g)
    BY <1>q, <1>k, DrDin DEF u9, u10
  <1>17. Edge(E, kdTclk0, u10, u11)
    BY <1>q, <1>k, Ports, EdgeFall DEF u10, u11
  <1>18. Edge(E, kdTclk1, u11, u12)
    BY <1>q, <1>k, EdgeLoad DEF u11, u12
  <1>19. Edge(E, kdTclkN, u10, u12)
    BY <1>17, <1>18, EdgePulse
  <1>20. Reached(E, S, A, u0, g, 5, 3, u12, g)
    BY <1>0, <1>k, Ports, <1>11, <1>12, <1>15, <1>16, <1>19, RowDataArgv
  <1>21. Does(E, Dr(\h4303), u12, g, u13, g)
    BY <1>q, <1>k, DrDin DEF u12, u13
  <1>22. Reached(E, S, A, u0, g, 6, 3, u13, g)
    BY <1>0, <1>k, Ports, <1>20, <1>21, RowDr
  <1>23. Edge(E, kdTclk0, u13, u14)
    BY <1>q, <1>k, Ports, EdgeFall DEF u13, u14
  <1>24. Reached(E, S, A, u0, g, 7, 3, u14, g)
    BY <1>0, <1>k, Ports, <1>22, <1>23, RowEdge
  <1>25. Does(E, Ir(IR_ADDR_CAPTURE), u14, g, u15, g)
    BY <1>q, <1>k, Ports, IrDoes DEF u14, u15
  <1>26. Does(E, Dr(0), u15, g, u15, g)
    BY <1>q, <1>k, Ports, DrNothing DEF u15
  <1>27. Reached(E, S, A, u0, g, 8, 3, u15, g)
    BY <1>0, <1>k, Ports, <1>24, <1>25, <1>26, RowIrDr
  <1>28. Does(E, Play(S, A), u0, g, u15, g)
    BY <1>0, <1>27, ScriptEnd
  <1> QED BY <1>28 DEF S, A, u0, u15, SetPCPlay

\* MOVA #imm,Rn.
LEMMA SetRegDoes_Xv2 ==
    ASSUME NEW E, NEW g, NEW b, Calm(b), ~Legacy(b), NEW ir, NEW cntrl, NEW mab, NEW dto, NEW din,
           NEW mdb, NEW t0,
           Edge(E, kdTclk0, t0, P(b, ir, cntrl, 0, mab, dto, din, mdb, Fetch)),
           NEW o0, Edge(E, kdTclk1, P(b, IR_DATA_16BIT, cntrl, 0, mab, dto, din, mdb, Fetch),
                                P(b, IR_DATA_16BIT, cntrl, 1, mab, dto, din, o0, Fetch)),
           NEW r, NEW v, NEW w, Low(\h0080 + High(v) + r, w), NEW d, Low(v, d), NEW x,
           Fetches(b, w, x), NEW c, Loads(E, b, x, d, c)
    PROVE  Does(E, SetReg_Xv2(r, v), t0, g,
                P(c, IR_DATA_CAPTURE, \h0501, 1, mab, dto, \h3FFD, Bus(c, \h0501, mab), Fetch), g)
  <1> DEFINE S == <<kTclk0,
                    kIrData16Argv(kdTclk1, kdNone),
                    kIrDr16(IR_CNTRL_SIG_16BIT, \h1401),
                    kIrData16Argv(kdTclkN, kdTclkN),
                    kDr16(\h3FFD),
                    kPulseTclkN,
                    kTclk0,
                    kIrDr16(IR_DATA_CAPTURE, 0),
                    kTclk1,
                    kIrDr16(IR_CNTRL_SIG_16BIT, \h0501),
                    kPulseTclkN,
                    kIr(kdTclk0, IR_DATA_CAPTURE, kdTclk1)>>
             A == <<\h0080 + High(v) + r, v>>
             u0 == t0
             u1 == P(b, ir, cntrl, 0, mab, dto, din, mdb, Fetch)
             u2 == P(b, IR_DATA_16BIT, cntrl, 0, mab, dto, din, mdb, Fetch)
             u3 == P(b, IR_DATA_16BIT, cntrl, 1, mab, dto, din, o0, Fetch)
             u4 == P(b, IR_DATA_16BIT, cntrl, 1, mab, dto, w, o0, Fetch)
             u5 == P(b, IR_CNTRL_SIG_16BIT, cntrl, 1, mab, dto, w, o0, Fetch)
             u6 == P(b, IR_CNTRL_SIG_16BIT, \h1401, 1, mab, dto, w, o0, Fetch)
             u7 == P(b, IR_DATA_16BIT, \h1401, 1, mab, dto, w, o0, Fetch)
             u8 == P(b, IR_DATA_16BIT, \h1401, 0, mab, dto, w, o0, Fetch)
             u9 == P(b, IR_DATA_16BIT, \h1401, 1, mab, dto, w, o0, x)
             u10 == P(b, IR_DATA_16BIT, \h1401, 1, mab, dto, d, o0, x)
             u11 == P(b, IR_DATA_16BIT, \h1401, 0, mab, dto, d, o0, x)
             u12 == P(c, IR_DATA_16BIT, \h1401, 1, mab, dto, d, o0, Fetch)
             u13 == P(c, IR_DATA_16BIT, \h1401, 1, mab, dto, \h3FFD, o0, Fetch)
             u14 == P(c, IR_DATA_16BIT, \h1401, 0, mab, dto, \h3FFD, o0, Fetch)
             u15 == P(c, IR_DATA_CAPTURE, \h1401, 0, mab, dto, \h3FFD, o0, Fetch)
             u16 == P(c, IR_DATA_CAPTURE, \h1401, 1, mab, dto, \h3FFD, o0, Fetch)
             u17 == P(c, IR_CNTRL_SIG_16BIT, \h1401, 1, mab, dto, \h3FFD, o0, Fetch)
             u18 == P(c, IR_CNTRL_SIG_16BIT, \h0501, 1, mab, dto, \h3FFD, o0, Fetch)
             u19 == P(c, IR_CNTRL_SIG_16BIT, \h0501, 0, mab, dto, \h3FFD, o0, Fetch)
             u20 == P(c, IR_CNTRL_SIG_16BIT, \h0501, 1, mab, dto, \h3FFD, Bus(c, \h0501, mab), Fetch)
             u21 == P(c, IR_CNTRL_SIG_16BIT, \h0501, 0, mab, dto, \h3FFD, Bus(c, \h0501, mab), Fetch)
             u22 == P(c, IR_DATA_CAPTURE, \h0501, 0, mab, dto, \h3FFD, Bus(c, \h0501, mab), Fetch)
             u23 == P(c, IR_DATA_CAPTURE, \h0501, 1, mab, dto, \h3FFD, Bus(c, \h0501, mab), Fetch)
  <1>l. Len(S) = 12
        /\ S[1] = kTclk0 /\ S[2] = kIrData16Argv(kdTclk1, kdNone) /\ S[3] = kIrDr16(IR_CNTRL_SIG_16BIT, \h1401)
        /\ S[4] = kIrData16Argv(kdTclkN, kdTclkN) /\ S[5] = kDr16(\h3FFD) /\ S[6] = kPulseTclkN
        /\ S[7] = kTclk0 /\ S[8] = kIrDr16(IR_DATA_CAPTURE, 0) /\ S[9] = kTclk1
        /\ S[10] = kIrDr16(IR_CNTRL_SIG_16BIT, \h0501) /\ S[11] = kPulseTclkN /\ S[12] = kIr(kdTclk0, IR_DATA_CAPTURE, kdTclk1)
    OBVIOUS
  <1>a. A[1] = \h0080 + High(v) + r /\ A[2] = v
    OBVIOUS
  <1> HIDE DEF S, A
  <1>0. /\ At(S, 1, 2, kTclk0) /\ At(S, 2, 3, kIrData16Argv(kdTclk1, kdNone))
        /\ At(S, 3, 4, kIrDr16(IR_CNTRL_SIG_16BIT, \h1401)) /\ At(S, 4, 5, kIrData16Argv(kdTclkN, kdTclkN))
        /\ At(S, 5, 6, kDr16(\h3FFD)) /\ At(S, 6, 7, kPulseTclkN)
        /\ At(S, 7, 8, kTclk0) /\ At(S, 8, 9, kIrDr16(IR_DATA_CAPTURE, 0))
        /\ At(S, 9, 10, kTclk1) /\ At(S, 10, 11, kIrDr16(IR_CNTRL_SIG_16BIT, \h0501))
        /\ At(S, 11, 12, kPulseTclkN) /\ At(S, 12, 13, kIr(kdTclk0, IR_DATA_CAPTURE, kdTclk1))
        /\ Ends(S, 13) /\ Given(A, 1, 2, \h0080 + High(v) + r)
        /\ Given(A, 2, 3, v)
    BY <1>l, <1>a DEF At, Given, Ends
  <1>q. /\ Sound(b) /\ Quiet(b) /\ Calm(b) /\ ~Legacy(b)
        /\ Sound(c) /\ Quiet(c) /\ Calm(c) /\ ~Legacy(c)
    BY DEF Calm, Quiet, Loads, Low
  <1>v. d \in Values16 /\ w \in Values16
    BY ControlWords DEF Low
  <1>k. /\ d \in Values16 /\ w \in Values16 /\ 0 \in Values16 /\ \h0501 \in Values16 /\ \h1401 \in Values16 /\ \h3FFD \in Values16 /\ Reads(b, \h0501) /\ ~Writes(b, \h0501)
        /\ Reads(c, \h0501) /\ ~Writes(c, \h0501) /\ Executes(\h1401) /\ ~Writes(b, \h1401) /\ Executes(\h1401) /\ ~Writes(c, \h1401)
    BY <1>q, ControlWords, ExecutesOnly, <1>v DEF Values16
  <1> HIDE DEF u0, u1, u2, u3, u4, u5, u6, u7, u8, u9, u10, u11, u12, u13, u14, u15, u16, u17, u18, u19, u20, u21, u22, u23
  <1>1. Reached(E, S, A, u0, g, 1, 1, u0, g)
    BY RowBegin
  <1>2. Edge(E, kdTclk0, u0, u1)
    BY DEF u0, u1
  <1>3. Reached(E, S, A, u0, g, 2, 1, u1, g)
    BY <1>0, <1>k, Ports, <1>1, <1>2, RowEdge
  <1>4. Does(E, Ir(IR_DATA_16BIT), u1, g, u2, g)
    BY <1>q, <1>k, Ports, IrDoes DEF u1, u2
  <1>5. Edge(E, kdTclk1, u2, u3)
    BY DEF u2, u3
  <1>6. Does(E, Dr(w), u3, g, u4, g)
    BY <1>q, <1>k, DrDin DEF u3, u4
  <1>7. Edge(E, kdNone, u4, u4)
    BY EdgeNone
  <1>8. Reached(E, S, A, u0, g, 3, 2, u4, g)
    BY <1>0, <1>k, Ports, <1>3, <1>4, <1>5, <1>6, <1>7, RowDataArgv
  <1>9. Does(E, Ir(IR_CNTRL_SIG_16BIT), u4, g, u5, g)
    BY <1>q, <1>k, Ports, IrDoes DEF u4, u5
  <1>10. Does(E, Dr(\h1401), u5, g, u6, g)
    BY <1>q, <1>k, DrCntrl DEF u5, u6
  <1>11. Reached(E, S, A, u0, g, 4, 2, u6, g)
    BY <1>0, <1>k, Ports, <1>8, <1>9, <1>10, RowIrDr
  <1>12. Does(E, Ir(IR_DATA_16BIT), u6, g, u7, g)
    BY <1>q, <1>k, Ports, IrDoes DEF u6, u7
  <1>13. Edge(E, kdTclk0, u7, u8)
    BY <1>q, <1>k, Ports, EdgeFall DEF u7, u8
  <1>14. Edge(E, kdTclk1, u8, u9)
    BY <1>q, <1>k, EdgeFetch DEF u8, u9
  <1>15. Edge(E, kdTclkN, u7, u9)
    BY <1>13, <1>14, EdgePulse
  <1>16. Does(E, Dr(d), u9, g, u10, g)
    BY <1>q, <1>k, DrDin DEF u9, u10
  <1>17. Edge(E, kdTclk0, u10, u11)
    BY <1>q, <1>k, Ports, EdgeFall DEF u10, u11
  <1>18. Edge(E, kdTclk1, u11, u12)
    BY <1>q, <1>k, EdgeLoad DEF u11, u12
  <1>19. Edge(E, kdTclkN, u10, u12)
    BY <1>17, <1>18, EdgePulse
  <1>20. Reached(E, S, A, u0, g, 5, 3, u12, g)
    BY <1>0, <1>k, Ports, <1>11, <1>12, <1>15, <1>16, <1>19, RowDataArgv
  <1>21. Does(E, Dr(\h3FFD), u12, g, u13, g)
    BY <1>q, <1>k, DrDin DEF u12, u13
  <1>22. Reached(E, S, A, u0, g, 6, 3, u13, g)
    BY <1>0, <1>k, Ports, <1>20, <1>21, RowDr
  <1>23. Edge(E, kdTclk0, u13, u14)
    BY <1>q, <1>k, Ports, EdgeFall DEF u13, u14
  <1>24. Edge(E, kdTclk1, u14, u13)
    BY <1>q, <1>k, Nops, EdgeFetch DEF u14, u13
  <1>25. Edge(E, kdTclkN, u13, u13)
    BY <1>23, <1>24, EdgePulse
  <1>26. Reached(E, S, A, u0, g, 7, 3, u13, g)
    BY <1>0, <1>k, Ports, <1>22, <1>25, RowEdge
  <1>27. Edge(E, kdTclk0, u13, u14)
    BY <1>q, <1>k, Ports, EdgeFall DEF u13, u14
  <1>28. Reached(E, S, A, u0, g, 8, 3, u14, g)
    BY <1>0, <1>k, Ports, <1>26, <1>27, RowEdge
  <1>29. Does(E, Ir(IR_DATA_CAPTURE), u14, g, u15, g)
    BY <1>q, <1>k, Ports, IrDoes DEF u14, u15
  <1>30. Does(E, Dr(0), u15, g, u15, g)
    BY <1>q, <1>k, Ports, DrNothing DEF u15
  <1>31. Reached(E, S, A, u0, g, 9, 3, u15, g)
    BY <1>0, <1>k, Ports, <1>28, <1>29, <1>30, RowIrDr
  <1>32. Edge(E, kdTclk1, u15, u16)
    BY <1>q, <1>k, Nops, EdgeFetch DEF u15, u16
  <1>33. Reached(E, S, A, u0, g, 10, 3, u16, g)
    BY <1>0, <1>k, Ports, <1>31, <1>32, RowEdge
  <1>34. Does(E, Ir(IR_CNTRL_SIG_16BIT), u16, g, u17, g)
    BY <1>q, <1>k, Ports, IrDoes DEF u16, u17
  <1>35. Does(E, Dr(\h0501), u17, g, u18, g)
    BY <1>q, <1>k, DrCntrl DEF u17, u18
  <1>36. Reached(E, S, A, u0, g, 11, 3, u18, g)
    BY <1>0, <1>k, Ports, <1>33, <1>34, <1>35, RowIrDr
  <1>37. Edge(E, kdTclk0, u18, u19)
    BY <1>q, <1>k, Ports, EdgeFall DEF u18, u19
  <1>38. Edge(E, kdTclk1, u19, u20)
    BY <1>q, <1>k, Ports, EdgeRead DEF u19, u20
  <1>39. Edge(E, kdTclkN, u18, u20)
    BY <1>37, <1>38, EdgePulse
  <1>40. Reached(E, S, A, u0, g, 12, 3, u20, g)
    BY <1>0, <1>k, Ports, <1>36, <1>39, RowEdge
  <1>41. Edge(E, kdTclk0, u20, u21)
    BY <1>q, <1>k, Ports, EdgeFall DEF u20, u21
  <1>42. Does(E, Ir(IR_DATA_CAPTURE), u21, g, u22, g)
    BY <1>q, <1>k, Ports, IrDoes DEF u21, u22
  <1>43. Edge(E, kdTclk1, u22, u23)
    BY <1>q, <1>k, Ports, EdgeRead DEF u22, u23
  <1>44. Reached(E, S, A, u0, g, 13, 3, u23, g)
    BY <1>0, <1>k, Ports, <1>40, <1>41, <1>42, <1>43, RowIr
  <1>45. Does(E, Play(S, A), u0, g, u23, g)
    BY <1>0, <1>44, ScriptEnd
  <1> QED BY <1>45 DEF S, A, u0, u23, SetReg_Xv2, kIrDr20

\* MOVA Rn,&mailbox: the bus shows the register in two words.
LEMMA GetRegAtDoes ==
    ASSUME NEW E, NEW g, NEW b, Calm(b), ~Legacy(b), NEW ir, NEW cntrl, NEW mab, NEW dto, NEW din,
           NEW mdb, NEW t0,
           Edge(E, kdTclk0, t0, P(b, ir, cntrl, 0, mab, dto, din, mdb, Fetch)),
           NEW o0, Edge(E, kdTclk1, P(b, IR_DATA_16BIT, cntrl, 0, mab, dto, din, mdb, Fetch),
                                P(b, IR_DATA_16BIT, cntrl, 1, mab, dto, din, o0, Fetch)),
           NEW r, NEW w, Low(r * 256 + \h60, w), NEW z, Fetches(b, w, z), NEW c, NEW x1, NEW x2,
           NEW o1, NEW o2,
           NEW j, NEW d, Low(j, d), Stores(E, b, z, d, o0, c, o0, x1), Displays(x1, o1, x2),
           Displays(x2, o2, Fetch)
    PROVE  Does(E, GetRegAt(r, j), t0, g,
                P(c, IR_DATA_CAPTURE, \h0501, 1, mab, dto, \h3FFD, Bus(c, \h0501, mab), Fetch), Got(Got(g, "rx_l", o1), "rx_h", o2))
  <1> DEFINE S == <<kTclk0,
                    kIrData16Argv(kdTclk1, kdNone),
                    kIrDr16(IR_CNTRL_SIG_16BIT, \h1401),
                    kIrData16Argv(kdTclkN, kdTclkN),
                    kDr16(\h3FFD),
                    kIr(kdTclk0, IR_DATA_CAPTURE, kdTclk1),
                    kDr16_ret(0),
                    kPulseTclkN,
                    kDr16_ret(0),
                    kPulseTclkN,
                    kPulseTclkN,
                    kPulseTclkN,
                    kIrDr16(IR_CNTRL_SIG_16BIT, \h0501),
                    kIr(kdTclk0, IR_DATA_CAPTURE, kdTclk1)>>
             A == <<r * 256 + \h60, j, "rx_l", "rx_h">>
             u0 == t0
             u1 == P(b, ir, cntrl, 0, mab, dto, din, mdb, Fetch)
             u2 == P(b, IR_DATA_16BIT, cntrl, 0, mab, dto, din, mdb, Fetch)
             u3 == P(b, IR_DATA_16BIT, cntrl, 1, mab, dto, din, o0, Fetch)
             u4 == P(b, IR_DATA_16BIT, cntrl, 1, mab, dto, w, o0, Fetch)
             u5 == P(b, IR_CNTRL_SIG_16BIT, cntrl, 1, mab, dto, w, o0, Fetch)
             u6 == P(b, IR_CNTRL_SIG_16BIT, \h1401, 1, mab, dto, w, o0, Fetch)
             u7 == P(b, IR_DATA_16BIT, \h1401, 1, mab, dto, w, o0, Fetch)
             u8 == P(b, IR_DATA_16BIT, \h1401, 0, mab, dto, w, o0, Fetch)
             u9 == P(b, IR_DATA_16BIT, \h1401, 1, mab, dto, w, o0, z)
             u10 == P(b, IR_DATA_16BIT, \h1401, 1, mab, dto, d, o0, z)
             u11 == P(b, IR_DATA_16BIT, \h1401, 0, mab, dto, d, o0, z)
             u12 == P(c, IR_DATA_16BIT, \h1401, 1, mab, dto, d, o0, x1)
             u13 == P(c, IR_DATA_16BIT, \h1401, 1, mab, dto, \h3FFD, o0, x1)
             u14 == P(c, IR_DATA_16BIT, \h1401, 0, mab, dto, \h3FFD, o0, x1)
             u15 == P(c, IR_DATA_CAPTURE, \h1401, 0, mab, dto, \h3FFD, o0, x1)
             u16 == P(c, IR_DATA_CAPTURE, \h1401, 1, mab, dto, \h3FFD, o1, x2)
             u17 == P(c, IR_DATA_CAPTURE, \h1401, 0, mab, dto, \h3FFD, o1, x2)
             u18 == P(c, IR_DATA_CAPTURE, \h1401, 1, mab, dto, \h3FFD, o2, Fetch)
             u19 == P(c, IR_DATA_CAPTURE, \h1401, 0, mab, dto, \h3FFD, o2, Fetch)
             u20 == P(c, IR_CNTRL_SIG_16BIT, \h1401, 1, mab, dto, \h3FFD, o2, Fetch)
             u21 == P(c, IR_CNTRL_SIG_16BIT, \h0501, 1, mab, dto, \h3FFD, o2, Fetch)
             u22 == P(c, IR_CNTRL_SIG_16BIT, \h0501, 0, mab, dto, \h3FFD, o2, Fetch)
             u23 == P(c, IR_DATA_CAPTURE, \h0501, 0, mab, dto, \h3FFD, o2, Fetch)
             u24 == P(c, IR_DATA_CAPTURE, \h0501, 1, mab, dto, \h3FFD, Bus(c, \h0501, mab), Fetch)
             h1 == Got(g, "rx_l", o1)
             h2 == Got(h1, "rx_h", o2)
  <1>l. Len(S) = 14
        /\ S[1] = kTclk0 /\ S[2] = kIrData16Argv(kdTclk1, kdNone) /\ S[3] = kIrDr16(IR_CNTRL_SIG_16BIT, \h1401)
        /\ S[4] = kIrData16Argv(kdTclkN, kdTclkN) /\ S[5] = kDr16(\h3FFD) /\ S[6] = kIr(kdTclk0, IR_DATA_CAPTURE, kdTclk1)
        /\ S[7] = kDr16_ret(0) /\ S[8] = kPulseTclkN /\ S[9] = kDr16_ret(0)
        /\ S[10] = kPulseTclkN /\ S[11] = kPulseTclkN /\ S[12] = kPulseTclkN
        /\ S[13] = kIrDr16(IR_CNTRL_SIG_16BIT, \h0501) /\ S[14] = kIr(kdTclk0, IR_DATA_CAPTURE, kdTclk1)
    OBVIOUS
  <1>a. A[1] = r * 256 + \h60 /\ A[2] = j /\ A[3] = "rx_l" /\ A[4] = "rx_h"
    OBVIOUS
  <1> HIDE DEF S, A
  <1>0. /\ At(S, 1, 2, kTclk0) /\ At(S, 2, 3, kIrData16Argv(kdTclk1, kdNone))
        /\ At(S, 3, 4, kIrDr16(IR_CNTRL_SIG_16BIT, \h1401)) /\ At(S, 4, 5, kIrData16Argv(kdTclkN, kdTclkN))
        /\ At(S, 5, 6, kDr16(\h3FFD)) /\ At(S, 6, 7, kIr(kdTclk0, IR_DATA_CAPTURE, kdTclk1))
        /\ At(S, 7, 8, kDr16_ret(0)) /\ At(S, 8, 9, kPulseTclkN)
        /\ At(S, 9, 10, kDr16_ret(0)) /\ At(S, 10, 11, kPulseTclkN)
        /\ At(S, 11, 12, kPulseTclkN) /\ At(S, 12, 13, kPulseTclkN)
        /\ At(S, 13, 14, kIrDr16(IR_CNTRL_SIG_16BIT, \h0501)) /\ At(S, 14, 15, kIr(kdTclk0, IR_DATA_CAPTURE, kdTclk1))
        /\ Ends(S, 15) /\ Given(A, 1, 2, r * 256 + \h60)
        /\ Given(A, 2, 3, j) /\ Given(A, 3, 4, "rx_l")
        /\ Given(A, 4, 5, "rx_h")
    BY <1>l, <1>a DEF At, Given, Ends
  <1>q. /\ Sound(b) /\ Quiet(b) /\ Calm(b) /\ ~Legacy(b)
        /\ Sound(c) /\ Quiet(c) /\ Calm(c) /\ ~Legacy(c)
    BY DEF Calm, Quiet, Stores, Low, Displays
  <1>v. d \in Values16 /\ w \in Values16
    BY ControlWords DEF Low
  <1>k. /\ d \in Values16 /\ w \in Values16 /\ \h0501 \in Values16 /\ \h1401 \in Values16 /\ \h3FFD \in Values16 /\ Reads(b, \h0501) /\ ~Writes(b, \h0501)
        /\ Reads(c, \h0501) /\ ~Writes(c, \h0501) /\ Executes(\h1401) /\ ~Writes(b, \h1401) /\ Executes(\h1401) /\ ~Writes(c, \h1401)
    BY <1>q, ControlWords, ExecutesOnly, <1>v DEF Values16
  <1> HIDE DEF u0, u1, u2, u3, u4, u5, u6, u7, u8, u9, u10, u11, u12, u13, u14, u15, u16, u17, u18, u19, u20, u21, u22, u23, u24, h1, h2
  <1>1. Reached(E, S, A, u0, g, 1, 1, u0, g)
    BY RowBegin
  <1>2. Edge(E, kdTclk0, u0, u1)
    BY DEF u0, u1
  <1>3. Reached(E, S, A, u0, g, 2, 1, u1, g)
    BY <1>0, <1>k, Ports, <1>1, <1>2, RowEdge
  <1>4. Does(E, Ir(IR_DATA_16BIT), u1, g, u2, g)
    BY <1>q, <1>k, Ports, IrDoes DEF u1, u2
  <1>5. Edge(E, kdTclk1, u2, u3)
    BY DEF u2, u3
  <1>6. Does(E, Dr(w), u3, g, u4, g)
    BY <1>q, <1>k, DrDin DEF u3, u4
  <1>7. Edge(E, kdNone, u4, u4)
    BY EdgeNone
  <1>8. Reached(E, S, A, u0, g, 3, 2, u4, g)
    BY <1>0, <1>k, Ports, <1>3, <1>4, <1>5, <1>6, <1>7, RowDataArgv
  <1>9. Does(E, Ir(IR_CNTRL_SIG_16BIT), u4, g, u5, g)
    BY <1>q, <1>k, Ports, IrDoes DEF u4, u5
  <1>10. Does(E, Dr(\h1401), u5, g, u6, g)
    BY <1>q, <1>k, DrCntrl DEF u5, u6
  <1>11. Reached(E, S, A, u0, g, 4, 2, u6, g)
    BY <1>0, <1>k, Ports, <1>8, <1>9, <1>10, RowIrDr
  <1>12. Does(E, Ir(IR_DATA_16BIT), u6, g, u7, g)
    BY <1>q, <1>k, Ports, IrDoes DEF u6, u7
  <1>13. Edge(E, kdTclk0, u7, u8)
    BY <1>q, <1>k, Ports, EdgeFall DEF u7, u8
  <1>14. Edge(E, kdTclk1, u8, u9)
    BY <1>q, <1>k, EdgeFetch DEF u8, u9
  <1>15. Edge(E, kdTclkN, u7, u9)
    BY <1>13, <1>14, EdgePulse
  <1>16. Does(E, Dr(d), u9, g, u10, g)
    BY <1>q, <1>k, DrDin DEF u9, u10
  <1>17. Edge(E, kdTclk0, u10, u11)
    BY <1>q, <1>k, Ports, EdgeFall DEF u10, u11
  <1>18. Edge(E, kdTclk1, u11, u12)
    BY <1>q, <1>k, EdgeStore DEF u11, u12
  <1>19. Edge(E, kdTclkN, u10, u12)
    BY <1>17, <1>18, EdgePulse
  <1>20. Reached(E, S, A, u0, g, 5, 3, u12, g)
    BY <1>0, <1>k, Ports, <1>11, <1>12, <1>15, <1>16, <1>19, RowDataArgv
  <1>21. Does(E, Dr(\h3FFD), u12, g, u13, g)
    BY <1>q, <1>k, DrDin DEF u12, u13
  <1>22. Reached(E, S, A, u0, g, 6, 3, u13, g)
    BY <1>0, <1>k, Ports, <1>20, <1>21, RowDr
  <1>23. Edge(E, kdTclk0, u13, u14)
    BY <1>q, <1>k, Ports, EdgeFall DEF u13, u14
  <1>24. Does(E, Ir(IR_DATA_CAPTURE), u14, g, u15, g)
    BY <1>q, <1>k, Ports, IrDoes DEF u14, u15
  <1>25. Edge(E, kdTclk1, u15, u16)
    BY <1>q, <1>k, EdgeShow DEF u15, u16
  <1>26. Reached(E, S, A, u0, g, 7, 3, u16, g)
    BY <1>0, <1>k, Ports, <1>22, <1>23, <1>24, <1>25, RowIr
  <1>27. Does(E, DrTo(0, "rx_l"), u16, g, u16, h1)
    BY <1>q, <1>k, Ports, PlainAre, DrShown DEF u16, h1
  <1>28. Reached(E, S, A, u0, g, 8, 4, u16, h1)
    BY <1>0, <1>k, Ports, <1>26, <1>27, RowDrTo
  <1>29. Edge(E, kdTclk0, u16, u17)
    BY <1>q, <1>k, Ports, EdgeFall DEF u16, u17
  <1>30. Edge(E, kdTclk1, u17, u18)
    BY <1>q, <1>k, EdgeShow DEF u17, u18
  <1>31. Edge(E, kdTclkN, u16, u18)
    BY <1>29, <1>30, EdgePulse
  <1>32. Reached(E, S, A, u0, g, 9, 4, u18, h1)
    BY <1>0, <1>k, Ports, <1>28, <1>31, RowEdge
  <1>33. Does(E, DrTo(0, "rx_h"), u18, h1, u18, h2)
    BY <1>q, <1>k, Ports, PlainAre, DrShown DEF u18, h2
  <1>34. Reached(E, S, A, u0, g, 10, 5, u18, h2)
    BY <1>0, <1>k, Ports, <1>32, <1>33, RowDrTo
  <1>35. Edge(E, kdTclk0, u18, u19)
    BY <1>q, <1>k, Ports, EdgeFall DEF u18, u19
  <1>36. Edge(E, kdTclk1, u19, u18)
    BY <1>q, <1>k, Nops, EdgeFetch DEF u19, u18
  <1>37. Edge(E, kdTclkN, u18, u18)
    BY <1>35, <1>36, EdgePulse
  <1>38. Reached(E, S, A, u0, g, 11, 5, u18, h2)
    BY <1>0, <1>k, Ports, <1>34, <1>37, RowEdge
  <1>39. Edge(E, kdTclk0, u18, u19)
    BY <1>q, <1>k, Ports, EdgeFall DEF u18, u19
  <1>40. Edge(E, kdTclk1, u19, u18)
    BY <1>q, <1>k, Nops, EdgeFetch DEF u19, u18
  <1>41. Edge(E, kdTclkN, u18, u18)
    BY <1>39, <1>40, EdgePulse
  <1>42. Reached(E, S, A, u0, g, 12, 5, u18, h2)
    BY <1>0, <1>k, Ports, <1>38, <1>41, RowEdge
  <1>43. Edge(E, kdTclk0, u18, u19)
    BY <1>q, <1>k, Ports, EdgeFall DEF u18, u19
  <1>44. Edge(E, kdTclk1, u19, u18)
    BY <1>q, <1>k, Nops, EdgeFetch DEF u19, u18
  <1>45. Edge(E, kdTclkN, u18, u18)
    BY <1>43, <1>44, EdgePulse
  <1>46. Reached(E, S, A, u0, g, 13, 5, u18, h2)
    BY <1>0, <1>k, Ports, <1>42, <1>45, RowEdge
  <1>47. Does(E, Ir(IR_CNTRL_SIG_16BIT), u18, h2, u20, h2)
    BY <1>q, <1>k, Ports, IrDoes DEF u18, u20
  <1>48. Does(E, Dr(\h0501), u20, h2, u21, h2)
    BY <1>q, <1>k, DrCntrl DEF u20, u21
  <1>49. Reached(E, S, A, u0, g, 14, 5, u21, h2)
    BY <1>0, <1>k, Ports, <1>46, <1>47, <1>48, RowIrDr
  <1>50. Edge(E, kdTclk0, u21, u22)
    BY <1>q, <1>k, Ports, EdgeFall DEF u21, u22
  <1>51. Does(E, Ir(IR_DATA_CAPTURE), u22, h2, u23, h2)
    BY <1>q, <1>k, Ports, IrDoes DEF u22, u23
  <1>52. Edge(E, kdTclk1, u23, u24)
    BY <1>q, <1>k, Ports, EdgeRead DEF u23, u24
  <1>53. Reached(E, S, A, u0, g, 15, 5, u24, h2)
    BY <1>0, <1>k, Ports, <1>49, <1>50, <1>51, <1>52, RowIr
  <1>54. Does(E, Play(S, A), u0, g, u24, h2)
    BY <1>0, <1>53, ScriptEnd
  <1> QED BY <1>54 DEF S, A, u0, u24, h1, h2, GetRegAt

GetRegPlay_1377(reg) ==
    Play(<<kTclk0, kIrData16Argv(kdTclk1, kdNone),
         kIrDr16(IR_CNTRL_SIG_16BIT, \h1401), kIrData16Argv(kdTclkN, kdTclkN),
         kDr16(\h3FFD), kTclk0, kIrDr16(IR_CNTRL_SIG_16BIT, \h0501),
         kIr(kdNone, IR_DATA_CAPTURE, kdNone), kTclk1, kDr16_ret(0), kPulseTclkN,
         kDr16_ret(0), kPulseTclkN, kPulseTclkN, kPulseTclkN, kTclk0,
         kIr(kdNone, IR_DATA_CAPTURE, kdNone), kTclk1>>,
         <<reg * 256 + \h60, \h0FF6, "rx_l", "rx_h">>)

\* The same, with JTAG taking the bus before the edges that show the register.
LEMMA GetRegRows_1377 ==
    ASSUME NEW E, NEW g, NEW b, Calm(b), ~Legacy(b), NEW ir, NEW cntrl, NEW mab, NEW dto, NEW din,
           NEW mdb, NEW t0,
           Edge(E, kdTclk0, t0, P(b, ir, cntrl, 0, mab, dto, din, mdb, Fetch)),
           NEW o0, Edge(E, kdTclk1, P(b, IR_DATA_16BIT, cntrl, 0, mab, dto, din, mdb, Fetch),
                                P(b, IR_DATA_16BIT, cntrl, 1, mab, dto, din, o0, Fetch)),
           NEW r, NEW w, Low(r * 256 + \h60, w), NEW z, Fetches(b, w, z), NEW c, NEW x1, NEW x2,
           NEW o1, NEW o2,
           NEW d, Low(\h0FF6, d), Stores(E, b, z, d, o0, c, o0, x1), Displays(x1, o1, x2),
           Displays(x2, o2, Fetch)
    PROVE  Does(E, GetRegPlay_1377(r), t0, g,
                P(c, IR_DATA_CAPTURE, \h0501, 1, mab, dto, \h3FFD, Bus(c, \h0501, mab), Fetch), Got(Got(g, "rx_l", o1), "rx_h", o2))
  <1> DEFINE S == <<kTclk0,
                    kIrData16Argv(kdTclk1, kdNone),
                    kIrDr16(IR_CNTRL_SIG_16BIT, \h1401),
                    kIrData16Argv(kdTclkN, kdTclkN),
                    kDr16(\h3FFD),
                    kTclk0,
                    kIrDr16(IR_CNTRL_SIG_16BIT, \h0501),
                    kIr(kdNone, IR_DATA_CAPTURE, kdNone),
                    kTclk1,
                    kDr16_ret(0),
                    kPulseTclkN,
                    kDr16_ret(0),
                    kPulseTclkN,
                    kPulseTclkN,
                    kPulseTclkN,
                    kTclk0,
                    kIr(kdNone, IR_DATA_CAPTURE, kdNone),
                    kTclk1>>
             A == <<r * 256 + \h60, \h0FF6, "rx_l", "rx_h">>
             u0 == t0
             u1 == P(b, ir, cntrl, 0, mab, dto, din, mdb, Fetch)
             u2 == P(b, IR_DATA_16BIT, cntrl, 0, mab, dto, din, mdb, Fetch)
             u3 == P(b, IR_DATA_16BIT, cntrl, 1, mab, dto, din, o0, Fetch)
             u4 == P(b, IR_DATA_16BIT, cntrl, 1, mab, dto, w, o0, Fetch)
             u5 == P(b, IR_CNTRL_SIG_16BIT, cntrl, 1, mab, dto, w, o0, Fetch)
             u6 == P(b, IR_CNTRL_SIG_16BIT, \h1401, 1, mab, dto, w, o0, Fetch)
             u7 == P(b, IR_DATA_16BIT, \h1401, 1, mab, dto, w, o0, Fetch)
             u8 == P(b, IR_DATA_16BIT, \h1401, 0, mab, dto, w, o0, Fetch)
             u9 == P(b, IR_DATA_16BIT, \h1401, 1, mab, dto, w, o0, z)
             u10 == P(b, IR_DATA_16BIT, \h1401, 1, mab, dto, d, o0, z)
             u11 == P(b, IR_DATA_16BIT, \h1401, 0, mab, dto, d, o0, z)
             u12 == P(c, IR_DATA_16BIT, \h1401, 1, mab, dto, d, o0, x1)
             u13 == P(c, IR_DATA_16BIT, \h1401, 1, mab, dto, \h3FFD, o0, x1)
             u14 == P(c, IR_DATA_16BIT, \h1401, 0, mab, dto, \h3FFD, o0, x1)
             u15 == P(c, IR_CNTRL_SIG_16BIT, \h1401, 0, mab, dto, \h3FFD, o0, x1)
             u16 == P(c, IR_CNTRL_SIG_16BIT, \h0501, 0, mab, dto, \h3FFD, o0, x1)
             u17 == P(c, IR_DATA_CAPTURE, \h0501, 0, mab, dto, \h3FFD, o0, x1)
             u18 == P(c, IR_DATA_CAPTURE, \h0501, 1, mab, dto, \h3FFD, o1, x2)
             u19 == P(c, IR_DATA_CAPTURE, \h0501, 0, mab, dto, \h3FFD, o1, x2)
             u20 == P(c, IR_DATA_CAPTURE, \h0501, 1, mab, dto, \h3FFD, o2, Fetch)
             u21 == P(c, IR_DATA_CAPTURE, \h0501, 0, mab, dto, \h3FFD, o2, Fetch)
             u22 == P(c, IR_DATA_CAPTURE, \h0501, 1, mab, dto, \h3FFD, Bus(c, \h0501, mab), Fetch)
             u23 == P(c, IR_DATA_CAPTURE, \h0501, 0, mab, dto, \h3FFD, Bus(c, \h0501, mab), Fetch)
             h1 == Got(g, "rx_l", o1)
             h2 == Got(h1, "rx_h", o2)
  <1>l. Len(S) = 18
        /\ S[1] = kTclk0 /\ S[2] = kIrData16Argv(kdTclk1, kdNone) /\ S[3] = kIrDr16(IR_CNTRL_SIG_16BIT, \h1401)
        /\ S[4] = kIrData16Argv(kdTclkN, kdTclkN) /\ S[5] = kDr16(\h3FFD) /\ S[6] = kTclk0
        /\ S[7] = kIrDr16(IR_CNTRL_SIG_16BIT, \h0501) /\ S[8] = kIr(kdNone, IR_DATA_CAPTURE, kdNone) /\ S[9] = kTclk1
        /\ S[10] = kDr16_ret(0) /\ S[11] = kPulseTclkN /\ S[12] = kDr16_ret(0)
        /\ S[13] = kPulseTclkN /\ S[14] = kPulseTclkN /\ S[15] = kPulseTclkN
        /\ S[16] = kTclk0 /\ S[17] = kIr(kdNone, IR_DATA_CAPTURE, kdNone) /\ S[18] = kTclk1
    OBVIOUS
  <1>a. A[1] = r * 256 + \h60 /\ A[2] = \h0FF6 /\ A[3] = "rx_l" /\ A[4] = "rx_h"
    OBVIOUS
  <1> HIDE DEF S, A
  <1>0. /\ At(S, 1, 2, kTclk0) /\ At(S, 2, 3, kIrData16Argv(kdTclk1, kdNone))
        /\ At(S, 3, 4, kIrDr16(IR_CNTRL_SIG_16BIT, \h1401)) /\ At(S, 4, 5, kIrData16Argv(kdTclkN, kdTclkN))
        /\ At(S, 5, 6, kDr16(\h3FFD)) /\ At(S, 6, 7, kTclk0)
        /\ At(S, 7, 8, kIrDr16(IR_CNTRL_SIG_16BIT, \h0501)) /\ At(S, 8, 9, kIr(kdNone, IR_DATA_CAPTURE, kdNone))
        /\ At(S, 9, 10, kTclk1) /\ At(S, 10, 11, kDr16_ret(0))
        /\ At(S, 11, 12, kPulseTclkN) /\ At(S, 12, 13, kDr16_ret(0))
        /\ At(S, 13, 14, kPulseTclkN) /\ At(S, 14, 15, kPulseTclkN)
        /\ At(S, 15, 16, kPulseTclkN) /\ At(S, 16, 17, kTclk0)
        /\ At(S, 17, 18, kIr(kdNone, IR_DATA_CAPTURE, kdNone)) /\ At(S, 18, 19, kTclk1)
        /\ Ends(S, 19) /\ Given(A, 1, 2, r * 256 + \h60)
        /\ Given(A, 2, 3, \h0FF6) /\ Given(A, 3, 4, "rx_l")
        /\ Given(A, 4, 5, "rx_h")
    BY <1>l, <1>a DEF At, Given, Ends
  <1>q. /\ Sound(b) /\ Quiet(b) /\ Calm(b) /\ ~Legacy(b)
        /\ Sound(c) /\ Quiet(c) /\ Calm(c) /\ ~Legacy(c)
    BY DEF Calm, Quiet, Stores, Low, Displays
  <1>v. d \in Values16 /\ w \in Values16
    BY ControlWords DEF Low
  <1>k. /\ d \in Values16 /\ w \in Values16 /\ \h0501 \in Values16 /\ \h1401 \in Values16 /\ \h3FFD \in Values16 /\ Reads(b, \h0501) /\ ~Writes(b, \h0501)
        /\ Reads(c, \h0501) /\ ~Writes(c, \h0501) /\ Executes(\h1401) /\ ~Writes(b, \h1401) /\ Executes(\h1401) /\ ~Writes(c, \h1401)
    BY <1>q, ControlWords, ExecutesOnly, <1>v DEF Values16
  <1> HIDE DEF u0, u1, u2, u3, u4, u5, u6, u7, u8, u9, u10, u11, u12, u13, u14, u15, u16, u17, u18, u19, u20, u21, u22, u23, h1, h2
  <1>1. Reached(E, S, A, u0, g, 1, 1, u0, g)
    BY RowBegin
  <1>2. Edge(E, kdTclk0, u0, u1)
    BY DEF u0, u1
  <1>3. Reached(E, S, A, u0, g, 2, 1, u1, g)
    BY <1>0, <1>k, Ports, <1>1, <1>2, RowEdge
  <1>4. Does(E, Ir(IR_DATA_16BIT), u1, g, u2, g)
    BY <1>q, <1>k, Ports, IrDoes DEF u1, u2
  <1>5. Edge(E, kdTclk1, u2, u3)
    BY DEF u2, u3
  <1>6. Does(E, Dr(w), u3, g, u4, g)
    BY <1>q, <1>k, DrDin DEF u3, u4
  <1>7. Edge(E, kdNone, u4, u4)
    BY EdgeNone
  <1>8. Reached(E, S, A, u0, g, 3, 2, u4, g)
    BY <1>0, <1>k, Ports, <1>3, <1>4, <1>5, <1>6, <1>7, RowDataArgv
  <1>9. Does(E, Ir(IR_CNTRL_SIG_16BIT), u4, g, u5, g)
    BY <1>q, <1>k, Ports, IrDoes DEF u4, u5
  <1>10. Does(E, Dr(\h1401), u5, g, u6, g)
    BY <1>q, <1>k, DrCntrl DEF u5, u6
  <1>11. Reached(E, S, A, u0, g, 4, 2, u6, g)
    BY <1>0, <1>k, Ports, <1>8, <1>9, <1>10, RowIrDr
  <1>12. Does(E, Ir(IR_DATA_16BIT), u6, g, u7, g)
    BY <1>q, <1>k, Ports, IrDoes DEF u6, u7
  <1>13. Edge(E, kdTclk0, u7, u8)
    BY <1>q, <1>k, Ports, EdgeFall DEF u7, u8
  <1>14. Edge(E, kdTclk1, u8, u9)
    BY <1>q, <1>k, EdgeFetch DEF u8, u9
  <1>15. Edge(E, kdTclkN, u7, u9)
    BY <1>13, <1>14, EdgePulse
  <1>16. Does(E, Dr(d), u9, g, u10, g)
    BY <1>q, <1>k, DrDin DEF u9, u10
  <1>17. Edge(E, kdTclk0, u10, u11)
    BY <1>q, <1>k, Ports, EdgeFall DEF u10, u11
  <1>18. Edge(E, kdTclk1, u11, u12)
    BY <1>q, <1>k, EdgeStore DEF u11, u12
  <1>19. Edge(E, kdTclkN, u10, u12)
    BY <1>17, <1>18, EdgePulse
  <1>20. Reached(E, S, A, u0, g, 5, 3, u12, g)
    BY <1>0, <1>k, Ports, <1>11, <1>12, <1>15, <1>16, <1>19, RowDataArgv
  <1>21. Does(E, Dr(\h3FFD), u12, g, u13, g)
    BY <1>q, <1>k, DrDin DEF u12, u13
  <1>22. Reached(E, S, A, u0, g, 6, 3, u13, g)
    BY <1>0, <1>k, Ports, <1>20, <1>21, RowDr
  <1>23. Edge(E, kdTclk0, u13, u14)
    BY <1>q, <1>k, Ports, EdgeFall DEF u13, u14
  <1>24. Reached(E, S, A, u0, g, 7, 3, u14, g)
    BY <1>0, <1>k, Ports, <1>22, <1>23, RowEdge
  <1>25. Does(E, Ir(IR_CNTRL_SIG_16BIT), u14, g, u15, g)
    BY <1>q, <1>k, Ports, IrDoes DEF u14, u15
  <1>26. Does(E, Dr(\h0501), u15, g, u16, g)
    BY <1>q, <1>k, DrCntrl DEF u15, u16
  <1>27. Reached(E, S, A, u0, g, 8, 3, u16, g)
    BY <1>0, <1>k, Ports, <1>24, <1>25, <1>26, RowIrDr
  <1>28. Edge(E, kdNone, u16, u16)
    BY EdgeNone
  <1>29. Does(E, Ir(IR_DATA_CAPTURE), u16, g, u17, g)
    BY <1>q, <1>k, Ports, IrDoes DEF u16, u17
  <1>30. Edge(E, kdNone, u17, u17)
    BY EdgeNone
  <1>31. Reached(E, S, A, u0, g, 9, 3, u17, g)
    BY <1>0, <1>k, Ports, <1>27, <1>28, <1>29, <1>30, RowIr
  <1>32. Edge(E, kdTclk1, u17, u18)
    BY <1>q, <1>k, EdgeShow DEF u17, u18
  <1>33. Reached(E, S, A, u0, g, 10, 3, u18, g)
    BY <1>0, <1>k, Ports, <1>31, <1>32, RowEdge
  <1>34. Does(E, DrTo(0, "rx_l"), u18, g, u18, h1)
    BY <1>q, <1>k, Ports, PlainAre, DrShown DEF u18, h1
  <1>35. Reached(E, S, A, u0, g, 11, 4, u18, h1)
    BY <1>0, <1>k, Ports, <1>33, <1>34, RowDrTo
  <1>36. Edge(E, kdTclk0, u18, u19)
    BY <1>q, <1>k, Ports, EdgeFall DEF u18, u19
  <1>37. Edge(E, kdTclk1, u19, u20)
    BY <1>q, <1>k, EdgeShow DEF u19, u20
  <1>38. Edge(E, kdTclkN, u18, u20)
    BY <1>36, <1>37, EdgePulse
  <1>39. Reached(E, S, A, u0, g, 12, 4, u20, h1)
    BY <1>0, <1>k, Ports, <1>35, <1>38, RowEdge
  <1>40. Does(E, DrTo(0, "rx_h"), u20, h1, u20, h2)
    BY <1>q, <1>k, Ports, PlainAre, DrShown DEF u20, h2
  <1>41. Reached(E, S, A, u0, g, 13, 5, u20, h2)
    BY <1>0, <1>k, Ports, <1>39, <1>40, RowDrTo
  <1>42. Edge(E, kdTclk0, u20, u21)
    BY <1>q, <1>k, Ports, EdgeFall DEF u20, u21
  <1>43. Edge(E, kdTclk1, u21, u22)
    BY <1>q, <1>k, Ports, EdgeRead DEF u21, u22
  <1>44. Edge(E, kdTclkN, u20, u22)
    BY <1>42, <1>43, EdgePulse
  <1>45. Reached(E, S, A, u0, g, 14, 5, u22, h2)
    BY <1>0, <1>k, Ports, <1>41, <1>44, RowEdge
  <1>46. Edge(E, kdTclk0, u22, u23)
    BY <1>q, <1>k, Ports, EdgeFall DEF u22, u23
  <1>47. Edge(E, kdTclk1, u23, u22)
    BY <1>q, <1>k, Ports, EdgeRead DEF u23, u22
  <1>48. Edge(E, kdTclkN, u22, u22)
    BY <1>46, <1>47, EdgePulse
  <1>49. Reached(E, S, A, u0, g, 15, 5, u22, h2)
    BY <1>0, <1>k, Ports, <1>45, <1>48, RowEdge
  <1>50. Edge(E, kdTclk0, u22, u23)
    BY <1>q, <1>k, Ports, EdgeFall DEF u22, u23
  <1>51. Edge(E, kdTclk1, u23, u22)
    BY <1>q, <1>k, Ports, EdgeRead DEF u23, u22
  <1>52. Edge(E, kdTclkN, u22, u22)
    BY <1>50, <1>51, EdgePulse
  <1>53. Reached(E, S, A, u0, g, 16, 5, u22, h2)
    BY <1>0, <1>k, Ports, <1>49, <1>52, RowEdge
  <1>54. Edge(E, kdTclk0, u22, u23)
    BY <1>q, <1>k, Ports, EdgeFall DEF u22, u23
  <1>55. Reached(E, S, A, u0, g, 17, 5, u23, h2)
    BY <1>0, <1>k, Ports, <1>53, <1>54, RowEdge
  <1>56. Edge(E, kdNone, u23, u23)
    BY EdgeNone
  <1>57. Does(E, Ir(IR_DATA_CAPTURE), u23, h2, u23, h2)
    BY <1>q, <1>k, Ports, IrDoes DEF u23
  <1>58. Edge(E, kdNone, u23, u23)
    BY EdgeNone
  <1>59. Reached(E, S, A, u0, g, 18, 5, u23, h2)
    BY <1>0, <1>k, Ports, <1>55, <1>56, <1>57, <1>58, RowIr
  <1>60. Edge(E, kdTclk1, u23, u22)
    BY <1>q, <1>k, Ports, EdgeRead DEF u23, u22
  <1>61. Reached(E, S, A, u0, g, 19, 5, u22, h2)
    BY <1>0, <1>k, Ports, <1>59, <1>60, RowEdge
  <1>62. Does(E, Play(S, A), u0, g, u22, h2)
    BY <1>0, <1>61, ScriptEnd
  <1> QED BY <1>62 DEF S, A, u0, u22, h1, h2, GetRegPlay_1377

\* A word is read.
LEMMA ReadWordDoes_Xv2 ==
    ASSUME NEW E, NEW g, NEW b, Calm(b), ~Legacy(b), NEW ir, NEW cntrl, NEW mab, NEW dto, NEW din,
           NEW mdb, NEW t0,
           Edge(E, kdTclk0, t0, P(b, ir, cntrl, 0, mab, dto, din, mdb, Fetch)),
           NEW a \in RegValues(b)
    PROVE  Does(E, ReadWord_Xv2(a), t0, g,
                P(b, IR_DATA_TO_ADDR, \h0501, 1, a, 0, din, Bus(b, \h0501, a), Fetch), Also(g, Bus(b, \h0501, a)))
  <1> DEFINE S == <<kTclk0,
                    kIrDr16(IR_CNTRL_SIG_16BIT, \h0501),
                    kIrDr20Argv(IR_ADDR_16BIT),
                    kIr(kdNone, IR_DATA_TO_ADDR, kdTclkP),
                    kDr16_ret(0),
                    kPulseTclk,
                    kTclk1>>
             A == <<a, "buf">>
             u0 == t0
             u1 == P(b, ir, cntrl, 0, mab, dto, din, mdb, Fetch)
             u2 == P(b, IR_CNTRL_SIG_16BIT, cntrl, 0, mab, dto, din, mdb, Fetch)
             u3 == P(b, IR_CNTRL_SIG_16BIT, \h0501, 0, mab, dto, din, mdb, Fetch)
             u4 == P(b, IR_ADDR_16BIT, \h0501, 0, mab, dto, din, mdb, Fetch)
             u5 == P(b, IR_ADDR_16BIT, \h0501, 0, a, dto, din, mdb, Fetch)
             u6 == P(b, IR_DATA_TO_ADDR, \h0501, 0, a, dto, din, mdb, Fetch)
             u7 == P(b, IR_DATA_TO_ADDR, \h0501, 1, a, dto, din, Bus(b, \h0501, a), Fetch)
             u8 == P(b, IR_DATA_TO_ADDR, \h0501, 0, a, dto, din, Bus(b, \h0501, a), Fetch)
             u9 == P(b, IR_DATA_TO_ADDR, \h0501, 0, a, 0, din, Bus(b, \h0501, a), Fetch)
             u10 == P(b, IR_DATA_TO_ADDR, \h0501, 1, a, 0, din, Bus(b, \h0501, a), Fetch)
             h1 == Also(g, Bus(b, \h0501, a))
  <1>l. Len(S) = 7
        /\ S[1] = kTclk0 /\ S[2] = kIrDr16(IR_CNTRL_SIG_16BIT, \h0501) /\ S[3] = kIrDr20Argv(IR_ADDR_16BIT)
        /\ S[4] = kIr(kdNone, IR_DATA_TO_ADDR, kdTclkP) /\ S[5] = kDr16_ret(0) /\ S[6] = kPulseTclk
        /\ S[7] = kTclk1
    OBVIOUS
  <1>a. A[1] = a /\ A[2] = "buf"
    OBVIOUS
  <1> HIDE DEF S, A
  <1>0. /\ At(S, 1, 2, kTclk0) /\ At(S, 2, 3, kIrDr16(IR_CNTRL_SIG_16BIT, \h0501))
        /\ At(S, 3, 4, kIrDr20Argv(IR_ADDR_16BIT)) /\ At(S, 4, 5, kIr(kdNone, IR_DATA_TO_ADDR, kdTclkP))
        /\ At(S, 5, 6, kDr16_ret(0)) /\ At(S, 6, 7, kPulseTclk)
        /\ At(S, 7, 8, kTclk1) /\ Ends(S, 8)
        /\ Given(A, 1, 2, a) /\ Given(A, 2, 3, "buf")
    BY <1>l, <1>a DEF At, Given, Ends
  <1>q. /\ Sound(b) /\ Quiet(b) /\ Calm(b) /\ ~Legacy(b)
    BY DEF Calm, Quiet
  <1>r. a \in RegValues(b)
    BY <1>q, RegsSame, Peripherals
  <1>k. /\ \h0501 \in Values16 /\ Reads(b, \h0501) /\ ~Writes(b, \h0501)
    BY <1>q, ControlWords, ExecutesOnly DEF Values16
  <1> HIDE DEF u0, u1, u2, u3, u4, u5, u6, u7, u8, u9, u10, h1
  <1>1. Reached(E, S, A, u0, g, 1, 1, u0, g)
    BY RowBegin
  <1>2. Edge(E, kdTclk0, u0, u1)
    BY DEF u0, u1
  <1>3. Reached(E, S, A, u0, g, 2, 1, u1, g)
    BY <1>0, <1>k, Ports, <1>1, <1>2, RowEdge
  <1>4. Does(E, Ir(IR_CNTRL_SIG_16BIT), u1, g, u2, g)
    BY <1>q, <1>k, Ports, IrDoes DEF u1, u2
  <1>5. Does(E, Dr(\h0501), u2, g, u3, g)
    BY <1>q, <1>k, DrCntrl DEF u2, u3
  <1>6. Reached(E, S, A, u0, g, 3, 1, u3, g)
    BY <1>0, <1>k, Ports, <1>3, <1>4, <1>5, RowIrDr
  <1>7. Does(E, Ir(IR_ADDR_16BIT), u3, g, u4, g)
    BY <1>q, <1>k, Ports, IrDoes DEF u3, u4
  <1>8. Does(E, Dr(a), u4, g, u5, g)
    BY <1>q, <1>k, <1>r, DrMab DEF u4, u5
  <1>9. Reached(E, S, A, u0, g, 4, 2, u5, g)
    BY <1>0, <1>k, Ports, <1>6, <1>7, <1>8, RowIrDr20
  <1>10. Edge(E, kdNone, u5, u5)
    BY EdgeNone
  <1>11. Does(E, Ir(IR_DATA_TO_ADDR), u5, g, u6, g)
    BY <1>q, <1>k, Ports, IrDoes DEF u5, u6
  <1>12. Edge(E, kdTclk1, u6, u7)
    BY <1>q, <1>k, Ports, EdgeRead DEF u6, u7
  <1>13. Edge(E, kdTclk0, u7, u8)
    BY <1>q, <1>k, Ports, EdgeFall DEF u7, u8
  <1>14. Edge(E, kdTclkP, u6, u8)
    BY <1>12, <1>13, EdgePulse
  <1>15. Reached(E, S, A, u0, g, 5, 2, u8, g)
    BY <1>0, <1>k, Ports, <1>9, <1>10, <1>11, <1>14, RowIr
  <1>16. Does(E, DrTo(0, "buf"), u8, g, u9, h1)
    BY <1>q, <1>k, Ports, PlainAre, DrShownDtoBuf DEF u8, u9, h1
  <1>17. Reached(E, S, A, u0, g, 6, 3, u9, h1)
    BY <1>0, <1>k, Ports, <1>15, <1>16, RowDrTo
  <1>18. Edge(E, kdTclk1, u9, u10)
    BY <1>q, <1>k, Ports, EdgeRead DEF u9, u10
  <1>19. Edge(E, kdTclk0, u10, u9)
    BY <1>q, <1>k, Ports, EdgeFall DEF u10, u9
  <1>20. Edge(E, kdTclkP, u9, u9)
    BY <1>18, <1>19, EdgePulse
  <1>21. Reached(E, S, A, u0, g, 7, 3, u9, h1)
    BY <1>0, <1>k, Ports, <1>17, <1>20, RowEdge
  <1>22. Edge(E, kdTclk1, u9, u10)
    BY <1>q, <1>k, Ports, EdgeRead DEF u9, u10
  <1>23. Reached(E, S, A, u0, g, 8, 3, u10, h1)
    BY <1>0, <1>k, Ports, <1>21, <1>22, RowEdge
  <1>24. Does(E, Play(S, A), u0, g, u10, h1)
    BY <1>0, <1>23, ScriptEnd
  <1> QED BY <1>24 DEF S, A, u0, u10, h1, ReadWord_Xv2

\* A word is written, during the high phase of TCLK.
LEMMA WriteWordDoes_Xv2 ==
    ASSUME NEW E, NEW g, NEW b, Calm(b), ~Legacy(b), NEW ir, NEW cntrl, NEW mab, NEW dto, NEW din,
           NEW mdb, NEW t0,
           Edge(E, kdTclk0, t0, P(b, ir, cntrl, 0, mab, dto, din, mdb, Fetch)),
           NEW a \in RegValues(b), NEW v, NEW d, Low(v, d), NEW c, Wrote(E, b, a, d, c), Calm(c)
    PROVE  Does(E, WriteWord_Xv2(a, v), t0, g,
                P(c, IR_CNTRL_SIG_16BIT, \h0501, 1, a, d, din, Bus(c, \h0501, a), Fetch), g)
  <1> DEFINE S == <<kTclk0,
                    kIrDr16(IR_CNTRL_SIG_16BIT, \h0500),
                    kIrDr20Argv(IR_ADDR_16BIT),
                    kIrDr16Argv(kdTclk1, IR_DATA_TO_ADDR, kdTclk0),
                    kIrDr16(IR_CNTRL_SIG_16BIT, \h0501),
                    kTclk1,
                    kPulseTclkN>>
             A == <<a, v>>
             u0 == t0
             u1 == P(b, ir, cntrl, 0, mab, dto, din, mdb, Fetch)
             u2 == P(b, IR_CNTRL_SIG_16BIT, cntrl, 0, mab, dto, din, mdb, Fetch)
             u3 == P(b, IR_CNTRL_SIG_16BIT, \h0500, 0, mab, dto, din, mdb, Fetch)
             u4 == P(b, IR_ADDR_16BIT, \h0500, 0, mab, dto, din, mdb, Fetch)
             u5 == P(b, IR_ADDR_16BIT, \h0500, 0, a, dto, din, mdb, Fetch)
             u6 == P(b, IR_ADDR_16BIT, \h0500, 1, a, dto, din, mdb, Fetch)
             u7 == P(b, IR_DATA_TO_ADDR, \h0500, 1, a, dto, din, mdb, Fetch)
             u8 == P(c, IR_DATA_TO_ADDR, \h0500, 1, a, d, din, mdb, Fetch)
             u9 == P(c, IR_DATA_TO_ADDR, \h0500, 0, a, d, din, mdb, Fetch)
             u10 == P(c, IR_CNTRL_SIG_16BIT, \h0500, 0, a, d, din, mdb, Fetch)
             u11 == P(c, IR_CNTRL_SIG_16BIT, \h0501, 0, a, d, din, mdb, Fetch)
             u12 == P(c, IR_CNTRL_SIG_16BIT, \h0501, 1, a, d, din, Bus(c, \h0501, a), Fetch)
             u13 == P(c, IR_CNTRL_SIG_16BIT, \h0501, 0, a, d, din, Bus(c, \h0501, a), Fetch)
  <1>l. Len(S) = 7
        /\ S[1] = kTclk0 /\ S[2] = kIrDr16(IR_CNTRL_SIG_16BIT, \h0500) /\ S[3] = kIrDr20Argv(IR_ADDR_16BIT)
        /\ S[4] = kIrDr16Argv(kdTclk1, IR_DATA_TO_ADDR, kdTclk0) /\ S[5] = kIrDr16(IR_CNTRL_SIG_16BIT, \h0501) /\ S[6] = kTclk1
        /\ S[7] = kPulseTclkN
    OBVIOUS
  <1>a. A[1] = a /\ A[2] = v
    OBVIOUS
  <1> HIDE DEF S, A
  <1>0. /\ At(S, 1, 2, kTclk0) /\ At(S, 2, 3, kIrDr16(IR_CNTRL_SIG_16BIT, \h0500))
        /\ At(S, 3, 4, kIrDr20Argv(IR_ADDR_16BIT)) /\ At(S, 4, 5, kIrDr16Argv(kdTclk1, IR_DATA_TO_ADDR, kdTclk0))
        /\ At(S, 5, 6, kIrDr16(IR_CNTRL_SIG_16BIT, \h0501)) /\ At(S, 6, 7, kTclk1)
        /\ At(S, 7, 8, kPulseTclkN) /\ Ends(S, 8)
        /\ Given(A, 1, 2, a) /\ Given(A, 2, 3, v)
    BY <1>l, <1>a DEF At, Given, Ends
  <1>q. /\ Sound(b) /\ Quiet(b) /\ Calm(b) /\ ~Legacy(b)
        /\ Sound(c) /\ Quiet(c) /\ Calm(c) /\ ~Legacy(c)
    BY DEF Calm, Quiet, Wrote, Low
  <1>v. d \in Values16
    BY ControlWords DEF Low
  <1>r. a \in RegValues(b)
    BY <1>q, RegsSame, Peripherals DEF Wrote, Low
  <1>k. /\ d \in Values16 /\ \h0500 \in Values16 /\ \h0501 \in Values16 /\ Writes(b, \h0500)
        /\ Writes(c, \h0500) /\ Reads(b, \h0501) /\ ~Writes(b, \h0501) /\ Reads(c, \h0501) /\ ~Writes(c, \h0501)
    BY <1>q, ControlWords, ExecutesOnly, <1>v DEF Values16
  <1> HIDE DEF u0, u1, u2, u3, u4, u5, u6, u7, u8, u9, u10, u11, u12, u13
  <1>1. Reached(E, S, A, u0, g, 1, 1, u0, g)
    BY RowBegin
  <1>2. Edge(E, kdTclk0, u0, u1)
    BY DEF u0, u1
  <1>3. Reached(E, S, A, u0, g, 2, 1, u1, g)
    BY <1>0, <1>k, Ports, <1>1, <1>2, RowEdge
  <1>4. Does(E, Ir(IR_CNTRL_SIG_16BIT), u1, g, u2, g)
    BY <1>q, <1>k, Ports, IrDoes DEF u1, u2
  <1>5. Does(E, Dr(\h0500), u2, g, u3, g)
    BY <1>q, <1>k, DrCntrl DEF u2, u3
  <1>6. Reached(E, S, A, u0, g, 3, 1, u3, g)
    BY <1>0, <1>k, Ports, <1>3, <1>4, <1>5, RowIrDr
  <1>7. Does(E, Ir(IR_ADDR_16BIT), u3, g, u4, g)
    BY <1>q, <1>k, Ports, IrDoes DEF u3, u4
  <1>8. Does(E, Dr(a), u4, g, u5, g)
    BY <1>q, <1>k, <1>r, DrMab DEF u4, u5
  <1>9. Reached(E, S, A, u0, g, 4, 2, u5, g)
    BY <1>0, <1>k, Ports, <1>6, <1>7, <1>8, RowIrDr20
  <1>10. Edge(E, kdTclk1, u5, u6)
    BY <1>q, <1>k, Ports, EdgeIdle DEF u5, u6
  <1>11. Does(E, Ir(IR_DATA_TO_ADDR), u6, g, u7, g)
    BY <1>q, <1>k, Ports, IrDoes DEF u6, u7
  <1>12. Does(E, Dr(d), u7, g, u8, g)
    BY <1>q, <1>k, DrWrites DEF u7, u8
  <1>13. Edge(E, kdTclk0, u8, u9)
    BY <1>q, <1>k, Ports, EdgeFall DEF u8, u9
  <1>14. Reached(E, S, A, u0, g, 5, 3, u9, g)
    BY <1>0, <1>k, Ports, <1>9, <1>10, <1>11, <1>12, <1>13, RowIrDrArgv
  <1>15. Does(E, Ir(IR_CNTRL_SIG_16BIT), u9, g, u10, g)
    BY <1>q, <1>k, Ports, IrDoes DEF u9, u10
  <1>16. Does(E, Dr(\h0501), u10, g, u11, g)
    BY <1>q, <1>k, DrCntrl DEF u10, u11
  <1>17. Reached(E, S, A, u0, g, 6, 3, u11, g)
    BY <1>0, <1>k, Ports, <1>14, <1>15, <1>16, RowIrDr
  <1>18. Edge(E, kdTclk1, u11, u12)
    BY <1>q, <1>k, Ports, EdgeRead DEF u11, u12
  <1>19. Reached(E, S, A, u0, g, 7, 3, u12, g)
    BY <1>0, <1>k, Ports, <1>17, <1>18, RowEdge
  <1>20. Edge(E, kdTclk0, u12, u13)
    BY <1>q, <1>k, Ports, EdgeFall DEF u12, u13
  <1>21. Edge(E, kdTclk1, u13, u12)
    BY <1>q, <1>k, Ports, EdgeRead DEF u13, u12
  <1>22. Edge(E, kdTclkN, u12, u12)
    BY <1>20, <1>21, EdgePulse
  <1>23. Reached(E, S, A, u0, g, 8, 3, u12, g)
    BY <1>0, <1>k, Ports, <1>19, <1>22, RowEdge
  <1>24. Does(E, Play(S, A), u0, g, u12, g)
    BY <1>0, <1>23, ScriptEnd
  <1> QED BY <1>24 DEF S, A, u0, u12, WriteWord_Xv2

QuickPlay ==
    Play(<<kTclk1, kIrDr16(IR_CNTRL_SIG_16BIT, \h0501),
         kIr(kdNone, IR_ADDR_CAPTURE, kdNone), kIr(kdNone, IR_DATA_QUICK, kdNone)>>, <<>>)

\* After the program counter is set, JTAG takes the bus to read at it.
LEMMA QuickRows ==
    ASSUME NEW E, NEW g, NEW b, Calm(b), ~Legacy(b), NEW mab, NEW dto, NEW mdb
    PROVE  Does(E, QuickPlay, P(b, IR_ADDR_CAPTURE, \h1400, 0, mab, dto, \h4303, mdb, Fetch), g,
                P(b, IR_DATA_QUICK, \h0501, 1, mab, dto, \h4303, mdb, Fetch), g)
  <1> DEFINE S == <<kTclk1,
                    kIrDr16(IR_CNTRL_SIG_16BIT, \h0501),
                    kIr(kdNone, IR_ADDR_CAPTURE, kdNone),
                    kIr(kdNone, IR_DATA_QUICK, kdNone)>>
             A == <<>>
             u0 == P(b, IR_ADDR_CAPTURE, \h1400, 0, mab, dto, \h4303, mdb, Fetch)
             u1 == P(b, IR_ADDR_CAPTURE, \h1400, 1, mab, dto, \h4303, mdb, Fetch)
             u2 == P(b, IR_CNTRL_SIG_16BIT, \h1400, 1, mab, dto, \h4303, mdb, Fetch)
             u3 == P(b, IR_CNTRL_SIG_16BIT, \h0501, 1, mab, dto, \h4303, mdb, Fetch)
             u4 == P(b, IR_ADDR_CAPTURE, \h0501, 1, mab, dto, \h4303, mdb, Fetch)
             u5 == P(b, IR_DATA_QUICK, \h0501, 1, mab, dto, \h4303, mdb, Fetch)
  <1>l. Len(S) = 4
        /\ S[1] = kTclk1 /\ S[2] = kIrDr16(IR_CNTRL_SIG_16BIT, \h0501) /\ S[3] = kIr(kdNone, IR_ADDR_CAPTURE, kdNone)
        /\ S[4] = kIr(kdNone, IR_DATA_QUICK, kdNone)
    OBVIOUS
  <1> HIDE DEF S, A
  <1>0. /\ At(S, 1, 2, kTclk1) /\ At(S, 2, 3, kIrDr16(IR_CNTRL_SIG_16BIT, \h0501))
        /\ At(S, 3, 4, kIr(kdNone, IR_ADDR_CAPTURE, kdNone)) /\ At(S, 4, 5, kIr(kdNone, IR_DATA_QUICK, kdNone))
        /\ Ends(S, 5)
    BY <1>l DEF At, Given, Ends
  <1>q. /\ Sound(b) /\ Quiet(b) /\ Calm(b) /\ ~Legacy(b)
    BY DEF Calm, Quiet
  <1>k. /\ \h0501 \in Values16 /\ Reads(b, \h0501) /\ ~Writes(b, \h0501) /\ Executes(\h1400) /\ ~Writes(b, \h1400)
    BY <1>q, ControlWords, ExecutesOnly DEF Values16
  <1> HIDE DEF u0, u1, u2, u3, u4, u5
  <1>1. Reached(E, S, A, u0, g, 1, 1, u0, g)
    BY RowBegin
  <1>2. Edge(E, kdTclk1, u0, u1)
    BY <1>q, <1>k, Nops, EdgeFetch DEF u0, u1
  <1>3. Reached(E, S, A, u0, g, 2, 1, u1, g)
    BY <1>0, <1>k, Ports, <1>1, <1>2, RowEdge
  <1>4. Does(E, Ir(IR_CNTRL_SIG_16BIT), u1, g, u2, g)
    BY <1>q, <1>k, Ports, IrDoes DEF u1, u2
  <1>5. Does(E, Dr(\h0501), u2, g, u3, g)
    BY <1>q, <1>k, DrCntrl DEF u2, u3
  <1>6. Reached(E, S, A, u0, g, 3, 1, u3, g)
    BY <1>0, <1>k, Ports, <1>3, <1>4, <1>5, RowIrDr
  <1>7. Edge(E, kdNone, u3, u3)
    BY EdgeNone
  <1>8. Does(E, Ir(IR_ADDR_CAPTURE), u3, g, u4, g)
    BY <1>q, <1>k, Ports, IrDoes DEF u3, u4
  <1>9. Edge(E, kdNone, u4, u4)
    BY EdgeNone
  <1>10. Reached(E, S, A, u0, g, 4, 1, u4, g)
    BY <1>0, <1>k, Ports, <1>6, <1>7, <1>8, <1>9, RowIr
  <1>11. Edge(E, kdNone, u4, u4)
    BY EdgeNone
  <1>12. Does(E, Ir(IR_DATA_QUICK), u4, g, u5, g)
    BY <1>q, <1>k, Ports, IrDoes DEF u4, u5
  <1>13. Edge(E, kdNone, u5, u5)
    BY EdgeNone
  <1>14. Reached(E, S, A, u0, g, 5, 1, u5, g)
    BY <1>0, <1>k, Ports, <1>10, <1>11, <1>12, <1>13, RowIr
  <1>15. Does(E, Play(S, A), u0, g, u5, g)
    BY <1>0, <1>14, ScriptEnd
  <1> QED BY <1>15 DEF S, A, u0, u5, QuickPlay

PreloadPlay(mdbval) ==
    Play(<<kIrDr16(IR_CNTRL_SIG_16BIT, \h0401), kIrData16Argv(kdTclk1, kdTclk0),
         kIr(kdNone, IR_ADDR_CAPTURE, kdNone), kIr(kdNone, IR_CNTRL_SIG_CAPTURE, kdNone),
         kDr16_ret(0)>>, <<mdbval, "sig">>)

\* The release of a MSP430Xv2 with an instruction on the bus ...
LEMMA PreloadRows ==
    ASSUME NEW E, NEW g, NEW b, Calm(b), ~Legacy(b), NEW mab, NEW dto, NEW mdb,
           NEW v, NEW d, Low(v, d)
    PROVE  Does(E, PreloadPlay(v), P(b, IR_ADDR_CAPTURE, \h1400, 0, mab, dto, \h4303, mdb, Fetch), g,
                P(b, IR_CNTRL_SIG_CAPTURE, \h0401, 0, mab, dto, d, Bus(b, \h0401, mab), Fetch), Got(g, "sig", Captured(\h0401)))
  <1> DEFINE S == <<kIrDr16(IR_CNTRL_SIG_16BIT, \h0401),
                    kIrData16Argv(kdTclk1, kdTclk0),
                    kIr(kdNone, IR_ADDR_CAPTURE, kdNone),
                    kIr(kdNone, IR_CNTRL_SIG_CAPTURE, kdNone),
                    kDr16_ret(0)>>
             A == <<v, "sig">>
             u0 == P(b, IR_ADDR_CAPTURE, \h1400, 0, mab, dto, \h4303, mdb, Fetch)
             u1 == P(b, IR_CNTRL_SIG_16BIT, \h1400, 0, mab, dto, \h4303, mdb, Fetch)
             u2 == P(b, IR_CNTRL_SIG_16BIT, \h0401, 0, mab, dto, \h4303, mdb, Fetch)
             u3 == P(b, IR_DATA_16BIT, \h0401, 0, mab, dto, \h4303, mdb, Fetch)
             u4 == P(b, IR_DATA_16BIT, \h0401, 1, mab, dto, \h4303, Bus(b, \h0401, mab), Fetch)
             u5 == P(b, IR_DATA_16BIT, \h0401, 1, mab, dto, d, Bus(b, \h0401, mab), Fetch)
             u6 == P(b, IR_DATA_16BIT, \h0401, 0, mab, dto, d, Bus(b, \h0401, mab), Fetch)
             u7 == P(b, IR_ADDR_CAPTURE, \h0401, 0, mab, dto, d, Bus(b, \h0401, mab), Fetch)
             u8 == P(b, IR_CNTRL_SIG_CAPTURE, \h0401, 0, mab, dto, d, Bus(b, \h0401, mab), Fetch)
             h1 == Got(g, "sig", Captured(\h0401))
  <1>l. Len(S) = 5
        /\ S[1] = kIrDr16(IR_CNTRL_SIG_16BIT, \h0401) /\ S[2] = kIrData16Argv(kdTclk1, kdTclk0) /\ S[3] = kIr(kdNone, IR_ADDR_CAPTURE, kdNone)
        /\ S[4] = kIr(kdNone, IR_CNTRL_SIG_CAPTURE, kdNone) /\ S[5] = kDr16_ret(0)
    OBVIOUS
  <1>a. A[1] = v /\ A[2] = "sig"
    OBVIOUS
  <1> HIDE DEF S, A
  <1>0. /\ At(S, 1, 2, kIrDr16(IR_CNTRL_SIG_16BIT, \h0401)) /\ At(S, 2, 3, kIrData16Argv(kdTclk1, kdTclk0))
        /\ At(S, 3, 4, kIr(kdNone, IR_ADDR_CAPTURE, kdNone)) /\ At(S, 4, 5, kIr(kdNone, IR_CNTRL_SIG_CAPTURE, kdNone))
        /\ At(S, 5, 6, kDr16_ret(0)) /\ Ends(S, 6)
        /\ Given(A, 1, 2, v) /\ Given(A, 2, 3, "sig")
    BY <1>l, <1>a DEF At, Given, Ends
  <1>q. /\ Sound(b) /\ Quiet(b) /\ Calm(b) /\ ~Legacy(b)
    BY DEF Calm, Quiet, Low
  <1>v. d \in Values16
    BY ControlWords DEF Low
  <1>k. /\ d \in Values16 /\ \h0401 \in Values16 /\ Reads(b, \h0401) /\ ~Writes(b, \h0401)
        /\ Executes(\h1400) /\ ~Writes(b, \h1400)
    BY <1>q, ControlWords, ExecutesOnly, <1>v DEF Values16
  <1> HIDE DEF u0, u1, u2, u3, u4, u5, u6, u7, u8, h1
  <1>1. Reached(E, S, A, u0, g, 1, 1, u0, g)
    BY RowBegin
  <1>2. Does(E, Ir(IR_CNTRL_SIG_16BIT), u0, g, u1, g)
    BY <1>q, <1>k, Ports, IrDoes DEF u0, u1
  <1>3. Does(E, Dr(\h0401), u1, g, u2, g)
    BY <1>q, <1>k, DrCntrl DEF u1, u2
  <1>4. Reached(E, S, A, u0, g, 2, 1, u2, g)
    BY <1>0, <1>k, Ports, <1>1, <1>2, <1>3, RowIrDr
  <1>5. Does(E, Ir(IR_DATA_16BIT), u2, g, u3, g)
    BY <1>q, <1>k, Ports, IrDoes DEF u2, u3
  <1>6. Edge(E, kdTclk1, u3, u4)
    BY <1>q, <1>k, Ports, EdgeRead DEF u3, u4
  <1>7. Does(E, Dr(d), u4, g, u5, g)
    BY <1>q, <1>k, DrDin DEF u4, u5
  <1>8. Edge(E, kdTclk0, u5, u6)
    BY <1>q, <1>k, Ports, EdgeFall DEF u5, u6
  <1>9. Reached(E, S, A, u0, g, 3, 2, u6, g)
    BY <1>0, <1>k, Ports, <1>4, <1>5, <1>6, <1>7, <1>8, RowDataArgv
  <1>10. Edge(E, kdNone, u6, u6)
    BY EdgeNone
  <1>11. Does(E, Ir(IR_ADDR_CAPTURE), u6, g, u7, g)
    BY <1>q, <1>k, Ports, IrDoes DEF u6, u7
  <1>12. Edge(E, kdNone, u7, u7)
    BY EdgeNone
  <1>13. Reached(E, S, A, u0, g, 4, 2, u7, g)
    BY <1>0, <1>k, Ports, <1>9, <1>10, <1>11, <1>12, RowIr
  <1>14. Edge(E, kdNone, u7, u7)
    BY EdgeNone
  <1>15. Does(E, Ir(IR_CNTRL_SIG_CAPTURE), u7, g, u8, g)
    BY <1>q, <1>k, Ports, IrDoes DEF u7, u8
  <1>16. Edge(E, kdNone, u8, u8)
    BY EdgeNone
  <1>17. Reached(E, S, A, u0, g, 5, 2, u8, g)
    BY <1>0, <1>k, Ports, <1>13, <1>14, <1>15, <1>16, RowIr
  <1>18. Does(E, DrTo(0, "sig"), u8, g, u8, h1)
    BY <1>q, <1>k, Ports, PlainAre, DrCaptured DEF u8, h1
  <1>19. Reached(E, S, A, u0, g, 6, 3, u8, h1)
    BY <1>0, <1>k, Ports, <1>17, <1>18, RowDrTo
  <1>20. Does(E, Play(S, A), u0, g, u8, h1)
    BY <1>0, <1>19, ScriptEnd
  <1> QED BY <1>20 DEF S, A, u0, u8, h1, PreloadPlay

NoPreloadPlay ==
    Play(<<kTclk1, kIrDr16(IR_CNTRL_SIG_16BIT, \h0401),
         kIr(kdNone, IR_ADDR_CAPTURE, kdNone), kIr(kdNone, IR_CNTRL_SIG_CAPTURE, kdTclk0),
         kDr16_ret(0)>>, <<"sig">>)

\* ... and without.
LEMMA NoPreloadRows ==
    ASSUME NEW E, NEW g, NEW b, Calm(b), ~Legacy(b), NEW mab, NEW dto, NEW mdb
    PROVE  Does(E, NoPreloadPlay, P(b, IR_ADDR_CAPTURE, \h1400, 0, mab, dto, \h4303, mdb, Fetch), g,
                P(b, IR_CNTRL_SIG_CAPTURE, \h0401, 0, mab, dto, \h4303, mdb, Fetch), Got(g, "sig", Captured(\h0401)))
  <1> DEFINE S == <<kTclk1,
                    kIrDr16(IR_CNTRL_SIG_16BIT, \h0401),
                    kIr(kdNone, IR_ADDR_CAPTURE, kdNone),
                    kIr(kdNone, IR_CNTRL_SIG_CAPTURE, kdTclk0),
                    kDr16_ret(0)>>
             A == <<"sig">>
             u0 == P(b, IR_ADDR_CAPTURE, \h1400, 0, mab, dto, \h4303, mdb, Fetch)
             u1 == P(b, IR_ADDR_CAPTURE, \h1400, 1, mab, dto, \h4303, mdb, Fetch)
             u2 == P(b, IR_CNTRL_SIG_16BIT, \h1400, 1, mab, dto, \h4303, mdb, Fetch)
             u3 == P(b, IR_CNTRL_SIG_16BIT, \h0401, 1, mab, dto, \h4303, mdb, Fetch)
             u4 == P(b, IR_ADDR_CAPTURE, \h0401, 1, mab, dto, \h4303, mdb, Fetch)
             u5 == P(b, IR_CNTRL_SIG_CAPTURE, \h0401, 1, mab, dto, \h4303, mdb, Fetch)
             u6 == P(b, IR_CNTRL_SIG_CAPTURE, \h0401, 0, mab, dto, \h4303, mdb, Fetch)
             h1 == Got(g, "sig", Captured(\h0401))
  <1>l. Len(S) = 5
        /\ S[1] = kTclk1 /\ S[2] = kIrDr16(IR_CNTRL_SIG_16BIT, \h0401) /\ S[3] = kIr(kdNone, IR_ADDR_CAPTURE, kdNone)
        /\ S[4] = kIr(kdNone, IR_CNTRL_SIG_CAPTURE, kdTclk0) /\ S[5] = kDr16_ret(0)
    OBVIOUS
  <1>a. A[1] = "sig"
    OBVIOUS
  <1> HIDE DEF S, A
  <1>0. /\ At(S, 1, 2, kTclk1) /\ At(S, 2, 3, kIrDr16(IR_CNTRL_SIG_16BIT, \h0401))
        /\ At(S, 3, 4, kIr(kdNone, IR_ADDR_CAPTURE, kdNone)) /\ At(S, 4, 5, kIr(kdNone, IR_CNTRL_SIG_CAPTURE, kdTclk0))
        /\ At(S, 5, 6, kDr16_ret(0)) /\ Ends(S, 6)
        /\ Given(A, 1, 2, "sig")
    BY <1>l, <1>a DEF At, Given, Ends
  <1>q. /\ Sound(b) /\ Quiet(b) /\ Calm(b) /\ ~Legacy(b)
    BY DEF Calm, Quiet
  <1>k. /\ \h0401 \in Values16 /\ Reads(b, \h0401) /\ ~Writes(b, \h0401) /\ Executes(\h1400) /\ ~Writes(b, \h1400)
    BY <1>q, ControlWords, ExecutesOnly DEF Values16
  <1> HIDE DEF u0, u1, u2, u3, u4, u5, u6, h1
  <1>1. Reached(E, S, A, u0, g, 1, 1, u0, g)
    BY RowBegin
  <1>2. Edge(E, kdTclk1, u0, u1)
    BY <1>q, <1>k, Nops, EdgeFetch DEF u0, u1
  <1>3. Reached(E, S, A, u0, g, 2, 1, u1, g)
    BY <1>0, <1>k, Ports, <1>1, <1>2, RowEdge
  <1>4. Does(E, Ir(IR_CNTRL_SIG_16BIT), u1, g, u2, g)
    BY <1>q, <1>k, Ports, IrDoes DEF u1, u2
  <1>5. Does(E, Dr(\h0401), u2, g, u3, g)
    BY <1>q, <1>k, DrCntrl DEF u2, u3
  <1>6. Reached(E, S, A, u0, g, 3, 1, u3, g)
    BY <1>0, <1>k, Ports, <1>3, <1>4, <1>5, RowIrDr
  <1>7. Edge(E, kdNone, u3, u3)
    BY EdgeNone
  <1>8. Does(E, Ir(IR_ADDR_CAPTURE), u3, g, u4, g)
    BY <1>q, <1>k, Ports, IrDoes DEF u3, u4
  <1>9. Edge(E, kdNone, u4, u4)
    BY EdgeNone
  <1>10. Reached(E, S, A, u0, g, 4, 1, u4, g)
    BY <1>0, <1>k, Ports, <1>6, <1>7, <1>8, <1>9, RowIr
  <1>11. Edge(E, kdNone, u4, u4)
    BY EdgeNone
  <1>12. Does(E, Ir(IR_CNTRL_SIG_CAPTURE), u4, g, u5, g)
    BY <1>q, <1>k, Ports, IrDoes DEF u4, u5
  <1>13. Edge(E, kdTclk0, u5, u6)
    BY <1>q, <1>k, Ports, EdgeFall DEF u5, u6
  <1>14. Reached(E, S, A, u0, g, 5, 1, u6, g)
    BY <1>0, <1>k, Ports, <1>10, <1>11, <1>12, <1>13, RowIr
  <1>15. Does(E, DrTo(0, "sig"), u6, g, u6, h1)
    BY <1>q, <1>k, Ports, PlainAre, DrCaptured DEF u6, h1
  <1>16. Reached(E, S, A, u0, g, 6, 2, u6, h1)
    BY <1>0, <1>k, Ports, <1>14, <1>15, RowDrTo
  <1>17. Does(E, Play(S, A), u0, g, u6, h1)
    BY <1>0, <1>16, ScriptEnd
  <1> QED BY <1>17 DEF S, A, u0, u6, h1, NoPreloadPlay

-----------------------------------------------------------------------------
(* The debug unit, and what is on the bus at a release.                    *)

\* The instructions of the debug unit that scan.
LEMMA EemCodesAre ==
    IR_EMEX_DATA_EXCHANGE \in EemCodes /\ IR_EMEX_DATA_EXCHANGE32 \in EemCodes
  BY DEF EemCodes

\* A scan of the debug unit.
LEMMA DrScanned ==
    ASSUME NEW E, NEW g, NEW b, NEW ir, NEW cntrl, NEW tclk, NEW mab, NEW dto, NEW din, NEW mdb,
           NEW cpu, ir \in EemCodes, NEW d, NEW c, Scanned(E, b, d, c)
    PROVE  Does(E, Dr(d), P(b, ir, cntrl, tclk, mab, dto, din, mdb, cpu), g, P(c, ir, cntrl, tclk, mab, dto, din, mdb, cpu), g)
  BY DrEem DEF Scanned

\* A scan of the debug unit whose answer is kept.
LEMMA DrScannedTo ==
    ASSUME NEW E, NEW g, NEW b, NEW ir, NEW cntrl, NEW tclk, NEW mab, NEW dto, NEW din, NEW mdb,
           NEW cpu, ir \in EemCodes, NEW c, NEW o, ScannedOut(E, b, c, o), NEW v, Plain(v)
    PROVE  Does(E, DrTo(0, v), P(b, ir, cntrl, tclk, mab, dto, din, mdb, cpu), g, P(c, ir, cntrl, tclk, mab, dto, din, mdb, cpu), Got(g, v, o))
  BY DrEem DEF Scanned, ScannedOut, Plain, Got

\* A scan of the debug unit with a word that was kept.
LEMMA DrScannedFrom ==
    ASSUME NEW E, NEW g, NEW b, NEW ir, NEW cntrl, NEW tclk, NEW mab, NEW dto, NEW din, NEW mdb,
           NEW cpu, ir \in EemCodes, NEW c, NEW v, Plain(v), NEW d, Has(g, v, d),
           Scanned(E, b, d, c)
    PROVE  Does(E, DrFrom(v, 0), P(b, ir, cntrl, tclk, mab, dto, din, mdb, cpu), g, P(c, ir, cntrl, tclk, mab, dto, din, mdb, cpu), g)
  BY DrEem DEF Scanned, Plain, Has

\* The trigger blocks are read, cleared and written back.
LEMMA WorkaroundDoes ==
    ASSUME NEW E, NEW g, NEW b, Calm(b), Legacy(b), NEW ir, NEW cntrl, NEW mab, NEW dto, NEW din,
           NEW mdb,
           NEW c1, NEW c2, NEW c3, NEW c4, NEW c5, NEW c6, NEW c7, NEW c8, NEW c9, NEW c10, NEW c11,
           NEW c12, NEW c13, NEW c14, NEW c15, NEW c16, NEW c17, NEW c18, NEW o0, NEW o1, NEW o2,
           Scanned(E, b, \h03, c1), ScannedOut(E, c1, c2, o0), Scanned(E, c2, \h0B, c3),
           ScannedOut(E, c3, c4, o1), Scanned(E, c4, \h13, c5), ScannedOut(E, c5, c6, o2),
           Scanned(E, c6, \h02, c7), Scanned(E, c7, 0, c8), Scanned(E, c8, \h0A, c9),
           Scanned(E, c9, 0, c10), Scanned(E, c10, \h12, c11), Scanned(E, c11, 0, c12),
           Scanned(E, c12, \h02, c13), Scanned(E, c13, o0, c14), Scanned(E, c14, \h0A, c15),
           Scanned(E, c15, o1, c16), Scanned(E, c16, \h12, c17), Scanned(E, c17, o2, c18),
           Has(Got(Got(Got(g, "backup0", o0), "backup1", o1), "backup2", o2), "backup0", o0),
           Has(Got(Got(Got(g, "backup0", o0), "backup1", o1), "backup2", o2), "backup1", o1),
           Has(Got(Got(Got(g, "backup0", o0), "backup1", o1), "backup2", o2), "backup2", o2)
    PROVE  Does(E, WorkaroundF149, P(b, ir, cntrl, 1, mab, dto, din, mdb, Fetch), g,
                P(c18, IR_EMEX_DATA_EXCHANGE, cntrl, 1, mab, dto, din, mdb, Fetch), Got(Got(Got(g, "backup0", o0), "backup1", o1), "backup2", o2))
  <1> DEFINE S == <<kIr(kdNone, IR_EMEX_DATA_EXCHANGE, kdNone),
                    kDr16(\h03),
                    kDr16_ret(0),
                    kDr16(\h0B),
                    kDr16_ret(0),
                    kDr16(\h13),
                    kDr16_ret(0),
                    kDr16(\h02),
                    kDr16(0),
                    kDr16(\h0A),
                    kDr16(0),
                    kDr16(\h12),
                    kDr16(0),
                    kDr16(\h02),
                    kDr16ArgvI,
                    kDr16(\h0A),
                    kDr16ArgvI,
                    kDr16(\h12),
                    kDr16ArgvI>>
             A == <<"backup0", "backup1", "backup2", "backup0", "backup1", "backup2">>
             u0 == P(b, ir, cntrl, 1, mab, dto, din, mdb, Fetch)
             u1 == P(b, IR_EMEX_DATA_EXCHANGE, cntrl, 1, mab, dto, din, mdb, Fetch)
             u2 == P(c1, IR_EMEX_DATA_EXCHANGE, cntrl, 1, mab, dto, din, mdb, Fetch)
             u3 == P(c2, IR_EMEX_DATA_EXCHANGE, cntrl, 1, mab, dto, din, mdb, Fetch)
             u4 == P(c3, IR_EMEX_DATA_EXCHANGE, cntrl, 1, mab, dto, din, mdb, Fetch)
             u5 == P(c4, IR_EMEX_DATA_EXCHANGE, cntrl, 1, mab, dto, din, mdb, Fetch)
             u6 == P(c5, IR_EMEX_DATA_EXCHANGE, cntrl, 1, mab, dto, din, mdb, Fetch)
             u7 == P(c6, IR_EMEX_DATA_EXCHANGE, cntrl, 1, mab, dto, din, mdb, Fetch)
             u8 == P(c7, IR_EMEX_DATA_EXCHANGE, cntrl, 1, mab, dto, din, mdb, Fetch)
             u9 == P(c8, IR_EMEX_DATA_EXCHANGE, cntrl, 1, mab, dto, din, mdb, Fetch)
             u10 == P(c9, IR_EMEX_DATA_EXCHANGE, cntrl, 1, mab, dto, din, mdb, Fetch)
             u11 == P(c10, IR_EMEX_DATA_EXCHANGE, cntrl, 1, mab, dto, din, mdb, Fetch)
             u12 == P(c11, IR_EMEX_DATA_EXCHANGE, cntrl, 1, mab, dto, din, mdb, Fetch)
             u13 == P(c12, IR_EMEX_DATA_EXCHANGE, cntrl, 1, mab, dto, din, mdb, Fetch)
             u14 == P(c13, IR_EMEX_DATA_EXCHANGE, cntrl, 1, mab, dto, din, mdb, Fetch)
             u15 == P(c14, IR_EMEX_DATA_EXCHANGE, cntrl, 1, mab, dto, din, mdb, Fetch)
             u16 == P(c15, IR_EMEX_DATA_EXCHANGE, cntrl, 1, mab, dto, din, mdb, Fetch)
             u17 == P(c16, IR_EMEX_DATA_EXCHANGE, cntrl, 1, mab, dto, din, mdb, Fetch)
             u18 == P(c17, IR_EMEX_DATA_EXCHANGE, cntrl, 1, mab, dto, din, mdb, Fetch)
             u19 == P(c18, IR_EMEX_DATA_EXCHANGE, cntrl, 1, mab, dto, din, mdb, Fetch)
             h1 == Got(g, "backup0", o0)
             h2 == Got(h1, "backup1", o1)
             h3 == Got(h2, "backup2", o2)
  <1>l. Len(S) = 19
        /\ S[1] = kIr(kdNone, IR_EMEX_DATA_EXCHANGE, kdNone) /\ S[2] = kDr16(\h03) /\ S[3] = kDr16_ret(0)
        /\ S[4] = kDr16(\h0B) /\ S[5] = kDr16_ret(0) /\ S[6] = kDr16(\h13)
        /\ S[7] = kDr16_ret(0) /\ S[8] = kDr16(\h02) /\ S[9] = kDr16(0)
        /\ S[10] = kDr16(\h0A) /\ S[11] = kDr16(0) /\ S[12] = kDr16(\h12)
        /\ S[13] = kDr16(0) /\ S[14] = kDr16(\h02) /\ S[15] = kDr16ArgvI
        /\ S[16] = kDr16(\h0A) /\ S[17] = kDr16ArgvI /\ S[18] = kDr16(\h12)
        /\ S[19] = kDr16ArgvI
    OBVIOUS
  <1>a. A[1] = "backup0" /\ A[2] = "backup1" /\ A[3] = "backup2" /\ A[4] = "backup0" /\ A[5] = "backup1" /\ A[6] = "backup2"
    OBVIOUS
  <1> HIDE DEF S, A
  <1>0. /\ At(S, 1, 2, kIr(kdNone, IR_EMEX_DATA_EXCHANGE, kdNone)) /\ At(S, 2, 3, kDr16(\h03))
        /\ At(S, 3, 4, kDr16_ret(0)) /\ At(S, 4, 5, kDr16(\h0B))
        /\ At(S, 5, 6, kDr16_ret(0)) /\ At(S, 6, 7, kDr16(\h13))
        /\ At(S, 7, 8, kDr16_ret(0)) /\ At(S, 8, 9, kDr16(\h02))
        /\ At(S, 9, 10, kDr16(0)) /\ At(S, 10, 11, kDr16(\h0A))
        /\ At(S, 11, 12, kDr16(0)) /\ At(S, 12, 13, kDr16(\h12))
        /\ At(S, 13, 14, kDr16(0)) /\ At(S, 14, 15, kDr16(\h02))
        /\ At(S, 15, 16, kDr16ArgvI) /\ At(S, 16, 17, kDr16(\h0A))
        /\ At(S, 17, 18, kDr16ArgvI) /\ At(S, 18, 19, kDr16(\h12))
        /\ At(S, 19, 20, kDr16ArgvI) /\ Ends(S, 20)
        /\ Given(A, 1, 2, "backup0") /\ Given(A, 2, 3, "backup1")
        /\ Given(A, 3, 4, "backup2") /\ Given(A, 4, 5, "backup0")
        /\ Given(A, 5, 6, "backup1") /\ Given(A, 6, 7, "backup2")
    BY <1>l, <1>a DEF At, Given, Ends
  <1>q. /\ Sound(b) /\ Quiet(b) /\ Calm(b) /\ Legacy(b)
        /\ Sound(c1) /\ Legacy(c1)
        /\ Sound(c10) /\ Legacy(c10)
        /\ Sound(c11) /\ Legacy(c11)
        /\ Sound(c12) /\ Legacy(c12)
        /\ Sound(c13) /\ Legacy(c13)
        /\ Sound(c14) /\ Legacy(c14)
        /\ Sound(c15) /\ Legacy(c15)
        /\ Sound(c16) /\ Legacy(c16)
        /\ Sound(c17) /\ Legacy(c17)
        /\ Sound(c18) /\ Legacy(c18)
        /\ Sound(c2) /\ Legacy(c2)
        /\ Sound(c3) /\ Legacy(c3)
        /\ Sound(c4) /\ Legacy(c4)
        /\ Sound(c5) /\ Legacy(c5)
        /\ Sound(c6) /\ Legacy(c6)
        /\ Sound(c7) /\ Legacy(c7)
        /\ Sound(c8) /\ Legacy(c8)
        /\ Sound(c9) /\ Legacy(c9)
    BY DEF Calm, Quiet, Scanned, ScannedOut, Moved
  <1>k. /\ 0 \in Values16 /\ \h02 \in Values16 /\ \h03 \in Values16 /\ \h0A \in Values16 /\ \h0B \in Values16 /\ \h12 \in Values16 /\ \h13 \in Values16 /\ IR_EMEX_DATA_EXCHANGE \in EemCodes /\ h3 = Got(Got(Got(g, "backup0", o0), "backup1", o1), "backup2", o2)
        /\ Has(h3, "backup0", o0) /\ Has(h3, "backup1", o1) /\ Has(h3, "backup2", o2)
    BY <1>q, ControlWords, ExecutesOnly, EemCodesAre DEF Values16
  <1> HIDE DEF u0, u1, u2, u3, u4, u5, u6, u7, u8, u9, u10, u11, u12, u13, u14, u15, u16, u17, u18, u19, h1, h2, h3
  <1>1. Reached(E, S, A, u0, g, 1, 1, u0, g)
    BY RowBegin
  <1>2. Edge(E, kdNone, u0, u0)
    BY EdgeNone
  <1>3. Does(E, Ir(IR_EMEX_DATA_EXCHANGE), u0, g, u1, g)
    BY <1>q, <1>k, Ports, IrDoes DEF u0, u1
  <1>4. Edge(E, kdNone, u1, u1)
    BY EdgeNone
  <1>5. Reached(E, S, A, u0, g, 2, 1, u1, g)
    BY <1>0, <1>k, Ports, <1>1, <1>2, <1>3, <1>4, RowIr
  <1>6. Does(E, Dr(\h03), u1, g, u2, g)
    BY <1>q, <1>k, Ports, DrScanned DEF u1, u2
  <1>7. Reached(E, S, A, u0, g, 3, 1, u2, g)
    BY <1>0, <1>k, Ports, <1>5, <1>6, RowDr
  <1>8. Does(E, DrTo(0, "backup0"), u2, g, u3, h1)
    BY <1>q, <1>k, Ports, PlainAre, DrScannedTo DEF u2, u3, h1
  <1>9. Reached(E, S, A, u0, g, 4, 2, u3, h1)
    BY <1>0, <1>k, Ports, <1>7, <1>8, RowDrTo
  <1>10. Does(E, Dr(\h0B), u3, h1, u4, h1)
    BY <1>q, <1>k, Ports, DrScanned DEF u3, u4
  <1>11. Reached(E, S, A, u0, g, 5, 2, u4, h1)
    BY <1>0, <1>k, Ports, <1>9, <1>10, RowDr
  <1>12. Does(E, DrTo(0, "backup1"), u4, h1, u5, h2)
    BY <1>q, <1>k, Ports, PlainAre, DrScannedTo DEF u4, u5, h2
  <1>13. Reached(E, S, A, u0, g, 6, 3, u5, h2)
    BY <1>0, <1>k, Ports, <1>11, <1>12, RowDrTo
  <1>14. Does(E, Dr(\h13), u5, h2, u6, h2)
    BY <1>q, <1>k, Ports, DrScanned DEF u5, u6
  <1>15. Reached(E, S, A, u0, g, 7, 3, u6, h2)
    BY <1>0, <1>k, Ports, <1>13, <1>14, RowDr
  <1>16. Does(E, DrTo(0, "backup2"), u6, h2, u7, h3)
    BY <1>q, <1>k, Ports, PlainAre, DrScannedTo DEF u6, u7, h3
  <1>17. Reached(E, S, A, u0, g, 8, 4, u7, h3)
    BY <1>0, <1>k, Ports, <1>15, <1>16, RowDrTo
  <1>18. Does(E, Dr(\h02), u7, h3, u8, h3)
    BY <1>q, <1>k, Ports, DrScanned DEF u7, u8
  <1>19. Reached(E, S, A, u0, g, 9, 4, u8, h3)
    BY <1>0, <1>k, Ports, <1>17, <1>18, RowDr
  <1>20. Does(E, Dr(0), u8, h3, u9, h3)
    BY <1>q, <1>k, Ports, DrScanned DEF u8, u9
  <1>21. Reached(E, S, A, u0, g, 10, 4, u9, h3)
    BY <1>0, <1>k, Ports, <1>19, <1>20, RowDr
  <1>22. Does(E, Dr(\h0A), u9, h3, u10, h3)
    BY <1>q, <1>k, Ports, DrScanned DEF u9, u10
  <1>23. Reached(E, S, A, u0, g, 11, 4, u10, h3)
    BY <1>0, <1>k, Ports, <1>21, <1>22, RowDr
  <1>24. Does(E, Dr(0), u10, h3, u11, h3)
    BY <1>q, <1>k, Ports, DrScanned DEF u10, u11
  <1>25. Reached(E, S, A, u0, g, 12, 4, u11, h3)
    BY <1>0, <1>k, Ports, <1>23, <1>24, RowDr
  <1>26. Does(E, Dr(\h12), u11, h3, u12, h3)
    BY <1>q, <1>k, Ports, DrScanned DEF u11, u12
  <1>27. Reached(E, S, A, u0, g, 13, 4, u12, h3)
    BY <1>0, <1>k, Ports, <1>25, <1>26, RowDr
  <1>28. Does(E, Dr(0), u12, h3, u13, h3)
    BY <1>q, <1>k, Ports, DrScanned DEF u12, u13
  <1>29. Reached(E, S, A, u0, g, 14, 4, u13, h3)
    BY <1>0, <1>k, Ports, <1>27, <1>28, RowDr
  <1>30. Does(E, Dr(\h02), u13, h3, u14, h3)
    BY <1>q, <1>k, Ports, DrScanned DEF u13, u14
  <1>31. Reached(E, S, A, u0, g, 15, 4, u14, h3)
    BY <1>0, <1>k, Ports, <1>29, <1>30, RowDr
  <1>32. Does(E, DrFrom("backup0", 0), u14, h3, u15, h3)
    BY <1>q, <1>k, Ports, PlainAre, DrScannedFrom DEF u14, u15, h3
  <1>33. Reached(E, S, A, u0, g, 16, 5, u15, h3)
    BY <1>0, <1>k, Ports, <1>31, <1>32, RowDrFrom
  <1>34. Does(E, Dr(\h0A), u15, h3, u16, h3)
    BY <1>q, <1>k, Ports, DrScanned DEF u15, u16
  <1>35. Reached(E, S, A, u0, g, 17, 5, u16, h3)
    BY <1>0, <1>k, Ports, <1>33, <1>34, RowDr
  <1>36. Does(E, DrFrom("backup1", 0), u16, h3, u17, h3)
    BY <1>q, <1>k, Ports, PlainAre, DrScannedFrom DEF u16, u17, h3
  <1>37. Reached(E, S, A, u0, g, 18, 6, u17, h3)
    BY <1>0, <1>k, Ports, <1>35, <1>36, RowDrFrom
  <1>38. Does(E, Dr(\h12), u17, h3, u18, h3)
    BY <1>q, <1>k, Ports, DrScanned DEF u17, u18
  <1>39. Reached(E, S, A, u0, g, 19, 6, u18, h3)
    BY <1>0, <1>k, Ports, <1>37, <1>38, RowDr
  <1>40. Does(E, DrFrom("backup2", 0), u18, h3, u19, h3)
    BY <1>q, <1>k, Ports, PlainAre, DrScannedFrom DEF u18, u19, h3
  <1>41. Reached(E, S, A, u0, g, 20, 7, u19, h3)
    BY <1>0, <1>k, Ports, <1>39, <1>40, RowDrFrom
  <1>42. Does(E, Play(S, A), u0, g, u19, h3)
    BY <1>0, <1>41, ScriptEnd
  <1> QED BY <1>42 DEF S, A, u0, u19, h1, h2, h3, WorkaroundF149

\* A register of the clock control is read.
LEMMA FllRows ==
    ASSUME NEW E, NEW g, NEW b, Calm(b), Legacy(b), NEW ir, NEW cntrl, NEW mab, NEW dto, NEW din,
           NEW mdb,
           NEW c1, NEW c2, NEW o, Scanned(E, b, \h89, c1), ScannedOut(E, c1, c2, o)
    PROVE  Does(E, Play(<<kIrDr16(IR_EMEX_DATA_EXCHANGE, \h89), kDr16_ret(0)>>, <<"clk_ctrl">>), P(b, ir, cntrl, 1, mab, dto, din, mdb, Fetch), g,
                P(c2, IR_EMEX_DATA_EXCHANGE, cntrl, 1, mab, dto, din, mdb, Fetch), Got(g, "clk_ctrl", o))
  <1> DEFINE S == <<kIrDr16(IR_EMEX_DATA_EXCHANGE, \h89),
                    kDr16_ret(0)>>
             A == <<"clk_ctrl">>
             u0 == P(b, ir, cntrl, 1, mab, dto, din, mdb, Fetch)
             u1 == P(b, IR_EMEX_DATA_EXCHANGE, cntrl, 1, mab, dto, din, mdb, Fetch)
             u2 == P(c1, IR_EMEX_DATA_EXCHANGE, cntrl, 1, mab, dto, din, mdb, Fetch)
             u3 == P(c2, IR_EMEX_DATA_EXCHANGE, cntrl, 1, mab, dto, din, mdb, Fetch)
             h1 == Got(g, "clk_ctrl", o)
  <1>l. Len(S) = 2
        /\ S[1] = kIrDr16(IR_EMEX_DATA_EXCHANGE, \h89) /\ S[2] = kDr16_ret(0)
    OBVIOUS
  <1>a. A[1] = "clk_ctrl"
    OBVIOUS
  <1> HIDE DEF S, A
  <1>0. /\ At(S, 1, 2, kIrDr16(IR_EMEX_DATA_EXCHANGE, \h89)) /\ At(S, 2, 3, kDr16_ret(0))
        /\ Ends(S, 3) /\ Given(A, 1, 2, "clk_ctrl")
    BY <1>l, <1>a DEF At, Given, Ends
  <1>q. /\ Sound(b) /\ Quiet(b) /\ Calm(b) /\ Legacy(b)
        /\ Sound(c1) /\ Legacy(c1)
        /\ Sound(c2) /\ Legacy(c2)
    BY DEF Calm, Quiet, Scanned, ScannedOut, Moved
  <1>k. /\ \h89 \in Values16 /\ IR_EMEX_DATA_EXCHANGE \in EemCodes
    BY <1>q, ControlWords, ExecutesOnly, EemCodesAre DEF Values16
  <1> HIDE DEF u0, u1, u2, u3, h1
  <1>1. Reached(E, S, A, u0, g, 1, 1, u0, g)
    BY RowBegin
  <1>2. Does(E, Ir(IR_EMEX_DATA_EXCHANGE), u0, g, u1, g)
    BY <1>q, <1>k, Ports, IrDoes DEF u0, u1
  <1>3. Does(E, Dr(\h89), u1, g, u2, g)
    BY <1>q, <1>k, Ports, DrScanned DEF u1, u2
  <1>4. Reached(E, S, A, u0, g, 2, 1, u2, g)
    BY <1>0, <1>k, Ports, <1>1, <1>2, <1>3, RowIrDr
  <1>5. Does(E, DrTo(0, "clk_ctrl"), u2, g, u3, h1)
    BY <1>q, <1>k, Ports, PlainAre, DrScannedTo DEF u2, u3, h1
  <1>6. Reached(E, S, A, u0, g, 3, 2, u3, h1)
    BY <1>0, <1>k, Ports, <1>4, <1>5, RowDrTo
  <1>7. Does(E, Play(S, A), u0, g, u3, h1)
    BY <1>0, <1>6, ScriptEnd
  <1> QED BY <1>7 DEF S, A, u0, u3, h1

\* The modules the clock control lets run.
LEMMA ClockRows ==
    ASSUME NEW E, NEW g, NEW b, Calm(b), Legacy(b), NEW ir, NEW cntrl, NEW mab, NEW dto, NEW din,
           NEW mdb,
           NEW n, NEW d, Low(n, d), NEW c1, NEW c2, Scanned(E, b, \h88, c1), Scanned(E, c1, d, c2)
    PROVE  Does(E, Play(<<kIrDr16(IR_EMEX_DATA_EXCHANGE, \h88), kDr16Argv>>, <<n>>), P(b, ir, cntrl, 1, mab, dto, din, mdb, Fetch), g,
                P(c2, IR_EMEX_DATA_EXCHANGE, cntrl, 1, mab, dto, din, mdb, Fetch), g)
  <1> DEFINE S == <<kIrDr16(IR_EMEX_DATA_EXCHANGE, \h88),
                    kDr16Argv>>
             A == <<n>>
             u0 == P(b, ir, cntrl, 1, mab, dto, din, mdb, Fetch)
             u1 == P(b, IR_EMEX_DATA_EXCHANGE, cntrl, 1, mab, dto, din, mdb, Fetch)
             u2 == P(c1, IR_EMEX_DATA_EXCHANGE, cntrl, 1, mab, dto, din, mdb, Fetch)
             u3 == P(c2, IR_EMEX_DATA_EXCHANGE, cntrl, 1, mab, dto, din, mdb, Fetch)
  <1>l. Len(S) = 2
        /\ S[1] = kIrDr16(IR_EMEX_DATA_EXCHANGE, \h88) /\ S[2] = kDr16Argv
    OBVIOUS
  <1>a. A[1] = n
    OBVIOUS
  <1> HIDE DEF S, A
  <1>0. /\ At(S, 1, 2, kIrDr16(IR_EMEX_DATA_EXCHANGE, \h88)) /\ At(S, 2, 3, kDr16Argv)
        /\ Ends(S, 3) /\ Given(A, 1, 2, n)
    BY <1>l, <1>a DEF At, Given, Ends
  <1>q. /\ Sound(b) /\ Quiet(b) /\ Calm(b) /\ Legacy(b)
        /\ Sound(c1) /\ Legacy(c1)
        /\ Sound(c2) /\ Legacy(c2)
    BY DEF Calm, Quiet, Scanned, ScannedOut, Moved
  <1>k. /\ \h88 \in Values16 /\ IR_EMEX_DATA_EXCHANGE \in EemCodes
    BY <1>q, ControlWords, ExecutesOnly, EemCodesAre DEF Values16
  <1> HIDE DEF u0, u1, u2, u3
  <1>1. Reached(E, S, A, u0, g, 1, 1, u0, g)
    BY RowBegin
  <1>2. Does(E, Ir(IR_EMEX_DATA_EXCHANGE), u0, g, u1, g)
    BY <1>q, <1>k, Ports, IrDoes DEF u0, u1
  <1>3. Does(E, Dr(\h88), u1, g, u2, g)
    BY <1>q, <1>k, Ports, DrScanned DEF u1, u2
  <1>4. Reached(E, S, A, u0, g, 2, 1, u2, g)
    BY <1>0, <1>k, Ports, <1>1, <1>2, <1>3, RowIrDr
  <1>5. Does(E, Dr(d), u2, g, u3, g)
    BY <1>q, <1>k, Ports, DrScanned DEF u2, u3
  <1>6. Reached(E, S, A, u0, g, 3, 2, u3, g)
    BY <1>0, <1>k, Ports, <1>4, <1>5, RowDrLow
  <1>7. Does(E, Play(S, A), u0, g, u3, g)
    BY <1>0, <1>6, ScriptEnd
  <1> QED BY <1>7 DEF S, A, u0, u3

\* The instruction at a breakpoint is put on the bus.
LEMMA MdbRows ==
    ASSUME NEW E, NEW g, NEW b, Calm(b), Legacy(b), NEW ir, NEW mab, NEW dto, NEW din, NEW mdb,
           NEW v, NEW d, Low(v, d)
    PROVE  Does(E, Play(<<kIrDr16Argv(kdNone, IR_DATA_16BIT, kdTclk0), kIr(kdNone, IR_ADDR_CAPTURE, kdTclk1)>>, <<v>>), P(b, ir, \h2401, 1, mab, dto, din, mdb, Fetch), g,
                P(b, IR_ADDR_CAPTURE, \h2401, 1, mab, dto, d, mdb, Fetch), g)
  <1> DEFINE S == <<kIrDr16Argv(kdNone, IR_DATA_16BIT, kdTclk0),
                    kIr(kdNone, IR_ADDR_CAPTURE, kdTclk1)>>
             A == <<v>>
             u0 == P(b, ir, \h2401, 1, mab, dto, din, mdb, Fetch)
             u1 == P(b, IR_DATA_16BIT, \h2401, 1, mab, dto, din, mdb, Fetch)
             u2 == P(b, IR_DATA_16BIT, \h2401, 1, mab, dto, d, mdb, Fetch)
             u3 == P(b, IR_DATA_16BIT, \h2401, 0, mab, dto, d, mdb, Fetch)
             u4 == P(b, IR_ADDR_CAPTURE, \h2401, 0, mab, dto, d, mdb, Fetch)
             u5 == P(b, IR_ADDR_CAPTURE, \h2401, 1, mab, dto, d, mdb, Fetch)
  <1>l. Len(S) = 2
        /\ S[1] = kIrDr16Argv(kdNone, IR_DATA_16BIT, kdTclk0) /\ S[2] = kIr(kdNone, IR_ADDR_CAPTURE, kdTclk1)
    OBVIOUS
  <1>a. A[1] = v
    OBVIOUS
  <1> HIDE DEF S, A
  <1>0. /\ At(S, 1, 2, kIrDr16Argv(kdNone, IR_DATA_16BIT, kdTclk0)) /\ At(S, 2, 3, kIr(kdNone, IR_ADDR_CAPTURE, kdTclk1))
        /\ Ends(S, 3) /\ Given(A, 1, 2, v)
    BY <1>l, <1>a DEF At, Given, Ends
  <1>q. /\ Sound(b) /\ Quiet(b) /\ Calm(b) /\ Legacy(b)
    BY DEF Calm, Quiet, Low
  <1>v. d \in Values16
    BY ControlWords DEF Low
  <1>k. /\ d \in Values16 /\ Rests(b, \h2401) /\ ~Writes(b, \h2401)
    BY <1>q, ControlWords, ExecutesOnly, <1>v DEF Values16
  <1> HIDE DEF u0, u1, u2, u3, u4, u5
  <1>1. Reached(E, S, A, u0, g, 1, 1, u0, g)
    BY RowBegin
  <1>2. Edge(E, kdNone, u0, u0)
    BY EdgeNone
  <1>3. Does(E, Ir(IR_DATA_16BIT), u0, g, u1, g)
    BY <1>q, <1>k, Ports, IrDoes DEF u0, u1
  <1>4. Does(E, Dr(d), u1, g, u2, g)
    BY <1>q, <1>k, DrDin DEF u1, u2
  <1>5. Edge(E, kdTclk0, u2, u3)
    BY <1>q, <1>k, Ports, EdgeFall DEF u2, u3
  <1>6. Reached(E, S, A, u0, g, 2, 2, u3, g)
    BY <1>0, <1>k, Ports, <1>1, <1>2, <1>3, <1>4, <1>5, RowIrDrArgv
  <1>7. Edge(E, kdNone, u3, u3)
    BY EdgeNone
  <1>8. Does(E, Ir(IR_ADDR_CAPTURE), u3, g, u4, g)
    BY <1>q, <1>k, Ports, IrDoes DEF u3, u4
  <1>9. Edge(E, kdTclk1, u4, u5)
    BY <1>q, <1>k, Ports, EdgeIdle DEF u4, u5
  <1>10. Reached(E, S, A, u0, g, 3, 2, u5, g)
    BY <1>0, <1>k, Ports, <1>6, <1>7, <1>8, <1>9, RowIr
  <1>11. Does(E, Play(S, A), u0, g, u5, g)
    BY <1>0, <1>10, ScriptEnd
  <1> QED BY <1>11 DEF S, A, u0, u5

-----------------------------------------------------------------------------
(* A target between two operations.                                        *)

\* A sound target that differs by memory and registers only from one between two
\* operations is one too.
LEMMA AkinRests ==
    ASSUME NEW p, NEW b, NEW c, Resting(p, b), Akin(b, c), Sound(c)
    PROVE  Resting(p, c)
  BY DEF Resting, Akin, Belongs, Shut, Armed

\* A target is akin to itself.
LEMMA AkinSelf ==
    ASSUME NEW b
    PROVE  Akin(b, b)
  BY DEF Akin

\* Targets akin to the same one are akin.
LEMMA AkinBoth ==
    ASSUME NEW b, NEW c, NEW d, Akin(b, c), Akin(c, d)
    PROVE  Akin(b, d)
  BY DEF Akin

\* What a target between two operations is.
LEMMA RestingIs ==
    ASSUME NEW p, NEW b, Resting(p, b)
    PROVE  /\ Calm(b) /\ Quiet(b) /\ Sound(b) /\ b \in Target /\ (Legacy(b) <=> Legacy(p))
           /\ RegSize(b) = RegSize(p) /\ RegValues(b) = RegValues(p)
           /\ b.drv = p.drv /\ b.id = p.id
  BY DEF Resting, Belongs, Shut, Calm, Quiet, Sound, Legacy, RegSize, RegValues

\* Targets that are akin have the same driver.
LEMMA AkinIs ==
    ASSUME NEW b, NEW c, Akin(b, c)
    PROVE  /\ Legacy(c) <=> Legacy(b)
           /\ RegSize(c) = RegSize(b) /\ RegValues(c) = RegValues(b)
           /\ Calm(b) /\ Sound(c) => Calm(c)
  BY DEF Akin, Calm, Quiet, Legacy, RegSize, RegValues

\* A target is itself with the columns of its port put back.
LEMMA Columns ==
    ASSUME NEW u, u \in Target
    PROVE  u = P(u, u.ir, u.cntrl, u.tclk, u.mab, u.dto, u.din, u.mdb, u.cpu)
  BY DEF P, Target

\* Moving the port leaves what is behind it alone.
LEMMA BehindIs ==
    ASSUME NEW c, c \in Target, NEW ir, NEW cntrl, NEW tclk, NEW mab, NEW dto, NEW din, NEW mdb,
           NEW cpu
    PROVE  Behind(c, P(c, ir, cntrl, tclk, mab, dto, din, mdb, cpu))
  <1> DEFINE w == P(c, ir, cntrl, tclk, mab, dto, din, mdb, cpu)
  <1>1. Akin(c, w) /\ w.mem = c.mem /\ w.reg = c.reg /\ w.n = c.n /\ w.pcok = c.pcok
        /\ w.wdt = c.wdt /\ w.eemctl = c.eemctl
    BY PFields DEF Akin
  <1> QED BY <1>1 DEF Behind, Held

\* An operation of the older drivers that leaves the port at rest leaves the
\* target ready.
LEMMA ReadyAfter ==
    ASSUME NEW p, Legacy(p), NEW c, Resting(p, c), NEW ir, NEW cntrl, NEW mab, NEW dto, NEW din,
           NEW mdb, Rested(ir, cntrl),
           Sound(P(c, ir, cntrl, 1, mab, dto, din, mdb, Fetch))
    PROVE  /\ Ready(p, P(c, ir, cntrl, 1, mab, dto, din, mdb, Fetch))
           /\ Behind(c, P(c, ir, cntrl, 1, mab, dto, din, mdb, Fetch)) /\ P(c, ir, cntrl, 1, mab, dto, din, mdb, Fetch).cntrl = cntrl
  <1> DEFINE w == P(c, ir, cntrl, 1, mab, dto, din, mdb, Fetch)
  <1>1. c \in Target /\ Sound(c)
    BY RestingIs
  <1>2. /\ w.ir = ir /\ w.cntrl = cntrl /\ w.tclk = 1 /\ w.cpu = Fetch
    BY <1>1, PFields
  <1>3. Behind(c, w)
    BY <1>1, BehindIs
  <1> HIDE DEF w
  <1>4. Resting(p, w)
    BY <1>3, AkinRests DEF Behind, w
  <1>5. Legacy(w)
    BY <1>4, RestingIs
  <1>6. Ready(p, w)
    BY <1>2, <1>4, <1>5 DEF Ready
  <1> QED BY <1>2, <1>3, <1>6 DEF w

\* The columns of a target that is ready for the older drivers.
LEMMA ReadyLegacy ==
    ASSUME NEW p, Legacy(p), NEW u, Ready(p, u)
    PROVE  /\ u = P(u, u.ir, u.cntrl, 1, u.mab, u.dto, u.din, u.mdb, Fetch)
           /\ Calm(u) /\ Legacy(u) /\ Rested(u.ir, u.cntrl)
  <1>1. u.cpu = Fetch /\ u.tclk = 1 /\ Rested(u.ir, u.cntrl) /\ Calm(u) /\ Legacy(u) /\ u \in Target
    BY RestingIs DEF Ready
  <1> QED BY <1>1, Columns

\* Codes and control words at rest.
LEMMA RestedAre ==
    /\ Rested(IR_CNTRL_SIG_16BIT, \h2401) /\ Rested(IR_ADDR_CAPTURE, \h2401)
    /\ Rested(IR_DATA_TO_ADDR, \h2408) /\ Rested(IR_EMEX_DATA_EXCHANGE, \h2401)
    /\ \A k, m : Takes(k, m) => Rested(IR_CNTRL_SIG_HIGH_BYTE, k)
    /\ \A ir, k : Rested(ir, k) => \E m : Takes(k, m)
  <1>1. IR_CNTRL_SIG_16BIT \in Octets /\ IR_ADDR_CAPTURE \in Octets /\ IR_DATA_TO_ADDR \in Octets
        /\ IR_CNTRL_SIG_HIGH_BYTE \in Octets /\ IR_EMEX_DATA_EXCHANGE \in Octets
    BY Ports
  <1>2. /\ IR_ADDR_CAPTURE # IR_DATA_QUICK /\ IR_DATA_TO_ADDR # IR_DATA_QUICK
        /\ IR_CNTRL_SIG_16BIT # IR_DATA_QUICK /\ IR_CNTRL_SIG_HIGH_BYTE # IR_DATA_QUICK
        /\ IR_EMEX_DATA_EXCHANGE # IR_DATA_QUICK
    BY Ports
  <1>3. \A k, m : Takes(k, m) => Rested(IR_CNTRL_SIG_HIGH_BYTE, k)
    BY <1>1, <1>2 DEF Rested, Takes
  <1>4. \A ir, k : Rested(ir, k) => \E m : Takes(k, m)
    BY TakesIs DEF Rested
  <1>5. Rested(IR_CNTRL_SIG_16BIT, \h2401) /\ Rested(IR_ADDR_CAPTURE, \h2401)
    BY <1>1, <1>2 DEF Rested
  <1>6. Rested(IR_DATA_TO_ADDR, \h2408) /\ Rested(IR_EMEX_DATA_EXCHANGE, \h2401)
    BY <1>1, <1>2 DEF Rested
  <1> QED BY <1>3, <1>4, <1>5, <1>6

-----------------------------------------------------------------------------
(* Instructions, and what they do to the target.                           *)

\* The registers are of the CPU.
LEMMA RegsAre ==
    Regs \subseteq Nibbles /\ 0 \in Regs /\ 2 \in Regs
  BY MemoryAssumption DEF Regs, Nibbles

Imm(r, hi) == [k |-> "imm", r |-> r, hi |-> hi]
Abs(r)     == [k |-> "abs", r |-> r, hi |-> 0]

\* MOV #imm,Rn and MOV Rn,&abs.
LEMMA DecodeStd ==
    ASSUME NEW b, b.drv = "std", NEW r \in Nibbles
    PROVE  /\ \E w : Low(\h4030 + r, w) /\ Fetches(b, w, Imm(r, 0))
           /\ \E w : Low(r * 256 + \h4082, w) /\ Fetches(b, w, Abs(r))
  <1>1. (\h4030 + r) % 2^16 = \h4030 + r /\ \h4030 + r \in Values16
    BY DEF Nibbles, Values16
  <1>2. (\h4030 + r) \div 16 = \h403 /\ (\h4030 + r) % 16 = r /\ (\h4030 + r) % 256 # \h82
    BY DEF Nibbles
  <1>3. (r * 256 + \h4082) % 2^16 = r * 256 + \h4082 /\ r * 256 + \h4082 \in Values16
    BY DEF Nibbles, Values16
  <1>4. /\ (r * 256 + \h4082) \div 4096 = 4 /\ (r * 256 + \h4082) % 256 = \h82
        /\ ((r * 256 + \h4082) \div 256) % 16 = r /\ (r * 256 + \h4082) \div 16 # \h403
    BY DEF Nibbles
  <1>5. Decode(b, \h4030 + r) = Imm(r, 0)
    BY <1>2 DEF Decode, Imm
  <1>6. Decode(b, r * 256 + \h4082) = Abs(r)
    BY <1>4 DEF Decode, Abs
  <1>7. Imm(r, 0) \in CpuStates /\ Abs(r) \in CpuStates
    BY DEF Imm, Abs, CpuStates, Nibbles
  <1>8. Low(\h4030 + r, \h4030 + r) /\ Fetches(b, \h4030 + r, Imm(r, 0))
    BY <1>1, <1>5, <1>7 DEF Low, Fetches
  <1>9. Low(r * 256 + \h4082, r * 256 + \h4082) /\ Fetches(b, r * 256 + \h4082, Abs(r))
    BY <1>3, <1>6, <1>7 DEF Low, Fetches
  <1> QED BY <1>8, <1>9

\* A value of 20 bits, in the two words of an instruction.
Halves(v, hi, d) == Low(v, d) /\ hi \in Nibbles /\ hi * 2^16 + d = v /\ High(v) = hi * 256

\* A register is loaded in two parts: the word of the instruction and the word
\* behind it.
LEMMA HalvesAre ==
    ASSUME NEW v \in 0 .. 2^20 - 1
    PROVE  \E hi, d : Halves(v, hi, d)
  <1> DEFINE hi == v \div 2^16
             d  == v % 2^16
  <1>1. d \in Values16 /\ hi \in Nibbles /\ hi * 2^16 + d = v
    BY DEF Values16, Nibbles
  <1>2. High(v) = hi * 256
    BY DEF High
  <1>3. Low(v, d)
    BY <1>1 DEF Low
  <1> HIDE DEF hi, d
  <1>4. Halves(v, hi, d)
    BY <1>1, <1>2, <1>3 DEF Halves
  <1> QED BY <1>4

\* MOVA #imm,Rn and MOVA Rn,&abs.
LEMMA DecodeX ==
    ASSUME NEW b, b.drv # "std", NEW r \in Nibbles
    PROVE  /\ \A v, hi, d : Halves(v, hi, d) =>
                 \E w : /\ Low(\h0080 + r + High(v), w) /\ Low(\h0080 + High(v) + r, w)
                        /\ r = 0 => Low(\h0080 + High(v), w)
                        /\ Fetches(b, w, Imm(r, hi))
           /\ \E w : Low(r * 256 + \h60, w) /\ Fetches(b, w, Abs(r))
  <1>1. ASSUME NEW v, NEW hi, NEW d, Halves(v, hi, d)
        PROVE  \E w : /\ Low(\h0080 + r + High(v), w) /\ Low(\h0080 + High(v) + r, w)
                      /\ r = 0 => Low(\h0080 + High(v), w)
                      /\ Fetches(b, w, Imm(r, hi))
    <2> DEFINE w == \h0080 + r + hi * 256
    <2>0. hi \in Nibbles /\ High(v) = hi * 256
      BY <1>1 DEF Halves
    <2>1. /\ \h0080 + r + High(v) = w /\ \h0080 + High(v) + r = w
          /\ r = 0 => \h0080 + High(v) = w
      BY <2>0 DEF Nibbles
    <2>2. w % 2^16 = w /\ w \in Values16
      BY <2>0 DEF Nibbles, Values16
    <2>3. w \div 4096 = 0 /\ (w \div 16) % 16 = 8 /\ w % 16 = r /\ w \div 256 = hi /\ w % 256 # \h60
      BY <2>0 DEF Nibbles
    <2> HIDE DEF w
    <2>4. Low(w, w)
      BY <2>2 DEF Low
    <2>5. Decode(b, w) = Imm(r, hi)
      BY <2>3 DEF Decode, Imm
    <2>6. Imm(r, hi) \in CpuStates
      BY <2>0 DEF Imm, CpuStates, Nibbles
    <2>7. Fetches(b, w, Imm(r, hi))
      BY <2>5, <2>6 DEF Fetches
    <2> QED BY <2>1, <2>4, <2>7
  <1>2. (r * 256 + \h60) % 2^16 = r * 256 + \h60 /\ r * 256 + \h60 \in Values16
    BY DEF Nibbles, Values16
  <1>3. /\ (r * 256 + \h60) \div 4096 = 0 /\ (r * 256 + \h60) % 256 = \h60
        /\ (r * 256 + \h60) \div 256 = r /\ ((r * 256 + \h60) \div 16) % 16 # 8
    BY DEF Nibbles
  <1>4. Decode(b, r * 256 + \h60) = Abs(r) /\ Abs(r) \in CpuStates
    BY <1>3 DEF Decode, Abs, CpuStates, Nibbles
  <1>5. Low(r * 256 + \h60, r * 256 + \h60) /\ Fetches(b, r * 256 + \h60, Abs(r))
    BY <1>2, <1>4 DEF Low, Fetches
  <1> QED BY <1>1, <1>5

\* The program counter moves within its register.
LEMMA PcIn ==
    ASSUME NEW b, Sound(b), NEW n \in Nat
    PROVE  PcPlus(b, n) \in RegValues(b) /\ b.reg[0] \in RegValues(b)
  <1>1. b.reg[0] \in RegValues(b)
    BY RegsAre DEF Sound
  <1>2. b.reg[0] \in Nat /\ RegSize(b) \in Nat \ {0}
    BY <1>1 DEF RegValues, RegSize
  <1>3. (b.reg[0] + n) % RegSize(b) \in 0 .. RegSize(b) - 1
    BY <1>2
  <1> QED BY <1>1, <1>3 DEF PcPlus, RegValues

\* What a load changes behind the port.
LEMMA LoadedIs ==
    ASSUME NEW b, Sound(b), NEW r \in Regs, NEW v \in RegValues(b), NEW c, c = Loaded(b, r, v)
    PROVE  /\ Akin(b, c) /\ Sound(c) /\ c.drv = b.drv /\ c.mem = b.mem /\ c.wdt = b.wdt
           /\ c.reg[r] = v /\ c.pcok = (r = 0) /\ c.n = IF r = 0 THEN b.n ELSE b.n + 1
           /\ r = 0 => Held(c) = Held(b)
           /\ r # 0 => Held(c) = [Held(b) EXCEPT ![r] = v]
  <1> DEFINE s == [[b.reg EXCEPT ![0] = PcPlus(b, 4)] EXCEPT ![r] = v]
             m == IF r = 0 THEN b.n ELSE b.n + 1
             ok == (r = 0)
  <1>0. b \in Target /\ 0 \in Regs /\ PcPlus(b, 4) \in RegValues(b) /\ b.reg \in [Regs -> Nat] /\ b.n \in Nat
    BY RegsAre, PcIn DEF Sound, Target
  <1>1. c = [b EXCEPT !.pcok = ok, !.n = m, !.reg = s]
    BY DEF Loaded
  <1>2. v \in Nat /\ PcPlus(b, 4) \in Nat
    BY <1>0 DEF RegValues, RegSize
  <1>3. /\ s \in [Regs -> Nat] /\ s[r] = v /\ (r # 0 => s[0] = PcPlus(b, 4))
        /\ \A i \in Regs \ {0, r} : s[i] = b.reg[i]
    BY <1>0, <1>2
  <1>4. m \in Nat /\ ok \in BOOLEAN
    BY <1>0
  <1> HIDE DEF s, m, ok
  <1>5. /\ Akin(b, c) /\ c.reg = s /\ c.n = m /\ c.pcok = ok /\ c.mem = b.mem /\ c.wdt = b.wdt
        /\ c.running = b.running /\ c.mab = b.mab /\ c.drv = b.drv
    BY <1>0, <1>1 DEF Target, Akin
  <1>6. c \in Target
    <2> DEFINE c1 == [b EXCEPT !.n = m]
               c2 == [c1 EXCEPT !.reg = s]
    <2>0. b \in Target /\ s \in [Regs -> Nat] /\ m \in Nat
      BY <1>0, <1>3, <1>4
    <2>1. c1 \in Target
      BY <2>0 DEF Target
    <2>2. c = [c2 EXCEPT !.pcok = ok]
      BY <1>1
    <2> HIDE DEF c1
    <2>3. c2 \in Target
      BY <2>0, <2>1 DEF Target
    <2> HIDE DEF c2
    <2>4. [c2 EXCEPT !.pcok = TRUE] \in Target /\ [c2 EXCEPT !.pcok = FALSE] \in Target
      BY <2>3 DEF Target
    <2>5. ok = TRUE \/ ok = FALSE
      BY DEF ok
    <2> QED BY <2>2, <2>4, <2>5
  <1>7. RegValues(c) = RegValues(b)
    BY <1>5, AkinIs
  <1>8. \A i \in Regs : s[i] \in RegValues(b)
    BY <1>0, <1>3 DEF Sound
  <1>9. Sound(c)
    BY <1>5, <1>6, <1>7, <1>8 DEF Sound
  <1>10. DOMAIN s = Regs /\ DOMAIN b.reg = Regs
    BY <1>0, <1>3
  <1>11. Held(c) = [i \in Regs \ {0} |-> s[i]] /\ Held(b) = [i \in Regs \ {0} |-> b.reg[i]]
    BY <1>5, <1>10 DEF Held
  <1>12. r = 0 => Held(c) = Held(b)
    BY <1>3, <1>11
  <1>13. r # 0 => Held(c) = [Held(b) EXCEPT ![r] = v]
    BY <1>3, <1>11
  <1> QED BY <1>3, <1>5, <1>9, <1>12, <1>13 DEF m, ok

\* The program counter is loaded.
LEMMA LoadPc ==
    ASSUME NEW E, NEW b, Calm(b), NEW hi, NEW d, NEW v, v \in RegValues(b), v = hi * 2^16 + d,
           NEW c, c = Loaded(b, 0, v)
    PROVE  /\ Loads(E, b, Imm(0, hi), d, c) /\ Akin(b, c) /\ Sound(c) /\ Unmoved(b, c)
           /\ c.pcok /\ c.reg[0] = v /\ c.wdt = b.wdt
  <1>1. Sound(b) /\ 0 \in Regs
    BY RegsAre DEF Calm, Quiet
  <1>2. /\ Akin(b, c) /\ Sound(c) /\ c.drv = b.drv /\ c.mem = b.mem /\ c.wdt = b.wdt
        /\ c.reg[0] = v /\ c.pcok = (0 = 0) /\ c.n = (IF 0 = 0 THEN b.n ELSE b.n + 1)
        /\ (0 = 0 => Held(c) = Held(b))
    BY <1>1, LoadedIs
  <1>3. Moved(b, c, E)
    BY <1>1, <1>2 DEF Moved, Fits, Same
  <1>4. Calm(c) /\ (Legacy(c) <=> Legacy(b))
    BY <1>2, AkinIs
  <1>5. Loads(E, b, Imm(0, hi), d, c)
    BY <1>3, <1>4 DEF Loads, Imm
  <1> QED BY <1>2, <1>5 DEF Unmoved

\* The next change of E is of register r, to v.
NextReg(E, b, r, v) ==
    /\ b.n + 1 <= Len(E) /\ E[b.n + 1].k = "reg" /\ E[b.n + 1].at = r /\ E[b.n + 1].v = v

\* Whatever a driver loads into a register that is not PC: the target has one
\* more effect, the right one.
LEMMA LoadAny ==
    ASSUME NEW E, NEW b, Calm(b), NEW r \in Regs \ {0}, NEW v, v \in RegValues(b),
           NextReg(E, b, r, v)
    PROVE  \E c : /\ \A hi, d : v = hi * 2^16 + d => Loads(E, b, Imm(r, hi), d, c)
                  /\ Akin(b, c) /\ Sound(c)
                  /\ c.mem = b.mem /\ c.n = b.n + 1 /\ Held(c) = [Held(b) EXCEPT ![r] = v]
  <1>0. PICK c : c = Loaded(b, r, v)
    OBVIOUS
  <1>1. Sound(b) /\ r \in Regs /\ r # 0
    BY DEF Calm, Quiet
  <1>2. /\ Akin(b, c) /\ Sound(c) /\ c.drv = b.drv /\ c.mem = b.mem /\ c.wdt = b.wdt
        /\ c.n = b.n + 1 /\ Held(c) = [Held(b) EXCEPT ![r] = v]
    BY <1>0, <1>1, LoadedIs
  <1>3. Makes(E[c.n], b, c) /\ c.n <= Len(E)
    <2>1. E[c.n].k = "reg" /\ E[c.n].at = r /\ E[c.n].v = v /\ c.n <= Len(E)
      BY <1>2 DEF NextReg
    <2>2. Held(c) = [Held(b) EXCEPT ![E[c.n].at] = E[c.n].v]
      BY <1>2, <2>1
    <2> QED BY <1>2, <2>1, <2>2 DEF Makes
  <1>4. Moved(b, c, E)
    BY <1>1, <1>2, <1>3 DEF Moved, Fits
  <1>5. Calm(c) /\ (Legacy(c) <=> Legacy(b))
    BY <1>2, AkinIs
  <1>6. \A hi, d : v = hi * 2^16 + d => Loads(E, b, Imm(r, hi), d, c)
    BY <1>0, <1>4, <1>5 DEF Loads, Imm
  <1> QED BY <1>2, <1>6

\* What the bus shows of a register, in one word or two.
Value(b, r) == IF r = 0 THEN PcPlus(b, 4) ELSE b.reg[r]

\* A register that is stored on the bus shows in as many words as the driver
\* reads.
LEMMA ShownIs ==
    ASSUME NEW b, Sound(b), NEW r \in Regs
    PROVE  \E low \in Values16, high \in Values16 :
              /\ Value(b, r) = high * 2^16 + low
              /\ b.drv = "std" => Value(b, r) = low /\ Shown(b, r) = <<low>>
              /\ b.drv # "std" => Shown(b, r) = <<low, high>>
  <1> DEFINE v    == Value(b, r)
             low  == v % 2^16
             high == v \div 2^16
  <1>1. v \in RegValues(b)
    BY PcIn DEF Value, Sound
  <1>2. v \in 0 .. 2^20 - 1 /\ (b.drv = "std" => v \in 0 .. 2^16 - 1)
    BY <1>1 DEF RegValues, RegSize
  <1> HIDE DEF v
  <1>3. low \in Values16 /\ high \in Values16 /\ v = high * 2^16 + low
        /\ (b.drv = "std" => v = low)
    BY <1>2 DEF Values16
  <1>4. Shown(b, r) = CASE b.drv = "std" -> <<low>> [] b.drv = "x" -> <<low, high>> [] OTHER -> <<low, high>>
    BY DEF Shown, v, Value
  <1> HIDE DEF low, high
  <1>5. (b.drv = "std" => Shown(b, r) = <<low>>) /\ (b.drv # "std" => Shown(b, r) = <<low, high>>)
    BY <1>4
  <1> QED BY <1>3, <1>5 DEF v

\* What a store changes behind the port.
LEMMA StoredIs ==
    ASSUME NEW E, NEW b, Calm(b), NEW r \in Regs, NEW a, NEW c, c = Stored(b, r, a)
    PROVE  /\ Moved(b, c, E) /\ Calm(c) /\ (Legacy(c) <=> Legacy(b)) /\ Sound(c)
           /\ Unmoved(b, c) /\ c.wdt = b.wdt /\ c.reg[0] = PcPlus(b, 4)
           /\ Legacy(b) \/ a # JmbAddr(b) => Akin(b, c)
           /\ Akin(b, [c EXCEPT !.jmb = b.jmb])
  <1> DEFINE d == AtPc(b, PcPlus(b, 4))
             j == IF ~Legacy(b) /\ a = JmbAddr(b) THEN Shown(b, r) ELSE d.jmb
             s == [b.reg EXCEPT ![0] = PcPlus(b, 4)]
  <1>0. Sound(b) /\ b \in Target /\ b.busy = 0 /\ b.eemaddr = -1
    BY DEF Calm, Quiet, Sound
  <1>1. Moved(b, d, E) /\ Held(d) = Held(b)
    BY <1>0, PcIn, MovedPc
  <1>2. d = [b EXCEPT !.pcok = FALSE, !.reg = s]
    BY DEF AtPc
  <1>3. s[0] = PcPlus(b, 4)
    BY <1>0, RegsAre DEF Target
  <1> HIDE DEF s
  <1>4. /\ Akin(b, d) /\ d.mem = b.mem /\ d.n = b.n /\ d.wdt = b.wdt /\ d.reg = s /\ d.jmb = b.jmb
        /\ d.running = b.running /\ d.mab = b.mab
    <2>1. /\ d.mem = b.mem /\ d.n = b.n /\ d.wdt = b.wdt /\ d.reg = s /\ d.jmb = b.jmb
          /\ d.running = b.running /\ d.mab = b.mab
      BY ONLY <1>0, <1>2 DEF Target
    <2>2. Akin(b, d)
      BY ONLY <1>0, <1>2, ZenonT(40) DEF Target, Akin
    <2> QED BY <2>1, <2>2
  <1>5. d \in Target /\ Sound(d)
    BY <1>1 DEF Moved, Sound
  <1>6. c = [d EXCEPT !.jmb = j]
    BY DEF Stored
  <1>7. Shown(b, r) \in Seq(Values16)
    <2>1. PICK low \in Values16, high \in Values16 :
             /\ b.drv = "std" => Shown(b, r) = <<low>>
             /\ b.drv # "std" => Shown(b, r) = <<low, high>>
      BY <1>0, ShownIs
    <2>2. <<low>> \in Seq(Values16) /\ <<low, high>> \in Seq(Values16)
      OBVIOUS
    <2> QED BY <2>1, <2>2
  <1>8. j \in Seq(Values16) /\ (Legacy(b) \/ a # JmbAddr(b) => j = b.jmb)
    BY <1>4, <1>5, <1>7 DEF Target
  <1> HIDE DEF d, j
  <1>9. /\ c.drv = d.drv /\ c.mem = d.mem /\ c.n = d.n /\ c.wdt = d.wdt /\ c.reg = d.reg /\ c.jmb = j
        /\ c.running = d.running /\ c.mab = d.mab /\ c.busy = d.busy /\ c.eemaddr = d.eemaddr
    BY <1>5, <1>6 DEF Target
  <1>10. c \in Target
    <2>1. d \in Target /\ j \in Seq(Values16)
      BY <1>5, <1>8
    <2> QED BY <1>6, <2>1, ZenonT(40) DEF Target
  <1>11. RegValues(c) = RegValues(d) /\ (Legacy(c) <=> Legacy(d))
    BY <1>9 DEF RegValues, RegSize, Legacy
  <1>12. Sound(c)
    BY <1>5, <1>9, <1>10, <1>11 DEF Sound
  <1>13. Held(c) = Held(b)
    BY <1>1, <1>9 DEF Held
  <1>14. d.drv = b.drv /\ d.busy = b.busy /\ d.eemaddr = b.eemaddr /\ (Legacy(d) <=> Legacy(b))
    BY <1>4, AkinIs DEF Akin
  <1>15. Unmoved(b, c)
    BY <1>4, <1>9, <1>13 DEF Unmoved
  <1>16. Moved(b, c, E)
    BY <1>0, <1>9, <1>12, <1>14, <1>15 DEF Moved, Fits, Same, Unmoved
  <1>17. Calm(c)
    BY <1>0, <1>9, <1>12, <1>14 DEF Calm, Quiet
  <1>18. Legacy(b) \/ a # JmbAddr(b) => Akin(b, c)
    <2>1. Legacy(b) \/ a # JmbAddr(b) => Akin(d, c)
      BY <1>4, <1>5, <1>6, <1>8 DEF Akin, Target
    <2> QED BY <1>4, <2>1, AkinBoth
  <1>19. Akin(b, [c EXCEPT !.jmb = b.jmb])
    <2>1. [c EXCEPT !.jmb = b.jmb] = [d EXCEPT !.jmb = b.jmb]
      BY <1>5, <1>6 DEF Target
    <2>2. [d EXCEPT !.jmb = b.jmb] = d
      BY <1>4, <1>5 DEF Target
    <2> QED BY <1>4, <2>1, <2>2
  <1> QED BY <1>3, <1>4, <1>9, <1>11, <1>12, <1>14, <1>15, <1>16, <1>17, <1>18, <1>19

\* Register r of b is stored at a, which takes b to c, and the bus shows v in two
\* words: one at once and one on the next edge, or both on the edges to come.
Displays_X(E, b, r, a, mdb, c, v) ==
    \E o1 \in Values16, o2 \in Values16 : \E x :
       /\ Stores(E, b, Abs(r), a, mdb, c, o1, x) /\ Displays(x, o2, Fetch)
       /\ v = o2 * 2^16 + o1

Displays_Xv2(E, b, r, a, mdb, c, v) ==
    \E o1 \in Values16, o2 \in Values16 : \E x1, x2 :
       /\ Stores(E, b, Abs(r), a, mdb, c, mdb, x1)
       /\ Displays(x1, o1, x2) /\ Displays(x2, o2, Fetch)
       /\ v = o2 * 2^16 + o1

\* A store of one word, of two of which one is shown at once, and of two.
LEMMA StoreStd ==
    ASSUME NEW E, NEW b, Calm(b), b.drv = "std", NEW r \in Regs, NEW a, NEW mdb, NEW c,
           c = Stored(b, r, a)
    PROVE  \E x : Stores(E, b, Abs(r), a, mdb, c, mdb, x) /\ Displays(x, Value(b, r), Fetch)
  <1>1. Sound(b)
    BY DEF Calm, Quiet
  <1>2. PICK low \in Values16 : Value(b, r) = low /\ Shown(b, r) = <<low>>
    BY <1>1, ShownIs
  <1> DEFINE x == Showing(<<low>>)
  <1>3. x \in CpuStates
    BY DEF Showing, CpuStates
  <1>4. Fetch \in CpuStates /\ <<low>> # <<>> /\ Head(<<low>>) = low /\ Len(<<low>>) = 1
    BY DEF CpuStates
  <1>5. Displays(x, low, Fetch)
    BY <1>4 DEF Displays
  <1>6. x = Showing(IF b.drv = "x" THEN Tail(Shown(b, r)) ELSE Shown(b, r))
    BY <1>2
  <1>7. Moved(b, c, E) /\ Calm(c) /\ (Legacy(c) <=> Legacy(b))
    BY StoredIs
  <1> HIDE DEF x
  <1>8. mdb = IF b.drv = "x" THEN Head(Shown(b, r)) ELSE mdb
    OBVIOUS
  <1>9. Stores(E, b, Abs(r), a, mdb, c, mdb, x)
    BY <1>3, <1>6, <1>7, <1>8 DEF Stores, Abs
  <1> QED BY <1>2, <1>5, <1>9

\* A register stored on the bus, as TapDev430X reads it.
LEMMA StoreX ==
    ASSUME NEW E, NEW b, Calm(b), b.drv = "x", NEW r \in Regs, NEW a, NEW mdb, NEW c,
           c = Stored(b, r, a)
    PROVE  Displays_X(E, b, r, a, mdb, c, Value(b, r))
  <1>1. Sound(b)
    BY DEF Calm, Quiet
  <1>2. PICK low \in Values16, high \in Values16 :
           Value(b, r) = high * 2^16 + low /\ Shown(b, r) = <<low, high>>
    BY <1>1, ShownIs
  <1> DEFINE x == Showing(<<high>>)
  <1>3. x \in CpuStates
    BY DEF Showing, CpuStates
  <1>4. /\ Fetch \in CpuStates /\ <<high>> # <<>> /\ Head(<<high>>) = high /\ Len(<<high>>) = 1
        /\ Tail(<<low, high>>) = <<high>> /\ Head(<<low, high>>) = low
    BY DEF CpuStates
  <1>5. Displays(x, high, Fetch)
    BY <1>4 DEF Displays
  <1>6. /\ x = Showing(IF b.drv = "x" THEN Tail(Shown(b, r)) ELSE Shown(b, r))
        /\ low = IF b.drv = "x" THEN Head(Shown(b, r)) ELSE mdb
    BY <1>2, <1>4
  <1>7. Moved(b, c, E) /\ Calm(c) /\ (Legacy(c) <=> Legacy(b))
    BY StoredIs
  <1> HIDE DEF x
  <1>8. Stores(E, b, Abs(r), a, mdb, c, low, x)
    BY <1>3, <1>6, <1>7 DEF Stores, Abs
  <1> QED BY <1>2, <1>5, <1>8 DEF Displays_X

\* A register stored on the bus, as TapDev430Xv2 reads it.
LEMMA StoreXv2 ==
    ASSUME NEW E, NEW b, Calm(b), ~Legacy(b), NEW r \in Regs, NEW a, NEW mdb, NEW c,
           c = Stored(b, r, a)
    PROVE  Displays_Xv2(E, b, r, a, mdb, c, Value(b, r))
  <1>1. Sound(b) /\ b.drv # "std" /\ b.drv # "x"
    BY DEF Calm, Quiet, Legacy
  <1>2. PICK low \in Values16, high \in Values16 :
           Value(b, r) = high * 2^16 + low /\ Shown(b, r) = <<low, high>>
    BY <1>1, ShownIs
  <1> DEFINE x1 == Showing(<<low, high>>)
             x2 == Showing(<<high>>)
  <1>3. x1 \in CpuStates /\ x2 \in CpuStates
    BY DEF Showing, CpuStates
  <1>4. /\ Fetch \in CpuStates /\ <<high>> # <<>> /\ Head(<<high>>) = high /\ Len(<<high>>) = 1
        /\ Tail(<<low, high>>) = <<high>> /\ Head(<<low, high>>) = low /\ Len(<<low, high>>) = 2
        /\ <<low, high>> # <<>>
    BY DEF CpuStates
  <1>5. Displays(x2, high, Fetch)
    BY <1>4 DEF Displays
  <1>6. Displays(x1, low, x2)
    <2> DEFINE s == <<low, high>>
    <2>1. x1 = Showing(s) /\ s # <<>> /\ low = Head(s) /\ Len(s) = 2 /\ x2 = Showing(Tail(s))
      BY <1>4
    <2> HIDE DEF s, x1, x2
    <2>2. x2 = IF Len(s) = 1 THEN Fetch ELSE Showing(Tail(s))
      BY <2>1
    <2> QED BY <1>3, <2>1, <2>2 DEF Displays
  <1>7. /\ x1 = Showing(IF b.drv = "x" THEN Tail(Shown(b, r)) ELSE Shown(b, r))
        /\ mdb = IF b.drv = "x" THEN Head(Shown(b, r)) ELSE mdb
    BY <1>1, <1>2
  <1>8. Moved(b, c, E) /\ Calm(c) /\ (Legacy(c) <=> Legacy(b))
    BY StoredIs
  <1> HIDE DEF x1, x2
  <1>9. Stores(E, b, Abs(r), a, mdb, c, mdb, x1)
    BY <1>3, <1>7, <1>8 DEF Stores, Abs
  <1> QED BY <1>2, <1>5, <1>6, <1>9 DEF Displays_Xv2

-----------------------------------------------------------------------------
(* The operations on registers of the older drivers.                       *)

\* No script takes a sound target to one that is not.
LEMMA DoesSound ==
    ASSUME NEW E, NEW s, NEW u, NEW g, NEW w, NEW h, Does(E, s, u, g, w, h), Sound(u)
    PROVE  Sound(w)
  BY DEF Does

\* The registers of part p, in a target of it.
LEMMA RegValuesAre ==
    ASSUME NEW p, NEW v \in RegValues(p)
    PROVE  v \in 0 .. 2^20 - 1 /\ (p.drv = "std" => Low(v, v) /\ v \in Values16)
  <1>1. v \in 0 .. 2^20 - 1 /\ (p.drv = "std" => v \in 0 .. 2^16 - 1)
    BY DEF RegValues, RegSize
  <1>2. ASSUME p.drv = "std" PROVE Low(v, v) /\ v \in Values16
    BY <1>1, <1>2 DEF Low, Values16
  <1> QED BY <1>1, <1>2

\* SetPC's scripts are sequences.
LEMMA SetPCSeq ==
    ASSUME NEW v
    PROVE  IsSeq(SetPC(v)) /\ IsSeq(SetPC_X(v))
  BY PrimSeq DEF SetPC, SetPC_X

\* The registers and the watchdog are as the program has them.
SetRegBy(p, r, v) == IF p.drv = "std" THEN SetReg(r, v) ELSE SetReg_X(r, v)
SetPCBy(p, v)     == IF p.drv = "std" THEN SetPC(v) ELSE SetPC_X(v)

\* What setting a register, or the program counter, does.
SetsReg(p, E, u, g, r, v) ==
    \E w : /\ Does(E, SetRegBy(p, r, v), u, g, w, g)
           /\ Ready(p, w) /\ Akin(u, w) /\ w.mem = u.mem /\ w.n = u.n + 1
           /\ Held(w) = [Held(u) EXCEPT ![r] = v]
SetsPC(p, E, u, g, v) ==
    \E w : /\ Does(E, SetPCBy(p, v), u, g, w, g)
           /\ Ready(p, w) /\ Akin(u, w) /\ Unmoved(u, w) /\ w.pcok /\ w.reg[0] = v
           /\ p.drv = "std" \/ u.cntrl = \h2401 => w.cntrl = \h2401

\* SetPC of the older drivers sets the program counter.
LEMMA SetPCCall ==
    ASSUME NEW p, Legacy(p), NEW E, NEW g, NEW u, Ready(p, u), NEW v \in RegValues(p)
    PROVE  SetsPC(p, E, u, g, v)
  <1>1. /\ u = P(u, u.ir, u.cntrl, 1, u.mab, u.dto, u.din, u.mdb, Fetch)
        /\ Calm(u) /\ Legacy(u) /\ Rested(u.ir, u.cntrl) /\ Resting(p, u)
    BY ReadyLegacy DEF Ready
  <1>2. Sound(u) /\ u \in Target /\ RegValues(u) = RegValues(p) /\ u.drv = p.drv
    BY <1>1, RestingIs
  <1> DEFINE c == Loaded(u, 0, v)
  <1>3. ASSUME NEW hi, NEW d, v = hi * 2^16 + d
        PROVE  /\ Loads(E, u, Imm(0, hi), d, c) /\ Akin(u, c) /\ Sound(c) /\ Unmoved(u, c)
               /\ c.pcok /\ c.reg[0] = v /\ c.wdt = u.wdt
    BY <1>1, <1>2, <1>3, LoadPc
  <1>4. Akin(u, c) /\ Sound(c) /\ Unmoved(u, c) /\ c.pcok /\ c.reg[0] = v
    <2>1. v = 0 * 2^16 + v
      BY DEF RegValues, RegSize
    <2> QED BY <1>3, <2>1
  <1> HIDE DEF c
  <1>5. Resting(p, c)
    BY <1>1, <1>4, AkinRests
  <1>6. ASSUME NEW w, NEW ir, NEW cntrl, NEW mab, NEW dto, NEW din, NEW mdb, NEW s, Rested(ir, cntrl),
               w = P(c, ir, cntrl, 1, mab, dto, din, mdb, Fetch), Does(E, s, u, g, w, g)
        PROVE  Ready(p, w) /\ Akin(u, w) /\ Unmoved(u, w) /\ w.pcok /\ w.reg[0] = v /\ w.cntrl = cntrl
    <2>1. Sound(w)
      BY <1>2, <1>6, DoesSound
    <2>2. Ready(p, w) /\ Behind(c, w) /\ w.cntrl = cntrl
      BY <1>5, <1>6, <2>1, ReadyAfter
    <2>3. Akin(c, w) /\ Unmoved(u, w) /\ w.pcok /\ w.reg[0] = v
      BY <1>4, <2>2 DEF Behind, Unmoved
    <2> QED BY <1>4, <2>2, <2>3, AkinBoth
  <1>7. CASE p.drv = "std"
    <2>1. 0 \in Nibbles
      BY DEF Nibbles
    <2>2. PICK k : Low(\h4030 + 0, k) /\ Fetches(u, k, Imm(0, 0))
      BY <1>2, <1>7, <2>1, DecodeStd
    <2>3. k = \h4030
      BY <2>2 DEF Low
    <2>4. v = 0 * 2^16 + v /\ Low(v, v)
      BY <1>7, RegValuesAre DEF RegValues, RegSize
    <2>5. Loads(E, u, Imm(0, 0), v, c) /\ Fetches(u, \h4030, Imm(0, 0))
      BY <1>3, <2>2, <2>3, <2>4
    <2> DEFINE w == P(c, IR_CNTRL_SIG_16BIT, \h2401, 1, u.mab, u.dto, v, u.mdb, Fetch)
    <2>6. Does(E, SetPC(v), P(u, u.ir, u.cntrl, 1, u.mab, u.dto, u.din, u.mdb, Fetch), g, w, g)
      BY <1>1, <2>4, <2>5, SetPCDoes
    <2>7. Does(E, SetPC(v), u, g, w, g)
      BY <1>1, <2>6
    <2>8. Rested(IR_CNTRL_SIG_16BIT, \h2401)
      BY RestedAre
    <2>9. /\ Ready(p, w) /\ Akin(u, w) /\ Unmoved(u, w) /\ w.pcok /\ w.reg[0] = v
          /\ w.cntrl = \h2401
      BY <1>6, <2>7, <2>8
    <2> HIDE DEF w
    <2> QED BY <1>7, <2>7, <2>9 DEF SetsPC, SetPCBy
  <1>8. CASE p.drv # "std"
    <2>1. 0 \in Nibbles /\ v \in 0 .. 2^20 - 1
      BY RegValuesAre DEF Nibbles
    <2>2. PICK hi, d : Halves(v, hi, d)
      BY <2>1, HalvesAre
    <2>3. PICK k : Low(\h0080 + High(v), k) /\ Fetches(u, k, Imm(0, hi))
      BY <1>2, <1>8, <2>1, <2>2, DecodeX
    <2>4. Loads(E, u, Imm(0, hi), d, c) /\ Low(v, d)
      BY <1>3, <2>2 DEF Halves
    <2>5. PICK m : Takes(u.cntrl, m)
      BY <1>1, RestedAre
    <2> DEFINE w == P(c, IR_CNTRL_SIG_HIGH_BYTE, u.cntrl, 1, u.mab, u.dto, d, u.mdb, Fetch)
    <2>6. Does(E, SetPC_X(v), P(u, u.ir, u.cntrl, 1, u.mab, u.dto, u.din, u.mdb, Fetch), g, w, g)
      BY <1>1, <2>3, <2>4, <2>5, SetPCDoes_X
    <2>7. Does(E, SetPC_X(v), u, g, w, g)
      BY <1>1, <2>6
    <2>8. Rested(IR_CNTRL_SIG_HIGH_BYTE, u.cntrl)
      BY <2>5, RestedAre
    <2>9. /\ Ready(p, w) /\ Akin(u, w) /\ Unmoved(u, w) /\ w.pcok /\ w.reg[0] = v
          /\ w.cntrl = u.cntrl
      BY <1>6, <2>7, <2>8
    <2> HIDE DEF w
    <2> QED BY <1>8, <2>7, <2>9 DEF SetsPC, SetPCBy
  <1> QED BY <1>7, <1>8

\* SetReg's scripts are sequences.
LEMMA SetRegSeq ==
    ASSUME NEW r, NEW v
    PROVE  IsSeq(SetReg(r, v)) /\ IsSeq(SetReg_X(r, v))
  BY PrimSeq DEF SetReg, SetReg_X

\* SetReg of the older drivers sets the register, and no other.
LEMMA SetRegCall ==
    ASSUME NEW p, Legacy(p), NEW E, NEW g, NEW u, Ready(p, u), NEW r \in Regs \ {0},
           NEW v \in RegValues(p),
           NextReg(E, u, r, v)
    PROVE  SetsReg(p, E, u, g, r, v)
  <1>1. /\ u = P(u, u.ir, u.cntrl, 1, u.mab, u.dto, u.din, u.mdb, Fetch)
        /\ Calm(u) /\ Legacy(u) /\ Rested(u.ir, u.cntrl) /\ Resting(p, u)
    BY ReadyLegacy DEF Ready
  <1>2. Sound(u) /\ u \in Target /\ RegValues(u) = RegValues(p) /\ u.drv = p.drv /\ r \in Nibbles
    BY <1>1, RestingIs, RegsAre
  <1>0. NextReg(E, u, r, v) /\ v \in RegValues(u)
    BY <1>2
  <1>3. PICK c : /\ \A hi, d : v = hi * 2^16 + d => Loads(E, u, Imm(r, hi), d, c)
                 /\ Akin(u, c) /\ Sound(c)
                 /\ c.mem = u.mem /\ c.n = u.n + 1 /\ Held(c) = [Held(u) EXCEPT ![r] = v]
    <2>1. Calm(u)
      BY <1>1
    <2> QED BY <1>0, <2>1, LoadAny
  <1>4. Akin(u, c) /\ Sound(c) /\ c.mem = u.mem /\ c.n = u.n + 1 /\ Held(c) = [Held(u) EXCEPT ![r] = v]
    BY <1>3
  <1>5. Resting(p, c)
    BY <1>1, <1>4, AkinRests
  <1>6. ASSUME NEW w, NEW ir, NEW cntrl, NEW mab, NEW dto, NEW din, NEW mdb, NEW s, Rested(ir, cntrl),
               w = P(c, ir, cntrl, 1, mab, dto, din, mdb, Fetch), Does(E, s, u, g, w, g)
        PROVE  Ready(p, w) /\ Akin(u, w) /\ w.mem = u.mem /\ w.n = u.n + 1
               /\ Held(w) = [Held(u) EXCEPT ![r] = v]
    <2>1. Sound(w)
      BY <1>2, <1>6, DoesSound
    <2>2. Ready(p, w) /\ Behind(c, w)
      BY <1>5, <1>6, <2>1, ReadyAfter
    <2>3. /\ Akin(c, w) /\ w.mem = u.mem /\ w.n = u.n + 1
          /\ Held(w) = [Held(u) EXCEPT ![r] = v]
      BY <1>4, <2>2 DEF Behind
    <2> QED BY <1>4, <2>2, <2>3, AkinBoth
  <1>7. CASE p.drv = "std"
    <2>2. PICK k : Low(\h4030 + r, k) /\ Fetches(u, k, Imm(r, 0))
      BY <1>2, <1>7, DecodeStd
    <2>4. v = 0 * 2^16 + v /\ Low(v, v)
      BY <1>7, RegValuesAre DEF RegValues, RegSize
    <2>5. Loads(E, u, Imm(r, 0), v, c)
      BY <1>3, <2>4
    <2> DEFINE w == P(c, IR_CNTRL_SIG_16BIT, \h2401, 1, u.mab, u.dto, \h3FFD, u.mdb, Fetch)
    <2>6. Does(E, SetReg(r, v), P(u, u.ir, u.cntrl, 1, u.mab, u.dto, u.din, u.mdb, Fetch), g, w, g)
      BY <1>1, <2>2, <2>4, <2>5, SetRegDoes
    <2>7. Does(E, SetReg(r, v), u, g, w, g)
      BY <1>1, <2>6
    <2>8. Rested(IR_CNTRL_SIG_16BIT, \h2401)
      BY RestedAre
    <2>9. Ready(p, w) /\ Akin(u, w) /\ w.mem = u.mem /\ w.n = u.n + 1
          /\ Held(w) = [Held(u) EXCEPT ![r] = v]
      BY <1>6, <2>7, <2>8
    <2> HIDE DEF w
    <2> QED BY <1>7, <2>7, <2>9 DEF SetsReg, SetRegBy
  <1>8. CASE p.drv # "std"
    <2>1. v \in 0 .. 2^20 - 1
      BY RegValuesAre
    <2>2. PICK hi, d : Halves(v, hi, d)
      BY <2>1, HalvesAre
    <2>3. PICK k : Low(\h0080 + r + High(v), k) /\ Fetches(u, k, Imm(r, hi))
      BY <1>2, <1>8, <2>2, DecodeX
    <2>4. Loads(E, u, Imm(r, hi), d, c) /\ Low(v, d)
      BY <1>3, <2>2 DEF Halves
    <2>5. PICK m : Takes(u.cntrl, m)
      BY <1>1, RestedAre
    <2> DEFINE w == P(c, IR_CNTRL_SIG_HIGH_BYTE, u.cntrl, 1, u.mab, u.dto, \h3FFD, u.mdb, Fetch)
    <2>6. Does(E, SetReg_X(r, v), P(u, u.ir, u.cntrl, 1, u.mab, u.dto, u.din, u.mdb, Fetch), g, w, g)
      BY <1>1, <2>3, <2>4, <2>5, SetRegDoes_X
    <2>7. Does(E, SetReg_X(r, v), u, g, w, g)
      BY <1>1, <2>6
    <2>8. Rested(IR_CNTRL_SIG_HIGH_BYTE, u.cntrl)
      BY <2>5, RestedAre
    <2>9. Ready(p, w) /\ Akin(u, w) /\ w.mem = u.mem /\ w.n = u.n + 1
          /\ Held(w) = [Held(u) EXCEPT ![r] = v]
      BY <1>6, <2>7, <2>8
    <2> HIDE DEF w
    <2> QED BY <1>8, <2>7, <2>9 DEF SetsReg, SetRegBy
  <1> QED BY <1>7, <1>8

-----------------------------------------------------------------------------
(* A register of the older drivers is read.                                *)

\* A value taken into a local variable changes no other one.
LEMMA GotIs ==
    ASSUME NEW g, Knows(g), NEW v \in Locals, NEW x
    PROVE  /\ Knows(Got(g, v, x)) /\ Got(g, v, x)[v] = x
           /\ \A w \in Locals : w # v => Got(g, v, x)[w] = g[w]
  BY DEF Knows, Got

\* The local variables of the scripts, which differ.
LEMMA LocalsAre ==
    /\ "data" \in Locals /\ "rx_l" \in Locals /\ "rx_h" \in Locals /\ "buf" \in Locals
    /\ "jtagId" \in Locals /\ "jtag_id" \in Locals /\ "back_r0" \in Locals /\ "ctrl" \in Locals
    /\ "sig" \in Locals /\ "pc" \in Locals /\ "clk_ctrl" \in Locals /\ "backup0" \in Locals
    /\ "backup1" \in Locals /\ "backup2" \in Locals /\ "reg_3V" \in Locals
    /\ "reg_test" \in Locals /\ "tmp" \in Locals
    /\ "rx_l" # "rx_h" /\ "jtagId" # "rx_l" /\ "jtagId" # "rx_h" /\ "buf" # "jtag_id"
  BY DEF Locals

\* Both halves of a register are there.
LEMMA GotHalves ==
    ASSUME NEW g, Knows(g), NEW o1, NEW o2, NEW h, h = Got(Got(g, "rx_l", o1), "rx_h", o2)
    PROVE  /\ Knows(h) /\ h["rx_l"] = o1 /\ h["rx_h"] = o2
           /\ \A v \in Locals : v # "rx_l" /\ v # "rx_h" => h[v] = g[v]
  <1> DEFINE j == Got(g, "rx_l", o1)
  <1>1. Knows(j) /\ j["rx_l"] = o1 /\ \A v \in Locals : v # "rx_l" => j[v] = g[v]
    BY LocalsAre, GotIs
  <1> HIDE DEF j
  <1>2. Knows(Got(j, "rx_h", o2)) /\ Got(j, "rx_h", o2)["rx_h"] = o2
        /\ \A v \in Locals : v # "rx_h" => Got(j, "rx_h", o2)[v] = j[v]
    BY <1>1, LocalsAre, GotIs
  <1>3. h = Got(j, "rx_h", o2)
    BY DEF j
  <1> QED BY <1>1, <1>2, <1>3, LocalsAre

\* GetReg's scripts are sequences.
LEMMA GetRegSeq ==
    ASSUME NEW r
    PROVE  IsSeq(GetReg(r)) /\ IsSeq(GetReg_X(r))
  BY PrimSeq DEF GetReg, GetReg_X

\* The script that reads a register, and what it does.
GetRegBy(p, r) == IF p.drv = "std" THEN GetReg(r) ELSE GetReg_X(r)

TellsReg(p, E, u, g, r) ==
    \E w, h : /\ Does(E, GetRegBy(p, r), u, g, w, h)
              /\ Ready(p, w) /\ Akin(u, w) /\ Unmoved(u, w) /\ Knows(h)
              /\ p.drv = "std" => h["data"] = u.reg[r]
              /\ p.drv # "std" => h["rx_h"] * 2^16 + h["rx_l"] = u.reg[r]

\* GetReg of the older drivers reads the register, and disturbs none.
LEMMA GetRegCall ==
    ASSUME NEW p, Legacy(p), NEW E, NEW g, Knows(g), NEW u, Ready(p, u), NEW r \in Regs \ {0}
    PROVE  TellsReg(p, E, u, g, r)
  <1>1. /\ u = P(u, u.ir, u.cntrl, 1, u.mab, u.dto, u.din, u.mdb, Fetch)
        /\ Calm(u) /\ Legacy(u) /\ Rested(u.ir, u.cntrl) /\ Resting(p, u)
    BY ReadyLegacy DEF Ready
  <1>2. /\ Sound(u) /\ u \in Target /\ RegValues(u) = RegValues(p) /\ u.drv = p.drv
        /\ r \in Nibbles /\ r \in Regs /\ Value(u, r) = u.reg[r]
    BY <1>1, RestingIs, RegsAre DEF Value
  <1>3. ASSUME NEW a, NEW c, c = Stored(u, r, a)
        PROVE  Akin(u, c) /\ Sound(c) /\ Unmoved(u, c) /\ Resting(p, c)
    <2>1. Calm(u) /\ Legacy(u)
      BY <1>1
    <2>2. Akin(u, c) /\ Sound(c) /\ Unmoved(u, c)
      BY <1>2, <1>3, <2>1, StoredIs
    <2> QED BY <1>1, <2>2, AkinRests
  <1>4. ASSUME NEW c, Akin(u, c), Unmoved(u, c), Resting(p, c),
               NEW w, NEW ir, NEW cntrl, NEW mab, NEW dto, NEW din, NEW mdb, NEW s, NEW h,
               Rested(ir, cntrl),
               w = P(c, ir, cntrl, 1, mab, dto, din, mdb, Fetch), Does(E, s, u, g, w, h)
        PROVE  Ready(p, w) /\ Akin(u, w) /\ Unmoved(u, w)
    <2>1. Sound(w)
      BY <1>2, <1>4, DoesSound
    <2>2. Ready(p, w) /\ Behind(c, w)
      BY <1>4, <2>1, ReadyAfter
    <2>3. Akin(c, w) /\ Unmoved(u, w)
      BY <1>4, <2>2 DEF Behind, Unmoved
    <2> QED BY <1>4, <2>2, <2>3, AkinBoth
  <1>5. CASE p.drv = "std"
    <2>1. PICK k : Low(r * 256 + \h4082, k) /\ Fetches(u, k, Abs(r))
      BY <1>2, <1>5, DecodeStd
    <2>2. PICK c : c = Stored(u, r, \h00FE)
      OBVIOUS
    <2>3. PICK x : Stores(E, u, Abs(r), \h00FE, u.mdb, c, u.mdb, x) /\ Displays(x, Value(u, r), Fetch)
      BY <1>1, <1>2, <1>5, <2>2, StoreStd
    <2>4. Akin(u, c) /\ Unmoved(u, c) /\ Resting(p, c)
      BY <1>3, <2>2
    <2> DEFINE o == Value(u, r)
               w == P(c, IR_CNTRL_SIG_16BIT, \h2401, 1, u.mab, u.dto, \h00FE, o, Fetch)
               h == Got(g, "data", o)
    <2> HIDE DEF o
    <2>5. Displays(x, o, Fetch)
      BY <2>3 DEF o
    <2>6. Does(E, GetReg(r), P(u, u.ir, u.cntrl, 1, u.mab, u.dto, u.din, u.mdb, Fetch), g, w, h)
      BY <1>1, <2>1, <2>3, <2>5, GetRegDoes
    <2> HIDE DEF h
    <2>7. Does(E, GetReg(r), u, g, w, h)
      BY <1>1, <2>6
    <2>8. Rested(IR_CNTRL_SIG_16BIT, \h2401)
      BY RestedAre
    <2>9. Ready(p, w) /\ Akin(u, w) /\ Unmoved(u, w)
      BY <1>4, <2>4, <2>7, <2>8
    <2>10. Knows(h) /\ h["data"] = u.reg[r]
      BY <1>2, LocalsAre, GotIs DEF h, o
    <2> HIDE DEF w
    <2> QED BY <1>5, <2>7, <2>9, <2>10 DEF TellsReg, GetRegBy
  <1>6. CASE p.drv # "std"
    <2>0. u.drv = "x" /\ Calm(u) /\ r \in Regs
      BY <1>1, <1>2, <1>6 DEF Legacy
    <2>1. PICK k : Low(r * 256 + \h60, k) /\ Fetches(u, k, Abs(r))
      BY <1>2, <1>6, DecodeX
    <2>2. PICK c : c = Stored(u, r, \h00FC)
      OBVIOUS
    <2>3b. Displays_X(E, u, r, \h00FC, u.mdb, c, Value(u, r))
      BY <2>0, <2>2, StoreX
    <2>3. PICK o1 \in Values16, o2 \in Values16 : \E x :
              /\ Stores(E, u, Abs(r), \h00FC, u.mdb, c, o1, x) /\ Displays(x, o2, Fetch)
              /\ Value(u, r) = o2 * 2^16 + o1
      BY <2>3b DEF Displays_X
    <2>3a. PICK x : /\ Stores(E, u, Abs(r), \h00FC, u.mdb, c, o1, x) /\ Displays(x, o2, Fetch)
                    /\ Value(u, r) = o2 * 2^16 + o1
      BY <2>3
    <2>4. Akin(u, c) /\ Unmoved(u, c) /\ Resting(p, c)
      BY <1>3, <2>2
    <2>5. PICK m : Takes(u.cntrl, m)
      BY <1>1, RestedAre
    <2> DEFINE w == P(c, IR_CNTRL_SIG_HIGH_BYTE, u.cntrl, 1, u.mab, u.dto, \h00FC, o2, Fetch)
               h == Got(Got(g, "rx_l", o1), "rx_h", o2)
    <2>6. Does(E, GetReg_X(r), P(u, u.ir, u.cntrl, 1, u.mab, u.dto, u.din, u.mdb, Fetch), g, w, h)
      BY <1>1, <2>1, <2>3a, <2>5, GetRegDoes_X
    <2> HIDE DEF h
    <2>7. Does(E, GetReg_X(r), u, g, w, h)
      BY <1>1, <2>6
    <2>8. Rested(IR_CNTRL_SIG_HIGH_BYTE, u.cntrl)
      BY <2>5, RestedAre
    <2>9. Ready(p, w) /\ Akin(u, w) /\ Unmoved(u, w)
      BY <1>4, <2>4, <2>7, <2>8
    <2>10. Knows(h) /\ h["rx_l"] = o1 /\ h["rx_h"] = o2
      BY GotHalves DEF h
    <2>11. h["rx_h"] * 2^16 + h["rx_l"] = u.reg[r]
      BY <1>2, <2>3a, <2>10
    <2> HIDE DEF w
    <2> QED BY <1>6, <2>7, <2>9, <2>10, <2>11 DEF TellsReg, GetRegBy
  <1> QED BY <1>5, <1>6

=============================================================================
