---------------------------- MODULE TapInvariant ----------------------------
(***************************************************************************)
(* The invariant of TapAccess, and the words its proofs are put in         *)
(* (TapScripts_proof, TapAccess_proof).  While an operation is under way   *)
(* its target is in no state a caller could name: half of a step is        *)
(* shifted, the flash is open, a register is half loaded.  What makes it   *)
(* come right is the rest of the script.  So the invariant says of the     *)
(* rest of the script that it leads where the operation promised, each     *)
(* change of memory or registers on the way being the next one due.        *)
(*                                                                         *)
(* The target is seen as what is behind the JTAG port (memory, registers,  *)
(* flash controller, debug unit) and, apart from it, the columns of the    *)
(* port: instruction, control signals, level of TCLK, address, the words   *)
(* shifted in and out, and the state of the CPU that is fed.               *)
(***************************************************************************)
EXTENDS TapAccess

-----------------------------------------------------------------------------
(* Runs of scripts.  A configuration is <<target, locals, what is to play>>. *)

\* A script: a sequence of primitives and of what the driver does between them.
IsSeq(s) == \E S : s \in Seq(S)

\* What is left after the first step of a configuration.
After(c) ==
    LET e == Head(c[3])
    IN  CASE e.p \in Primitives ->
               <<TargetStep(c[1], e.p, Arg(e, c[2])), Took(e, c[2], TargetOut(c[1], e.p)),
                 Tail(c[3])>>
          [] e.p \in {"play", "loop", "if", "setpc"} ->
               <<c[1], c[2], InPlaceOf(e, c[2]) \o Tail(c[3])>>
          [] e.p = "combine" ->
               <<c[1], [c[2] EXCEPT ![e.to] = (c[2]["rx_h"] * 2^16 + c[2]["rx_l"]) % 2^20],
                 Tail(c[3])>>

\* One step of a script: Primitive, Control or Local of TapAccess.
Moves(c, d) ==
    /\ c[3] # <<>>
    /\ Head(c[3]).p \in Primitives \cup {"play", "loop", "if", "setpc", "combine"}
    /\ d = After(c)

\* A step makes the change e that TapPort names.
Makes(e, t1, t2) ==
    \/ e.k = "write" /\ Held(t2) = Held(t1) /\ t2.mem = [t1.mem EXCEPT ![e.at] = e.v]
    \/ e.k = "program" /\ Held(t2) = Held(t1) /\ t2.mem = [t1.mem EXCEPT ![e.at] = And16(@, e.v)]
    \/ /\ e.k = "erase" /\ Held(t2) = Held(t1)
       /\ t2.mem = [a \in DOMAIN t1.mem |-> IF a \in e.at THEN \hFFFF ELSE t1.mem[a]]
    \/ e.k = "reg" /\ t2.mem = t1.mem /\ Held(t2) = [Held(t1) EXCEPT ![e.at] = e.v]

\* A step that changes nothing the caller can name.
Same(t1, t2) == t2.n = t1.n /\ t2.mem = t1.mem /\ Held(t2) = Held(t1)

\* A step makes no change, or the next one of E.
Fits(E, t1, t2) ==
    \/ Same(t1, t2)
    \/ t2.n = t1.n + 1 /\ t2.n <= Len(E) /\ Makes(E[t2.n], t1, t2)

\* The types of the target.
EemAddr == {2, 10, 18, \h82, \h88}
Needs   == [word : Nat \ {0}, seg : Nat \ {0}, mass : Nat \ {0}, rep : Nat \ {0}]
CpuStates == {Fetch} \cup [k : {"imm", "abs"}, r : Nat, hi : Nat]
                     \cup [k : {"store"}, rest : Seq(Values16)]
Target == [drv : {"std", "x", "xv2", "xv2_1377"}, id : Nat, need : Needs, has_locka : BOOLEAN,
           ir : Nat, cntrl : Values16, tclk : {0, 1}, mab : Nat, dto : Values16,
           din : Values16, mdb : Values16, cpu : CpuStates, reg : [Regs -> Nat],
           pcok : BOOLEAN, mem : [MemAddr -> Values16], per : [Per8Addr -> Values16],
           wdt : Nat, wrt : BOOLEAN, erase : SUBSET {2, 4, 8}, lock : BOOLEAN,
           locka : BOOLEAN, busy : Nat, doomed : SUBSET FlashCell,
           spent : [FlashCell -> Nat], n : Nat, violated : BOOLEAN,
           eem : [EemAddr -> Nat], eemaddr : Int, eemctl : Nat, jmb : Seq(Values16),
           running : BOOLEAN, strobe_end : {0, 1}]

\* A target that is held, with its registers and cells in range.
Sound(u) ==
    /\ u \in Target /\ ~u.running
    /\ u.mab \in RegValues(u)
    /\ \A r \in Regs : u.reg[r] \in RegValues(u)

\* A step of a run that keeps the target sound.
Link(E, c, d) == Moves(c, d) /\ Fits(E, c[1], d[1]) /\ Sound(c[1]) /\ Sound(d[1])

\* A run from c to d on which every change is the next one of E.
Path(E, c, d) ==
    \E k \in Nat : \E f : /\ f[0] = c /\ f[k] = d
                          /\ \A i \in 0 .. k - 1 : Link(E, f[i], f[i + 1])

\* Whatever is to be played behind it, script s takes target t1 and locals g1 to
\* t2 and g2.
Does(E, s, t1, g1, t2, g2) ==
    Sound(t1) => Sound(t2) /\ \A r : IsSeq(r) => Path(E, <<t1, g1, s \o r>>, <<t2, g2, r>>)

\* A script played up to its i-th step, with j - 1 arguments taken.
Reached(E, S, A, t0, g0, i, j, t1, g1) ==
    Sound(t0) => /\ Sound(t1)
                 /\ \A r : IsSeq(r) => Path(E, <<t0, g0, Play(S, A) \o r>>,
                                               <<t1, g1, Playing(S, A, i, j) \o r>>)

\* A loop played up to its i-th item.
Looped(E, B, t0, g0, i, t1, g1) ==
    Sound(t0) => /\ Sound(t1)
                 /\ \A r : IsSeq(r) => Path(E, <<t0, g0, Loop(B) \o r>>,
                                               <<t1, g1, Looping(B, i) \o r>>)

\* The i-th item takes every state of I[i] to one of I[i + 1], and what the
\* driver knows from G[i] to G[i + 1].
LoopKeeps(E, B, I, G) ==
    /\ Len(B) \in Nat
    /\ \A i \in 1 .. Len(B) :
          /\ IsSeq(B[i])
          /\ \A u \in I[i] : \E v \in I[i + 1] : Does(E, B[i], u, G[i], v, G[i + 1])

-----------------------------------------------------------------------------
(* The columns of the port.                                                *)

\* Target b with these columns of its port.
P(b, ir, cntrl, tclk, mab, dto, din, mdb, cpu) ==
    [b EXCEPT !.ir = ir, !.cntrl = cntrl, !.tclk = tclk, !.mab = mab, !.dto = dto,
              !.din = din, !.mdb = mdb, !.cpu = cpu]

\* Columns within their types.
InPort(b, ir, cntrl, tclk, mab, dto, din, mdb, cpu) ==
    /\ ir \in Nat /\ cntrl \in Values16 /\ tclk \in {0, 1} /\ mab \in RegValues(b)
    /\ dto \in Values16 /\ din \in Values16 /\ mdb \in Values16 /\ cpu \in CpuStates

\* What is behind the port moved from b to c.
Moved(b, c, E) == Sound(b) /\ Sound(c) /\ c.drv = b.drv /\ Fits(E, b, c)

\* The fields of a packed step.
Octets  == 0 .. 255
Nibbles == 0 .. 15

\* The clockings of a step, and what one does.
Clocks == {kdTclk0, kdTclk1, kdTclkP, kdTclkN, kdNone}
Edge(E, clk, t1, t2) == \A g : Does(E, OnTclk(clk), t1, g, t2, g)

\* Instructions whose register takes nothing.
Unseen == {IR_DATA_CAPTURE, IR_DATA_QUICK, IR_ADDR_CAPTURE, IR_CNTRL_SIG_CAPTURE,
           IR_TEST_REG, IR_TEST_3V_REG}

\* The instructions that reach the debug unit.
EemCodes == {IR_EMEX_DATA_EXCHANGE, IR_EMEX_DATA_EXCHANGE32}

\* What the bus shows is shifted out.
Shows == {IR_DATA_TO_ADDR, IR_DATA_CAPTURE, IR_DATA_QUICK}

\* The control signals as they are captured.
Captured(c) == c + (1 - Bit(c, \h100)) * \h100 + (1 - Bit(c, \h200)) * \h200

\* What the control signals c make of the CPU and of the bus.
Executes(c) == Bit(c, \h1000) = 1
HasBus(b, c) == Bit(c, \h1000) # 1 /\ (Bit(c, 8) = 1 \/ ~Legacy(b))
Rests(b, c)  == Bit(c, \h1000) # 1 /\ ~(Bit(c, 8) = 1 \/ ~Legacy(b))
Reads(b, c)  == HasBus(b, c) /\ Bit(c, 1) = 1
Writes(b, c) == HasBus(b, c) /\ Bit(c, 1) # 1

\* The control signals k between operations, and m while the CPU executes: the
\* high byte is what is set.
Takes(k, m) ==
    /\ k \in {\h2401, \h2408} /\ m = WithHigh(k, \h34) /\ k = WithHigh(m, \h24)
    /\ m \in Values16 /\ Executes(m)

-----------------------------------------------------------------------------
(* What one step does behind the port.                                     *)

\* A target held, with the debug unit at rest.
Quiet(b) == Sound(b) /\ b.eemaddr = -1

\* The flash controller too.
Calm(b) == Quiet(b) /\ b.busy = 0

\* What the bus shows when control signals c read at a.
Bus(b, c, a) == IF Bit(c, \h10) = 1 THEN BusRead(b, a, TRUE) ELSE BusRead(b, a, FALSE)

\* A write takes b to c.
Wrote(E, b, a, v, c) ==
    /\ c = BusWrite(b, a - (a % 2), v) /\ Moved(b, c, E) /\ Calm(b) /\ Quiet(c)
    /\ (Legacy(c) <=> Legacy(b))

\* The rest of b after the load of a register, after a store, and with the
\* program counter at pc.
Loaded(b, r, v) ==
    [b EXCEPT !.pcok = (r = 0), !.n = IF r = 0 THEN @ ELSE @ + 1,
              !.reg = [[@ EXCEPT ![0] = PcPlus(b, 4)] EXCEPT ![r] = v]]
AtPc(b, pc) == [b EXCEPT !.pcok = FALSE, !.reg = [@ EXCEPT ![0] = pc]]
Stored(b, r, a) ==
    [AtPc(b, PcPlus(b, 4)) EXCEPT !.jmb = IF ~Legacy(b) /\ a = JmbAddr(b) THEN Shown(b, r) ELSE @]

\* The CPU takes w as an instruction: x.
Fetches(b, w, x) == x \in CpuStates /\ x = Decode(b, w)

\* With the word w the instruction x takes b to c.
Loads(E, b, x, w, c) ==
    /\ \E r, hi : x = [k |-> "imm", r |-> r, hi |-> hi] /\ c = Loaded(b, r, hi * 2^16 + w)
    /\ Moved(b, c, E) /\ Calm(b) /\ Calm(c) /\ (Legacy(c) <=> Legacy(b))

\* With the word w the store z takes b to c; the bus shows o, then x goes on.
Stores(E, b, z, w, mdb, c, o, x) ==
    /\ \E r, hi : /\ z = [k |-> "abs", r |-> r, hi |-> hi] /\ c = Stored(b, r, w)
                  /\ x = Showing(IF b.drv = "x" THEN Tail(Shown(b, r)) ELSE Shown(b, r))
                  /\ o = IF b.drv = "x" THEN Head(Shown(b, r)) ELSE mdb
    /\ x \in CpuStates /\ (mdb \in Values16 => o \in Values16)
    /\ Moved(b, c, E) /\ Calm(b) /\ Calm(c) /\ (Legacy(c) <=> Legacy(b))

\* z shows o, and then x goes on.
Displays(z, o, x) ==
    /\ \E s : z = Showing(s) /\ s # <<>> /\ o = Head(s) /\ x = IF Len(s) = 1 THEN Fetch ELSE Showing(Tail(s))
    /\ o \in Values16 /\ x \in CpuStates

\* With the quick register selected the program counter moves on.
Quick(E, b, c, o) ==
    /\ c = AtPc(b, PcPlus(b, 2)) /\ Moved(b, c, E) /\ o = Word(b, b.reg[0]) /\ o \in Values16
    /\ Calm(b) /\ Calm(c) /\ (Legacy(c) <=> Legacy(b))

\* The ways to load the address register.
Addressing(x, a) == x = kAddr20 \/ (x = kAddr16 /\ a \in Values16)

\* Pulses take b to c, and leave TCLK at e.
Strobed(E, b, n, c, e) ==
    /\ c = FlashClock(b, n) /\ Moved(b, c, E) /\ e = b.strobe_end /\ e \in {0, 1} /\ c.strobe_end = e
    /\ Quiet(b) /\ Calm(c) /\ (Legacy(c) <=> Legacy(b))

\* The exchange register takes d, and b becomes c; or it shows o.
Scanned(E, b, d, c) == c = EmexScan(b, d) /\ Moved(b, c, E) /\ (Legacy(c) <=> Legacy(b))
ScannedOut(E, b, c, o) ==
    /\ Scanned(E, b, 0, c)
    /\ o = IF b.eemaddr - 1 \in DOMAIN b.eem THEN b.eem[b.eemaddr - 1] ELSE 0

\* x is the i-th step of a script and k comes next; a is the j-th argument.
At(S, i, k, x)    == Len(S) \in Nat /\ i \in 1 .. Len(S) /\ k = i + 1 /\ S[i] = x
Given(A, j, l, a) == l = j + 1 /\ A[j] = a
Low(a, d)         == d = a % 2^16 /\ d \in Values16

\* The k-th step is the one behind the last.
Ends(S, k) == Len(S) \in Nat /\ k = Len(S) + 1

\* A data scan of what the bus shows, to a local variable.
Got(g, v, x) == [g EXCEPT ![v] = x]
Plain(v)     == v \notin {"", "buf"}

\* ... or to the end of the buffer.
Also(g, x) == [g EXCEPT !["buf"] = Append(@, x)]

\* What a local variable holds, and that a driver has them all.
Has(g, v, x) == g[v] = x
Knows(g) == DOMAIN g = Locals /\ g = [v \in DOMAIN g |-> g[v]]

-----------------------------------------------------------------------------
(* Between two operations.                                                 *)

\* The target of part p ...
Belongs(p, u) ==
    /\ u.drv = p.drv /\ u.id = p.id /\ u.need = p.need /\ u.has_locka = p.has_locka
    /\ \A a \in Per8Addr : u.per[a] = PerValue(a)

\* ... with its flash locked and untouched ...
Shut(u) ==
    /\ u.lock /\ u.locka = u.has_locka /\ ~u.wrt /\ u.erase = {} /\ u.busy = 0 /\ u.doomed = {}
    /\ ~u.violated
    /\ \A a \in FlashCell : u.spent[a] = 0

\* ... and its trigger blocks armed, is at rest behind its port.
Armed(u) == \A a \in {2, 10, 18} : u.eem[a] = 1000 + a
Resting(p, u) ==
    Belongs(p, u) /\ Shut(u) /\ Armed(u) /\ u.jmb = <<>> /\ Sound(u) /\ u.eemaddr = -1

\* The port as an operation of the older drivers leaves it ...
Rested(ir, cntrl) == ir \in Octets /\ ir # IR_DATA_QUICK /\ cntrl \in {\h2401, \h2408}

\* ... and one of TapDev430Xv2: JTAG has the bus, or the program counter is set.
Rested_Xv2(ir, cntrl, tclk, din) ==
    \/ tclk = 1 /\ cntrl = \h0501
    \/ cntrl = \h1400 /\ din = \h4303 /\ ir = IR_ADDR_CAPTURE

\* What an operation finds.
Ready(p, u) ==
    /\ Resting(p, u) /\ u.cpu = Fetch
    /\ Legacy(u) => u.tclk = 1 /\ Rested(u.ir, u.cntrl)
    /\ ~Legacy(u) => Rested_Xv2(u.ir, u.cntrl, u.tclk, u.din)

\* Two targets that differ by memory and registers only.
Akin(b, c) ==
    /\ c.drv = b.drv /\ c.id = b.id /\ c.need = b.need /\ c.has_locka = b.has_locka
    /\ c.per = b.per /\ c.strobe_end = b.strobe_end /\ c.wrt = b.wrt /\ c.erase = b.erase
    /\ c.lock = b.lock /\ c.locka = b.locka /\ c.busy = b.busy /\ c.doomed = b.doomed
    /\ c.spent = b.spent /\ c.violated = b.violated /\ c.eem = b.eem
    /\ c.eemaddr = b.eemaddr /\ c.jmb = b.jmb

\* What a script leaves, seen behind the port.
Behind(c, w) ==
    /\ Akin(c, w) /\ w.mem = c.mem /\ w.reg = c.reg /\ w.n = c.n /\ w.pcok = c.pcok
    /\ w.wdt = c.wdt /\ w.eemctl = c.eemctl /\ Held(w) = Held(c)

\* The memory, the registers and the count of changes are as they were.
Unmoved(b, c) == c.mem = b.mem /\ Held(c) = Held(b) /\ c.n = b.n

-----------------------------------------------------------------------------
(* The promise of an operation, and the invariant.                         *)

\* An operation is called.
Called(p, c, u, g) ==
    /\ p \in Parts /\ LegalCall(p, c) /\ Ready(p, u) /\ u.n = 0
    /\ Knows(g) /\ g["buf"] = <<>> /\ g["pc"] = u.reg[0]

\* It has made its changes, and returns what it promises.
Quietly(p, c, w, h) == c.op = "GetRegs" /\ ~Legacy(p) => w.pcok /\ w.reg[0] = h["pc"] /\ w.jmb = <<>>
Kept(p, c, w, h) ==
    /\ Ready(p, w) /\ w.n = Len(Effects(p, c))
    /\ Result(p, c, h) = Answer(p, c, <<w.mem, Held(w)>>)
    /\ Quietly(p, c, w, h)

\* Its script leads there.
Served(p, c, u, g) ==
    /\ IsSeq(Steps(p, c))
    /\ \E w, h : Does(Effects(p, c), Steps(p, c), u, g, w, h) /\ Kept(p, c, w, h)

\* What the debug unit is told.
EemWord(run_to_bkpt) == IF run_to_bkpt THEN 7 ELSE 6

\* A release makes its change and is about to let the target go, as asked.
Gone(p, c, w) ==
    Resting(p, w) /\ w.pcok /\ w.reg[0] = Resume(p, c) /\ w.eemctl = EemWord(c.bkpt) /\ w.n = Len(Effects(p, c))

\* Its script leads to the last step.
Freeing(p, c, u, g) ==
    \E a : /\ Steps(p, c) = a \o Ir(IR_CNTRL_SIG_RELEASE) /\ IsSeq(a)
           /\ \E w, h : Does(Effects(p, c), a, u, g, w, h) /\ Gone(p, c, w)

\* What is still to come of an operation ...
Serving(p, c, u, g, s) ==
    \E w, h : Path(Effects(p, c), <<u, g, s>>, <<w, h, <<>>>>) /\ Kept(p, c, w, h)

\* ... and of a release.
Parting(p, c, u, g, s) ==
    \E w, h : Path(Effects(p, c), <<u, g, s>>, <<w, h, Ir(IR_CNTRL_SIG_RELEASE)>>) /\ Gone(p, c, w)

\* A target that runs; it rests but for that.
Stopped(u) == [u EXCEPT !.running = FALSE]
Free(p, u) == u \in Target /\ u.running /\ Resting(p, Stopped(u)) /\ u.pcok

\* A target that has been let go, as the operation promises.
SetFree(p, c, u) == Free(p, u) /\ Gone(p, c, Stopped(u)) /\ u.reg[0] = Resume(p, c)

\* An operation under way has the rest of its script before it.
Under(p, c, u, g, s) ==
    IF c.op = "ReleaseDevice" THEN Parting(p, c, u, g, s) \/ (s = <<>> /\ SetFree(p, c, u))
    ELSE Serving(p, c, u, g, s)

\* Between two operations.
Settled(p, u) == IF u.running THEN Free(p, u) ELSE Ready(p, u)

\* The inductive invariant.
Inv ==
    /\ part \in Parts /\ calls \in 0 .. MaxCalls /\ call \in Calls(part) \cup {NoCall}
    /\ IF Idle THEN todo = <<>> /\ Settled(part, t) ELSE Under(part, call, t, got, todo)

=============================================================================
