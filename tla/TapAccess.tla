----------------------------- MODULE TapAccess -----------------------------
(***************************************************************************)
(* A driver at work: an operation of ITapDev is called, its script         *)
(* (TapDev430, TapDev430X or TapDev430Xv2) is played one primitive at a    *)
(* time on the target (Msp430Target), and it returns what was read.  The   *)
(* next operation finds the JTAG port, the clock and the CPU as the last   *)
(* one left them.                                                          *)
(***************************************************************************)
EXTENDS Msp430Target, TapDev430X, TapDev430Xv2

CONSTANTS
    Parts,     \* [drv, id, has_locka, need, prof]: the targets the probe may meet
    Calls(_),  \* the operations called on a part
    MaxCalls   \* bounds the number of operations

\* Words are at even addresses, and a cell is of one kind.
ASSUME MemoryAssumption ==
    /\ \A a \in MemAddr : a \in 0 .. 2^20 - 1 /\ a % 2 = 0 /\ {a, a + 1} \cap Per8Addr = {}
    /\ MemAddr \cap (FctlAddr \cup {\h120, \h1CC, \h15C}) = {}
    /\ RamAddr \cap FlashCell = {} /\ FlashAddr \cap InfoAAddr = {}
    /\ Per8Addr \subseteq 0 .. \hFF
    /\ GpRegs \subseteq 4 .. 15

\* The strobes the drivers give, those of the chip's timings or their own, are
\* enough for the flash of the part.
Suffice(p, word, runs, strobes) ==
    IF p.prof.timed
    THEN /\ p.need.word <= p.prof.word_wr /\ p.need.seg <= p.prof.seg_erase
         /\ p.need.mass <= p.prof.mass_erase
         /\ p.need.mass * p.need.rep <= p.prof.mass_erase_rep * p.prof.mass_erase
    ELSE /\ p.need.word <= word /\ p.need.seg <= 4820
         /\ p.need.mass <= strobes /\ p.need.mass * p.need.rep <= runs * strobes

Timings == [timed : BOOLEAN, mass_erase : Nat, mass_erase_rep : Nat, seg_erase : Nat,
            word_wr : Nat, has_locka : BOOLEAN, clk_ctrl : {"none", "standardI", "extended"},
            stop_fll : BOOLEAN, lpmx5 : BOOLEAN]

ASSUME PartsAssumption ==
    \A p \in Parts :
        /\ p \in [drv : {"std", "x", "xv2", "xv2_1377"}, id : Nat, has_locka : BOOLEAN,
                  need : [word : Nat \ {0}, seg : Nat \ {0}, mass : Nat \ {0}, rep : Nat \ {0}],
                  prof : Timings]
        /\ p.prof.has_locka = p.has_locka
        /\ p.drv = "std" => Suffice(p, 35, 19, 5300)
        /\ p.drv = "x" => Suffice(p, 30, 1, 10600)

Words(a, n)  == {a + 2 * i : i \in 0 .. n - 1}
Bytes(a, n)  == {a + i : i \in 0 .. n - 1}
Values16     == 0 .. 2^16 - 1
RegValues(p) == 0 .. RegSize(p) - 1

\* What an erase is told to erase, and what it can: INFO A is erased when LOCKA
\* is turned over for it, which several runs would do several times.
LegalErase(p, c) ==
    LET fctl3n == EraseFctl3(c.flags, p.prof)
        opens  == p.has_locka /\ Bit(fctl3n, LOCKA) = 1
    IN  /\ c.a \in FlashCell \cap RegValues(p) /\ c.mass \in BOOLEAN
        /\ c.flags.fctl1 \in (IF c.mass THEN {\hA504, \hA506} ELSE {\hA502})
        /\ c.flags.fctl3 \in {\hA500, \hA540}
        /\ c.cells = Doomed({b \in {2, 4, 8} : Bit(c.flags.fctl1, b) = 1}, c.a)
                        \ (IF p.has_locka /\ ~opens THEN InfoAAddr ELSE {})
        /\ c.cells # {}
        /\ opens => EraseRuns(p.prof, c.mass, IF p.drv = "std" THEN 19 ELSE 1) = 1

\* Operations with the arguments the layers above give them.
LegalCall(p, c) ==
    CASE c.op = "ReadByte"   -> c.a \in RegValues(p) /\ c.a - (c.a % 2) \in MemAddr
      [] c.op = "ReadBytes"  ->
            /\ c.a \in Nat /\ c.n \in Nat
            /\ \A b \in Bytes(c.a, c.n) :
                  IF Legacy(p) THEN b \in Per8Addr ELSE b - (b % 2) \in MemAddr
      [] c.op = "ReadWord"   -> c.a \in MemAddr \cap RegValues(p)
      [] c.op = "ReadWords"  ->
            c.n \in Nat /\ c.a \in RegValues(p) /\ Words(c.a, c.n) \subseteq MemAddr \cap RegValues(p)
      [] c.op = "WriteWord"  -> c.a \in RamAddr \cap RegValues(p) /\ c.v \in Values16
      [] c.op = "WriteWords" ->
            c.a \in Nat /\ c.v \in Seq(Values16)
            /\ Words(c.a, Len(c.v)) \subseteq RamAddr \cap RegValues(p)
      [] c.op = "WriteFlash" ->
            Legacy(p) /\ c.a \in Nat /\ c.v \in Seq(Values16)
            /\ Words(c.a, Len(c.v)) \subseteq FlashCell \cap RegValues(p)
      [] c.op = "EraseFlash" -> Legacy(p) /\ LegalErase(p, c)
      [] c.op = "SetPC"      -> c.v \in RegValues(p)
      [] c.op = "SetReg"     -> c.r \in Regs \ {0} /\ c.v \in RegValues(p)
      [] c.op = "GetRegs"    -> c.r \in Regs \ {0}
      [] c.op = "ReleaseDevice" ->
            /\ c.ctx \in [pc : RegValues(p), sr : Values16, wdt : Values16]
            /\ ~Legacy(p) => ResumePc(c.ctx) \in RegValues(p)
            /\ c.bkpt \in BOOLEAN /\ c.mdb \in Values16
      [] OTHER -> FALSE

ASSUME CallsAssumption ==
    MaxCalls \in Nat /\ \A p \in Parts : \A c \in Calls(p) : LegalCall(p, c)

\* The local variables of the drivers.
Locals == {"data", "buf", "pc", "rx_l", "rx_h", "ctrl", "sig", "jtagId", "jtag_id", "back_r0",
           "backup0", "backup1", "backup2", "clk_ctrl", "reg_3V", "reg_test", "tmp"}

VARIABLES
    part,    \* the part connected, and the driver chosen for it
    t,       \* the target
    call,    \* the operation being played, or NoCall
    todo,    \* the primitives still to play
    got,     \* the driver's local variables; "buf" is the buffer read
             \* into, "pc" (for the properties) where the operation found the CPU
    answer,  \* what the last operation returned
    calls    \* number of operations called

vars == <<part, t, call, todo, got, answer, calls>>

NoCall == [op |-> "none"]
Idle   == call = NoCall

PerValue(a) == a % 256

\* A captured target: JTAG in control, TCLK high, flash locked, watchdog held.
\* end is where the probe's strobes leave TCLK.
InitTarget(p, end) ==
    [drv |-> p.drv, id |-> p.id, need |-> p.need, has_locka |-> p.has_locka,
     ir |-> IR_DATA_CAPTURE, cntrl |-> IF p.drv \in {"std", "x"} THEN \h2401 ELSE \h0501,
     tclk |-> 1, mab |-> 0, dto |-> 0, din |-> 0, mdb |-> 0, cpu |-> Fetch,
     reg |-> [r \in Regs |-> IF r = 0 THEN \hF000 ELSE IF r = 2 THEN 8 ELSE \h5A5A], pcok |-> FALSE,
     mem |-> [a \in MemAddr |-> IF a \in RamAddr THEN 4096 + (a % 4096) ELSE \hFFFF - (a % 16)],
     per |-> [a \in Per8Addr |-> PerValue(a)], wdt |-> \h80, wrt |-> FALSE, erase |-> {},
     lock |-> TRUE, locka |-> p.has_locka, busy |-> 0, doomed |-> {},
     spent |-> [a \in FlashCell |-> 0], n |-> 0, violated |-> FALSE,
     eem |-> [a \in {2, 10, 18, \h82, \h88} |-> 1000 + a], eemaddr |-> -1, eemctl |-> 0,
     jmb |-> <<>>, running |-> FALSE, strobe_end |-> end]

-----------------------------------------------------------------------------
(* The script of an operation, for the driver of the part.                 *)

LegacySteps(p, c) ==
    LET prof == p.prof
        std  == p.drv = "std"
    IN  CASE c.op = "ReadByte"   -> IF std THEN ReadByte(c.a) ELSE ReadByte_X(c.a)
          [] c.op = "ReadBytes"  -> IF std THEN ReadBytes(c.a, c.n) ELSE ReadBytes_X(c.a, c.n)
          [] c.op = "ReadWord"   -> IF std THEN ReadWord(c.a) ELSE ReadWord_X(c.a)
          [] c.op = "ReadWords"  -> IF std THEN ReadWords(c.a, c.n) ELSE ReadWords_X(c.a, c.n)
          [] c.op = "WriteWord"  -> IF std THEN WriteWord(c.a, c.v) ELSE WriteWord_X(c.a, c.v)
          [] c.op = "WriteWords" -> IF std THEN WriteWords(c.a, c.v) ELSE WriteWords_X(c.a, c.v)
          [] c.op = "WriteFlash" -> IF std THEN WriteFlash(c.a, c.v, prof)
                                    ELSE WriteFlash_X(c.a, c.v, prof)
          [] c.op = "EraseFlash" -> IF std THEN EraseFlash(c.a, c.flags, c.mass, prof)
                                    ELSE EraseFlash_X(c.a, c.flags, c.mass, prof)
          [] c.op = "SetPC"      -> IF std THEN SetPC(c.v) ELSE SetPC_X(c.v)
          [] c.op = "SetReg"     -> IF std THEN SetReg(c.r, c.v) ELSE SetReg_X(c.r, c.v)
          [] c.op = "GetRegs"    -> IF std THEN GetReg(c.r) ELSE GetReg_X(c.r)
          [] c.op = "ReleaseDevice" ->
                IF std THEN ReleaseDevice(c.ctx, prof, c.bkpt, c.mdb)
                ELSE ReleaseDevice_X(c.ctx, prof, c.bkpt, c.mdb)

Xv2GetReg(p, r) == IF p.drv = "xv2_1377" THEN GetReg_1377(r) ELSE GetRegInternal(r, p.id)

Xv2Steps(p, c) ==
    CASE c.op = "ReadByte"   -> ReadByte_Xv2(c.a)
      [] c.op = "ReadBytes"  -> ReadBytes_Xv2(c.a, c.n)
      [] c.op = "ReadWord"   -> ReadWord_Xv2(c.a)
      [] c.op = "ReadWords"  -> ReadWords_Xv2(c.a, c.n)
      [] c.op = "WriteWord"  -> WriteWord_Xv2(c.a, c.v)
      [] c.op = "WriteWords" -> WriteWords_Xv2(c.a, c.v)
      [] c.op = "SetPC"      -> SetPC_Xv2(c.v)
      [] c.op = "SetReg"     -> SetReg_Xv2(c.r, c.v)
      [] c.op = "GetRegs"    -> GetRegs_Begin(p.id) \o Xv2GetReg(p, c.r) \o GetRegs_End
      [] c.op = "ReleaseDevice" ->
            ReleaseDevice_Xv2(c.ctx, p.prof, c.bkpt, c.mdb, p.id, WdtAddr(p))

Steps(p, c) == IF Legacy(p) THEN LegacySteps(p, c) ELSE Xv2Steps(p, c)

\* What the driver returns, from its local variables g.
Result(p, c, g) ==
    CASE c.op = "GetRegs" /\ p.drv = "std" -> <<g["data"]>>
      [] c.op = "GetRegs" /\ p.drv = "x"   -> <<g["rx_h"] * 2^16 + g["rx_l"]>>
      [] c.op = "GetRegs" /\ ~Legacy(p)    -> <<(g["rx_h"] * 2^16 + g["rx_l"]) % 2^20>>
      [] c.op = "ReadByte" /\ Legacy(p)    -> <<g["data"] % 256>>
      [] c.op = "ReadWord" /\ Legacy(p)    -> <<g["data"]>>
      [] c.op = "ReadBytes" /\ Legacy(p)   -> [i \in DOMAIN g["buf"] |-> g["buf"][i] % 256]
      [] c.op = "ReadByte" /\ ~Legacy(p)   -> <<ByteOf(c.a, g["buf"][1])>>
      [] c.op = "ReadBytes" /\ ~Legacy(p)  ->
            [i \in DOMAIN g["buf"] |-> ByteOf(c.a + i - 1, g["buf"][i])]
      [] c.op = "ReadWords" \/ (c.op = "ReadWord" /\ ~Legacy(p)) -> g["buf"]
      [] OTHER                             -> <<>>

-----------------------------------------------------------------------------

Call(c) ==
    /\ Idle /\ ~t.running /\ calls < MaxCalls
    /\ call' = c
    /\ t' = [t EXCEPT !.n = 0]
    /\ todo' = Steps(part, c)
    /\ got' = [v \in Locals |-> CASE v = "buf" -> <<>> [] v = "pc" -> t.reg[0] [] OTHER -> \hFFFF]
    /\ answer' = <<>>
    /\ calls' = calls + 1
    /\ UNCHANGED part

\* Primitives of the JTAG port.
Primitives == {"ir", "dr", "set", "clr", "strobe", "jmbout", "delay"}

Arg(e, g) ==
    CASE e.from = ""                -> e.n
      [] e.from # "" /\ e.off = 0   -> g[e.from]
      [] e.from # "" /\ e.off # 0   -> g[e.from] - Bit(g[e.from], e.off) * e.off

Took(e, g, out) ==
    CASE e.to = ""                -> g
      [] e.to = "buf"             -> [g EXCEPT !["buf"] = Append(@, out)]
      [] e.to \notin {"", "buf"}  -> [g EXCEPT ![e.to] = out]

Primitive ==
    /\ todo # <<>> /\ Head(todo).p \in Primitives
    /\ LET e == Head(todo)
       IN  /\ t' = TargetStep(t, e.p, Arg(e, got))
           /\ got' = Took(e, got, TargetOut(t, e.p))
    /\ todo' = Tail(todo)
    /\ UNCHANGED <<part, call, answer, calls>>

\* What the driver does between two primitives: the next step of a list, the
\* next item of a loop, a test, a value computed.
InPlaceOf(e, g) ==
    CASE e.p = "play"  -> Unpack(e)
      [] e.p = "loop"  -> Iterate(e)
      [] e.p = "if"    -> IF AnyBit(g[e.of], e.bits) \/ g[e.of] \in e.values THEN e.then ELSE <<>>
      [] e.p = "setpc" -> SetPC_Xv2((g[e.from] + e.n) % 2^20)

Control ==
    /\ todo # <<>> /\ Head(todo).p \in {"play", "loop", "if", "setpc"}
    /\ todo' = InPlaceOf(Head(todo), got) \o Tail(todo)
    /\ UNCHANGED <<part, t, call, got, answer, calls>>

Local ==
    /\ todo # <<>> /\ Head(todo).p = "combine"
    /\ got' = [got EXCEPT ![Head(todo).to] = (got["rx_h"] * 2^16 + got["rx_l"]) % 2^20]
    /\ todo' = Tail(todo)
    /\ UNCHANGED <<part, t, call, answer, calls>>

\* Mutant: the operation returns while its script is still being played.
ReturnEarly ==
    /\ ~Idle
    /\ answer' = answer /\ call' = NoCall /\ got' = <<>>
    /\ UNCHANGED <<part, t, todo, calls>>

Return ==
    /\ ~Idle /\ todo = <<>>
    /\ answer' = Result(part, call, got)
    /\ call' = NoCall
    /\ got' = <<>>
    /\ UNCHANGED <<part, t, todo, calls>>

\* Environment: the probe stops the running target again.  Its program may have
\* done anything; the port is as the synchronization of the driver leaves it,
\* its last steps being SetPC and a register read.
StoppedAgain(u, w, r) ==
    [u EXCEPT !.running = FALSE, !.ir = IR_DATA_CAPTURE, !.tclk = 1, !.cpu = Fetch,
              !.cntrl = IF Legacy(u) THEN \h2401 ELSE \h0501,
              !.mem = [a \in DOMAIN @ |-> IF a \in RamAddr THEN w ELSE @[a]],
              !.reg = [i \in DOMAIN @ |-> IF i \in GpRegs THEN r % RegSize(u) ELSE @[i]],
              !.pcok = FALSE]

Capture ==
    /\ Idle /\ t.running /\ calls < MaxCalls
    /\ \E w \in {\h1234, \hFFFF}, r \in {0, \h54321} : t' = StoppedAgain(t, w, r)
    /\ answer' = <<>>
    /\ UNCHANGED <<part, call, todo, got, calls>>

\* The calls the bound allows are done.
Done == Idle /\ calls = MaxCalls /\ UNCHANGED vars

Init ==
    /\ part \in Parts
    /\ \E end \in {0, 1} : t = InitTarget(part, end)
    /\ call = NoCall /\ todo = <<>> /\ got = <<>> /\ answer = <<>> /\ calls = 0

Next ==
    \/ \E c \in Calls(part) : Call(c)
    \/ Primitive \/ Control \/ Local \/ Return \/ Capture \/ Done

Spec == Init /\ [][Next]_vars

-----------------------------------------------------------------------------
(* The promise                                                             *)

Write(a, v)   == [k |-> "write", at |-> a, v |-> v]
Program(a, v) == [k |-> "program", at |-> a, v |-> v]

\* The words of a flash block that are not all ones, one after the other.
Programs(a, buf) ==
    LET upto[i \in 0 .. Len(buf)] ==
            IF i = 0 THEN <<>>
            ELSE IF buf[i] = \hFFFF THEN upto[i - 1]
            ELSE Append(upto[i - 1], Program(a + 2 * (i - 1), buf[i]))
    IN  upto[Len(buf)]

Effects(p, c) ==
    CASE c.op = "WriteWord"  -> <<Write(c.a, c.v)>>
      [] c.op = "WriteWords" -> [i \in DOMAIN c.v |-> Write(c.a + 2 * (i - 1), c.v[i])]
      [] c.op = "WriteFlash" -> Programs(c.a, c.v)
      [] c.op = "EraseFlash" -> <<[k |-> "erase", at |-> c.cells, v |-> 0]>>
      [] c.op = "SetReg"     -> <<[k |-> "reg", at |-> c.r, v |-> c.v]>>
      [] c.op = "ReleaseDevice" -> <<[k |-> "reg", at |-> 2, v |-> c.ctx.sr]>>
      [] OTHER               -> <<>>

ByteAt(m, a) ==
    LET w == m[a - (a % 2)] IN IF a % 2 = 1 THEN w \div 256 ELSE w % 256

Answer(p, c, held) ==
    LET m == held[1] IN
    CASE c.op = "ReadByte"  -> <<ByteAt(m, c.a)>>
      [] c.op = "ReadBytes" -> [i \in 1 .. c.n |-> IF c.a \in Per8Addr THEN PerValue(c.a + i - 1)
                                                   ELSE ByteAt(m, c.a + i - 1)]
      [] c.op = "ReadWord"  -> <<m[c.a]>>
      [] c.op = "ReadWords" -> [i \in 1 .. c.n |-> m[c.a + 2 * (i - 1)]]
      [] c.op = "GetRegs"   -> <<held[2][c.r]>>
      [] OTHER              -> <<>>

Resume(p, c) == IF Legacy(p) THEN c.ctx.pc ELSE ResumePc(c.ctx)

\* The registers but the program counter, which the drivers use.
Held(u) == [i \in DOMAIN u.reg \ {0} |-> u.reg[i]]

\* The changes still to come, and where the target runs.
ToCome(E, n) == SubSeq(E, n + 1, Len(E))
Left         == IF Idle THEN <<>> ELSE ToCome(Effects(part, call), t.n)
RunsAt       == IF t.running THEN t.reg[0] ELSE -1

Port == INSTANCE TapPort WITH
    mem <- t.mem, reg <- Held(t), left <- Left, running <- RunsAt,
    Effects <- Effects, Answer <- Answer, Resume <- Resume, Program <- And16

\* Every operation of every driver keeps the promise of ITapDev: it changes the
\* memory and registers it names, in order and nothing else, and returns what
\* the target holds.
Implements == Port!Spec

\* Between two operations the flash is as before the first: locked, INFO A as
\* protected as it was, nothing being erased, no access refused.
FlashClosed ==
    Idle => /\ t.lock /\ t.locka = part.has_locka
            /\ ~t.wrt /\ t.erase = {} /\ t.busy = 0
            /\ ~t.violated

\* A target that is let go has its trigger blocks as the breakpoints armed them,
\* its debug unit enabled or not as asked for, and an empty mailbox.
ReleasedAsAsked ==
    t.running =>
        /\ \A b \in {2, 10, 18} : t.eem[b] = 1000 + b
        /\ t.pcok /\ t.jmb = <<>>
        /\ ~Idle => t.eemctl = IF call.bkpt THEN 7 ELSE 6

\* Registers of a CPUXv2 are read through the program counter and the mailbox:
\* afterwards both are as if they had not been.
RegistersReadQuietly ==
    (call.op = "GetRegs" /\ ~Legacy(t) /\ todo = <<>>)
        => t.pcok /\ t.reg[0] = got["pc"] /\ t.jmb = <<>>

\* Types; the script of a call is played to its end before the call returns.
TypeOK ==
    /\ part \in Parts /\ calls \in 0 .. MaxCalls
    /\ call \in Calls(part) \cup {NoCall}
    /\ t.cntrl \in Values16 /\ t.mab \in RegValues(t) /\ t.mdb \in Values16
    /\ \A a \in MemAddr : t.mem[a] \in Values16
    /\ \A r \in DOMAIN t.reg : t.reg[r] \in RegValues(t)
    /\ t.busy >= 0 /\ t.n >= 0
    /\ todo # <<>> => ~Idle

=============================================================================
