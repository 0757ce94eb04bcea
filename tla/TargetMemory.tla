---------------------------- MODULE TargetMemory ----------------------------
(***************************************************************************)
(* The target's memory as the probe reads, writes and erases it: the       *)
(* memory half of TapMcu (drivers/TapMcu.cpp), the flash operations of the *)
(* drivers (TapDev430.cpp, TapDev430X.cpp, TapDev430Xv2.cpp with the two   *)
(* programs in Funclets/ it runs in the target), and the monitor command   *)
(* erase.                                                                  *)
(*                                                                         *)
(* A byte is the set of its bits that are 1: an erased byte is the set of  *)
(* all bits, and programming flash intersects.  Of the flash registers     *)
(* only LOCKA is state: it guards segment INFO A, and is toggled by        *)
(* writing a 1.  The operations that may end in several ways are sets of   *)
(* outcomes; the actions of the second half choose one.  Parts with FRAM   *)
(* are left out: nothing of theirs is erased.                              *)
(***************************************************************************)
EXTENDS Integers, Sequences, FiniteSets, SequencesExt

CONSTANTS
    Family,   \* the families a part may belong to
    Bits,     \* the bits of a byte
    Regions,  \* the memory map: [class, start, size, segsize]
    Top,      \* addresses are 0 .. Top
    MaxLen    \* bounds the length of a read or a write

ASSUME FamilyAssumption == Family \subseteq {"slau049", "slau144", "slau208"}

RegionBytes(r) == r.start .. r.start + r.size - 1

\* Regions are blocks of whole words; flash is divided into whole segments.
ASSUME MapAssumption ==
    /\ Regions \subseteq [class : {"info", "main", "ram"}, start : Nat,
                          size : Nat \ {0}, segsize : Nat \ {0}]
    /\ \A r \in Regions :
          /\ r.start % 2 = 0 /\ r.size % 2 = 0 /\ r.size % r.segsize = 0
          /\ RegionBytes(r) \subseteq 0 .. Top
          /\ \A q \in Regions \ {r} :
                RegionBytes(q) \cap RegionBytes(r) = {} /\ q.class # r.class
    /\ \A c \in {"info", "main"} : \E r \in Regions : r.class = c

ASSUME BoundsAssumption == Top \in Nat /\ MaxLen \in Nat

VARIABLES
    family,  \* the part's family (ChipProfile::slau_), fixed
    mem,     \* the target: its memory
    locka,   \* the target: LOCKA in FCTL3 is 1, INFO A is locked
    op       \* what was done last, its answer, and whether it timed out

vars == <<family, mem, locka, op>>

Byte   == SUBSET Bits
Erased == Bits

Mapped == UNION {RegionBytes(r) : r \in Regions}
Memory == [Mapped -> Byte]

-----------------------------------------------------------------------------
(* The part and its memory map *)

HasLocka   == family \in {"slau144", "slau208"}
TlvClash   == IF family = "slau144" THEN 1 ELSE 0
OnePassAll == family = "slau049"
IsXv2Part  == family = "slau208"

RegionOf(class) == CHOOSE r \in Regions : r.class = class

\* FindMemByAddress, where there is one.
RegionAt(a) == CHOOSE r \in Regions : a \in RegionBytes(r)

IsFlash(a) == RegionAt(a).class # "ram"

FlashBytes == {a \in Mapped : IsFlash(a)}

SegmentOf(a) ==
    LET r     == RegionAt(a)
        first == a - ((a - r.start) % r.segsize)
    IN  first .. first + r.segsize - 1

\* The last segment of the information memory.
InfoAStart ==
    LET r == RegionOf("info") IN r.start + r.size - r.segsize

InfoA == SegmentOf(InfoAStart)

\* Mutant: the size is not cut.
CheckRangeUncut(a, size) == size

\* CheckRange: size cut at the end of the region of a; a range that starts
\* outside of every region is not cut.
CheckRange(a, size) ==
    IF a \notin Mapped THEN size
    ELSE LET end == RegionAt(a).start + RegionAt(a).size
         IN  IF a + size > end THEN end - a ELSE size

\* The blocks in which a transfer is made: a byte at an odd start, runs of
\* words that stay inside a region, a byte at an odd end.
BlockSize(a, n) == IF a % 2 = 1 \/ n = 1 THEN 1 ELSE CheckRange(a, n - (n % 2))

Blocks(from, len) ==
    LET Rest[n \in 0 .. len] ==
          IF n = 0 THEN <<>>
          ELSE LET a    == from + len - n
                   size == BlockSize(a, n)
               IN  << <<a, size>> >> \o Rest[n - size]
    IN  Rest[len]

-----------------------------------------------------------------------------
(* ReadMem *)

\* The value of the bytes outside of the map.
Filler == {"0x55"}

\* Mutant: an odd byte is taken from the low half of its word.
ReadBlockLow(a, size) ==
    [i \in 1 .. size |-> IF a \in Mapped THEN mem[a - (a % 2) + i - 1] ELSE Filler]

ReadBlock(a, size) ==
    [i \in 1 .. size |-> IF a \in Mapped THEN mem[a + i - 1] ELSE Filler]

ReadMem(from, len) ==
    LET blocks == Blocks(from, len)
        Upto[n \in 0 .. Len(blocks)] ==
          IF n = 0 THEN <<>>
          ELSE Upto[n - 1] \o ReadBlock(blocks[n][1], blocks[n][2])
    IN  Upto[Len(blocks)]

-----------------------------------------------------------------------------
(* The flash controller *)

\* An operation's outcome so far.  "late": a wait for the target timed out.
NotYet == [mem |-> mem, locka |-> locka, ok |-> TRUE, late |-> FALSE]

\* The probe gave up waiting, with the memory as one of mems, LOCKA as it is.
TimedOut(o, mems) ==
    UNION {{[o EXCEPT !.mem = m, !.locka = l, !.late = TRUE] : l \in BOOLEAN} : m \in mems}

\* Writing FCTL3: a 1 toggles LOCKA.
Toggled(l, one) == IF one THEN ~l ELSE l

\* What an erase clears, by the ERASE and MERAS bits of FCTL1.
Clears(mode, a, lock) ==
    LET main == RegionBytes(RegionOf("main"))
        info == RegionBytes(RegionOf("info"))
        open == IF lock THEN InfoA ELSE {}
    IN  IF mode = "segment" THEN SegmentOf(a) \ open
        ELSE IF mode = "mass" /\ (family = "slau049" \/ (family = "slau144" /\ ~lock))
        THEN main \cup info
        ELSE main

ErasedIn(m, bytes) == [a \in Mapped |-> IF a \in bytes THEN Erased ELSE m[a]]

-----------------------------------------------------------------------------
(* WriteMem *)

\* WriteFlash.  The two older drivers toggle LOCKA before and after; the
\* program WriteFlashXv2 clears it, and sets it when it has all the words.
\* Cut off by one of its timeouts it has written some words, each in its place
\* or, when the first one was lost (see FlashXv2), one place early; WriteFlash
\* drops what it knows of that, and the answer stays what it was.
Programmed(m, lock, word, bytes) ==
    [a \in Mapped |-> IF a \in DOMAIN word \cap bytes /\ ~(lock /\ a \in InfoA)
                      THEN m[a] \cap word[a] ELSE m[a]]

WriteFlashXv2(o, word) ==
    LET first    == Min(DOMAIN word)
        words    == Cardinality(DOMAIN word) \div 2
        After(w, k) == Programmed(o.mem, FALSE, w, first .. first + 2 * k - 1)
        early    == [a \in {b \in DOMAIN word : b + 2 \in DOMAIN word} |-> word[a + 2]]
    IN  {[o EXCEPT !.mem = After(word, words), !.locka = TRUE]}
        \cup TimedOut(o, {After(word, k) : k \in 0 .. words})
        \cup TimedOut(o, {After(early, k) : k \in 0 .. words})

\* Mutant: WriteFlash without the toggle.
WriteFlashLocked(o, word) ==
    {[o EXCEPT !.mem = Programmed(o.mem, o.locka, word, DOMAIN word)]}

WriteFlash(o, word) ==
    IF IsXv2Part THEN WriteFlashXv2(o, word)
    ELSE LET lock == Toggled(o.locka, HasLocka)
         IN  {[o EXCEPT !.mem = Programmed(o.mem, lock, word, DOMAIN word),
                        !.locka = Toggled(lock, HasLocka)]}

\* The words of a block, with the bytes beside its odd ends read from memory.
WordsOf(o, b, from, data) ==
    LET first == b[1] - (b[1] % 2)
        last  == b[1] + b[2] - 1 + ((b[1] + b[2]) % 2)
    IN  [a \in first .. last |->
            IF a \in from .. from + Len(data) - 1 THEN data[a - from + 1]
                                                  ELSE o.mem[a]]

\* RAM takes the words as they are.
Stores(m, word) ==
    [a \in DOMAIN m \cup DOMAIN word |-> IF a \in DOMAIN word THEN word[a] ELSE m[a]]

\* One block.  The first one outside of the map ends the write.
WriteBlock(o, b, from, data) ==
    IF ~o.ok THEN {o}
    ELSE IF b[1] \notin Mapped THEN {[o EXCEPT !.ok = FALSE]}
    ELSE IF IsFlash(b[1]) THEN WriteFlash(o, WordsOf(o, b, from, data))
    ELSE {[o EXCEPT !.mem = Stores(@, WordsOf(o, b, from, data))]}

WriteMem(from, data) ==
    LET blocks == Blocks(from, Len(data))
        After[n \in 0 .. Len(blocks)] ==
          IF n = 0 THEN {NotYet}
          ELSE UNION {WriteBlock(o, blocks[n], from, data) : o \in After[n - 1]}
    IN  After[Len(blocks)]

-----------------------------------------------------------------------------
(* Erasing *)

\* EraseFlash of the older drivers: LOCKA is toggled to unlock, and back.  The
\* repetitions of a mass erase, which never unlocks, are one.
\* Mutant: the flags' LOCKA, which means locked, is written as it is.
EraseFlashUnflipped(o, a, mode, unlock) ==
    LET one  == HasLocka /\ ~unlock
        lock == Toggled(o.locka, one)
    IN  {[o EXCEPT !.mem = ErasedIn(@, Clears(mode, a, lock)),
                   !.locka = Toggled(lock, one)]}

\* Mutant: the register is left as the erase needs it.
EraseFlashUnrestored(o, a, mode, unlock) ==
    LET lock == Toggled(o.locka, HasLocka /\ unlock)
    IN  {[o EXCEPT !.mem = ErasedIn(@, Clears(mode, a, lock)), !.locka = lock]}

EraseFlashLegacy(o, a, mode, unlock) ==
    LET one  == HasLocka /\ unlock
        lock == Toggled(o.locka, one)
    IN  {[o EXCEPT !.mem = ErasedIn(@, Clears(mode, a, lock)),
                   !.locka = Toggled(lock, one)]}

\* The program EraseXv2: it writes LOCKA as wanted and toggles it once more if
\* the register then reads otherwise, which it may do for its WAIT bit alone.
\* In the end it restores the register and toggles LOCKA to 1.
EraseFlashXv2(o, a, mode, unlock) ==
    LET want  == HasLocka /\ ~unlock
        first == Toggled(o.locka, want)
        Done(differs) == ErasedIn(o.mem, Clears(mode, a, Toggled(first, differs)))
    IN  {[o EXCEPT !.mem = Done(d), !.locka = TRUE] : d \in {first # want, TRUE}}
        \cup TimedOut([o EXCEPT !.ok = FALSE], {o.mem, Done(first # want), Done(TRUE)})

EraseFlash(o, a, mode, unlock) ==
    IF IsXv2Part THEN EraseFlashXv2(o, a, mode, unlock)
                 ELSE EraseFlashLegacy(o, a, mode, unlock)

\* Segment by segment, up to the first failure.
EraseNext(o, a) == IF o.ok THEN EraseFlash(o, a, "segment", FALSE) ELSE {o}

EraseSegments(S, addrs) ==
    LET After[n \in 0 .. Len(addrs)] ==
          IF n = 0 THEN S ELSE UNION {EraseNext(o, addrs[n]) : o \in After[n - 1]}
    IN  After[Len(addrs)]

SegmentsFrom(a, n, segsize) == [i \in 1 .. n |-> a + (i - 1) * segsize]

Refused == {[NotYet EXCEPT !.ok = FALSE]}

EraseMain == EraseFlash(NotYet, RegionOf("main").start, "main", FALSE)

\* Where a mass erase leaves the information memory, its segments follow, but
\* for the one with the factory's data.
InfoBanks == RegionOf("info").size \div RegionOf("info").segsize - TlvClash

\* Mutant: every family is taken for one whose mass erase covers it all.
EraseAllOnePass == EraseFlash(NotYet, RegionOf("main").start, "mass", FALSE)

EraseAll ==
    LET info == RegionOf("info")
        mass == EraseFlash(NotYet, RegionOf("main").start, "mass", FALSE)
    IN  IF OnePassAll THEN mass
        ELSE EraseSegments(mass, SegmentsFrom(info.start, InfoBanks, info.segsize))

EraseInfoA ==
    IF HasLocka THEN EraseFlash(NotYet, InfoAStart, "segment", TRUE) ELSE Refused

EraseSegment(a) ==
    IF a \notin Mapped THEN Refused
    ELSE IF ~IsFlash(a) THEN {NotYet}
    ELSE EraseFlash(NotYet, a, "segment", FALSE)

\* Mutant: a last segment that starts inside is forgotten.
EraseRangeShort(a, size) ==
    IF a \notin Mapped THEN Refused
    ELSE IF ~IsFlash(a) THEN {NotYet}
    ELSE LET r == RegionAt(a)
             n == (r.start + r.size - a) \div r.segsize
         IN  EraseSegments({NotYet}, SegmentsFrom(a, n, r.segsize))

\* The size is only compared with the region's, for a message: the loop runs
\* to the end of the region.
EraseRange(a, size) ==
    IF a \notin Mapped THEN Refused
    ELSE IF ~IsFlash(a) THEN {NotYet}
    ELSE LET r == RegionAt(a)
             n == (r.start + r.size - a + r.segsize - 1) \div r.segsize
         IN  EraseSegments({NotYet}, SegmentsFrom(a, n, r.segsize))

-----------------------------------------------------------------------------
(* The specification *)

Address == 0 .. Top
Data    == UNION {[1 .. n -> Byte] : n \in 1 .. MaxLen}

Init ==
    /\ family \in Family
    /\ mem \in Memory
    /\ locka = HasLocka
    /\ op = [name |-> "reset", ok |-> TRUE, late |-> FALSE]

Ends(name, outcomes) ==
    \E o \in outcomes :
        /\ mem' = o.mem /\ locka' = o.locka
        /\ op' = [name |-> name, ok |-> o.ok, late |-> o.late]
        /\ UNCHANGED family

Write    == \E a \in Address, d \in Data : Ends("write", WriteMem(a, d))
Main     == Ends("main", EraseMain)
All      == Ends("all", EraseAll)
InfoAOp  == Ends("infoa", EraseInfoA)
Segment  == \E a \in Address : Ends("segment", EraseSegment(a))
SegRange == \E a \in Address, size \in Address : Ends("segrange", EraseRange(a, size))

\* Outside of the probe: a reset, and a program that unlocks INFO A or locks it.
Reset ==
    /\ locka' = HasLocka
    /\ op' = [name |-> "reset", ok |-> TRUE, late |-> FALSE]
    /\ UNCHANGED <<family, mem>>

Program ==
    /\ HasLocka
    /\ locka' = ~locka
    /\ op' = [name |-> "program", ok |-> TRUE, late |-> FALSE]
    /\ UNCHANGED <<family, mem>>

Next == Write \/ Main \/ All \/ InfoAOp \/ Segment \/ SegRange \/ Reset \/ Program

Spec == Init /\ [][Next]_vars

-----------------------------------------------------------------------------
(* Properties *)

\* Memory stays a byte for every mapped address, and parts without LOCKA
\* never get a locked segment.
TypeOK ==
    /\ family \in Family
    /\ mem \in Memory
    /\ locka \in BOOLEAN /\ (locka => HasLocka)
    /\ op \in [name : {"write", "main", "all", "infoa", "segment", "segrange",
                       "reset", "program"},
               ok : BOOLEAN, late : BOOLEAN]

AsReset == locka = HasLocka

\* The bytes of a transfer before the first one outside of the map.
Reached(from, len) ==
    {a \in from .. from + len - 1 : from .. a \subseteq Mapped}

Stored(a, byte) == IF IsFlash(a) THEN mem[a] \cap byte ELSE byte

\* A write, whatever its alignment and whatever regions it runs through, is
\* answered with success exactly if all of it is mapped; it puts every byte up
\* to the first one that is not where it belongs, and touches no other byte.
\* A write of flash that timed out changes no more, and sets no bit.
WritesExactly ==
    AsReset =>
    \A from \in Address, data \in Data :
        LET reached == Reached(from, Len(data))
        IN  \A o \in WriteMem(from, data) :
               /\ o.ok <=> Cardinality(reached) = Len(data)
               /\ \A a \in Mapped :
                     LET new == IF a \in reached THEN Stored(a, data[a - from + 1])
                                                 ELSE mem[a]
                     IN  \/ o.mem[a] = new
                         \/ o.late /\ a \in FlashBytes \cap reached /\ o.mem[a] \subseteq mem[a]

\* A read answers as many bytes as were asked for, the memory's bytes up to the
\* first address that is not mapped and the filler wherever there is no memory.
ReadsExactly ==
    \A from \in Address, len \in 1 .. MaxLen :
        LET bytes == ReadMem(from, len)
        IN  /\ Len(bytes) = len
            /\ \A i \in 1 .. len :
                  /\ from + i - 1 \in Reached(from, len) => bytes[i] = mem[from + i - 1]
                  /\ from + i - 1 \notin Mapped => bytes[i] = Filler

\* The bytes an erase that does not unlock INFO A may be asked to erase.
Erasable == FlashBytes \ (IF HasLocka THEN InfoA ELSE {})

\* erase segrange, answered with success, has erased the segments from its
\* address on, the one it starts in included, but for a protected INFO A.
RangeErased ==
    \A from \in Address, size \in Address :
        from \in Mapped /\ IsFlash(from) =>
        LET r    == RegionAt(from)
            wide == SegmentOf(from) \cup (from .. from + size - 1)
        IN  \A o \in EraseRange(from, size) :
               o.ok => \A a \in wide \cap RegionBytes(r) \cap Erasable :
                          o.mem[a] = Erased

Erases == {"main", "all", "segment", "segrange"}

\* With LOCKA as a reset leaves it, no erase but erase infoa changes a byte of
\* the segment the bit protects.
InfoAProtected ==
    [][locka /\ op'.name \in Erases => \A a \in InfoA : mem'[a] = mem[a]]_vars

AskedFor(name) ==
    IF name = "main" THEN RegionBytes(RegionOf("main"))
    ELSE IF name = "all" THEN Erasable
    ELSE IF name = "infoa" /\ locka THEN InfoA
    ELSE {}

\* An erase that is answered with success has erased all it stands for: the
\* main memory, all flash but a protected INFO A, or INFO A.
ErasedWhenAnswered ==
    [][op'.ok => \A a \in AskedFor(op'.name) : mem'[a] = Erased]_vars

\* Whatever the probe writes or erases, a locked INFO A is locked again when it
\* has the target back in time.
LockaRestored ==
    [][locka /\ op'.name # "program" /\ ~op'.late => locka']_vars

=============================================================================
