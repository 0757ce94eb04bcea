------------------------- MODULE TargetMemory_proof -------------------------
(***************************************************************************)
(* Proofs about TargetMemory: what its operations do to the memory of a    *)
(* part with any map of regions, for transfers of any length.              *)
(***************************************************************************)
EXTENDS TargetMemory, Recursion, FiniteSetTheorems, SequenceTheorems

(* Numbers *)

LEMMA DivMod ==
    ASSUME NEW x \in Int, NEW g \in Nat \ {0}
    PROVE  x = g * (x \div g) + (x % g) /\ x % g \in 0 .. g - 1 /\ x \div g \in Int
  OBVIOUS

LEMMA Dist ==
    ASSUME NEW g \in Int, NEW d \in Int, NEW e \in Int
    PROVE  g * (d + e) = g * d + g * e /\ g * (d - e) = g * d - g * e /\ g * d \in Int
  OBVIOUS

LEMMA Above ==
    ASSUME NEW g \in Nat \ {0}, NEW d \in Int, d >= 1
    PROVE  g * d >= g
  OBVIOUS

LEMMA Below ==
    ASSUME NEW g \in Nat \ {0}, NEW d \in Int, d <= -1
    PROVE  g * d <= -g
  OBVIOUS

\* There is one way to divide with a remainder.
LEMMA OneQuotient ==
    ASSUME NEW g \in Nat \ {0}, NEW q \in Int, NEW s \in 0 .. g - 1,
           NEW d \in Int, NEW m \in 0 .. g - 1, g * q + s = g * d + m
    PROVE  q = d /\ s = m
  <1>1. g * (q - d) = m - s
    BY Dist
  <1>2. ~(q - d >= 1)
    BY <1>1, Above
  <1>3. ~(q - d <= -1)
    BY <1>1, Below
  <1> QED BY <1>1, <1>2, <1>3

-----------------------------------------------------------------------------
(* The map *)

LEMMA RegionType ==
    ASSUME NEW r \in Regions
    PROVE  /\ r.class \in {"info", "main", "ram"}
           /\ r.start \in Nat /\ r.size \in Nat \ {0} /\ r.segsize \in Nat \ {0}
           /\ r.start % 2 = 0 /\ r.size % 2 = 0 /\ r.size % r.segsize = 0
           /\ RegionBytes(r) = r.start .. r.start + r.size - 1
           /\ RegionBytes(r) \subseteq Mapped
  BY MapAssumption DEF RegionBytes, Mapped

LEMMA RegionsApart ==
    ASSUME NEW r \in Regions, NEW q \in Regions
    PROVE  /\ r.class = q.class => r = q
           /\ \A a \in RegionBytes(r) : a \in RegionBytes(q) => r = q
  <1>1. CASE r # q
    <2>1. RegionBytes(q) \cap RegionBytes(r) = {} /\ q.class # r.class
      BY <1>1, MapAssumption
    <2> QED BY <2>1
  <1> QED BY <1>1

LEMMA RegionAtFacts ==
    ASSUME NEW a \in Mapped
    PROVE  RegionAt(a) \in Regions /\ a \in RegionBytes(RegionAt(a))
  <1>1. \E r \in Regions : a \in RegionBytes(r)
    BY DEF Mapped
  <1> QED BY <1>1 DEF RegionAt

LEMMA RegionAtIs ==
    ASSUME NEW r \in Regions, NEW a \in RegionBytes(r)
    PROVE  RegionAt(a) = r
  <1>1. a \in Mapped
    BY DEF Mapped
  <1> QED BY <1>1, RegionAtFacts, RegionsApart

LEMMA RegionOfFacts ==
    ASSUME NEW c \in {"info", "main"}
    PROVE  RegionOf(c) \in Regions /\ RegionOf(c).class = c
  <1>1. \E r \in Regions : r.class = c
    BY MapAssumption
  <1> QED BY <1>1 DEF RegionOf

MainBytes == RegionBytes(RegionOf("main"))
InfoBytes == RegionBytes(RegionOf("info"))

LEMMA MainAndInfo ==
    /\ FlashBytes = MainBytes \cup InfoBytes
    /\ MainBytes \cap InfoBytes = {}
    /\ MainBytes \subseteq Mapped /\ InfoBytes \subseteq Mapped
  <1>1. /\ RegionOf("main") \in Regions /\ RegionOf("main").class = "main"
        /\ RegionOf("info") \in Regions /\ RegionOf("info").class = "info"
    BY RegionOfFacts
  <1>2. MainBytes \subseteq Mapped /\ InfoBytes \subseteq Mapped
    BY <1>1, RegionType DEF MainBytes, InfoBytes
  <1>3. MainBytes \cap InfoBytes = {}
    BY <1>1, RegionsApart DEF MainBytes, InfoBytes
  <1>4. ASSUME NEW a \in FlashBytes PROVE a \in MainBytes \cup InfoBytes
    <2>1. a \in Mapped /\ RegionAt(a).class # "ram"
      BY DEF FlashBytes, IsFlash
    <2>2. RegionAt(a) \in Regions /\ a \in RegionBytes(RegionAt(a))
      BY <2>1, RegionAtFacts
    <2>3. RegionAt(a).class \in {"info", "main"}
      BY <2>1, <2>2, RegionType
    <2>4. RegionAt(a) = RegionOf("info") \/ RegionAt(a) = RegionOf("main")
      BY <1>1, <2>2, <2>3, RegionsApart
    <2> QED BY <2>2, <2>4 DEF MainBytes, InfoBytes
  <1>5. ASSUME NEW a \in MainBytes \cup InfoBytes PROVE a \in FlashBytes
    <2>1. RegionAt(a) = RegionOf("info") \/ RegionAt(a) = RegionOf("main")
      BY <1>1, RegionAtIs DEF MainBytes, InfoBytes
    <2> QED BY <1>1, <1>2, <2>1 DEF FlashBytes, IsFlash
  <1> QED BY <1>2, <1>3, <1>4, <1>5

\* Segment k of region r, counted from 0, and how many it has.
Seg(r, k) == r.start + r.segsize * k .. r.start + r.segsize * k + r.segsize - 1

Segs(r) == r.size \div r.segsize

\* The number of a's segment.
SegNo(r, a) == (a - r.start) \div r.segsize

LEMMA SegsFacts ==
    ASSUME NEW r \in Regions
    PROVE  Segs(r) \in Nat \ {0} /\ r.size = r.segsize * Segs(r)
  <1>1. r.size \in Nat \ {0} /\ r.segsize \in Nat \ {0} /\ r.size % r.segsize = 0
    BY RegionType
  <1>2. r.size = r.segsize * Segs(r) /\ Segs(r) \in Int
    <2>1. r.size \in Int
      BY <1>1
    <2>2. r.size = r.segsize * (r.size \div r.segsize) + (r.size % r.segsize)
          /\ r.size \div r.segsize \in Int
      BY <1>1, <2>1, DivMod, Zenon
    <2> DEFINE q == r.size \div r.segsize
    <2>3. r.segsize * q \in Int
      BY <1>1, <2>2, Dist
    <2> HIDE DEF q
    <2>4. r.segsize * q + 0 = r.segsize * q
      BY <2>3
    <2> QED BY <1>1, <2>2, <2>4, Zenon DEF Segs, q
  <1>3. ~(Segs(r) <= -1)
    BY <1>1, <1>2, Below
  <1> QED BY <1>1, <1>2, <1>3

LEMMA SegNoFacts ==
    ASSUME NEW r \in Regions, NEW a \in RegionBytes(r)
    PROVE  /\ SegNo(r, a) \in 0 .. Segs(r) - 1 /\ a \in Seg(r, SegNo(r, a))
           /\ SegmentOf(a) = Seg(r, SegNo(r, a))
  <1> DEFINE g == r.segsize
             k == SegNo(r, a)
             x == a - r.start
  <1>1. g \in Nat \ {0} /\ r.start \in Nat /\ r.size \in Nat \ {0} /\ a \in Int
        /\ x \in 0 .. r.size - 1 /\ a = r.start + x
    BY RegionType
  <1>2. Segs(r) \in Nat \ {0} /\ r.size = g * Segs(r)
    BY SegsFacts
  <1>3. x = g * k + (x % g) /\ x % g \in 0 .. g - 1 /\ k \in Int
    <2>1. x \in Int
      BY <1>1
    <2> HIDE DEF x, g
    <2>2. x = g * (x \div g) + (x % g) /\ x % g \in 0 .. g - 1 /\ x \div g \in Int
      BY <1>1, <2>1, DivMod, Zenon
    <2> QED BY <2>2, Zenon DEF SegNo, x, g
  <1>4. ~(k <= -1)
    <2> SUFFICES ASSUME k <= -1 PROVE FALSE
      OBVIOUS
    <2>1. g * k <= -g
      BY <1>1, <1>3, Below
    <2> QED BY <1>1, <1>3, <2>1
  <1>5. ~(k - Segs(r) >= 0)
    <2> SUFFICES ASSUME k - Segs(r) >= 0 PROVE FALSE
      OBVIOUS
    <2>1. g * (k - Segs(r)) = g * k - g * Segs(r) /\ k - Segs(r) \in Nat
      BY <1>1, <1>2, <1>3, Dist
    <2>2. g * (k - Segs(r)) >= 0
      BY <1>1, <2>1
    <2> QED BY <1>1, <1>2, <1>3, <2>1, <2>2
  <1>6. a - (x % g) = r.start + g * k
    BY <1>1, <1>3
  <1>7. RegionAt(a) = r
    BY RegionAtIs
  <1>8. SegmentOf(a) = Seg(r, k)
    <2>1. SegmentOf(a) = a - (x % g) .. (a - (x % g)) + g - 1
      BY <1>7 DEF SegmentOf
    <2> QED BY <1>6, <2>1, Zenon DEF Seg
  <1>9. a \in Seg(r, k)
    <2>1. g * k \in Int
      BY <1>1, <1>3, Dist
    <2> QED BY <1>1, <1>3, <2>1 DEF Seg
  <1> QED BY <1>2, <1>3, <1>4, <1>5, <1>8, <1>9

LEMMA SegInRegion ==
    ASSUME NEW r \in Regions, NEW k \in 0 .. Segs(r) - 1
    PROVE  /\ Seg(r, k) \subseteq RegionBytes(r)
           /\ \A a \in Seg(r, k) : SegNo(r, a) = k /\ SegmentOf(a) = Seg(r, k)
           /\ r.start + r.segsize * k \in Seg(r, k)
  <1> DEFINE g == r.segsize
  <1>1. g \in Nat \ {0} /\ r.start \in Nat /\ r.size \in Nat \ {0}
        /\ RegionBytes(r) = r.start .. r.start + r.size - 1
    BY RegionType
  <1>2. Segs(r) \in Nat \ {0} /\ r.size = g * Segs(r)
    BY SegsFacts
  <1>3. g * k \in Nat /\ g * k + g <= r.size
    <2>1. g * k \in Nat
      BY <1>1, <1>2
    <2>2. Segs(r) - k \in Int /\ Segs(r) - k >= 1
      BY <1>2
    <2>3. g * (Segs(r) - k) >= g
      BY <1>1, <2>2, Above
    <2>4. g * (Segs(r) - k) = g * Segs(r) - g * k
      <3>1. g \in Int /\ Segs(r) \in Int /\ k \in Int
        BY <1>1, <1>2
      <3> HIDE DEF g
      <3> QED BY <3>1, Dist, Zenon
    <2> QED BY <1>1, <1>2, <2>1, <2>3, <2>4, SMTT(30)
  <1> DEFINE p == g * k
  <1> HIDE DEF p, g
  <1>s. Seg(r, k) = r.start + p .. r.start + p + g - 1
    BY DEF Seg, p, g
  <1>t. p \in Nat /\ p + g <= r.size
    BY <1>3 DEF p
  <1>4. Seg(r, k) \subseteq RegionBytes(r) /\ r.start + p \in Seg(r, k)
    BY <1>1, <1>s, <1>t
  <1>5. ASSUME NEW a \in Seg(r, k)
        PROVE  SegNo(r, a) = k
    <2> DEFINE x == a - r.start
    <2>0. x \in Int /\ x - p \in 0 .. g - 1 /\ x = p + (x - p)
      BY <1>1, <1>s, <1>t, SMTT(30)
    <2>1. x \in Int /\ x - p \in 0 .. g - 1 /\ x = g * k + (x - p)
      BY <2>0 DEF p
    <2>2. x = g * (x \div g) + (x % g) /\ x % g \in 0 .. g - 1 /\ x \div g \in Int
      BY <1>1, <2>1, DivMod
    <2> HIDE DEF x
    <2>3. k = x \div g
      <3> DEFINE q == x \div g
                 m == x % g
                 s == x - p
      <3>1. q \in Int /\ m \in 0 .. g - 1 /\ s \in 0 .. g - 1 /\ k \in Int
            /\ g * k + s = g * q + m
        BY <2>1, <2>2
      <3> HIDE DEF q, m, s
      <3>2. k = q
        BY <1>1, <3>1, OneQuotient
      <3> QED BY <3>2 DEF q
    <2> QED BY <2>3 DEF SegNo, x, g
  <1>6. ASSUME NEW a \in Seg(r, k)
        PROVE  SegmentOf(a) = Seg(r, k)
    <2>1. a \in RegionBytes(r)
      BY <1>4
    <2> QED BY <1>5, <2>1, SegNoFacts
  <1> QED BY <1>4, <1>5, <1>6 DEF p, g

LEMMA InfoAIs ==
    LET r == RegionOf("info") IN
    InfoA = Seg(r, Segs(r) - 1) /\ InfoA \subseteq InfoBytes /\ InfoAStart \in InfoBytes
  <1> DEFINE r == RegionOf("info")
             k == Segs(r) - 1
  <1>1. r \in Regions
    BY RegionOfFacts
  <1>2. k \in 0 .. Segs(r) - 1 /\ r.size = r.segsize * Segs(r) /\ Segs(r) \in Nat \ {0}
    BY <1>1, SegsFacts
  <1>3. r.segsize \in Nat \ {0} /\ r.start \in Nat
    BY <1>1, RegionType
  <1>4. InfoAStart = r.start + r.segsize * k
    <2>1. r.segsize * k = r.segsize * Segs(r) - r.segsize
      BY <1>2, <1>3, Dist
    <2> QED BY <1>2, <1>3, <2>1 DEF InfoAStart
  <1>5. /\ Seg(r, k) \subseteq RegionBytes(r)
        /\ \A a \in Seg(r, k) : SegmentOf(a) = Seg(r, k)
        /\ r.start + r.segsize * k \in Seg(r, k)
    BY <1>1, <1>2, SegInRegion
  <1> QED BY <1>4, <1>5 DEF InfoA, InfoBytes

-----------------------------------------------------------------------------
(* One erase *)

\* What an operation may come to.
Outcome == {o \in [mem : Memory, locka : BOOLEAN, ok : BOOLEAN, late : BOOLEAN] :
              o.locka => HasLocka}

Mode == {"segment", "main", "mass"}

\* x is what an erase makes of o: all it clears, with LOCKA as lock while it
\* does, or nothing when it failed; and LOCKA is 1 again unless it failed.
ErasedBy(o, x, a, mode, unlock, lock) ==
    /\ x \in Outcome /\ lock \in BOOLEAN
    /\ x.mem \in {o.mem, ErasedIn(o.mem, Clears(mode, a, lock))}
    /\ x.ok => x.mem = ErasedIn(o.mem, Clears(mode, a, lock))
    /\ o.locka => lock = ~unlock
    /\ lock => HasLocka
    /\ o.locka /\ (x.ok \/ ~x.late) => x.locka

LEMMA OutcomeFacts ==
    ASSUME NEW o \in Outcome
    PROVE  /\ o = [mem |-> o.mem, locka |-> o.locka, ok |-> o.ok, late |-> o.late]
           /\ o.mem \in Memory /\ o.locka \in BOOLEAN /\ o.ok \in BOOLEAN /\ o.late \in BOOLEAN
           /\ o.locka => HasLocka
  BY DEF Outcome

LEMMA ErasedInType ==
    ASSUME NEW m \in Memory, NEW bytes
    PROVE  ErasedIn(m, bytes) \in Memory
  BY DEF ErasedIn, Memory, Byte, Erased

LEMMA LegacyErases ==
    ASSUME NEW o \in Outcome, NEW a, NEW mode, NEW unlock \in BOOLEAN,
           NEW x \in EraseFlashLegacy(o, a, mode, unlock), ~IsXv2Part
    PROVE  \E lock : ErasedBy(o, x, a, mode, unlock, lock)
  <1> DEFINE one  == HasLocka /\ unlock
             lock == Toggled(o.locka, one)
             m    == ErasedIn(o.mem, Clears(mode, a, lock))
             l    == Toggled(lock, one)
  <1>1. x = [o EXCEPT !.mem = m, !.locka = l]
    BY DEF EraseFlashLegacy
  <1>2. /\ o = [mem |-> o.mem, locka |-> o.locka, ok |-> o.ok, late |-> o.late]
        /\ o.mem \in Memory /\ o.locka \in BOOLEAN /\ o.ok \in BOOLEAN /\ o.late \in BOOLEAN
        /\ o.locka => HasLocka
    BY OutcomeFacts
  <1>3. m \in Memory
    BY <1>2, ErasedInType
  <1>4. /\ lock \in BOOLEAN /\ l = o.locka
        /\ o.locka => lock = ~unlock
        /\ lock => HasLocka
    BY <1>2, Zenon DEF Toggled
  <1> HIDE DEF m, l, lock
  <1>5. x = [mem |-> m, locka |-> o.locka, ok |-> o.ok, late |-> o.late]
    BY <1>1, <1>2, <1>4
  <1>6. x \in Outcome /\ x.mem = m /\ x.locka = o.locka
    BY <1>2, <1>3, <1>5 DEF Outcome
  <1>7. x.mem = ErasedIn(o.mem, Clears(mode, a, lock))
    BY <1>6 DEF m
  <1> QED BY <1>4, <1>6, <1>7, Zenon DEF ErasedBy

\* x is o with one of the memories, and late.
LateBy(o, mems, x) ==
    \E m \in mems : \E l \in BOOLEAN :
        x = [o EXCEPT !.mem = m, !.locka = l, !.late = TRUE]

LEMMA TimedOutIs ==
    ASSUME NEW o, NEW mems, NEW x, x \in TimedOut(o, mems)
    PROVE  LateBy(o, mems, x)
  BY DEF TimedOut, LateBy

LEMMA Xv2Erases ==
    ASSUME NEW o \in Outcome, NEW a, NEW mode, NEW unlock \in BOOLEAN,
           NEW x \in EraseFlashXv2(o, a, mode, unlock), IsXv2Part
    PROVE  \E lock : ErasedBy(o, x, a, mode, unlock, lock)
  <1> DEFINE want  == HasLocka /\ ~unlock
             first == Toggled(o.locka, want)
             lock(d) == Toggled(first, d)
             Done(d) == ErasedIn(o.mem, Clears(mode, a, Toggled(first, d)))
  <1>1. HasLocka
    BY DEF HasLocka, IsXv2Part
  <1>2. /\ o = [mem |-> o.mem, locka |-> o.locka, ok |-> o.ok, late |-> o.late]
        /\ o.mem \in Memory /\ o.locka \in BOOLEAN /\ o.ok \in BOOLEAN /\ o.late \in BOOLEAN
    BY OutcomeFacts
  <1>3. \/ \E d \in {first # want, TRUE} : x = [o EXCEPT !.mem = Done(d), !.locka = TRUE]
        \/ \E m \in {o.mem, Done(first # want), Done(TRUE)} : \E l \in BOOLEAN :
              x = [[o EXCEPT !.ok = FALSE] EXCEPT !.mem = m, !.locka = l, !.late = TRUE]
    <2>1. x \in {[o EXCEPT !.mem = Done(d), !.locka = TRUE] : d \in {first # want, TRUE}}
               \cup TimedOut([o EXCEPT !.ok = FALSE], {o.mem, Done(first # want), Done(TRUE)})
      BY DEF EraseFlashXv2
    <2> HIDE DEF first, want, Done
    <2>2. CASE x \in {[o EXCEPT !.mem = Done(d), !.locka = TRUE] : d \in {first # want, TRUE}}
      BY <2>2
    <2>3. CASE x \in TimedOut([o EXCEPT !.ok = FALSE], {o.mem, Done(first # want), Done(TRUE)})
      <3> DEFINE y  == [o EXCEPT !.ok = FALSE]
                 ms == {o.mem, Done(first # want), Done(TRUE)}
      <3>1. x \in TimedOut(y, ms)
        BY <2>3
      <3> HIDE DEF y, ms
      <3>2. LateBy(y, ms, x)
        BY <3>1, TimedOutIs
      <3> QED BY <3>2, Zenon DEF LateBy, y, ms
    <2> QED BY <2>1, <2>2, <2>3
  <1>4. ASSUME NEW d \in {first # want, TRUE}
        PROVE  /\ lock(d) \in BOOLEAN /\ Done(d) \in Memory
               /\ o.locka => lock(d) = ~unlock
    <2>1. first \in BOOLEAN /\ want \in BOOLEAN /\ d \in BOOLEAN
      BY <1>2, Zenon DEF Toggled
    <2>2. lock(d) \in BOOLEAN
      BY <2>1, Zenon DEF Toggled
    <2>3. o.locka => lock(d) = ~unlock
      <3>1. CASE unlock
        BY <1>1, <3>1, <1>2 DEF Toggled
      <3>2. CASE ~unlock
        BY <1>1, <3>2, <1>2 DEF Toggled
      <3> QED BY <3>1, <3>2
    <2> HIDE DEF lock
    <2>4. Done(d) \in Memory
      BY <1>2, ErasedInType
    <2> QED BY <2>2, <2>3, <2>4
  <1> HIDE DEF first, want
  <1>5. CASE \E d \in {first # want, TRUE} : x = [o EXCEPT !.mem = Done(d), !.locka = TRUE]
    <2>1. PICK d \in {first # want, TRUE} : x = [o EXCEPT !.mem = Done(d), !.locka = TRUE]
      BY <1>5, Zenon
    <2>2. lock(d) \in BOOLEAN /\ Done(d) \in Memory /\ (o.locka => lock(d) = ~unlock)
      BY <1>4, Zenon
    <2> DEFINE m == Done(d)
    <2>3. x = [o EXCEPT !.mem = m, !.locka = TRUE] /\ m \in Memory
      BY <2>1, <2>2, Zenon
    <2> HIDE DEF m
    <2>4. x = [mem |-> m, locka |-> TRUE, ok |-> o.ok, late |-> o.late]
      BY <1>2, <2>3
    <2>5. x \in Outcome /\ x.mem = m /\ x.locka = TRUE
      BY <1>1, <1>2, <2>3, <2>4 DEF Outcome
    <2>6. x.mem = ErasedIn(o.mem, Clears(mode, a, lock(d)))
      BY <2>5, Zenon DEF m
    <2> QED BY <1>1, <2>2, <2>5, <2>6, Zenon DEF ErasedBy
  <1>6. CASE \E m \in {o.mem, Done(first # want), Done(TRUE)} : \E l \in BOOLEAN :
              x = [[o EXCEPT !.ok = FALSE] EXCEPT !.mem = m, !.locka = l, !.late = TRUE]
    <2>1. PICK m \in {o.mem, Done(first # want), Done(TRUE)}, l \in BOOLEAN :
              x = [[o EXCEPT !.ok = FALSE] EXCEPT !.mem = m, !.locka = l, !.late = TRUE]
      BY <1>6, Zenon
    <2>2. PICK d \in {first # want, TRUE} : m \in {o.mem, Done(d)}
      BY <2>1, Zenon
    <2>3. lock(d) \in BOOLEAN /\ Done(d) \in Memory /\ (o.locka => lock(d) = ~unlock)
      BY <1>4, Zenon
    <2>4. m \in Memory
      BY <1>2, <2>2, <2>3, Zenon
    <2>5. x = [mem |-> m, locka |-> l, ok |-> FALSE, late |-> TRUE]
      BY <1>2, <2>1
    <2>6. x \in Outcome /\ x.mem = m /\ x.ok = FALSE /\ x.late = TRUE
      BY <1>1, <2>1, <2>4, <2>5 DEF Outcome
    <2>7. x.mem \in {o.mem, ErasedIn(o.mem, Clears(mode, a, lock(d)))}
      BY <2>2, <2>6, Zenon
    <2> QED BY <1>1, <2>3, <2>6, <2>7, Zenon DEF ErasedBy
  <1> QED BY <1>3, <1>5, <1>6, Zenon

LEMMA EraseErases ==
    ASSUME NEW o \in Outcome, NEW a, NEW mode, NEW unlock \in BOOLEAN,
           NEW x \in EraseFlash(o, a, mode, unlock)
    PROVE  \E lock : ErasedBy(o, x, a, mode, unlock, lock)
  <1>1. CASE IsXv2Part
    <2>1. x \in EraseFlashXv2(o, a, mode, unlock)
      BY <1>1, Zenon DEF EraseFlash
    <2> QED BY <1>1, <2>1, Xv2Erases
  <1>2. CASE ~IsXv2Part
    <2>1. x \in EraseFlashLegacy(o, a, mode, unlock)
      BY <1>2, Zenon DEF EraseFlash
    <2> QED BY <1>2, <2>1, LegacyErases
  <1> QED BY <1>1, <1>2

\* What the modes clear.
LEMMA ClearsMain ==
    ASSUME NEW a, NEW lock
    PROVE  Clears("main", a, lock) = MainBytes
  BY DEF Clears, MainBytes

LEMMA ClearsSegment ==
    ASSUME NEW a, NEW lock
    PROVE  Clears("segment", a, lock) = SegmentOf(a) \ (IF lock THEN InfoA ELSE {})
  BY Zenon DEF Clears

LEMMA ClearsMass ==
    ASSUME NEW a, NEW lock \in BOOLEAN, lock => HasLocka
    PROVE  /\ MainBytes \subseteq Clears("mass", a, lock)
           /\ lock => Clears("mass", a, lock) = MainBytes
           /\ OnePassAll => Clears("mass", a, lock) = MainBytes \cup InfoBytes
           /\ Clears("mass", a, lock) \subseteq MainBytes \cup InfoBytes
  BY DEF Clears, MainBytes, InfoBytes, OnePassAll, HasLocka

-----------------------------------------------------------------------------
(* Erases in a row *)

\* F[n] is what the first n segments' erases may come to.
Passes(S, addrs, F) ==
    /\ F[0] = S
    /\ \A n \in 1 .. Len(addrs) : F[n] = UNION {EraseNext(o, addrs[n]) : o \in F[n - 1]}

LEMMA EraseNextType ==
    ASSUME NEW o \in Outcome, NEW a, NEW x, x \in EraseNext(o, a)
    PROVE  x \in Outcome
  <1>1. CASE o.ok
    <2>1. x \in EraseFlash(o, a, "segment", FALSE)
      BY <1>1, Zenon DEF EraseNext
    <2>2. PICK lock : ErasedBy(o, x, a, "segment", FALSE, lock)
      BY <2>1, EraseErases
    <2> QED BY <2>2, Zenon DEF ErasedBy
  <1>2. CASE ~o.ok
    BY <1>2 DEF EraseNext
  <1> QED BY <1>1, <1>2

LEMMA SegmentPasses ==
    ASSUME NEW S \in SUBSET Outcome, NEW addrs \in Seq(Int)
    PROVE  \E F : Passes(S, addrs, F) /\ EraseSegments(S, addrs) = F[Len(addrs)]
  <1> DEFINE N == Len(addrs)
             A == SUBSET Outcome
             step(n, x) == UNION {EraseNext(o, addrs[n]) : o \in x}
             g == [n \in 1 .. N |-> [x \in A |-> step(n, x)]]
             Eqn(R) == R = [n \in 0 .. N |-> IF n = 0 THEN S ELSE step(n, R[n - 1])]
             After == CHOOSE R : Eqn(R)
  <1>1. ASSUME NEW n, NEW x \in A PROVE step(n, x) \in A
    <2> SUFFICES ASSUME NEW o \in x, NEW y, y \in EraseNext(o, addrs[n]) PROVE y \in Outcome
      BY Zenon
    <2> QED BY EraseNextType
  <1>2. g \in [1 .. N -> [A -> A]]
    <2> HIDE DEF step, A, N
    <2> QED BY <1>1
  <1>3. HasIteration(N, A, S, g)
    <2>1. N \in Nat
      OBVIOUS
    <2> HIDE DEF g, A, N
    <2> QED BY <1>2, <2>1, IterationExists DEF A
  <1>4. PICK f \in [0 .. N -> A] : f = [n \in 0 .. N |-> IF n = 0 THEN S ELSE g[n][f[n - 1]]]
    BY <1>3 DEF HasIteration
  <1>5. \A n \in 0 .. N : n # 0 => n \in 1 .. N /\ n - 1 \in 0 .. N
    OBVIOUS
  <1>6. Eqn(f)
    <2>1. ASSUME NEW n \in 0 .. N
          PROVE  f[n] = IF n = 0 THEN S ELSE step(n, f[n - 1])
      <3>1. n # 0 => g[n][f[n - 1]] = step(n, f[n - 1])
        <4> SUFFICES ASSUME n # 0 PROVE g[n][f[n - 1]] = step(n, f[n - 1])
          OBVIOUS
        <4>1. f[n - 1] \in A /\ n \in 1 .. N
          BY <1>5
        <4> HIDE DEF step, A, N
        <4> QED BY <4>1
      <3>2. f[n] = IF n = 0 THEN S ELSE g[n][f[n - 1]]
        <4> HIDE DEF g, N
        <4> QED BY <1>4
      <3> HIDE DEF step, g
      <3> QED BY <3>1, <3>2
    <2>2. f = [n \in 0 .. N |-> f[n]]
      <3> HIDE DEF A
      <3> QED OBVIOUS
    <2> HIDE DEF step, N
    <2> QED BY <2>1, <2>2
  <1>7. Eqn(After)
    <2> HIDE DEF Eqn
    <2> QED BY <1>6
  <1>8. Passes(S, addrs, After)
    <2>1. 0 \in 0 .. N /\ \A n \in 1 .. N : n \in 0 .. N /\ n # 0
      OBVIOUS
    <2>2. \A n \in 0 .. N : After[n] = IF n = 0 THEN S ELSE step(n, After[n - 1])
      <3> HIDE DEF After, N, step
      <3> QED BY <1>7, Zenon
    <2> HIDE DEF After
    <2> QED BY <2>1, <2>2, Zenon DEF Passes
  <1>9. EraseSegments(S, addrs) = After[N]
    BY DEF EraseSegments
  <1> HIDE DEF After
  <1> QED BY <1>8, <1>9

\* INFO A is as it was, and LOCKA is 1 where another erase follows and where the
\* probe has the target back in time.
Protected(x) ==
    /\ x \in Outcome /\ (x.ok \/ ~x.late => x.locka)
    /\ \A a \in InfoA : x.mem[a] = mem[a]

LEMMA ClearsNotInfoA ==
    ASSUME NEW a, NEW mode \in Mode, NEW i \in InfoA, HasLocka
    PROVE  i \notin Clears(mode, a, TRUE)
  <1>1. i \in InfoBytes /\ i \notin MainBytes
    BY InfoAIs, MainAndInfo
  <1>2. CASE mode = "segment"
    BY <1>2, ClearsSegment
  <1>3. CASE mode = "main"
    BY <1>1, <1>3, ClearsMain
  <1>4. CASE mode = "mass"
    BY <1>1, <1>4, ClearsMass
  <1> QED BY <1>2, <1>3, <1>4 DEF Mode

LEMMA ProtectedErase ==
    ASSUME NEW o, Protected(o), o.ok, NEW a, NEW mode \in Mode,
           NEW x, x \in EraseFlash(o, a, mode, FALSE)
    PROVE  Protected(x)
  <1>1. o \in Outcome /\ o.locka /\ HasLocka
    BY DEF Protected, Outcome
  <1>2. PICK lock : ErasedBy(o, x, a, mode, FALSE, lock)
    BY <1>1, EraseErases
  <1>3. lock = TRUE /\ x \in Outcome /\ (x.ok \/ ~x.late => x.locka)
        /\ x.mem \in {o.mem, ErasedIn(o.mem, Clears(mode, a, lock))}
    BY <1>1, <1>2 DEF ErasedBy
  <1>4. ASSUME NEW i \in InfoA PROVE x.mem[i] = mem[i]
    <2>1. o.mem[i] = mem[i]
      BY DEF Protected
    <2>2. i \in Mapped
      BY InfoAIs, MainAndInfo
    <2>3. i \notin Clears(mode, a, lock)
      BY <1>1, <1>3, ClearsNotInfoA
    <2>4. ErasedIn(o.mem, Clears(mode, a, lock))[i] = o.mem[i]
      BY <2>2, <2>3 DEF ErasedIn
    <2> QED BY <1>3, <2>1, <2>4, Zenon
  <1> QED BY <1>3, <1>4, Zenon DEF Protected

LEMMA ProtectedSegments ==
    ASSUME NEW S, \A o \in S : Protected(o), NEW addrs \in Seq(Int),
           NEW x, x \in EraseSegments(S, addrs)
    PROVE  Protected(x)
  <1>1. S \in SUBSET Outcome
    BY DEF Protected
  <1>2. PICK F : Passes(S, addrs, F) /\ EraseSegments(S, addrs) = F[Len(addrs)]
    BY <1>1, SegmentPasses
  <1> DEFINE T == {n \in Nat : \A o \in F[n] : Protected(o)}
  <1>3. 0 \in T
    BY <1>2 DEF Passes
  <1>4. ASSUME NEW n \in 1 .. Len(addrs), n - 1 \in T
        PROVE  n \in T
    <2> SUFFICES ASSUME NEW y \in F[n] PROVE Protected(y)
      OBVIOUS
    <2>1. PICK o \in F[n - 1] : y \in EraseNext(o, addrs[n])
      BY <1>2 DEF Passes
    <2>2. Protected(o)
      BY <1>4
    <2>3. CASE o.ok
      <3>1. y \in EraseFlash(o, addrs[n], "segment", FALSE) /\ "segment" \in Mode
        BY <2>1, <2>3, Zenon DEF EraseNext, Mode
      <3> QED BY <2>2, <2>3, <3>1, ProtectedErase
    <2>4. CASE ~o.ok
      BY <2>1, <2>2, <2>4 DEF EraseNext
    <2> QED BY <2>3, <2>4
  <1>5. 0 .. Len(addrs) \subseteq T /\ Len(addrs) \in 0 .. Len(addrs)
    <2>1. Len(addrs) \in Nat
      OBVIOUS
    <2> HIDE DEF T
    <2>2. Climbs(Len(addrs), T)
      BY <1>3, <1>4 DEF Climbs
    <2>3. 0 .. Len(addrs) \subseteq T
      BY <2>1, <2>2, UpTo, Zenon
    <2> QED BY <2>1, <2>3
  <1> QED BY <1>2, <1>5

\* What an erase may be asked for when it does not unlock INFO A.
Open == IF HasLocka THEN InfoA ELSE {}

\* x has K erased.
Cleared(x, K) == \A a \in K : x.mem[a] = Erased

\* x has K erased and the segments at addrs.
ClearedAlong(x, K, addrs) ==
    /\ Cleared(x, K)
    /\ \A i \in 1 .. Len(addrs) : Cleared(x, (Mapped \cap SegmentOf(addrs[i])) \ Open)

\* Erases in a row have erased what was erased before and all their segments.
LEMMA SegmentsErased ==
    ASSUME NEW S \in SUBSET Outcome, NEW addrs \in Seq(Int), NEW K \in SUBSET Mapped,
           \A o \in S : o.ok => Cleared(o, K),
           NEW x, x \in EraseSegments(S, addrs), x.ok
    PROVE  ClearedAlong(x, K, addrs)
  <1>2. PICK F : Passes(S, addrs, F) /\ EraseSegments(S, addrs) = F[Len(addrs)]
    BY SegmentPasses
  <1> DEFINE Has(o, a) == o.mem[a] = Erased
             Good(o, n) ==
                /\ o \in Outcome
                /\ o.ok => /\ \A a \in K : Has(o, a)
                           /\ \A i \in 1 .. n : \A a \in (Mapped \cap SegmentOf(addrs[i])) \ Open : Has(o, a)
             T == {n \in Nat : \A o \in F[n] : Good(o, n)}
  <1>3. 0 \in T
    BY <1>2 DEF Passes, Cleared
  <1>4. ASSUME NEW n \in 1 .. Len(addrs), n - 1 \in T
        PROVE  n \in T
    <2> SUFFICES ASSUME NEW y \in F[n] PROVE Good(y, n)
      OBVIOUS
    <2>1. PICK o \in F[n - 1] : y \in EraseNext(o, addrs[n])
      BY <1>2 DEF Passes
    <2>2. Good(o, n - 1)
      BY <1>4
    <2>3. CASE o.ok
      <3>1. y \in EraseFlash(o, addrs[n], "segment", FALSE)
        BY <2>1, <2>3, Zenon DEF EraseNext
      <3>2. PICK lock : ErasedBy(o, y, addrs[n], "segment", FALSE, lock)
        BY <2>2, <3>1, EraseErases
      <3>3. y \in Outcome
        BY <3>2, Zenon DEF ErasedBy
      <3>4. ASSUME y.ok
            PROVE  /\ \A a \in K : Has(y, a)
                   /\ \A i \in 1 .. n : \A a \in (Mapped \cap SegmentOf(addrs[i])) \ Open : Has(y, a)
        <4> DEFINE C == Clears("segment", addrs[n], lock)
        <4>1. y.mem = ErasedIn(o.mem, C) /\ (lock => HasLocka)
          BY <3>2, <3>4, Zenon DEF ErasedBy
        <4> HIDE DEF C
        <4>2. \A a \in Mapped : Has(o, a) => Has(y, a)
          BY <4>1 DEF ErasedIn
        <4>3. \A a \in Mapped \cap C : Has(y, a)
          BY <4>1 DEF ErasedIn
        <4>4. (Mapped \cap SegmentOf(addrs[n])) \ Open \subseteq Mapped \cap C
          BY <4>1, ClearsSegment DEF C, Open
        <4>5. \A i \in 1 .. n : i = n \/ i \in 1 .. n - 1
          OBVIOUS
        <4> HIDE DEF Has
        <4> QED BY <2>2, <2>3, <4>2, <4>3, <4>4, <4>5
      <3> QED BY <3>3, <3>4
    <2>4. CASE ~o.ok
      <3>1. y = o
        BY <2>1, <2>4, Zenon DEF EraseNext
      <3> QED BY <2>2, <2>4, <3>1
    <2> QED BY <2>3, <2>4
  <1>5. 0 .. Len(addrs) \subseteq T /\ Len(addrs) \in 0 .. Len(addrs)
    <2>1. Len(addrs) \in Nat
      OBVIOUS
    <2> HIDE DEF T
    <2>2. Climbs(Len(addrs), T)
      BY <1>3, <1>4 DEF Climbs
    <2>3. 0 .. Len(addrs) \subseteq T
      BY <2>1, <2>2, UpTo, Zenon
    <2> QED BY <2>1, <2>3
  <1>6. Good(x, Len(addrs))
    BY <1>2, <1>5
  <1> QED BY <1>6 DEF Cleared, ClearedAlong

-----------------------------------------------------------------------------
(* Whole erases *)

LEMMA NotYetFacts ==
    ASSUME TypeOK
    PROVE  /\ NotYet \in Outcome /\ NotYet.ok /\ NotYet.mem = mem
           /\ NotYet.locka = locka /\ ~NotYet.late
           /\ locka => Protected(NotYet)
  <1>1. mem \in Memory /\ locka \in BOOLEAN /\ (locka => HasLocka)
    BY DEF TypeOK
  <1>2. NotYet \in Outcome /\ NotYet.ok /\ NotYet.mem = mem
           /\ NotYet.locka = locka /\ ~NotYet.late
    BY <1>1 DEF NotYet, Outcome
  <1> QED BY <1>2, Zenon DEF Protected

\* The places the segments' erases start from.
LEMMA SegmentsFromFacts ==
    ASSUME NEW a \in Int, NEW n \in Int, NEW g \in Int, n >= 0
    PROVE  /\ SegmentsFrom(a, n, g) \in Seq(Int) /\ Len(SegmentsFrom(a, n, g)) = n
           /\ \A i \in 1 .. n : SegmentsFrom(a, n, g)[i] = a + g * (i - 1)
  <1>1. \A i \in 1 .. n : (i - 1) * g = g * (i - 1) /\ a + (i - 1) * g \in Int
    OBVIOUS
  <1> DEFINE f == SegmentsFrom(a, n, g)
  <1>2. f = [i \in 1 .. n |-> a + (i - 1) * g]
    BY DEF SegmentsFrom
  <1>3. \A i \in 1 .. n : f[i] = a + g * (i - 1) /\ f[i] \in Int
    BY <1>1, <1>2
  <1> HIDE DEF f
  <1>4. f = [i \in 1 .. n |-> f[i]]
    BY <1>2
  <1>5. f \in [1 .. n -> Int]
    BY <1>3, <1>4
  <1>6. f \in Seq(Int) /\ Len(f) = n
    BY <1>5
  <1> QED BY <1>3, <1>6 DEF f

LEMMA AllErased ==
    ASSUME TypeOK, NEW x, x \in EraseAll, x.ok
    PROVE  \A a \in Erasable : x.mem[a] = Erased
  <1> DEFINE info == RegionOf("info")
             mass == EraseFlash(NotYet, RegionOf("main").start, "mass", FALSE)
             addrs == SegmentsFrom(info.start, InfoBanks, info.segsize)
  <1>1. NotYet \in Outcome
    BY NotYetFacts
  <1>2. ASSUME NEW o \in mass
        PROVE  /\ o \in Outcome
               /\ o.ok => \A a \in MainBytes : o.mem[a] = Erased
               /\ o.ok /\ OnePassAll => \A a \in MainBytes \cup InfoBytes : o.mem[a] = Erased
    <2>1. PICK lock : ErasedBy(NotYet, o, RegionOf("main").start, "mass", FALSE, lock)
      BY <1>1, EraseErases
    <2> DEFINE C == Clears("mass", RegionOf("main").start, lock)
    <2>2. /\ o \in Outcome /\ lock \in BOOLEAN /\ (lock => HasLocka)
          /\ o.ok => o.mem = ErasedIn(NotYet.mem, C)
      BY <2>1, Zenon DEF ErasedBy
    <2>3. MainBytes \subseteq C /\ (OnePassAll => C = MainBytes \cup InfoBytes)
      BY <2>2, ClearsMass
    <2> HIDE DEF C
    <2>4. o.ok => \A a \in Mapped \cap C : o.mem[a] = Erased
      BY <2>2 DEF ErasedIn
    <2> QED BY <2>2, <2>3, <2>4, MainAndInfo
  <1>3. Erasable = (MainBytes \cup InfoBytes) \ Open
    BY MainAndInfo DEF Erasable, Open
  <1>4. CASE OnePassAll
    <2>1. x \in mass
      BY <1>4, Zenon DEF EraseAll
    <2> QED BY <1>2, <1>3, <1>4, <2>1
  <1>5. CASE ~OnePassAll
    <2>1. x \in EraseSegments(mass, addrs)
      BY <1>5, Zenon DEF EraseAll
    <2>2. info \in Regions
      BY RegionOfFacts
    <2>3. info.start \in Nat /\ info.segsize \in Nat \ {0} /\ Segs(info) \in Nat \ {0}
      BY <2>2, RegionType, SegsFacts
    <2>4. InfoBanks = Segs(info) - TlvClash
      BY Zenon DEF InfoBanks, Segs
    <2>5. TlvClash \in {0, 1} /\ (TlvClash = 1 => HasLocka)
      BY DEF TlvClash, HasLocka
    <2>6. InfoBanks \in Int /\ InfoBanks >= 0
      BY <2>3, <2>4, <2>5
    <2>7. addrs \in Seq(Int) /\ Len(addrs) = InfoBanks
          /\ \A i \in 1 .. InfoBanks : addrs[i] = info.start + info.segsize * (i - 1)
      <3>1. info.start \in Int /\ info.segsize \in Int
        BY <2>3
      <3> HIDE DEF info
      <3> QED BY <2>6, <3>1, SegmentsFromFacts, Zenon DEF addrs
    <2> DEFINE K == MainBytes
    <2>8. mass \in SUBSET Outcome /\ \A o \in mass : o.ok => Cleared(o, K)
      BY <1>2 DEF Cleared
    <2>9. K \in SUBSET Mapped
      BY MainAndInfo
    <2> HIDE DEF mass, addrs, K
    <2>10. /\ \A a \in K : x.mem[a] = Erased
           /\ \A i \in 1 .. Len(addrs) : \A a \in (Mapped \cap SegmentOf(addrs[i])) \ Open :
                 x.mem[a] = Erased
      <3>1. ClearedAlong(x, K, addrs)
        BY <2>1, <2>7, <2>8, <2>9, SegmentsErased
      <3> QED BY <3>1, Zenon DEF ClearedAlong, Cleared
    <2>11. ASSUME NEW a \in InfoBytes, a \notin Open
           PROVE  x.mem[a] = Erased
      <3> DEFINE k == SegNo(info, a)
      <3>1. k \in 0 .. Segs(info) - 1 /\ a \in Seg(info, k)
        BY <2>2, SegNoFacts DEF InfoBytes
      <3> HIDE DEF k
      <3>2. TlvClash = 1 => k # Segs(info) - 1
        BY <2>5, <2>11, <3>1, InfoAIs DEF Open
      <3>3. k + 1 \in 1 .. InfoBanks /\ (k + 1) - 1 = k
        BY <2>3, <2>4, <2>5, <3>1, <3>2
      <3>4. addrs[k + 1] = info.start + info.segsize * k
        BY <2>7, <3>3, Zenon
      <3>5. SegmentOf(addrs[k + 1]) = Seg(info, k)
        BY <2>2, <3>1, <3>4, SegInRegion
      <3>6. a \in Mapped
        BY MainAndInfo
      <3> QED BY <2>7, <2>10, <2>11, <3>1, <3>3, <3>5, <3>6
    <2> QED BY <1>3, <2>10, <2>11 DEF K
  <1> QED BY <1>4, <1>5

\* The segments from a to the end of its region, counted by EraseRange.
LEMMA RangeCount ==
    ASSUME NEW r \in Regions, NEW a \in RegionBytes(r)
    PROVE  (r.start + r.size - a + r.segsize - 1) \div r.segsize = Segs(r) - SegNo(r, a)
  <1> DEFINE g == r.segsize
             k == SegNo(r, a)
             p == g * k
             e == g * Segs(r)
             x == r.start + r.size - a + g - 1
             s == a - r.start - p
  <1>1. g \in Nat \ {0} /\ r.start \in Nat /\ r.size \in Nat \ {0} /\ Segs(r) \in Nat /\ r.size = e
        /\ a \in Int
    BY RegionType, SegsFacts
  <1>2. k \in 0 .. Segs(r) - 1 /\ a \in Seg(r, k)
    BY SegNoFacts
  <1>3. p \in Int /\ e \in Int /\ g * (Segs(r) - k) = e - p
    BY <1>1, <1>2, Dist
  <1>4. s \in 0 .. g - 1
    <2>1. Seg(r, k) = r.start + p .. r.start + p + g - 1
      BY Zenon DEF Seg
    <2> HIDE DEF g, k, p, e, x
    <2> QED BY <1>1, <1>2, <1>3, <2>1, SMTT(30)
  <1> HIDE DEF p, e, k, g
  <1>5. x = (e - p) + (g - 1 - s) /\ x \in Int /\ g - 1 - s \in 0 .. g - 1
    BY <1>1, <1>3, <1>4 DEF x
  <1> DEFINE c == Segs(r) - k
             q == x \div g
             m == x % g
             t == g - 1 - s
  <1>6. c \in Int /\ t \in 0 .. g - 1 /\ x = g * c + t
    BY <1>1, <1>2, <1>3, <1>5
  <1>7. q \in Int /\ m \in 0 .. g - 1 /\ x = g * q + m
    BY <1>1, <1>5, DivMod
  <1> HIDE DEF c, q, m, t
  <1>8. g * c + t = g * q + m
    BY <1>6, <1>7, Zenon
  <1>9. q = c
    BY <1>1, <1>6, <1>7, <1>8, OneQuotient
  <1> QED BY <1>9, Zenon DEF q, c, x, g, k

\* An address in segment k of its region, i segments on.
LEMMA SegmentsOn ==
    ASSUME NEW r \in Regions, NEW a \in RegionBytes(r), NEW i \in Nat,
           SegNo(r, a) + i < Segs(r)
    PROVE  SegmentOf(a + r.segsize * i) = Seg(r, SegNo(r, a) + i)
  <1> DEFINE g == r.segsize
             k == SegNo(r, a)
             j == k + i
             p == g * k
             d == g * i
  <1>1. g \in Nat \ {0} /\ r.start \in Nat /\ Segs(r) \in Nat /\ a \in Int
    BY RegionType, SegsFacts
  <1>2. k \in 0 .. Segs(r) - 1 /\ a \in Seg(r, k)
    BY SegNoFacts
  <1>3. p \in Int /\ d \in Int /\ g * j = p + d
    BY <1>1, <1>2, Dist
  <1>4. j \in 0 .. Segs(r) - 1
    BY <1>1, <1>2
  <1>5. Seg(r, k) = r.start + p .. r.start + p + g - 1
    BY Zenon DEF Seg
  <1>6. Seg(r, j) = r.start + (p + d) .. r.start + (p + d) + g - 1
    BY <1>3, Zenon DEF Seg
  <1>7. a + d \in Seg(r, j)
    <2> HIDE DEF p, d, k, g, j
    <2> QED BY <1>1, <1>2, <1>3, <1>5, <1>6
  <1> HIDE DEF j, d
  <1>8. SegmentOf(a + d) = Seg(r, j)
    BY <1>4, <1>7, SegInRegion
  <1> QED BY <1>8 DEF j, d

LEMMA SegNoGrows ==
    ASSUME NEW r \in Regions, NEW a \in RegionBytes(r), NEW b \in RegionBytes(r), a <= b
    PROVE  SegNo(r, a) <= SegNo(r, b)
  <1> DEFINE g == r.segsize
             k == SegNo(r, a)
             j == SegNo(r, b)
             p == g * k
             q == g * j
  <1>1. g \in Nat \ {0} /\ r.start \in Nat /\ a \in Int /\ b \in Int
    BY RegionType
  <1>2. k \in Int /\ a \in Seg(r, k) /\ j \in Int /\ b \in Seg(r, j)
    BY SegNoFacts, SegsFacts
  <1>3. p \in Int /\ q \in Int /\ g * (k - j) = p - q
    BY <1>1, <1>2, Dist
  <1>4. /\ Seg(r, k) = r.start + p .. r.start + p + g - 1
        /\ Seg(r, j) = r.start + q .. r.start + q + g - 1
    BY Zenon DEF Seg
  <1> SUFFICES ASSUME ~(k <= j) PROVE FALSE
    OBVIOUS
  <1>5. p - q >= g
    <2>1. k - j \in Int /\ k - j >= 1
      BY <1>2
    <2> HIDE DEF g, k, j
    <2>2. g * (k - j) >= g
      BY <1>1, <2>1, Above
    <2> HIDE DEF p, q
    <2> QED BY <1>3, <2>2, Zenon
  <1> HIDE DEF g, k, j, p, q
  <1> QED BY <1>1, <1>2, <1>3, <1>4, <1>5

LEMMA RangeIsErased ==
    ASSUME TypeOK
    PROVE  RangeErased
  <1> SUFFICES ASSUME NEW from \in Address, NEW size \in Address, from \in Mapped, IsFlash(from),
                      NEW x, x \in EraseRange(from, size), x.ok,
                      NEW a, a \in SegmentOf(from) \cup (from .. from + size - 1),
                      a \in RegionBytes(RegionAt(from)), a \in Erasable
               PROVE  x.mem[a] = Erased
    BY DEF RangeErased
  <1> DEFINE r == RegionAt(from)
             n == (r.start + r.size - from + r.segsize - 1) \div r.segsize
             addrs == SegmentsFrom(from, n, r.segsize)
             k == SegNo(r, from)
             j == SegNo(r, a)
  <1>1. r \in Regions /\ from \in RegionBytes(r) /\ a \in RegionBytes(r)
    BY RegionAtFacts
  <1>2. x \in EraseSegments({NotYet}, addrs)
    BY Zenon DEF EraseRange
  <1>3. n = Segs(r) - k
    <2> HIDE DEF r
    <2> QED BY <1>1, RangeCount
  <1> HIDE DEF n
  <1>4. k \in 0 .. Segs(r) - 1 /\ j \in 0 .. Segs(r) - 1 /\ a \in Seg(r, j)
        /\ SegmentOf(from) = Seg(r, k) /\ Segs(r) \in Nat
    <2> HIDE DEF r
    <2> QED BY <1>1, SegNoFacts, SegsFacts
  <1>5. k <= j
    <2> HIDE DEF r
    <2>1. CASE a \in SegmentOf(from)
      <3>1. SegNo(r, a) = k
        <4> HIDE DEF k
        <4> QED BY <1>1, <1>4, <2>1, SegInRegion
      <3> QED BY <1>4, <3>1
    <2>2. CASE a \in from .. from + size - 1
      <3>1. from <= a
        BY <1>1, <2>2, RegionType DEF Address
      <3> QED BY <1>1, <3>1, SegNoGrows
    <2> QED BY <2>1, <2>2
  <1> DEFINE i == j - k
  <1>6. i \in Nat /\ k + i = j /\ k + i < Segs(r) /\ n \in Int /\ n >= 0 /\ i + 1 \in 1 .. n
    <2> HIDE DEF r, k, j
    <2> QED BY <1>3, <1>4, <1>5
  <1>7. SegmentOf(from + r.segsize * i) = Seg(r, j)
    <2>1. SegmentOf(from + r.segsize * i) = Seg(r, k + i)
      <3> HIDE DEF r, i
      <3> QED BY <1>1, <1>6, SegmentsOn
    <2> QED BY <1>6, <2>1, Zenon
  <1>8. addrs \in Seq(Int) /\ Len(addrs) = n /\ addrs[i + 1] = from + r.segsize * i
    <2>1. r.segsize \in Int /\ from \in Int
      <3> HIDE DEF r
      <3> QED BY <1>1, RegionType DEF Address
    <2>2. addrs \in Seq(Int) /\ Len(addrs) = n
          /\ \A c \in 1 .. n : addrs[c] = from + r.segsize * (c - 1)
      <3> HIDE DEF r
      <3> QED BY <1>6, <2>1, SegmentsFromFacts, Zenon
    <2>3. (i + 1) - 1 = i
      BY <1>6
    <2> HIDE DEF addrs, r, i
    <2> QED BY <1>6, <2>2, <2>3, Zenon
  <1>9. {NotYet} \in SUBSET Outcome /\ {} \in SUBSET Mapped /\ \A o \in {NotYet} : o.ok => Cleared(o, {})
    BY NotYetFacts DEF Cleared
  <1> DEFINE K == {}
             S == {NotYet}
  <1> HIDE DEF addrs, K, S
  <1>10. ClearedAlong(x, K, addrs)
    <2>1. S \in SUBSET Outcome /\ K \in SUBSET Mapped /\ \A o \in S : o.ok => Cleared(o, K)
      BY <1>9 DEF S, K
    <2>2. x \in EraseSegments(S, addrs)
      BY <1>2 DEF S
    <2> QED BY <1>8, <2>1, <2>2, SegmentsErased
  <1>11. a \in Mapped /\ a \notin Open
    BY DEF Erasable, Open, FlashBytes
  <1> HIDE DEF i, j, k, r
  <1>12. a \in (Mapped \cap SegmentOf(addrs[i + 1])) \ Open
    <2>1. SegmentOf(addrs[i + 1]) = Seg(r, j)
      BY <1>7, <1>8, Zenon
    <2> QED BY <1>4, <1>11, <2>1
  <1> QED BY <1>6, <1>8, <1>10, <1>12, Zenon DEF ClearedAlong, Cleared

-----------------------------------------------------------------------------
(* The blocks of a transfer *)

\* A block has some of the bytes that are left; it stays inside its region; and
\* it ends at an even address or at the end of the transfer.
BlockFits(a, n, size) ==
    /\ size \in 1 .. n
    /\ a \in Mapped => a .. a + size - 1 \subseteq RegionBytes(RegionAt(a))
    /\ (a + size) % 2 = 0 \/ size = n
    /\ a % 2 = 0 \/ size = 1

LEMMA Parity ==
    /\ \A x, y \in Int : x % 2 = 0 /\ y % 2 = 0 => (x + y) % 2 = 0 /\ (x - y) % 2 = 0
    /\ \A x \in Int : x % 2 \in {0, 1} /\ (x % 2 = 1 => (x + 1) % 2 = 0 /\ (x - 1) % 2 = 0)
                      /\ (x - (x % 2)) % 2 = 0 /\ (x % 2 = 0 => (x + 1) % 2 = 1)
  OBVIOUS

LEMMA BlockSizeFits ==
    ASSUME NEW a \in Int, NEW n \in Nat \ {0}
    PROVE  BlockFits(a, n, BlockSize(a, n))
  <1> DEFINE r == RegionAt(a)
  <1>0. a \in Mapped => /\ r.start \in Nat /\ r.size \in Nat \ {0}
                        /\ r.start % 2 = 0 /\ r.size % 2 = 0
                        /\ RegionBytes(r) = r.start .. r.start + r.size - 1
                        /\ a \in RegionBytes(r)
    BY RegionAtFacts, RegionType
  <1>1. CASE a % 2 = 1 \/ n = 1
    <2>1. BlockSize(a, n) = 1
      BY <1>1 DEF BlockSize
    <2>2. a .. a + 1 - 1 = {a}
      OBVIOUS
    <2>3. (a + 1) % 2 = 0 \/ 1 = n
      BY <1>1, Parity
    <2> QED BY <1>0, <2>1, <2>2, <2>3 DEF BlockFits
  <1>2. CASE ~(a % 2 = 1 \/ n = 1)
    <2> DEFINE c == n - (n % 2)
    <2>1. a % 2 = 0 /\ c \in 1 .. n /\ c % 2 = 0 /\ c \in Int
      BY <1>2, Parity
    <2>2. BlockSize(a, n) = CheckRange(a, c)
      BY <1>2 DEF BlockSize
    <2> HIDE DEF c, r
    <2>3. CASE a \notin Mapped
      <3>1. CheckRange(a, c) = c
        BY <2>3 DEF CheckRange
      <3>2. (a + c) % 2 = 0
        BY <2>1, Parity
      <3> QED BY <2>1, <2>2, <2>3, <3>1, <3>2 DEF BlockFits
    <2>4. CASE a \in Mapped
      <3> DEFINE e == r.start + r.size
      <3>1. CheckRange(a, c) = IF a + c > e THEN e - a ELSE c
        BY <2>4, Zenon DEF CheckRange, r
      <3>2. e \in Nat /\ e % 2 = 0 /\ a < e /\ a >= r.start /\ RegionBytes(r) = r.start .. e - 1
            /\ r.start \in Nat
        BY <1>0, <2>4, Parity
      <3> HIDE DEF e
      <3>3. CASE a + c > e
        <4>1. BlockSize(a, n) = e - a
          BY <2>2, <3>1, <3>3
        <4>2. e - a \in 1 .. n /\ (a + (e - a)) = e
          BY <2>1, <3>2, <3>3
        <4>3. a .. a + (e - a) - 1 \subseteq RegionBytes(r)
          BY <3>2
        <4> QED BY <2>1, <3>2, <4>1, <4>2, <4>3 DEF BlockFits, r
      <3>4. CASE ~(a + c > e)
        <4>1. BlockSize(a, n) = c
          BY <2>2, <3>1, <3>4
        <4>2. (a + c) % 2 = 0
          BY <2>1, Parity
        <4>3. a .. a + c - 1 \subseteq RegionBytes(r)
          BY <2>1, <3>2, <3>4
        <4> QED BY <2>1, <4>1, <4>2, <4>3 DEF BlockFits, r
      <3> QED BY <3>3, <3>4
    <2> QED BY <2>3, <2>4
  <1> QED BY <1>1, <1>2

\* Block k of B starts at P[k]; the blocks follow one another from the start of
\* the transfer to its end, and only the first may start at an odd address.
Chain(from, len, B, P) ==
    /\ B \in Seq(Int \X Int) /\ P \in [1 .. Len(B) + 1 -> Int]
    /\ P[1] = from /\ P[Len(B) + 1] = from + len
    /\ \A k \in 1 .. Len(B) :
          /\ P[k] \in from .. from + len - 1 /\ (P[k] = from \/ P[k] % 2 = 0)
          /\ B[k] = <<P[k], P[k + 1] - P[k]>>
          /\ BlockFits(P[k], from + len - P[k], P[k + 1] - P[k])

LEMMA ChainEnd ==
    ASSUME NEW from \in Int
    PROVE  \E P : Chain(from, 0, <<>>, P)
  <1> DEFINE P == [k \in 1 .. 1 |-> from]
  <1>1. <<>> \in Seq(Int \X Int) /\ Len(<<>>) = 0
    OBVIOUS
  <1>2. P \in [1 .. 0 + 1 -> Int] /\ P[1] = from /\ P[0 + 1] = from + 0
    OBVIOUS
  <1>3. Chain(from, 0, <<>>, P)
    <2> HIDE DEF P
    <2> QED BY <1>1, <1>2 DEF Chain
  <1> QED BY <1>3

\* A block before the others.
LEMMA ChainMore ==
    ASSUME NEW a \in Int, NEW n \in Nat \ {0}, NEW size, BlockFits(a, n, size),
           NEW B, NEW P, Chain(a + size, n - size, B, P)
    PROVE  \E Q : Chain(a, n, << <<a, size>> >> \o B, Q)
  <1> DEFINE C == << <<a, size>> >> \o B
             Q == [k \in 1 .. Len(B) + 2 |-> IF k = 1 THEN a ELSE P[k - 1]]
  <1>1. size \in 1 .. n /\ size \in Int
    BY DEF BlockFits
  <1>2. /\ B \in Seq(Int \X Int) /\ P \in [1 .. Len(B) + 1 -> Int]
        /\ P[1] = a + size /\ P[Len(B) + 1] = a + n
    BY <1>1 DEF Chain
  <1> DEFINE b == a + size
             l == n - size
  <1>e. b \in Int /\ l \in Int /\ b + l = a + n
    BY <1>1
  <1>c. Chain(b, l, B, P)
    OBVIOUS
  <1> HIDE DEF b, l
  <1>3. ASSUME NEW k \in 1 .. Len(B)
        PROVE  /\ P[k] \in a + size .. a + n - 1 /\ (P[k] = a + size \/ P[k] % 2 = 0)
               /\ B[k] = <<P[k], P[k + 1] - P[k]>>
               /\ BlockFits(P[k], a + n - P[k], P[k + 1] - P[k])
    <2>1. /\ P[k] \in b .. b + l - 1 /\ (P[k] = b \/ P[k] % 2 = 0)
          /\ B[k] = <<P[k], P[k + 1] - P[k]>>
          /\ BlockFits(P[k], b + l - P[k], P[k + 1] - P[k])
      BY <1>c, Zenon DEF Chain
    <2>2. b = a + size
      BY DEF b
    <2>3. P[k] \in Int
      BY <1>e, <2>1
    <2>4. b + l - 1 = a + n - 1 /\ b + l - P[k] = a + n - P[k]
      BY <1>e, <2>3
    <2> QED BY <2>1, <2>2, <2>4, Zenon
  <1>4. /\ C \in Seq(Int \X Int) /\ Len(C) = Len(B) + 1 /\ C[1] = <<a, size>>
        /\ \A k \in 1 .. Len(B) : C[k + 1] = B[k]
    BY <1>1, <1>2
  <1>5. Len(B) \in Nat
    BY <1>2
  <1>6. /\ Q \in [1 .. Len(B) + 2 -> Int] /\ Q[1] = a
        /\ \A k \in 1 .. Len(B) + 1 : Q[k + 1] = P[k]
    BY <1>2, <1>5
  <1> HIDE DEF C, Q
  <1>7. Q[Len(C) + 1] = a + n /\ Q[2] = a + size
    <2>1. Len(C) + 1 = (Len(B) + 1) + 1 /\ 2 = 1 + 1 /\ 1 \in 1 .. Len(B) + 1
          /\ Len(B) + 1 \in 1 .. Len(B) + 1
      BY <1>4, <1>5
    <2> QED BY <1>2, <1>6, <2>1, Zenon
  <1>8. ASSUME NEW k \in 1 .. Len(C)
        PROVE  /\ Q[k] \in a .. a + n - 1 /\ (Q[k] = a \/ Q[k] % 2 = 0)
               /\ C[k] = <<Q[k], Q[k + 1] - Q[k]>>
               /\ BlockFits(Q[k], a + n - Q[k], Q[k + 1] - Q[k])
    <2>1. CASE k = 1
      <3>1. Q[k + 1] - Q[k] = size /\ a + n - Q[k] = n
        BY <1>1, <1>6, <1>7, <2>1
      <3> QED BY <1>1, <1>4, <1>6, <2>1, <3>1
    <2>2. CASE k # 1
      <3> DEFINE j == k - 1
      <3>1. j \in 1 .. Len(B) /\ k = j + 1 /\ j + 1 \in 1 .. Len(B) + 1 /\ j \in 1 .. Len(B) + 1
        BY <1>4, <1>5, <2>2
      <3> HIDE DEF j
      <3>2. Q[k] = P[j] /\ Q[k + 1] = P[j + 1] /\ C[k] = B[j]
        BY <1>4, <1>6, <3>1
      <3>3. P[j] # a + size \/ (a + size) % 2 = 0
        <4>1. size # n
          <5> SUFFICES ASSUME size = n PROVE FALSE
            OBVIOUS
          <5>1. P[j] \in a + size .. a + n - 1
            BY <1>3, <3>1
          <5> QED BY <1>1, <5>1
        <4> QED BY <4>1 DEF BlockFits
      <3>4. P[j] \in a + size .. a + n - 1 /\ (P[j] = a + size \/ P[j] % 2 = 0)
        BY <1>3, <3>1
      <3>5. P[j] \in a .. a + n - 1 /\ P[j] % 2 = 0
        BY <1>1, <3>3, <3>4
      <3>6. B[j] = <<P[j], P[j + 1] - P[j]>> /\ BlockFits(P[j], a + n - P[j], P[j + 1] - P[j])
        BY <1>3, <3>1, Zenon
      <3> QED BY <3>2, <3>5, <3>6, Zenon
    <2> QED BY <2>1, <2>2
  <1>9. Q \in [1 .. Len(C) + 1 -> Int]
    <2>1. Len(C) + 1 = Len(B) + 2
      BY <1>4, <1>5
    <2> QED BY <1>6, <2>1, Zenon
  <1>10. Chain(a, n, C, Q)
    BY <1>4, <1>6, <1>7, <1>8, <1>9, Zenon DEF Chain
  <1> QED BY <1>10 DEF C

LEMMA BlocksChain ==
    ASSUME NEW from \in Int, NEW len \in Nat
    PROVE  \E P : Chain(from, len, Blocks(from, len), P)
  <1> DEFINE D == 0 .. len
             A == Seq(Int \X Int)
             size(n) == BlockSize(from + len - n, n)
             head(n) == << <<from + len - n, size(n)>> >>
             m == [n \in D |-> n]
             next == [n \in D |-> IF n = 0 THEN 0 ELSE n - size(n)]
             g == [n \in D |-> [x \in A |-> IF n = 0 THEN <<>> ELSE head(n) \o x]]
             Eqn(R) == R = [n \in D |-> IF n = 0 THEN <<>> ELSE head(n) \o R[n - size(n)]]
             Rest == CHOOSE R : Eqn(R)
  <1>1. \A n \in D : n # 0 => /\ from + len - n \in Int /\ n \in Nat \ {0}
                              /\ BlockFits(from + len - n, n, size(n))
    BY BlockSizeFits
  <1>2. \A n \in D : n # 0 => size(n) \in Int /\ n - size(n) \in D /\ n - size(n) < n
                              /\ n - size(n) \in 0 .. n - 1
    <2> SUFFICES ASSUME NEW n \in D, n # 0
                 PROVE  size(n) \in Int /\ n - size(n) \in D /\ n - size(n) < n
                        /\ n - size(n) \in 0 .. n - 1
      OBVIOUS
    <2>1. size(n) \in 1 .. n
      <3>1. BlockFits(from + len - n, n, size(n))
        BY <1>1, Zenon
      <3> QED BY <3>1, Zenon DEF BlockFits
    <2> HIDE DEF size
    <2> QED BY <2>1
  <1>3. m \in [D -> 0 .. len] /\ len \in Nat /\ <<>> \in A
    OBVIOUS
  <1>4. next \in [D -> D]
    <2> HIDE DEF size
    <2> QED BY <1>2
  <1>5. \A n \in D : n # 0 => head(n) \in A
    <2> HIDE DEF size
    <2> QED BY <1>1, <1>2
  <1>6. g \in [D -> [A -> A]]
    <2>1. ASSUME NEW n \in D, NEW x \in A
          PROVE  (IF n = 0 THEN <<>> ELSE head(n) \o x) \in A
      <3>1. CASE n = 0
        BY <3>1
      <3>2. CASE n # 0
        <4>1. head(n) \in A
          BY <1>5, <3>2, Zenon
        <4> HIDE DEF head
        <4> QED BY <3>2, <4>1
      <3> QED BY <3>1, <3>2
    <2> HIDE DEF A, D, head
    <2> QED BY <2>1, Zenon
  <1>7. Descends(D, len, m, next)
    <2>1. \A n \in D : m[n] # 0 => m[next[n]] < m[n]
      <3> HIDE DEF size
      <3> QED BY <1>2
    <2> HIDE DEF D, m, next
    <2> QED BY <1>3, <1>4, <2>1 DEF Descends
  <1>8. PICK f \in [D -> A] : f = [n \in D |-> IF m[n] = 0 THEN <<>> ELSE g[n][f[next[n]]]]
    <2>1. HasSolution(D, A, m, next, <<>>, g)
      <3> HIDE DEF D, A, m, next, g
      <3> QED BY <1>3, <1>6, <1>7, RecursionExists
    <2> QED BY <2>1 DEF HasSolution
  <1>9. ASSUME NEW n \in D
        PROVE  f[n] = IF n = 0 THEN <<>> ELSE head(n) \o f[n - size(n)]
    <2>1. f[n] = IF m[n] = 0 THEN <<>> ELSE g[n][f[next[n]]]
      <3> HIDE DEF m, g, next, A, D
      <3> QED BY <1>8
    <2>2. CASE n = 0
      BY <2>1, <2>2
    <2>3. CASE n # 0
      <3>1. n - size(n) \in D /\ next[n] = n - size(n) /\ m[n] = n
        <4> HIDE DEF size
        <4> QED BY <1>2, <2>3
      <3>2. f[n - size(n)] \in A
        <4> HIDE DEF A, D, size
        <4> QED BY <3>1
      <3>3. g[n][f[n - size(n)]] = head(n) \o f[n - size(n)]
        <4> HIDE DEF head, size, A, D
        <4> QED BY <2>3, <3>2 DEF g
      <3> HIDE DEF m, g, next, head, size
      <3> QED BY <2>1, <2>3, <3>1, <3>3
    <2> QED BY <2>2, <2>3
  <1>10. Eqn(f)
    <2>1. f = [n \in D |-> f[n]]
      <3> HIDE DEF D, A
      <3> QED BY <1>8
    <2> HIDE DEF D, head, size
    <2> QED BY <1>9, <2>1
  <1>11. Eqn(Rest)
    <2> HIDE DEF Eqn
    <2> QED BY <1>10
  <1>12. \A n \in D : Rest[n] = IF n = 0 THEN <<>> ELSE head(n) \o Rest[n - size(n)]
    <2> HIDE DEF Rest, D, head, size
    <2> QED BY <1>11, Zenon
  <1>13. Blocks(from, len) = Rest[len]
    BY Zenon DEF Blocks
  <1> HIDE DEF Rest
  <1> DEFINE Made(n) == \E P : Chain(from + len - n, n, Rest[n], P)
             S == {n \in Nat : n <= len => Made(n)}
  <1>14. ASSUME NEW n \in Nat, \A k \in 0 .. n - 1 : k \in S
         PROVE  n \in S
    <2> SUFFICES ASSUME n <= len PROVE Made(n)
      OBVIOUS
    <2>0. n \in D
      OBVIOUS
    <2>1. CASE n = 0
      <3>1. Rest[0] = <<>>
        BY <1>12, <2>0, <2>1
      <3>2. from + len - 0 \in Int
        OBVIOUS
      <3> QED BY <2>1, <3>1, <3>2, ChainEnd
    <2>2. CASE n # 0
      <3> DEFINE a == from + len - n
                 c == size(n)
                 b == n - c
      <3>1. Rest[n] = << <<a, c>> >> \o Rest[b]
        <4> HIDE DEF D
        <4> QED BY <1>12, <2>0, <2>2, Zenon
      <3>2. BlockFits(a, n, c) /\ a \in Int /\ n \in Nat \ {0}
        BY <1>1, <2>0, <2>2, Zenon
      <3>3. b \in 0 .. n - 1 /\ c \in Int
        BY <1>2, <2>0, <2>2, Zenon
      <3> HIDE DEF c, size
      <3>4. Made(b)
        <4>1. b \in S
          <5> HIDE DEF S, b
          <5> QED BY <1>14, <3>3
        <4>2. b <= len
          BY <3>3
        <4> HIDE DEF Made, b
        <4> QED BY <4>1, <4>2
      <3>5. from + len - b = a + c
        BY <3>3
      <3>6. PICK P : Chain(a + c, n - c, Rest[b], P)
        BY <3>4, <3>5, Zenon
      <3> HIDE DEF a, b
      <3>7. \E Q : Chain(a, n, << <<a, c>> >> \o Rest[b], Q)
        BY <3>2, <3>6, ChainMore
      <3> QED BY <3>1, <3>7, Zenon DEF a
    <2> QED BY <2>1, <2>2
  <1>15. Nat \subseteq S
    <2> HIDE DEF S
    <2> QED BY <1>14, StrongInduction
  <1>16. Made(len)
    <2> HIDE DEF Made
    <2> QED BY <1>15
  <1>17. from + len - len = from
    OBVIOUS
  <1> QED BY <1>13, <1>16, <1>17, Zenon

-----------------------------------------------------------------------------
(* Reading *)

\* What is read at all: bytes of the memory, and the filler.
Reading == Byte \cup {Filler}

LEMMA ReadBlockFacts ==
    ASSUME TypeOK, NEW a \in Int, NEW n \in Nat, NEW size, BlockFits(a, n, size)
    PROVE  /\ ReadBlock(a, size) \in Seq(Reading) /\ Len(ReadBlock(a, size)) = size
           /\ \A i \in 1 .. size : ReadBlock(a, size)[i] =
                                       IF a \in Mapped THEN mem[a + i - 1] ELSE Filler
           /\ size \in Nat \ {0} /\ (a \in Mapped => a .. a + size - 1 \subseteq Mapped)
  <1>1. size \in Nat \ {0}
    BY DEF BlockFits
  <1>2. a \in Mapped => a .. a + size - 1 \subseteq Mapped
    <2> SUFFICES ASSUME a \in Mapped PROVE a .. a + size - 1 \subseteq Mapped
      OBVIOUS
    <2>1. a .. a + size - 1 \subseteq RegionBytes(RegionAt(a))
      BY DEF BlockFits
    <2>2. RegionBytes(RegionAt(a)) \subseteq Mapped
      BY RegionAtFacts, RegionType
    <2> QED BY <2>1, <2>2
  <1>3. ASSUME NEW i \in 1 .. size
        PROVE  (IF a \in Mapped THEN mem[a + i - 1] ELSE Filler) \in Reading
    <2>1. CASE a \in Mapped
      <3>1. a + i - 1 \in Mapped
        BY <1>1, <1>2, <2>1
      <3>2. mem[a + i - 1] \in Byte
        BY <3>1 DEF TypeOK, Memory
      <3> QED BY <2>1, <3>2 DEF Reading
    <2>2. CASE a \notin Mapped
      BY <2>2, Zenon DEF Reading
    <2> QED BY <2>1, <2>2
  <1> DEFINE v(i) == IF a \in Mapped THEN mem[a + i - 1] ELSE Filler
             f == [i \in 1 .. size |-> v(i)]
  <1>4. ReadBlock(a, size) = f
    BY DEF ReadBlock
  <1>5. \A i \in 1 .. size : v(i) \in Reading
    BY <1>3
  <1>6. f \in Seq(Reading) /\ Len(f) = size /\ \A i \in 1 .. size : f[i] = v(i)
    <2> HIDE DEF v
    <2> QED BY <1>1, <1>5
  <1> HIDE DEF f
  <1> QED BY <1>1, <1>2, <1>4, <1>6, Zenon

\* U[n] is what the first n blocks give.
Pieces(B, U) ==
    /\ U[0] = <<>>
    /\ \A n \in 1 .. Len(B) : U[n] = U[n - 1] \o ReadBlock(B[n][1], B[n][2])

LEMMA ChainBlocks ==
    ASSUME NEW from \in Int, NEW len \in Nat, NEW B, NEW P, Chain(from, len, B, P),
           NEW k \in 1 .. Len(B)
    PROVE  /\ P[k] \in Int /\ P[k + 1] \in Int /\ from + len - P[k] \in Nat
           /\ P[k] \in from .. from + len - 1 /\ (P[k] = from \/ P[k] % 2 = 0)
           /\ B[k][1] = P[k] /\ B[k][2] = P[k + 1] - P[k] /\ B[k] = <<P[k], P[k + 1] - P[k]>>
           /\ BlockFits(P[k], from + len - P[k], B[k][2])
           /\ B[k][2] \in Int
  <1>1. /\ P[k] \in from .. from + len - 1 /\ (P[k] = from \/ P[k] % 2 = 0)
        /\ B[k] = <<P[k], P[k + 1] - P[k]>>
        /\ BlockFits(P[k], from + len - P[k], P[k + 1] - P[k])
    BY Zenon DEF Chain
  <1>2. k \in 1 .. Len(B) + 1 /\ k + 1 \in 1 .. Len(B) + 1
    BY DEF Chain
  <1>3. P[k] \in Int /\ P[k + 1] \in Int
    BY <1>2 DEF Chain
  <1> DEFINE s == P[k + 1] - P[k]
  <1>4. s \in Int
    BY <1>3
  <1> HIDE DEF s
  <1>5. B[k] = <<P[k], s>> /\ BlockFits(P[k], from + len - P[k], s)
    BY <1>1, Zenon DEF s
  <1>6. B[k][1] = P[k] /\ B[k][2] = s
    BY <1>5
  <1>7. from + len - P[k] \in Nat
    BY <1>1
  <1> QED BY <1>1, <1>3, <1>4, <1>5, <1>6, <1>7, Zenon DEF s

LEMMA ReadPieces ==
    ASSUME TypeOK, NEW from \in Int, NEW len \in Nat, NEW P,
           Chain(from, len, Blocks(from, len), P)
    PROVE  \E U : /\ Pieces(Blocks(from, len), U)
                  /\ ReadMem(from, len) = U[Len(Blocks(from, len))]
  <1> DEFINE B == Blocks(from, len)
             N == Len(B)
             A == Seq(Reading)
             r(n) == ReadBlock(B[n][1], B[n][2])
             g == [n \in 1 .. N |-> [x \in A |-> x \o r(n)]]
             Eqn(R) == R = [n \in 0 .. N |-> IF n = 0 THEN <<>> ELSE R[n - 1] \o r(n)]
             Upto == CHOOSE R : Eqn(R)
  <1>0. N \in Nat
    BY DEF Chain
  <1>m. ReadMem(from, len) = Upto[N]
    BY Zenon DEF ReadMem
  <1> HIDE DEF B
  <1>c. Chain(from, len, B, P)
    BY DEF B
  <1>1. ASSUME NEW n \in 1 .. N PROVE r(n) \in A
    <2>1. B[n][1] = P[n] /\ P[n] \in Int /\ from + len - P[n] \in Nat
          /\ BlockFits(P[n], from + len - P[n], B[n][2])
      BY <1>c, ChainBlocks
    <2>2. ReadBlock(P[n], B[n][2]) \in Seq(Reading)
      BY <2>1, ReadBlockFacts
    <2> QED BY <2>1, <2>2
  <1>2. g \in [1 .. N -> [A -> A]]
    <2>1. ASSUME NEW n \in 1 .. N, NEW x \in A PROVE x \o r(n) \in A
      <3>1. r(n) \in A
        BY <1>1
      <3> HIDE DEF r
      <3> QED BY <3>1
    <2> HIDE DEF r, A, N
    <2> QED BY <2>1
  <1>3. HasIteration(N, A, <<>>, g)
    <2>1. <<>> \in A
      OBVIOUS
    <2> HIDE DEF g, A, N
    <2> QED BY <1>0, <1>2, <2>1, IterationExists
  <1>4. PICK f \in [0 .. N -> A] : f = [n \in 0 .. N |-> IF n = 0 THEN <<>> ELSE g[n][f[n - 1]]]
    BY <1>3 DEF HasIteration
  <1>5. \A n \in 0 .. N : n # 0 => n \in 1 .. N /\ n - 1 \in 0 .. N
    BY <1>0
  <1>6. Eqn(f)
    <2>1. ASSUME NEW n \in 0 .. N
          PROVE  f[n] = IF n = 0 THEN <<>> ELSE f[n - 1] \o r(n)
      <3>1. n # 0 => g[n][f[n - 1]] = f[n - 1] \o r(n)
        <4> SUFFICES ASSUME n # 0 PROVE g[n][f[n - 1]] = f[n - 1] \o r(n)
          OBVIOUS
        <4>1. f[n - 1] \in A /\ n \in 1 .. N
          <5> HIDE DEF A, N
          <5> QED BY <1>5
        <4> HIDE DEF r, A, N
        <4> QED BY <4>1
      <3>2. f[n] = IF n = 0 THEN <<>> ELSE g[n][f[n - 1]]
        <4> HIDE DEF g, N, A
        <4> QED BY <1>4
      <3> HIDE DEF r, g
      <3> QED BY <3>1, <3>2
    <2>2. f = [n \in 0 .. N |-> f[n]]
      <3> HIDE DEF A, N
      <3> QED OBVIOUS
    <2> HIDE DEF r, N
    <2> QED BY <2>1, <2>2
  <1>7. Eqn(Upto)
    <2> HIDE DEF Eqn
    <2> QED BY <1>6
  <1>8. Pieces(B, Upto)
    <2>1. 0 \in 0 .. N /\ \A n \in 1 .. N : n \in 0 .. N /\ n # 0
      BY <1>0
    <2>2. \A n \in 0 .. N : Upto[n] = IF n = 0 THEN <<>> ELSE Upto[n - 1] \o r(n)
      <3> HIDE DEF Upto, N, r
      <3> QED BY <1>7, Zenon
    <2> HIDE DEF Upto
    <2> QED BY <2>1, <2>2, Zenon DEF Pieces
  <1> HIDE DEF Upto
  <1> QED BY <1>8, <1>m, Zenon DEF B

\* Byte i of a read from here.
ReadRight(from, byte, i) ==
    /\ from .. from + i - 1 \subseteq Mapped => byte = mem[from + i - 1]
    /\ from + i - 1 \notin Mapped => byte = Filler

\* A read of the first n bytes.
ReadSoFar(from, bytes, n) ==
    /\ bytes \in Seq(Reading) /\ Len(bytes) = n
    /\ \A i \in 1 .. n : ReadRight(from, bytes[i], i)

LEMMA ReadStep ==
    ASSUME TypeOK, NEW from \in Int, NEW a \in Int, a >= from, NEW n \in Nat, NEW size,
           BlockFits(a, n, size), NEW bytes, ReadSoFar(from, bytes, a - from)
    PROVE  ReadSoFar(from, bytes \o ReadBlock(a, size), a + size - from)
  <1> DEFINE c == ReadBlock(a, size)
             d == a - from
             x == bytes \o c
  <1>1. /\ c \in Seq(Reading) /\ Len(c) = size
        /\ \A i \in 1 .. size : c[i] = IF a \in Mapped THEN mem[a + i - 1] ELSE Filler
        /\ size \in Nat \ {0} /\ (a \in Mapped => a .. a + size - 1 \subseteq Mapped)
    BY ReadBlockFacts
  <1>2. bytes \in Seq(Reading) /\ Len(bytes) = d /\ d \in Nat
    BY DEF ReadSoFar
  <1> HIDE DEF c
  <1>3. /\ x \in Seq(Reading) /\ Len(x) = d + size
        /\ \A i \in 1 .. d : x[i] = bytes[i]
        /\ \A i \in 1 .. size : x[d + i] = c[i]
    BY <1>1, <1>2
  <1> HIDE DEF x
  <1>4. ASSUME NEW i \in 1 .. d + size
        PROVE  ReadRight(from, x[i], i)
    <2>1. CASE i \in 1 .. d
      <3>1. ReadRight(from, bytes[i], i)
        BY <2>1, Zenon DEF ReadSoFar
      <3> QED BY <1>3, <2>1, <3>1
    <2>2. CASE i \notin 1 .. d
      <3> DEFINE j == i - d
      <3>1. j \in 1 .. size /\ i = d + j /\ from + i - 1 = a + j - 1
        BY <1>1, <1>2, <2>2
      <3>2. x[i] = IF a \in Mapped THEN mem[a + j - 1] ELSE Filler
        <4> HIDE DEF j
        <4> QED BY <1>1, <1>3, <3>1
      <3>3. from .. from + i - 1 \subseteq Mapped => a \in Mapped
        <4>1. a \in from .. from + i - 1
          BY <1>1, <1>2, <3>1
        <4> QED BY <4>1
      <3>4. from + i - 1 \notin Mapped => a \notin Mapped
        <4>1. a + j - 1 \in a .. a + size - 1
          BY <1>1, <3>1
        <4> HIDE DEF j
        <4> QED BY <1>1, <3>1, <4>1
      <3> HIDE DEF j
      <3> QED BY <3>1, <3>2, <3>3, <3>4, Zenon DEF ReadRight
    <2> QED BY <2>1, <2>2
  <1>5. a + size - from = d + size
    BY <1>1
  <1> HIDE DEF d
  <1> QED BY <1>3, <1>4, <1>5, Zenon DEF ReadSoFar, x, c

LEMMA ReadIsExact ==
    ASSUME TypeOK
    PROVE  ReadsExactly
  <1> SUFFICES ASSUME NEW from \in Address, NEW len \in 1 .. MaxLen
               PROVE  LET bytes == ReadMem(from, len)
                      IN  /\ Len(bytes) = len
                          /\ \A i \in 1 .. len :
                                /\ from + i - 1 \in Reached(from, len) => bytes[i] = mem[from + i - 1]
                                /\ from + i - 1 \notin Mapped => bytes[i] = Filler
    BY DEF ReadsExactly
  <1>1. from \in Int /\ len \in Nat
    BY DEF Address
  <1> DEFINE B == Blocks(from, len)
  <1>2. PICK P : Chain(from, len, B, P)
    BY <1>1, BlocksChain
  <1>3. PICK U : Pieces(B, U) /\ ReadMem(from, len) = U[Len(B)]
    BY <1>1, <1>2, ReadPieces
  <1> HIDE DEF B
  <1> DEFINE T == {n \in Nat : ReadSoFar(from, U[n], P[n + 1] - from)}
  <1>4. Len(B) \in Nat /\ P[1] = from /\ P[Len(B) + 1] = from + len
    BY <1>2 DEF Chain
  <1>5. 0 \in T
    <2>1. P[0 + 1] - from = 0 /\ U[0] = <<>>
      BY <1>1, <1>3, <1>4 DEF Pieces
    <2>2. ReadSoFar(from, <<>>, 0)
      BY DEF ReadSoFar
    <2> QED BY <2>1, <2>2
  <1>6. ASSUME NEW n \in 1 .. Len(B), n - 1 \in T
        PROVE  n \in T
    <2>1. /\ P[n] \in Int /\ P[n + 1] \in Int /\ from + len - P[n] \in Nat
          /\ P[n] \in from .. from + len - 1 /\ B[n][1] = P[n] /\ B[n][2] = P[n + 1] - P[n]
          /\ BlockFits(P[n], from + len - P[n], B[n][2])
      BY <1>1, <1>2, ChainBlocks
    <2>2. ReadSoFar(from, U[n - 1], P[n] - from)
      <3>1. (n - 1) + 1 = n
        OBVIOUS
      <3> QED BY <1>6, <3>1
    <2>3. P[n] >= from
      BY <1>1, <2>1
    <2>4. ReadSoFar(from, U[n - 1] \o ReadBlock(P[n], B[n][2]), P[n] + B[n][2] - from)
      BY <1>1, <2>1, <2>2, <2>3, ReadStep
    <2>5. U[n] = U[n - 1] \o ReadBlock(P[n], B[n][2])
      BY <1>3, <2>1, Zenon DEF Pieces
    <2>6. P[n] + B[n][2] - from = P[n + 1] - from
      BY <1>1, <2>1
    <2>7. ReadSoFar(from, U[n], P[n + 1] - from)
      BY <2>4, <2>5, <2>6, Zenon
    <2>8. n \in Nat
      OBVIOUS
    <2> QED BY <2>7, <2>8, Zenon
  <1>7. Len(B) \in T
    <2> HIDE DEF T
    <2>1. Climbs(Len(B), T)
      BY <1>5, <1>6 DEF Climbs
    <2>2. 0 .. Len(B) \subseteq T
      BY <1>4, <2>1, UpTo, Zenon
    <2> QED BY <1>4, <2>2
  <1> DEFINE bytes == ReadMem(from, len)
  <1>8. ReadSoFar(from, bytes, len)
    <2>1. P[Len(B) + 1] - from = len
      BY <1>1, <1>4
    <2> QED BY <1>3, <1>7, <2>1
  <1> HIDE DEF bytes
  <1>9. Len(bytes) = len
    BY <1>8, Zenon DEF ReadSoFar
  <1>10. ASSUME NEW i \in 1 .. len
         PROVE  /\ from + i - 1 \in Reached(from, len) => bytes[i] = mem[from + i - 1]
                /\ from + i - 1 \notin Mapped => bytes[i] = Filler
    <2>1. ReadRight(from, bytes[i], i)
      BY <1>8, Zenon DEF ReadSoFar
    <2>2. from + i - 1 \in Reached(from, len) => from .. from + i - 1 \subseteq Mapped
      BY Zenon DEF Reached
    <2> QED BY <2>1, <2>2, Zenon DEF ReadRight
  <1> QED BY <1>9, <1>10, Zenon DEF bytes

-----------------------------------------------------------------------------
(* Writing *)

\* A block of a transfer starts at a mapped address a.
Starts(from, data, a, size) ==
    /\ from \in Int /\ data \in Seq(Byte)
    /\ a \in from .. from + Len(data) - 1 /\ (a = from \/ a % 2 = 0)
    /\ BlockFits(a, from + Len(data) - a, size)
    /\ a \in Mapped

FirstOf(a) == a - (a % 2)
LastOf(a, size) == a + size - 1 + ((a + size) % 2)

\* The words of the block are those from byte f to byte l: whole words inside of
\* the region, with at most one byte of the memory's before or after.
Bounded(from, data, a, size, f, l) ==
    /\ a \in Int /\ size \in Nat \ {0} /\ f \in Int /\ l \in Int
    /\ a .. a + size - 1 \subseteq f .. l
    /\ f .. l \subseteq RegionBytes(RegionAt(a))
    /\ f % 2 = 0 /\ (l + 1) % 2 = 0
    /\ f = a \/ (f = a - 1 /\ a = from /\ l = a)
    /\ l = a + size - 1 \/ (l = a + size /\ a + size = from + Len(data))

LEMMA WordBounds ==
    ASSUME NEW from, NEW data, NEW a, NEW size, Starts(from, data, a, size)
    PROVE  Bounded(from, data, a, size, FirstOf(a), LastOf(a, size))
  <1> DEFINE r == RegionAt(a)
             n == from + Len(data) - a
             e == r.start + r.size
             u == a % 2
             v == (a + size) % 2
  <1>1. /\ from \in Int /\ Len(data) \in Nat /\ a \in Int /\ n \in Nat
        /\ a >= from /\ (a = from \/ u = 0)
        /\ size \in 1 .. n /\ (v = 0 \/ size = n) /\ (u = 0 \/ size = 1)
        /\ a .. a + size - 1 \subseteq RegionBytes(r)
    BY DEF Starts, BlockFits
  <1>2. /\ r.start \in Nat /\ r.size \in Nat \ {0} /\ r.start % 2 = 0 /\ r.size % 2 = 0
        /\ RegionBytes(r) = r.start .. r.start + r.size - 1
    BY RegionAtFacts, RegionType DEF Starts
  <1>3. u \in {0, 1} /\ v \in {0, 1} /\ (a - u) % 2 = 0 /\ (a + size - 1 + v + 1) % 2 = 0
    <2>1. a + size \in Int
      BY <1>1
    <2> DEFINE s == a + size
    <2>2. v \in {0, 1} /\ (v = 1 => (s + 1) % 2 = 0) /\ (a + size - 1 + v + 1) = s + v
      BY <1>1
    <2> QED BY <1>1, <2>1, <2>2, Parity
  <1>4. u = 1 => v = 0
    <2>1. u = 1 => size = 1 /\ (a + 1) % 2 = 0
      BY <1>1, Parity
    <2> QED BY <2>1
  <1>5. e \in Nat /\ e % 2 = 0 /\ a \in r.start .. e - 1 /\ a + size - 1 \in r.start .. e - 1
        /\ RegionBytes(r) = r.start .. e - 1
    <2>1. a \in a .. a + size - 1 /\ a + size - 1 \in a .. a + size - 1
      BY <1>1
    <2>2. e % 2 = 0
      BY <1>2, Parity
    <2> HIDE DEF r
    <2>3. a \in RegionBytes(r) /\ a + size - 1 \in RegionBytes(r)
      BY <1>1, <2>1
    <2>4. e \in Nat /\ r.start \in Nat
      BY <1>2
    <2> HIDE DEF e
    <2>5. e = r.start + r.size
      BY DEF e
    <2>6. RegionBytes(r) = r.start .. e - 1
      BY <1>2, <2>5
    <2> QED BY <2>2, <2>3, <2>4, <2>6
  <1>6. u = 1 => a # r.start
    BY <1>2
  <1>7. v = 1 => a + size # e
    BY <1>5
  <1> HIDE DEF r, n, e, u, v
  <1>8. FirstOf(a) = a - u /\ LastOf(a, size) = a + size - 1 + v
    BY DEF FirstOf, LastOf, u, v
  <1>9. n = from + Len(data) - a /\ r.start \in Nat
    BY <1>2 DEF n
  <1>10. FirstOf(a) .. LastOf(a, size) \subseteq r.start .. e - 1
    BY <1>1, <1>3, <1>5, <1>6, <1>7, <1>8, <1>9
  <1>11. a .. a + size - 1 \subseteq FirstOf(a) .. LastOf(a, size)
    BY <1>1, <1>3, <1>8
  <1>12. /\ a \in Int /\ size \in Nat \ {0} /\ FirstOf(a) \in Int /\ LastOf(a, size) \in Int
         /\ FirstOf(a) = a \/ (FirstOf(a) = a - 1 /\ a = from /\ LastOf(a, size) = a)
    BY <1>1, <1>3, <1>4, <1>8
  <1>13. LastOf(a, size) = a + size - 1
         \/ (LastOf(a, size) = a + size /\ a + size = from + Len(data))
    BY <1>1, <1>3, <1>8, <1>9
  <1> QED BY <1>3, <1>5, <1>8, <1>10, <1>11, <1>12, <1>13 DEF r, Bounded

\* The words of a block: the data where there is some, else what memory has.
Worded(o, from, data, a, size, w) ==
    /\ w \in [FirstOf(a) .. LastOf(a, size) -> Byte]
    /\ \A c \in a .. a + size - 1 : w[c] = data[c - from + 1] /\ c - from + 1 \in 1 .. Len(data)
    /\ \A c \in FirstOf(a) .. LastOf(a, size) :
          c \notin a .. a + size - 1 => w[c] = o.mem[c]

LEMMA WordsFacts ==
    ASSUME NEW from, NEW data, NEW a, NEW size, Starts(from, data, a, size),
           NEW o \in Outcome
    PROVE  Worded(o, from, data, a, size, WordsOf(o, <<a, size>>, from, data))
  <1> DEFINE f == FirstOf(a)
             l == LastOf(a, size)
             v(c) == IF c \in from .. from + Len(data) - 1 THEN data[c - from + 1]
                                                           ELSE o.mem[c]
             w == [c \in f .. l |-> v(c)]
  <1>1. WordsOf(o, <<a, size>>, from, data) = w
    BY DEF WordsOf, FirstOf, LastOf
  <1>2. /\ a \in Int /\ size \in Nat \ {0} /\ f \in Int /\ l \in Int
        /\ a .. a + size - 1 \subseteq f .. l
        /\ f .. l \subseteq RegionBytes(RegionAt(a))
        /\ f = a \/ (f = a - 1 /\ a = from /\ l = a)
        /\ l = a + size - 1 \/ (l = a + size /\ a + size = from + Len(data))
    <2>1. Bounded(from, data, a, size, f, l)
      BY WordBounds
    <2> HIDE DEF f, l
    <2> QED BY <2>1 DEF Bounded
  <1>3. /\ from \in Int /\ Len(data) \in Nat /\ data \in Seq(Byte)
        /\ a \in from .. from + Len(data) - 1 /\ size \in 1 .. from + Len(data) - a
    BY DEF Starts, BlockFits
  <1>4. RegionBytes(RegionAt(a)) \subseteq Mapped
    BY RegionAtFacts, RegionType DEF Starts
  <1> HIDE DEF f, l
  <1>5. ASSUME NEW c \in f .. l PROVE v(c) \in Byte
    <2>1. c \in Mapped
      BY <1>2, <1>4
    <2>2. o.mem[c] \in Byte
      BY <2>1, OutcomeFacts DEF Memory
    <2>3. c \in from .. from + Len(data) - 1 => data[c - from + 1] \in Byte
      <3>1. c \in from .. from + Len(data) - 1 => c - from + 1 \in 1 .. Len(data)
        BY <1>2, <1>3
      <3> QED BY <1>3, <3>1
    <2> QED BY <2>2, <2>3
  <1>6. w \in [f .. l -> Byte]
    <2> HIDE DEF v
    <2> QED BY <1>5
  <1>7. ASSUME NEW c \in a .. a + size - 1
        PROVE  w[c] = data[c - from + 1] /\ c - from + 1 \in 1 .. Len(data)
    <2>1. c \in from .. from + Len(data) - 1 /\ c - from + 1 \in 1 .. Len(data) /\ c \in f .. l
      BY <1>2, <1>3
    <2> QED BY <2>1
  <1>8. ASSUME NEW c \in f .. l, c \notin a .. a + size - 1
        PROVE  w[c] = o.mem[c]
    <2>1. c \notin from .. from + Len(data) - 1
      BY <1>2, <1>3, <1>8
    <2> QED BY <2>1
  <1> HIDE DEF w
  <1> QED BY <1>1, <1>6, <1>7, <1>8, Zenon DEF Worded, f, l

LEMMA ProgrammedFacts ==
    ASSUME NEW m \in Memory, NEW lock \in BOOLEAN, NEW w, NEW bytes
    PROVE  /\ Programmed(m, lock, w, bytes) \in Memory
           /\ \A c \in Mapped :
                 LET new == Programmed(m, lock, w, bytes)[c]
                 IN  /\ new \subseteq m[c]
                     /\ new = m[c] \/ (c \in DOMAIN w /\ new = m[c] \cap w[c])
                     /\ c \in DOMAIN w /\ c \in bytes /\ ~lock => new = m[c] \cap w[c]
  <1> DEFINE v(c) == IF c \in DOMAIN w \cap bytes /\ ~(lock /\ c \in InfoA)
                     THEN m[c] \cap w[c] ELSE m[c]
             p == [c \in Mapped |-> v(c)]
  <1>1. Programmed(m, lock, w, bytes) = p
    BY DEF Programmed
  <1>2. \A c \in Mapped : m[c] \in SUBSET Bits
    BY DEF Memory, Byte
  <1>3. \A c \in Mapped : v(c) \in SUBSET Bits /\ p[c] = v(c)
    BY <1>2
  <1>4. p \in Memory
    <2> HIDE DEF v
    <2> QED BY <1>3 DEF Memory, Byte
  <1>5. ASSUME NEW c \in Mapped
        PROVE  LET new == p[c]
               IN  /\ new \subseteq m[c]
                   /\ new = m[c] \/ (c \in DOMAIN w /\ new = m[c] \cap w[c])
                   /\ c \in DOMAIN w /\ c \in bytes /\ ~lock => new = m[c] \cap w[c]
    BY <1>2, <1>3
  <1> HIDE DEF p
  <1> QED BY <1>1, <1>4, <1>5, Zenon

\* What a byte may be once byte has been written over old.
PutRight(c, old, byte, new, late) ==
    \/ new = IF IsFlash(c) THEN old \cap byte ELSE byte
    \/ late /\ IsFlash(c) /\ new \subseteq old

\* x is o with the block written.
Puts(o, x, from, data, a, size) ==
    /\ x \in Outcome /\ x.ok = o.ok /\ (o.late => x.late)
    /\ x.locka = o.locka \/ (IsXv2Part /\ (x.late \/ x.locka))
    /\ \A c \in Mapped : c \notin a .. a + size - 1 => x.mem[c] = o.mem[c]
    /\ (IsXv2Part \/ o.locka = HasLocka) =>
          \A c \in a .. a + size - 1 : PutRight(c, o.mem[c], data[c - from + 1], x.mem[c], x.late)

\* The region of the block.
LEMMA BlockBytes ==
    ASSUME NEW from, NEW data, NEW a, NEW size, Starts(from, data, a, size),
           NEW c \in FirstOf(a) .. LastOf(a, size)
    PROVE  c \in Mapped /\ (IsFlash(c) <=> IsFlash(a))
  <1>1. c \in RegionBytes(RegionAt(a)) /\ RegionAt(a) \in Regions
    BY WordBounds, RegionAtFacts DEF Bounded, Starts
  <1>2. c \in Mapped /\ RegionAt(c) = RegionAt(a)
    BY <1>1, RegionAtIs, RegionType
  <1> QED BY <1>2, Zenon DEF IsFlash

LEMMA LegacyPuts ==
    ASSUME NEW from, NEW data, NEW a, NEW size, Starts(from, data, a, size),
           NEW o \in Outcome, NEW w, Worded(o, from, data, a, size, w),
           IsFlash(a), ~IsXv2Part, NEW x, x \in WriteFlash(o, w)
    PROVE  Puts(o, x, from, data, a, size)
  <1> DEFINE lock == Toggled(o.locka, HasLocka)
             m    == Programmed(o.mem, lock, w, DOMAIN w)
             l    == Toggled(lock, HasLocka)
             f    == FirstOf(a)
             e    == LastOf(a, size)
  <1>1. x = [o EXCEPT !.mem = m, !.locka = l]
    BY DEF WriteFlash
  <1>2. /\ o = [mem |-> o.mem, locka |-> o.locka, ok |-> o.ok, late |-> o.late]
        /\ o.mem \in Memory /\ o.locka \in BOOLEAN /\ o.ok \in BOOLEAN /\ o.late \in BOOLEAN
        /\ o.locka => HasLocka
    BY OutcomeFacts
  <1>3. lock \in BOOLEAN /\ l = o.locka /\ (o.locka = HasLocka => lock = FALSE)
    <2>1. HasLocka \in BOOLEAN
      BY DEF HasLocka
    <2> QED BY <1>2, <2>1 DEF Toggled
  <1>4. m \in Memory /\ \A c \in Mapped :
           /\ m[c] = o.mem[c] \/ (c \in DOMAIN w /\ m[c] = o.mem[c] \cap w[c])
           /\ c \in DOMAIN w /\ ~lock => m[c] = o.mem[c] \cap w[c]
    <2> HIDE DEF lock
    <2> QED BY <1>2, <1>3, ProgrammedFacts
  <1> HIDE DEF m, l, lock
  <1>5. x = [mem |-> m, locka |-> o.locka, ok |-> o.ok, late |-> o.late]
    BY <1>1, <1>2, <1>3
  <1>6. x \in Outcome /\ x.mem = m /\ x.locka = o.locka /\ x.ok = o.ok /\ x.late = o.late
    BY <1>2, <1>4, <1>5 DEF Outcome
  <1>7. /\ DOMAIN w = f .. e /\ a .. a + size - 1 \subseteq f .. e
        /\ \A c \in a .. a + size - 1 : w[c] = data[c - from + 1]
        /\ \A c \in f .. e : c \notin a .. a + size - 1 => w[c] = o.mem[c]
    <2>1. Bounded(from, data, a, size, f, e)
      BY WordBounds
    <2> HIDE DEF f, e
    <2> QED BY <2>1 DEF Worded, Bounded, f, e
  <1>8. ASSUME NEW c \in Mapped, c \notin a .. a + size - 1 PROVE m[c] = o.mem[c]
    <2> HIDE DEF f, e
    <2> QED BY <1>4, <1>7, <1>8
  <1>9. ASSUME o.locka = HasLocka, NEW c \in a .. a + size - 1
        PROVE  PutRight(c, o.mem[c], data[c - from + 1], m[c], o.late)
    <2>1. c \in f .. e
      BY <1>7, Zenon
    <2>2. c \in Mapped /\ IsFlash(c)
      BY <2>1, BlockBytes
    <2>3. m[c] = o.mem[c] \cap data[c - from + 1]
      <3> HIDE DEF f, e
      <3> QED BY <1>3, <1>4, <1>7, <1>9, <2>1, <2>2
    <2> QED BY <2>2, <2>3, Zenon DEF PutRight
  <1> QED BY <1>6, <1>8, <1>9, Zenon DEF Puts

LEMMA RamPuts ==
    ASSUME NEW from, NEW data, NEW a, NEW size, Starts(from, data, a, size),
           NEW o \in Outcome, NEW w, Worded(o, from, data, a, size, w), ~IsFlash(a)
    PROVE  Puts(o, [o EXCEPT !.mem = Stores(@, w)], from, data, a, size)
  <1> DEFINE m == Stores(o.mem, w)
             f == FirstOf(a)
             e == LastOf(a, size)
             x == [o EXCEPT !.mem = m]
  <1>1. /\ o = [mem |-> o.mem, locka |-> o.locka, ok |-> o.ok, late |-> o.late]
        /\ o.mem \in Memory /\ o.locka \in BOOLEAN /\ o.ok \in BOOLEAN /\ o.late \in BOOLEAN
        /\ o.locka => HasLocka
    BY OutcomeFacts
  <1>2. /\ w \in [f .. e -> Byte] /\ a .. a + size - 1 \subseteq f .. e
        /\ \A c \in a .. a + size - 1 : w[c] = data[c - from + 1]
        /\ \A c \in f .. e : c \notin a .. a + size - 1 => w[c] = o.mem[c]
    <2>1. Bounded(from, data, a, size, f, e)
      BY WordBounds
    <2> HIDE DEF f, e
    <2> QED BY <2>1 DEF Worded, Bounded, f, e
  <1>3. m \in Memory /\ \A c \in Mapped : m[c] = IF c \in f .. e THEN w[c] ELSE o.mem[c]
    <2>1. f .. e \subseteq Mapped
      BY BlockBytes
    <2> HIDE DEF f, e
    <2>2. DOMAIN w = f .. e /\ DOMAIN o.mem = Mapped /\ Mapped \cup (f .. e) = Mapped
      BY <1>1, <1>2, <2>1 DEF Memory
    <2>3. m = [c \in Mapped |-> IF c \in f .. e THEN w[c] ELSE o.mem[c]]
      BY <2>2, Zenon DEF Stores
    <2> QED BY <1>1, <1>2, <2>3 DEF Memory
  <1> HIDE DEF m
  <1>4. x = [mem |-> m, locka |-> o.locka, ok |-> o.ok, late |-> o.late]
    BY <1>1
  <1> HIDE DEF x
  <1>5. x \in Outcome /\ x.mem = m /\ x.locka = o.locka /\ x.ok = o.ok /\ x.late = o.late
    BY <1>1, <1>3, <1>4 DEF Outcome
  <1>6. ASSUME NEW c \in Mapped, c \notin a .. a + size - 1 PROVE m[c] = o.mem[c]
    <2> HIDE DEF f, e
    <2> QED BY <1>2, <1>3, <1>6
  <1>7. ASSUME NEW c \in a .. a + size - 1
        PROVE  PutRight(c, o.mem[c], data[c - from + 1], m[c], o.late)
    <2>1. c \in f .. e
      BY <1>2, Zenon
    <2>2. c \in Mapped /\ ~IsFlash(c)
      BY <2>1, BlockBytes
    <2>3. m[c] = data[c - from + 1]
      <3> HIDE DEF f, e
      <3> QED BY <1>2, <1>3, <2>1, <2>2
    <2> QED BY <2>2, <2>3, Zenon DEF PutRight
  <1>8. Puts(o, x, from, data, a, size)
    BY <1>5, <1>6, <1>7, Zenon DEF Puts
  <1> QED BY <1>8, Zenon DEF x, m

\* The words the program in the target writes one place early.
Early(w) == [c \in {b \in DOMAIN w : b + 2 \in DOMAIN w} |-> w[c + 2]]

\* What the Xv2 driver leaves: all the words in their place, or, late, some of
\* them, and maybe one place early.
Xv2Wrote(o, x, w) ==
    \/ x = [o EXCEPT !.mem = Programmed(o.mem, FALSE, w, DOMAIN w), !.locka = TRUE]
    \/ \E v \in {w, Early(w)} : \E bytes : \E l \in BOOLEAN :
          x = [o EXCEPT !.mem = Programmed(o.mem, FALSE, v, bytes), !.locka = l, !.late = TRUE]

LEMMA Xv2Writes ==
    ASSUME NEW f \in Int, NEW e \in Int, f <= e, f % 2 = 0, (e + 1) % 2 = 0,
           NEW w, DOMAIN w = f .. e, NEW o, NEW x, x \in WriteFlashXv2(o, w)
    PROVE  Xv2Wrote(o, x, w)
  <1> DEFINE first == Min(DOMAIN w)
             words == Cardinality(DOMAIN w) \div 2
             After(v, k) == Programmed(o.mem, FALSE, v, first .. first + 2 * k - 1)
             good == {After(w, k) : k \in 0 .. words}
             bad  == {After(Early(w), k) : k \in 0 .. words}
  <1>1. \/ x \in {[o EXCEPT !.mem = After(w, words), !.locka = TRUE]}
        \/ x \in TimedOut(o, good)
        \/ x \in TimedOut(o, bad)
    BY Zenon DEF WriteFlashXv2, Early
  <1>2. first = f
    <2>1. f \in f .. e /\ \A y \in f .. e : f <= y
      OBVIOUS
    <2>2. \A z \in f .. e : (\A y \in f .. e : z <= y) => z = f
      BY <2>1
    <2> QED BY <2>1, <2>2 DEF Min
  <1>3. first .. first + 2 * words - 1 = DOMAIN w
    <2>0. Cardinality(f .. e) = IF f > e THEN 0 ELSE e - f + 1
      BY FS_Interval, Zenon
    <2>1. Cardinality(f .. e) = e - f + 1
      BY <2>0
    <2>2. (e - f + 1) % 2 = 0
      <3>1. (e + 1) - f = e - f + 1
        OBVIOUS
      <3>2. e + 1 \in Int
        OBVIOUS
      <3> QED BY <3>1, <3>2, Parity
    <2>3. 2 * ((e - f + 1) \div 2) = e - f + 1
      BY <2>2
    <2>4. f + 2 * words - 1 = e
      BY <2>1, <2>3
    <2> QED BY <1>2, <2>4
  <1> HIDE DEF first, words
  <1>4. CASE x \in {[o EXCEPT !.mem = After(w, words), !.locka = TRUE]}
    <2>1. x = [o EXCEPT !.mem = After(w, words), !.locka = TRUE]
      BY <1>4
    <2> QED BY <1>3, <2>1, Zenon DEF Xv2Wrote
  <1>5. CASE x \in TimedOut(o, good)
    <2>1. LateBy(o, good, x)
      <3> HIDE DEF good
      <3> QED BY <1>5, TimedOutIs
    <2>2. PICK m \in good, l \in BOOLEAN : x = [o EXCEPT !.mem = m, !.locka = l, !.late = TRUE]
      BY <2>1, Zenon DEF LateBy
    <2>3. PICK k : m = After(w, k)
      BY <2>2, Zenon
    <2> QED BY <2>2, <2>3, Zenon DEF Xv2Wrote
  <1>6. CASE x \in TimedOut(o, bad)
    <2>1. LateBy(o, bad, x)
      <3> HIDE DEF bad
      <3> QED BY <1>6, TimedOutIs
    <2>2. PICK m \in bad, l \in BOOLEAN : x = [o EXCEPT !.mem = m, !.locka = l, !.late = TRUE]
      BY <2>1, Zenon DEF LateBy
    <2>3. PICK k : m = After(Early(w), k)
      BY <2>2, Zenon
    <2> QED BY <2>2, <2>3, Zenon DEF Xv2Wrote
  <1> QED BY <1>1, <1>4, <1>5, <1>6

LEMMA Xv2Puts ==
    ASSUME NEW from, NEW data, NEW a, NEW size, Starts(from, data, a, size),
           NEW o \in Outcome, NEW w, Worded(o, from, data, a, size, w),
           IsFlash(a), IsXv2Part, NEW x, x \in WriteFlash(o, w)
    PROVE  Puts(o, x, from, data, a, size)
  <1> DEFINE f == FirstOf(a)
             e == LastOf(a, size)
  <1>0. HasLocka
    BY DEF HasLocka, IsXv2Part
  <1>1. /\ o = [mem |-> o.mem, locka |-> o.locka, ok |-> o.ok, late |-> o.late]
        /\ o.mem \in Memory /\ o.locka \in BOOLEAN /\ o.ok \in BOOLEAN /\ o.late \in BOOLEAN
    BY OutcomeFacts
  <1>2. Bounded(from, data, a, size, f, e)
    BY WordBounds
  <1> HIDE DEF f, e
  <1>3. /\ DOMAIN w = f .. e
        /\ \A c \in a .. a + size - 1 : w[c] = data[c - from + 1]
        /\ \A c \in f .. e : c \notin a .. a + size - 1 => w[c] = o.mem[c]
    BY DEF Worded, f, e
  <1>4. /\ f \in Int /\ e \in Int /\ f <= e /\ f % 2 = 0 /\ (e + 1) % 2 = 0
        /\ a \in Int /\ size \in Nat \ {0} /\ a .. a + size - 1 \subseteq f .. e
        /\ f = a \/ (f = a - 1 /\ e = a)
        /\ e = a + size - 1 \/ e = a + size
    BY <1>2 DEF Bounded
  <1>5. Xv2Wrote(o, x, w)
    <2>1. x \in WriteFlashXv2(o, w)
      BY Zenon DEF WriteFlash
    <2> QED BY <1>3, <1>4, <2>1, Xv2Writes
  <1>6. \A c \in a .. a + size - 1 : c \in Mapped /\ IsFlash(c) /\ c \in f .. e
    BY <1>4, BlockBytes DEF f, e
  <1>7. CASE x = [o EXCEPT !.mem = Programmed(o.mem, FALSE, w, DOMAIN w), !.locka = TRUE]
    <2> DEFINE lock == FALSE
               all  == DOMAIN w
               m    == Programmed(o.mem, lock, w, all)
    <2>0. lock \in BOOLEAN /\ ~lock /\ all = DOMAIN w
      OBVIOUS
    <2>a. x = [o EXCEPT !.mem = m, !.locka = TRUE]
      BY <1>7, Zenon
    <2> HIDE DEF lock, all
    <2>1. m \in Memory /\ \A c \in Mapped :
             /\ m[c] = o.mem[c] \/ (c \in DOMAIN w /\ m[c] = o.mem[c] \cap w[c])
             /\ c \in DOMAIN w => m[c] = o.mem[c] \cap w[c]
      BY <1>1, <2>0, ProgrammedFacts
    <2> HIDE DEF m
    <2>2. x = [mem |-> m, locka |-> TRUE, ok |-> o.ok, late |-> o.late]
      BY <1>1, <2>a
    <2>3. x \in Outcome /\ x.mem = m /\ x.locka = TRUE /\ x.ok = o.ok /\ x.late = o.late
      BY <1>0, <1>1, <2>1, <2>2 DEF Outcome
    <2>4. \A c \in Mapped : c \notin a .. a + size - 1 => m[c] = o.mem[c]
      BY <1>3, <2>1
    <2>5. ASSUME NEW c \in a .. a + size - 1
          PROVE  PutRight(c, o.mem[c], data[c - from + 1], m[c], o.late)
      <3>1. m[c] = o.mem[c] \cap data[c - from + 1] /\ IsFlash(c)
        BY <1>3, <1>6, <2>1
      <3> QED BY <3>1, Zenon DEF PutRight
    <2> QED BY <2>3, <2>4, <2>5, Zenon DEF Puts
  <1>8. CASE \E v \in {w, Early(w)} : \E bytes : \E l \in BOOLEAN :
          x = [o EXCEPT !.mem = Programmed(o.mem, FALSE, v, bytes), !.locka = l, !.late = TRUE]
    <2>0. PICK v \in {w, Early(w)} : \E bytes : \E l \in BOOLEAN :
          x = [o EXCEPT !.mem = Programmed(o.mem, FALSE, v, bytes), !.locka = l, !.late = TRUE]
      BY <1>8, Zenon
    <2>a. PICK bytes : \E l \in BOOLEAN :
          x = [o EXCEPT !.mem = Programmed(o.mem, FALSE, v, bytes), !.locka = l, !.late = TRUE]
      BY <2>0, Zenon
    <2>1. PICK l \in BOOLEAN :
          x = [o EXCEPT !.mem = Programmed(o.mem, FALSE, v, bytes), !.locka = l, !.late = TRUE]
      BY <2>a, Zenon
    <2> DEFINE m == Programmed(o.mem, FALSE, v, bytes)
    <2>2. m \in Memory /\ \A c \in Mapped :
             /\ m[c] \subseteq o.mem[c]
             /\ m[c] = o.mem[c] \/ (c \in DOMAIN v /\ m[c] = o.mem[c] \cap v[c])
      BY <1>1, ProgrammedFacts
    <2> HIDE DEF m
    <2>3. x = [mem |-> m, locka |-> l, ok |-> o.ok, late |-> TRUE]
      BY <1>1, <2>1 DEF m
    <2>4. x \in Outcome /\ x.mem = m /\ x.ok = o.ok /\ x.late = TRUE
      <3>1. m \in Memory /\ l \in BOOLEAN
        BY <2>1, <2>2
      <3> QED BY <1>0, <1>1, <2>3, <3>1 DEF Outcome
    <2>5. ASSUME NEW c \in Mapped, c \notin a .. a + size - 1 PROVE m[c] = o.mem[c]
      <3>1. CASE v = w
        BY <1>3, <2>2, <2>5, <3>1
      <3>2. CASE v = Early(w)
        <4>1. c \in DOMAIN v => c \in f .. e /\ c + 2 \in f .. e
          BY <1>3, <3>2 DEF Early
        <4>2. c \notin DOMAIN v
          BY <1>4, <2>5, <4>1
        <4> QED BY <2>2, <4>2
      <3> QED BY <2>0, <3>1, <3>2
    <2>6. ASSUME NEW c \in a .. a + size - 1
          PROVE  PutRight(c, o.mem[c], data[c - from + 1], m[c], TRUE)
      <3>1. m[c] \subseteq o.mem[c] /\ IsFlash(c)
        BY <1>6, <2>2
      <3> QED BY <3>1, Zenon DEF PutRight
    <2> QED BY <2>4, <2>5, <2>6, Zenon DEF Puts
  <1> QED BY <1>5, <1>7, <1>8, Zenon DEF Xv2Wrote

\* A block of a write that goes on.
LEMMA BlockPuts ==
    ASSUME NEW from, NEW data, NEW a, NEW size, Starts(from, data, a, size),
           NEW o \in Outcome, o.ok, NEW x, x \in WriteBlock(o, <<a, size>>, from, data)
    PROVE  Puts(o, x, from, data, a, size)
  <1> DEFINE b == <<a, size>>
             w == WordsOf(o, b, from, data)
  <1>1. b[1] = a /\ a \in Mapped
    BY DEF Starts
  <1>2. Worded(o, from, data, a, size, w)
    BY WordsFacts
  <1>3. x \in WriteBlock(o, b, from, data)
    OBVIOUS
  <1> HIDE DEF b
  <1>4. x \in IF IsFlash(a) THEN WriteFlash(o, w) ELSE {[o EXCEPT !.mem = Stores(@, w)]}
    BY <1>1, <1>3, Zenon DEF WriteBlock
  <1> HIDE DEF w
  <1>5. CASE IsFlash(a) /\ IsXv2Part
    BY <1>2, <1>4, <1>5, Xv2Puts
  <1>6. CASE IsFlash(a) /\ ~IsXv2Part
    BY <1>2, <1>4, <1>6, LegacyPuts
  <1>7. CASE ~IsFlash(a)
    BY <1>2, <1>4, <1>7, RamPuts
  <1> QED BY <1>5, <1>6, <1>7

\* What a block may do to the write.
Goes(o, x, from, data, a, size) ==
    /\ x \in Outcome
    /\ \/ ~o.ok /\ x = o
       \/ o.ok /\ a \notin Mapped /\ x = [o EXCEPT !.ok = FALSE]
       \/ o.ok /\ Starts(from, data, a, size) /\ Puts(o, x, from, data, a, size)

LEMMA BlockGoes ==
    ASSUME NEW from \in Int, NEW data \in Seq(Byte), NEW a, NEW size,
           a \in from .. from + Len(data) - 1, a = from \/ a % 2 = 0,
           BlockFits(a, from + Len(data) - a, size),
           NEW o \in Outcome, NEW x, x \in WriteBlock(o, <<a, size>>, from, data)
    PROVE  Goes(o, x, from, data, a, size)
  <1> DEFINE b == <<a, size>>
  <1>1. b[1] = a /\ x \in WriteBlock(o, b, from, data)
    OBVIOUS
  <1> HIDE DEF b
  <1>2. CASE ~o.ok
    <2>1. x = o
      BY <1>1, <1>2 DEF WriteBlock
    <2> QED BY <1>2, <2>1, Zenon DEF Goes
  <1>3. CASE o.ok /\ a \notin Mapped
    <2>1. x = [o EXCEPT !.ok = FALSE]
      BY <1>1, <1>3 DEF WriteBlock
    <2>2. x \in Outcome
      BY <2>1 DEF Outcome
    <2> QED BY <1>3, <2>1, <2>2, Zenon DEF Goes
  <1>4. CASE o.ok /\ a \in Mapped
    <2>1. Starts(from, data, a, size)
      BY <1>4, Zenon DEF Starts
    <2>2. Puts(o, x, from, data, a, size)
      BY <1>4, <2>1, BlockPuts
    <2> QED BY <1>4, <2>1, <2>2, Zenon DEF Goes, Puts
  <1> QED BY <1>2, <1>3, <1>4

\* F[n] is what the first n blocks may come to.
Writings(from, data, B, F) ==
    /\ F[0] = {NotYet}
    /\ \A n \in 1 .. Len(B) : F[n] = UNION {WriteBlock(o, B[n], from, data) : o \in F[n - 1]}

LEMMA WritePasses ==
    ASSUME TypeOK, NEW from \in Int, NEW data \in Seq(Byte), NEW P,
           Chain(from, Len(data), Blocks(from, Len(data)), P)
    PROVE  \E F : /\ Writings(from, data, Blocks(from, Len(data)), F)
                  /\ WriteMem(from, data) = F[Len(Blocks(from, Len(data)))]
  <1> DEFINE B == Blocks(from, Len(data))
             N == Len(B)
             A == SUBSET Outcome
             step(n, x) == UNION {WriteBlock(o, B[n], from, data) : o \in x}
             g == [n \in 1 .. N |-> [x \in A |-> step(n, x)]]
             Eqn(R) == R = [n \in 0 .. N |-> IF n = 0 THEN {NotYet} ELSE step(n, R[n - 1])]
             After == CHOOSE R : Eqn(R)
  <1>0. N \in Nat
    BY DEF Chain
  <1>m. WriteMem(from, data) = After[N]
    BY Zenon DEF WriteMem
  <1> HIDE DEF B
  <1>c. Chain(from, Len(data), B, P)
    BY DEF B
  <1>1. ASSUME NEW n \in 1 .. N, NEW x \in A PROVE step(n, x) \in A
    <2> SUFFICES ASSUME NEW o \in x, NEW y, y \in WriteBlock(o, B[n], from, data) PROVE y \in Outcome
      BY Zenon
    <2> DEFINE a == P[n]
               size == B[n][2]
    <2>1. Len(data) \in Nat
      OBVIOUS
    <2>2. /\ B[n] = <<P[n], P[n + 1] - P[n]>> /\ B[n][1] = P[n] /\ B[n][2] = P[n + 1] - P[n]
          /\ P[n] \in from .. from + Len(data) - 1 /\ (P[n] = from \/ P[n] % 2 = 0)
          /\ BlockFits(P[n], from + Len(data) - P[n], B[n][2])
      BY <1>c, <2>1, ChainBlocks
    <2>3. /\ B[n] = <<a, size>>
          /\ a \in from .. from + Len(data) - 1 /\ (a = from \/ a % 2 = 0)
          /\ BlockFits(a, from + Len(data) - a, size)
      BY <2>2, Zenon
    <2> HIDE DEF a, size
    <2>4. y \in WriteBlock(o, <<a, size>>, from, data) /\ o \in Outcome
      BY <2>3, Zenon
    <2>5. Goes(o, y, from, data, a, size)
      BY <2>3, <2>4, BlockGoes
    <2> QED BY <2>5, Zenon DEF Goes
  <1>2. g \in [1 .. N -> [A -> A]]
    <2> HIDE DEF step, A, N
    <2> QED BY <1>1
  <1>3. HasIteration(N, A, {NotYet}, g)
    <2>1. {NotYet} \in A
      BY NotYetFacts
    <2> HIDE DEF g, A, N
    <2> QED BY <1>0, <1>2, <2>1, IterationExists
  <1>4. PICK f \in [0 .. N -> A] : f = [n \in 0 .. N |-> IF n = 0 THEN {NotYet} ELSE g[n][f[n - 1]]]
    BY <1>3 DEF HasIteration
  <1>5. \A n \in 0 .. N : n # 0 => n \in 1 .. N /\ n - 1 \in 0 .. N
    BY <1>0
  <1>6. Eqn(f)
    <2>1. ASSUME NEW n \in 0 .. N
          PROVE  f[n] = IF n = 0 THEN {NotYet} ELSE step(n, f[n - 1])
      <3>1. n # 0 => g[n][f[n - 1]] = step(n, f[n - 1])
        <4> SUFFICES ASSUME n # 0 PROVE g[n][f[n - 1]] = step(n, f[n - 1])
          OBVIOUS
        <4>1. f[n - 1] \in A /\ n \in 1 .. N
          <5> HIDE DEF A, N
          <5> QED BY <1>5
        <4> HIDE DEF step, A, N
        <4> QED BY <4>1
      <3>2. f[n] = IF n = 0 THEN {NotYet} ELSE g[n][f[n - 1]]
        <4> HIDE DEF g, N, A
        <4> QED BY <1>4
      <3> HIDE DEF step, g
      <3> QED BY <3>1, <3>2
    <2>2. f = [n \in 0 .. N |-> f[n]]
      <3> HIDE DEF A, N
      <3> QED OBVIOUS
    <2> HIDE DEF step, N
    <2> QED BY <2>1, <2>2
  <1>7. Eqn(After)
    <2> HIDE DEF Eqn
    <2> QED BY <1>6
  <1>8. Writings(from, data, B, After)
    <2>1. 0 \in 0 .. N /\ \A n \in 1 .. N : n \in 0 .. N /\ n # 0
      BY <1>0
    <2>2. \A n \in 0 .. N : After[n] = IF n = 0 THEN {NotYet} ELSE step(n, After[n - 1])
      <3> HIDE DEF After, N, step
      <3> QED BY <1>7, Zenon
    <2> HIDE DEF After
    <2> QED BY <2>1, <2>2, Zenon DEF Writings
  <1> HIDE DEF After
  <1> QED BY <1>8, <1>m, Zenon DEF B

\* The bytes that a write from here has reached when it is at p.
Along(from, p) == {c \in from .. p - 1 : from .. c \subseteq Mapped}

\* LOCKA is as it was, or the Xv2 driver's program was cut off, or has set it.
LockKept(o) == o.locka = locka \/ (IsXv2Part /\ (o.late \/ o.locka))

\* Where a write from here is when it is at p: the invariant of WriteMem's loop.
WrittenTo(o, from, data, p) ==
    /\ o \in Outcome /\ LockKept(o)
    /\ o.ok <=> from .. p - 1 \subseteq Mapped
    /\ \A c \in Mapped : c \notin Along(from, p) => o.mem[c] = mem[c]
    /\ AsReset => \A c \in Along(from, p) :
                     PutRight(c, mem[c], data[c - from + 1], o.mem[c], o.late)

LEMMA AlongStays ==
    ASSUME NEW from \in Int, NEW p \in Int, NEW q \in Int, from <= p, p <= q,
           ~(from .. p - 1 \subseteq Mapped) \/ (p < q /\ p \notin Mapped)
    PROVE  Along(from, q) = Along(from, p) /\ ~(from .. q - 1 \subseteq Mapped)
  <1>1. ASSUME NEW c \in p .. q - 1 PROVE ~(from .. c \subseteq Mapped)
    <2>1. CASE ~(from .. p - 1 \subseteq Mapped)
      <3>1. from .. p - 1 \subseteq from .. c
        OBVIOUS
      <3> QED BY <2>1, <3>1
    <2>2. CASE p \notin Mapped
      <3>1. p \in from .. c
        OBVIOUS
      <3> QED BY <2>2, <3>1
    <2> QED BY <2>1, <2>2
  <1>2. \A c \in from .. q - 1 : c \in from .. p - 1 \/ c \in p .. q - 1
    OBVIOUS
  <1>3. from .. p - 1 \subseteq from .. q - 1
    OBVIOUS
  <1>4. Along(from, q) = Along(from, p)
    BY <1>1, <1>2, <1>3 DEF Along
  <1>5. ~(from .. q - 1 \subseteq Mapped)
    <2>1. CASE p < q
      <3>1. q - 1 \in p .. q - 1
        BY <2>1
      <3> QED BY <1>1, <3>1
    <2>2. CASE ~(p < q)
      <3>1. p = q
        BY <2>2
      <3> QED BY <2>2, <3>1
    <2> QED BY <2>1, <2>2
  <1> QED BY <1>4, <1>5

LEMMA AlongGrows ==
    ASSUME NEW from \in Int, NEW p \in Int, NEW q \in Int, from <= p, p <= q,
           from .. p - 1 \subseteq Mapped, p .. q - 1 \subseteq Mapped
    PROVE  /\ Along(from, q) = Along(from, p) \cup (p .. q - 1)
           /\ Along(from, p) \cap (p .. q - 1) = {}
           /\ from .. q - 1 \subseteq Mapped
  <1>1. \A c \in from .. q - 1 : c \in from .. p - 1 \/ c \in p .. q - 1
    OBVIOUS
  <1>2. from .. q - 1 \subseteq Mapped
    BY <1>1
  <1>3. \A c \in from .. q - 1 : from .. c \subseteq from .. q - 1
    OBVIOUS
  <1>4. Along(from, q) = from .. q - 1
    BY <1>2, <1>3 DEF Along
  <1>5. \A c \in from .. p - 1 : from .. c \subseteq from .. p - 1
    OBVIOUS
  <1>6. Along(from, p) = from .. p - 1
    BY <1>5 DEF Along
  <1>7. from .. q - 1 = (from .. p - 1) \cup (p .. q - 1) /\ (from .. p - 1) \cap (p .. q - 1) = {}
    OBVIOUS
  <1> QED BY <1>2, <1>4, <1>6, <1>7

LEMMA WriteStep ==
    ASSUME TypeOK, NEW from \in Int, NEW data \in Seq(Byte), NEW a \in Int, NEW size,
           a \in from .. from + Len(data) - 1, a = from \/ a % 2 = 0,
           BlockFits(a, from + Len(data) - a, size),
           NEW o, WrittenTo(o, from, data, a),
           NEW x, x \in WriteBlock(o, <<a, size>>, from, data)
    PROVE  WrittenTo(x, from, data, a + size)
  <1> DEFINE q == a + size
  <1>1. /\ o \in Outcome /\ LockKept(o)
        /\ o.ok <=> from .. a - 1 \subseteq Mapped
        /\ \A c \in Mapped : c \notin Along(from, a) => o.mem[c] = mem[c]
        /\ AsReset => \A c \in Along(from, a) :
                         PutRight(c, mem[c], data[c - from + 1], o.mem[c], o.late)
    BY DEF WrittenTo
  <1>2. Goes(o, x, from, data, a, size)
    BY <1>1, BlockGoes
  <1>3. q \in Int /\ from <= a /\ a < q /\ a <= q
    BY DEF BlockFits
  <1>b. a .. q - 1 = a .. a + size - 1
    BY DEF BlockFits
  <1> HIDE DEF q
  <1>4. CASE ~o.ok /\ x = o
    <2>1. Along(from, q) = Along(from, a) /\ ~(from .. q - 1 \subseteq Mapped)
      BY <1>1, <1>3, <1>4, AlongStays
    <2>2. WrittenTo(x, from, data, q)
      BY <1>1, <1>4, <2>1, Zenon DEF WrittenTo
    <2> QED BY <2>2 DEF q
  <1>5. CASE o.ok /\ a \notin Mapped /\ x = [o EXCEPT !.ok = FALSE]
    <2>1. Along(from, q) = Along(from, a) /\ ~(from .. q - 1 \subseteq Mapped)
      BY <1>1, <1>3, <1>5, AlongStays
    <2>2. x \in Outcome /\ x.ok = FALSE /\ x.mem = o.mem /\ x.locka = o.locka /\ x.late = o.late
      BY <1>1, <1>5 DEF Outcome
    <2>3. WrittenTo(x, from, data, q)
      BY <1>1, <2>1, <2>2, Zenon DEF WrittenTo, LockKept
    <2> QED BY <2>3 DEF q
  <1>6. CASE o.ok /\ Starts(from, data, a, size) /\ Puts(o, x, from, data, a, size)
    <2>1. a .. q - 1 \subseteq Mapped
      <3>1. a .. a + size - 1 \subseteq RegionBytes(RegionAt(a)) /\ a \in Mapped
        BY <1>6 DEF Starts, BlockFits
      <3>2. RegionBytes(RegionAt(a)) \subseteq Mapped
        BY <3>1, RegionAtFacts, RegionType
      <3> QED BY <1>b, <3>1, <3>2, Zenon
    <2>2. /\ Along(from, q) = Along(from, a) \cup (a .. q - 1)
          /\ Along(from, a) \cap (a .. q - 1) = {}
          /\ from .. q - 1 \subseteq Mapped
      <3>1. from .. a - 1 \subseteq Mapped
        BY <1>1, <1>6, Zenon
      <3> QED BY <1>3, <2>1, <3>1, AlongGrows
    <2>3. /\ x \in Outcome /\ x.ok = o.ok /\ (o.late => x.late)
          /\ x.locka = o.locka \/ (IsXv2Part /\ (x.late \/ x.locka))
          /\ \A c \in Mapped : c \notin a .. q - 1 => x.mem[c] = o.mem[c]
          /\ (IsXv2Part \/ o.locka = HasLocka) =>
                \A c \in a .. q - 1 :
                   PutRight(c, o.mem[c], data[c - from + 1], x.mem[c], x.late)
      BY <1>6, <1>b, Zenon DEF Puts
    <2>4. LockKept(x)
      BY <1>1, <2>3, Zenon DEF LockKept
    <2>5. \A c \in Mapped : c \notin Along(from, q) => x.mem[c] = mem[c]
      <3> HIDE DEF Along
      <3> QED BY <1>1, <2>2, <2>3
    <2>6. ASSUME AsReset, NEW c \in Along(from, q)
          PROVE  PutRight(c, mem[c], data[c - from + 1], x.mem[c], x.late)
      <3>0. c \in Mapped
        <4>1. c \in from .. c /\ from .. c \subseteq Mapped
          BY <2>6 DEF Along
        <4> QED BY <4>1
      <3>1. CASE c \in Along(from, a)
        <4>1. PutRight(c, mem[c], data[c - from + 1], o.mem[c], o.late)
          BY <1>1, <2>6, <3>1, Zenon
        <4>2. x.mem[c] = o.mem[c]
          BY <2>2, <2>3, <3>0, <3>1, Zenon
        <4> QED BY <2>3, <4>1, <4>2, Zenon DEF PutRight
      <3>2. CASE c \in a .. q - 1
        <4>1. o.mem[c] = mem[c]
          BY <1>1, <2>2, <3>0, <3>2, Zenon
        <4>2. IsXv2Part \/ o.locka = HasLocka
          BY <1>1, <2>6, Zenon DEF LockKept, AsReset
        <4>3. PutRight(c, o.mem[c], data[c - from + 1], x.mem[c], x.late)
          BY <2>3, <3>2, <4>2, Zenon
        <4> QED BY <4>1, <4>3, Zenon
      <3> QED BY <2>2, <2>6, <3>1, <3>2, Zenon
    <2>7. WrittenTo(x, from, data, q)
      BY <1>6, <2>2, <2>3, <2>4, <2>5, <2>6, Zenon DEF WrittenTo
    <2> QED BY <2>7 DEF q
  <1> QED BY <1>2, <1>4, <1>5, <1>6, Zenon DEF Goes

\* What a write leaves, when all its blocks are done.
LEMMA WriteEnds ==
    ASSUME TypeOK, NEW from \in Int, NEW data \in Seq(Byte),
           NEW x, x \in WriteMem(from, data)
    PROVE  WrittenTo(x, from, data, from + Len(data))
  <1> DEFINE len == Len(data)
             B == Blocks(from, len)
  <1>0. len \in Nat
    OBVIOUS
  <1>1. PICK P : Chain(from, len, B, P)
    BY <1>0, BlocksChain
  <1>2. PICK F : Writings(from, data, B, F) /\ WriteMem(from, data) = F[Len(B)]
    BY <1>1, WritePasses
  <1> HIDE DEF B
  <1> DEFINE T == {n \in Nat : \A o \in F[n] : WrittenTo(o, from, data, P[n + 1])}
  <1>3. Len(B) \in Nat /\ P[1] = from /\ P[Len(B) + 1] = from + len
    BY <1>1 DEF Chain
  <1>4. 0 \in T
    <2>1. WrittenTo(NotYet, from, data, from)
      <3>1. from .. from - 1 = {}
        OBVIOUS
      <3>2. Along(from, from) = {}
        BY <3>1 DEF Along
      <3>3. LockKept(NotYet)
        BY NotYetFacts DEF LockKept
      <3> QED BY <3>1, <3>2, <3>3, NotYetFacts DEF WrittenTo
    <2>2. P[0 + 1] = from /\ F[0] = {NotYet}
      BY <1>2, <1>3 DEF Writings
    <2>3. \A o \in F[0] : WrittenTo(o, from, data, P[0 + 1])
      BY <2>1, <2>2
    <2> QED BY <2>3
  <1>5. ASSUME NEW n \in 1 .. Len(B), n - 1 \in T
        PROVE  n \in T
    <2> SUFFICES ASSUME NEW y \in F[n] PROVE WrittenTo(y, from, data, P[n + 1])
      OBVIOUS
    <2> DEFINE a == P[n]
               size == B[n][2]
    <2>1. PICK o \in F[n - 1] : y \in WriteBlock(o, B[n], from, data)
      <3>1. F[n] = UNION {WriteBlock(o, B[n], from, data) : o \in F[n - 1]}
        BY <1>2, Zenon DEF Writings
      <3> QED BY <3>1, Zenon
    <2>2. WrittenTo(o, from, data, a)
      <3>1. (n - 1) + 1 = n
        OBVIOUS
      <3> QED BY <1>5, <3>1
    <2>3. /\ P[n] \in Int /\ P[n + 1] \in Int /\ B[n][1] = P[n] /\ B[n][2] = P[n + 1] - P[n]
          /\ B[n] = <<P[n], P[n + 1] - P[n]>>
          /\ P[n] \in from .. from + len - 1 /\ (P[n] = from \/ P[n] % 2 = 0)
          /\ BlockFits(P[n], from + len - P[n], B[n][2])
      BY <1>0, <1>1, ChainBlocks, SMTT(30)
    <2>4. P[n + 1] = a + size
      BY <2>3
    <2>5. /\ a \in Int /\ B[n] = <<a, size>>
          /\ a \in from .. from + len - 1 /\ (a = from \/ a % 2 = 0)
          /\ BlockFits(a, from + len - a, size)
      BY <2>3, Zenon
    <2> HIDE DEF a, size
    <2>6. y \in WriteBlock(o, <<a, size>>, from, data)
      BY <2>1, <2>5, Zenon
    <2>7. WrittenTo(y, from, data, a + size)
      BY <2>2, <2>5, <2>6, WriteStep
    <2> QED BY <2>4, <2>7, Zenon
  <1>6. Len(B) \in T
    <2> HIDE DEF T
    <2>1. Climbs(Len(B), T)
      BY <1>4, <1>5 DEF Climbs
    <2>2. 0 .. Len(B) \subseteq T
      BY <1>3, <2>1, UpTo, Zenon
    <2> QED BY <1>3, <2>2
  <1> QED BY <1>2, <1>3, <1>6

LEMMA WriteIsExact ==
    ASSUME TypeOK
    PROVE  WritesExactly
  <1> SUFFICES ASSUME AsReset, NEW from \in Address, NEW data \in Data,
                      NEW x, x \in WriteMem(from, data)
               PROVE  LET reached == Reached(from, Len(data))
                      IN  /\ x.ok <=> Cardinality(reached) = Len(data)
                          /\ \A c \in Mapped :
                                LET new == IF c \in reached THEN Stored(c, data[c - from + 1])
                                                            ELSE mem[c]
                                IN  \/ x.mem[c] = new
                                    \/ x.late /\ c \in FlashBytes \cap reached
                                       /\ x.mem[c] \subseteq mem[c]
    BY Zenon DEF WritesExactly
  <1> DEFINE len == Len(data)
             reached == Reached(from, len)
  <1>1. from \in Int /\ data \in Seq(Byte) /\ len \in Nat
    BY BoundsAssumption DEF Address, Data
  <1>2. WrittenTo(x, from, data, from + len)
    BY <1>1, WriteEnds
  <1>a. from .. (from + len) - 1 = from .. from + len - 1
    BY <1>1
  <1>3. reached = Along(from, from + len)
    BY <1>a, Zenon DEF Reached, Along
  <1>4. x.ok <=> Cardinality(reached) = len
    <2> DEFINE all == from .. from + len - 1
    <2>1. IsFiniteSet(all) /\ Cardinality(all) = len
      <3>1. from + len - 1 \in Int
        BY <1>1
      <3>2. IsFiniteSet(all) /\ Cardinality(all) =
               IF from > from + len - 1 THEN 0 ELSE (from + len - 1) - from + 1
        BY <1>1, <3>1, FS_Interval, Zenon
      <3> QED BY <1>1, <3>2
    <2>2. reached \subseteq all
      BY DEF Reached
    <2>3. Cardinality(reached) = Cardinality(all) => reached = all
      BY <2>1, <2>2, FS_Subset, Zenon
    <2>4. reached = all => all \subseteq Mapped
      <3>1. \A c \in all : c \in from .. c
        BY <1>1
      <3> QED BY <3>1 DEF Reached
    <2>5. all \subseteq Mapped => reached = all
      <3>1. \A c \in all : from .. c \subseteq all
        BY <1>1
      <3> QED BY <3>1 DEF Reached
    <2>6. x.ok <=> all \subseteq Mapped
      BY <1>2, <1>a, Zenon DEF WrittenTo
    <2> HIDE DEF all, reached
    <2> QED BY <2>1, <2>3, <2>4, <2>5, <2>6
  <1>5. ASSUME NEW c \in Mapped, c \notin reached PROVE x.mem[c] = mem[c]
    BY <1>2, <1>3, <1>5, Zenon DEF WrittenTo
  <1>6. ASSUME NEW c \in Mapped, c \in reached
        PROVE  \/ x.mem[c] = Stored(c, data[c - from + 1])
               \/ x.late /\ c \in FlashBytes \cap reached /\ x.mem[c] \subseteq mem[c]
    <2>1. PutRight(c, mem[c], data[c - from + 1], x.mem[c], x.late)
      BY <1>2, <1>3, <1>6, Zenon DEF WrittenTo
    <2>2. IsFlash(c) => c \in FlashBytes
      BY Zenon DEF FlashBytes
    <2> QED BY <1>6, <2>1, <2>2, Zenon DEF PutRight, Stored
  <1> HIDE DEF reached
  <1> QED BY <1>4, <1>5, <1>6, Zenon DEF reached

-----------------------------------------------------------------------------
(* Every outcome *)

\* What holds of every answer: the memory's type, and, when LOCKA was 1, the
\* protected segment and the bit itself.
Held(x) == x \in Outcome /\ (locka => Protected(x))

LEMMA HeldErase ==
    ASSUME TypeOK, NEW a, NEW mode \in Mode, NEW x, x \in EraseFlash(NotYet, a, mode, FALSE)
    PROVE  Held(x)
  <1>1. NotYet \in Outcome /\ NotYet.ok /\ (locka => Protected(NotYet))
    BY NotYetFacts
  <1> DEFINE o == NotYet
  <1> HIDE DEF o
  <1>2. o \in Outcome /\ o.ok /\ (locka => Protected(o)) /\ x \in EraseFlash(o, a, mode, FALSE)
    BY <1>1 DEF o
  <1>3. x \in Outcome
    <2>1. PICK lock : ErasedBy(o, x, a, mode, FALSE, lock)
      BY <1>2, EraseErases
    <2> QED BY <2>1, Zenon DEF ErasedBy
  <1>4. locka => Protected(x)
    BY <1>2, ProtectedErase
  <1> QED BY <1>3, <1>4 DEF Held

LEMMA SegmentsType ==
    ASSUME NEW S \in SUBSET Outcome, NEW addrs \in Seq(Int),
           NEW x, x \in EraseSegments(S, addrs)
    PROVE  x \in Outcome
  <1>1. PICK F : Passes(S, addrs, F) /\ EraseSegments(S, addrs) = F[Len(addrs)]
    BY SegmentPasses
  <1> DEFINE T == {n \in Nat : \A o \in F[n] : o \in Outcome}
  <1>2. 0 \in T
    BY <1>1 DEF Passes
  <1>3. ASSUME NEW n \in 1 .. Len(addrs), n - 1 \in T
        PROVE  n \in T
    <2> SUFFICES ASSUME NEW y \in F[n] PROVE y \in Outcome
      OBVIOUS
    <2>1. PICK o \in F[n - 1] : y \in EraseNext(o, addrs[n])
      BY <1>1 DEF Passes
    <2> QED BY <1>3, <2>1, EraseNextType
  <1>4. Len(addrs) \in T
    <2>1. Len(addrs) \in Nat
      OBVIOUS
    <2> HIDE DEF T
    <2>2. Climbs(Len(addrs), T)
      BY <1>2, <1>3 DEF Climbs
    <2>3. 0 .. Len(addrs) \subseteq T
      BY <2>1, <2>2, UpTo, Zenon
    <2> QED BY <2>1, <2>3
  <1> QED BY <1>1, <1>4

LEMMA HeldSegments ==
    ASSUME NEW S, \A o \in S : Held(o), NEW addrs \in Seq(Int),
           NEW x, x \in EraseSegments(S, addrs)
    PROVE  Held(x)
  <1>1. x \in Outcome
    <2>1. S \in SUBSET Outcome
      BY DEF Held
    <2> QED BY <2>1, SegmentsType
  <1>2. ASSUME locka PROVE Protected(x)
    <2>1. \A o \in S : Protected(o)
      BY <1>2, Zenon DEF Held
    <2> QED BY <2>1, ProtectedSegments
  <1> QED BY <1>1, <1>2 DEF Held

LEMMA HeldRefused ==
    ASSUME TypeOK
    PROVE  Held(NotYet) /\ \A x \in Refused : Held(x) /\ ~x.ok
  <1>1. /\ NotYet \in Outcome /\ NotYet.mem = mem /\ NotYet.locka = locka
        /\ locka => Protected(NotYet)
    BY NotYetFacts
  <1>2. Held(NotYet)
    BY <1>1, Zenon DEF Held
  <1>3. ASSUME NEW x \in Refused PROVE Held(x) /\ ~x.ok
    <2>1. x = [NotYet EXCEPT !.ok = FALSE]
      BY Zenon DEF Refused
    <2>2. x \in Outcome /\ x.mem = mem /\ x.locka = locka /\ x.ok = FALSE
      BY <1>1, <2>1 DEF Outcome
    <2> QED BY <2>2, Zenon DEF Held, Protected
  <1> QED BY <1>2, <1>3

LEMMA HeldMain ==
    ASSUME TypeOK, NEW x, x \in EraseMain
    PROVE  Held(x) /\ (x.ok => \A a \in MainBytes : x.mem[a] = Erased)
  <1> DEFINE start == RegionOf("main").start
             o == NotYet
  <1>1. x \in EraseFlash(o, start, "main", FALSE) /\ "main" \in Mode /\ o \in Outcome
    BY NotYetFacts DEF EraseMain, Mode
  <1>2. Held(x)
    BY <1>1, HeldErase
  <1> HIDE DEF o, start
  <1>3. PICK lock : ErasedBy(o, x, start, "main", FALSE, lock)
    BY <1>1, EraseErases
  <1>4. x.ok => x.mem = ErasedIn(o.mem, MainBytes)
    BY <1>3, ClearsMain DEF ErasedBy
  <1>5. x.ok => \A a \in MainBytes : x.mem[a] = Erased
    BY <1>4, MainAndInfo DEF ErasedIn
  <1> QED BY <1>2, <1>5

LEMMA HeldAll ==
    ASSUME TypeOK, NEW x, x \in EraseAll
    PROVE  Held(x)
  <1> DEFINE info == RegionOf("info")
             mass == EraseFlash(NotYet, RegionOf("main").start, "mass", FALSE)
             addrs == SegmentsFrom(info.start, InfoBanks, info.segsize)
  <1>1. \A o \in mass : Held(o)
    <2>1. "mass" \in Mode
      BY DEF Mode
    <2> QED BY <2>1, HeldErase
  <1>2. x \in mass \/ x \in EraseSegments(mass, addrs)
    BY Zenon DEF EraseAll
  <1>3. addrs \in Seq(Int)
    <2>1. info \in Regions
      BY RegionOfFacts
    <2>2. info.start \in Int /\ info.segsize \in Int /\ Segs(info) \in Nat \ {0}
      BY <2>1, RegionType, SegsFacts
    <2>3. InfoBanks = Segs(info) - TlvClash
      BY Zenon DEF InfoBanks, Segs
    <2>4. TlvClash \in {0, 1}
      BY DEF TlvClash
    <2>5. InfoBanks \in Int /\ InfoBanks >= 0
      BY <2>2, <2>3, <2>4
    <2> HIDE DEF info
    <2> QED BY <2>2, <2>5, SegmentsFromFacts, Zenon
  <1> HIDE DEF mass, addrs
  <1> QED BY <1>1, <1>2, <1>3, HeldSegments

LEMMA HeldInfoA ==
    ASSUME TypeOK, NEW x, x \in EraseInfoA
    PROVE  /\ x \in Outcome
           /\ locka /\ x.ok => \A a \in InfoA : x.mem[a] = Erased
           /\ locka /\ ~x.late => x.locka
  <1> DEFINE o == NotYet
  <1>1. CASE HasLocka
    <2>1. x \in EraseFlash(o, InfoAStart, "segment", TRUE) /\ o \in Outcome /\ o.locka = locka
      BY <1>1, NotYetFacts DEF EraseInfoA
    <2> HIDE DEF o
    <2>2. PICK lock : ErasedBy(o, x, InfoAStart, "segment", TRUE, lock)
      BY <2>1, EraseErases
    <2>3. /\ x \in Outcome /\ (locka => lock = FALSE)
          /\ locka /\ ~x.late => x.locka
          /\ x.ok => x.mem = ErasedIn(o.mem, Clears("segment", InfoAStart, lock))
      BY <2>1, <2>2 DEF ErasedBy
    <2>4. ASSUME locka, x.ok, NEW a \in InfoA PROVE x.mem[a] = Erased
      <3>1. Clears("segment", InfoAStart, lock) = InfoA
        BY <2>3, <2>4, ClearsSegment DEF InfoA
      <3>2. a \in Mapped
        BY InfoAIs, MainAndInfo
      <3>3. x.mem = ErasedIn(o.mem, InfoA)
        BY <2>3, <2>4, <3>1
      <3> QED BY <3>2, <3>3 DEF ErasedIn
    <2> QED BY <2>3, <2>4
  <1>2. CASE ~HasLocka
    <2>1. x \in Refused
      BY <1>2, Zenon DEF EraseInfoA
    <2> QED BY <2>1, HeldRefused DEF Held, Protected
  <1> QED BY <1>1, <1>2

LEMMA HeldSegment ==
    ASSUME TypeOK, NEW a, NEW x, x \in EraseSegment(a)
    PROVE  Held(x)
  <1>1. "segment" \in Mode
    BY DEF Mode
  <1>2. x \in Refused \/ x = NotYet \/ x \in EraseFlash(NotYet, a, "segment", FALSE)
    BY Zenon DEF EraseSegment
  <1> QED BY <1>1, <1>2, HeldRefused, HeldErase

LEMMA HeldRange ==
    ASSUME TypeOK, NEW a \in Address, NEW size, NEW x, x \in EraseRange(a, size)
    PROVE  Held(x)
  <1> DEFINE r == RegionAt(a)
             n == (r.start + r.size - a + r.segsize - 1) \div r.segsize
             addrs == SegmentsFrom(a, n, r.segsize)
  <1>1. x \in Refused \/ x = NotYet \/ (a \in Mapped /\ x \in EraseSegments({NotYet}, addrs))
    BY Zenon DEF EraseRange
  <1>2. ASSUME a \in Mapped PROVE addrs \in Seq(Int)
    <2>1. r \in Regions /\ a \in RegionBytes(r)
      BY <1>2, RegionAtFacts
    <2> HIDE DEF r
    <2>2. n = Segs(r) - SegNo(r, a)
      BY <2>1, RangeCount
    <2>3. SegNo(r, a) \in 0 .. Segs(r) - 1 /\ Segs(r) \in Nat
      BY <2>1, SegNoFacts, SegsFacts
    <2> HIDE DEF n
    <2>4. n \in Int /\ n >= 0
      BY <2>2, <2>3
    <2>5. r.segsize \in Int /\ a \in Int
      BY <2>1, RegionType DEF Address
    <2> QED BY <2>4, <2>5, SegmentsFromFacts, Zenon
  <1>3. \A o \in {NotYet} : Held(o)
    BY HeldRefused
  <1> DEFINE S == {NotYet}
  <1> HIDE DEF addrs
  <1>4. a \in Mapped /\ x \in EraseSegments(S, addrs) => Held(x)
    <2> HIDE DEF S
    <2> QED BY <1>2, <1>3, HeldSegments DEF S
  <1> QED BY <1>1, <1>4, HeldRefused

-----------------------------------------------------------------------------
(* The specification's steps *)

OpName == {"write", "main", "all", "infoa", "segment", "segrange", "reset", "program"}

\* What each operation promises of its answer.
Promised(name, x) ==
    /\ x \in Outcome
    /\ locka /\ name \in Erases => \A a \in InfoA : x.mem[a] = mem[a]
    /\ x.ok => \A a \in AskedFor(name) : x.mem[a] = Erased
    /\ locka /\ ~x.late => x.locka

\* What a step may do.
Kept ==
    /\ locka /\ op'.name \in Erases => \A a \in InfoA : mem'[a] = mem[a]
    /\ op'.ok => \A a \in AskedFor(op'.name) : mem'[a] = Erased
    /\ locka /\ op'.name # "program" /\ ~op'.late => locka'

LEMMA EndsKept ==
    ASSUME TypeOK, NEW name \in OpName, NEW outcomes,
           \A x \in outcomes : Promised(name, x), Ends(name, outcomes)
    PROVE  TypeOK' /\ Kept
  <1>1. PICK x \in outcomes :
           /\ mem' = x.mem /\ locka' = x.locka
           /\ op' = [name |-> name, ok |-> x.ok, late |-> x.late]
           /\ UNCHANGED family
    BY Zenon DEF Ends
  <1>2. Promised(name, x) /\ x \in Outcome
    BY <1>1 DEF Promised
  <1>3. /\ x.mem \in Memory /\ x.locka \in BOOLEAN /\ x.ok \in BOOLEAN /\ x.late \in BOOLEAN
        /\ x.locka => HasLocka
    BY <1>2, OutcomeFacts
  <1>4. op'.name = name /\ op'.ok = x.ok /\ op'.late = x.late
    BY <1>1
  <1>5. TypeOK'
    <2>1. family' \in Family /\ HasLocka' = HasLocka
      BY <1>1 DEF TypeOK, HasLocka
    <2>2. op' \in [name : OpName, ok : BOOLEAN, late : BOOLEAN]
      BY <1>1, <1>3
    <2> QED BY <1>1, <1>3, <2>1, <2>2 DEF TypeOK, Memory, OpName
  <1>6. Kept
    BY <1>1, <1>2, <1>4, Zenon DEF Kept, Promised
  <1> QED BY <1>5, <1>6

LEMMA WriteKept ==
    ASSUME TypeOK, Write
    PROVE  TypeOK' /\ Kept
  <1>1. PICK a \in Address, d \in Data : Ends("write", WriteMem(a, d))
    BY DEF Write
  <1>2. ASSUME NEW x \in WriteMem(a, d) PROVE Promised("write", x)
    <2>1. a \in Int /\ d \in Seq(Byte)
      BY BoundsAssumption DEF Address, Data
    <2>2. WrittenTo(x, a, d, a + Len(d))
      BY <2>1, WriteEnds
    <2>3. x \in Outcome /\ LockKept(x)
      BY <2>2, Zenon DEF WrittenTo
    <2>4. locka /\ ~x.late => x.locka
      BY <2>3, Zenon DEF LockKept
    <2>5. "write" \notin Erases /\ AskedFor("write") = {}
      BY DEF Erases, AskedFor
    <2> QED BY <2>3, <2>4, <2>5, Zenon DEF Promised
  <1>3. "write" \in OpName
    BY DEF OpName
  <1> QED BY <1>1, <1>2, <1>3, EndsKept

\* An erase that does not unlock INFO A has the answer its name promises.
LEMMA HeldPromised ==
    ASSUME NEW x, Held(x), NEW name,
           x.ok => \A a \in AskedFor(name) : x.mem[a] = Erased
    PROVE  Promised(name, x)
  <1>1. x \in Outcome /\ (locka => /\ x.ok \/ ~x.late => x.locka
                                   /\ \A a \in InfoA : x.mem[a] = mem[a])
    BY Zenon DEF Held, Protected
  <1> QED BY <1>1, Zenon DEF Promised

LEMMA MainKept ==
    ASSUME TypeOK, Main
    PROVE  TypeOK' /\ Kept
  <1>1. ASSUME NEW x \in EraseMain PROVE Promised("main", x)
    <2>1. Held(x) /\ (x.ok => \A a \in MainBytes : x.mem[a] = Erased)
      BY HeldMain
    <2>2. AskedFor("main") = MainBytes
      BY DEF AskedFor, MainBytes
    <2> QED BY <2>1, <2>2, HeldPromised
  <1>2. Ends("main", EraseMain) /\ "main" \in OpName
    BY DEF Main, OpName
  <1> QED BY <1>1, <1>2, EndsKept

LEMMA AllKept ==
    ASSUME TypeOK, All
    PROVE  TypeOK' /\ Kept
  <1>1. ASSUME NEW x \in EraseAll PROVE Promised("all", x)
    <2>1. Held(x) /\ (x.ok => \A a \in Erasable : x.mem[a] = Erased)
      BY HeldAll, AllErased
    <2>2. AskedFor("all") = Erasable
      BY DEF AskedFor
    <2> QED BY <2>1, <2>2, HeldPromised
  <1>2. Ends("all", EraseAll) /\ "all" \in OpName
    BY DEF All, OpName
  <1> QED BY <1>1, <1>2, EndsKept

LEMMA InfoAKept ==
    ASSUME TypeOK, InfoAOp
    PROVE  TypeOK' /\ Kept
  <1>1. ASSUME NEW x \in EraseInfoA PROVE Promised("infoa", x)
    <2>1. /\ x \in Outcome
          /\ locka /\ x.ok => \A a \in InfoA : x.mem[a] = Erased
          /\ locka /\ ~x.late => x.locka
      BY HeldInfoA
    <2>2. "infoa" \notin Erases /\ AskedFor("infoa") = IF locka THEN InfoA ELSE {}
      BY DEF AskedFor, Erases
    <2>3. x.ok => \A a \in AskedFor("infoa") : x.mem[a] = Erased
      BY <2>1, <2>2
    <2> QED BY <2>1, <2>2, <2>3, Zenon DEF Promised
  <1>2. Ends("infoa", EraseInfoA) /\ "infoa" \in OpName
    BY DEF InfoAOp, OpName
  <1> QED BY <1>1, <1>2, EndsKept

LEMMA SegmentKept ==
    ASSUME TypeOK, Segment
    PROVE  TypeOK' /\ Kept
  <1>1. PICK a \in Address : Ends("segment", EraseSegment(a))
    BY DEF Segment
  <1>2. ASSUME NEW x \in EraseSegment(a) PROVE Promised("segment", x)
    <2>1. Held(x)
      BY HeldSegment
    <2>2. AskedFor("segment") = {}
      BY DEF AskedFor
    <2> QED BY <2>1, <2>2, HeldPromised
  <1>3. "segment" \in OpName
    BY DEF OpName
  <1> QED BY <1>1, <1>2, <1>3, EndsKept

LEMMA SegRangeKept ==
    ASSUME TypeOK, SegRange
    PROVE  TypeOK' /\ Kept
  <1>1. PICK a \in Address, size \in Address : Ends("segrange", EraseRange(a, size))
    BY DEF SegRange
  <1>2. ASSUME NEW x \in EraseRange(a, size) PROVE Promised("segrange", x)
    <2>1. Held(x)
      BY HeldRange
    <2>2. AskedFor("segrange") = {}
      BY DEF AskedFor
    <2> QED BY <2>1, <2>2, HeldPromised
  <1>3. "segrange" \in OpName
    BY DEF OpName
  <1> QED BY <1>1, <1>2, <1>3, EndsKept

LEMMA OutsideKept ==
    ASSUME TypeOK, Reset \/ Program
    PROVE  TypeOK' /\ Kept
  <1>1. /\ family' = family /\ mem' = mem
        /\ locka' \in BOOLEAN /\ (locka' => HasLocka)
        /\ \/ locka' = HasLocka /\ op' = [name |-> "reset", ok |-> TRUE, late |-> FALSE]
           \/ op' = [name |-> "program", ok |-> TRUE, late |-> FALSE]
    <2>1. HasLocka \in BOOLEAN /\ locka \in BOOLEAN /\ (~locka) \in BOOLEAN
      BY DEF HasLocka, TypeOK
    <2>2. CASE Reset
      BY <2>1, <2>2, Zenon DEF Reset
    <2>3. CASE Program
      BY <2>1, <2>3, Zenon DEF Program
    <2> QED BY <2>2, <2>3, Zenon
  <1>2. op'.name \in {"reset", "program"} /\ (op'.name = "reset" => locka' = HasLocka)
        /\ op' \in [name : OpName, ok : BOOLEAN, late : BOOLEAN]
    <2>1. CASE locka' = HasLocka /\ op' = [name |-> "reset", ok |-> TRUE, late |-> FALSE]
      <3>1. op' = [name |-> "reset", ok |-> TRUE, late |-> FALSE]
        BY <2>1
      <3>2. op'.name = "reset" /\ op' \in [name : OpName, ok : BOOLEAN, late : BOOLEAN]
        BY <3>1 DEF OpName
      <3> QED BY <2>1, <3>2, Zenon
    <2>2. CASE op' = [name |-> "program", ok |-> TRUE, late |-> FALSE]
      <3>1. op'.name = "program" /\ op' \in [name : OpName, ok : BOOLEAN, late : BOOLEAN]
        BY <2>2 DEF OpName
      <3>2. "program" # "reset"
        OBVIOUS
      <3> QED BY <3>1, <3>2, Zenon
    <2> QED BY <1>1, <2>1, <2>2, Zenon
  <1>3. AskedFor(op'.name) = {} /\ op'.name \notin Erases
    BY <1>2 DEF AskedFor, Erases
  <1>4. Kept
    BY <1>1, <1>2, <1>3 DEF Kept, TypeOK
  <1>5. TypeOK'
    <2>1. HasLocka' = HasLocka
      BY <1>1 DEF HasLocka
    <2> QED BY <1>1, <1>2, <2>1 DEF TypeOK, Memory, OpName
  <1> QED BY <1>4, <1>5

LEMMA NextKept ==
    ASSUME TypeOK, Next
    PROVE  TypeOK' /\ Kept
  BY WriteKept, MainKept, AllKept, InfoAKept, SegmentKept, SegRangeKept, OutsideKept DEF Next

LEMMA TypeStep ==
    ASSUME TypeOK, [Next]_vars
    PROVE  TypeOK'
  <1>1. CASE Next
    BY <1>1, NextKept
  <1>2. CASE UNCHANGED vars
    BY <1>2 DEF TypeOK, vars, Memory, HasLocka
  <1> QED BY <1>1, <1>2

-----------------------------------------------------------------------------
(* The theorems *)

\* A part's memory keeps a byte for every mapped address, and LOCKA is never 1
\* on a part without it, whatever is written, erased, cut off or run.
THEOREM MemoryTypeCorrect == Spec => []TypeOK
  <1>1. Init => TypeOK
    <2> SUFFICES ASSUME Init PROVE TypeOK
      OBVIOUS
    <2>1. HasLocka \in BOOLEAN
      BY DEF HasLocka
    <2>2. locka \in BOOLEAN /\ (locka => HasLocka)
      BY <2>1, Zenon DEF Init
    <2>3. op \in [name : OpName, ok : BOOLEAN, late : BOOLEAN]
      BY DEF Init, OpName
    <2> QED BY <2>2, <2>3, Zenon DEF Init, TypeOK, OpName
  <1>2. TypeOK /\ [Next]_vars => TypeOK'
    BY TypeStep
  <1> QED BY <1>1, <1>2, PTL DEF Spec

\* WriteMem: with LOCKA as after a reset, a write of any length to any address
\* of any map is answered with success exactly if all of it is mapped, and
\* changes the bytes up to the first one that is not, and no other.
THEOREM WritesAreExact == Spec => []WritesExactly
  <1>1. TypeOK => WritesExactly
    BY WriteIsExact
  <1> QED BY <1>1, MemoryTypeCorrect, PTL

\* ReadMem: a read of any length answers as many bytes, the memory's up to the
\* first one that is not mapped, the filler where there is no memory.
THEOREM ReadsAreExact == Spec => []ReadsExactly
  <1>1. TypeOK => ReadsExactly
    BY ReadIsExact
  <1> QED BY <1>1, MemoryTypeCorrect, PTL

\* erase segrange: an answer of success means that every segment asked for is
\* erased, however many there are and wherever in one the range starts.
THEOREM RangesAreErased == Spec => []RangeErased
  <1>1. TypeOK => RangeErased
    BY RangeIsErased
  <1> QED BY <1>1, MemoryTypeCorrect, PTL

\* No erase but erase infoa changes a segment INFO A that LOCKA protects.
THEOREM InfoAIsProtected == Spec => InfoAProtected
  <1>1. TypeOK /\ [Next]_vars =>
           [locka /\ op'.name \in Erases => \A a \in InfoA : mem'[a] = mem[a]]_vars
    BY NextKept, Zenon DEF Kept
  <1> QED BY <1>1, MemoryTypeCorrect, PTL DEF Spec, InfoAProtected

\* An erase answered with success has erased all its name stands for: erase
\* main the main memory, erase all every segment but a protected INFO A, on
\* each family, and erase infoa that one.
THEOREM ErasesAreDone == Spec => ErasedWhenAnswered
  <1>1. TypeOK /\ [Next]_vars =>
           [op'.ok => \A a \in AskedFor(op'.name) : mem'[a] = Erased]_vars
    BY NextKept, Zenon DEF Kept
  <1> QED BY <1>1, MemoryTypeCorrect, PTL DEF Spec, ErasedWhenAnswered

\* The drivers' toggles of LOCKA cancel: a write or an erase that is not cut off
\* leaves a locked INFO A locked.
THEOREM LockaIsRestored == Spec => LockaRestored
  <1>1. TypeOK /\ [Next]_vars =>
           [locka /\ op'.name # "program" /\ ~op'.late => locka']_vars
    BY NextKept, Zenon DEF Kept
  <1> QED BY <1>1, MemoryTypeCorrect, PTL DEF Spec, LockaRestored

=============================================================================
