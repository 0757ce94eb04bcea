------------------------- MODULE ChipProfile_proof -------------------------
(***************************************************************************)
(* Proofs about ChipProfile, for all tables: the search for a record, the  *)
(* memory map that its configurations resolve to, the sort of its entries, *)
(* and the lookup by address.                                              *)
(***************************************************************************)
EXTENDS ChipProfile, Recursion, FiniteSetTheorems, FunctionTheorems, WellFoundedInduction, TLAPS

\* The level of a full match.
kFull == 4

-----------------------------------------------------------------------------
\* The points of a set of fields: a part of it has less, unless it is all.
LEMMA PointsOfParts ==
    ASSUME NEW N \in SUBSET Fields, NEW A \in SUBSET N, N # {}
    PROVE  /\ Points(N) \in 1 .. 8
           /\ Points(A) \in 0 .. Points(N)
           /\ Points(A) = Points(N) <=> A = N
  <1> DEFINE In(S, f) == IF f \in S THEN 1 ELSE 0
  <1>1. \A S \in SUBSET Fields :
           Points(S) = 2 * In(S, "sub") + In(S, "self") + In(S, "rev")
                         + 2 * In(S, "cfg") + In(S, "fab") + In(S, "fuse")
    BY DEF Points
  <1>2. \A f \in Fields : In(A, f) \in 0 .. 1 /\ In(N, f) \in 0 .. 1 /\ In(A, f) <= In(N, f)
    OBVIOUS
  <1>3. (\A f \in Fields : In(N, f) = 0) => N = {}
    OBVIOUS
  <1>4. (\A f \in Fields : In(A, f) = In(N, f)) <=> A = N
    OBVIOUS
  <1>5. \A f : f \in Fields <=> f \in {"sub", "self", "rev", "cfg", "fab", "fuse"}
    BY DEF Fields
  <1>6. A \in SUBSET Fields
    OBVIOUS
  <1> HIDE DEF In
  <1>7. Points(N) \in 1 .. 8
    BY <1>1, <1>2, <1>3, <1>5
  <1>8. Points(A) \in 0 .. Points(N)
    BY <1>1, <1>2, <1>5, <1>6
  <1>9. Points(A) = Points(N) <=> A = N
    BY <1>1, <1>2, <1>4, <1>5, <1>6
  <1> QED BY <1>7, <1>8, <1>9

\* Dividing by the points of the named fields reaches 3 only with all of them.
LEMMA Thirds ==
    ASSUME NEW n \in 1 .. 8, NEW a \in 0 .. n
    PROVE  /\ (3 * a) \div n \in 0 .. 3
           /\ (3 * a) \div n = 3 <=> a = n
  <1>1. n = 1 \/ n = 2 \/ n = 3 \/ n = 4 \/ n = 5 \/ n = 6 \/ n = 7 \/ n = 8
    OBVIOUS
  <1> QED BY <1>1

\* A record has the highest level exactly when it names a field and the target
\* agrees with it in all it names.
LEMMA MatchLevels ==
    ASSUME NEW d, NEW q
    PROVE  /\ Match(d, q) \in 0 .. kFull
           /\ Match(d, q) = kFull <=> /\ d.ver = q.ver
                                      /\ Named(d) # {}
                                      /\ Agreeing(d, q) = Named(d)
  <1>1. CASE q.ver # d.ver
    BY <1>1 DEF Match, kFull
  <1>2. CASE q.ver = d.ver /\ Named(d) = {}
    BY <1>2 DEF Match, kFull
  <1>3. CASE q.ver = d.ver /\ Named(d) # {}
    <2>1. Named(d) \in SUBSET Fields /\ Agreeing(d, q) \in SUBSET Named(d)
      BY DEF Named, Agreeing
    <2>2. /\ Points(Named(d)) \in 1 .. 8
          /\ Points(Agreeing(d, q)) \in 0 .. Points(Named(d))
          /\ Points(Agreeing(d, q)) = Points(Named(d)) <=> Agreeing(d, q) = Named(d)
      BY <1>3, <2>1, PointsOfParts
    <2> DEFINE level == (3 * Points(Agreeing(d, q))) \div Points(Named(d))
    <2>3. level \in 0 .. 3 /\ (level = 3 <=> Agreeing(d, q) = Named(d))
      BY <2>2, Thirds
    <2>4. Match(d, q) = level + 1
      BY <1>3 DEF Match
    <2> HIDE DEF level
    <2> QED BY <1>3, <2>3, <2>4 DEF kFull
  <1> QED BY <1>1, <1>2, <1>3

\* A set of indexes has a last one.
LEMMA GreatestExists ==
    ASSUME NEW n \in Nat, NEW S \in SUBSET (1 .. n), S # {}
    PROVE  Greatest(S) \in S /\ \A k \in S : k <= Greatest(S)
  <1> DEFINE T == {n - k : k \in S}
  <1>1. \A k \in S : k \in Nat /\ k <= n
    OBVIOUS
  <1>2. T \subseteq Nat
    BY <1>1
  <1>3. T # {}
    OBVIOUS
  <1>4. PICK m \in T : \A k \in T : ~(<<k, m>> \in OpToRel(<, Nat))
    <2> HIDE DEF T
    <2> QED BY <1>2, <1>3, NatLessThanWellFounded, WFMin
  <1>5. \A k \in T : ~(k < m)
    <2> HIDE DEF T
    <2> QED BY <1>2, <1>4 DEF OpToRel
  <1>6. PICK g \in S : m = n - g
    OBVIOUS
  <1>7. \A k \in S : ~(n - k < n - g)
    BY <1>5, <1>6
  <1>8. \A k \in S : k <= g
    BY <1>1, <1>7
  <1> QED BY <1>8 DEF Greatest

LEMMA DevicesFacts == Len(Devices) \in Nat /\ DOMAIN Devices = 1 .. Len(Devices)
  BY DevicesAssumption

MatchesQuery(i, q) ==
    /\ Devices[i].ver = q.ver
    /\ Named(Devices[i]) # {}
    /\ Agreeing(Devices[i], q) = Named(Devices[i])

\* With a full match in the table the search returns one.
LEMMA FindFull ==
    ASSUME NEW q, NEW f \in DOMAIN Devices, MatchesQuery(f, q)
    PROVE  Find(q) \in DOMAIN Devices /\ MatchesQuery(Find(q), q)
  <1> DEFINE of == {i \in DOMAIN Devices : Devices[i].ver = q.ver}
             best == {i \in of : \A j \in of : Match(Devices[j], q) <= Match(Devices[i], q)}
  <1>1. f \in of /\ Match(Devices[f], q) = kFull
    BY MatchLevels DEF MatchesQuery
  <1>2. \A i \in of : Match(Devices[i], q) \in 0 .. kFull
    BY MatchLevels
  <1>3. f \in best
    BY <1>1, <1>2 DEF kFull
  <1>4. \A i \in best : i \in DOMAIN Devices /\ Match(Devices[i], q) = kFull
    BY <1>1, <1>2 DEF kFull
  <1>5. best # {} /\ best \in SUBSET (1 .. Len(Devices))
    BY <1>3, DevicesFacts
  <1>6. Find(q) = Greatest(best)
    BY <1>1 DEF Find
  <1>7. Greatest(best) \in best
    <2> HIDE DEF best
    <2> QED BY <1>5, DevicesFacts, GreatestExists
  <1>8. Find(q) \in DOMAIN Devices /\ Match(Devices[Find(q)], q) = kFull
    <2> HIDE DEF best
    <2> QED BY <1>4, <1>6, <1>7
  <1> QED BY <1>8, MatchLevels DEF MatchesQuery

-----------------------------------------------------------------------------
\* A probed profile is of the record the search found.
ProbedAsFound ==
    phase = "probed" => (Find(query) # 0 => chip.mcu = Find(query))

\* Records that agree with the target in all the fields they name win over all
\* others, for every table and every identification: no order of the records
\* makes the probe take a known part for another (Find, Match).
THEOREM FullMatchFound == Spec => []FullMatchWins
  <1>1. Init => ProbedAsFound
    BY DEF Init, ProbedAsFound
  <1>2. ProbedAsFound /\ [Next]_vars => ProbedAsFound'
    <2> SUFFICES ASSUME ProbedAsFound, [Next]_vars
                 PROVE  ProbedAsFound'
      OBVIOUS
    <2>1. CASE Open
      BY <2>1 DEF Open, ProbedAsFound
    <2>2. CASE InitDevice
      BY <2>2 DEF InitDevice, ProbedAsFound
    <2>3. CASE ProbeId
      <3>1. \A i : LoadRecord(chip, i).mcu = i
        BY DEF LoadRecord, FillDevice
      <3>2. /\ query' = query
            /\ Find(query) # 0 => chip' = LoadRecord(chip, Find(query))
        BY <2>3 DEF ProbeId
      <3> QED BY <3>1, <3>2 DEF ProbedAsFound
    <2>4. CASE Close
      BY <2>4 DEF Close, ProbedAsFound
    <2>5. CASE UNCHANGED vars
      BY <2>5 DEF vars, ProbedAsFound
    <2> QED BY <2>1, <2>2, <2>3, <2>4, <2>5 DEF Next
  <1>3. ProbedAsFound => FullMatchWins
    <2> SUFFICES ASSUME ProbedAsFound, phase = "probed",
                        NEW f \in DOMAIN Devices, MatchesQuery(f, query)
                 PROVE  MatchesQuery(chip.mcu, query)
      BY DEF FullMatchWins, MatchesFully, MatchesQuery
    <2>1. Find(query) \in DOMAIN Devices /\ MatchesQuery(Find(query), query)
      BY FindFull
    <2>2. Find(query) # 0
      BY <2>1, DevicesFacts
    <2> QED BY <2>1, <2>2 DEF ProbedAsFound
  <1> QED BY <1>1, <1>2, <1>3, PTL DEF Spec

-----------------------------------------------------------------------------
(* The shape of a map and of a profile. *)

\* What an entry of mem_ holds.
Entries == [key : Classes, access : STRING, start : Nat, size : Nat,
            mapped : BOOLEAN, wrProt : Nat \cup {None}]

\* What a profile holds while its map is filled.
Profiles ==
    [mcu : Nat, arch : {"Cpu", "CpuX", "CpuXv2"}, numBreakpoints : Nat, hasLocka : BOOLEAN,
     onePassErase : BOOLEAN, issue1377 : BOOLEAN, isFram : BOOLEAN, flashTimings : STRING \cup {None},
     mem : Seq(Entries), timers : {DecodeEemTimer(None)}]

\* No class has two entries.
Distinct(mem) == \A i, j \in DOMAIN mem : i # j => mem[i].key # mem[j].key

EntriesOf(mem) == {mem[i] : i \in DOMAIN mem}
KeysOf(mem) == {mem[i].key : i \in DOMAIN mem}

LEMMA EntryFacts ==
    ASSUME NEW mem \in Seq(Entries)
    PROVE  /\ DOMAIN mem = 1 .. Len(mem) /\ Len(mem) \in Nat
           /\ \A i \in DOMAIN mem : mem[i] \in Entries
  OBVIOUS

\* The least of a set of indexes.
LEMMA LeastExists ==
    ASSUME NEW S \in SUBSET Nat, S # {}
    PROVE  Least(S) \in S /\ \A k \in S : Least(S) <= k
  <1>1. PICK m \in S : \A k \in S : ~(<<k, m>> \in OpToRel(<, Nat))
    BY NatLessThanWellFounded, WFMin
  <1>2. \A k \in S : ~(k < m)
    BY <1>1 DEF OpToRel
  <1>3. \A k \in S : m <= k
    BY <1>2
  <1> QED BY <1>3 DEF Least

\* The map after a block is filled in: what FillBlock says of it.
Filled(mem, block) ==
    LET same == {i \in DOMAIN mem : mem[i].key = block.key}
        entry == IF same = {} THEN Len(mem) + 1 ELSE Least(same)
        kept == IF same = {} THEN None ELSE mem[entry].wrProt
        filled == [key |-> block.key, access |-> block.access,
                   start |-> block.start, size |-> block.size,
                   mapped |-> block.key \notin {"Cpu", "Eem"},
                   wrProt |-> IF block.wrProt = None THEN kept ELSE block.wrProt]
    IN IF same = {} THEN Append(mem, filled) ELSE [mem EXCEPT ![entry] = filled]

\* A block.
Blocks == [key : Classes, access : STRING, start : Nat, size : Nat, wrProt : Nat \cup {None}]

\* The entry of a block of which the entry of its class, if there is one, is e.
IsOf(f, block, e) ==
    /\ f.key = block.key /\ Place(f) = Place(block)
    /\ f.wrProt = IF block.wrProt = None THEN e ELSE block.wrProt

\* n is the map after the block is filled in mem: the entries of other classes
\* are the same, and that of the block's class is the block's.
Fills(mem, block, n) ==
    /\ n \in Seq(Entries) /\ Distinct(n)
    /\ KeysOf(n) = KeysOf(mem) \cup {block.key}
    /\ \A e : e.key # block.key => (e \in EntriesOf(n) <=> e \in EntriesOf(mem))
    /\ \A f \in EntriesOf(n) : f.key = block.key =>
          /\ \A e \in EntriesOf(mem) : e.key = block.key => IsOf(f, block, e.wrProt)
          /\ block.key \notin KeysOf(mem) => IsOf(f, block, None)

LEMMA FilledFacts ==
    ASSUME NEW mem \in Seq(Entries), Distinct(mem), NEW block \in Blocks
    PROVE  Fills(mem, block, Filled(mem, block))
  <1> DEFINE same == {i \in DOMAIN mem : mem[i].key = block.key}
             entry == IF same = {} THEN Len(mem) + 1 ELSE Least(same)
             kept == IF same = {} THEN None ELSE mem[entry].wrProt
             filled == [key |-> block.key, access |-> block.access,
                        start |-> block.start, size |-> block.size,
                        mapped |-> block.key \notin {"Cpu", "Eem"},
                        wrProt |-> IF block.wrProt = None THEN kept ELSE block.wrProt]
             n == Filled(mem, block)
  <1>1. /\ DOMAIN mem = 1 .. Len(mem) /\ Len(mem) \in Nat
        /\ \A i \in DOMAIN mem : mem[i] \in Entries
    BY EntryFacts
  <1>2. same # {} => entry \in DOMAIN mem /\ mem[entry].key = block.key
    <2>1. same \in SUBSET Nat
      BY <1>1
    <2> QED BY <2>1, LeastExists
  <1>3. kept \in Nat \cup {None}
    BY <1>1, <1>2 DEF Entries
  <1>4. filled \in Entries
    BY <1>3 DEF Entries, Blocks
  <1>5. filled.key = block.key /\ IsOf(filled, block, kept)
    BY DEF IsOf, Place
  <1>6. n = IF same = {} THEN Append(mem, filled) ELSE [mem EXCEPT ![entry] = filled]
    BY DEF Filled
  <1>7. \A i \in DOMAIN mem : mem[i].key = block.key <=> i \in same
    OBVIOUS
  <1>8. same # {} => same = {entry} /\ kept = mem[entry].wrProt
    BY <1>2 DEF Distinct
  <1>9. same = {} => kept = None
    OBVIOUS
  <1>10. same = {} <=> block.key \notin KeysOf(mem)
    BY DEF KeysOf
  <1> HIDE DEF filled, kept, n, entry, same
  <1>11. ASSUME same = {} PROVE Fills(mem, block, n)
    <2>1. /\ n \in Seq(Entries) /\ DOMAIN n = 1 .. Len(mem) + 1
          /\ n[Len(mem) + 1] = filled
          /\ \A i \in DOMAIN mem : n[i] = mem[i]
      BY <1>1, <1>4, <1>6, <1>11
    <2>2. \A i \in DOMAIN n : i \in DOMAIN mem \/ i = Len(mem) + 1
      BY <1>1, <2>1
    <2>3. \A i \in DOMAIN mem : mem[i].key # block.key /\ i \in DOMAIN n
      BY <1>1, <1>7, <1>11, <2>1
    <2>4. Distinct(n)
      BY <1>5, <2>1, <2>2, <2>3 DEF Distinct
    <2>5. EntriesOf(n) = EntriesOf(mem) \cup {filled}
      BY <1>1, <2>1, <2>2, <2>3 DEF EntriesOf
    <2>6. KeysOf(n) = KeysOf(mem) \cup {block.key}
      BY <1>1, <1>5, <2>1, <2>2, <2>3 DEF KeysOf
    <2>7. \A e \in EntriesOf(mem) : e.key # block.key
      BY <2>3 DEF EntriesOf
    <2> QED BY <1>5, <1>9, <1>11, <2>1, <2>4, <2>5, <2>6, <2>7, Zenon DEF Fills
  <1>12. ASSUME same # {} PROVE Fills(mem, block, n)
    <2>1. /\ n \in Seq(Entries) /\ DOMAIN n = DOMAIN mem
          /\ n[entry] = filled /\ entry \in DOMAIN mem
          /\ \A i \in DOMAIN mem : i # entry => n[i] = mem[i]
      BY <1>1, <1>2, <1>4, <1>6, <1>12
    <2>2. \A i \in DOMAIN mem : n[i].key = mem[i].key
      BY <1>2, <1>5, <1>12, <2>1
    <2>3. Distinct(n)
      BY <2>1, <2>2 DEF Distinct
    <2>4. KeysOf(n) = KeysOf(mem) \cup {block.key}
      BY <1>2, <1>12, <2>1, <2>2 DEF KeysOf
    <2>5. \A i \in DOMAIN mem : mem[i].key = block.key <=> i = entry
      BY <1>7, <1>8, <1>12
    <2>6. \A e : e.key # block.key => (e \in EntriesOf(n) <=> e \in EntriesOf(mem))
      BY <2>1, <2>2, <2>5 DEF EntriesOf
    <2>7. \A f \in EntriesOf(n) : f.key = block.key => f = filled
      BY <2>1, <2>2, <2>5 DEF EntriesOf
    <2>8. \A e \in EntriesOf(mem) : e.key = block.key => e.wrProt = kept
      BY <1>8, <1>12, <2>5 DEF EntriesOf
    <2>9. block.key \in KeysOf(mem)
      BY <1>10, <1>12
    <2> QED BY <1>5, <2>1, <2>3, <2>4, <2>6, <2>7, <2>8, <2>9, Zenon DEF Fills
  <1> QED BY <1>11, <1>12 DEF n

\* FillBlock changes the map as Filled says, and the profile stays one.
LEMMA FillBlockFacts ==
    ASSUME NEW o \in Profiles, NEW block \in Blocks, Distinct(o.mem)
    PROVE  /\ FillBlock(o, block) \in Profiles
           /\ FillBlock(o, block).mem = Filled(o.mem, block)
  <1>1. o.mem \in Seq(Entries)
    BY DEF Profiles
  <1>2. Filled(o.mem, block) \in Seq(Entries)
    BY <1>1, FilledFacts DEF Fills
  <1>3. FillBlock(o, block) =
          [o EXCEPT !.mem = Filled(o.mem, block),
                    !.isFram = @ \/ block.access \in FramAccess,
                    !.flashTimings = IF block.access \in TimingAccess THEN block.access ELSE @]
    BY Zenon DEF FillBlock, Filled
  <1>4. (o.isFram \/ block.access \in FramAccess) \in BOOLEAN
    OBVIOUS
  <1>5. (IF block.access \in TimingAccess THEN block.access ELSE o.flashTimings)
           \in STRING \cup {None}
    BY DEF Blocks, Profiles
  <1> HIDE DEF Entries
  <1> QED BY <1>2, <1>3, <1>4, <1>5 DEF Profiles

-----------------------------------------------------------------------------
(* The blocks of a configuration, one after the other. *)

\* The profiles whose map has one entry for a class.
Maps == {o \in Profiles : Distinct(o.mem)}

\* f has the profile before the first block, behind each, and behind the last.
Steps(o, blocks, f) ==
    /\ f \in [0 .. Len(blocks) -> Maps]
    /\ f[0] = o
    /\ \A n \in 1 .. Len(blocks) : f[n].mem = Filled(f[n - 1].mem, MemBlocks[blocks[n]])
    /\ f[Len(blocks)] = FillBlocks(o, blocks)

LEMMA TableFacts ==
    /\ \A b \in DOMAIN MemBlocks : MemBlocks[b] \in Blocks
    /\ \A c \in DOMAIN MemConfigs : /\ MemConfigs[c].blocks \in Seq(DOMAIN MemBlocks)
                                    /\ MemConfigs[c].base \in DOMAIN MemConfigs \cup {None}
  BY TablesAssumption DEF Blocks

LEMMA FillBlockInMaps ==
    ASSUME NEW o \in Maps, NEW block \in Blocks
    PROVE  /\ FillBlock(o, block) \in Maps
           /\ FillBlock(o, block).mem = Filled(o.mem, block)
           /\ Fills(o.mem, block, FillBlock(o, block).mem)
  <1>1. o \in Profiles /\ Distinct(o.mem) /\ o.mem \in Seq(Entries)
    BY DEF Maps, Profiles
  <1>2. Fills(o.mem, block, Filled(o.mem, block))
    BY <1>1, FilledFacts
  <1> QED BY <1>1, <1>2, FillBlockFacts, Zenon DEF Maps, Fills

LEMMA FillBlocksSteps ==
    ASSUME NEW o \in Maps, NEW blocks \in Seq(DOMAIN MemBlocks)
    PROVE  \E f : Steps(o, blocks, f)
  <1> DEFINE N == Len(blocks)
             A == Maps
             step(n, x) == FillBlock(x, MemBlocks[blocks[n]])
             g == [n \in 1 .. N |-> [x \in A |-> step(n, x)]]
             Eqn(R) == R = [n \in 0 .. N |-> IF n = 0 THEN o ELSE step(n, R[n - 1])]
             After == CHOOSE R : Eqn(R)
  <1>0. N \in Nat /\ \A n \in 1 .. N : MemBlocks[blocks[n]] \in Blocks
    BY TableFacts
  <1>1. ASSUME NEW n \in 1 .. N, NEW x \in A
        PROVE  step(n, x) \in A /\ step(n, x).mem = Filled(x.mem, MemBlocks[blocks[n]])
    BY <1>0, FillBlockInMaps
  <1> HIDE DEF step, A, N
  <1>2. g \in [1 .. N -> [A -> A]]
    BY <1>1
  <1>3. HasIteration(N, A, o, g)
    <2>1. o \in A
      BY DEF A
    <2> HIDE DEF g
    <2> QED BY <1>0, <1>2, <2>1, IterationExists
  <1>4. PICK f \in [0 .. N -> A] : f = [n \in 0 .. N |-> IF n = 0 THEN o ELSE g[n][f[n - 1]]]
    BY <1>3 DEF HasIteration
  <1>5. \A n \in 0 .. N : n # 0 => n \in 1 .. N /\ n - 1 \in 0 .. N
    BY <1>0
  <1>6. Eqn(f)
    <2>1. ASSUME NEW n \in 0 .. N
          PROVE  f[n] = IF n = 0 THEN o ELSE step(n, f[n - 1])
      <3>1. n # 0 => g[n][f[n - 1]] = step(n, f[n - 1])
        BY <1>5
      <3> HIDE DEF g
      <3> QED BY <1>4, <3>1
    <2> HIDE DEF g
    <2>2. f = [n \in 0 .. N |-> f[n]]
      BY <1>4
    <2> QED BY <2>1, <2>2
  <1>7. Eqn(After)
    <2> HIDE DEF Eqn
    <2> QED BY <1>6
  <1>8. After[N] = FillBlocks(o, blocks)
    BY Zenon DEF FillBlocks, N, step
  <1> HIDE DEF After
  <1> DEFINE S == {n \in Nat : After[n] \in A}
  <1>9. 0 .. N \subseteq S
    <2>1. \A n \in 0 .. N : After[n] = IF n = 0 THEN o ELSE step(n, After[n - 1])
      BY <1>7
    <2>2. 0 \in S
      BY <1>0, <2>1 DEF A
    <2>3. ASSUME NEW n \in 1 .. N, n - 1 \in S
          PROVE  n \in S
      <3>1. n \in 0 .. N /\ n # 0 /\ n \in Nat
        BY <1>0
      <3>2. After[n] = step(n, After[n - 1])
        BY <2>1, <3>1
      <3> QED BY <1>1, <2>3, <3>1, <3>2
    <2> HIDE DEF S
    <2> QED BY <1>0, <2>2, <2>3, UpTo, Zenon DEF Climbs
  <1>10. After \in [0 .. N -> A] /\ After[0] = o
    BY <1>0, <1>7, <1>9
  <1>11. ASSUME NEW n \in 1 .. N
         PROVE  After[n].mem = Filled(After[n - 1].mem, MemBlocks[blocks[n]])
    <2>1. n \in 0 .. N /\ n # 0 /\ n - 1 \in 0 .. N
      BY <1>0
    <2>2. After[n] = step(n, After[n - 1]) /\ After[n - 1] \in A
      BY <1>7, <1>10, <2>1
    <2> QED BY <1>1, <2>2
  <1> QED BY <1>8, <1>10, <1>11, Zenon DEF Steps, N, A

-----------------------------------------------------------------------------
(* The last value of a class in a list of blocks. *)

\* Those of the first n blocks that are of the class and have a value.
InClass(blocks, n, k, value) ==
    {i \in 1 .. n : MemBlocks[blocks[i]].key = k /\ value[blocks[i]] # None}

LastValue(blocks, n, k, value) ==
    IF InClass(blocks, n, k, value) = {} THEN None
    ELSE value[blocks[Greatest(InClass(blocks, n, k, value))]]

LEMMA GreatestIs ==
    ASSUME NEW S \in SUBSET Int, NEW g \in S, \A k \in S : k <= g
    PROVE  Greatest(S) = g
  <1>1. Greatest(S) \in S /\ \A k \in S : k <= Greatest(S)
    BY DEF Greatest
  <1>2. Greatest(S) \in Int /\ g \in Int
    BY <1>1
  <1>3. Greatest(S) <= g /\ g <= Greatest(S)
    BY <1>1
  <1> QED BY <1>2, <1>3

\* Only the values that are there count.
LEMMA LastNone ==
    ASSUME NEW blocks, NEW n \in Nat, NEW k, NEW value
    PROVE  LastValue(blocks, n, k, value) = None <=> InClass(blocks, n, k, value) = {}
  <1> DEFINE S == InClass(blocks, n, k, value)
  <1>1. S \in SUBSET (1 .. n) /\ \A i \in S : value[blocks[i]] # None
    BY DEF InClass
  <1>2. S # {} => Greatest(S) \in S
    <2> HIDE DEF S
    <2> QED BY <1>1, GreatestExists
  <1> QED BY <1>1, <1>2 DEF LastValue

\* The next block's value, if it is of the class and has one, is the last.
LEMMA LastStep ==
    ASSUME NEW blocks, NEW n \in Nat, n # 0, NEW k, NEW value
    PROVE  LastValue(blocks, n, k, value) =
             IF MemBlocks[blocks[n]].key = k /\ value[blocks[n]] # None
             THEN value[blocks[n]]
             ELSE LastValue(blocks, n - 1, k, value)
  <1> DEFINE S == InClass(blocks, n, k, value)
  <1>0. S \in SUBSET Int /\ \A i \in S : i <= n
    BY DEF InClass
  <1>1. CASE MemBlocks[blocks[n]].key = k /\ value[blocks[n]] # None
    <2>1. n \in S
      BY <1>1 DEF InClass
    <2>2. Greatest(S) = n
      <3> HIDE DEF S
      <3> QED BY <1>0, <2>1, GreatestIs
    <2> QED BY <1>1, <2>1, <2>2 DEF LastValue
  <1>2. CASE ~(MemBlocks[blocks[n]].key = k /\ value[blocks[n]] # None)
    <2>1. S = InClass(blocks, n - 1, k, value)
      BY <1>2 DEF InClass
    <2> QED BY <1>2, <2>1, Zenon DEF LastValue
  <1> QED BY <1>1, <1>2

LEMMA LastFirst == \A blocks, k, value : LastValue(blocks, 0, k, value) = None
  BY DEF LastValue, InClass

\* Behind a first list, the last value of the second one, or the first one's.
LEMMA LastConcat ==
    ASSUME NEW s \in Seq(DOMAIN MemBlocks), NEW t \in Seq(DOMAIN MemBlocks),
           NEW k, NEW value
    PROVE  LastValue(s \o t, Len(s \o t), k, value) =
             IF LastValue(t, Len(t), k, value) # None THEN LastValue(t, Len(t), k, value)
             ELSE LastValue(s, Len(s), k, value)
  <1> DEFINE L(m) == LastValue(s \o t, Len(s) + m, k, value)
             T(m) == LastValue(t, m, k, value)
             Z == LastValue(s, Len(s), k, value)
             S == {m \in Nat : L(m) = IF T(m) # None THEN T(m) ELSE Z}
  <1>1. /\ Len(s) \in Nat /\ Len(t) \in Nat /\ Len(s \o t) = Len(s) + Len(t)
        /\ \A i \in 1 .. Len(s) : (s \o t)[i] = s[i]
        /\ \A i \in 1 .. Len(t) : (s \o t)[Len(s) + i] = t[i]
    OBVIOUS
  <1>2. L(0) = Z
    <2>1. InClass(s \o t, Len(s) + 0, k, value) = InClass(s, Len(s), k, value)
      BY <1>1 DEF InClass
    <2>2. InClass(s, Len(s), k, value) # {} =>
             Greatest(InClass(s, Len(s), k, value)) \in 1 .. Len(s)
      <3>1. InClass(s, Len(s), k, value) \in SUBSET (1 .. Len(s))
        BY DEF InClass
      <3> QED BY <1>1, <3>1, GreatestExists
    <2> QED BY <1>1, <2>1, <2>2 DEF LastValue
  <1>3. 0 \in S
    BY <1>2, LastFirst
  <1>4. ASSUME NEW m \in 1 .. Len(t), m - 1 \in S
        PROVE  m \in S
    <2> DEFINE b == t[m]
               hit == MemBlocks[b].key = k /\ value[b] # None
    <2>1. T(m) = IF hit THEN value[b] ELSE T(m - 1)
      BY <1>1, LastStep
    <2>2. L(m) = IF hit THEN value[b] ELSE L(m - 1)
      <3>1. /\ Len(s) + m \in Nat /\ Len(s) + m # 0 /\ (s \o t)[Len(s) + m] = b
            /\ (Len(s) + m) - 1 = Len(s) + (m - 1)
        BY <1>1
      <3> DEFINE p == Len(s) + m
                 u == s \o t
      <3>2. LastValue(u, p, k, value) =
              IF MemBlocks[u[p]].key = k /\ value[u[p]] # None THEN value[u[p]]
              ELSE LastValue(u, p - 1, k, value)
        <4> HIDE DEF p, u
        <4>1. p \in Nat /\ p # 0
          BY <3>1 DEF p
        <4> QED BY <4>1, LastStep
      <3>3. u[p] = b /\ p - 1 = Len(s) + (m - 1)
        BY <3>1
      <3> QED BY <3>2, <3>3, Zenon
    <2>3. L(m - 1) = IF T(m - 1) # None THEN T(m - 1) ELSE Z
      BY <1>4
    <2> HIDE DEF L, T, Z, b
    <2>4. L(m) = IF T(m) # None THEN T(m) ELSE Z
      BY <2>1, <2>2, <2>3
    <2> QED BY <2>4
  <1>5. 0 .. Len(t) \subseteq S
    <2> HIDE DEF S
    <2> QED BY <1>1, <1>3, <1>4, UpTo, Zenon DEF Climbs
  <1>6. Len(t) \in S
    <2>1. Len(t) \in 0 .. Len(t)
      BY <1>1
    <2> QED BY <1>5, <2>1, Zenon
  <1>7. L(Len(t)) = IF T(Len(t)) # None THEN T(Len(t)) ELSE Z
    BY <1>6
  <1> QED BY <1>1, <1>7

-----------------------------------------------------------------------------
(* Recursion along the bases of a configuration. *)

Configs == DOMAIN MemConfigs
Base(c) == MemConfigs[c].base

LEMMA BaseFacts ==
    /\ \A c \in Configs : Base(c) \in Configs \cup {None}
    /\ Cardinality(Configs) \in Nat
    /\ \A c \in Configs : /\ Depth[c] \in 0 .. Cardinality(Configs)
                          /\ Base(c) # None => Depth[Base(c)] < Depth[c]
    /\ None \notin Configs
  <1>1. Cardinality(Configs) \in Nat
    BY BasesAssumption, FS_CardinalityType DEF Configs
  <1> QED BY <1>1, TableFacts, BasesAssumption, NoneAssumption DEF Configs, Base

\* What holds of a configuration without a base and, if of its base, of one with
\* a base, holds of all.
LEMMA BaseInduction ==
    ASSUME NEW S, \A c \in Configs : Base(c) = None \/ Base(c) \in S => c \in S
    PROVE  Configs \subseteq S
  <1> DEFINE T == {n \in Nat : \A c \in Configs : Depth[c] = n => c \in S}
  <1>1. ASSUME NEW n \in Nat, \A k \in 0 .. n - 1 : k \in T
        PROVE  n \in T
    <2> SUFFICES ASSUME NEW c \in Configs, Depth[c] = n PROVE c \in S
      OBVIOUS
    <2>1. CASE Base(c) = None
      BY <2>1
    <2>2. CASE Base(c) # None
      <3>1. Base(c) \in Configs /\ Depth[Base(c)] \in 0 .. n - 1
        BY <2>2, BaseFacts
      <3>2. Base(c) \in S
        BY <1>1, <3>1
      <3> QED BY <3>2
    <2> QED BY <2>1, <2>2
  <1>2. Nat \subseteq T
    <2> HIDE DEF T
    <2> QED BY <1>1, StrongInduction
  <1>3. \A c \in Configs : Depth[c] \in Nat
    BY BaseFacts
  <1> QED BY <1>2, <1>3

\* f has own for a configuration without a base, and g of the base's value for
\* one with a base.
AlongBases(f, own, g) ==
    f = [c \in Configs |-> IF Base(c) = None THEN own[c] ELSE g[c][f[Base(c)]]]

LEMMA BaseRecursion ==
    ASSUME NEW A, NEW a \in A, NEW own \in [Configs -> A], NEW g \in [Configs -> [A -> A]]
    PROVE  \E f \in [Configs -> A] : AlongBases(f, own, g)
  <1> DEFINE D == Configs \cup {None}
             M == Cardinality(Configs) + 1
             m == [d \in D |-> IF d = None THEN 0 ELSE Depth[d] + 1]
             next == [d \in D |-> IF d = None THEN None ELSE Base(d)]
             h == [d \in D |-> [x \in A |-> IF d = None THEN a
                                            ELSE IF Base(d) = None THEN own[d] ELSE g[d][x]]]
  <1>1. \A d \in D : /\ m[d] \in 0 .. M /\ next[d] \in D /\ (m[d] = 0 <=> d = None)
                     /\ d # None => m[next[d]] < m[d]
    <2> SUFFICES ASSUME NEW d \in D
                 PROVE  /\ m[d] \in 0 .. M /\ next[d] \in D /\ (m[d] = 0 <=> d = None)
                        /\ d # None => m[next[d]] < m[d]
      OBVIOUS
    <2>1. CASE d = None
      BY <2>1, BaseFacts
    <2>2. CASE d # None
      <3>1. d \in Configs /\ m[d] = Depth[d] + 1 /\ next[d] = Base(d)
        BY <2>2
      <3>2. Base(d) \in D /\ m[Base(d)] = IF Base(d) = None THEN 0 ELSE Depth[Base(d)] + 1
        BY <3>1, BaseFacts
      <3>3. Depth[d] \in 0 .. Cardinality(Configs) /\ Cardinality(Configs) \in Nat
        BY <3>1, BaseFacts
      <3>4. Base(d) # None => Depth[Base(d)] \in Nat /\ Depth[Base(d)] < Depth[d]
        BY <3>1, BaseFacts
      <3> HIDE DEF m, next, D
      <3> QED BY <2>2, <3>1, <3>2, <3>3, <3>4
    <2> QED BY <2>1, <2>2
  <1>2. Descends(D, M, m, next)
    <2>1. M \in Nat
      BY BaseFacts
    <2>2. m = [d \in D |-> m[d]] /\ next = [d \in D |-> next[d]]
      OBVIOUS
    <2> HIDE DEF m, next, D, M
    <2>3. m \in [D -> 0 .. M] /\ next \in [D -> D]
      BY <1>1, <2>2
    <2> QED BY <1>1, <2>1, <2>3 DEF Descends
  <1>3. h \in [D -> [A -> A]]
    BY BaseFacts
  <1>4. HasSolution(D, A, m, next, a, h)
    <2> HIDE DEF D, m, next, h, M
    <2> QED BY <1>2, <1>3, RecursionExists
  <1>5. PICK e \in [D -> A] : e = [d \in D |-> IF m[d] = 0 THEN a ELSE h[d][e[next[d]]]]
    BY <1>4 DEF HasSolution
  <1> DEFINE f == [c \in Configs |-> e[c]]
  <1>6. f \in [Configs -> A]
    OBVIOUS
  <1>7. ASSUME NEW c \in Configs
        PROVE  f[c] = IF Base(c) = None THEN own[c] ELSE g[c][f[Base(c)]]
    <2>1. c \in D /\ c # None /\ m[c] # 0 /\ next[c] = Base(c) /\ Base(c) \in D
      BY <1>1, BaseFacts
    <2>2. e[c] = h[c][e[next[c]]]
      <3> HIDE DEF D, m, next, h
      <3> QED BY <1>5, <2>1
    <2>3. e[Base(c)] \in A
      <3> HIDE DEF D
      <3> QED BY <2>1
    <2>4. h[c][e[Base(c)]] = IF Base(c) = None THEN own[c] ELSE g[c][e[Base(c)]]
      <3> HIDE DEF D
      <3> QED BY <2>1, <2>3
    <2>5. Base(c) # None => f[Base(c)] = e[Base(c)]
      BY BaseFacts
    <2>6. f[c] = e[c]
      OBVIOUS
    <2> HIDE DEF f, h
    <2> QED BY <2>1, <2>2, <2>4, <2>5, <2>6
  <1>8. AlongBases(f, own, g)
    <2>1. f = [c \in Configs |-> f[c]]
      OBVIOUS
    <2> HIDE DEF f
    <2> QED BY <1>7, <2>1 DEF AlongBases
  <1> QED BY <1>6, <1>8

LEMMA ConfigBlocksFacts ==
    \A c \in Configs :
       /\ ConfigBlocks[c] \in Seq(DOMAIN MemBlocks)
       /\ ConfigBlocks[c] = IF Base(c) = None THEN MemConfigs[c].blocks
                            ELSE ConfigBlocks[Base(c)] \o MemConfigs[c].blocks
  <1> DEFINE A == Seq(DOMAIN MemBlocks)
             own == [c \in Configs |-> MemConfigs[c].blocks]
             g == [c \in Configs |-> [x \in A |-> x \o MemConfigs[c].blocks]]
             Eqn(R) == R = [c \in Configs |-> IF Base(c) = None THEN MemConfigs[c].blocks
                                              ELSE R[Base(c)] \o MemConfigs[c].blocks]
             B == CHOOSE R : Eqn(R)
  <1>1. \A c \in Configs : MemConfigs[c].blocks \in A
    BY TableFacts DEF Configs
  <1>2. own \in [Configs -> A] /\ g \in [Configs -> [A -> A]] /\ <<>> \in A
    <2>1. \A x, y \in A : x \o y \in A
      OBVIOUS
    <2>2. <<>> \in A
      OBVIOUS
    <2> HIDE DEF A
    <2> QED BY <1>1, <2>1, <2>2
  <1>3. \E f \in [Configs -> A] : AlongBases(f, own, g)
    <2> HIDE DEF A, own, g
    <2> QED BY <1>2, BaseRecursion, Zenon
  <1>4. PICK f \in [Configs -> A] : AlongBases(f, own, g)
    BY <1>3
  <1>5. Eqn(f)
    <2>1. ASSUME NEW c \in Configs
          PROVE  f[c] = IF Base(c) = None THEN MemConfigs[c].blocks
                        ELSE f[Base(c)] \o MemConfigs[c].blocks
      <3>1. f[c] = IF Base(c) = None THEN own[c] ELSE g[c][f[Base(c)]]
        <4> HIDE DEF A, own, g
        <4> QED BY <1>4 DEF AlongBases
      <3>2. own[c] = MemConfigs[c].blocks
        OBVIOUS
      <3>3. Base(c) # None => f[Base(c)] \in A
        <4> HIDE DEF A
        <4> QED BY BaseFacts
      <3>4. Base(c) # None => g[c][f[Base(c)]] = f[Base(c)] \o MemConfigs[c].blocks
        <4> HIDE DEF A
        <4> QED BY <3>3
      <3> HIDE DEF g, own
      <3> QED BY <3>1, <3>2, <3>4
    <2>2. f = [c \in Configs |-> f[c]]
      BY <1>4
    <2> QED BY <2>1, <2>2
  <1>6. Eqn(B)
    <2> HIDE DEF Eqn
    <2> QED BY <1>5
  <1>7. B = ConfigBlocks
    BY Zenon DEF ConfigBlocks, Configs, Base
  <1> HIDE DEF B
  <1>8. \A c \in Configs : B[c] = IF Base(c) = None THEN MemConfigs[c].blocks
                                  ELSE B[Base(c)] \o MemConfigs[c].blocks
    BY <1>6
  <1> DEFINE S == {c \in Configs : B[c] \in A}
  <1>9. \A c \in Configs : Base(c) = None \/ Base(c) \in S => c \in S
    <2>1. \A x, y \in A : x \o y \in A
      OBVIOUS
    <2> HIDE DEF A
    <2> QED BY <1>1, <1>8, <2>1
  <1>10. Configs \subseteq S
    <2> HIDE DEF S
    <2> QED BY <1>9, BaseInduction
  <1> QED BY <1>7, <1>8, <1>10

\* A block's value, for each block, or None.
Values(value) == {value[b] : b \in DOMAIN MemBlocks} \cup {None}

OwnOf(c, k, value) == InClass(MemConfigs[c].blocks, Len(MemConfigs[c].blocks), k, value)

LEMMA NearestFacts ==
    ASSUME NEW value, NEW k
    PROVE  \A c \in Configs :
              Nearest(value, k)[c] =
                 IF OwnOf(c, k, value) # {}
                 THEN value[MemConfigs[c].blocks[Greatest(OwnOf(c, k, value))]]
                 ELSE IF Base(c) # None THEN Nearest(value, k)[Base(c)]
                 ELSE None
  <1> DEFINE last(c) == value[MemConfigs[c].blocks[Greatest(OwnOf(c, k, value))]]
             A == Values(value)
             own == [c \in Configs |-> IF OwnOf(c, k, value) # {} THEN last(c) ELSE None]
             g == [c \in Configs |-> [x \in A |-> IF OwnOf(c, k, value) # {} THEN last(c) ELSE x]]
             Eqn(R) == R = [c \in Configs |-> IF OwnOf(c, k, value) # {} THEN last(c)
                                              ELSE IF Base(c) # None THEN R[Base(c)] ELSE None]
             B == CHOOSE R : Eqn(R)
  <1>1. ASSUME NEW c \in Configs, OwnOf(c, k, value) # {}
        PROVE  last(c) \in A
    <2> DEFINE b == MemConfigs[c].blocks
               S == OwnOf(c, k, value)
    <2>1. b \in Seq(DOMAIN MemBlocks)
      BY TableFacts DEF Configs
    <2>2. S \in SUBSET (1 .. Len(b)) /\ Len(b) \in Nat
      BY <2>1 DEF OwnOf, InClass
    <2>3. Greatest(S) \in 1 .. Len(b)
      <3> HIDE DEF S, b
      <3> QED BY <1>1, <2>2, GreatestExists DEF S
    <2>4. b[Greatest(S)] \in DOMAIN MemBlocks
      <3> HIDE DEF S, b
      <3> QED BY <2>1, <2>3
    <2> QED BY <2>4 DEF Values
  <1>2. own \in [Configs -> A] /\ g \in [Configs -> [A -> A]] /\ None \in A
    <2>1. None \in A
      BY DEF Values
    <2> HIDE DEF A, last
    <2> QED BY <1>1, <2>1
  <1>3. \E f \in [Configs -> A] : AlongBases(f, own, g)
    <2> HIDE DEF A, own, g
    <2> QED BY <1>2, BaseRecursion, Zenon
  <1>4. PICK f \in [Configs -> A] : AlongBases(f, own, g)
    BY <1>3
  <1>5. Eqn(f)
    <2>1. ASSUME NEW c \in Configs
          PROVE  f[c] = IF OwnOf(c, k, value) # {} THEN last(c)
                        ELSE IF Base(c) # None THEN f[Base(c)] ELSE None
      <3>1. f[c] = IF Base(c) = None THEN own[c] ELSE g[c][f[Base(c)]]
        <4> HIDE DEF A, own, g
        <4> QED BY <1>4 DEF AlongBases
      <3>2. own[c] = IF OwnOf(c, k, value) # {} THEN last(c) ELSE None
        <4> HIDE DEF last
        <4> QED OBVIOUS
      <3>3. Base(c) # None => f[Base(c)] \in A
        <4> HIDE DEF A
        <4> QED BY BaseFacts
      <3>4. Base(c) # None => g[c][f[Base(c)]] =
                                IF OwnOf(c, k, value) # {} THEN last(c) ELSE f[Base(c)]
        <4> HIDE DEF A, last
        <4> QED BY <3>3
      <3> HIDE DEF g, own, last
      <3> QED BY <3>1, <3>2, <3>4
    <2>2. f = [c \in Configs |-> f[c]]
      BY <1>4
    <2> HIDE DEF last
    <2> QED BY <2>1, <2>2
  <1>6. Eqn(B)
    <2> HIDE DEF Eqn
    <2> QED BY <1>5
  <1>7. B = Nearest(value, k)
    <2>1. \A c : OwnOf(c, k, value) =
                   {i \in 1 .. Len(MemConfigs[c].blocks) :
                      /\ MemBlocks[MemConfigs[c].blocks[i]].key = k
                      /\ value[MemConfigs[c].blocks[i]] # None}
      BY DEF OwnOf, InClass
    <2> DEFINE own2(c) == {i \in DOMAIN MemConfigs[c].blocks :
                             /\ MemBlocks[MemConfigs[c].blocks[i]].key = k
                             /\ value[MemConfigs[c].blocks[i]] # None}
               rhs(R, c) == IF OwnOf(c, k, value) # {} THEN last(c)
                            ELSE IF Base(c) # None THEN R[Base(c)] ELSE None
               rhs2(R, c) == IF own2(c) # {}
                             THEN value[MemConfigs[c].blocks[Greatest(own2(c))]]
                             ELSE IF MemConfigs[c].base # None THEN R[MemConfigs[c].base]
                             ELSE None
    <2>2. \A c \in Configs : own2(c) = OwnOf(c, k, value)
      <3> SUFFICES ASSUME NEW c \in Configs PROVE own2(c) = OwnOf(c, k, value)
        OBVIOUS
      <3>1. DOMAIN MemConfigs[c].blocks = 1 .. Len(MemConfigs[c].blocks)
        BY TableFacts DEF Configs
      <3> QED BY <2>1, <3>1, Zenon
    <2>3. Nearest(value, k) = CHOOSE R : R = [c \in Configs |-> rhs2(R, c)]
      BY Zenon DEF Nearest, Configs
    <2>4. ASSUME NEW R PROVE [c \in Configs |-> rhs2(R, c)] = [c \in Configs |-> rhs(R, c)]
      <3> SUFFICES ASSUME NEW c \in Configs PROVE rhs2(R, c) = rhs(R, c)
        BY Zenon
      <3>1. own2(c) = OwnOf(c, k, value)
        BY <2>2
      <3> HIDE DEF own2
      <3> QED BY <3>1 DEF Base
    <2>5. \A R : (R = [c \in Configs |-> rhs2(R, c)]) <=> Eqn(R)
      <3> HIDE DEF rhs2
      <3> QED BY <2>4, Zenon
    <2>6. (CHOOSE R : R = [c \in Configs |-> rhs2(R, c)]) = CHOOSE R : Eqn(R)
      <3> HIDE DEF rhs2, Eqn
      <3> QED BY <2>5, Zenon
    <2> QED BY <2>3, <2>6, Zenon
  <1> HIDE DEF B, last
  <1>8. \A c \in Configs : B[c] = IF OwnOf(c, k, value) # {} THEN last(c)
                                  ELSE IF Base(c) # None THEN B[Base(c)] ELSE None
    BY <1>6
  <1> QED BY <1>7, <1>8 DEF last

\* What is nearest is the last of what the configuration's blocks fill in.
LEMMA NearestIsLast ==
    ASSUME NEW value, NEW k, NEW c \in Configs
    PROVE  Nearest(value, k)[c] = LastValue(ConfigBlocks[c], Len(ConfigBlocks[c]), k, value)
  <1> DEFINE R == Nearest(value, k)
             L(d) == LastValue(ConfigBlocks[d], Len(ConfigBlocks[d]), k, value)
             O(d) == LastValue(MemConfigs[d].blocks, Len(MemConfigs[d].blocks), k, value)
             S == {d \in Configs : R[d] = L(d)}
  <1>1. ASSUME NEW d \in Configs
        PROVE  R[d] = IF O(d) # None THEN O(d)
                      ELSE IF Base(d) # None THEN R[Base(d)] ELSE None
    <2>1. Len(MemConfigs[d].blocks) \in Nat
      BY TableFacts DEF Configs
    <2>2. O(d) # None <=> OwnOf(d, k, value) # {}
      BY <2>1, LastNone DEF OwnOf
    <2>3. OwnOf(d, k, value) # {} =>
             O(d) = value[MemConfigs[d].blocks[Greatest(OwnOf(d, k, value))]]
      BY DEF OwnOf, LastValue
    <2> QED BY <2>2, <2>3, NearestFacts
  <1>2. ASSUME NEW d \in Configs
        PROVE  L(d) = IF O(d) # None THEN O(d)
                      ELSE IF Base(d) # None THEN L(Base(d)) ELSE None
    <2>1. MemConfigs[d].blocks \in Seq(DOMAIN MemBlocks)
      BY TableFacts DEF Configs
    <2>2. CASE Base(d) = None
      BY <2>2, ConfigBlocksFacts
    <2>3. CASE Base(d) # None
      <3>1. Base(d) \in Configs
        BY <2>3, BaseFacts
      <3>2. /\ ConfigBlocks[Base(d)] \in Seq(DOMAIN MemBlocks)
            /\ ConfigBlocks[d] = ConfigBlocks[Base(d)] \o MemConfigs[d].blocks
        BY <2>3, <3>1, ConfigBlocksFacts
      <3> DEFINE u == ConfigBlocks[Base(d)]
                 v == MemConfigs[d].blocks
      <3>3. LastValue(u \o v, Len(u \o v), k, value) =
              IF LastValue(v, Len(v), k, value) # None THEN LastValue(v, Len(v), k, value)
              ELSE LastValue(u, Len(u), k, value)
        <4>1. u \in Seq(DOMAIN MemBlocks) /\ v \in Seq(DOMAIN MemBlocks)
          BY <2>1, <3>2
        <4> HIDE DEF u, v
        <4> QED BY <4>1, LastConcat
      <3>4. ConfigBlocks[d] = u \o v
        BY <3>2
      <3> QED BY <2>3, <3>3, <3>4, Zenon
    <2> QED BY <2>2, <2>3
  <1>3. \A d \in Configs : Base(d) = None \/ Base(d) \in S => d \in S
    <2> HIDE DEF R, L, O
    <2> QED BY <1>1, <1>2
  <1>4. Configs \subseteq S
    <2> HIDE DEF S
    <2> QED BY <1>3, BaseInduction
  <1> QED BY <1>4

-----------------------------------------------------------------------------
(* The map that a configuration resolves to. *)

\* The map has an entry of class k with this place and this protection, or none,
\* and there is neither.
AsNamed(mem, k, place, prot) ==
    /\ k \notin KeysOf(mem) => place = None /\ prot = None
    /\ \A e \in EntriesOf(mem) : e.key = k => Place(e) = place /\ e.wrProt = prot

\* A block that is filled in changes what its own class has.
LEMMA NamedStep ==
    ASSUME NEW mem, NEW block \in Blocks, NEW n, Fills(mem, block, n),
           NEW k, NEW place, NEW prot, AsNamed(mem, k, place, prot)
    PROVE  AsNamed(n, k, IF block.key = k THEN Place(block) ELSE place,
                         IF block.key = k /\ block.wrProt # None THEN block.wrProt ELSE prot)
  <1>1. /\ KeysOf(n) = KeysOf(mem) \cup {block.key}
        /\ \A e : e.key # block.key => (e \in EntriesOf(n) <=> e \in EntriesOf(mem))
        /\ \A f \in EntriesOf(n) : f.key = block.key =>
              /\ \A e \in EntriesOf(mem) : e.key = block.key => IsOf(f, block, e.wrProt)
              /\ block.key \notin KeysOf(mem) => IsOf(f, block, None)
    BY Zenon DEF Fills
  <1>2. /\ k \notin KeysOf(mem) => place = None /\ prot = None
        /\ \A e \in EntriesOf(mem) : e.key = k => Place(e) = place /\ e.wrProt = prot
    BY Zenon DEF AsNamed
  <1>3. CASE block.key # k
    <2>1. k \notin KeysOf(n) => place = None /\ prot = None
      BY <1>1, <1>2, <1>3
    <2>2. \A e \in EntriesOf(n) : e.key = k => Place(e) = place /\ e.wrProt = prot
      BY <1>1, <1>2, <1>3, Zenon
    <2> QED BY <1>3, <2>1, <2>2, Zenon DEF AsNamed
  <1>4. CASE block.key = k
    <2> DEFINE after == IF block.wrProt # None THEN block.wrProt ELSE prot
    <2>1. k \in KeysOf(n)
      BY <1>1, <1>4
    <2>2. ASSUME NEW f \in EntriesOf(n), f.key = k
          PROVE  Place(f) = Place(block) /\ f.wrProt = after
      <3>1. CASE k \in KeysOf(mem)
        <4>1. PICK e \in EntriesOf(mem) : e.key = k
          BY <3>1 DEF KeysOf, EntriesOf
        <4>2. IsOf(f, block, e.wrProt) /\ e.wrProt = prot
          BY <1>1, <1>2, <1>4, <2>2, <4>1, Zenon
        <4> QED BY <4>2 DEF IsOf
      <3>2. CASE k \notin KeysOf(mem)
        <4>1. IsOf(f, block, None) /\ prot = None
          BY <1>1, <1>2, <1>4, <2>2, <3>2, Zenon
        <4> QED BY <4>1 DEF IsOf
      <3> QED BY <3>1, <3>2
    <2>3. AsNamed(n, k, Place(block), after)
      <3> HIDE DEF after
      <3> QED BY <2>1, <2>2, Zenon DEF AsNamed
    <2> QED BY <1>4, <2>3
  <1> QED BY <1>3, <1>4

\* A block has a place.
LEMMA PlaceFacts ==
    \A b \in DOMAIN MemBlocks : /\ Places[b] = Place(MemBlocks[b]) /\ Places[b] # None
                                /\ Protections[b] = MemBlocks[b].wrProt
  <1> SUFFICES ASSUME NEW b \in DOMAIN MemBlocks
               PROVE  /\ Places[b] = Place(MemBlocks[b]) /\ Places[b] # None
                      /\ Protections[b] = MemBlocks[b].wrProt
    OBVIOUS
  <1>1. MemBlocks[b] \in Blocks
    BY TableFacts
  <1>2. Place(MemBlocks[b]) \in [start : Nat, size : Nat, access : STRING]
    BY <1>1 DEF Blocks, Place
  <1> QED BY <1>2, NoneAssumption DEF Places, Protections

Standard == {"Cpu", "Eem"}

\* The classes of the first n blocks.
NamedIn(blocks, n) == {MemBlocks[blocks[i]].key : i \in 1 .. n}

\* The map of each class is that of its last blocks, as far as they are filled in.
Resolved(mem, blocks, n) ==
    /\ KeysOf(mem) = Standard \cup NamedIn(blocks, n)
    /\ \A k \in Classes \ Standard :
          AsNamed(mem, k, LastValue(blocks, n, k, Places), LastValue(blocks, n, k, Protections))

LEMMA ResolvedStep ==
    ASSUME NEW blocks \in Seq(DOMAIN MemBlocks), NEW n \in 1 .. Len(blocks),
           NEW mem, NEW after, Fills(mem, MemBlocks[blocks[n]], after),
           Resolved(mem, blocks, n - 1)
    PROVE  Resolved(after, blocks, n)
  <1> DEFINE b == blocks[n]
             block == MemBlocks[b]
  <1>1. n \in Nat /\ n # 0 /\ b \in DOMAIN MemBlocks
    OBVIOUS
  <1>2. block \in Blocks /\ Places[b] = Place(block) /\ Places[b] # None
        /\ Protections[b] = block.wrProt
    BY <1>1, TableFacts, PlaceFacts
  <1>3. KeysOf(after) = Standard \cup NamedIn(blocks, n)
    <2>1. KeysOf(after) = KeysOf(mem) \cup {block.key}
      BY Zenon DEF Fills
    <2>2. KeysOf(mem) = Standard \cup NamedIn(blocks, n - 1)
      BY DEF Resolved
    <2>3. NamedIn(blocks, n) = NamedIn(blocks, n - 1) \cup {block.key}
      <3>1. \A i : i \in 1 .. n <=> i \in 1 .. n - 1 \/ i = n
        BY <1>1
      <3> QED BY <3>1, Zenon DEF NamedIn
    <2> QED BY <2>1, <2>2, <2>3
  <1>4. ASSUME NEW k \in Classes \ Standard
        PROVE  AsNamed(after, k, LastValue(blocks, n, k, Places),
                                 LastValue(blocks, n, k, Protections))
    <2> DEFINE place == LastValue(blocks, n - 1, k, Places)
               prot == LastValue(blocks, n - 1, k, Protections)
    <2>1. AsNamed(mem, k, place, prot)
      BY DEF Resolved
    <2>2. LastValue(blocks, n, k, Places) = IF block.key = k THEN Place(block) ELSE place
      BY <1>1, <1>2, LastStep
    <2>3. LastValue(blocks, n, k, Protections) =
            IF block.key = k /\ block.wrProt # None THEN block.wrProt ELSE prot
      BY <1>1, <1>2, LastStep
    <2> HIDE DEF place, prot, b
    <2>4. AsNamed(after, k, IF block.key = k THEN Place(block) ELSE place,
                     IF block.key = k /\ block.wrProt # None THEN block.wrProt ELSE prot)
      <3>1. Fills(mem, block, after)
        BY DEF b
      <3> HIDE DEF block
      <3> QED BY <1>2, <2>1, <3>1, NamedStep
    <2> QED BY <2>2, <2>3, <2>4, Zenon
  <1> QED BY <1>3, <1>4, Zenon DEF Resolved

\* All the blocks of a list are filled in.
LEMMA FillBlocksResolves ==
    ASSUME NEW o \in Maps, KeysOf(o.mem) = Standard, NEW blocks \in Seq(DOMAIN MemBlocks)
    PROVE  /\ FillBlocks(o, blocks) \in Maps
           /\ Resolved(FillBlocks(o, blocks).mem, blocks, Len(blocks))
  <1>1. PICK f : Steps(o, blocks, f)
    BY FillBlocksSteps
  <1> DEFINE N == Len(blocks)
             S == {n \in 0 .. N : Resolved(f[n].mem, blocks, n)}
  <1>0. N \in Nat
    OBVIOUS
  <1>2. /\ f \in [0 .. N -> Maps] /\ f[0] = o
        /\ \A n \in 1 .. N : f[n].mem = Filled(f[n - 1].mem, MemBlocks[blocks[n]])
        /\ f[N] = FillBlocks(o, blocks)
    BY <1>1 DEF Steps
  <1>3. 0 \in S
    <2>1. NamedIn(blocks, 0) = {}
      BY DEF NamedIn
    <2>2. \A k \in Classes \ Standard : AsNamed(o.mem, k, None, None)
      <3>1. \A e \in EntriesOf(o.mem) : e.key \in Standard
        BY DEF KeysOf, EntriesOf
      <3> QED BY <3>1, Zenon DEF AsNamed
    <2>3. Resolved(o.mem, blocks, 0)
      BY <2>1, <2>2, LastFirst DEF Resolved
    <2> QED BY <1>0, <1>2, <2>3
  <1>4. ASSUME NEW n \in 1 .. N, n - 1 \in S
        PROVE  n \in S
    <2> DEFINE block == MemBlocks[blocks[n]]
               mem == f[n - 1].mem
    <2>1. n \in 0 .. N /\ n - 1 \in 0 .. N /\ f[n - 1] \in Maps /\ f[n].mem = Filled(mem, block)
      BY <1>0, <1>2
    <2>2. block \in Blocks
      BY TableFacts
    <2>3. mem \in Seq(Entries) /\ Distinct(mem)
      BY <2>1 DEF Maps, Profiles
    <2>4. Resolved(mem, blocks, n - 1)
      BY <1>4
    <2> HIDE DEF mem, S
    <2>5. Fills(mem, block, f[n].mem)
      BY <2>1, <2>2, <2>3, FilledFacts
    <2>6. Resolved(f[n].mem, blocks, n)
      BY <2>4, <2>5, ResolvedStep DEF N
    <2> QED BY <2>1, <2>6 DEF S
  <1>5. 0 .. N \subseteq S
    <2> HIDE DEF S, N
    <2> QED BY <1>0, <1>3, <1>4, UpTo, Zenon DEF Climbs
  <1>6. N \in S /\ f[N] \in Maps
    <2>1. N \in 0 .. N
      BY <1>0
    <2> QED BY <1>2, <1>5, <2>1
  <1> QED BY <1>2, <1>6

LEMMA ClearedFacts == ClearedProfile \in Maps /\ KeysOf(ClearedProfile.mem) = {}
  <1>1. <<>> \in Seq(Entries) /\ DOMAIN <<>> = {}
    OBVIOUS
  <1>2. ClearedProfile.mem = <<>>
    BY DEF ClearedProfile
  <1>3. ClearedProfile \in Profiles
    <2> DEFINE m == <<>>
               E == Seq(Entries)
               T == DecodeEemTimer(None)
               no == FALSE
    <2>1. ClearedProfile =
            [mcu |-> 0, arch |-> "Cpu", numBreakpoints |-> 0, hasLocka |-> no,
             onePassErase |-> no, issue1377 |-> no, isFram |-> no, flashTimings |-> None,
             mem |-> m, timers |-> T]
      BY Zenon DEF ClearedProfile
    <2>2. Profiles =
            [mcu : Nat, arch : {"Cpu", "CpuX", "CpuXv2"}, numBreakpoints : Nat, hasLocka : BOOLEAN,
             onePassErase : BOOLEAN, issue1377 : BOOLEAN, isFram : BOOLEAN, flashTimings : STRING \cup {None},
             mem : E, timers : {T}]
      BY Zenon DEF Profiles
    <2>3. m \in E /\ no \in BOOLEAN
      BY <1>1
    <2>4. 0 \in Nat /\ T \in {T} /\ None \in STRING \cup {None}
      OBVIOUS
    <2> HIDE DEF m, E, T, no
    <2> QED BY <2>1, <2>2, <2>3, <2>4
  <1>4. Distinct(<<>>) /\ KeysOf(<<>>) = {}
    BY <1>1 DEF Distinct, KeysOf
  <1> QED BY <1>2, <1>3, <1>4, Zenon DEF Maps

\* What every part has.
LEMMA StandardFacts ==
    LET o == FillBlock(FillBlock(ClearedProfile, MemBlocks["Cpu_0"]), MemBlocks["Eem_0"])
    IN  o \in Maps /\ KeysOf(o.mem) = Standard
  <1> DEFINE p == FillBlock(ClearedProfile, MemBlocks["Cpu_0"])
             o == FillBlock(p, MemBlocks["Eem_0"])
  <1>1. ClearedProfile \in Maps /\ KeysOf(ClearedProfile.mem) = {}
    BY ClearedFacts
  <1>2. /\ MemBlocks["Cpu_0"] \in Blocks /\ MemBlocks["Cpu_0"].key = "Cpu"
        /\ MemBlocks["Eem_0"] \in Blocks /\ MemBlocks["Eem_0"].key = "Eem"
    BY TableFacts, TablesAssumption
  <1>3. p \in Maps /\ Fills(ClearedProfile.mem, MemBlocks["Cpu_0"], p.mem)
    BY <1>1, <1>2, FillBlockInMaps, Zenon
  <1> HIDE DEF p
  <1>4. o \in Maps /\ Fills(p.mem, MemBlocks["Eem_0"], o.mem)
    BY <1>2, <1>3, FillBlockInMaps, Zenon
  <1> HIDE DEF o
  <1>5. KeysOf(o.mem) = Standard
    <2>1. KeysOf(p.mem) = {"Cpu"}
      BY <1>1, <1>2, <1>3 DEF Fills
    <2>2. KeysOf(o.mem) = KeysOf(p.mem) \cup {"Eem"}
      BY <1>2, <1>4 DEF Fills
    <2> QED BY <2>1, <2>2 DEF Standard
  <1> QED BY <1>4, <1>5 DEF o, p

-----------------------------------------------------------------------------
(* The sort. *)

LEMMA KeyFacts ==
    \A k \in Classes : Key(k) \in Int /\ MemoryKeys[Key(k)] = k
  <1> SUFFICES ASSUME NEW k \in Classes PROVE Key(k) \in Int /\ MemoryKeys[Key(k)] = k
    OBVIOUS
  <1>1. \E i \in DOMAIN MemoryKeys : MemoryKeys[i] = k
    BY DEF Classes
  <1>2. Key(k) \in DOMAIN MemoryKeys /\ MemoryKeys[Key(k)] = k
    BY <1>1, Zenon DEF Key
  <1> QED BY <1>2, TablesAssumption

\* The order is strict, and total on entries of different classes.
LEMMA BeforeFacts ==
    ASSUME NEW d \in Entries, NEW e \in Entries, NEW f \in Entries
    PROVE  /\ ~Before(e, e)
           /\ Before(d, e) => ~Before(e, d)
           /\ e.key # d.key => Before(d, e) \/ Before(e, d)
           /\ Before(d, e) /\ Before(e, f) => Before(d, f)
  <1> DEFINE kd == Key(d.key)
             ke == Key(e.key)
             kf == Key(f.key)
  <1>1. kd \in Int /\ ke \in Int /\ kf \in Int
    BY KeyFacts DEF Entries
  <1>2. kd = ke => d.key = e.key
    BY KeyFacts DEF Entries
  <1>3. /\ d.start \in Int /\ d.size \in Int /\ e.start \in Int /\ e.size \in Int
        /\ f.start \in Int /\ f.size \in Int
    BY DEF Entries
  <1>4. \A x, y : Before(x, y) <=> \/ x.start < y.start
                                   \/ x.start = y.start /\ x.size < y.size
                                   \/ x.start = y.start /\ x.size = y.size /\ Key(x.key) > Key(y.key)
    BY DEF Before
  <1> HIDE DEF kd, ke, kf
  <1>5. /\ Before(e, e) <=> FALSE
        /\ Before(d, e) <=> \/ d.start < e.start
                            \/ d.start = e.start /\ d.size < e.size
                            \/ d.start = e.start /\ d.size = e.size /\ kd > ke
        /\ Before(e, d) <=> \/ e.start < d.start
                            \/ e.start = d.start /\ e.size < d.size
                            \/ e.start = d.start /\ e.size = d.size /\ ke > kd
        /\ Before(e, f) <=> \/ e.start < f.start
                            \/ e.start = f.start /\ e.size < f.size
                            \/ e.start = f.start /\ e.size = f.size /\ ke > kf
        /\ Before(d, f) <=> \/ d.start < f.start
                            \/ d.start = f.start /\ d.size < f.size
                            \/ d.start = f.start /\ d.size = f.size /\ kd > kf
    BY <1>1, <1>3, <1>4 DEF kd, ke, kf
  <1> QED BY <1>1, <1>2, <1>3, <1>5

\* Every entry is before those behind it.
InOrder(mem) == \A i, j \in DOMAIN mem : i < j => Before(mem[i], mem[j])

LEMMA SortedFacts ==
    ASSUME NEW mem \in Seq(Entries), Distinct(mem)
    PROVE  /\ Sorted(mem) \in Seq(Entries) /\ Len(Sorted(mem)) = Len(mem)
           /\ Distinct(Sorted(mem)) /\ InOrder(Sorted(mem))
           /\ EntriesOf(Sorted(mem)) = EntriesOf(mem)
  <1> DEFINE n == Len(mem)
             D == DOMAIN mem
             B(i) == {j \in D : Before(mem[j], mem[i])}
             rank == [i \in D |-> Cardinality(B(i)) + 1]
             p == [m \in D |-> CHOOSE i \in D : rank[i] = m]
             s == Sorted(mem)
  <1>1. D = 1 .. n /\ n \in Nat /\ \A i \in D : mem[i] \in Entries
    BY EntryFacts
  <1>2. IsFiniteSet(D) /\ Cardinality(D) = n
    BY <1>1, FS_Interval
  <1>3. \A i, j \in D : i # j => mem[i].key # mem[j].key
    BY DEF Distinct
  <1>4. s = [m \in D |-> mem[p[m]]]
    <2>1. s = [m \in D |-> mem[CHOOSE i \in D : rank[i] = m]]
      BY Zenon DEF Sorted
    <2> HIDE DEF rank, D, s
    <2> QED BY <2>1
  <1> HIDE DEF n, s
  <1>5. ASSUME NEW i \in D
        PROVE  IsFiniteSet(B(i)) /\ Cardinality(B(i)) \in 0 .. n - 1
    <2>1. i \notin B(i)
      BY <1>1, BeforeFacts
    <2>2. B(i) \in SUBSET (D \ {i})
      BY <2>1
    <2>3. IsFiniteSet(D \ {i}) /\ Cardinality(D \ {i}) = n - 1
      BY <1>2, FS_RemoveElement
    <2> HIDE DEF B, D
    <2>4. IsFiniteSet(B(i)) /\ Cardinality(B(i)) <= n - 1
      BY <2>2, <2>3, FS_Subset
    <2>5. Cardinality(B(i)) \in Nat
      BY <2>4, FS_CardinalityType
    <2> QED BY <1>1, <2>4, <2>5
  <1>6. ASSUME NEW i \in D, NEW j \in D, Before(mem[i], mem[j])
        PROVE  rank[i] < rank[j]
    <2>1. i \notin B(i) /\ i \in B(j)
      BY <1>1, <1>6, BeforeFacts
    <2>2. B(i) \subseteq B(j)
      BY <1>1, <1>6, BeforeFacts
    <2>3. B(i) \cup {i} \in SUBSET B(j)
      BY <2>1, <2>2
    <2>4. rank[i] = Cardinality(B(i)) + 1 /\ rank[j] = Cardinality(B(j)) + 1
      OBVIOUS
    <2>5. IsFiniteSet(B(i)) /\ IsFiniteSet(B(j))
          /\ Cardinality(B(i)) \in Nat /\ Cardinality(B(j)) \in Nat
      BY <1>1, <1>5
    <2> HIDE DEF B, rank
    <2>6. Cardinality(B(i) \cup {i}) = Cardinality(B(i)) + 1
      BY <2>1, <2>5, FS_AddElement
    <2>7. Cardinality(B(i) \cup {i}) <= Cardinality(B(j))
      BY <2>3, <2>5, FS_Subset
    <2> QED BY <2>4, <2>5, <2>6, <2>7
  <1>7. \A i \in D : rank[i] \in 1 .. n
    <2> SUFFICES ASSUME NEW i \in D PROVE rank[i] \in 1 .. n
      OBVIOUS
    <2>1. rank[i] = Cardinality(B(i)) + 1
      OBVIOUS
    <2> HIDE DEF B, rank, D
    <2> QED BY <1>1, <1>5, <2>1
  <1>8. \A i, j \in D : i # j => Before(mem[i], mem[j]) \/ Before(mem[j], mem[i])
    BY <1>1, <1>3, BeforeFacts
  <1>9. rank = [i \in D |-> rank[i]]
    OBVIOUS
  <1> HIDE DEF rank, B, D
  <1>10. \A i, j \in D : i # j => rank[i] # rank[j]
    BY <1>1, <1>6, <1>7, <1>8
  <1>11. rank \in Injection(D, D)
    <2>1. rank \in [D -> D]
      BY <1>1, <1>7, <1>9
    <2> QED BY <1>10, <2>1, Zenon DEF Injection, IsInjective
  <1>12. rank \in Surjection(D, D)
    BY <1>2, <1>11, FS_Injection
  <1>13. \A m \in D : p[m] \in D /\ rank[p[m]] = m
    <2> SUFFICES ASSUME NEW m \in D PROVE p[m] \in D /\ rank[p[m]] = m
      OBVIOUS
    <2>1. \E i \in D : rank[i] = m
      BY <1>12 DEF Surjection
    <2> QED BY <2>1
  <1>14. \A m \in D : s[m] = mem[p[m]]
    BY <1>4
  <1>15. DOMAIN s = D /\ \A m \in D : s[m] \in Entries
    BY <1>1, <1>4, <1>13
  <1> HIDE DEF p
  <1>16. s \in Seq(Entries) /\ Len(s) = n
    <2>1. s \in [1 .. n -> Entries]
      BY <1>1, <1>4, <1>15
    <2> QED BY <1>1, <2>1
  <1>17. \A i, j \in D : i # j => p[i] # p[j]
    BY <1>13
  <1>18. Distinct(s)
    BY <1>3, <1>13, <1>14, <1>15, <1>17 DEF Distinct
  <1>19. InOrder(s)
    <2> SUFFICES ASSUME NEW i \in D, NEW j \in D, i < j
                 PROVE  Before(s[i], s[j])
      BY <1>15 DEF InOrder
    <2>1. p[i] \in D /\ p[j] \in D /\ rank[p[i]] = i /\ rank[p[j]] = j /\ p[i] # p[j]
      BY <1>1, <1>13
    <2>2. ~Before(mem[p[j]], mem[p[i]])
      BY <1>1, <1>6, <2>1
    <2> QED BY <1>8, <1>14, <2>1, <2>2
  <1>20. EntriesOf(s) = EntriesOf(mem)
    <2>1. \A i \in D : rank[i] \in D /\ p[rank[i]] = i
      BY <1>1, <1>7, <1>10, <1>13
    <2>2. ASSUME NEW e \in EntriesOf(mem)
          PROVE  e \in EntriesOf(s)
      <3>1. PICK i \in D : e = mem[i]
        BY DEF EntriesOf, D
      <3>2. rank[i] \in D /\ s[rank[i]] = e
        BY <1>14, <2>1, <3>1
      <3> QED BY <1>15, <3>2 DEF EntriesOf
    <2>3. ASSUME NEW e \in EntriesOf(s)
          PROVE  e \in EntriesOf(mem)
      <3>1. PICK m \in D : e = s[m]
        BY <1>15 DEF EntriesOf
      <3> QED BY <1>13, <1>14, <3>1 DEF EntriesOf, D
    <2> QED BY <2>2, <2>3
  <1> QED BY <1>16, <1>18, <1>19, <1>20 DEF s, n

LEMMA KeysAndEntries ==
    \A m, n : EntriesOf(m) = EntriesOf(n) => KeysOf(m) = KeysOf(n)
  <1>1. ASSUME NEW m PROVE KeysOf(m) = {e.key : e \in EntriesOf(m)}
    BY DEF KeysOf, EntriesOf
  <1> QED BY <1>1, Zenon

-----------------------------------------------------------------------------
(* The profile of a record. *)

Config(i) == Devices[i].config

\* The map of a record's profile.
MapOf(mem, i) ==
    /\ mem \in Seq(Entries) /\ Distinct(mem) /\ InOrder(mem)
    /\ Resolved(mem, ConfigBlocks[Config(i)], Len(ConfigBlocks[Config(i)]))

LEMMA ConfigFacts == \A i \in DOMAIN Devices : Config(i) \in Configs
  <1> DEFINE R == [name : STRING, ver : Nat, sub : Nat \cup {None}, rev : Nat \cup {None},
                   cfg : Nat \cup {None}, fuse : Nat \cup {None},
                   fuseMask : Nat, fab : Nat \cup {None},
                   self : Nat \cup {None}, slau : Nat, eem : STRING,
                   tlvClash : BOOLEAN, config : DOMAIN MemConfigs,
                   timers : Nat \cup {None}, issue1377 : BOOLEAN]
  <1> SUFFICES ASSUME NEW i \in DOMAIN Devices PROVE Config(i) \in Configs
    OBVIOUS
  <1>1. Devices \in Seq(R)
    BY Zenon, DevicesAssumption
  <1>2. Devices[i] \in R
    <2> HIDE DEF R
    <2> QED BY <1>1
  <1> QED BY <1>2 DEF Config, Configs

LEMMA LoadFacts ==
    ASSUME NEW i \in DOMAIN Devices, NEW old
    PROVE  /\ LoadRecord(old, i).mcu = i
           /\ LoadRecord(old, i).arch \in {"Cpu", "CpuX", "CpuXv2"}
           /\ MapOf(LoadRecord(old, i).mem, i)
  <1> DEFINE standard == FillBlock(FillBlock(ClearedProfile, MemBlocks["Cpu_0"]), MemBlocks["Eem_0"])
             blocks == ConfigBlocks[Config(i)]
             map == FillBlocks(standard, blocks)
  <1>1. /\ LoadRecord(old, i).mcu = i
        /\ LoadRecord(old, i).arch = Arch(i)
        /\ LoadRecord(old, i).mem = Sorted(map.mem)
    BY DEF LoadRecord, FillDevice, FillMemory, Config
  <1>2. Arch(i) \in {"Cpu", "CpuX", "CpuXv2"}
    BY DEF Arch
  <1>3. blocks \in Seq(DOMAIN MemBlocks)
    BY ConfigFacts, ConfigBlocksFacts
  <1>4. standard \in Maps /\ KeysOf(standard.mem) = Standard
    BY StandardFacts, Zenon
  <1> HIDE DEF standard, blocks
  <1>5. map \in Maps /\ Resolved(map.mem, blocks, Len(blocks))
    BY <1>3, <1>4, FillBlocksResolves
  <1>6. map.mem \in Seq(Entries) /\ Distinct(map.mem)
    BY <1>5 DEF Maps, Profiles
  <1> DEFINE mem == map.mem
             s == Sorted(mem)
  <1> HIDE DEF map
  <1>7. s \in Seq(Entries) /\ Distinct(s) /\ InOrder(s) /\ EntriesOf(s) = EntriesOf(mem)
    BY <1>6, SortedFacts
  <1>8. KeysOf(s) = KeysOf(mem)
    BY <1>7, KeysAndEntries, Zenon
  <1>9. Resolved(s, blocks, Len(blocks))
    BY <1>5, <1>7, <1>8, Zenon DEF Resolved, AsNamed
  <1>10. MapOf(s, i)
    BY <1>7, <1>9 DEF MapOf, blocks
  <1> QED BY <1>1, <1>2, <1>10

\* The search returns a record, or none.
LEMMA FindType == \A q : Find(q) \in DOMAIN Devices \cup {0}
  <1> SUFFICES ASSUME NEW q PROVE Find(q) \in DOMAIN Devices \cup {0}
    OBVIOUS
  <1> DEFINE of == {i \in DOMAIN Devices : Devices[i].ver = q.ver}
             L(i) == Match(Devices[i], q)
             best == {i \in of : \A j \in of : L(j) <= L(i)}
             levels == {L(i) + 1 : i \in of}
  <1>1. CASE of = {}
    BY <1>1 DEF Find
  <1>2. CASE of # {}
    <2>1. \A i \in of : L(i) \in 0 .. 4
      BY MatchLevels DEF kFull
    <2> HIDE DEF L
    <2>2. levels # {}
      BY <1>2
    <2>3. levels \in SUBSET (1 .. 5)
      BY <2>1
    <2>4. Greatest(levels) \in levels /\ \A l \in levels : l <= Greatest(levels)
      <3> HIDE DEF levels
      <3> QED BY <2>2, <2>3, GreatestExists
    <2>5. PICK i \in of : Greatest(levels) = L(i) + 1
      BY <2>4
    <2>6. \A j \in of : L(j) + 1 <= L(i) + 1
      BY <2>4, <2>5
    <2>7. i \in best
      BY <2>1, <2>6
    <2>8. best \in SUBSET (1 .. Len(Devices)) /\ Len(Devices) \in Nat
      BY DevicesFacts
    <2>9. Greatest(best) \in best
      <3> HIDE DEF best
      <3> QED BY <2>7, <2>8, GreatestExists
    <2>10. Find(q) = Greatest(best)
      BY <1>2 DEF Find, L
    <2> QED BY <2>9, <2>10
  <1> QED BY <1>1, <1>2

\* What is true of the profile at all times: it is all zero, or that of a record.
ProfileInv ==
    /\ chip.mcu \in DOMAIN Devices \cup {0}
    /\ chip.mcu = 0 => chip.mem = <<>>
    /\ chip.mcu # 0 => MapOf(chip.mem, chip.mcu)

\* And what TapMcu has besides.
DriverInv ==
    /\ phase \in {"closed", "opened", "default", "probed"}
    /\ driver \in {"430", "430X", "430Xv2", "430Xv2_1377"}
    /\ phase = "default" => driver \in {"430", "430X", "430Xv2"}
    /\ query \in Queries \cup {None}

ChipInv == ProfileInv /\ DriverInv

LEMMA LoadedProfile ==
    ASSUME NEW i \in DOMAIN Devices, chip' = LoadRecord(chip, i)
    PROVE  ProfileInv' /\ chip'.arch \in {"Cpu", "CpuX", "CpuXv2"}
  <1>1. i # 0
    BY DevicesFacts
  <1>2. /\ LoadRecord(chip, i).mcu = i /\ MapOf(LoadRecord(chip, i).mem, i)
        /\ LoadRecord(chip, i).arch \in {"Cpu", "CpuX", "CpuXv2"}
    BY LoadFacts
  <1> QED BY <1>1, <1>2, Zenon DEF ProfileInv

LEMMA DefaultFacts ==
    \A d \in {"430", "430X", "430Xv2"} : DefaultDevice[d] \in DOMAIN Devices
  BY DevicesAssumption

LEMMA InitChip == Init => ChipInv
  BY DEF Init, ChipInv, ProfileInv, DriverInv, ClearedProfile

LEMMA NextChip == ChipInv /\ [Next]_vars => ChipInv'
  <1> SUFFICES ASSUME ChipInv, [Next]_vars PROVE ChipInv'
    OBVIOUS
  <1>1. CASE Open
    <2>1. chip' = LoadRecord(chip, DefaultDevice["430"]) /\ DefaultDevice["430"] \in DOMAIN Devices
      BY <1>1, DefaultFacts DEF Open
    <2>2. ProfileInv'
      BY <2>1, LoadedProfile
    <2>3. DriverInv'
      BY <1>1 DEF Open, DriverInv
    <2> QED BY <2>2, <2>3 DEF ChipInv
  <1>2. CASE InitDevice
    <2>1. driver' \in {"430", "430X", "430Xv2"} /\ chip' = LoadRecord(chip, DefaultDevice[driver'])
      BY <1>2 DEF InitDevice
    <2>2. ProfileInv'
      BY <2>1, DefaultFacts, LoadedProfile
    <2>3. DriverInv'
      BY <1>2, <2>1 DEF InitDevice, DriverInv
    <2> QED BY <2>2, <2>3 DEF ChipInv
  <1>3. CASE ProbeId
    <2> DEFINE i == IF Find(query) = 0 THEN DefaultDevice[driver] ELSE Find(query)
    <2>1. chip' = LoadRecord(chip, i) /\ driver' = DriverOf(chip') /\ phase = "default"
      BY <1>3 DEF ProbeId
    <2>2. i \in DOMAIN Devices
      BY <2>1, FindType, DefaultFacts DEF ChipInv, DriverInv
    <2> HIDE DEF i
    <2>3. ProfileInv' /\ chip'.arch \in {"Cpu", "CpuX", "CpuXv2"}
      BY <2>1, <2>2, LoadedProfile
    <2>4. driver' \in {"430", "430X", "430Xv2", "430Xv2_1377"}
      BY <2>1, <2>3 DEF DriverOf
    <2>5. DriverInv'
      BY <1>3, <2>4 DEF ProbeId, ChipInv, DriverInv
    <2> QED BY <2>3, <2>5 DEF ChipInv
  <1>4. CASE Close
    BY <1>4 DEF Close, ChipInv, ProfileInv, DriverInv
  <1>5. CASE UNCHANGED vars
    BY <1>5 DEF vars, ChipInv, ProfileInv, DriverInv
  <1> QED BY <1>1, <1>2, <1>3, <1>4, <1>5 DEF Next

LEMMA ChipAlways == Spec => []ChipInv
  BY InitChip, NextChip, PTL DEF Spec

\* A map of distinct classes has at most as many entries as there are classes.
LEMMA EntriesFit ==
    ASSUME NEW mem \in Seq(Entries), Distinct(mem)
    PROVE  Len(mem) <= Cardinality(KeysOf(mem))
  <1> DEFINE D == DOMAIN mem
             K == KeysOf(mem)
             f == [i \in D |-> mem[i].key]
  <1>1. D = 1 .. Len(mem) /\ Len(mem) \in Nat
    BY EntryFacts
  <1>2. IsFiniteSet(D) /\ Cardinality(D) = Len(mem)
    BY <1>1, FS_Interval
  <1>3. f \in [D -> K] /\ \A i, j \in D : i # j => f[i] # f[j]
    BY DEF Distinct, KeysOf
  <1>4. \A k \in K : \E i \in D : f[i] = k
    BY DEF KeysOf
  <1> HIDE DEF D, K, f
  <1>5. f \in Injection(D, K)
    BY <1>3, Zenon DEF Injection, IsInjective
  <1>6. f \in Surjection(D, K)
    BY <1>3, <1>4 DEF Surjection
  <1>7. IsFiniteSet(K)
    BY <1>2, <1>6, FS_Surjection
  <1>8. Cardinality(D) <= Cardinality(K)
    BY <1>5, <1>7, FS_Injection
  <1> QED BY <1>2, <1>8 DEF K

LEMMA KeysFinite ==
    ASSUME NEW mem \in Seq(Entries)
    PROVE  IsFiniteSet(KeysOf(mem))
  <1> DEFINE D == DOMAIN mem
             K == KeysOf(mem)
             f == [i \in D |-> mem[i].key]
  <1>1. IsFiniteSet(D)
    BY EntryFacts, FS_Interval
  <1>2. f \in [D -> K] /\ \A k \in K : \E i \in D : f[i] = k
    BY DEF KeysOf
  <1> HIDE DEF D, K, f
  <1>3. f \in Surjection(D, K)
    BY <1>2 DEF Surjection
  <1> QED BY <1>1, <1>3, FS_Surjection DEF K

\* The profile keeps its shape, and a session its driver, whatever the database
\* says: a map never has two entries of a class, and never more than mem_ holds.
THEOREM ProfileTypeCorrect == Spec => []TypeOK
  <1>1. ChipInv => TypeOK
    <2> SUFFICES ASSUME ChipInv PROVE TypeOK
      OBVIOUS
    <2>1. query # None => DOMAIN query = Fields \cup {"ver"}
      <3> SUFFICES ASSUME query \in Queries PROVE DOMAIN query = Fields \cup {"ver"}
        BY DEF ChipInv, DriverInv
      <3> QED BY QueriesAssumption DEF Fields
    <2>2. chip.mcu \in 0 .. Len(Devices)
      BY DevicesFacts DEF ChipInv, ProfileInv
    <2>3. CASE chip.mcu = 0
      <3>1. chip.mem = <<>>
        BY <2>3 DEF ChipInv, ProfileInv
      <3>2. Len(chip.mem) <= MaxMemConfigs /\ DOMAIN chip.mem = {}
        BY <3>1, MaxMemConfigsAssumption
      <3> QED BY <2>1, <2>2, <3>2 DEF ChipInv, DriverInv, TypeOK
    <2>4. CASE chip.mcu # 0
      <3> DEFINE c == Config(chip.mcu)
                 blocks == ConfigBlocks[c]
                 mem == chip.mem
      <3>1. chip.mcu \in DOMAIN Devices /\ MapOf(mem, chip.mcu)
        BY <2>4 DEF ChipInv, ProfileInv
      <3>2. blocks \in Seq(DOMAIN MemBlocks)
        BY <3>1, ConfigFacts, ConfigBlocksFacts
      <3>3. mem \in Seq(Entries) /\ Distinct(mem) /\ KeysOf(mem) = Standard \cup NamedIn(blocks, Len(blocks))
        BY <3>1 DEF MapOf, Resolved
      <3>4. KeysOf(mem) = ClassesOf(c)
        <4>1. DOMAIN blocks = 1 .. Len(blocks)
          BY <3>2
        <4> QED BY <3>3, <4>1, Zenon DEF ClassesOf, NamedIn, Standard
      <3>5. Cardinality(ClassesOf(c)) <= MaxMemConfigs
        BY <3>1, MaxMemConfigsAssumption DEF Config
      <3> HIDE DEF c, mem
      <3>6. Len(mem) <= Cardinality(ClassesOf(c))
        BY <3>3, <3>4, EntriesFit
      <3>7. Len(mem) \in Nat /\ MaxMemConfigs \in Nat
        BY <3>3, MaxMemConfigsAssumption
      <3>8. Cardinality(ClassesOf(c)) \in Nat
        BY <3>3, <3>4, KeysFinite, FS_CardinalityType
      <3>9. Len(mem) <= MaxMemConfigs
        BY <3>5, <3>6, <3>7, <3>8
      <3> QED BY <2>1, <2>2, <3>3, <3>9 DEF ChipInv, DriverInv, TypeOK, Distinct, mem
    <2> QED BY <2>3, <2>4
  <1> QED BY <1>1, ChipAlways, PTL

\* The map of the part is what its configuration resolves to: for each class the
\* most derived place and the most derived protection, with nothing of a chip
\* that was loaded before (FillMemory, MemoryBlock_::Fill, CompleteLoad).
THEOREM MapResolves == Spec => []MapIsOverride
  <1>1. ChipInv => MapIsOverride
    <2> SUFFICES ASSUME ChipInv, chip.mcu # 0, NEW k \in Classes \ {"Cpu", "Eem"}
                 PROVE  LET c == Devices[chip.mcu].config
                            entry == {j \in DOMAIN chip.mem : chip.mem[j].key = k}
                        IN IF entry = {} THEN Nearest(Places, k)[c] = None
                           ELSE \A j \in entry :
                                  /\ Place(chip.mem[j]) = Nearest(Places, k)[c]
                                  /\ chip.mem[j].wrProt = Nearest(Protections, k)[c]
      BY Zenon DEF MapIsOverride
    <2> DEFINE c == Devices[chip.mcu].config
               mem == chip.mem
               entry == {j \in DOMAIN mem : mem[j].key = k}
               blocks == ConfigBlocks[c]
    <2>1. chip.mcu \in DOMAIN Devices /\ MapOf(mem, chip.mcu) /\ c = Config(chip.mcu)
      BY DEF ChipInv, ProfileInv, Config
    <2>2. c \in Configs
      BY <2>1, ConfigFacts
    <2>3. /\ Nearest(Places, k)[c] = LastValue(blocks, Len(blocks), k, Places)
          /\ Nearest(Protections, k)[c] = LastValue(blocks, Len(blocks), k, Protections)
      BY <2>2, NearestIsLast
    <2>4. AsNamed(mem, k, LastValue(blocks, Len(blocks), k, Places),
                          LastValue(blocks, Len(blocks), k, Protections))
      <3>1. Resolved(mem, blocks, Len(blocks))
        BY <2>1 DEF MapOf
      <3> QED BY <3>1 DEF Resolved, Standard
    <2> DEFINE place == Nearest(Places, k)[c]
               prot == Nearest(Protections, k)[c]
    <2>5. AsNamed(mem, k, place, prot)
      BY <2>3, <2>4, Zenon
    <2> HIDE DEF place, prot, mem
    <2>6. entry = {} => place = None
      <3>1. entry = {} => k \notin KeysOf(mem)
        BY DEF KeysOf
      <3> QED BY <2>5, <3>1 DEF AsNamed
    <2>7. \A j \in entry : Place(mem[j]) = place /\ mem[j].wrProt = prot
      <3>1. \A j \in entry : mem[j] \in EntriesOf(mem) /\ mem[j].key = k
        BY DEF EntriesOf
      <3> QED BY <2>5, <3>1, Zenon DEF AsNamed
    <2> QED BY <2>6, <2>7 DEF place, prot, mem
  <1> QED BY <1>1, ChipAlways, PTL

\* Every address is found in the first block that holds it, in none if none does,
\* for every map that is sorted (FindMemByAddress, cmp).
THEOREM LookupsAreExact == Spec => []LookupExact
  <1>1. ChipInv => LookupExact
    <2> SUFFICES ASSUME ChipInv, NEW a \in Borders
                 PROVE  LET b == FindMemByAddress(a)
                            holding == {i \in DOMAIN chip.mem : Holds(chip.mem[i], a)}
                        IN IF b = None THEN holding = {}
                           ELSE /\ Holds(b, a)
                                /\ \A i \in holding :
                                      \/ b.start < chip.mem[i].start
                                      \/ b.start = chip.mem[i].start /\ b.size <= chip.mem[i].size
      BY Zenon DEF LookupExact
    <2> DEFINE mem == chip.mem
               D == DOMAIN mem
               b == FindMemByAddress(a)
               holding == {i \in D : Holds(mem[i], a)}
               exact == IF b = None THEN holding = {}
                        ELSE /\ Holds(b, a)
                             /\ \A i \in holding :
                                   \/ b.start < mem[i].start
                                   \/ b.start = mem[i].start /\ b.size <= mem[i].size
    <2> SUFFICES exact
      OBVIOUS
    <2>1. mem \in Seq(Entries) /\ InOrder(mem)
      <3>1. CASE chip.mcu = 0
        <4>1. mem = <<>>
          BY <3>1 DEF ChipInv, ProfileInv
        <4>2. <<>> \in Seq(Entries) /\ DOMAIN <<>> = {}
          OBVIOUS
        <4> QED BY <4>1, <4>2 DEF InOrder
      <3>2. CASE chip.mcu # 0
        BY <3>2 DEF ChipInv, ProfileInv, MapOf
      <3> QED BY <3>1, <3>2
    <2>2. D = 1 .. Len(mem) /\ Len(mem) \in Nat /\ \A i \in D : mem[i] \in Entries
      BY <2>1, EntryFacts
    <2>3. a \in Int
      <3>1. PICK m \in Range(mem) : a \in {m.start - 1, m.start, m.start + m.size - 1, m.start + m.size}
        BY DEF Borders
      <3>2. m \in Entries
        BY <2>2, <3>1 DEF Range
      <3>3. m.start \in Nat /\ m.size \in Nat
        BY <3>2 DEF Entries
      <3> QED BY <3>1, <3>3
    <2>4. \A i \in D : /\ mem[i].start \in Nat /\ mem[i].size \in Nat /\ mem[i].mapped \in BOOLEAN
                       /\ mem[i] # None
      BY <2>2, NoneAssumption DEF Entries
    <2>5. \A i \in D : Holds(mem[i], a) <=> /\ mem[i].mapped
                                            /\ mem[i].start <= a
                                            /\ a < mem[i].start + mem[i].size
      BY <2>3, <2>4 DEF Holds
    <2>6. b = IF holding = {} THEN None ELSE mem[Least(holding)]
      <3>1. holding = {i \in D : /\ mem[i].mapped
                                 /\ mem[i].start <= a
                                 /\ a < mem[i].start + mem[i].size}
        BY <2>5
      <3> QED BY <3>1, Zenon DEF FindMemByAddress
    <2> HIDE DEF b
    <2>7. CASE holding = {}
      BY <2>6, <2>7
    <2>8. CASE holding # {}
      <3> DEFINE n == Least(holding)
      <3>1. n \in holding /\ \A i \in holding : n <= i
        <4>1. holding \in SUBSET Nat
          BY <2>2
        <4> HIDE DEF holding
        <4> QED BY <2>8, <4>1, LeastExists
      <3>2. n \in D /\ Holds(mem[n], a) /\ b = mem[n] /\ b # None
        BY <2>4, <2>6, <2>8, <3>1
      <3> HIDE DEF n
      <3>3. ASSUME NEW i \in holding
            PROVE  \/ b.start < mem[i].start
                   \/ b.start = mem[i].start /\ b.size <= mem[i].size
        <4>1. i \in D /\ n <= i
          BY <3>1
        <4>2. CASE n = i
          BY <2>4, <3>2, <4>1, <4>2
        <4>3. CASE n # i
          <5>1. n < i
            BY <2>2, <3>2, <4>1, <4>3
          <5>2. Before(mem[n], mem[i])
            BY <2>1, <3>2, <4>1, <5>1 DEF InOrder
          <5> QED BY <2>4, <3>2, <4>1, <5>2 DEF Before
        <4> QED BY <4>2, <4>3
      <3> QED BY <3>2, <3>3
    <2> QED BY <2>7, <2>8 DEF b
  <1> QED BY <1>1, ChipAlways, PTL
=============================================================================
