------------------------- MODULE SectorCacheProofs -------------------------
(***************************************************************************)
(* Proofs about SectorCache, for every size of the cache, of the drive, of *)
(* a request and of a run that is flushed at once: that the cache is in    *)
(* order after each step, whatever the raw device does, and that the drive *)
(* and the cache are together a SectorStore until it fails.                *)
(*                                                                         *)
(* The inductive invariant is CacheInv, to which Faithful is added for the *)
(* contents.  Dirty slots have to be in use, or what they hold could not   *)
(* be found; the sectors that a read has yet to put into the cache have to *)
(* be absent from it, or one would get a second slot.                      *)
(***************************************************************************)
EXTENDS SectorCache, TLAPS, SequenceTheorems, FiniteSetTheorems, WellFoundedInduction

(* Least numbers: the loops of cache_getFlushableRange and                   *)
(* cache_getUncachedSectorCount stop at the first sector that ends a run.    *)

NatLess == {p \in Nat \X Nat : p[1] < p[2]}

LEMMA NatLessWellFounded == IsWellFoundedOn(NatLess, Nat)
<1>1. OpToRel(<, Nat) = NatLess
  BY DEF OpToRel, NatLess
<1> QED BY <1>1, NatLessThanWellFounded

\* A set of numbers that is not empty has a least one.
LEMMA LeastNumber ==
  ASSUME NEW T, T \subseteq Nat, T # {}
  PROVE  \E n \in T : \A m \in T : n <= m
<1>1. PICK n \in T : \A m \in T : <<m, n>> \notin NatLess
  BY NatLessWellFounded, WFMin
<1>2. ASSUME NEW m \in T PROVE n <= m
  <2>1. m \in Nat /\ n \in Nat
    OBVIOUS
  <2>2. ~(m < n)
    BY <1>1, <2>1 DEF NatLess
  <2> QED BY <2>1, <2>2
<1> QED BY <1>2

-----------------------------------------------------------------------------
(* Lists without repetition, and what their operations do to the set of      *)
(* their entries.                                                            *)

\* What it is to be in a list.
LEMMA Entries ==
  ASSUME NEW S, NEW q \in Seq(S)
  PROVE  /\ Len(q) \in Nat /\ DOMAIN q = 1..Len(q)
         /\ \A k \in 1..Len(q) : q[k] \in S /\ q[k] \in ToSet(q)
         /\ \A x : x \in ToSet(q) <=> \E k \in 1..Len(q) : q[k] = x
         /\ ToSet(q) \subseteq S
         /\ q = <<>> <=> ToSet(q) = {}
         /\ q = <<>> <=> Len(q) = 0
  BY LenProperties, ElementOfSeq, EmptySeq DEF ToSet

\* Taking the last entry.
LEMMA TakeLast ==
  ASSUME NEW S, NEW q \in Seq(S), q # <<>>, IsInjective(q)
  PROVE  LET r == SubSeq(q, 1, Len(q) - 1)
             x == q[Len(q)]
         IN  /\ r \in Seq(S) /\ Len(r) = Len(q) - 1
             /\ x \in S /\ x \in ToSet(q)
             /\ IsInjective(r) /\ ToSet(r) = ToSet(q) \ {x}
<1> DEFINE r == SubSeq(q, 1, Len(q) - 1)
           x == q[Len(q)]
<1>0. Len(q) \in Nat \ {0}
  BY EmptySeq
<1>1. Len(q) \in Nat \ {0} /\ DOMAIN q = 1..Len(q) /\ \A k \in 1..Len(q) : q[k] \in S
  BY LenProperties, EmptySeq, ElementOfSeq
<1>2. /\ r \in Seq(S) /\ Len(r) = Len(q) - 1
      /\ \A k \in 1..(Len(q) - 1) : r[k] = q[k]
  BY <1>1, SubSeqProperties
<1>3. DOMAIN r = 1..(Len(q) - 1)
  BY <1>2, LenProperties
<1>4. x \in S /\ x \in ToSet(q) /\ x = q[Len(q)]
  BY <1>1 DEF ToSet
<1> HIDE DEF r, x
<1>5. IsInjective(r)
  BY <1>1, <1>2, <1>3 DEF IsInjective
<1>6. ToSet(r) = ToSet(q) \ {x}
  <2>1. ASSUME NEW y \in ToSet(r) PROVE y \in ToSet(q) \ {x}
    <3>1. PICK k \in 1..(Len(q) - 1) : y = q[k]
      BY <1>2, <1>3 DEF ToSet
    <3>2. k \in 1..Len(q) /\ Len(q) \in 1..Len(q) /\ k # Len(q)
      BY <1>0
    <3> QED BY <1>1, <1>4, <3>1, <3>2 DEF IsInjective, ToSet
  <2>2. ASSUME NEW y \in ToSet(q) \ {x} PROVE y \in ToSet(r)
    <3>1. PICK k \in 1..Len(q) : y = q[k]
      BY <1>1 DEF ToSet
    <3>2. k \in 1..(Len(q) - 1) /\ r[k] = y
      BY <1>1, <1>2, <1>4, <3>1
    <3> QED BY <1>3, <3>2 DEF ToSet
  <2> QED BY <2>1, <2>2
<1> QED BY <1>2, <1>4, <1>5, <1>6 DEF r, x

\* Taking the first one.
LEMMA TakeFirst ==
  ASSUME NEW S, NEW q \in Seq(S), q # <<>>, IsInjective(q)
  PROVE  /\ Tail(q) \in Seq(S) /\ Len(Tail(q)) = Len(q) - 1
         /\ Head(q) \in S /\ Head(q) \in ToSet(q)
         /\ IsInjective(Tail(q)) /\ ToSet(Tail(q)) = ToSet(q) \ {Head(q)}
<1> DEFINE r == Tail(q)
<1>1. Len(q) \in Nat \ {0} /\ DOMAIN q = 1..Len(q) /\ \A k \in 1..Len(q) : q[k] \in S
  BY LenProperties, EmptySeq, ElementOfSeq
<1>2. /\ r \in Seq(S) /\ Len(r) = Len(q) - 1 /\ Head(q) = q[1]
      /\ \A k \in 1..(Len(q) - 1) : r[k] = q[k + 1]
  BY <1>1, HeadTailProperties
<1>3. DOMAIN r = 1..(Len(q) - 1)
  BY <1>2, LenProperties
<1>4. Head(q) \in S /\ Head(q) \in ToSet(q)
  BY <1>1, <1>2 DEF ToSet
<1>5. IsInjective(r)
  BY <1>1, <1>2, <1>3 DEF IsInjective
<1>6. ToSet(r) = ToSet(q) \ {Head(q)}
  <2>1. ASSUME NEW x \in ToSet(r) PROVE x \in ToSet(q) \ {Head(q)}
    <3>1. PICK k \in 1..(Len(q) - 1) : x = r[k]
      BY <1>3 DEF ToSet
    <3>2. k + 1 \in 1..Len(q) /\ k + 1 # 1 /\ x = q[k + 1] /\ 1 \in 1..Len(q)
      BY <1>1, <1>2, <3>1
    <3> QED BY <1>1, <1>2, <3>2 DEF IsInjective, ToSet
  <2>2. ASSUME NEW x \in ToSet(q) \ {Head(q)} PROVE x \in ToSet(r)
    <3>1. PICK k \in 1..Len(q) : x = q[k]
      BY <1>1 DEF ToSet
    <3>2. k - 1 \in 1..(Len(q) - 1) /\ r[k - 1] = x
      BY <1>1, <1>2, <3>1
    <3> QED BY <1>3, <3>2 DEF ToSet
  <2> QED BY <2>1, <2>2
<1> QED BY <1>2, <1>4, <1>5, <1>6

\* Adding a new entry at the end.
LEMMA AddLast ==
  ASSUME NEW S, NEW q \in Seq(S), IsInjective(q), NEW x \in S, x \notin ToSet(q)
  PROVE  /\ Append(q, x) \in Seq(S) /\ Len(Append(q, x)) = Len(q) + 1
         /\ IsInjective(Append(q, x)) /\ ToSet(Append(q, x)) = ToSet(q) \cup {x}
<1> DEFINE r == Append(q, x)
<1>1. Len(q) \in Nat /\ DOMAIN q = 1..Len(q)
  BY LenProperties
<1>2. /\ r \in Seq(S) /\ Len(r) = Len(q) + 1
      /\ \A k \in 1..Len(q) : r[k] = q[k]
      /\ r[Len(q) + 1] = x
  BY AppendProperties, LenProperties
<1>3. DOMAIN r = 1..(Len(q) + 1)
  BY <1>2, LenProperties
<1>4. \A k \in 1..Len(q) : q[k] # x
  BY <1>1 DEF ToSet
<1>5. IsInjective(r)
  BY <1>1, <1>2, <1>3, <1>4 DEF IsInjective
<1>6. ToSet(r) = ToSet(q) \cup {x}
  BY <1>1, <1>2, <1>3 DEF ToSet
<1> QED BY <1>2, <1>5, <1>6

\* cache_makeMRU changes the order only.
LEMMA ToBackFacts ==
  ASSUME NEW S, NEW q \in Seq(S), IsInjective(q), NEW x \in ToSet(q)
  PROVE  /\ ToBack(q, x) \in Seq(S) /\ Len(ToBack(q, x)) = Len(q)
         /\ IsInjective(ToBack(q, x)) /\ ToSet(ToBack(q, x)) = ToSet(q)
<1> DEFINE at == CHOOSE k \in 1..Len(q) : q[k] = x
           n == Len(q)
           r == [k \in 1..n |-> IF k < at THEN q[k] ELSE IF k < n THEN q[k + 1] ELSE x]
<1>1. n \in Nat /\ DOMAIN q = 1..n /\ \A k \in 1..n : q[k] \in S
  BY LenProperties, ElementOfSeq
<1>2. at \in 1..n /\ q[at] = x
  BY <1>1 DEF ToSet
<1>3. ToBack(q, x) = r
  BY DEF ToBack
<1> HIDE DEF at
<1>4. \A k \in 1..n : r[k] \in S
  BY <1>1, <1>2
<1>5. r \in Seq(S)
  BY <1>1, <1>4, IsASeq
<1>6. DOMAIN r = 1..n /\ Len(r) = n
  BY <1>1, <1>5, LenProperties
<1>7. IsInjective(r)
  <2> SUFFICES ASSUME NEW j \in 1..n, NEW k \in 1..n, r[j] = r[k] PROVE j = k
    BY <1>6 DEF IsInjective
  <2>1. \A a, b \in 1..n : q[a] = q[b] => a = b
    BY <1>1 DEF IsInjective
  <2> QED BY <1>1, <1>2, <2>1
<1>8. ToSet(r) = ToSet(q)
  <2>1. ASSUME NEW y \in ToSet(r) PROVE y \in ToSet(q)
    <3>1. PICK k \in 1..n : y = r[k]
      BY <1>6 DEF ToSet
    <3>2. \E j \in 1..n : y = q[j]
      BY <1>1, <1>2, <3>1
    <3> QED BY <1>1, <3>2 DEF ToSet
  <2>2. ASSUME NEW y \in ToSet(q) PROVE y \in ToSet(r)
    <3>1. PICK j \in 1..n : y = q[j]
      BY <1>1 DEF ToSet
    <3>2. CASE j < at
      <4>1. r[j] = y
        BY <1>1, <1>2, <3>1, <3>2
      <4> QED BY <1>6, <4>1 DEF ToSet
    <3>3. CASE j = at
      <4>1. r[n] = y /\ n \in 1..n
        BY <1>1, <1>2, <3>1, <3>3
      <4> QED BY <1>6, <4>1 DEF ToSet
    <3>4. CASE j > at
      <4>1. j - 1 \in 1..n /\ r[j - 1] = y
        BY <1>1, <1>2, <3>1, <3>4
      <4> QED BY <1>6, <4>1 DEF ToSet
    <3> QED BY <1>1, <1>2, <3>2, <3>3, <3>4
  <2> QED BY <2>1, <2>2
<1> QED BY <1>3, <1>5, <1>6, <1>7, <1>8

\* A list without repetition is as long as the set of its entries.
LEMMA DistinctLength ==
  ASSUME NEW S, NEW q \in Seq(S), IsInjective(q)
  PROVE  Cardinality(ToSet(q)) = Len(q)
<1>1. Len(q) \in Nat /\ q \in [1..Len(q) -> S] /\ DOMAIN q = 1..Len(q)
  BY LenProperties
<1>2. IsFiniteSet(1..Len(q)) /\ Cardinality(1..Len(q)) = Len(q)
  BY <1>1, FS_Interval
<1>3. q \in Bijection(1..Len(q), ToSet(q))
  BY <1>1 DEF Bijection, Injection, Surjection, IsInjective, ToSet
<1> QED BY <1>2, <1>3, FS_Bijection DEF ExistsBijection

-----------------------------------------------------------------------------
(* The inductive invariant.                                                  *)

Free  == ToSet(freeSectors)
InUse == ToSet(lruSectors)

\* The two lists share out the slots, once the cache is initialized.
ListsShare ==
  /\ IsInjective(freeSectors) /\ IsInjective(lruSectors)
  /\ Free \cap InUse = {}
  /\ initialized => Free \cup InUse = Slots
  /\ ~initialized => Free = {} /\ InUse = {}

\* What is dirty can be found, and so be flushed.
DirtyInUse == \A s \in Slots : dirty[s] => s \in InUse

\* Where a request stands, and what its buffers cover by then.
RequestInv ==
  /\ pc \in {"read", "fill", "write"} => fatMounted
  /\ fatMounted \/ pc = "flush" => initialized
  /\ pc = "idle" => i = 0 /\ f = 0 /\ last = 0
  /\ pc \in {"read", "fill"} => DOMAIN out = 0..(count - 1)
  /\ pc = "fill" => /\ DOMAIN data = i..(count - 1)
                    /\ i <= f /\ f <= last /\ i < last
                    /\ \A k \in f..(last - 1) : ~Cached(first + k)
  /\ pc = "write" => DOMAIN data = 0..(count - 1)

CacheInv ==
  /\ TypeOK /\ ListsShare /\ Indexed /\ WindowIsCached /\ DirtyInUse /\ RequestInv

-----------------------------------------------------------------------------
\* A raw transfer fails for good.
LEMMA FailedTyped ==
  CacheInv /\ [Next]_vars => failed' \in BOOLEAN /\ (~failed' => UNCHANGED failed)
<1> SUFFICES ASSUME CacheInv, [Next]_vars
             PROVE  failed' \in BOOLEAN /\ (~failed' => UNCHANGED failed)
  OBVIOUS
<1>1. failed \in BOOLEAN
  BY DEF CacheInv, TypeOK
<1>2. failed' = failed \/ failed' = TRUE
  <2>1. Transfer => failed' = failed \/ failed' = TRUE
    BY DEF Transfer
  <2>2. CASE Fill \/ ReadMiss \/ FlushOldest
    BY <2>1, <2>2 DEF Fill, ReadMiss, FlushOldest
  <2>3. CASE WriteSector
    BY <2>1, <2>3 DEF WriteSector, WriteHit, WriteMiss
  <2>4. CASE GetSector
    BY <2>1, <2>4 DEF GetSector, GetCached, GetUncached
  <2>5. CASE BeginRead \/ BeginWrite \/ FillEnd \/ ReadHit \/ EndRead \/ EndWrite \/ Sync
               \/ NotReady \/ Initialize \/ BeginShutdown \/ EndShutdown \/ UNCHANGED vars
    BY <2>5 DEF BeginRead, BeginWrite, Begin, FillEnd, ReadHit, EndRead, EndWrite, End, Sync,
                NotReady, Initialize, BeginShutdown, EndShutdown, vars
  <2> QED BY <2>2, <2>3, <2>4, <2>5 DEF Next
<1> QED BY <1>1, <1>2

-----------------------------------------------------------------------------
(* The runs of sectors the two loops find.                                   *)

\* cache_getFlushableRange counts dirty sectors, up to the first that is not.
LEMMA RunFacts ==
  ASSUME NEW lba
  PROVE  /\ MaxRun \in Nat \ {0}
         /\ FlushableRange(lba) \in 0..MaxRun
         /\ \A k \in 0..(FlushableRange(lba) - 1) : Dirty(lba + k)
         /\ FlushableRange(lba) = MaxRun \/ ~Dirty(lba + FlushableRange(lba))
<1>1. MaxRun \in Nat \ {0}
  BY SectorCacheAssumption DEF MaxRun
<1> DEFINE T == {n \in 0..MaxRun : n = MaxRun \/ ~Dirty(lba + n)}
<1>2. T \subseteq Nat /\ MaxRun \in T
  BY <1>1
<1>3. PICK n \in T : \A m \in T : n <= m
  BY <1>2, LeastNumber
<1>4. \A k \in 0..(n - 1) : Dirty(lba + k)
  <2> SUFFICES ASSUME NEW k \in 0..(n - 1) PROVE Dirty(lba + k)
    OBVIOUS
  <2>1. k \in 0..MaxRun /\ ~(n <= k)
    BY <1>1
  <2> QED BY <1>3, <2>1
<1> DEFINE IsRun(m) == /\ \A k \in 0..(m - 1) : Dirty(lba + k)
                       /\ m = MaxRun \/ ~Dirty(lba + m)
<1>5. \E m \in 0..MaxRun : IsRun(m)
  BY <1>4
<1>6. FlushableRange(lba) = CHOOSE m \in 0..MaxRun : IsRun(m)
  BY DEF FlushableRange
<1>7. FlushableRange(lba) \in 0..MaxRun /\ IsRun(FlushableRange(lba))
  <2> HIDE DEF IsRun
  <2> QED BY <1>5, <1>6
<1> QED BY <1>1, <1>7

\* cache_getUncachedSectorCount stops at the next sector that is cached.
LEMMA UncachedFacts ==
  ASSUME i \in Nat, count \in Nat, i < count, ~Cached(first + i)
  PROVE  /\ UncachedEnd \in (i + 1)..count
         /\ \A k \in i..(UncachedEnd - 1) : ~Cached(first + k)
<1> DEFINE T == {n \in (i + 1)..count : n = count \/ Cached(first + n)}
<1>2. T \subseteq Nat /\ count \in T
  OBVIOUS
<1>3. PICK n \in T : \A m \in T : n <= m
  BY <1>2, LeastNumber
<1>4. \A k \in i..(n - 1) : ~Cached(first + k)
  <2> SUFFICES ASSUME NEW k \in i..(n - 1) PROVE ~Cached(first + k)
    OBVIOUS
  <2>1. CASE k = i
    BY <2>1
  <2>2. CASE k # i
    <3>1. k \in (i + 1)..count /\ ~(n <= k)
      BY <2>2
    <3> QED BY <1>3, <3>1
  <2> QED BY <2>1, <2>2
<1> DEFINE IsRun(m) == /\ \A j \in i..(m - 1) : ~Cached(first + j)
                       /\ m = count \/ Cached(first + m)
<1>5. \E m \in (i + 1)..count : IsRun(m)
  BY <1>4
<1>6. UncachedEnd = CHOOSE m \in (i + 1)..count : IsRun(m)
  BY DEF UncachedEnd
<1>7. UncachedEnd \in (i + 1)..count /\ IsRun(UncachedEnd)
  <2> HIDE DEF IsRun
  <2> QED BY <1>5, <1>6
<1> QED BY <1>7

\* What a flush writes is cached, and the slot it is made for becomes clean.
LEMMA FlushFacts ==
  ASSUME TypeOK, Indexed, NEW slot \in Slots
  PROVE  /\ Flushed(slot) \subseteq DOMAIN cachedSectors
         /\ \A lba \in Flushed(slot) : dirty[cachedSectors[lba]]
         /\ dirty[slot] /\ slot \in InUse => sectorIdx[slot] \in Flushed(slot)
<1>1. sectorIdx[slot] \in Nat
  BY SectorCacheAssumption DEF TypeOK, LBAs, NoSector
<1> DEFINE at == sectorIdx[slot]
           n == FlushableRange(at)
<1>2. /\ n \in Nat /\ MaxRun \in Nat \ {0}
      /\ \A k \in 0..(n - 1) : Dirty(at + k)
      /\ n = MaxRun \/ ~Dirty(at + n)
  BY RunFacts
<1>3. \A lba \in Flushed(slot) : Dirty(lba)
  <2> SUFFICES ASSUME NEW lba \in Flushed(slot) PROVE Dirty(lba)
    OBVIOUS
  <2>1. lba \in at..(at + n - 1)
    BY DEF Flushed
  <2> HIDE DEF at, n
  <2>2. at \in Nat
    BY <1>1 DEF at
  <2>3. lba - at \in 0..(n - 1) /\ at + (lba - at) = lba
    BY <1>2, <2>1, <2>2
  <2> QED BY <1>2, <2>3
<1>4. ASSUME dirty[slot], slot \in InUse PROVE at \in Flushed(slot)
  <2>1. Dirty(at)
    BY <1>4 DEF Indexed, InUse, Dirty
  <2>2. n # 0
    BY <1>1, <1>2, <2>1
  <2>3. Flushed(slot) = at..(at + n - 1)
    BY <1>4 DEF Flushed
  <2> HIDE DEF at, n
  <2> QED BY <1>1, <1>2, <2>2, <2>3 DEF at
<1> QED BY <1>3, <1>4 DEF Dirty, Cached

\* What is written comes from slots in use, so the disk keeps its type; a flush
\* cleans what it has written and makes nothing dirty.
LEMMA FlushKeeps ==
  ASSUME TypeOK, Indexed, NEW slot \in Slots
  PROVE  /\ RawWrite(Flushed(slot)) => disk' \in [LBAs -> Values \cup {Garbage}]
         /\ Cleaned(Flushed(slot)) \in [Slots -> BOOLEAN]
         /\ \A s \in Slots : Cleaned(Flushed(slot))[s] => dirty[s]
         /\ slot \in InUse => ~Cleaned(Flushed(slot))[slot]
<1>1. Flushed(slot) \subseteq DOMAIN cachedSectors
  BY FlushFacts
<1>2. \A lba \in DOMAIN cachedSectors : buffer[cachedSectors[lba]] \in Values \cup {Garbage}
  BY DEF TypeOK
<1>3. RawWrite(Flushed(slot)) => disk' \in [LBAs -> Values \cup {Garbage}]
  BY <1>1, <1>2 DEF RawWrite, TypeOK
<1>4. /\ Cleaned(Flushed(slot)) \in [Slots -> BOOLEAN]
      /\ \A s \in Slots : Cleaned(Flushed(slot))[s]
                           <=> dirty[s] /\ \A lba \in Flushed(slot) : s # cachedSectors[lba]
  BY Zenon DEF Cleaned
<1>5. ASSUME slot \in InUse, dirty[slot] PROVE ~Cleaned(Flushed(slot))[slot]
  <2>1. sectorIdx[slot] \in Flushed(slot)
    BY <1>5, FlushFacts
  <2>2. cachedSectors[sectorIdx[slot]] = slot
    BY <1>5 DEF Indexed, InUse
  <2> QED BY <1>4, <2>1, <2>2
<1> QED BY <1>3, <1>4, <1>5

\* A step has given a slot to `lba`: the lists, the map and the slots still agree.
Placed(lba) ==
  /\ NextSlot \in Slots /\ NextSlot \in InUse' /\ InUse \subseteq InUse'
  /\ disk' \in [LBAs -> Values \cup {Garbage}]
  /\ freeSectors' \in Seq(Slots) /\ lruSectors' \in Seq(Slots)
  /\ Len(freeSectors') + Len(lruSectors') <= CacheSize
  /\ IsInjective(freeSectors') /\ IsInjective(lruSectors')
  /\ Free' \cap InUse' = {} /\ Free' \cup InUse' = Slots
  /\ DOMAIN cachedSectors' \subseteq DOMAIN cachedSectors \cup {lba}
  /\ DOMAIN cachedSectors' \subseteq LBAs
  /\ \A k \in DOMAIN cachedSectors' : cachedSectors'[k] \in Slots
  /\ sectorIdx' \in [Slots -> LBAs \cup {NoSector}]
  /\ dirty' \in [Slots -> BOOLEAN]
  /\ buffer' \in [Slots -> Values \cup {Garbage}]
  /\ Indexed' /\ DirtyInUse'

\* A slot from freeSectors, or the one used longest ago, is given to a sector.
LEMMA NewSectorKeeps ==
  ASSUME TypeOK, ListsShare, Indexed, DirtyInUse, initialized,
         NEW lba \in LBAs, ~Cached(lba), NEW value \in Values \cup {Garbage},
         NEW d \in BOOLEAN, NewSector(lba, value, d)
  PROVE  Placed(lba)
<1>0. /\ freeSectors \in Seq(Slots) /\ lruSectors \in Seq(Slots)
      /\ sectorIdx \in [Slots -> LBAs \cup {NoSector}]
      /\ dirty \in [Slots -> BOOLEAN] /\ buffer \in [Slots -> Values \cup {Garbage}]
      /\ Len(freeSectors) \in Nat /\ Len(lruSectors) \in Nat
      /\ Free \cup InUse = Slots /\ Free \cap InUse = {}
      /\ freeSectors = <<>> <=> Free = {}
      /\ lruSectors = <<>> <=> InUse = {}
      /\ Slots # {}
  <2>1. 1 \in Slots
    BY SectorCacheAssumption DEF Slots
  <2> QED BY <2>1, Entries DEF TypeOK, ListsShare, Free, InUse
<1> DEFINE s == NextSlot
<1>1. /\ sectorIdx' = [sectorIdx EXCEPT ![s] = lba]
      /\ buffer' = [buffer EXCEPT ![s] = value]
  BY DEF NewSector
<1>2. CASE TakeFree(lba, d)
  <2>1. /\ freeSectors # <<>> /\ s = freeSectors[Len(freeSectors)]
        /\ freeSectors' = SubSeq(freeSectors, 1, Len(freeSectors) - 1)
        /\ lruSectors' = Append(lruSectors, s)
        /\ dirty' = [dirty EXCEPT ![s] = d] /\ disk' = disk
        /\ cachedSectors' = WithSlot(cachedSectors, lba, s)
    BY <1>2 DEF TakeFree, NextSlot
  <2>2. /\ freeSectors' \in Seq(Slots) /\ Len(freeSectors') = Len(freeSectors) - 1
        /\ s \in Slots /\ s \in Free
        /\ IsInjective(freeSectors') /\ Free' = Free \ {s}
    BY <1>0, <2>1, TakeLast DEF ListsShare, Free
  <2>3. s \notin InUse
    BY <1>0, <2>2
  <2>4. /\ lruSectors' \in Seq(Slots) /\ Len(lruSectors') = Len(lruSectors) + 1
        /\ IsInjective(lruSectors') /\ InUse' = InUse \cup {s}
    BY <1>0, <2>1, <2>2, <2>3, AddLast DEF ListsShare, InUse
  <2> HIDE DEF s
  <2>5. /\ DOMAIN cachedSectors' = DOMAIN cachedSectors \cup {lba}
        /\ cachedSectors'[lba] = s
        /\ \A k \in DOMAIN cachedSectors : cachedSectors'[k] = cachedSectors[k]
    BY <2>1 DEF WithSlot, Cached
  <2>6. Len(freeSectors') + Len(lruSectors') <= CacheSize
    BY <1>0, <2>2, <2>4, SectorCacheAssumption DEF TypeOK
  <2>7. /\ disk' \in [LBAs -> Values \cup {Garbage}]
        /\ sectorIdx' \in [Slots -> LBAs \cup {NoSector}]
        /\ dirty' \in [Slots -> BOOLEAN]
        /\ buffer' \in [Slots -> Values \cup {Garbage}]
    BY <1>0, <1>1, <2>1 DEF TypeOK
  <2>8. /\ DOMAIN cachedSectors' \subseteq LBAs
        /\ \A k \in DOMAIN cachedSectors' : cachedSectors'[k] \in Slots
    BY <2>2, <2>5 DEF TypeOK
  <2>9. Indexed'
    <3>1. ASSUME NEW k \in DOMAIN cachedSectors'
          PROVE  cachedSectors'[k] \in InUse' /\ sectorIdx'[cachedSectors'[k]] = k
      BY <1>0, <1>1, <2>2, <2>3, <2>4, <2>5 DEF Indexed, InUse
    <3>2. ASSUME NEW x \in InUse'
          PROVE  sectorIdx'[x] \in DOMAIN cachedSectors' /\ cachedSectors'[sectorIdx'[x]] = x
      <4>1. CASE x = s
        BY <1>0, <1>1, <2>2, <2>5, <4>1
      <4>2. CASE x # s
        <5>1. x \in InUse /\ x \in Slots /\ sectorIdx'[x] = sectorIdx[x]
          BY <1>0, <1>1, <2>4, <4>2
        <5> QED BY <2>5, <5>1 DEF Indexed, InUse, Cached
      <4> QED BY <4>1, <4>2
    <3> QED BY <3>1, <3>2 DEF Indexed, InUse, Cached
  <2>10. DirtyInUse'
    BY <1>0, <2>1, <2>2, <2>4 DEF DirtyInUse
  <2> QED BY <1>0, <2>2, <2>4, <2>5, <2>6, <2>7, <2>8, <2>9, <2>10 DEF s, Placed
<1>3. CASE TakeOldest(lba, d)
  <2> DEFINE old == sectorIdx[s]
  <2>1. /\ freeSectors = <<>> /\ s = Head(lruSectors)
        /\ freeSectors' = freeSectors
        /\ lruSectors' = ToBack(lruSectors, s)
        /\ RawWrite(Flushed(s))
        /\ dirty' = [Cleaned(Flushed(s)) EXCEPT ![s] = d]
        /\ cachedSectors' = WithSlot(Without(old), lba, s)
    BY <1>3 DEF TakeOldest, NextSlot, MakeMRU
  <2>2. s \in Slots /\ s \in InUse
    BY <1>0, <2>1, TakeFirst DEF ListsShare, InUse
  <2>3. /\ lruSectors' \in Seq(Slots) /\ Len(lruSectors') = Len(lruSectors)
        /\ IsInjective(lruSectors') /\ InUse' = InUse
    BY <1>0, <2>1, <2>2, ToBackFacts DEF ListsShare, InUse
  <2>4. old \in DOMAIN cachedSectors /\ cachedSectors[old] = s
    BY <2>2 DEF Indexed, InUse, Cached
  <2>5. /\ disk' \in [LBAs -> Values \cup {Garbage}]
        /\ Cleaned(Flushed(s)) \in [Slots -> BOOLEAN]
        /\ \A x \in Slots : Cleaned(Flushed(s))[x] => dirty[x]
    BY <2>1, <2>2, FlushKeeps
  <2> HIDE DEF s
  <2>6. /\ DOMAIN cachedSectors' = (DOMAIN cachedSectors \ {old}) \cup {lba}
        /\ cachedSectors'[lba] = s
        /\ \A k \in DOMAIN cachedSectors \ {old} : cachedSectors'[k] = cachedSectors[k]
    BY <2>1 DEF WithSlot, Without, Cached
  <2>7. /\ sectorIdx' \in [Slots -> LBAs \cup {NoSector}]
        /\ dirty' \in [Slots -> BOOLEAN]
        /\ buffer' \in [Slots -> Values \cup {Garbage}]
    BY <1>0, <1>1, <2>1, <2>5
  <2>8. /\ DOMAIN cachedSectors' \subseteq LBAs
        /\ \A k \in DOMAIN cachedSectors' : cachedSectors'[k] \in Slots
    BY <2>2, <2>6 DEF TypeOK
  <2>9. Indexed'
    <3>1. ASSUME NEW k \in DOMAIN cachedSectors'
          PROVE  cachedSectors'[k] \in InUse' /\ sectorIdx'[cachedSectors'[k]] = k
      <4>1. CASE k = lba
        BY <1>0, <1>1, <2>2, <2>3, <2>6, <4>1
      <4>2. CASE k # lba
        <5>1. /\ k \in DOMAIN cachedSectors /\ k # old /\ cachedSectors'[k] = cachedSectors[k]
          BY <2>6, <4>2
        <5>2. /\ cachedSectors[k] \in InUse /\ sectorIdx[cachedSectors[k]] = k
              /\ cachedSectors[k] \in Slots
          BY <5>1 DEF Indexed, InUse, TypeOK
        <5>3. cachedSectors[k] # s
          BY <5>1, <5>2
        <5> QED BY <1>0, <1>1, <2>3, <5>1, <5>2, <5>3
      <4> QED BY <4>1, <4>2
    <3>2. ASSUME NEW x \in InUse'
          PROVE  sectorIdx'[x] \in DOMAIN cachedSectors' /\ cachedSectors'[sectorIdx'[x]] = x
      <4>1. CASE x = s
        BY <1>0, <1>1, <2>2, <2>6, <4>1
      <4>2. CASE x # s
        <5>1. x \in InUse /\ x \in Slots /\ sectorIdx'[x] = sectorIdx[x]
          BY <1>0, <1>1, <2>3, <4>2
        <5>2. /\ sectorIdx[x] \in DOMAIN cachedSectors
              /\ cachedSectors[sectorIdx[x]] = x
          BY <5>1 DEF Indexed, InUse, Cached
        <5>3. sectorIdx[x] # old
          BY <2>4, <4>2, <5>2
        <5> QED BY <2>6, <5>1, <5>2, <5>3
      <4> QED BY <4>1, <4>2
    <3> QED BY <3>1, <3>2 DEF Indexed, InUse, Cached
  <2>10. DirtyInUse'
    BY <1>0, <2>1, <2>2, <2>3, <2>5 DEF DirtyInUse
  <2>11. /\ freeSectors' \in Seq(Slots) /\ IsInjective(freeSectors') /\ Free' = Free
         /\ Len(freeSectors') + Len(lruSectors') <= CacheSize
    BY <1>0, <2>1, <2>3, SectorCacheAssumption DEF ListsShare, Free, TypeOK
  <2> QED BY <1>0, <2>2, <2>3, <2>5, <2>6, <2>7, <2>8, <2>9, <2>10, <2>11 DEF s, Placed
<1> QED BY <1>2, <1>3 DEF NewSector

-----------------------------------------------------------------------------
(* The steps.                                                                *)

\* A slot that is used again stays in use.
LEMMA MRUKeeps ==
  ASSUME TypeOK, ListsShare, NEW slot \in InUse, MakeMRU(slot)
  PROVE  /\ lruSectors' \in Seq(Slots) /\ Len(lruSectors') = Len(lruSectors)
         /\ IsInjective(lruSectors') /\ InUse' = InUse
  BY ToBackFacts DEF TypeOK, ListsShare, InUse, MakeMRU

\* The drive is not mounted, the cache is empty.
LEMMA InitCache == Init => CacheInv
<1> SUFFICES ASSUME Init PROVE CacheInv
  OBVIOUS
<1>1. /\ freeSectors = <<>> /\ lruSectors = <<>> /\ DOMAIN cachedSectors = {}
      /\ initialized = FALSE
  BY DEF Init, NoData
<1>2. /\ freeSectors \in Seq(Slots) /\ lruSectors \in Seq(Slots)
      /\ Len(freeSectors) = 0 /\ Len(lruSectors) = 0
      /\ Free = {} /\ InUse = {} /\ IsInjective(freeSectors) /\ IsInjective(lruSectors)
  <2>1. /\ <<>> \in Seq(Slots) /\ Len(<<>>) = 0
    BY EmptySeq
  <2>2. ToSet(<<>>) = {} /\ DOMAIN <<>> = {}
    BY DEF ToSet
  <2> QED BY <1>1, <2>1, <2>2 DEF Free, InUse, IsInjective
<1>3. 0 \in LBAs
  BY SectorCacheAssumption DEF LBAs
<1>4. TypeOK
  <2>1. disk \in [LBAs -> Values \cup {Garbage}]
    BY DEF Init
  <2>2. /\ sectorIdx \in [Slots -> LBAs \cup {NoSector}]
        /\ dirty \in [Slots -> BOOLEAN] /\ buffer \in [Slots -> Values \cup {Garbage}]
    BY DEF Init
  <2>3. DOMAIN data = {} /\ DOMAIN out = {}
    BY DEF Init, NoData
  <2>4. first = 0 /\ count = 0 /\ i = 0 /\ f = 0 /\ last = 0
    BY DEF Init
  <2>5. Len(freeSectors) + Len(lruSectors) <= CacheSize /\ first + count <= NumSectors
    BY <1>2, <2>4, SectorCacheAssumption
  <2>6. count \in 0..MaxRequest
    BY <2>4, SectorCacheAssumption
  <2>7. i \in 0..count /\ f \in 0..count /\ last \in 0..count
    BY <2>4
  <2>8. /\ activeCacheWindow \in Slots \cup {NoSlot} /\ answer = <<>>
        /\ pc = "idle" /\ op = "none" /\ res = "RES_OK" /\ fatMounted = FALSE
    BY DEF Init
  <2>9. answer \in {<<>>} \cup (LBAs \X (Values \cup {Garbage}))
    BY <2>8
  <2>10. failed \in BOOLEAN
    BY DEF Init
  <2> QED BY <1>1, <1>2, <1>3, <2>1, <2>2, <2>3, <2>4, <2>5, <2>6, <2>7, <2>8, <2>9, <2>10
          DEF TypeOK
<1>5. ListsShare /\ Indexed /\ WindowIsCached /\ DirtyInUse
  BY <1>1, <1>2 DEF Init, ListsShare, Indexed, WindowIsCached, DirtyInUse, InUse
<1>6. RequestInv
  BY DEF Init, RequestInv
<1> QED BY <1>4, <1>5, <1>6 DEF CacheInv

\* Lists and slots are left alone: what is said of them stays true.
LEMMA SameCache ==
  ASSUME CacheInv, UNCHANGED <<lists, slots, initialized>>
  PROVE  ListsShare' /\ Indexed' /\ DirtyInUse'
  BY DEF CacheInv, ListsShare, Indexed, DirtyInUse, lists, slots, Free, InUse, Cached

\* A request begins.
LEMMA BeginKeeps == CacheInv /\ (BeginRead \/ BeginWrite) => CacheInv'
<1> SUFFICES ASSUME CacheInv, BeginRead \/ BeginWrite PROVE CacheInv'
  OBVIOUS
<1>1. PICK lba \in LBAs, n \in 1..MaxRequest, kind \in {"read", "write"} :
         /\ Begin(kind, lba, n, kind)
         /\ \/ kind = "read" /\ out' = [k \in 0..(n - 1) |-> Garbage] /\ data' = NoData
            \/ kind = "write" /\ data' \in [0..(n - 1) -> Values] /\ out' = NoData
  BY DEF BeginRead, BeginWrite
<1>2. /\ pc = "idle" /\ fatMounted /\ n <= NumSectors - lba
      /\ op' = kind /\ first' = lba /\ count' = n /\ pc' = kind
      /\ UNCHANGED <<disk, mount, lists, slots, activeCacheWindow, i, f, last, answer, res>>
  BY <1>1 DEF Begin
<1>3. ListsShare' /\ Indexed' /\ DirtyInUse'
  BY <1>2, SameCache DEF mount
<1>4. i = 0 /\ f = 0 /\ last = 0 /\ lba \in Nat /\ n \in Nat \ {0}
  BY <1>2, SectorCacheAssumption DEF CacheInv, RequestInv, LBAs
<1>5. /\ DOMAIN data' \subseteq 0..(n - 1) /\ DOMAIN out' \subseteq 0..(n - 1)
      /\ \A k \in DOMAIN data' : data'[k] \in Values \cup {Garbage}
      /\ \A k \in DOMAIN out' : out'[k] \in Values \cup {Garbage}
      /\ kind = "read" => DOMAIN out' = 0..(n - 1)
      /\ kind = "write" => DOMAIN data' = 0..(n - 1)
  BY <1>1 DEF NoData
<1>6. TypeOK'
  <2>1. failed' \in BOOLEAN
    BY FailedTyped DEF Next
  <2> QED BY <1>1, <1>2, <1>4, <1>5, <2>1, SectorCacheAssumption
          DEF CacheInv, TypeOK, mount, lists, slots, LBAs, Slots
<1>7. WindowIsCached'
  BY <1>2 DEF CacheInv, WindowIsCached, lists
<1>8. RequestInv'
  BY <1>1, <1>2, <1>4, <1>5 DEF CacheInv, RequestInv, mount
<1> QED BY <1>3, <1>6, <1>7, <1>8 DEF CacheInv

\* A cached sector is read.
LEMMA ReadHitKeeps == CacheInv /\ ReadHit => CacheInv'
<1> SUFFICES ASSUME CacheInv, ReadHit PROVE CacheInv'
  OBVIOUS
<1> DEFINE slot == cachedSectors[first + i]
<1>1. slot \in InUse /\ slot \in Slots /\ buffer[slot] \in Values \cup {Garbage}
  BY DEF ReadHit, CacheInv, Indexed, InUse, Cached, TypeOK
<1>2. /\ lruSectors' \in Seq(Slots) /\ Len(lruSectors') = Len(lruSectors)
      /\ IsInjective(lruSectors') /\ InUse' = InUse
  BY <1>1, MRUKeeps DEF ReadHit, CacheInv
<1>3. /\ DOMAIN out' = DOMAIN out
      /\ \A k \in DOMAIN out' : out'[k] \in Values \cup {Garbage}
  BY <1>1 DEF ReadHit, CacheInv, TypeOK
<1>4. i + 1 \in 0..count
  BY DEF ReadHit, CacheInv, TypeOK
<1>5. TypeOK'
  BY <1>2, <1>3, <1>4 DEF ReadHit, CacheInv, TypeOK, mount, slots, request
<1>6. ListsShare' /\ Indexed' /\ WindowIsCached' /\ DirtyInUse'
  BY <1>2 DEF ReadHit, CacheInv, ListsShare, Indexed, WindowIsCached, DirtyInUse, Free,
              InUse, Cached, mount, slots
<1>7. RequestInv'
  BY <1>3 DEF ReadHit, CacheInv, RequestInv, mount, request
<1> QED BY <1>5, <1>6, <1>7 DEF CacheInv

\* The remaining sectors are read from the drive.
LEMMA ReadMissKeeps == CacheInv /\ ReadMiss => CacheInv'
<1> SUFFICES ASSUME CacheInv, ReadMiss PROVE CacheInv'
  OBVIOUS
<1>1. /\ i \in Nat /\ count \in Nat /\ i < count /\ first \in Nat
      /\ first + count <= NumSectors
  BY SectorCacheAssumption DEF ReadMiss, CacheInv, TypeOK, LBAs
<1>2. /\ last' \in (i + 1)..count
      /\ \A k \in i..(last' - 1) : ~Cached(first + k)
  BY <1>1, UncachedFacts DEF ReadMiss
<1>3. /\ DOMAIN data' = i..(count - 1)
      /\ \A k \in DOMAIN data' : data'[k] \in Values \cup {Garbage}
  <2>1. \A k \in i..(count - 1) : disk[first + k] \in Values \cup {Garbage}
    <3>1. \A k \in i..(count - 1) : first + k \in LBAs
      BY <1>1, SectorCacheAssumption DEF LBAs
    <3> QED BY <3>1 DEF CacheInv, TypeOK
  <2> QED BY <2>1 DEF ReadMiss
<1>4. ListsShare' /\ Indexed' /\ DirtyInUse'
  BY SameCache DEF ReadMiss, mount
<1>5. TypeOK'
  BY FailedTyped, <1>1, <1>2, <1>3 DEF Next, ReadMiss, CacheInv, TypeOK, mount, lists, slots, request
<1>6. WindowIsCached'
  BY DEF ReadMiss, CacheInv, WindowIsCached, lists
<1>7. RequestInv'
  BY <1>1, <1>2, <1>3 DEF ReadMiss, CacheInv, RequestInv, mount, request, lists, Cached
<1> QED BY <1>4, <1>5, <1>6, <1>7 DEF CacheInv

\* One of them gets a slot.
LEMMA FillKeeps == CacheInv /\ Fill => CacheInv'
<1> SUFFICES ASSUME CacheInv, Fill PROVE CacheInv'
  OBVIOUS
<1>1. /\ f \in Nat /\ count \in Nat /\ i \in Nat /\ last \in Nat
      /\ i <= f /\ f < last /\ i < last /\ last <= count
      /\ first \in Nat /\ first + count <= NumSectors
      /\ DOMAIN data = i..(count - 1) /\ DOMAIN out = 0..(count - 1)
      /\ \A k \in f..(last - 1) : ~Cached(first + k)
      /\ initialized
  BY SectorCacheAssumption DEF Fill, CacheInv, TypeOK, RequestInv, LBAs
<1>2. first + f \in LBAs /\ ~Cached(first + f) /\ data[f] \in Values \cup {Garbage}
  <2>1. first + f \in LBAs /\ f \in f..(last - 1) /\ f \in i..(count - 1)
    BY <1>1, SectorCacheAssumption DEF LBAs
  <2> QED BY <1>1, <2>1 DEF CacheInv, TypeOK
<1>3. NewSector(first + f, data[f], FALSE)
  BY DEF Fill
<1> DEFINE lba == first + f
           value == data[f]
<1> HIDE DEF lba, value
<1>4. Placed(lba)
  <2>1. /\ lba \in LBAs /\ ~Cached(lba) /\ value \in Values \cup {Garbage}
        /\ NewSector(lba, value, FALSE)
    BY <1>2, <1>3 DEF lba, value
  <2> QED BY <1>1, <2>1, NewSectorKeeps DEF CacheInv
<1>5. /\ DOMAIN out' = DOMAIN out
      /\ \A k \in DOMAIN out' : out'[k] \in Values \cup {Garbage}
  BY <1>2 DEF Fill, CacheInv, TypeOK
<1>6. TypeOK'
  <2>1. failed' \in BOOLEAN
    BY FailedTyped DEF Next
  <2> QED BY <1>1, <1>4, <1>5, <2>1 DEF Placed, Fill, CacheInv, TypeOK, mount, request
<1>7. ListsShare' /\ WindowIsCached'
  BY <1>1, <1>4 DEF Placed, Fill, CacheInv, ListsShare, WindowIsCached, InUse, mount
<1>8. RequestInv'
  <2>1. first' = first /\ last' = last /\ f' = f + 1
    BY DEF Fill, request
  <2>2. ASSUME NEW k \in (f + 1)..(last - 1) PROVE first + k \notin DOMAIN cachedSectors'
    <3>1. k \in f..(last - 1) /\ first + k # first + f
      BY <1>1
    <3> QED BY <1>1, <1>4, <3>1 DEF Placed, Cached, lba
  <2> QED BY <1>1, <1>5, <2>1, <2>2 DEF Fill, CacheInv, RequestInv, mount, request, Cached
<1> QED BY <1>4, <1>6, <1>7, <1>8 DEF Placed, CacheInv

\* All of them have been put into the cache, or the request is done.
LEMMA EndKeeps == CacheInv /\ (FillEnd \/ EndRead \/ EndWrite) => CacheInv'
<1> SUFFICES ASSUME CacheInv, FillEnd \/ EndRead \/ EndWrite PROVE CacheInv'
  OBVIOUS
<1>1. CASE FillEnd
  <2>1. ListsShare' /\ Indexed' /\ DirtyInUse'
    BY <1>1, SameCache DEF FillEnd, mount
  <2>2. TypeOK'
    BY <1>1 DEF FillEnd, CacheInv, TypeOK, mount, lists, slots, request
  <2>3. WindowIsCached' /\ RequestInv'
    BY <1>1 DEF FillEnd, CacheInv, WindowIsCached, RequestInv, mount, lists, request
  <2> QED BY <2>1, <2>2, <2>3 DEF CacheInv
<1>2. CASE EndRead \/ EndWrite
  <2>1. PICK kind \in {"read", "write"} : End(kind)
    BY <1>2 DEF EndRead, EndWrite
  <2>2. /\ pc = kind /\ i = count /\ res' = "RES_OK" /\ pc' = "idle"
        /\ first' = 0 /\ count' = 0 /\ i' = 0 /\ f' = 0 /\ last' = 0
        /\ DOMAIN data' = {} /\ DOMAIN out' = {}
        /\ UNCHANGED <<disk, mount, lists, slots, activeCacheWindow, op>>
    BY <2>1 DEF End, NoData
  <2>3. ListsShare' /\ Indexed' /\ DirtyInUse'
    BY <2>2, SameCache DEF mount
  <2>4. 0 \in LBAs /\ 0 \in 0..MaxRequest /\ 0 \in 0..0 /\ 0 + 0 <= NumSectors
    BY SectorCacheAssumption DEF LBAs
  <2>5. answer' \in {<<>>} \cup (LBAs \X (Values \cup {Garbage}))
    <3>1. CASE answer' = answer
      BY <3>1 DEF CacheInv, TypeOK
    <3>2. CASE EndRead /\ count = 1
      <4>1. 0 \in DOMAIN out
        BY <3>2 DEF EndRead, End, CacheInv, RequestInv
      <4>2. out[0] \in Values \cup {Garbage} /\ first \in LBAs
        BY <4>1 DEF CacheInv, TypeOK
      <4> QED BY <3>2, <4>2 DEF EndRead
    <3> QED BY <1>2, <3>1, <3>2 DEF EndRead, EndWrite
  <2>6. TypeOK'
    BY FailedTyped, <2>2, <2>4, <2>5 DEF Next, CacheInv, TypeOK, mount, lists, slots
  <2>7. WindowIsCached' /\ RequestInv'
    BY <2>2 DEF CacheInv, WindowIsCached, RequestInv, mount, lists
  <2> QED BY <2>3, <2>6, <2>7 DEF CacheInv
<1> QED BY <1>1, <1>2

\* One sector is written, in its slot or in a new one.
LEMMA WriteKeeps == CacheInv /\ WriteSector => CacheInv'
<1> SUFFICES ASSUME CacheInv, WriteSector PROVE CacheInv'
  OBVIOUS
<1>1. /\ i \in Nat /\ count \in Nat /\ i < count /\ first \in Nat
      /\ first + count <= NumSectors /\ DOMAIN data = 0..(count - 1) /\ initialized
  BY SectorCacheAssumption DEF WriteSector, CacheInv, TypeOK, RequestInv, LBAs
<1>2. first + i \in LBAs /\ data[i] \in Values \cup {Garbage}
  <2>1. first + i \in LBAs /\ i \in 0..(count - 1)
    BY <1>1, SectorCacheAssumption DEF LBAs
  <2> QED BY <1>1, <2>1 DEF CacheInv, TypeOK
<1>3. i + 1 \in 0..count
  BY <1>1
<1>4. CASE WriteHit
  <2> DEFINE slot == cachedSectors[first + i]
  <2>1. slot \in Slots /\ slot \in InUse
    BY <1>4 DEF WriteHit, CacheInv, TypeOK, Indexed, InUse, Cached
  <2>2. /\ buffer' = [buffer EXCEPT ![slot] = data[i]]
        /\ dirty' = [dirty EXCEPT ![slot] = TRUE]
        /\ UNCHANGED <<disk, lists, sectorIdx>>
    BY <1>4 DEF WriteHit
  <2> HIDE DEF slot
  <2>3. buffer' \in [Slots -> Values \cup {Garbage}] /\ dirty' \in [Slots -> BOOLEAN]
    BY <1>2, <2>1, <2>2 DEF CacheInv, TypeOK
  <2>4. TypeOK'
    BY FailedTyped, <1>1, <1>3, <2>2, <2>3 DEF Next, WriteSector, CacheInv, TypeOK, mount, lists, request
  <2>5. ListsShare' /\ Indexed' /\ WindowIsCached'
    BY <2>2 DEF WriteSector, CacheInv, ListsShare, Indexed, WindowIsCached, Free, InUse,
                Cached, mount, lists
  <2>6. DirtyInUse'
    BY <2>1, <2>2 DEF CacheInv, DirtyInUse, InUse, lists, TypeOK
  <2>7. RequestInv'
    BY DEF WriteSector, CacheInv, RequestInv, mount, request
  <2> QED BY <2>4, <2>5, <2>6, <2>7 DEF CacheInv
<1>5. CASE WriteMiss
  <2> DEFINE lba == first + i
             value == data[i]
  <2>1. ~Cached(lba) /\ NewSector(lba, value, TRUE)
    BY <1>5 DEF WriteMiss
  <2>2. lba \in LBAs /\ value \in Values \cup {Garbage}
    BY <1>2
  <2> HIDE DEF lba, value
  <2>3. Placed(lba)
    BY <1>1, <2>1, <2>2, NewSectorKeeps DEF CacheInv
  <2>4. TypeOK'
    BY FailedTyped, <1>1, <1>3, <2>3 DEF Next, Placed, WriteSector, CacheInv, TypeOK, mount, request
  <2>5. ListsShare' /\ WindowIsCached'
    BY <1>1, <2>3 DEF Placed, WriteSector, CacheInv, ListsShare, WindowIsCached, InUse, mount
  <2>6. RequestInv'
    BY DEF WriteSector, CacheInv, RequestInv, mount, request
  <2> QED BY <2>3, <2>4, <2>5, <2>6 DEF Placed, CacheInv
<1> QED BY <1>4, <1>5 DEF WriteSector

\* The sector in the window is the one a search would find.
LEMMA ShownIsFound ==
  ASSUME CacheInv, pc = "idle", NEW lba, Showing(lba)
  PROVE  Cached(lba) /\ cachedSectors[lba] = activeCacheWindow
  BY DEF CacheInv, Showing, WindowIsCached, Indexed

\* ffcache_getSector.
LEMMA GetSectorKeeps == CacheInv /\ GetSector => CacheInv'
<1> SUFFICES ASSUME CacheInv, GetSector PROVE CacheInv'
  OBVIOUS
<1>1. PICK lba \in LBAs : GetCached(lba) \/ GetUncached(lba)
  BY DEF GetSector
<1>2. pc = "idle" /\ fatMounted /\ initialized
  BY DEF GetSector, CacheInv, RequestInv
<1>3. CASE GetCached(lba)
  <2> DEFINE slot == cachedSectors[lba]
  <2>1. /\ Cached(lba) /\ slot \in Slots /\ slot \in InUse
        /\ MakeMRU(slot) /\ activeCacheWindow' = slot
        /\ dirty' = [dirty EXCEPT ![slot] = TRUE] /\ Got(lba, buffer[slot])
        /\ UNCHANGED <<disk, freeSectors, cachedSectors, sectorIdx, buffer>>
    <3>1. Cached(lba) /\ (Showing(lba) => activeCacheWindow = slot)
      BY <1>2, <1>3, ShownIsFound DEF GetCached
    <3>2. slot \in Slots /\ slot \in InUse
      BY <3>1 DEF CacheInv, Indexed, InUse, Cached, TypeOK
    <3> QED BY <1>3, <3>1, <3>2 DEF GetCached
  <2> HIDE DEF slot
  <2>2. /\ lruSectors' \in Seq(Slots) /\ Len(lruSectors') = Len(lruSectors)
        /\ IsInjective(lruSectors') /\ InUse' = InUse
    BY <2>1, MRUKeeps DEF CacheInv
  <2>3. dirty' \in [Slots -> BOOLEAN] /\ buffer[slot] \in Values \cup {Garbage}
    BY <2>1 DEF CacheInv, TypeOK
  <2>4. answer' \in LBAs \X (Values \cup {Garbage})
    BY <2>1, <2>3 DEF Got
  <2>5. TypeOK'
    BY FailedTyped, <2>1, <2>2, <2>3, <2>4 DEF Next, Got, CacheInv, TypeOK, mount
  <2>6. ListsShare' /\ Indexed' /\ WindowIsCached'
    BY <2>1, <2>2 DEF Got, CacheInv, ListsShare, Indexed, WindowIsCached, Free, InUse,
                      Cached, mount
  <2>7. DirtyInUse'
    BY <2>1, <2>2 DEF CacheInv, DirtyInUse, TypeOK
  <2>8. RequestInv'
    BY <1>2, <2>1 DEF Got, CacheInv, RequestInv, mount
  <2> QED BY <2>5, <2>6, <2>7, <2>8 DEF CacheInv
<1>4. CASE GetUncached(lba)
  <2>1. PICK value :
          /\ value = buffer[NextSlot] \/ value = disk[lba]
          /\ NewSector(lba, value, TRUE) /\ Got(lba, value)
    BY <1>4 DEF GetUncached
  <2>2. NextSlot \in Slots
    <3>1. freeSectors # <<>> => freeSectors[Len(freeSectors)] \in Slots
      BY TakeLast DEF CacheInv, TypeOK, ListsShare
    <3>2. lruSectors # <<>> => Head(lruSectors) \in Slots
      BY TakeFirst DEF CacheInv, TypeOK, ListsShare
    <3>3. freeSectors # <<>> \/ lruSectors # <<>>
      <4>1. 1 \in Slots
        BY SectorCacheAssumption DEF Slots
      <4> QED BY <1>2, <4>1, Entries DEF CacheInv, TypeOK, ListsShare, Free, InUse
    <3> QED BY <3>1, <3>2, <3>3 DEF NextSlot
  <2>3. value \in Values \cup {Garbage}
    BY <2>1, <2>2 DEF CacheInv, TypeOK
  <2>4. Placed(lba)
    BY <1>2, <1>4, <2>1, <2>3, NewSectorKeeps DEF CacheInv, GetUncached
  <2>5. answer' \in LBAs \X (Values \cup {Garbage})
    BY <2>1, <2>3 DEF Got
  <2>6. activeCacheWindow' \in Slots /\ activeCacheWindow' \in InUse'
    BY <1>4, <2>4 DEF Placed, GetUncached
  <2>7. TypeOK'
    BY FailedTyped, <2>1, <2>4, <2>5, <2>6 DEF Next, Placed, Got, CacheInv, TypeOK, mount
  <2>8. ListsShare' /\ WindowIsCached'
    BY <1>2, <2>1, <2>4, <2>6 DEF Placed, Got, CacheInv, ListsShare, WindowIsCached, InUse, mount
  <2>9. RequestInv'
    BY <1>2, <2>1 DEF Got, CacheInv, RequestInv, mount
  <2> QED BY <2>4, <2>7, <2>8, <2>9 DEF Placed, CacheInv
<1> QED BY <1>1, <1>3, <1>4

\* What touches neither the lists nor the slots.
LEMMA OtherKeeps ==
  CacheInv /\ (Sync \/ NotReady \/ BeginShutdown \/ UNCHANGED vars) => CacheInv'
<1> SUFFICES ASSUME CacheInv, Sync \/ NotReady \/ BeginShutdown \/ UNCHANGED vars
             PROVE  CacheInv'
  OBVIOUS
<1>1. ListsShare' /\ Indexed' /\ DirtyInUse'
  BY SameCache DEF Sync, NotReady, BeginShutdown, vars, mount
<1>2. TypeOK'
  BY DEF Sync, NotReady, BeginShutdown, vars, CacheInv, TypeOK, mount, lists, slots, request
<1>3. WindowIsCached'
  BY DEF Sync, NotReady, BeginShutdown, vars, CacheInv, WindowIsCached, lists
<1>4. RequestInv'
  BY DEF Sync, NotReady, BeginShutdown, vars, CacheInv, RequestInv, mount, lists, request,
         Cached
<1> QED BY <1>1, <1>2, <1>3, <1>4 DEF CacheInv

\* The slots of a fresh cache are all free.
LEMMA InitializeKeeps == CacheInv /\ Initialize => CacheInv'
<1> SUFFICES ASSUME CacheInv, Initialize PROVE CacheInv'
  OBVIOUS
<1>1. CASE initialized
  <2>1. UNCHANGED <<initialized, lists, slots>> /\ fatMounted' \in BOOLEAN
    BY <1>1 DEF Initialize
  <2>2. ListsShare' /\ Indexed' /\ DirtyInUse'
    BY <2>1, SameCache
  <2>3. TypeOK'
    BY <2>1 DEF Initialize, CacheInv, TypeOK, lists, slots, request
  <2>4. WindowIsCached' /\ RequestInv'
    BY <1>1, <2>1 DEF Initialize, CacheInv, WindowIsCached, RequestInv, lists, request
  <2> QED BY <2>2, <2>3, <2>4 DEF CacheInv
<1>2. CASE ~initialized
  <2>1. /\ initialized' = TRUE /\ fatMounted' \in BOOLEAN
        /\ freeSectors' = [s \in Slots |-> s]
        /\ UNCHANGED <<lruSectors, cachedSectors, slots>>
    BY <1>2 DEF Initialize
  <2>2. Free = {} /\ InUse = {} /\ lruSectors = <<>> /\ Len(lruSectors) = 0
    BY <1>2, Entries DEF CacheInv, TypeOK, ListsShare, Free, InUse
  <2>3. CacheSize \in Nat
    BY SectorCacheAssumption
  <2>4. freeSectors' \in Seq(Slots) /\ DOMAIN freeSectors' = Slots
    BY <2>1, <2>3, IsASeq DEF Slots
  <2>5. Len(freeSectors') = CacheSize
    BY <2>3, <2>4, LenProperties DEF Slots
  <2>6. IsInjective(freeSectors') /\ Free' = Slots
    BY <2>1, <2>4 DEF IsInjective, Free, ToSet
  <2>7. TypeOK'
    BY <2>1, <2>2, <2>3, <2>4, <2>5 DEF Initialize, CacheInv, TypeOK, slots, request
  <2>8. InUse' = {} /\ IsInjective(lruSectors')
    BY <2>1, <2>2 DEF InUse, CacheInv, ListsShare
  <2>9. ListsShare'
    BY <2>1, <2>6, <2>8 DEF ListsShare
  <2>10. Indexed' /\ WindowIsCached' /\ DirtyInUse'
    BY <2>1, <2>2, <2>8 DEF Initialize, CacheInv, Indexed, WindowIsCached, DirtyInUse, InUse,
                            Cached, slots
  <2>11. RequestInv'
    BY <1>2, <2>1 DEF Initialize, CacheInv, RequestInv, request
  <2> QED BY <2>7, <2>9, <2>10, <2>11 DEF CacheInv
<1> QED BY <1>1, <1>2

\* ffcache_flushSectors: the oldest slot is written and becomes free.
LEMMA FlushOldestKeeps == CacheInv /\ FlushOldest => CacheInv'
<1> SUFFICES ASSUME CacheInv, FlushOldest PROVE CacheInv'
  OBVIOUS
<1> DEFINE s == Head(lruSectors)
           old == sectorIdx[s]
<1>1. /\ pc = "flush" /\ lruSectors # <<>>
      /\ RawWrite(Flushed(s)) /\ dirty' = Cleaned(Flushed(s))
      /\ cachedSectors' = Without(old)
      /\ freeSectors' = Append(freeSectors, s) /\ lruSectors' = Tail(lruSectors)
      /\ UNCHANGED <<mount, sectorIdx, buffer, activeCacheWindow, pc, request, i, f, last,
                     data, out, answer, res>>
  BY DEF FlushOldest
<1>2. /\ s \in Slots /\ s \in InUse
      /\ lruSectors' \in Seq(Slots) /\ Len(lruSectors') = Len(lruSectors) - 1
      /\ IsInjective(lruSectors') /\ InUse' = InUse \ {s}
  BY <1>1, TakeFirst DEF CacheInv, TypeOK, ListsShare, InUse
<1>3. s \notin Free
  BY <1>2 DEF CacheInv, ListsShare
<1>4. /\ freeSectors' \in Seq(Slots) /\ Len(freeSectors') = Len(freeSectors) + 1
      /\ IsInjective(freeSectors') /\ Free' = Free \cup {s}
  BY <1>1, <1>2, <1>3, AddLast DEF CacheInv, TypeOK, ListsShare, Free
<1>5. /\ disk' \in [LBAs -> Values \cup {Garbage}]
      /\ dirty' \in [Slots -> BOOLEAN]
      /\ \A x \in Slots : dirty'[x] => dirty[x]
      /\ ~dirty'[s]
  BY <1>1, <1>2, FlushKeeps DEF CacheInv
<1> HIDE DEF s
<1>6. /\ DOMAIN cachedSectors' = DOMAIN cachedSectors \ {old}
      /\ \A k \in DOMAIN cachedSectors \ {old} : cachedSectors'[k] = cachedSectors[k]
  BY <1>1 DEF Without
<1>7. Len(freeSectors') + Len(lruSectors') <= CacheSize
  <2>1. Len(freeSectors) \in Nat /\ Len(lruSectors) \in Nat
    BY LenProperties DEF CacheInv, TypeOK
  <2> QED BY <1>2, <1>4, <2>1, SectorCacheAssumption DEF CacheInv, TypeOK
<1>8. TypeOK'
  BY FailedTyped, <1>1, <1>2, <1>4, <1>5, <1>6, <1>7 DEF Next, CacheInv, TypeOK, mount, request
<1>9. ListsShare'
  BY <1>1, <1>2, <1>4 DEF CacheInv, ListsShare, RequestInv, mount
<1>10. Indexed'
  <2>1. old \in DOMAIN cachedSectors /\ cachedSectors[old] = s
    BY <1>2 DEF CacheInv, Indexed, InUse, Cached
  <2>2. ASSUME NEW k \in DOMAIN cachedSectors'
        PROVE  cachedSectors'[k] \in InUse' /\ sectorIdx'[cachedSectors'[k]] = k
    <3>1. /\ k \in DOMAIN cachedSectors /\ k # old /\ cachedSectors'[k] = cachedSectors[k]
      BY <1>6
    <3>2. cachedSectors[k] \in InUse /\ sectorIdx[cachedSectors[k]] = k
      BY <3>1 DEF CacheInv, Indexed, InUse
    <3> QED BY <1>1, <1>2, <3>1, <3>2
  <2>3. ASSUME NEW x \in InUse'
        PROVE  sectorIdx'[x] \in DOMAIN cachedSectors' /\ cachedSectors'[sectorIdx'[x]] = x
    <3>1. x \in InUse /\ x # s
      BY <1>2
    <3>2. sectorIdx[x] \in DOMAIN cachedSectors /\ cachedSectors[sectorIdx[x]] = x
      BY <3>1 DEF CacheInv, Indexed, InUse, Cached
    <3> QED BY <1>1, <1>6, <2>1, <3>1, <3>2
  <2> QED BY <2>2, <2>3 DEF Indexed, InUse, Cached
<1>11. WindowIsCached' /\ DirtyInUse'
  BY <1>1, <1>2, <1>5 DEF CacheInv, WindowIsCached, DirtyInUse
<1>12. RequestInv'
  BY <1>1 DEF CacheInv, RequestInv, mount
<1> QED BY <1>8, <1>9, <1>10, <1>11, <1>12 DEF CacheInv

\* The slots are freed.
LEMMA EndShutdownKeeps == CacheInv /\ EndShutdown => CacheInv'
<1> SUFFICES ASSUME CacheInv, EndShutdown PROVE CacheInv'
  OBVIOUS
<1>1. /\ pc' = "down" /\ freeSectors' = <<>> /\ lruSectors = <<>>
      /\ initialized' = FALSE /\ fatMounted' = FALSE
      /\ UNCHANGED <<disk, lruSectors, cachedSectors, slots, activeCacheWindow, request,
                     i, f, last, data, out, answer, res>>
  BY DEF EndShutdown
<1>2. /\ <<>> \in Seq(Slots) /\ Len(<<>>) = 0 /\ ToSet(<<>>) = {} /\ IsInjective(<<>>)
  BY EmptySeq DEF ToSet, IsInjective
<1>3. InUse = {} /\ InUse' = {} /\ Free' = {}
  BY <1>1, <1>2 DEF InUse, Free
<1>4. freeSectors' \in Seq(Slots) /\ Len(freeSectors') + Len(lruSectors') <= CacheSize
  BY <1>1, <1>2, SectorCacheAssumption
<1>5. TypeOK'
  BY FailedTyped, <1>1, <1>4 DEF Next, CacheInv, TypeOK, slots, request
<1>6. ListsShare'
  BY <1>1, <1>2, <1>3 DEF ListsShare
<1>7. Indexed' /\ WindowIsCached' /\ DirtyInUse' /\ RequestInv'
  BY <1>1, <1>3 DEF CacheInv, Indexed, WindowIsCached, DirtyInUse, RequestInv, InUse, Cached,
                    slots
<1> QED BY <1>5, <1>6, <1>7 DEF CacheInv

\* All steps keep the inductive invariant.
LEMMA CacheStep == CacheInv /\ [Next]_vars => CacheInv'
  BY BeginKeeps, ReadHitKeeps, ReadMissKeeps, FillKeeps, EndKeeps, WriteKeeps, GetSectorKeeps,
     OtherKeeps, InitializeKeeps, FlushOldestKeeps, EndShutdownKeeps
  DEF Next

\* The lists, the map, the window and the slots agree for every size of the cache
\* and of the drive, and whatever the raw device fails to do.
THEOREM CacheStaysConsistent == Spec => []CacheIsConsistent
<1>1. CacheInv => SlotsPartitioned
  <2> SUFFICES ASSUME CacheInv PROVE SlotsPartitioned
    OBVIOUS
  <2>1. /\ Cardinality(ToSet(freeSectors)) = Len(freeSectors)
        /\ Cardinality(ToSet(lruSectors)) = Len(lruSectors)
    BY DistinctLength DEF CacheInv, TypeOK, ListsShare
  <2> QED BY <2>1 DEF CacheInv, ListsShare, SlotsPartitioned, Free, InUse
<1>2. CacheInv => CacheIsConsistent
  BY <1>1 DEF CacheInv, CacheIsConsistent
<1> QED BY <1>2, InitCache, CacheStep, PTL DEF Spec

\* cache_flushSectorRange never meets the zero its author warns of.
THEOREM FlushNeverZero == Spec => []NoZeroFlush
<1>1. CacheInv => NoZeroFlush
  <2> SUFFICES ASSUME CacheInv, NEW s \in Slots, dirty[s]
               PROVE  FlushableRange(sectorIdx[s]) # 0
    BY DEF NoZeroFlush
  <2>1. s \in InUse
    BY DEF CacheInv, DirtyInUse
  <2>2. Dirty(sectorIdx[s])
    BY <2>1 DEF CacheInv, Indexed, InUse, Dirty
  <2>3. sectorIdx[s] \in Nat
    BY SectorCacheAssumption DEF CacheInv, TypeOK, LBAs, NoSector
  <2> DEFINE at == sectorIdx[s]
             n == FlushableRange(at)
  <2>4. MaxRun # 0 /\ (n = MaxRun \/ ~Dirty(at + n))
    BY RunFacts
  <2> HIDE DEF n
  <2>5. n = 0 => FALSE
    BY <2>2, <2>3, <2>4
  <2> QED BY <2>5 DEF n
<1> QED BY <1>1, InitCache, CacheStep, PTL DEF Spec

-----------------------------------------------------------------------------
(* Until the raw device fails, the cache cannot be told from the drive.      *)

\* Slots that are clean, and data on its way, are what the disk holds.
Faithful ==
  /\ CleanSlots
  /\ pc = "fill" => \A k \in f..(last - 1) : data[k] = disk[first + k]
  /\ pc = "write" => \A k \in DOMAIN data : data[k] \in Values
  /\ count = 1 /\ ((pc = "read" /\ i = 1) \/ (pc = "fill" /\ f = 1))
       => out[0] = Contents[first]

\* The drive as FatFs sees it, before a step and after it.
LEMMA ContentsAt ==
  /\ \A k \in LBAs : Contents[k] = IF k \in DOMAIN cachedSectors
                                    THEN buffer[cachedSectors[k]] ELSE disk[k]
  /\ Contents' = [k \in LBAs |-> IF k \in DOMAIN cachedSectors'
                                   THEN buffer'[cachedSectors'[k]] ELSE disk'[k]]
  /\ DOMAIN Contents = LBAs /\ Contents = [k \in LBAs |-> Contents[k]]
  BY DEF Contents, Cached

\* A flush brings to the disk what the slots it cleans hold.
LEMMA FlushContents ==
  ASSUME CacheInv, CleanSlots, ~failed', NEW slot \in Slots,
         RawWrite(Flushed(slot))
  PROVE  /\ \A k \in LBAs \ DOMAIN cachedSectors : disk'[k] = disk[k]
         /\ \A k \in DOMAIN cachedSectors :
              ~Cleaned(Flushed(slot))[cachedSectors[k]] => disk'[k] = buffer[cachedSectors[k]]
<1>1. /\ \A k \in LBAs : disk'[k] = IF k \in Flushed(slot) THEN buffer[cachedSectors[k]]
                                    ELSE disk[k]
      /\ Flushed(slot) \subseteq DOMAIN cachedSectors
  BY FlushFacts DEF RawWrite, Faults, CacheInv
<1>2. ASSUME NEW k \in DOMAIN cachedSectors, k \notin Flushed(slot),
             ~Cleaned(Flushed(slot))[cachedSectors[k]]
      PROVE  disk[k] = buffer[cachedSectors[k]]
  <2>1. cachedSectors[k] \in Slots
    BY DEF CacheInv, TypeOK
  <2>2. \A l \in Flushed(slot) : cachedSectors[k] # cachedSectors[l]
    BY <1>1, <1>2 DEF CacheInv, Indexed
  <2>3. ~dirty[cachedSectors[k]]
    BY <1>2, <2>1, <2>2, Zenon DEF Cleaned
  <2> QED BY <2>3 DEF CleanSlots
<1>3. DOMAIN cachedSectors \subseteq LBAs
  BY DEF CacheInv, TypeOK
<1> QED BY <1>1, <1>2, <1>3

\* Giving a slot to a sector changes that sector at most.
LEMMA NewSectorContents ==
  ASSUME CacheInv, CleanSlots, ~failed', initialized,
         NEW lba \in LBAs, ~Cached(lba), NEW value, NEW d \in BOOLEAN,
         d \/ value = disk[lba], NewSector(lba, value, d)
  PROVE  /\ CleanSlots'
         /\ Contents' = [Contents EXCEPT ![lba] = value]
         /\ \A k \in LBAs \ DOMAIN cachedSectors : disk'[k] = disk[k]
<1> DEFINE s == NextSlot
<1>0. /\ \A k \in DOMAIN cachedSectors :
           /\ cachedSectors[k] \in Slots /\ cachedSectors[k] \in InUse
           /\ sectorIdx[cachedSectors[k]] = k
      /\ DOMAIN cachedSectors \subseteq LBAs /\ lba \notin DOMAIN cachedSectors
      /\ dirty \in [Slots -> BOOLEAN] /\ DOMAIN buffer = Slots
  BY DEF CacheInv, TypeOK, Indexed, InUse, Cached
<1>1. buffer' = [buffer EXCEPT ![s] = value]
  BY DEF NewSector
<1>2. CASE TakeFree(lba, d)
  <2>1. /\ freeSectors # <<>> /\ s = freeSectors[Len(freeSectors)]
        /\ dirty' = [dirty EXCEPT ![s] = d] /\ disk' = disk
        /\ cachedSectors' = WithSlot(cachedSectors, lba, s)
    BY <1>2 DEF TakeFree, NextSlot
  <2>2. s \in Slots /\ s \notin InUse
    BY <2>1, TakeLast DEF CacheInv, TypeOK, ListsShare, Free
  <2> HIDE DEF s
  <2>3. /\ DOMAIN cachedSectors' = DOMAIN cachedSectors \cup {lba}
        /\ cachedSectors'[lba] = s
        /\ \A k \in DOMAIN cachedSectors : cachedSectors'[k] = cachedSectors[k]
    BY <1>0, <2>1 DEF WithSlot
  <2>4. \A k \in DOMAIN cachedSectors : buffer'[cachedSectors'[k]] = buffer[cachedSectors[k]]
    BY <1>0, <1>1, <2>2, <2>3
  <2>5. buffer'[cachedSectors'[lba]] = value
    BY <1>0, <1>1, <2>2, <2>3
  <2>6. CleanSlots'
    <3> SUFFICES ASSUME NEW k \in DOMAIN cachedSectors', ~dirty'[cachedSectors'[k]]
                 PROVE  disk'[k] = buffer'[cachedSectors'[k]]
      BY DEF CleanSlots
    <3>1. CASE k = lba
      <4>1. ~d
        BY <1>0, <2>1, <2>2, <2>3, <3>1
      <4> QED BY <2>1, <2>5, <3>1, <4>1
    <3>2. CASE k # lba
      <4>1. k \in DOMAIN cachedSectors /\ ~dirty[cachedSectors[k]]
        BY <1>0, <2>1, <2>2, <2>3, <3>2
      <4> QED BY <2>1, <2>4, <4>1 DEF CleanSlots
    <3> QED BY <3>1, <3>2
  <2>7. \A k \in LBAs : Contents'[k] = IF k = lba THEN value ELSE Contents[k]
    BY <1>0, <2>1, <2>3, <2>4, <2>5, ContentsAt
  <2> QED BY <2>1, <2>6, <2>7, ContentsAt
<1>3. CASE TakeOldest(lba, d)
  <2> DEFINE old == sectorIdx[s]
             clean == Cleaned(Flushed(s))
  <2>1. /\ freeSectors = <<>> /\ s = Head(lruSectors)
        /\ RawWrite(Flushed(s))
        /\ dirty' = [clean EXCEPT ![s] = d]
        /\ cachedSectors' = WithSlot(Without(old), lba, s)
    BY <1>3 DEF TakeOldest, NextSlot
  <2>2. s \in Slots /\ s \in InUse
    <3>1. freeSectors = <<>> => Free = {}
      BY Entries DEF CacheInv, TypeOK, Free
    <3>2. 1 \in Slots
      BY SectorCacheAssumption DEF Slots
    <3>3. lruSectors # <<>>
      BY <2>1, <3>1, <3>2, Entries DEF CacheInv, TypeOK, ListsShare, InUse
    <3> QED BY <2>1, <3>3, TakeFirst DEF CacheInv, TypeOK, ListsShare, InUse
  <2>3. old \in DOMAIN cachedSectors /\ cachedSectors[old] = s
    BY <2>2 DEF CacheInv, Indexed, InUse, Cached
  <2>4. /\ \A k \in LBAs \ DOMAIN cachedSectors : disk'[k] = disk[k]
        /\ \A k \in DOMAIN cachedSectors :
             ~clean[cachedSectors[k]] => disk'[k] = buffer[cachedSectors[k]]
    BY <2>1, <2>2, FlushContents
  <2>5. clean \in [Slots -> BOOLEAN] /\ ~clean[s]
    BY <2>2, FlushKeeps DEF CacheInv
  <2> HIDE DEF s, old, clean
  <2>6. /\ DOMAIN cachedSectors' = (DOMAIN cachedSectors \ {old}) \cup {lba}
        /\ cachedSectors'[lba] = s
        /\ \A k \in DOMAIN cachedSectors \ {old} : cachedSectors'[k] = cachedSectors[k]
    BY <1>0, <2>1 DEF WithSlot, Without
  <2>7. \A k \in DOMAIN cachedSectors \ {old} :
          cachedSectors[k] # s /\ buffer'[cachedSectors'[k]] = buffer[cachedSectors[k]]
    <3> SUFFICES ASSUME NEW k \in DOMAIN cachedSectors \ {old}
                 PROVE  cachedSectors[k] # s /\ buffer'[cachedSectors'[k]] = buffer[cachedSectors[k]]
      OBVIOUS
    <3>1. cachedSectors[k] # s
      BY <1>0, <2>3
    <3> QED BY <1>0, <1>1, <2>6, <3>1
  <2>8. buffer'[cachedSectors'[lba]] = value
    BY <1>0, <1>1, <2>2, <2>6
  <2>9. CleanSlots'
    <3> SUFFICES ASSUME NEW k \in DOMAIN cachedSectors', ~dirty'[cachedSectors'[k]]
                 PROVE  disk'[k] = buffer'[cachedSectors'[k]]
      BY DEF CleanSlots
    <3>1. CASE k = lba
      <4>1. ~d
        BY <2>1, <2>2, <2>5, <2>6, <3>1
      <4> QED BY <1>0, <2>4, <2>8, <3>1, <4>1
    <3>2. CASE k # lba
      <4>1. k \in DOMAIN cachedSectors \ {old}
        BY <2>6, <3>2
      <4>2. ~clean[cachedSectors[k]]
        BY <1>0, <2>1, <2>5, <2>6, <2>7, <4>1
      <4> QED BY <2>4, <2>7, <4>1, <4>2
    <3> QED BY <3>1, <3>2
  <2>10. \A k \in DOMAIN cachedSectors \ {old} : Contents'[k] = Contents[k]
    BY <1>0, <2>6, <2>7, ContentsAt
  <2>11. Contents'[old] = Contents[old]
    <3>1. old # lba /\ old \in LBAs /\ old \notin DOMAIN cachedSectors'
      BY <1>0, <2>3, <2>6
    <3>2. disk'[old] = buffer[cachedSectors[old]]
      BY <2>3, <2>4, <2>5
    <3> QED BY <2>3, <3>1, <3>2, ContentsAt
  <2>12. \A k \in LBAs \ DOMAIN cachedSectors : k # lba => Contents'[k] = Contents[k]
    BY <2>3, <2>4, <2>6, ContentsAt
  <2>13. Contents'[lba] = value
    BY <2>6, <2>8, ContentsAt
  <2>14. \A k \in LBAs : Contents'[k] = IF k = lba THEN value ELSE Contents[k]
    BY <1>0, <2>10, <2>11, <2>12, <2>13
  <2> QED BY <2>4, <2>9, <2>14, ContentsAt
<1> QED BY <1>2, <1>3 DEF NewSector

\* What a step of the cache is to the store: a write, a read or nothing.
StoreStep == [Store!Next]_(Store!vars)

\* If neither the drive nor the cache changes, what FatFs sees does not.
LEMMA SameContents ==
  ASSUME UNCHANGED <<disk, cachedSectors, buffer>>
  PROVE  Contents' = Contents
  BY DEF Contents, Cached

\* Nothing but a place or a buffer of the request changes.
LEMMA QuietSteps ==
  ASSUME CacheInv, Faithful, ~failed', UNCHANGED failed,
         BeginRead \/ BeginWrite \/ ReadMiss \/ FillEnd \/ EndWrite \/ Sync \/ NotReady
           \/ Initialize \/ BeginShutdown \/ EndShutdown \/ UNCHANGED vars
  PROVE  Faithful' /\ StoreStep
<1>1. UNCHANGED <<disk, cachedSectors, dirty, buffer, answer>>
  BY DEF BeginRead, BeginWrite, Begin, ReadMiss, FillEnd, EndWrite, End, Sync, NotReady,
         Initialize, BeginShutdown, EndShutdown, vars, lists, slots
<1>2. Contents' = Contents /\ CleanSlots'
  BY <1>1, SameContents DEF Faithful, CleanSlots
<1>3. StoreStep
  BY <1>1, <1>2 DEF StoreStep, Store!vars
<1>4. CASE BeginRead \/ BeginWrite
  <2>1. i' = 0 /\ pc' # "fill"
    BY <1>4 DEF BeginRead, BeginWrite, Begin, CacheInv, RequestInv
  <2>2. pc' = "write" => \A k \in DOMAIN data' : data'[k] \in Values
    BY <1>4 DEF BeginRead, BeginWrite, Begin
  <2> QED BY <1>2, <1>3, <2>1, <2>2 DEF Faithful
<1>5. CASE ReadMiss
  <2>1. /\ i \in Nat /\ count \in Nat /\ i < count
        /\ f' = i /\ last' = UncachedEnd /\ pc' = "fill" /\ UNCHANGED <<i, first, count>>
        /\ data' = [k \in i..(count - 1) |-> disk[first + k]]
    BY <1>5 DEF ReadMiss, Faults, CacheInv, TypeOK, request
  <2>2. last' \in (i + 1)..count
    BY <1>5, <2>1, UncachedFacts DEF ReadMiss
  <2>3. \A k \in i..(last' - 1) : data'[k] = disk[first + k]
    BY <2>1, <2>2
  <2>4. count = 1 => f' # 1
    BY <2>1
  <2> QED BY <1>1, <1>2, <1>3, <2>1, <2>3, <2>4 DEF Faithful
<1>6. CASE FillEnd
  <2>1. /\ pc = "fill" /\ pc' = "read" /\ f = last /\ i' = last
        /\ UNCHANGED <<first, count, out>>
    BY <1>6 DEF FillEnd, request
  <2> QED BY <1>2, <1>3, <2>1 DEF Faithful
<1>7. CASE EndWrite \/ Initialize \/ BeginShutdown \/ EndShutdown
  <2>1. pc' \in {"idle", "flush", "down"}
    BY <1>7 DEF EndWrite, End, Initialize, BeginShutdown, EndShutdown
  <2> QED BY <1>2, <1>3, <2>1 DEF Faithful
<1>8. CASE Sync \/ NotReady
  <2>1. pc' = "idle"
    BY <1>8 DEF Sync, NotReady
  <2> QED BY <1>2, <1>3, <2>1 DEF Faithful
<1>9. CASE UNCHANGED vars
  <2>1. UNCHANGED <<pc, first, count, i, f, last, data, out, disk>>
    BY <1>9 DEF vars, request
  <2> QED BY <1>2, <1>3, <2>1 DEF Faithful
<1> QED BY <1>4, <1>5, <1>6, <1>7, <1>8, <1>9

\* Reading a cached sector.
LEMMA ReadHitIsRead ==
  ASSUME CacheInv, Faithful, ~failed', UNCHANGED failed, ReadHit
  PROVE  Faithful' /\ StoreStep
<1>1. /\ pc = "read" /\ i < count /\ Cached(first + i)
      /\ out' = [out EXCEPT ![i] = buffer[cachedSectors[first + i]]]
      /\ i' = i + 1
      /\ UNCHANGED <<disk, cachedSectors, dirty, buffer, answer, pc, first, count>>
  BY DEF ReadHit, slots, request
<1>2. Contents' = Contents /\ CleanSlots'
  BY <1>1, SameContents DEF Faithful, CleanSlots
<1>3. StoreStep
  BY <1>1, <1>2 DEF StoreStep, Store!vars
<1>4. ASSUME count = 1 PROVE out'[0] = Contents[first]
  <2>1. i = 0 /\ first + i = first /\ first \in LBAs
    BY <1>1, <1>4, SectorCacheAssumption DEF CacheInv, TypeOK, LBAs
  <2>2. 0 \in DOMAIN out
    BY <1>1, <1>4 DEF CacheInv, RequestInv
  <2>3. out'[0] = buffer[cachedSectors[first]]
    BY <1>1, <2>1, <2>2
  <2>4. first \in DOMAIN cachedSectors
    BY <1>1, <2>1 DEF Cached
  <2> QED BY <2>1, <2>3, <2>4, ContentsAt
<1> QED BY <1>1, <1>2, <1>3, <1>4 DEF Faithful

\* Filling a slot with what the disk holds changes nothing FatFs sees.
LEMMA FillIsQuiet ==
  ASSUME CacheInv, Faithful, ~failed', UNCHANGED failed, Fill
  PROVE  Faithful' /\ StoreStep
<1>1. /\ f \in Nat /\ count \in Nat /\ i \in Nat /\ last \in Nat
      /\ i <= f /\ f < last /\ last <= count
      /\ first \in Nat /\ first + count <= NumSectors
      /\ DOMAIN out = 0..(count - 1)
      /\ \A k \in f..(last - 1) : ~Cached(first + k)
      /\ \A k \in f..(last - 1) : data[k] = disk[first + k]
      /\ initialized /\ pc = "fill"
  BY SectorCacheAssumption DEF Fill, CacheInv, TypeOK, RequestInv, LBAs, Faithful
<1>2. /\ NewSector(first + f, data[f], FALSE)
      /\ out' = [out EXCEPT ![i] = data[f]] /\ f' = f + 1
      /\ UNCHANGED <<pc, first, count, i, last, data, answer>>
  BY DEF Fill, request
<1>3. /\ first + f \in LBAs /\ ~Cached(first + f)
      /\ data[f] = disk[first + f] /\ data[f] = Contents[first + f]
  <2>1. first + f \in LBAs /\ f \in f..(last - 1)
    BY <1>1, SectorCacheAssumption DEF LBAs
  <2> QED BY <1>1, <2>1, ContentsAt DEF Cached
<1> DEFINE lba == first + f
           value == data[f]
<1>4. lba \in LBAs /\ ~Cached(lba) /\ value = disk[lba] /\ value = Contents[lba]
      /\ NewSector(lba, value, FALSE)
  BY <1>2, <1>3
<1> HIDE DEF lba, value
<1>5. /\ CleanSlots' /\ Contents' = [Contents EXCEPT ![lba] = value]
      /\ \A k \in LBAs \ DOMAIN cachedSectors : disk'[k] = disk[k]
  BY <1>1, <1>4, NewSectorContents DEF Faithful
<1>6. Contents' = Contents
  BY <1>4, <1>5, ContentsAt
<1>7. StoreStep
  BY <1>2, <1>6 DEF StoreStep, Store!vars
<1>8. \A k \in (f + 1)..(last - 1) : data[k] = disk'[first + k]
  <2> SUFFICES ASSUME NEW k \in (f + 1)..(last - 1) PROVE data[k] = disk'[first + k]
    OBVIOUS
  <2>1. k \in f..(last - 1) /\ first + k \in LBAs
    BY <1>1, SectorCacheAssumption DEF LBAs
  <2> QED BY <1>1, <1>5, <2>1 DEF Cached
<1>9. ASSUME count = 1 PROVE out'[0] = Contents[first]
  <2>1. i = 0 /\ f = 0 /\ first + f = first /\ 0 \in DOMAIN out
    BY <1>1, <1>9
  <2> QED BY <1>2, <1>3, <2>1
<1> QED BY <1>2, <1>5, <1>6, <1>7, <1>8, <1>9, <1>1 DEF Faithful

\* The answer to a request for one sector is what the sector holds.
LEMMA EndReadIsRead ==
  ASSUME CacheInv, Faithful, ~failed', UNCHANGED failed, EndRead
  PROVE  Faithful' /\ StoreStep
<1>1. /\ pc = "read" /\ pc' = "idle" /\ i = count
      /\ answer' = IF count = 1 THEN <<first, out[0]>> ELSE answer
      /\ UNCHANGED <<disk, cachedSectors, dirty, buffer>>
  BY DEF EndRead, End, lists, slots
<1>2. Contents' = Contents /\ CleanSlots'
  BY <1>1, SameContents DEF Faithful, CleanSlots
<1>3. CASE count = 1
  <2>1. out[0] = Contents[first] /\ first \in Store!LBAs
    BY <1>1, <1>3 DEF Faithful, CacheInv, TypeOK, LBAs, Store!LBAs
  <2>2. Store!Read
    BY <1>1, <1>2, <1>3, <2>1 DEF Store!Read
  <2> QED BY <1>1, <1>2, <2>2 DEF Faithful, StoreStep, Store!Next
<1>4. CASE count # 1
  BY <1>1, <1>2, <1>4 DEF Faithful, StoreStep, Store!vars
<1> QED BY <1>3, <1>4

\* A sector is written for FatFs as soon as its slot holds the data.
LEMMA WriteIsWrite ==
  ASSUME CacheInv, Faithful, ~failed', UNCHANGED failed, WriteSector
  PROVE  Faithful' /\ StoreStep
<1>1. /\ pc = "write" /\ initialized
      /\ first + i \in LBAs /\ data[i] \in Values /\ DOMAIN data = 0..(count - 1)
      /\ UNCHANGED <<pc, data, answer>>
  <2>1. /\ i \in Nat /\ count \in Nat /\ i < count /\ first \in Nat
        /\ first + count <= NumSectors /\ DOMAIN data = 0..(count - 1)
        /\ initialized /\ pc = "write"
    BY SectorCacheAssumption DEF WriteSector, CacheInv, TypeOK, RequestInv, LBAs
  <2>2. first + i \in LBAs /\ i \in DOMAIN data
    BY <2>1, SectorCacheAssumption DEF LBAs
  <2> QED BY <2>1, <2>2 DEF WriteSector, Faithful
<1> DEFINE lba == first + i
           value == data[i]
<1>2. WriteHit \/ (~Cached(lba) /\ NewSector(lba, value, TRUE))
  BY DEF WriteSector, WriteMiss
<1>3. ASSUME WriteHit
      PROVE  CleanSlots' /\ Contents' = [Contents EXCEPT ![lba] = value]
  <2> DEFINE slot == cachedSectors[lba]
  <2>1. /\ Cached(lba) /\ buffer' = [buffer EXCEPT ![slot] = value]
        /\ dirty' = [dirty EXCEPT ![slot] = TRUE]
        /\ UNCHANGED <<disk, cachedSectors>>
    BY <1>3 DEF WriteHit, lists
  <2>2. /\ slot \in Slots /\ DOMAIN buffer = Slots /\ DOMAIN dirty = Slots
        /\ \A k \in DOMAIN cachedSectors : /\ cachedSectors[k] \in Slots
                                           /\ k # lba => cachedSectors[k] # slot
    BY <2>1 DEF CacheInv, TypeOK, Indexed, Cached
  <2> HIDE DEF slot
  <2>3. CleanSlots'
    <3> SUFFICES ASSUME NEW k \in DOMAIN cachedSectors', ~dirty'[cachedSectors'[k]]
                 PROVE  disk'[k] = buffer'[cachedSectors'[k]]
      BY DEF CleanSlots
    <3>1. k # lba
      BY <2>1, <2>2 DEF slot
    <3> QED BY <2>1, <2>2, <3>1 DEF Faithful, CleanSlots
  <2>4. \A k \in LBAs : Contents'[k] = IF k = lba THEN value ELSE Contents[k]
    BY <2>1, <2>2, ContentsAt DEF slot, Cached
  <2> QED BY <2>3, <2>4, ContentsAt
<1> HIDE DEF lba, value
<1>4. lba \in LBAs /\ value \in Values
  BY <1>1 DEF lba, value
<1>5. CleanSlots' /\ Contents' = [Contents EXCEPT ![lba] = value]
  BY <1>1, <1>2, <1>3, <1>4, NewSectorContents DEF Faithful
<1>6. Store!Write
  BY <1>1, <1>4, <1>5 DEF Store!Write, LBAs, Store!LBAs
<1> QED BY <1>1, <1>5, <1>6 DEF Faithful, StoreStep, Store!Next

\* ffcache_getSector answers with what the sector holds.
LEMMA GetSectorIsRead ==
  ASSUME CacheInv, Faithful, ~failed', UNCHANGED failed, GetSector
  PROVE  Faithful' /\ StoreStep
<1>1. PICK lba \in LBAs : GetCached(lba) \/ GetUncached(lba)
  BY DEF GetSector
<1>2. pc = "idle" /\ initialized
  BY DEF GetSector, CacheInv, RequestInv
<1>3. /\ CleanSlots' /\ Contents' = Contents
      /\ pc' = "idle" /\ answer' = <<lba, Contents[lba]>>
  <2>1. CASE GetCached(lba)
    <3> DEFINE slot == cachedSectors[lba]
    <3>1. /\ Cached(lba) /\ dirty' = [dirty EXCEPT ![slot] = TRUE] /\ Got(lba, buffer[slot])
          /\ UNCHANGED <<disk, cachedSectors, buffer>>
      BY <1>2, <2>1, ShownIsFound DEF GetCached
    <3>2. Contents' = Contents /\ Contents[lba] = buffer[slot]
      BY <3>1, SameContents, ContentsAt DEF Cached
    <3>3. DOMAIN dirty = Slots /\ \A k \in DOMAIN cachedSectors : cachedSectors[k] \in Slots
      BY DEF CacheInv, TypeOK
    <3> HIDE DEF slot
    <3>4. CleanSlots'
      <4> SUFFICES ASSUME NEW k \in DOMAIN cachedSectors', ~dirty'[cachedSectors'[k]]
                   PROVE  disk'[k] = buffer'[cachedSectors'[k]]
        BY DEF CleanSlots
      <4>1. ~dirty[cachedSectors[k]]
        BY <3>1, <3>3
      <4> QED BY <3>1, <4>1 DEF Faithful, CleanSlots
    <3> QED BY <1>2, <3>1, <3>2, <3>4 DEF Got
  <2>2. CASE GetUncached(lba)
    <3>1. /\ ~Cached(lba) /\ NewSector(lba, disk[lba], TRUE) /\ Got(lba, disk[lba])
      BY <2>2 DEF GetUncached, Faults
    <3>2. CleanSlots' /\ Contents' = [Contents EXCEPT ![lba] = disk[lba]]
      BY <1>2, <3>1, NewSectorContents DEF Faithful
    <3>3. Contents[lba] = disk[lba]
      BY <3>1, ContentsAt DEF Cached
    <3>4. Contents' = Contents
      BY <3>2, <3>3, ContentsAt
    <3> QED BY <1>2, <3>1, <3>2, <3>3, <3>4 DEF Got
  <2> QED BY <1>1, <2>1, <2>2
<1>4. Store!Read
  BY <1>3 DEF Store!Read, LBAs, Store!LBAs
<1> QED BY <1>3, <1>4 DEF Faithful, StoreStep, Store!Next

\* What the shutdown takes from the cache is on the disk.
LEMMA FlushIsQuiet ==
  ASSUME CacheInv, Faithful, ~failed', UNCHANGED failed, FlushOldest
  PROVE  Faithful' /\ StoreStep
<1> DEFINE s == Head(lruSectors)
           old == sectorIdx[s]
           clean == Cleaned(Flushed(s))
<1>1. /\ pc = "flush" /\ lruSectors # <<>> /\ RawWrite(Flushed(s))
      /\ dirty' = clean /\ cachedSectors' = Without(old)
      /\ UNCHANGED <<buffer, pc, answer>>
  BY DEF FlushOldest
<1>2. s \in Slots /\ s \in InUse
  BY <1>1, TakeFirst DEF CacheInv, TypeOK, ListsShare, InUse
<1>3. old \in DOMAIN cachedSectors /\ cachedSectors[old] = s /\ DOMAIN cachedSectors \subseteq LBAs
  BY <1>2 DEF CacheInv, TypeOK, Indexed, InUse, Cached
<1>4. /\ \A k \in LBAs \ DOMAIN cachedSectors : disk'[k] = disk[k]
      /\ \A k \in DOMAIN cachedSectors :
           ~clean[cachedSectors[k]] => disk'[k] = buffer[cachedSectors[k]]
  BY <1>1, <1>2, FlushContents DEF Faithful
<1>5. ~clean[s]
  BY <1>2, FlushKeeps DEF CacheInv
<1> HIDE DEF s, old, clean
<1>6. /\ DOMAIN cachedSectors' = DOMAIN cachedSectors \ {old}
      /\ \A k \in DOMAIN cachedSectors \ {old} : cachedSectors'[k] = cachedSectors[k]
  BY <1>1 DEF Without
<1>7. CleanSlots'
  BY <1>1, <1>4, <1>6 DEF CleanSlots
<1>8. \A k \in LBAs : Contents'[k] = Contents[k]
  <2>1. disk'[old] = buffer[cachedSectors[old]]
    BY <1>3, <1>4, <1>5
  <2> QED BY <1>1, <1>3, <1>4, <1>6, <2>1, ContentsAt
<1>9. Contents' = Contents
  BY <1>8, ContentsAt
<1> QED BY <1>1, <1>7, <1>9 DEF Faithful, StoreStep, Store!vars

\* Every step of the cache is a step of the store.
LEMMA StoreSimulation ==
  CacheInv /\ (failed \/ Faithful) /\ [Next]_vars => (failed \/ Faithful)' /\ StoreStep
<1> SUFFICES ASSUME CacheInv, failed \/ Faithful, [Next]_vars, ~failed'
             PROVE  Faithful' /\ StoreStep
  BY DEF StoreStep, Store!Next, Store!Fail
<1>0. Faithful /\ UNCHANGED failed
  BY FailedTyped
<1>1. CASE BeginRead \/ BeginWrite \/ ReadMiss \/ FillEnd \/ EndWrite \/ Sync \/ NotReady
             \/ Initialize \/ BeginShutdown \/ EndShutdown \/ UNCHANGED vars
  BY <1>0, <1>1, QuietSteps
<1>2. CASE ReadHit
  BY <1>0, <1>2, ReadHitIsRead
<1>3. CASE Fill
  BY <1>0, <1>3, FillIsQuiet
<1>4. CASE EndRead
  BY <1>0, <1>4, EndReadIsRead
<1>5. CASE WriteSector
  BY <1>0, <1>5, WriteIsWrite
<1>6. CASE GetSector
  BY <1>0, <1>6, GetSectorIsRead
<1>7. CASE FlushOldest
  BY <1>0, <1>7, FlushIsQuiet
<1> QED BY <1>1, <1>2, <1>3, <1>4, <1>5, <1>6, <1>7 DEF Next

\* Nothing is cached at first.
LEMMA InitFaithful == Init => Faithful /\ Store!Init
<1> SUFFICES ASSUME Init PROVE Faithful /\ Store!Init
  OBVIOUS
<1>1. /\ DOMAIN cachedSectors = {} /\ disk \in [LBAs -> Values] /\ pc = "idle" /\ answer = <<>>
      /\ failed = FALSE
  BY DEF Init, NoData
<1>2. Contents = disk
  BY <1>1, ContentsAt
<1> QED BY <1>1, <1>2 DEF Faithful, CleanSlots, Store!Init, LBAs, Store!LBAs

\* Until a raw transfer fails, a slot that is replaced without a write holds what the
\* disk holds, for every size of the cache, of the drive and of the runs it writes.
THEOREM CleanStaysOnDisk == Spec => []CleanIsOnDisk
<1>1. CacheInv /\ (failed \/ Faithful) /\ [Next]_vars => (CacheInv /\ (failed \/ Faithful))'
  BY CacheStep, StoreSimulation
<1>2. failed \/ Faithful => CleanIsOnDisk
  BY DEF Faithful, CleanIsOnDisk
<1> QED BY <1>1, <1>2, InitCache, InitFaithful, PTL DEF Spec

\* Until a raw transfer fails, the drive with the cache is the block device diskio.h
\* describes.
THEOREM CacheImplementsStore == Spec => IsStore
<1>1. CacheInv /\ (failed \/ Faithful) /\ [Next]_vars => (CacheInv /\ (failed \/ Faithful))'
  BY CacheStep, StoreSimulation
<1>2. CacheInv /\ (failed \/ Faithful) /\ [Next]_vars => [Store!Next]_(Store!vars)
  BY StoreSimulation DEF StoreStep
<1> QED BY <1>1, <1>2, InitCache, InitFaithful, PTL DEF Spec, IsStore, Store!Spec
=============================================================================
