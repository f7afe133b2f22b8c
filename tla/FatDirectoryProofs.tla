------------------------- MODULE FatDirectoryProofs -------------------------
(***************************************************************************)
(* Proofs about FatDirectory, for any names, any size of a cluster and of  *)
(* a table, any number of directories and of refused accesses: that a name *)
(* leads only to entries made for it, that listings are faithful, that no  *)
(* cluster is lost, and that the tables are a NameSpace.                   *)
(*                                                                         *)
(* Made says of one table what every call keeps, half-way failures too;    *)
(* Follows says how a table comes out of another: which entry is new and   *)
(* which one may have lost its name.  Tables of directories where no call  *)
(* has failed are Neat besides: their end marks come last and each name    *)
(* leads to one entry.                                                     *)
(***************************************************************************)
EXTENDS FatDirectory, TLAPS, FiniteSetTheorems, SequenceTheorems, WellFoundedInduction

(* Least numbers.                                                            *)

NatLess == {p \in Nat \X Nat : p[1] < p[2]}

\* A set of numbers that is not empty has a least one, and Min is it.
LEMMA LeastNumber ==
  ASSUME NEW T, T \subseteq Nat, T # {}
  PROVE  Min(T) \in T /\ \A m \in T : Min(T) <= m
<1>1. IsWellFoundedOn(NatLess, Nat)
  <2>1. OpToRel(<, Nat) = NatLess
    BY DEF OpToRel, NatLess
  <2> QED BY <2>1, NatLessThanWellFounded
<1>2. PICK n \in T : \A m \in T : <<m, n>> \notin NatLess
  BY <1>1, WFMin
<1>3. \A m \in T : n <= m
  <2> SUFFICES ASSUME NEW m \in T PROVE n <= m
    OBVIOUS
  <2>1. m \in Nat /\ n \in Nat /\ ~(m < n)
    BY <1>2 DEF NatLess
  <2> QED BY <2>1
<1> QED BY <1>3 DEF Min

\* Min of a set whose least element is known.
LEMMA MinIs ==
  ASSUME NEW T, T \subseteq Nat, NEW n \in T, \A m \in T : n <= m
  PROVE  Min(T) = n
<1>1. Min(T) \in T /\ \A m \in T : Min(T) <= m
  BY LeastNumber
<1>2. Min(T) <= n /\ n <= Min(T) /\ n \in Nat /\ Min(T) \in Nat
  BY <1>1
<1> QED BY <1>2

LEMMA MinOfTwo ==
  ASSUME NEW a \in Nat, NEW b \in Nat
  PROVE  Min({a, b}) = IF a <= b THEN a ELSE b
<1>1. CASE a <= b
  <2>1. Min({a, b}) = a
    BY <1>1, MinIs
  <2> QED BY <1>1, <2>1
<1>2. CASE ~(a <= b)
  <2>1. b <= a
    BY <1>2
  <2>2. Min({a, b}) = b
    BY <2>1, MinIs
  <2> QED BY <1>2, <2>2
<1> QED BY <1>1, <1>2

-----------------------------------------------------------------------------
(* Entries of a table.                                                       *)

LEMMA Slots_ ==
  /\ End \in Slot /\ Deleted \in Slot /\ Dot \in Slot
  /\ End.kind = "end" /\ Deleted.kind = "deleted" /\ Dot.kind = "dot"
  /\ \A x \in Slot :
       /\ x.kind = "end" <=> x = End
       /\ x.kind = "deleted" <=> x = Deleted
       /\ x.kind = "long" => x.name \in Name /\ x.ord \in Nat \ {0} /\ x.sum \in ShortName
       /\ x.kind = "short" => /\ x.name \in ShortName /\ x.dir \in DirCluster \cup {NoDir}
                              /\ x.for \in Name
  BY DEF Slot, End, Deleted, Dot

LEMMA LongSlots ==
  ASSUME NEW n \in Name, NEW k \in Nat \ {0}, NEW s \in ShortName
  PROVE  /\ LongSlot(n, k, s) \in Slot /\ LongSlot(n, k, s).kind = "long"
         /\ LongSlot(n, k, s).name = n /\ LongSlot(n, k, s).ord = k /\ LongSlot(n, k, s).sum = s
  BY DEF Slot, LongSlot

-----------------------------------------------------------------------------
(* What is said of a table.                                                  *)

\* The positions of the short entries.
Entries(t) == {p \in DOMAIN t : t[p].kind = "short"}

TableType(t) == t \in Seq(Slot) /\ \E k \in 1..MaxClusters : Len(t) = Slots * k

\* No end mark hides position p.
Seen(t, p) == \A q \in DOMAIN t : q <= p => t[q] # End

\* The short forms of n.
Forms(n) == IF n \in Lossy THEN {Number[n][k] : k \in 1..MaxNumber} ELSE {Short[n]}

\* The entries ahead of p are the long form of n, put by position.
LongAhead(t, p, n) ==
    /\ Parts[n] > 0 /\ p > Parts[n]
    /\ \A r \in p - Parts[n] .. p - 1 : t[r] = LongSlot(n, p - r, t[p].name)

\* What every call keeps: parts and entries have a short form of their name,
\* entries have no other name, and nothing was deleted behind an end mark.
Made(t) ==
    /\ TableType(t)
    /\ \A p \in DOMAIN t : t[p].kind = "long" => t[p].sum \in Forms(t[p].name)
    /\ \A p \in Entries(t) : t[p].name \in Forms(t[p].for)
    /\ \A p \in Entries(t), n \in Name : IsNamed(t, p, n) => t[p].for = n
    /\ \A p \in DOMAIN t : t[p] = Deleted => Seen(t, p)

\* The end marks come last, and each name leads to one entry.
Packed(t) == \A p, q \in DOMAIN t : t[p] = End /\ p < q => t[q] = End
Single(t) == \A p, q \in Entries(t) : \A n \in Name : IsNamed(t, p, n) /\ IsNamed(t, q, n) => p = q
Neat(t) == Packed(t) /\ Single(t)
NoEndBefore(t, i) == \A q \in DOMAIN t : q < i => t[q] # End

\* u has the entries of t, what was seen is still seen, there may be a new entry
\* at new, and the one at old may have gone or lost its name (0 stands for none).
Follows(t, u, new, old) ==
    /\ DOMAIN t \subseteq DOMAIN u
    /\ new # 0 => new \in Entries(u) /\ new \notin Entries(t)
    /\ \A p \in Entries(u) : p # new =>
         /\ p \in Entries(t) /\ u[p] = t[p]
         /\ \A n \in Name : IsNamed(u, p, n) => IsNamed(t, p, n)
    /\ \A p \in Entries(t) : p # old =>
         /\ p \in Entries(u) /\ u[p] = t[p]
         /\ \A n \in Name : IsNamed(t, p, n) => IsNamed(u, p, n)
    /\ \A p \in Entries(t) : Seen(t, p) => Seen(u, p)

\* The long entries of t are where they were.
Longs(t, u) == \A r \in DOMAIN t : t[r].kind = "long" => u[r] = t[r]

\* And nothing comes to light.
Hides(t, u) == \A p \in Entries(t) : Seen(u, p) => Seen(t, p)

LEMMA LongIs ==
  ASSUME NEW t, NEW p \in Nat, NEW n \in Name
  PROVE  HasLong(t, p, n) <=> LongAhead(t, p, n)
<1>0. Parts[n] \in Nat
  BY NamesAssumption
<1>1. ASSUME HasLong(t, p, n) PROVE LongAhead(t, p, n)
  <2>1. Parts[n] > 0 /\ p > Parts[n]
    BY <1>1 DEF HasLong
  <2>2. ASSUME NEW r \in p - Parts[n] .. p - 1
        PROVE  t[r] = LongSlot(n, p - r, t[p].name)
    <3>1. p - r \in 1..Parts[n] /\ p - (p - r) = r
      BY <1>0, <2>1
    <3> QED BY <1>1, <3>1 DEF HasLong
  <2> QED BY <2>1, <2>2 DEF LongAhead
<1>2. ASSUME LongAhead(t, p, n) PROVE HasLong(t, p, n)
  <2>1. Parts[n] > 0 /\ p > Parts[n]
    BY <1>2 DEF LongAhead
  <2>2. ASSUME NEW k \in 1..Parts[n]
        PROVE  t[p - k] = LongSlot(n, k, t[p].name)
    <3>1. p - k \in p - Parts[n] .. p - 1 /\ p - (p - k) = k
      BY <1>0, <2>1
    <3> QED BY <1>2, <3>1 DEF LongAhead
  <2> QED BY <2>1, <2>2 DEF HasLong
<1> QED BY <1>1, <1>2

LEMMA TableIs ==
  ASSUME NEW t, TableType(t)
  PROVE  /\ t \in Seq(Slot) /\ Len(t) \in Nat \ {0} /\ DOMAIN t = 1..Len(t)
         /\ \A p \in DOMAIN t : t[p] \in Slot
         /\ Entries(t) \subseteq DOMAIN t
         /\ \A p \in Entries(t) : t[p] \in Slot /\ t[p].kind = "short" /\ t[p] # End
  <1>1. PICK k \in 1..MaxClusters : Len(t) = Slots * k
    BY DEF TableType
  <1>2. t \in Seq(Slot)
    BY DEF TableType
  <1>3. Len(t) \in Nat \ {0}
    BY <1>1, VolumeAssumption
  <1>4. DOMAIN t = 1..Len(t) /\ \A p \in DOMAIN t : t[p] \in Slot
    BY <1>2
  <1> QED BY <1>2, <1>3, <1>4, Slots_ DEF Entries

\* The entries that count are those that can be seen.
LEMMA BeforeEndIs ==
  ASSUME NEW t, TableType(t)
  PROVE  BeforeEnd(t) = {p \in DOMAIN t : Seen(t, p)}
<1> DEFINE ends == {p \in 1..Len(t) : t[p].kind = "end"} \cup {Len(t) + 1}
           e == Min(ends)
<1>1. /\ Len(t) \in Nat /\ DOMAIN t = 1..Len(t)
      /\ \A p \in DOMAIN t : t[p].kind = "end" <=> t[p] = End
  BY TableIs, Slots_
<1>2. e \in ends /\ \A m \in ends : e <= m
  <2>1. ends \subseteq Nat /\ ends # {}
    BY <1>1
  <2> HIDE DEF ends
  <2> QED BY <2>1, LeastNumber
<1>3. e \in 1..Len(t) + 1
  BY <1>1, <1>2
<1>4. BeforeEnd(t) = 1..(e - 1)
  BY DEF BeforeEnd
<1>5. ASSUME NEW p \in 1..Len(t), p < e PROVE Seen(t, p)
  BY <1>1, <1>2, <1>3, <1>5 DEF Seen
<1>6. ASSUME NEW p \in 1..Len(t), ~(p < e) PROVE ~Seen(t, p)
  <2>1. e \in 1..Len(t) /\ e <= p
    BY <1>1, <1>3, <1>6
  <2>2. t[e] = End
    BY <1>1, <1>2, <2>1
  <2> HIDE DEF e
  <2> QED BY <1>1, <2>1, <2>2 DEF Seen
<1> HIDE DEF e
<1> QED BY <1>1, <1>3, <1>4, <1>5, <1>6

-----------------------------------------------------------------------------
(* Names of entries.                                                         *)

LEMMA NamesAre ==
  ASSUME NEW n \in Name
  PROVE  /\ Parts[n] \in Nat /\ Short[n] \in ShortName /\ Forms(n) \subseteq ShortName
         /\ n \in Lossy => Parts[n] > 0
         /\ n \notin Lossy => Forms(n) = {Short[n]}
         /\ \A m \in Name \ {n} : m \notin Lossy => Short[m] \notin Forms(n)
<1>1. Parts[n] \in Nat /\ Short[n] \in ShortName /\ (n \in Lossy => Parts[n] > 0)
  BY NamesAssumption
<1>2. \A k \in 1..MaxNumber : Number[n][k] \in ShortName
  BY NamesAssumption
<1>3. \A m \in Name \ {n} : m \notin Lossy =>
         Short[m] # Short[n] /\ \A k \in 1..MaxNumber : Short[m] # Number[n][k]
  BY NamesAssumption
<1> QED BY <1>1, <1>2, <1>3 DEF Forms

\* The parts of a long name lie in the table and are long entries.
LEMMA LongParts ==
  ASSUME NEW t, TableType(t), NEW p \in Entries(t), NEW n \in Name, LongAhead(t, p, n)
  PROVE  /\ Parts[n] \in Nat \ {0} /\ p - Parts[n] \in 1..p-1 /\ p \in 1..Len(t)
         /\ \A r \in p - Parts[n] .. p - 1 :
              /\ r \in DOMAIN t /\ r \in 1..p-1 /\ p - r \in 1..Parts[n]
              /\ t[r] = LongSlot(n, p - r, t[p].name)
              /\ t[r].kind = "long" /\ t[r].name = n /\ t[r].ord = p - r
<1>1. Len(t) \in Nat /\ DOMAIN t = 1..Len(t) /\ p \in 1..Len(t)
  BY TableIs
<1>2. Parts[n] \in Nat \ {0} /\ p > Parts[n]
  BY NamesAre DEF LongAhead
<1>3. t[p].name \in ShortName
  BY TableIs, Slots_
<1>4. ASSUME NEW r \in p - Parts[n] .. p - 1
      PROVE  /\ r \in DOMAIN t /\ r \in 1..p-1 /\ p - r \in 1..Parts[n]
             /\ t[r] = LongSlot(n, p - r, t[p].name)
             /\ t[r].kind = "long" /\ t[r].name = n /\ t[r].ord = p - r
  <2>1. r \in 1..p-1 /\ p - r \in 1..Parts[n] /\ r \in 1..Len(t)
    BY <1>1, <1>2
  <2>2. t[r] = LongSlot(n, p - r, t[p].name)
    BY DEF LongAhead
  <2>3. p - r \in Nat \ {0}
    BY <2>1
  <2> QED BY <1>1, <1>3, <2>1, <2>2, <2>3, LongSlots
<1> QED BY <1>1, <1>2, <1>4

LEMMA NamedIs ==
  ASSUME NEW t, TableType(t), NEW p \in Entries(t), NEW n \in Name
  PROVE  IsNamed(t, p, n) <=> LongAhead(t, p, n) \/ (n \notin Lossy /\ t[p].name = Short[n])
<1>1. p \in Nat /\ t[p].kind = "short"
  BY TableIs
<1> QED BY <1>1, LongIs DEF IsNamed

\* The entries a name leads to.
LEMMA HitsAre ==
  ASSUME NEW t, TableType(t), NEW n \in Name
  PROVE  Hits(t, n) = {p \in Entries(t) : Seen(t, p) /\ IsNamed(t, p, n)}
<1>1. BeforeEnd(t) = {p \in DOMAIN t : Seen(t, p)}
  BY BeforeEndIs
<1>2. \A p \in DOMAIN t : IsNamed(t, p, n) => p \in Entries(t)
  BY TableIs DEF IsNamed, Entries
<1> QED BY <1>1, <1>2 DEF Hits, Entries

LEMMA WhereIs ==
  ASSUME NEW t, TableType(t), NEW n \in Name
  PROVE  /\ Found(t, n) <=> \E p \in Entries(t) : Seen(t, p) /\ IsNamed(t, p, n)
         /\ Found(t, n) => /\ Where(t, n) \in Entries(t) /\ Seen(t, Where(t, n))
                           /\ IsNamed(t, Where(t, n), n)
                           /\ \A p \in Entries(t) : Seen(t, p) /\ IsNamed(t, p, n) => Where(t, n) <= p
<1>1. Hits(t, n) = {p \in Entries(t) : Seen(t, p) /\ IsNamed(t, p, n)}
  BY HitsAre
<1>2. Hits(t, n) \subseteq Nat
  BY <1>1, TableIs
<1>3. ASSUME Hits(t, n) # {}
      PROVE  Where(t, n) \in Hits(t, n) /\ \A p \in Hits(t, n) : Where(t, n) <= p
  BY <1>2, <1>3, LeastNumber DEF Where
<1> QED BY <1>1, <1>3 DEF Found

\* An entry that is seen hides none before it.
LEMMA SeenBefore ==
  ASSUME NEW t, TableType(t), NEW p \in DOMAIN t, NEW q \in DOMAIN t, q <= p, Seen(t, p)
  PROVE  Seen(t, q)
  BY TableIs DEF Seen

-----------------------------------------------------------------------------
(* What a call may do to a table.                                            *)

LEMMA FollowsItself ==
  ASSUME NEW t, TableType(t)
  PROVE  Follows(t, t, 0, 0) /\ Hides(t, t)
  BY TableIs DEF Follows, Hides

LEMMA FollowsAll ==
  ASSUME NEW t, NEW u, NEW v, NEW new, NEW old,
         \/ Follows(t, u, 0, 0) /\ Follows(u, v, new, 0) /\ old = 0
         \/ Follows(t, u, new, 0) /\ Follows(u, v, 0, old) /\ old \in Entries(t)
         \/ Follows(t, u, 0, 0) /\ Follows(u, v, 0, 0) /\ new = 0 /\ old = 0,
         0 \notin Entries(t) /\ 0 \notin Entries(u) /\ 0 \notin Entries(v)
  PROVE  Follows(t, v, new, old)
<1>1. CASE Follows(t, u, 0, 0) /\ Follows(u, v, new, 0) /\ old = 0
  BY <1>1 DEF Follows
<1>2. CASE Follows(t, u, new, 0) /\ Follows(u, v, 0, old) /\ old \in Entries(t)
  BY <1>2 DEF Follows
<1> QED BY <1>1, <1>2

\* Entries whose long names are the same lead to the same names.
LEMMA NameKept ==
  ASSUME NEW t, TableType(t), NEW u, TableType(u), NEW p \in Entries(t), p \in Entries(u),
         u[p] = t[p], NEW n \in Name, LongAhead(t, p, n) <=> LongAhead(u, p, n)
  PROVE  IsNamed(u, p, n) <=> IsNamed(t, p, n)
  BY NamedIs

LEMMA LongKept ==
  ASSUME NEW t, NEW u, NEW p \in Nat, NEW n \in Name, LongAhead(t, p, n),
         \A r \in p - Parts[n] .. p : u[r] = t[r]
  PROVE  LongAhead(u, p, n)
<1>1. Parts[n] \in Nat
  BY NamesAre
<1>2. p \in p - Parts[n] .. p /\ \A r \in p - Parts[n] .. p - 1 : r \in p - Parts[n] .. p
  BY <1>1
<1> QED BY <1>2 DEF LongAhead

\* A table stretched by k clusters.
LEMMA Grow ==
  ASSUME NEW t, Made(t), NEW j \in 1..MaxClusters, Len(t) = Slots * j,
         NEW k \in 0..(MaxClusters - j)
  PROVE  LET g == t \o Cleared(Slots * k) IN
         /\ Made(g) /\ Len(g) = Len(t) + Slots * k /\ DOMAIN t \subseteq DOMAIN g
         /\ \A q \in DOMAIN t : g[q] = t[q]
         /\ \A q \in DOMAIN g \ DOMAIN t : g[q] = End
         /\ Entries(g) = Entries(t) /\ Follows(t, g, 0, 0) /\ Hides(t, g)
<1> DEFINE g == t \o Cleared(Slots * k)
           c == Slots * k
<1>1. TableType(t)
  BY DEF Made
<1>2. /\ t \in Seq(Slot) /\ Len(t) \in Nat \ {0} /\ DOMAIN t = 1..Len(t)
      /\ \A p \in DOMAIN t : t[p] \in Slot
  BY <1>1, TableIs
<1>3. c \in Nat /\ Slots * (j + k) = Slots * j + c /\ j + k \in 1..MaxClusters
  BY VolumeAssumption
<1>4. /\ Cleared(c) \in Seq(Slot) /\ Len(Cleared(c)) = c
      /\ \A i \in 1..c : Cleared(c)[i] = End
  BY <1>3, Slots_ DEF Cleared
<1>5. g = t \o Cleared(c)
  OBVIOUS
<1> HIDE DEF g, c
<1>6. /\ g \in Seq(Slot) /\ Len(g) = Len(t) + c /\ DOMAIN g = 1..(Len(t) + c)
      /\ \A q \in 1..Len(t) : g[q] = t[q]
  <2>1. /\ g \in Seq(Slot) /\ Len(g) = Len(t) + Len(Cleared(c))
        /\ \A i \in 1..(Len(t) + Len(Cleared(c))) :
             g[i] = IF i <= Len(t) THEN t[i] ELSE Cleared(c)[i - Len(t)]
    BY <1>2, <1>4, <1>5, ConcatProperties
  <2> QED BY <1>2, <1>3, <1>4, <2>1
<1>7. ASSUME NEW q \in (Len(t) + 1)..(Len(t) + c) PROVE g[q] = End
  <2>1. q - Len(t) \in 1..c
    BY <1>2, <1>3
  <2>2. g[q] = Cleared(c)[q - Len(t)]
    BY <1>2, <1>3, <1>4, <1>5, ConcatProperties
  <2> QED BY <1>4, <2>1, <2>2
<1>8. /\ DOMAIN t \subseteq DOMAIN g /\ \A q \in DOMAIN t : g[q] = t[q]
      /\ \A q \in DOMAIN g \ DOMAIN t : g[q] = End
  BY <1>2, <1>3, <1>6, <1>7
<1>9. TableType(g)
  <2>1. Len(g) = Slots * (j + k)
    BY <1>3, <1>6
  <2> QED BY <1>3, <1>6, <2>1 DEF TableType
<1>10. Entries(g) = Entries(t)
  BY <1>8, Slots_ DEF Entries
<1>11. ASSUME NEW p \in Entries(t), NEW n \in Name
       PROVE  LongAhead(t, p, n) <=> LongAhead(g, p, n)
  <2>1. p \in 1..Len(t) /\ Parts[n] \in Nat
    BY <1>2, NamesAre DEF Entries
  <2>2. CASE p > Parts[n]
    <3>1. \A r \in p - Parts[n] .. p : g[r] = t[r]
      BY <1>2, <1>6, <2>1, <2>2
    <3>2. \A r \in p - Parts[n] .. p : t[r] = g[r]
      BY <3>1
    <3> QED BY <2>1, <3>1, <3>2, LongKept
  <2>3. CASE ~(p > Parts[n])
    BY <2>3 DEF LongAhead
  <2> QED BY <2>2, <2>3
<1>12. ASSUME NEW p \in DOMAIN t PROVE Seen(g, p) <=> Seen(t, p)
  BY <1>2, <1>6, <1>8 DEF Seen
<1>13. ASSUME NEW p \in Entries(t)
       PROVE  /\ p \in Entries(g) /\ g[p] = t[p]
              /\ \A n \in Name : IsNamed(g, p, n) <=> IsNamed(t, p, n)
  <2>1. p \in Entries(g) /\ g[p] = t[p]
    BY <1>8, <1>10 DEF Entries
  <2> QED BY <1>1, <1>9, <1>11, <2>1, NameKept
<1>14. Follows(t, g, 0, 0) /\ Hides(t, g)
  BY <1>8, <1>10, <1>12, <1>13 DEF Follows, Hides, Entries
<1>15. Made(g)
  <2>1. ASSUME NEW p \in DOMAIN g, g[p].kind = "long" PROVE g[p].sum \in Forms(g[p].name)
    <3>1. p \in DOMAIN t
      BY <1>8, <2>1, Slots_
    <3> QED BY <1>8, <2>1, <3>1 DEF Made
  <2>2. ASSUME NEW p \in DOMAIN g, g[p] = Deleted PROVE Seen(g, p)
    <3>1. p \in DOMAIN t
      BY <1>8, <2>2, Slots_
    <3> QED BY <1>8, <1>12, <2>2, <3>1 DEF Made
  <2>3. ASSUME NEW p \in Entries(g)
        PROVE  g[p].name \in Forms(g[p].for) /\ \A n \in Name : IsNamed(g, p, n) => g[p].for = n
    BY <1>10, <1>13, <2>3 DEF Made
  <2> QED BY <1>9, <2>1, <2>2, <2>3 DEF Made
<1> QED BY <1>5, <1>6, <1>8, <1>10, <1>14, <1>15 DEF c, g

\* A name written where all entries are free, or a part of it.
LEMMA WriteNothing ==
  ASSUME NEW g, Made(g), NEW n, NEW s, NEW dir, NEW p \in Nat
  PROVE  Written(g, p, n, s, dir, 0) = g
<1>1. g \in Seq(Slot) /\ DOMAIN g = 1..Len(g) /\ Len(g) \in Nat
  BY TableIs DEF Made
<1>2. g = [r \in DOMAIN g |-> g[r]]
  BY <1>1
<1>3. \A r \in DOMAIN g : ~(r < 0) /\ ~(p < 0)
  BY <1>1
<1> QED BY <1>2, <1>3 DEF Written

Puts(g, u, n, s, dir, p, q) ==
    /\ Made(u) /\ Len(u) = Len(g) /\ DOMAIN u = DOMAIN g
    /\ Follows(g, u, IF q = p + 1 THEN p ELSE 0, 0)
    /\ q # p + 1 => Hides(g, u)
    /\ q = p + 1 => u[p] = ShortSlot(s, dir, n) /\ IsNamed(u, p, n)
    /\ \A r \in DOMAIN g : u[r] = End => g[r] = End
    /\ \A r \in DOMAIN g : r \in p - Parts[n] .. q - 1 => u[r] # End
    /\ \A r \in DOMAIN g : r > p => u[r] = g[r]
    /\ Longs(g, u)

LEMMA Write ==
  ASSUME NEW g, Made(g), NEW n \in Name, NEW s \in Forms(n), NEW dir \in DirCluster \cup {NoDir},
         NEW p \in DOMAIN g, p > Parts[n], NEW q \in p - Parts[n] .. p + 1,
         \A r \in p - Parts[n] .. p : g[r].kind \in {"end", "deleted"}
  PROVE  Puts(g, Written(g, p, n, s, dir, q), n, s, dir, p, q)
<1> DEFINE u == Written(g, p, n, s, dir, q)
           new == IF q = p + 1 THEN p ELSE 0
           lo == p - Parts[n]
           hi == IF q = p + 1 THEN p ELSE q
<1>1. TableType(g)
  BY DEF Made
<1>2. /\ g \in Seq(Slot) /\ Len(g) \in Nat \ {0} /\ DOMAIN g = 1..Len(g)
      /\ \A r \in DOMAIN g : g[r] \in Slot
  BY <1>1, TableIs
<1>3. /\ Parts[n] \in Nat /\ p \in 1..Len(g) /\ lo \in 1..p /\ q \in lo..p+1 /\ s \in ShortName
      /\ hi \in lo..p /\ p - lo = Parts[n]
  BY <1>2, NamesAre
<1>0. /\ ShortSlot(s, dir, n) \in Slot /\ ShortSlot(s, dir, n).kind = "short"
      /\ ShortSlot(s, dir, n).name = s /\ ShortSlot(s, dir, n).for = n
  <2>1. s \in ShortName
    BY <1>3
  <2> QED BY <2>1 DEF ShortSlot, Slot
<1>4. ASSUME NEW r \in DOMAIN g
      PROVE  u[r] = IF lo <= r /\ r < q
                    THEN IF r = p THEN ShortSlot(s, dir, n) ELSE LongSlot(n, p - r, s)
                    ELSE g[r]
  BY <1>2, <1>3 DEF Written
<1>5. DOMAIN u = DOMAIN g
  BY DEF Written
<1> HIDE DEF u, lo, hi
<1>6. ASSUME NEW r \in DOMAIN g, lo <= r, r < q
      PROVE  /\ u[r] \in Slot /\ g[r].kind \in {"end", "deleted"}
             /\ r = p => u[r] = ShortSlot(s, dir, n) /\ u[r].kind = "short"
             /\ r # p => /\ p - r \in 1..Parts[n] /\ u[r] = LongSlot(n, p - r, s)
                         /\ u[r].kind = "long" /\ u[r].name = n /\ u[r].sum = s /\ u[r].ord = p - r
  <2>1. r \in lo..p
    BY <1>2, <1>3, <1>6
  <2>2. g[r].kind \in {"end", "deleted"}
    BY <2>1 DEF lo
  <2>3. CASE r = p
    <3>1. u[r] = ShortSlot(s, dir, n)
      BY <1>4, <1>6, <2>3
    <3>2. u[r] \in Slot /\ u[r].kind = "short"
      BY <1>0, <3>1
    <3> QED BY <2>2, <2>3, <3>1, <3>2
  <2>4. CASE r # p
    <3>1. u[r] = LongSlot(n, p - r, s)
      BY <1>4, <1>6, <2>4
    <3>2. p - r \in 1..Parts[n] /\ p - r \in Nat \ {0}
      BY <1>3, <2>1, <2>4
    <3>3. /\ u[r] \in Slot /\ u[r].kind = "long" /\ u[r].name = n /\ u[r].sum = s
          /\ u[r].ord = p - r
      BY <1>3, <3>1, <3>2, LongSlots
    <3> QED BY <2>2, <2>4, <3>1, <3>2, <3>3
  <2> QED BY <2>3, <2>4
<1>7. ASSUME NEW r \in DOMAIN g, ~(lo <= r /\ r < q) PROVE u[r] = g[r]
  BY <1>4, <1>7
<1>8. u \in Seq(Slot) /\ Len(u) = Len(g) /\ TableType(u)
  <2>1. \A r \in DOMAIN g : u[r] \in Slot
    BY <1>2, <1>6, <1>7
  <2>2. u = [r \in 1..Len(g) |-> u[r]]
    BY <1>2 DEF u, Written
  <2>3. u \in [1..Len(g) -> Slot]
    BY <1>2, <2>1, <2>2
  <2>4. u \in Seq(Slot) /\ Len(u) = Len(g)
    BY <1>2, <2>3
  <2> QED BY <1>1, <2>4 DEF TableType
<1>9. \A r \in DOMAIN g : (u[r] = End => g[r] = End) /\ (lo <= r /\ r < q => u[r] # End)
  <2> SUFFICES ASSUME NEW r \in DOMAIN g
               PROVE  (u[r] = End => g[r] = End) /\ (lo <= r /\ r < q => u[r] # End)
    OBVIOUS
  <2>1. CASE lo <= r /\ r < q
    <3>1. u[r].kind \in {"short", "long"}
      BY <1>6, <2>1
    <3> QED BY <3>1, Slots_
  <2>2. CASE ~(lo <= r /\ r < q)
    BY <1>7, <2>2
  <2> QED BY <2>1, <2>2
\* Where writing stopped there is no long entry.
<1>10. hi \in DOMAIN g /\ u[hi].kind # "long"
  <2>1. hi \in DOMAIN g
    BY <1>2, <1>3
  <2>2. CASE q = p + 1
    <3>1. hi = p /\ lo <= p /\ p < q
      BY <1>3, <2>2 DEF hi
    <3> QED BY <1>6, <2>1, <3>1
  <2>3. CASE q # p + 1
    <3>1. hi = q /\ q \in lo..p
      BY <1>3, <2>3 DEF hi
    <3>2. u[hi] = g[hi]
      BY <1>3, <1>7, <2>1, <3>1
    <3>3. g[hi].kind \in {"end", "deleted"}
      BY <3>1 DEF lo
    <3> QED BY <2>1, <3>2, <3>3
  <2> QED BY <2>2, <2>3
<1>11. ASSUME NEW x \in Entries(g)
       PROVE  x \in 1..Len(g) /\ ~(lo <= x /\ x <= p) /\ u[x] = g[x] /\ x \in Entries(u)
  <2>1. x \in 1..Len(g) /\ x \in DOMAIN g /\ g[x].kind = "short"
    BY <1>2 DEF Entries
  <2>2. ~(lo <= x /\ x <= p)
    <3>1. ASSUME lo <= x, x <= p PROVE FALSE
      <4>1. x \in lo..p
        BY <1>3, <2>1, <3>1
      <4> QED BY <2>1, <4>1 DEF lo
    <3> QED BY <3>1
  <2>3. ~(lo <= x /\ x < q)
    BY <1>3, <2>1, <2>2
  <2>4. u[x] = g[x]
    BY <1>7, <2>1, <2>3
  <2> QED BY <1>5, <2>1, <2>2, <2>4 DEF Entries
<1>12. ASSUME NEW x \in Entries(u), x # new
       PROVE  x \in Entries(g)
  <2>1. x \in DOMAIN g /\ x \in Nat /\ u[x].kind = "short"
    BY <1>2, <1>5 DEF Entries
  <2>2. ~(lo <= x /\ x < q)
    <3> SUFFICES ASSUME lo <= x, x < q PROVE FALSE
      OBVIOUS
    <3>1. x = p
      BY <1>6, <2>1
    <3>2. q = p + 1
      BY <1>3, <3>1
    <3> QED BY <1>12, <3>1, <3>2
  <2> QED BY <1>7, <2>1, <2>2 DEF Entries
<1>13. ASSUME NEW x \in Entries(g), NEW k \in Name
       PROVE  LongAhead(g, x, k) <=> LongAhead(u, x, k)
  <2>0. x \in 1..Len(g) /\ ~(lo <= x /\ x <= p) /\ u[x] = g[x] /\ x \in Entries(u) /\ Parts[k] \in Nat
    BY <1>11, NamesAre
  <2>1. ASSUME LongAhead(g, x, k) PROVE LongAhead(u, x, k)
    <3>1. ASSUME NEW r \in x - Parts[k] .. x - 1 PROVE u[r] = g[r]
      <4>1. r \in DOMAIN g /\ r \in 1..x-1 /\ g[r].kind = "long"
        BY <1>1, <2>1, LongParts
      <4>2. ~(lo <= r /\ r < q)
        BY <1>6, <4>1
      <4> QED BY <1>7, <4>1, <4>2
    <3>2. \A r \in x - Parts[k] .. x : u[r] = g[r]
      BY <2>0, <3>1
    <3> QED BY <2>0, <2>1, <3>2, LongKept
  <2>2. ASSUME LongAhead(u, x, k) PROVE LongAhead(g, x, k)
    <3>1. ASSUME NEW r \in x - Parts[k] .. x - 1 PROVE g[r] = u[r]
      <4>1. r \in DOMAIN g /\ r \in 1..x-1
        BY <1>5, <1>8, <2>0, <2>2, LongParts
      <4>2. ASSUME lo <= r, r < q PROVE FALSE
        <5>1. hi \in r..x-1
          BY <1>3, <2>0, <4>1, <4>2 DEF hi
        <5>2. hi \in x - Parts[k] .. x - 1
          BY <2>0, <5>1
        <5> QED BY <1>8, <1>10, <2>0, <2>2, <5>2, LongParts
      <4> QED BY <1>7, <4>1, <4>2
    <3>2. \A r \in x - Parts[k] .. x : g[r] = u[r]
      BY <2>0, <3>1
    <3> QED BY <2>0, <2>2, <3>2, LongKept
  <2> QED BY <2>1, <2>2
<1>14. ASSUME NEW x \in Entries(g), NEW k \in Name
       PROVE  IsNamed(u, x, k) <=> IsNamed(g, x, k)
  BY <1>1, <1>8, <1>11, <1>13, NameKept
<1>15. ASSUME q = p + 1
       PROVE  /\ p \in Entries(u) /\ p \notin Entries(g)
              /\ u[p] = ShortSlot(s, dir, n) /\ u[p].name = s /\ u[p].for = n
              /\ IsNamed(u, p, n)
              /\ \A k \in Name : IsNamed(u, p, k) => k = n
  <2>1. lo <= p /\ p < q
    BY <1>3, <1>15
  <2>2. p \in Entries(u) /\ p \notin Entries(g) /\ u[p] = ShortSlot(s, dir, n)
    BY <1>5, <1>6, <2>1 DEF Entries
  <2>3. u[p].name = s /\ u[p].for = n
    BY <1>0, <2>2
  <2>4. Parts[n] > 0 => LongAhead(u, p, n)
    <3> SUFFICES ASSUME Parts[n] > 0, NEW r \in p - Parts[n] .. p - 1
                 PROVE  u[r] = LongSlot(n, p - r, u[p].name)
      BY DEF LongAhead
    <3>1. r \in DOMAIN g /\ lo <= r /\ r < q /\ r # p
      BY <1>2, <1>3, <1>15 DEF lo
    <3> QED BY <1>6, <2>3, <3>1
  <2>5. Parts[n] = 0 => n \notin Lossy /\ s = Short[n]
    <3> SUFFICES ASSUME Parts[n] = 0 PROVE n \notin Lossy /\ s = Short[n]
      OBVIOUS
    <3>1. n \in Lossy => Parts[n] > 0
      BY NamesAre, Zenon
    <3>2. n \notin Lossy => Forms(n) = {Short[n]}
      BY NamesAre, Zenon
    <3>3. n \notin Lossy
      BY <3>1
    <3> QED BY <3>2, <3>3
  <2>6. IsNamed(u, p, n)
    <3>1. IsNamed(u, p, n) <=> LongAhead(u, p, n) \/ (n \notin Lossy /\ u[p].name = Short[n])
      BY <1>8, <2>2, NamedIs, Zenon
    <3>2. Parts[n] = 0 \/ Parts[n] > 0
      BY <1>3
    <3> QED BY <2>3, <2>4, <2>5, <3>1, <3>2
  <2>7. ASSUME NEW k \in Name, IsNamed(u, p, k), k # n PROVE FALSE
    <3>0. k \notin Lossy => Short[k] \notin Forms(n)
      <4>1. k \in Name \ {n}
        BY <2>7
      <4> QED BY <4>1, NamesAre, Zenon
    <3>1. CASE k \notin Lossy /\ u[p].name = Short[k]
      BY <2>3, <3>0, <3>1
    <3>2. CASE LongAhead(u, p, k)
      <4>1. /\ p - 1 \in p - Parts[k] .. p - 1 /\ p - 1 \in DOMAIN u /\ p - 1 \in 1..p-1
            /\ u[p - 1] = LongSlot(k, 1, s) /\ u[p - 1].kind = "long" /\ u[p - 1].name = k
        <5>1. Parts[k] \in Nat \ {0} /\ p - Parts[k] \in 1..p-1
          BY <1>8, <2>2, <3>2, LongParts
        <5>2. p - 1 \in p - Parts[k] .. p - 1 /\ p - (p - 1) = 1
          BY <1>2, <1>3, <5>1
        <5>3. \A r \in p - Parts[k] .. p - 1 :
                 /\ r \in DOMAIN u /\ r \in 1..p-1
                 /\ u[r] = LongSlot(k, p - r, u[p].name) /\ u[r].kind = "long" /\ u[r].name = k
          BY <1>8, <2>2, <3>2, LongParts
        <5> QED BY <2>3, <5>2, <5>3
      <4>2. CASE Parts[n] > 0
        <5>1. lo <= p - 1 /\ p - 1 < q /\ p - 1 # p
          BY <1>3, <1>15, <4>2
        <5> QED BY <1>5, <1>6, <2>7, <4>1, <5>1
      <4>3. CASE ~(Parts[n] > 0)
        <5>1. Parts[n] = 0 /\ lo = p
          BY <1>3, <4>3 DEF lo
        <5>2. u[p - 1] = g[p - 1] /\ p - 1 \in DOMAIN g
          BY <1>3, <1>5, <1>7, <4>1, <5>1
        <5>3. g[p - 1].sum \in Forms(k) /\ g[p - 1].sum = s
          <6>1. LongSlot(k, 1, s).sum = s
            BY <1>3, LongSlots
          <6> QED BY <4>1, <5>2, <6>1 DEF Made
        <5> QED BY <2>5, <2>7, <5>1, <5>3, NamesAre
      <4> QED BY <4>2, <4>3
    <3>3. IsNamed(u, p, k) <=> LongAhead(u, p, k) \/ (k \notin Lossy /\ u[p].name = Short[k])
      BY <1>8, <2>2, NamedIs, Zenon
    <3> QED BY <2>7, <3>1, <3>2, <3>3
  <2> QED BY <2>2, <2>3, <2>6, <2>7
<1>16. ASSUME NEW x \in DOMAIN g, Seen(g, x) PROVE Seen(u, x)
  BY <1>5, <1>9, <1>16 DEF Seen
<1>17. 0 \notin DOMAIN u
  BY <1>2, <1>5
<1>18. Follows(g, u, new, 0)
  <2>1. new # 0 => new \in Entries(u) /\ new \notin Entries(g)
    BY <1>15
  <2>2. \A x \in Entries(g) : x \in DOMAIN g
    BY DEF Entries
  <2> QED BY <1>5, <1>11, <1>12, <1>14, <1>16, <2>1, <2>2 DEF Follows
<1>19. q # p + 1 => Hides(g, u)
  <2> SUFFICES ASSUME q # p + 1, NEW x \in Entries(g), Seen(u, x), NEW y \in DOMAIN g, y <= x, g[y] = End
               PROVE  FALSE
    BY DEF Hides, Seen
  <2>1. q \in lo..p /\ q \in DOMAIN g
    BY <1>2, <1>3
  <2>2. x \in 1..Len(g) /\ ~(lo <= x /\ x <= p) /\ y \in 1..Len(g)
    BY <1>2, <1>11
  <2>3. u[y] # End
    BY <1>5 DEF Seen
  <2>4. lo <= y /\ y < q
    BY <1>7, <2>3
  <2>5. q <= x
    BY <1>3, <2>1, <2>2, <2>4
  <2>6. u[q] # End /\ u[q] = g[q]
    BY <1>3, <1>5, <1>7, <2>1, <2>5 DEF Seen
  <2>7. g[q] = Deleted
    <3>1. g[q].kind \in {"end", "deleted"} /\ g[q] \in Slot
      BY <1>2, <2>1 DEF lo
    <3> QED BY <2>6, <3>1, Slots_
  <2>8. y <= q
    BY <1>3, <2>1, <2>2, <2>4
  <2> QED BY <2>1, <2>7, <2>8 DEF Made, Seen
<1>20. Made(u)
  <2>1. ASSUME NEW r \in DOMAIN u, u[r].kind = "long" PROVE u[r].sum \in Forms(u[r].name)
    <3>1. CASE lo <= r /\ r < q
      <4>1. r # p
        BY <1>5, <1>6, <2>1, <3>1
      <4> QED BY <1>5, <1>6, <3>1, <4>1
    <3>2. CASE ~(lo <= r /\ r < q)
      BY <1>5, <1>7, <2>1, <3>2 DEF Made
    <3> QED BY <3>1, <3>2
  <2>2. ASSUME NEW x \in Entries(u)
        PROVE  u[x].name \in Forms(u[x].for) /\ \A k \in Name : IsNamed(u, x, k) => u[x].for = k
    <3>1. CASE x = new
      <4>1. q = p + 1 /\ x = p
        BY <1>17, <3>1 DEF Entries
      <4> QED BY <1>15, <4>1
    <3>2. CASE x # new
      <4>1. x \in Entries(g) /\ u[x] = g[x]
        BY <1>11, <1>12, <3>2
      <4> QED BY <1>14, <4>1 DEF Made
    <3> QED BY <3>1, <3>2
  <2>3. ASSUME NEW r \in DOMAIN u, u[r] = Deleted PROVE Seen(u, r)
    <3>1. ~(lo <= r /\ r < q)
      <4> SUFFICES ASSUME lo <= r, r < q PROVE FALSE
        OBVIOUS
      <4>1. u[r].kind \in {"short", "long"}
        BY <1>5, <1>6
      <4> QED BY <2>3, <4>1, Slots_
    <3>2. g[r] = Deleted
      BY <1>5, <1>7, <2>3, <3>1
    <3> QED BY <1>5, <1>16, <3>2 DEF Made
  <2> QED BY <1>8, <2>1, <2>2, <2>3 DEF Made
<1>21. \A r \in DOMAIN g : r \in p - Parts[n] .. q - 1 => u[r] # End
  BY <1>3, <1>9 DEF lo
<1>22. \A r \in DOMAIN g : r > p => u[r] = g[r]
  BY <1>2, <1>3, <1>7
<1>23. Longs(g, u)
  <2> SUFFICES ASSUME NEW r \in DOMAIN g, g[r].kind = "long" PROVE u[r] = g[r]
    BY DEF Longs
  <2>1. ~(lo <= r /\ r < q)
    BY <1>6
  <2> QED BY <1>7, <2>1
<1> QED BY <1>5, <1>8, <1>9, <1>15, <1>18, <1>19, <1>20, <1>21, <1>22, <1>23 DEF u, Puts

\* Entries b to q of an object at p are marked as deleted.
LEMMA Remove ==
  ASSUME NEW t, Made(t), NEW p \in Entries(t), Seen(t, p), NEW b \in 1..p,
         \A r \in b..p-1 : t[r].kind = "long", NEW q \in b-1 .. p
  PROVE  LET u == Removed(t, b, q)
         IN  /\ Made(u) /\ Len(u) = Len(t) /\ DOMAIN u = DOMAIN t
             /\ Follows(t, u, 0, p) /\ Hides(t, u)
             /\ \A x \in DOMAIN t : u[x] = End <=> t[x] = End
             /\ q = p => p \notin Entries(u)
<1> DEFINE u == Removed(t, b, q)
<1>1. TableType(t)
  BY DEF Made
<1>2. /\ t \in Seq(Slot) /\ Len(t) \in Nat \ {0} /\ DOMAIN t = 1..Len(t)
      /\ \A r \in DOMAIN t : t[r] \in Slot
      /\ p \in 1..Len(t) /\ t[p].kind = "short"
  BY <1>1, TableIs
<1>3. DOMAIN u = DOMAIN t /\ \A r \in DOMAIN t : u[r] = IF r \in b..q THEN Deleted ELSE t[r]
  BY DEF Removed
<1>4. u \in Seq(Slot) /\ Len(u) = Len(t) /\ TableType(u)
  <2>1. u = [r \in 1..Len(t) |-> IF r \in b..q THEN Deleted ELSE t[r]]
    BY <1>2 DEF Removed
  <2>2. \A r \in 1..Len(t) : (IF r \in b..q THEN Deleted ELSE t[r]) \in Slot
    BY <1>2, Slots_
  <2>3. u \in [1..Len(t) -> Slot]
    BY <2>1, <2>2
  <2>4. u \in Seq(Slot) /\ Len(u) = Len(t)
    BY <1>2, <2>3
  <2> QED BY <1>1, <2>4 DEF TableType
<1> HIDE DEF u
<1>5. \A x \in DOMAIN t : u[x] = End <=> t[x] = End
  <2> SUFFICES ASSUME NEW x \in DOMAIN t PROVE u[x] = End <=> t[x] = End
    OBVIOUS
  <2>1. CASE x \in b..q
    <3>1. x <= p
      BY <1>2, <2>1
    <3>2. t[x] # End
      BY <3>1 DEF Seen
    <3> QED BY <1>3, <2>1, <3>2, Slots_
  <2>2. CASE x \notin b..q
    BY <1>3, <2>2
  <2> QED BY <2>1, <2>2
<1>6. ASSUME NEW x \in Entries(u) PROVE x \in Entries(t) /\ u[x] = t[x]
  BY <1>3, Slots_ DEF Entries
<1>7. ASSUME NEW x \in Entries(u), NEW k \in Name, LongAhead(u, x, k)
      PROVE  LongAhead(t, x, k)
  <2>1. x \in Entries(t) /\ u[x] = t[x] /\ x \in Nat
    BY <1>2, <1>6 DEF Entries
  <2>2. ASSUME NEW r \in x - Parts[k] .. x - 1 PROVE t[r] = LongSlot(k, x - r, t[x].name)
    <3>1. r \in DOMAIN u /\ u[r].kind = "long" /\ u[r] = LongSlot(k, x - r, u[x].name)
      BY <1>4, <1>7, LongParts
    <3>2. u[r] = t[r]
      BY <1>3, <3>1, Slots_
    <3> QED BY <2>1, <3>1, <3>2
  <2> QED BY <1>7, <2>2 DEF LongAhead
<1>8. ASSUME NEW x \in Entries(u), NEW k \in Name, IsNamed(u, x, k)
      PROVE  IsNamed(t, x, k)
  BY <1>1, <1>4, <1>6, <1>7, <1>8, NamedIs
<1>9. ASSUME NEW x \in Entries(t), x # p PROVE x \in Entries(u) /\ u[x] = t[x]
  <2>1. x \in DOMAIN t /\ x \in 1..Len(t) /\ t[x].kind = "short"
    BY <1>2 DEF Entries
  <2>2. x \notin b..q
    <3> SUFFICES ASSUME x \in b..q PROVE FALSE
      OBVIOUS
    <3>1. x \in b..p-1
      BY <1>2, <1>9, <2>1
    <3> QED BY <2>1, <3>1
  <2> QED BY <1>3, <2>1, <2>2 DEF Entries
<1>10. ASSUME NEW x \in Entries(t), x # p, NEW k \in Name, LongAhead(t, x, k)
       PROVE  LongAhead(u, x, k)
  <2>0. x \in Entries(u) /\ u[x] = t[x] /\ x \in 1..Len(t) /\ Parts[k] \in Nat
    BY <1>2, <1>9, <1>10, NamesAre DEF Entries
  <2>1. ASSUME NEW r \in x - Parts[k] .. x - 1 PROVE u[r] = t[r]
    <3>1. r \in DOMAIN t /\ r \in 1..x-1 /\ t[r].kind = "long"
      BY <1>1, <1>10, LongParts
    <3>2. r \notin b..q
      <4> SUFFICES ASSUME r \in b..q PROVE FALSE
        OBVIOUS
      <4>1. ~(x < p)
        <5> SUFFICES ASSUME x < p PROVE FALSE
          OBVIOUS
        <5>1. x \in b..p-1
          BY <1>2, <2>0, <3>1
        <5> QED BY <5>1 DEF Entries
      <4>2. p \in x - Parts[k] .. x - 1
        BY <1>2, <1>10, <2>0, <3>1, <4>1
      <4> QED BY <1>1, <1>2, <1>10, <4>2, LongParts
    <3> QED BY <1>3, <3>1, <3>2
  <2>2. \A r \in x - Parts[k] .. x : u[r] = t[r]
    BY <2>0, <2>1
  <2> QED BY <1>10, <2>0, <2>2, LongKept
<1>11. ASSUME NEW x \in Entries(t), x # p, NEW k \in Name, IsNamed(t, x, k)
       PROVE  IsNamed(u, x, k)
  BY <1>1, <1>4, <1>9, <1>10, <1>11, NamedIs
<1>12. \A x \in DOMAIN t : Seen(t, x) <=> Seen(u, x)
  BY <1>3, <1>5 DEF Seen
<1>13. Follows(t, u, 0, p) /\ Hides(t, u)
  BY <1>3, <1>6, <1>8, <1>9, <1>11, <1>12 DEF Follows, Hides, Entries
<1>14. Made(u)
  <2>1. ASSUME NEW r \in DOMAIN u, u[r].kind = "long" PROVE u[r].sum \in Forms(u[r].name)
    <3>1. u[r] = t[r]
      BY <1>3, <2>1, Slots_
    <3> QED BY <1>3, <2>1, <3>1 DEF Made
  <2>2. ASSUME NEW x \in Entries(u)
        PROVE  u[x].name \in Forms(u[x].for) /\ \A k \in Name : IsNamed(u, x, k) => u[x].for = k
    BY <1>6, <1>8 DEF Made
  <2>3. ASSUME NEW r \in DOMAIN u, u[r] = Deleted PROVE Seen(u, r)
    <3>1. CASE r \in b..q
      <4>1. r <= p /\ r \in DOMAIN t /\ p \in DOMAIN t
        BY <1>2, <1>3, <3>1
      <4>2. Seen(t, r)
        BY <1>1, <4>1, SeenBefore
      <4> QED BY <1>12, <4>1, <4>2
    <3>2. CASE r \notin b..q
      BY <1>3, <1>12, <2>3, <3>2 DEF Made
    <3> QED BY <3>1, <3>2
  <2> QED BY <1>4, <2>1, <2>2, <2>3 DEF Made
<1>15. q = p => p \notin Entries(u)
  BY <1>2, <1>3, Slots_ DEF Entries
<1> QED BY <1>3, <1>4, <1>5, <1>13, <1>14, <1>15 DEF u

-----------------------------------------------------------------------------
(* Allocating and registering.                                               *)

LEMMA Divided ==
  ASSUME NEW n \in Nat, NEW d \in Nat \ {0}
  PROVE  /\ n \div d \in Nat /\ n % d \in 0..(d - 1)
         /\ n = d * (n \div d) + (n % d)
  BY SMT

LEMMA Exactly ==
  ASSUME NEW q \in Nat, NEW d \in Nat \ {0}
  PROVE  (d * q) \div d = q
  BY SMT

LEMMA RoundedUp ==
  ASSUME NEW n \in Nat, NEW d \in Nat \ {0}
  PROVE  (n + d - 1) \div d \in Nat /\ d * ((n + d - 1) \div d) >= n
<1> DEFINE m == n + d - 1
           y == m \div d
<1>1. m \in Nat
  OBVIOUS
<1>2. y \in Nat /\ m % d \in 0..(d - 1) /\ m = d * y + (m % d)
  <2> HIDE DEF m
  <2> QED BY <1>1, Divided
<1> DEFINE r == m % d
           z == d * y
<1>3. z \in Int /\ r \in 0..(d - 1) /\ n + d - 1 = z + r
  <2>1. z \in Int
    <3> HIDE DEF y
    <3> QED BY <1>2
  <2>2. r \in 0..(d - 1)
    BY <1>2
  <2>3. m = z + r
    BY <1>2
  <2> QED BY <2>1, <2>2, <2>3
<1> HIDE DEF r, z
<1>4. z >= n
  BY <1>3
<1> QED BY <1>2, <1>4 DEF z

\* The first run of m free entries from i on.
LEMMA RunIs ==
  ASSUME NEW t, TableType(t), NEW m \in Nat \ {0}, NEW i \in 1..Len(t)
  PROVE  LET p == FirstRun(t, i, m) IN
         /\ p \in i + m - 1 .. Len(t) + m
         /\ \A q \in p - m + 1 .. p : IsFree(t, q)
         /\ \A x \in i + m - 1 .. Len(t) + m : (\A q \in x - m + 1 .. x : IsFree(t, q)) => p <= x
<1> DEFINE S == {p \in i + m - 1 .. Len(t) + m : \A q \in p - m + 1 .. p : IsFree(t, q)}
           p == FirstRun(t, i, m)
<1>1. Len(t) \in Nat /\ DOMAIN t = 1..Len(t) /\ \A q \in DOMAIN t : t[q] \in Slot
  BY TableIs
<1>2. Len(t) + m \in S
  <2>1. Len(t) + m \in i + m - 1 .. Len(t) + m
    BY <1>1
  <2>2. \A q \in (Len(t) + m) - m + 1 .. Len(t) + m : IsFree(t, q)
    <3> SUFFICES ASSUME NEW q \in (Len(t) + m) - m + 1 .. Len(t) + m PROVE IsFree(t, q)
      OBVIOUS
    <3>1. q > Len(t)
      BY <1>1
    <3> QED BY <3>1 DEF IsFree
  <2> QED BY <2>1, <2>2
<1>3. p \in S /\ \A q \in S : p <= q
  <2>1. S \subseteq Nat
    BY <1>1
  <2>2. p = Min(S)
    BY DEF FirstRun
  <2> HIDE DEF S, p
  <2> QED BY <1>2, <2>1, <2>2, LeastNumber
<1> HIDE DEF p
<1> QED BY <1>3 DEF p

\* It leaves no end mark before it, where they come last.
LEMMA RunPacked ==
  ASSUME NEW t, TableType(t), Packed(t), NEW m \in Nat \ {0}, NEW i \in 1..Len(t), NoEndBefore(t, i)
  PROVE  NoEndBefore(t, FirstRun(t, i, m) - m + 1)
<1> DEFINE p == FirstRun(t, i, m)
<1>1. Len(t) \in Nat /\ DOMAIN t = 1..Len(t) /\ \A q \in DOMAIN t : t[q] \in Slot
  BY TableIs
<1>2. /\ p \in i + m - 1 .. Len(t) + m
      /\ \A x \in i + m - 1 .. Len(t) + m : (\A q \in x - m + 1 .. x : IsFree(t, q)) => p <= x
  BY RunIs
<1> HIDE DEF p
<1> SUFFICES ASSUME NEW q \in DOMAIN t, q < p - m + 1, t[q] = End PROVE FALSE
  BY DEF NoEndBefore, p
<1>3. q \in 1..Len(t) /\ ~(q < i)
  BY <1>1 DEF NoEndBefore
<1>4. \A r \in q .. q + m - 1 : IsFree(t, r)
  <2> SUFFICES ASSUME NEW r \in q .. q + m - 1 PROVE IsFree(t, r)
    OBVIOUS
  <2>1. CASE r > Len(t)
    BY <2>1 DEF IsFree
  <2>2. CASE ~(r > Len(t))
    <3>1. r \in 1..Len(t) /\ (r = q \/ q < r)
      BY <1>1, <1>3, <2>2
    <3>2. t[r] = End
      BY <1>1, <1>3, <3>1 DEF Packed
    <3> QED BY <1>1, <3>1, <3>2, Slots_ DEF IsFree
  <2> QED BY <2>1, <2>2
<1>5. q + m - 1 \in i + m - 1 .. Len(t) + m /\ (q + m - 1) - m + 1 = q
  BY <1>1, <1>3
<1>6. p <= q + m - 1
  BY <1>2, <1>4, <1>5
<1> QED BY <1>1, <1>2, <1>3, <1>6

\* The clusters of a table.
HeldBy(t) == Len(t) \div Slots

\* dir_alloc on its way to entry p: the table may be stretched, and holds what it held.
LEMMA WalkIs ==
  ASSUME NEW d, Made(table[d]), NEW fr \in Nat, NEW p \in Nat \ {0}
  PROVE  LET t == table[d]
             w == Walk(d, fr, p)
         IN  /\ w.ok \in BOOLEAN /\ w.free \in 0..fr
             /\ Made(w.tab) /\ DOMAIN t \subseteq DOMAIN w.tab
             /\ \A q \in DOMAIN t : w.tab[q] = t[q]
             /\ \A q \in DOMAIN w.tab \ DOMAIN t : w.tab[q] = End
             /\ Entries(w.tab) = Entries(t) /\ Follows(t, w.tab, 0, 0) /\ Hides(t, w.tab)
             /\ w.ok => w.pos = p /\ p \in DOMAIN w.tab
             /\ ~w.ok => w.pos = Len(w.tab)
             /\ HeldBy(w.tab) + w.free = HeldBy(t) + fr
<1> DEFINE t == table[d]
           L == Len(t)
           need == IF p <= L THEN 0 ELSE (p - L + Slots - 1) \div Slots
           room == Min({fr, MaxClusters - L \div Slots})
           k == Min({need, room})
           g == t \o Cleared(Slots * k)
           a == Walk(d, fr, p)
<1>1. TableType(t)
  BY DEF Made
<1>2. /\ L \in Nat \ {0} /\ DOMAIN t = 1..L
      /\ Slots \in Nat \ {0} /\ MaxClusters \in Nat
  BY <1>1, TableIs, VolumeAssumption
<1>3. PICK j \in 1..MaxClusters : L = Slots * j
  BY <1>1 DEF TableType
<1>5. /\ a.ok = (need <= room) /\ a.pos = (IF need <= room THEN p ELSE Len(g))
      /\ a.tab = g /\ a.free = fr - k
  BY DEF Walk, Stopped
<1> HIDE DEF a, g
<1>7. need \in Nat /\ (p > L => Slots * need >= p - L)
  <2>1. CASE p <= L
    BY <1>2, <2>1
  <2>2. CASE ~(p <= L)
    <3> DEFINE x == p - L
    <3>1. x \in Nat
      BY <1>2, <2>2
    <3>2. need = (x + Slots - 1) \div Slots
      BY <2>2
    <3> HIDE DEF x, need
    <3>3. need \in Nat /\ Slots * need >= x
      BY <1>2, <3>1, <3>2, RoundedUp
    <3> QED BY <3>3 DEF x
  <2> QED BY <2>1, <2>2
<1>8. L \div Slots = j
  BY <1>2, <1>3, Exactly
<1>9. room \in Nat /\ room <= fr /\ room <= MaxClusters - j
  <2>0. MaxClusters - j \in Nat
    BY <1>2
  <2>1. room = Min({fr, MaxClusters - j})
    BY <1>8
  <2> HIDE DEF room
  <2>2. room = IF fr <= MaxClusters - j THEN fr ELSE MaxClusters - j
    BY <2>0, <2>1, MinOfTwo
  <2> QED BY <2>0, <2>2
<1> HIDE DEF room, need
<1>10. k = IF need <= room THEN need ELSE room
  BY <1>7, <1>9, MinOfTwo
<1>11. g = t \o Cleared(Slots * k)
  BY DEF g
<1> HIDE DEF k
<1>12. k \in 0..(MaxClusters - j) /\ k <= fr /\ k \in Nat
  BY <1>2, <1>7, <1>9, <1>10
<1>13. /\ Made(g) /\ Len(g) = L + Slots * k /\ DOMAIN t \subseteq DOMAIN g
       /\ \A q \in DOMAIN t : g[q] = t[q]
       /\ \A q \in DOMAIN g \ DOMAIN t : g[q] = End
       /\ Entries(g) = Entries(t) /\ Follows(t, g, 0, 0) /\ Hides(t, g)
  <2>1. Made(t) /\ Len(t) = Slots * j
    BY <1>3
  <2> HIDE DEF t
  <2> QED BY <1>11, <1>12, <2>1, Grow
<1>14. ASSUME need <= room PROVE p \in DOMAIN g
  <2>1. Len(g) \in Nat /\ DOMAIN g = 1..Len(g)
    BY <1>13, TableIs DEF Made
  <2>2. k = need
    BY <1>10, <1>14
  <2> DEFINE z == Slots * k
  <2>3. z \in Nat /\ (p > L => z >= p - L)
    <3>1. z \in Nat
      BY <1>2, <1>12
    <3> QED BY <1>7, <2>2, <3>1
  <2>4. Len(g) = L + z
    BY <1>13
  <2> HIDE DEF z, L
  <2> QED BY <1>2, <2>1, <2>3, <2>4
<1>15. a.free \in 0..fr
  BY <1>5, <1>12
<1>21. HeldBy(a.tab) + a.free = HeldBy(t) + fr
  <2>1. HeldBy(t) = j
    BY <1>8 DEF HeldBy
  <2>2. L + Slots * k = Slots * (j + k) /\ j + k \in Nat
    BY <1>2, <1>3, <1>12
  <2>3. HeldBy(g) = j + k
    <3> HIDE DEF L
    <3> QED BY <1>2, <1>13, <2>2, Exactly DEF HeldBy
  <2> QED BY <1>2, <1>5, <1>12, <2>1, <2>3
<1>16. a.ok => a.pos = p /\ p \in DOMAIN a.tab
  BY <1>5, <1>14
<1>17. a.ok \in BOOLEAN /\ (~a.ok => a.pos = Len(a.tab))
  <2>1. ASSUME need <= room PROVE a.ok = TRUE
    BY <1>5, <2>1
  <2>2. ASSUME ~(need <= room) PROVE a.ok = FALSE /\ a.pos = Len(a.tab)
    <3>1. (need <= room) = FALSE
      BY <2>2
    <3> QED BY <1>5, <2>2, <3>1
  <2> QED BY <2>1, <2>2
<1>18. a.tab = g
  BY <1>5
<1> HIDE DEF t
<1>19. /\ Made(a.tab) /\ DOMAIN t \subseteq DOMAIN a.tab
       /\ \A q \in DOMAIN t : a.tab[q] = t[q]
       /\ \A q \in DOMAIN a.tab \ DOMAIN t : a.tab[q] = End
       /\ Entries(a.tab) = Entries(t) /\ Follows(t, a.tab, 0, 0) /\ Hides(t, a.tab)
  BY <1>13, <1>18
<1> QED BY <1>15, <1>16, <1>17, <1>19, <1>21 DEF a, t

\* What dir_register leaves of the table of directory d, fr clusters being free.
Registered(d, n, fr, dir, r) ==
    LET t == table[d] IN
    /\ r.ok \in BOOLEAN /\ r.fault \in {0, 1} /\ r.free \in 0..fr /\ r.short \subseteq ShortName
    /\ HeldBy(r.tab) + r.free = HeldBy(t) + fr
    /\ Made(r.tab) /\ DOMAIN t \subseteq DOMAIN r.tab
    /\ r.pos = 0 => r.tab = t /\ ~r.ok
    /\ r.pos # 0 => r.pos \in DOMAIN r.tab
    /\ ~r.ok => Follows(t, r.tab, 0, 0) /\ Hides(t, r.tab)
    /\ Longs(t, r.tab)
    /\ r.ok =>
         /\ r.pos # 0 /\ Follows(t, r.tab, r.pos, 0)
         /\ r.tab[r.pos].dir = dir /\ IsNamed(r.tab, r.pos, n)
         /\ Packed(t) /\ NoEndBefore(t, StartAt(d)) =>
              Packed(r.tab) /\ NoEndBefore(r.tab, r.pos + 1)

\* The short name chosen is one of the name's.
LEMMA ShortForIs ==
  ASSUME NEW d, NEW n \in Name, ~Refused(d, n)
  PROVE  ShortFor(d, n) \in Forms(n)
<1>1. CASE n \in Lossy
  <2>1. FreeNumbers(d, n) \subseteq Nat /\ FreeNumbers(d, n) # {}
    BY <1>1 DEF FreeNumbers, Refused
  <2>2. Min(FreeNumbers(d, n)) \in FreeNumbers(d, n)
    BY <2>1, LeastNumber
  <2>3. Min(FreeNumbers(d, n)) \in 1..MaxNumber
    BY <2>2 DEF FreeNumbers
  <2> QED BY <1>1, <2>3 DEF Forms, ShortFor
<1>2. CASE n \notin Lossy
  BY <1>2 DEF Forms, ShortFor
<1> QED BY <1>1, <1>2

LEMMA RunNumbers ==
  ASSUME NEW L \in Nat \ {0}, NEW k \in Nat, NEW i \in 1..L,
         NEW p, p \in i + (k + 1) - 1 .. L + (k + 1)
  PROVE  /\ p \in Nat \ {0} /\ p > k /\ p <= L + (k + 1)
         /\ p - (k + 1) + 1 = p - k
  OBVIOUS

LEMMA InRun ==
  ASSUME NEW L \in Nat, NEW p \in 1..L, NEW k \in Nat, p > k, NEW r \in p - k .. p
  PROVE  r \in 1..L
  OBVIOUS

LEMMA SameSize ==
  ASSUME NEW t, NEW u, Len(u) = Len(t)
  PROVE  HeldBy(u) = HeldBy(t)
  BY DEF HeldBy

\* What is left of table t by writing g up to q, p being the last entry's place.
WroteWell(t, g, u, d, n, dir, p, q) ==
    /\ p \in DOMAIN g /\ p # 0
    /\ Made(u) /\ Len(u) = Len(g) /\ DOMAIN u = DOMAIN g /\ Longs(t, u)
    /\ q # p + 1 => Follows(t, u, 0, 0) /\ Hides(t, u)
    /\ q = p + 1 =>
         /\ Follows(t, u, p, 0)
         /\ u[p].dir = dir /\ IsNamed(u, p, n)
         /\ Packed(t) /\ NoEndBefore(t, StartAt(d)) => Packed(u) /\ NoEndBefore(u, p + 1)

\* Writing at p, reached by dir_alloc, as far as q.
LEMMA WriteAfter ==
  ASSUME NEW d, Made(table[d]), NEW fr \in Nat, NEW n \in Name, NEW s \in Forms(n),
         NEW dir \in DirCluster \cup {NoDir}, StartAt(d) \in 1..Len(table[d]),
         NEW p, p = FirstRun(table[d], StartAt(d), Parts[n] + 1), Walk(d, fr, p).ok,
         NEW q \in p - Parts[n] .. p + 1
  PROVE  WroteWell(table[d], Walk(d, fr, p).tab, Written(Walk(d, fr, p).tab, p, n, s, dir, q),
                   d, n, dir, p, q)
<1> DEFINE t == table[d]
           m == Parts[n] + 1
           w == Walk(d, fr, p)
           g == w.tab
           u == Written(g, p, n, s, dir, q)
<1>0. TableType(t)
  BY DEF Made
<1>1. /\ Len(t) \in Nat \ {0} /\ DOMAIN t = 1..Len(t) /\ \A r \in DOMAIN t : t[r] \in Slot
      /\ Parts[n] \in Nat /\ m \in Nat \ {0} /\ StartAt(d) \in 1..Len(t)
  BY <1>0, TableIs, NamesAre
<1>2. /\ p \in StartAt(d) + m - 1 .. Len(t) + m
      /\ \A r \in p - m + 1 .. p : IsFree(t, r)
  <2>1. p = FirstRun(t, StartAt(d), m)
    OBVIOUS
  <2> HIDE DEF m, t
  <2> QED BY <1>0, <1>1, <2>1, RunIs
<1>3. Packed(t) /\ NoEndBefore(t, StartAt(d)) => NoEndBefore(t, p - m + 1)
  <2>1. p = FirstRun(t, StartAt(d), m)
    OBVIOUS
  <2> HIDE DEF m, t
  <2> QED BY <1>0, <1>1, <2>1, RunPacked
<1>4. p \in Nat \ {0} /\ p > Parts[n] /\ p <= Len(t) + m /\ p - m + 1 = p - Parts[n]
  <2> DEFINE L == Len(t)
             k == Parts[n]
             i == StartAt(d)
  <2>1. L \in Nat \ {0} /\ k \in Nat /\ i \in 1..L /\ p \in i + (k + 1) - 1 .. L + (k + 1)
    BY <1>1, <1>2
  <2> HIDE DEF L, k, i
  <2>2. p \in Nat \ {0} /\ p > k /\ p <= L + (k + 1) /\ p - (k + 1) + 1 = p - k
    BY <2>1, RunNumbers
  <2> QED BY <2>2 DEF L, k
<1>5. /\ Made(g) /\ DOMAIN t \subseteq DOMAIN g
      /\ \A r \in DOMAIN t : g[r] = t[r]
      /\ \A r \in DOMAIN g \ DOMAIN t : g[r] = End
      /\ Entries(g) = Entries(t) /\ Follows(t, g, 0, 0) /\ Hides(t, g)
      /\ p \in DOMAIN g
  BY <1>4, WalkIs
<1>6. DOMAIN g = 1..Len(g) /\ Len(g) \in Nat /\ TableType(g)
  BY <1>5, TableIs DEF Made
<1> HIDE DEF w, g, t
<1>7. \A r \in p - Parts[n] .. p : g[r].kind \in {"end", "deleted"}
  <2> SUFFICES ASSUME NEW r \in p - Parts[n] .. p PROVE g[r].kind \in {"end", "deleted"}
    OBVIOUS
  <2>0. p \in 1..Len(g)
    BY <1>5, <1>6
  <2>1. IsFree(t, r) /\ r \in 1..Len(g)
    <3>1. r \in p - m + 1 .. p
      BY <1>4
    <3>2. r \in 1..Len(g)
      BY <1>1, <1>4, <1>6, <2>0, InRun
    <3> QED BY <1>2, <3>1, <3>2
  <2>2. CASE r \in DOMAIN t
    <3>1. ~(r > Len(t))
      BY <1>1, <2>2
    <3> QED BY <1>5, <2>1, <2>2, <3>1 DEF IsFree
  <2>3. CASE r \notin DOMAIN t
    BY <1>5, <1>6, <2>1, <2>3, Slots_
  <2> QED BY <2>2, <2>3
<1>8. q \in p - Parts[n] .. p + 1
  OBVIOUS
<1>9. /\ Made(u) /\ Len(u) = Len(g) /\ DOMAIN u = DOMAIN g
      /\ Follows(g, u, IF q = p + 1 THEN p ELSE 0, 0)
      /\ q # p + 1 => Hides(g, u)
      /\ q = p + 1 => u[p] = ShortSlot(s, dir, n) /\ IsNamed(u, p, n)
      /\ \A r \in DOMAIN g : u[r] = End => g[r] = End
      /\ \A r \in DOMAIN g : r \in p - Parts[n] .. q - 1 => u[r] # End
      /\ \A r \in DOMAIN g : r > p => u[r] = g[r]
      /\ Longs(g, u)
  <2>1. Made(g) /\ p \in DOMAIN g /\ p > Parts[n]
    BY <1>4, <1>5
  <2> HIDE DEF m, t
  <2>2. Puts(g, u, n, s, dir, p, q)
    BY <1>7, <1>8, <2>1, Write
  <2> QED BY <2>2 DEF Puts
<1> HIDE DEF u
<1>10. 0 \notin Entries(t) /\ 0 \notin Entries(g) /\ 0 \notin Entries(u)
  BY <1>1, <1>5, <1>6, <1>9 DEF Entries
<1>11. q # p + 1 => Follows(t, u, 0, 0) /\ Hides(t, u)
  <2> SUFFICES ASSUME q # p + 1 PROVE Follows(t, u, 0, 0) /\ Hides(t, u)
    OBVIOUS
  <2>1. Follows(g, u, 0, 0) /\ Hides(g, u)
    BY <1>9
  <2>2. Follows(t, u, 0, 0)
    BY <1>5, <1>10, <2>1, FollowsAll
  <2> QED BY <1>5, <2>1, <2>2 DEF Hides
<1>12. ASSUME q = p + 1
       PROVE  /\ Follows(t, u, p, 0) /\ u[p].dir = dir /\ IsNamed(u, p, n)
              /\ Packed(t) /\ NoEndBefore(t, StartAt(d)) => Packed(u) /\ NoEndBefore(u, p + 1)
  <2>1. Follows(g, u, p, 0) /\ u[p] = ShortSlot(s, dir, n) /\ IsNamed(u, p, n)
    BY <1>9, <1>12
  <2>2. Follows(t, u, p, 0)
    BY <1>5, <1>10, <2>1, FollowsAll
  <2>3. u[p].dir = dir
    BY <2>1 DEF ShortSlot
  <2>4. ASSUME Packed(t), NoEndBefore(t, StartAt(d))
        PROVE  Packed(u) /\ NoEndBefore(u, p + 1)
    <3>1. NoEndBefore(t, p - Parts[n])
      BY <1>3, <1>4, <2>4
    <3>2. NoEndBefore(u, p + 1)
      <4> SUFFICES ASSUME NEW r \in DOMAIN u, r < p + 1, u[r] = End PROVE FALSE
        BY DEF NoEndBefore
      <4>1. r \in DOMAIN g /\ r \in 1..Len(g) /\ g[r] = End
        BY <1>6, <1>9
      <4>0. ~(r \in p - Parts[n] .. q - 1)
        BY <1>9, <4>1
      <4>2. r < p - Parts[n]
        BY <1>1, <1>4, <1>12, <4>0, <4>1
      <4>3. r \in DOMAIN t
        BY <1>1, <1>4, <4>1, <4>2 DEF m
      <4> QED BY <1>5, <3>1, <4>1, <4>2, <4>3 DEF NoEndBefore
    <3>3. Packed(u)
      <4> SUFFICES ASSUME NEW x \in DOMAIN u, NEW y \in DOMAIN u, u[x] = End, x < y PROVE u[y] = End
        BY DEF Packed
      <4>1. x \in 1..Len(g) /\ y \in 1..Len(g) /\ g[x] = End /\ x > p /\ y > p
        BY <1>4, <1>6, <1>9, <3>2 DEF NoEndBefore
      <4>2. u[y] = g[y]
        BY <1>6, <1>9, <4>1
      <4>3. CASE y \in DOMAIN t
        <5>1. x \in DOMAIN t
          BY <1>1, <4>1, <4>3
        <5> QED BY <1>5, <2>4, <4>1, <4>2, <4>3, <5>1 DEF Packed
      <4>4. CASE y \notin DOMAIN t
        BY <1>5, <1>6, <4>1, <4>2, <4>4
      <4> QED BY <4>3, <4>4
    <3> QED BY <3>2, <3>3
  <2> QED BY <2>1, <2>2, <2>3, <2>4
<1>13. Longs(t, u)
  BY <1>5, <1>9 DEF Longs
<1> QED BY <1>4, <1>5, <1>9, <1>11, <1>12, <1>13 DEF u, g, w, m, t, WroteWell

LEMMA RegisterIs ==
  ASSUME NEW d, Made(table[d]), NEW fr \in Nat, NEW n \in Name,
         NEW dir \in DirCluster \cup {NoDir}, StartAt(d) \in 1..Len(table[d]),
         NEW r \in Registrations(d, n, fr, dir)
  PROVE  Registered(d, n, fr, dir, r)
<1> DEFINE t == table[d]
           p == FirstRun(t, StartAt(d), Parts[n] + 1)
           w == Walk(d, fr, p)
           s == ShortFor(d, n)
           Wrote(q) == Written(w.tab, p, n, s, dir, q)
<1>0. TableType(t) /\ Len(t) \in Nat \ {0} /\ DOMAIN t = 1..Len(t)
  BY TableIs DEF Made
<1>1. p \in Nat \ {0} /\ StartAt(d) \in Nat \ {0}
  <2>1. Parts[n] + 1 \in Nat \ {0} /\ Parts[n] \in Nat
    BY NamesAre
  <2>2. p \in StartAt(d) + (Parts[n] + 1) - 1 .. Len(t) + (Parts[n] + 1)
    <3> HIDE DEF t
    <3>1. StartAt(d) \in 1..Len(t)
      BY DEF t
    <3> QED BY <1>0, <2>1, <3>1, RunIs
  <2> HIDE DEF p
  <2> QED BY <1>0, <2>1, <2>2
<1>2. /\ w.ok \in BOOLEAN /\ w.free \in 0..fr
      /\ Made(w.tab) /\ DOMAIN t \subseteq DOMAIN w.tab
      /\ Follows(t, w.tab, 0, 0) /\ Hides(t, w.tab) /\ Longs(t, w.tab)
      /\ w.ok => w.pos = p /\ p \in DOMAIN w.tab
      /\ ~w.ok => w.pos = Len(w.tab)
      /\ HeldBy(w.tab) + w.free = HeldBy(t) + fr
  <2> HIDE DEF p
  <2> QED BY <1>1, WalkIs DEF Longs
<1>3. /\ Len(w.tab) \in Nat \ {0} /\ DOMAIN w.tab = 1..Len(w.tab)
  BY <1>2, TableIs DEF Made
<1>4. CASE Refused(d, n)
  <2>1. r = [ok |-> FALSE, fault |-> 0, pos |-> 0, free |-> fr, tab |-> t, short |-> {}]
    BY <1>4 DEF Registrations
  <2>2. Follows(t, t, 0, 0) /\ Hides(t, t) /\ Longs(t, t)
    BY <1>0, FollowsItself DEF Longs
  <2> QED BY <2>1, <2>2 DEF Registered
<1>5. CASE ~Refused(d, n)
  <2>0. s \in Forms(n) /\ {s} \subseteq ShortName
    BY <1>5, ShortForIs, NamesAre
  <2>1. \/ r = [ok |-> w.ok, fault |-> 0, pos |-> w.pos, free |-> w.free,
                tab |-> IF w.ok THEN Wrote(p + 1) ELSE w.tab,
                short |-> IF w.ok /\ scanned # Root /\ scanned = d THEN {s} ELSE {}]
        \/ \E q \in StartAt(d)..p :
             /\ Walk(d, fr, q).ok
             /\ r = [ok |-> FALSE, fault |-> 1, pos |-> Walk(d, fr, q).pos, free |-> Walk(d, fr, q).free,
                     tab |-> Written(Walk(d, fr, q).tab, p, n, s, dir, 0), short |-> {}]
        \/ /\ w.ok
           /\ \E q \in p - Parts[n] .. p :
                r = [ok |-> FALSE, fault |-> 1, pos |-> w.pos, free |-> w.free,
                     tab |-> Wrote(q), short |-> {}]
    BY <1>5 DEF Registrations
  <2>2. ASSUME w.ok, NEW q, q \in p - Parts[n] .. p + 1
        PROVE  /\ Made(Wrote(q)) /\ Len(Wrote(q)) = Len(w.tab) /\ DOMAIN Wrote(q) = DOMAIN w.tab
               /\ Longs(t, Wrote(q))
               /\ q # p + 1 => Follows(t, Wrote(q), 0, 0) /\ Hides(t, Wrote(q))
               /\ q = p + 1 =>
                    /\ Follows(t, Wrote(q), p, 0)
                    /\ Wrote(q)[p].dir = dir /\ IsNamed(Wrote(q), p, n)
                    /\ Packed(t) /\ NoEndBefore(t, StartAt(d)) =>
                         Packed(Wrote(q)) /\ NoEndBefore(Wrote(q), p + 1)
    <3>1. p = FirstRun(table[d], StartAt(d), Parts[n] + 1) /\ Walk(d, fr, p).ok
      BY <2>2
    <3> HIDE DEF p, s
    <3>2. WroteWell(table[d], w.tab, Wrote(q), d, n, dir, p, q)
      BY <2>0, <2>2, <3>1, WriteAfter
    <3> QED BY <3>2 DEF WroteWell
  <2> HIDE DEF w, p, s, t, Wrote
  <2>3. CASE \E q \in StartAt(d)..p :
             /\ Walk(d, fr, q).ok
             /\ r = [ok |-> FALSE, fault |-> 1, pos |-> Walk(d, fr, q).pos, free |-> Walk(d, fr, q).free,
                     tab |-> Written(Walk(d, fr, q).tab, p, n, s, dir, 0), short |-> {}]
    <3> PICK q \in StartAt(d)..p :
             /\ Walk(d, fr, q).ok
             /\ r = [ok |-> FALSE, fault |-> 1, pos |-> Walk(d, fr, q).pos, free |-> Walk(d, fr, q).free,
                     tab |-> Written(Walk(d, fr, q).tab, p, n, s, dir, 0), short |-> {}]
      BY <2>3
    <3> DEFINE v == Walk(d, fr, q)
    <3>1. q \in Nat \ {0}
      BY <1>1
    <3>2. /\ v.free \in 0..fr /\ Made(v.tab) /\ DOMAIN t \subseteq DOMAIN v.tab
          /\ Follows(t, v.tab, 0, 0) /\ Hides(t, v.tab) /\ Longs(t, v.tab)
          /\ v.pos = q /\ q \in DOMAIN v.tab
          /\ HeldBy(v.tab) + v.free = HeldBy(t) + fr
      BY <3>1, WalkIs DEF t, Longs
    <3>3. Written(v.tab, p, n, s, dir, 0) = v.tab
      BY <1>1, <3>2, WriteNothing
    <3>4. r = [ok |-> FALSE, fault |-> 1, pos |-> q, free |-> v.free, tab |-> v.tab, short |-> {}]
      BY <3>2, <3>3
    <3> HIDE DEF v
    <3> QED BY <3>1, <3>2, <3>4 DEF Registered, t
  <2>4. CASE w.ok /\ \E q \in p - Parts[n] .. p :
                r = [ok |-> FALSE, fault |-> 1, pos |-> w.pos, free |-> w.free,
                     tab |-> Wrote(q), short |-> {}]
    <3> PICK q \in p - Parts[n] .. p :
                r = [ok |-> FALSE, fault |-> 1, pos |-> w.pos, free |-> w.free,
                     tab |-> Wrote(q), short |-> {}]
      BY <2>4
    <3>1. q \in p - Parts[n] .. p + 1 /\ q # p + 1
      BY <1>1, NamesAre
    <3>2. /\ Made(Wrote(q)) /\ Len(Wrote(q)) = Len(w.tab) /\ DOMAIN Wrote(q) = DOMAIN w.tab
          /\ Follows(t, Wrote(q), 0, 0) /\ Hides(t, Wrote(q)) /\ Longs(t, Wrote(q))
      BY <2>2, <2>4, <3>1
    <3>3. HeldBy(Wrote(q)) = HeldBy(w.tab)
      BY <3>2, SameSize
    <3> QED BY <1>1, <1>2, <2>4, <3>2, <3>3 DEF Registered, t
  <2>5. CASE r = [ok |-> w.ok, fault |-> 0, pos |-> w.pos, free |-> w.free,
                tab |-> IF w.ok THEN Wrote(p + 1) ELSE w.tab,
                short |-> IF w.ok /\ scanned # Root /\ scanned = d THEN {s} ELSE {}]
    <3>1. CASE w.ok
      <4>1. p + 1 \in p - Parts[n] .. p + 1
        BY <1>1, NamesAre
      <4>2. /\ Made(Wrote(p + 1)) /\ Len(Wrote(p + 1)) = Len(w.tab) /\ DOMAIN Wrote(p + 1) = DOMAIN w.tab
            /\ Follows(t, Wrote(p + 1), p, 0) /\ Longs(t, Wrote(p + 1))
            /\ Wrote(p + 1)[p].dir = dir /\ IsNamed(Wrote(p + 1), p, n)
            /\ Packed(t) /\ NoEndBefore(t, StartAt(d)) =>
                 Packed(Wrote(p + 1)) /\ NoEndBefore(Wrote(p + 1), p + 1)
        BY <2>2, <3>1, <4>1
      <4>3. HeldBy(Wrote(p + 1)) = HeldBy(w.tab)
        BY <4>2, SameSize
      <4>4. /\ r.ok = TRUE /\ r.fault = 0 /\ r.pos = p /\ r.free = w.free /\ r.tab = Wrote(p + 1)
            /\ r.short \subseteq ShortName
        BY <1>2, <2>0, <2>5, <3>1
      <4> HIDE DEF Registrations
      <4> QED BY <1>1, <1>2, <3>1, <4>2, <4>3, <4>4 DEF Registered, t
    <3>2. CASE ~w.ok
      <4>1. /\ r.ok = FALSE /\ r.fault = 0 /\ r.pos = Len(w.tab) /\ r.free = w.free /\ r.tab = w.tab
            /\ r.short = {}
        BY <1>2, <2>5, <3>2
      <4>2. r.fault \in {0, 1} /\ r.free \in 0..fr /\ r.short \subseteq ShortName /\ r.pos # 0
        BY <1>2, <1>3, <4>1
      <4>3. /\ HeldBy(r.tab) + r.free = HeldBy(t) + fr
            /\ Made(r.tab) /\ DOMAIN t \subseteq DOMAIN r.tab
            /\ Follows(t, r.tab, 0, 0) /\ Hides(t, r.tab) /\ Longs(t, r.tab)
        BY <1>2, <4>1
      <4>4. r.pos \in DOMAIN r.tab
        BY <1>3, <4>1
      <4> QED BY <4>1, <4>2, <4>3, <4>4, Zenon DEF Registered, t
    <3> QED BY <1>2, <3>1, <3>2
  <2> QED BY <2>1, <2>3, <2>4, <2>5
<1> QED BY <1>4, <1>5

-----------------------------------------------------------------------------
(* What a table means to NameSpace: a row of objects, and the pairs of names  *)
(* and objects that are not found.                                           *)

Row(t) == [n \in Name |-> Object(t, n)]
Pairs(t) == UNION {{<<n, t[p].dir>> : p \in Hidden(t, n)} : n \in Name}

LEMMA PairsAre ==
  ASSUME NEW t, TableType(t), NEW x
  PROVE  x \in Pairs(t) <=>
           \E n \in Name, p \in Entries(t) :
             IsNamed(t, p, n) /\ ~(Found(t, n) /\ p = Where(t, n)) /\ x = <<n, t[p].dir>>
<1>1. \A n \in Name, p \in DOMAIN t : IsNamed(t, p, n) => p \in Entries(t)
  BY DEF IsNamed, Entries
<1>2. \A p \in Entries(t) : p \in DOMAIN t
  BY DEF Entries
<1> QED BY <1>1, <1>2 DEF Pairs, Hidden

LEMMA ObjectIs ==
  ASSUME NEW t, TableType(t), NEW n \in Name
  PROVE  /\ Object(t, n) # Absent <=> Found(t, n)
         /\ Found(t, n) => Object(t, n) = t[Where(t, n)].dir
<1>1. ASSUME Found(t, n) PROVE t[Where(t, n)].dir # Absent
  <2>1. Where(t, n) \in Entries(t)
    BY <1>1, WhereIs
  <2>2. t[Where(t, n)].dir \in DirCluster \cup {NoDir}
    BY <2>1, TableIs, Slots_
  <2> QED BY <2>2, VolumeAssumption
<1> QED BY <1>1 DEF Object

\* What NameSpace's Edited says of the rows of t and u.
EditedRow(t, u, put, taken, calm) ==
    /\ \A n \in Name \ taken : Object(t, n) # Absent => Object(u, n) = Object(t, n)
    /\ \A n \in Name : n \in taken \/ Object(t, n) = Absent =>
         Object(u, n) = Absent \/ <<n, Object(u, n)>> \in Pairs(t) \cup put
    /\ Pairs(u) \subseteq Pairs(t) \cup put
    /\ \A x \in Pairs(t) \cup put : x \in Pairs(u) \/ (x[1] \in Name /\ Object(u, x[1]) = x[2])
    /\ \A x \in put : calm /\ (x[1] \in taken \/ Object(t, x[1]) = Absent) => Object(u, x[1]) = x[2]

\* A table that follows another, with the entry new for the name m, if there is
\* one, and the entry old, that the names in taken led to, without its name.
Changed(t, u, new, old, m, o, put, taken) ==
    /\ Follows(t, u, new, old)
    /\ new = 0 => put = {}
    /\ new # 0 => /\ put = {<<m, o>>} /\ m \in Name /\ u[new].dir = o /\ IsNamed(u, new, m)
                  /\ Found(t, m) => t[Where(t, m)].dir = o
    /\ taken \subseteq Name
    /\ \A n \in taken : Found(t, n) /\ old = Where(t, n) /\ ~(old \in Entries(u) /\ IsNamed(u, old, n))
    /\ old \in Entries(t) => \A n \in Name \ taken : IsNamed(t, old, n) => old \in Entries(u) /\ IsNamed(u, old, n)

LEMMA EditIs ==
  ASSUME NEW t, Made(t), NEW u, Made(u), NEW new, NEW old, NEW m, NEW o, NEW put, NEW taken,
         Changed(t, u, new, old, m, o, put, taken),
         NEW calm, calm => Neat(t) /\ (new # 0 => Seen(u, new))
  PROVE  EditedRow(t, u, put, taken, calm)
<1>1. /\ TableType(t) /\ TableType(u)
      /\ \A p \in Entries(t) : p \in DOMAIN t /\ p \in Nat /\ p # 0
      /\ \A p \in Entries(u) : p \in DOMAIN u /\ p \in Nat /\ p # 0
  BY TableIs DEF Made
<1>2. /\ DOMAIN t \subseteq DOMAIN u
      /\ new # 0 => new \in Entries(u) /\ new \notin Entries(t)
      /\ \A p \in Entries(t) : Seen(t, p) => Seen(u, p)
  BY DEF Changed, Follows
\* An entry of u is the new one or one of t, with the names it had.
<1>3. ASSUME NEW q \in Entries(u), q # new
      PROVE  q \in Entries(t) /\ u[q] = t[q] /\ \A n \in Name : IsNamed(u, q, n) => IsNamed(t, q, n)
  BY <1>3 DEF Changed, Follows
\* An entry of t is still there, but for the names that were taken.
<1>4. ASSUME NEW p \in Entries(t), NEW n \in Name, IsNamed(t, p, n), ~(p = old /\ n \in taken)
      PROVE  p \in Entries(u) /\ p # new /\ u[p] = t[p] /\ IsNamed(u, p, n)
  <2>1. p # new
    BY <1>1, <1>2
  <2>2. p \in Entries(u) /\ IsNamed(u, p, n)
    BY <1>4 DEF Changed, Follows
  <2> QED BY <1>3, <2>1, <2>2
<1>5. ASSUME new # 0
      PROVE  /\ m \in Name /\ IsNamed(u, new, m) /\ u[new].dir = o /\ put = {<<m, o>>}
             /\ \A n \in Name : IsNamed(u, new, n) => n = m
             /\ Found(t, m) => t[Where(t, m)].dir = o
  <2>1. /\ m \in Name /\ IsNamed(u, new, m) /\ u[new].dir = o /\ put = {<<m, o>>}
        /\ Found(t, m) => t[Where(t, m)].dir = o
    BY <1>5 DEF Changed
  <2>2. \A n \in Name : IsNamed(u, new, n) => u[new].for = n
    BY <1>2, <1>5 DEF Made
  <2> QED BY <2>1, <2>2
<1>6. \A n \in taken : n \in Name /\ Found(t, n) /\ old = Where(t, n) /\ ~(old \in Entries(u) /\ IsNamed(u, old, n))
  BY DEF Changed
<1>7. new = 0 => put = {}
  BY DEF Changed
\* The first entry of u that a name leads to is that of t, or new, or was hidden.
<1>8. ASSUME NEW n \in Name, Found(t, n), n \notin taken
      PROVE  /\ Found(u, n)
             /\ Where(u, n) = Where(t, n) \/ (new # 0 /\ Where(u, n) = new)
             /\ u[Where(t, n)] = t[Where(t, n)]
  <2> DEFINE p == Where(t, n)
             q == Where(u, n)
  <2>1. /\ p \in Entries(t) /\ Seen(t, p) /\ IsNamed(t, p, n)
        /\ \A x \in Entries(t) : Seen(t, x) /\ IsNamed(t, x, n) => p <= x
    BY <1>1, <1>8, WhereIs
  <2>2. p \in Entries(u) /\ Seen(u, p) /\ IsNamed(u, p, n) /\ u[p] = t[p]
    BY <1>2, <1>4, <1>8, <2>1
  <2>3. Found(u, n)
    BY <1>1, <2>2, WhereIs
  <2>4. q \in Entries(u) /\ Seen(u, q) /\ IsNamed(u, q, n) /\ q <= p
    BY <1>1, <2>2, <2>3, WhereIs
  <2>5. ASSUME q # new PROVE q = p
    <3>1. q \in Entries(t) /\ IsNamed(t, q, n)
      BY <1>3, <2>4, <2>5
    <3>2. Seen(t, q)
      BY <1>1, <2>1, <2>4, <3>1, SeenBefore
    <3>3. p <= q /\ p \in Nat /\ q \in Nat
      BY <1>1, <2>1, <3>1, <3>2
    <3> HIDE DEF p, q
    <3> QED BY <2>4, <3>3
  <2>6. q # 0
    BY <1>1, <2>4
  <2> QED BY <2>2, <2>3, <2>5, <2>6
<1>9. ASSUME NEW n \in Name \ taken, Object(t, n) # Absent PROVE Object(u, n) = Object(t, n)
  <2>1. Found(t, n) /\ Object(t, n) = t[Where(t, n)].dir
    BY <1>1, <1>9, ObjectIs
  <2>2. Found(u, n) /\ u[Where(t, n)] = t[Where(t, n)]
    BY <1>8, <2>1
  <2>3. Object(u, n) = u[Where(u, n)].dir
    BY <1>1, <2>2, ObjectIs
  <2>4. CASE Where(u, n) = Where(t, n)
    BY <2>1, <2>2, <2>3, <2>4
  <2>5. CASE new # 0 /\ Where(u, n) = new
    <3>1. IsNamed(u, new, n)
      BY <1>1, <2>2, <2>5, WhereIs
    <3> QED BY <1>5, <2>1, <2>3, <2>5, <3>1
  <2> QED BY <1>8, <2>1, <2>4, <2>5
<1>10. ASSUME NEW n \in Name, n \in taken \/ Object(t, n) = Absent
       PROVE  Object(u, n) = Absent \/ <<n, Object(u, n)>> \in Pairs(t) \cup put
  <2> SUFFICES ASSUME Object(u, n) # Absent PROVE <<n, Object(u, n)>> \in Pairs(t) \cup put
    OBVIOUS
  <2> DEFINE q == Where(u, n)
  <2>1. Found(u, n) /\ Object(u, n) = u[q].dir /\ q \in Entries(u) /\ IsNamed(u, q, n)
    BY <1>1, ObjectIs, WhereIs
  <2> HIDE DEF q
  <2>2. CASE q = new
    BY <1>1, <1>5, <2>1, <2>2
  <2>3. CASE q # new
    <3>1. q \in Entries(t) /\ u[q] = t[q] /\ IsNamed(t, q, n)
      BY <1>3, <2>1, <2>3
    <3>2. ~(Found(t, n) /\ q = Where(t, n))
      <4>1. CASE n \in taken
        BY <1>6, <2>1, <4>1
      <4>2. CASE Object(t, n) = Absent
        BY <1>1, <4>2, ObjectIs
      <4> QED BY <1>10, <4>1, <4>2
    <3>3. <<n, t[q].dir>> \in Pairs(t)
      BY <1>1, <3>1, <3>2, PairsAre
    <3> QED BY <2>1, <3>1, <3>3
  <2> QED BY <2>2, <2>3
<1>11. ASSUME NEW x \in Pairs(u) PROVE x \in Pairs(t) \cup put
  <2>1. PICK n \in Name, q \in Entries(u) :
          IsNamed(u, q, n) /\ ~(Found(u, n) /\ q = Where(u, n)) /\ x = <<n, u[q].dir>>
    BY <1>1, PairsAre
  <2>2. CASE q = new
    BY <1>1, <1>5, <2>1, <2>2
  <2>3. CASE q # new
    <3>1. q \in Entries(t) /\ u[q] = t[q] /\ IsNamed(t, q, n)
      BY <1>3, <2>1, <2>3
    <3>2. CASE ~(Found(t, n) /\ q = Where(t, n))
      BY <1>1, <2>1, <3>1, <3>2, PairsAre
    <3>3. CASE Found(t, n) /\ q = Where(t, n)
      <4>1. n \notin taken
        BY <1>6, <2>1, <3>3
      <4>2. Found(u, n) /\ new # 0 /\ Where(u, n) = new
        BY <1>8, <2>1, <3>3, <4>1
      <4>3. IsNamed(u, new, n)
        BY <1>1, <4>2, WhereIs
      <4> QED BY <1>5, <2>1, <3>1, <3>3, <4>2, <4>3
    <3> QED BY <3>2, <3>3
  <2> QED BY <2>2, <2>3
<1>12. ASSUME NEW n \in Name, NEW q \in Entries(u), IsNamed(u, q, n)
       PROVE  <<n, u[q].dir>> \in Pairs(u) \/ Object(u, n) = u[q].dir
  <2>1. CASE Found(u, n) /\ q = Where(u, n)
    BY <1>1, <2>1, ObjectIs
  <2>2. CASE ~(Found(u, n) /\ q = Where(u, n))
    BY <1>1, <1>12, <2>2, PairsAre
  <2> QED BY <2>1, <2>2
<1>13. ASSUME NEW x \in Pairs(t) \cup put
       PROVE  x \in Pairs(u) \/ (x[1] \in Name /\ Object(u, x[1]) = x[2])
  <2>1. CASE x \in put
    <3>1. new # 0
      BY <1>7, <2>1
    <3>2. x = <<m, o>>
      BY <1>5, <2>1, <3>1
    <3>3. x[1] = m /\ x[2] = o
      BY <3>2
    <3>4. <<m, u[new].dir>> \in Pairs(u) \/ Object(u, m) = u[new].dir
      BY <1>2, <1>5, <1>12, <3>1
    <3> QED BY <1>5, <3>1, <3>2, <3>3, <3>4
  <2>2. CASE x \in Pairs(t)
    <3>1. PICK n \in Name, p \in Entries(t) :
            IsNamed(t, p, n) /\ ~(Found(t, n) /\ p = Where(t, n)) /\ x = <<n, t[p].dir>>
      BY <1>1, <2>2, PairsAre
    <3>2. ~(p = old /\ n \in taken)
      BY <1>6, <3>1
    <3>3. p \in Entries(u) /\ u[p] = t[p] /\ IsNamed(u, p, n)
      BY <1>4, <3>1, <3>2
    <3>4. <<n, u[p].dir>> \in Pairs(u) \/ Object(u, n) = u[p].dir
      BY <1>12, <3>3
    <3>5. x[1] = n /\ x[2] = t[p].dir
      BY <3>1
    <3> QED BY <3>1, <3>3, <3>4, <3>5
  <2> QED BY <2>1, <2>2
<1>14. ASSUME NEW x \in put, calm, x[1] \in taken \/ Object(t, x[1]) = Absent
       PROVE  Object(u, x[1]) = x[2]
  <2>1. new # 0
    BY <1>7
  <2>2. x = <<m, o>> /\ x[1] = m /\ x[2] = o
    BY <1>5, <2>1
  <2>3. m \in taken \/ ~Found(t, m)
    BY <1>1, <1>5, <1>14, <2>1, <2>2, ObjectIs
  <2>4. Seen(u, new) /\ Neat(t)
    BY <1>14, <2>1
  <2> DEFINE q == Where(u, m)
  <2>5. Found(u, m) /\ q \in Entries(u) /\ IsNamed(u, q, m) /\ Object(u, m) = u[q].dir
    BY <1>1, <1>2, <1>5, <2>1, <2>4, WhereIs, ObjectIs
  <2> HIDE DEF q
  <2>6. CASE q # new
    <3>1. q \in Entries(t) /\ IsNamed(t, q, m)
      BY <1>3, <1>5, <2>1, <2>5, <2>6
    <3>2. Seen(t, q)
      <4>1. \A y \in DOMAIN t : y <= q => t[y] # End
        <5> SUFFICES ASSUME NEW y \in DOMAIN t, y <= q, t[y] = End PROVE FALSE
          OBVIOUS
        <5>1. t[q] # End /\ q \in DOMAIN t /\ q \in Nat /\ y \in Nat
          BY <1>1, <3>1, TableIs
        <5>2. y < q
          BY <5>1
        <5> QED BY <2>4, <5>1, <5>2 DEF Neat, Packed
      <4> QED BY <4>1 DEF Seen
    <3>3. Found(t, m) /\ m \in taken
      BY <1>1, <1>5, <2>1, <2>3, <3>1, <3>2, WhereIs
    <3>4. old = Where(t, m) /\ old \in Entries(t) /\ IsNamed(t, old, m)
      BY <1>1, <1>5, <1>6, <2>1, <3>3, WhereIs
    <3>5. q = old
      BY <1>5, <2>1, <2>4, <3>1, <3>4 DEF Neat, Single
    <3> QED BY <1>6, <2>5, <3>3, <3>5
  <2> QED BY <1>5, <2>1, <2>2, <2>5, <2>6
<1> QED BY <1>9, <1>10, <1>11, <1>13, <1>14 DEF EditedRow

\* Where no entry has come or gone and none has come to light, all means what it did.
LEMMA NothingIs ==
  ASSUME NEW t, TableType(t), NEW u, TableType(u), Follows(t, u, 0, 0), Hides(t, u)
  PROVE  Row(u) = Row(t) /\ Pairs(u) = Pairs(t)
<1>1. 0 \notin Entries(t) /\ 0 \notin Entries(u)
  BY TableIs
<1>2. /\ Entries(u) = Entries(t)
      /\ \A p \in Entries(t) :
           /\ u[p] = t[p] /\ (Seen(u, p) <=> Seen(t, p))
           /\ \A n \in Name : IsNamed(u, p, n) <=> IsNamed(t, p, n)
  BY <1>1 DEF Follows, Hides
<1>3. ASSUME NEW n \in Name
      PROVE  Hits(u, n) = Hits(t, n) /\ (Found(u, n) <=> Found(t, n)) /\ Where(u, n) = Where(t, n)
  <2>1. Hits(u, n) = Hits(t, n)
    BY <1>2, HitsAre
  <2> QED BY <2>1 DEF Found, Where
<1>4. ASSUME NEW n \in Name PROVE Object(u, n) = Object(t, n)
  <2>1. Found(t, n) => Where(t, n) \in Entries(t)
    BY WhereIs
  <2> QED BY <1>2, <1>3, <2>1 DEF Object
<1>5. Row(u) = Row(t)
  BY <1>4 DEF Row
<1>6. ASSUME NEW x PROVE x \in Pairs(u) <=> x \in Pairs(t)
  BY <1>2, <1>3, PairsAre
<1> QED BY <1>5, <1>6

\* A name that was found is found at the same place, if no entry of that name
\* has come and its own has not gone.
LEMMA Stays ==
  ASSUME NEW t, TableType(t), NEW u, TableType(u), NEW new, NEW old, Follows(t, u, new, old),
         NEW k \in Name, Found(t, k), new # 0 => ~IsNamed(u, new, k), old # Where(t, k)
  PROVE  Found(u, k) /\ Where(u, k) = Where(t, k)
<1> DEFINE p == Where(t, k)
           q == Where(u, k)
<1>1. /\ p \in Entries(t) /\ Seen(t, p) /\ IsNamed(t, p, k) /\ p \in DOMAIN t /\ p \in Nat
      /\ \A x \in Entries(t) : Seen(t, x) /\ IsNamed(t, x, k) => p <= x
  BY WhereIs, TableIs
<1>2. p \in Entries(u) /\ Seen(u, p) /\ IsNamed(u, p, k)
  BY <1>1 DEF Follows
<1>3. Found(u, k) /\ q \in Entries(u) /\ Seen(u, q) /\ IsNamed(u, q, k) /\ q <= p
  BY <1>2, WhereIs
<1>4. q \in Nat /\ q # 0
  BY <1>3, TableIs
<1> HIDE DEF p, q
<1>5. q # new
  BY <1>3, <1>4
<1>6. q \in Entries(t) /\ IsNamed(t, q, k) /\ q \in DOMAIN t
  BY <1>3, <1>5, TableIs DEF Follows
<1>7. Seen(t, q)
  BY <1>1, <1>3, <1>6, SeenBefore
<1>8. p <= q
  BY <1>1, <1>6, <1>7
<1>9. p = q
  BY <1>1, <1>3, <1>4, <1>8
<1> QED BY <1>3, <1>9 DEF p, q

\* Each name still leads to one entry, if a new one takes the place of none or
\* of the one that has gone.
LEMMA SingleKept ==
  ASSUME NEW t, Made(t), Neat(t), NEW u, Made(u), NEW new, NEW old, NEW m, NEW o, NEW put, NEW taken,
         Changed(t, u, new, old, m, o, put, taken), new # 0 /\ Found(t, m) => m \in taken
  PROVE  Single(u)
<1>1. /\ TableType(t) /\ TableType(u)
      /\ \A p \in Entries(t) : p \in DOMAIN t /\ p \in Nat /\ p # 0 /\ t[p] # End
      /\ \A p \in Entries(u) : p \in DOMAIN u /\ p \in Nat /\ p # 0
      /\ DOMAIN t \subseteq Nat
  BY TableIs DEF Made
<1>2. ASSUME NEW q \in Entries(u), q # new
      PROVE  q \in Entries(t) /\ \A n \in Name : IsNamed(u, q, n) => IsNamed(t, q, n)
  BY <1>2 DEF Changed, Follows
<1>3. ASSUME NEW q \in Entries(t) PROVE Seen(t, q)
  <2> SUFFICES ASSUME NEW y \in DOMAIN t, y <= q, t[y] = End PROVE FALSE
    BY DEF Seen
  <2>1. t[q] # End /\ q \in DOMAIN t /\ q \in Nat /\ y \in Nat
    BY <1>1
  <2>2. y < q
    BY <2>1
  <2> QED BY <2>1, <2>2 DEF Neat, Packed
<1>4. ASSUME NEW p \in Entries(u), NEW q \in Entries(u), NEW n \in Name,
             IsNamed(u, p, n), IsNamed(u, q, n), p = new, q # new
      PROVE  FALSE
  <2>1. new # 0
    BY <1>1, <1>4
  <2>2. m \in Name /\ IsNamed(u, new, m)
    BY <2>1 DEF Changed
  <2>3. n = m
    BY <1>4, <2>2 DEF Made
  <2>4. q \in Entries(t) /\ IsNamed(t, q, m) /\ Seen(t, q)
    BY <1>2, <1>3, <1>4, <2>3
  <2>5. Found(t, m)
    BY <1>1, <2>2, <2>4, WhereIs
  <2>6. m \in taken /\ old = Where(t, m) /\ ~(old \in Entries(u) /\ IsNamed(u, old, m))
    BY <2>1, <2>5 DEF Changed
  <2>7. old \in Entries(t) /\ IsNamed(t, old, m)
    BY <1>1, <2>2, <2>5, <2>6, WhereIs
  <2>8. q = old
    BY <2>2, <2>4, <2>7 DEF Neat, Single
  <2> QED BY <1>4, <2>3, <2>6, <2>8
<1>5. ASSUME NEW p \in Entries(u), NEW q \in Entries(u), NEW n \in Name,
             IsNamed(u, p, n), IsNamed(u, q, n), p # new, q # new
      PROVE  p = q
  <2>1. p \in Entries(t) /\ q \in Entries(t) /\ IsNamed(t, p, n) /\ IsNamed(t, q, n)
    BY <1>2, <1>5
  <2> QED BY <2>1 DEF Neat, Single
<1> QED BY <1>4, <1>5 DEF Single

-----------------------------------------------------------------------------
(* Removing an object's entries.                                             *)

\* A set of numbers up to k that is not empty has a greatest one, and Max is it.
LEMMA GreatestNumber ==
  ASSUME NEW k \in Nat, NEW T, T \subseteq 0..k, T # {}
  PROVE  Max(T) \in T /\ \A m \in T : m <= Max(T)
<1> DEFINE S == {k - m : m \in T}
<1>1. S \subseteq Nat /\ S # {}
  <2>1. \A m \in T : m \in 0..k /\ k - m \in Nat
    OBVIOUS
  <2> QED BY <2>1
<1>2. Min(S) \in S /\ \A s \in S : Min(S) <= s
  <2> HIDE DEF S
  <2> QED BY <1>1, LeastNumber
<1>3. PICK x \in T : Min(S) = k - x
  BY <1>2
<1>4. \A m \in T : k - x <= k - m
  BY <1>2, <1>3
<1>5. \A m \in T : x >= m
  BY <1>4
<1>6. Max(T) \in T /\ \A m \in T : Max(T) >= m
  BY <1>5 DEF Max
<1> QED BY <1>6

LEMMA BlockIs ==
  ASSUME NEW t, TableType(t), NEW p \in Entries(t)
  PROVE  Block(t, p) \in 1..p /\ \A r \in Block(t, p)..p-1 : t[r].kind = "long"
<1> DEFINE starts == {q \in 1..p-1 : /\ t[q].kind = "long" /\ t[q].ord = Parts[t[q].name]
                                     /\ \A r \in q..p-1 : t[r].kind = "long"}
<1>1. p \in Nat \ {0}
  BY TableIs
<1>2. CASE starts = {}
  <2>1. Block(t, p) = p
    BY <1>2 DEF Block
  <2> QED BY <1>1, <2>1
<1>3. CASE starts # {}
  <2>1. Block(t, p) = Max(starts)
    BY <1>3 DEF Block
  <2>2. starts \subseteq 0..p
    BY <1>1
  <2>3. Max(starts) \in starts
    <3> HIDE DEF starts
    <3> QED BY <1>1, <1>3, <2>2, GreatestNumber
  <2>4. PICK q \in 1..p-1 : Block(t, p) = q /\ \A r \in q..p-1 : t[r].kind = "long"
    BY <2>1, <2>3
  <2>5. q \in 1..p
    BY <1>1
  <2> QED BY <2>4, <2>5
<1> QED BY <1>2, <1>3

SameEnds(t, u) == Len(u) = Len(t) /\ DOMAIN u = DOMAIN t /\ \A x \in DOMAIN t : u[x] = End <=> t[x] = End

\* dir_remove in w of the entry that n leads to in t, as far as it comes.
LEMMA RemovalIs ==
  ASSUME NEW t, Made(t), NEW w, Made(w), NEW p \in Entries(t), p \in Entries(w), Seen(w, p),
         Longs(t, w), NEW x \in Removals(w, Block(t, p), p)
  PROVE  /\ Made(x.tab) /\ SameEnds(w, x.tab) /\ Follows(w, x.tab, 0, p) /\ Hides(w, x.tab)
         /\ x.ok \in BOOLEAN /\ x.fault \in {0, 1}
         /\ x.ok => p \notin Entries(x.tab)
<1> DEFINE b == Block(t, p)
<1>1. TableType(t) /\ TableType(w) /\ p \in Nat \ {0} /\ DOMAIN t = 1..Len(t) /\ Len(t) \in Nat
      /\ p \in 1..Len(t)
  BY TableIs DEF Made
<1>2. b \in 1..p /\ \A r \in b..p-1 : t[r].kind = "long"
  BY <1>1, BlockIs
<1> HIDE DEF b
<1>3. \A r \in b..p-1 : w[r].kind = "long"
  <2> SUFFICES ASSUME NEW r \in b..p-1 PROVE w[r].kind = "long"
    OBVIOUS
  <2>1. r \in DOMAIN t
    BY <1>1, <1>2
  <2> QED BY <1>2, <2>1 DEF Longs
<1>4. ASSUME NEW q \in b-1 .. p
      PROVE  LET u == Removed(w, b, q) IN
             /\ Made(u) /\ Len(u) = Len(w) /\ DOMAIN u = DOMAIN w
             /\ Follows(w, u, 0, p) /\ Hides(w, u)
             /\ \A y \in DOMAIN w : u[y] = End <=> w[y] = End
             /\ q = p => p \notin Entries(u)
  BY <1>2, <1>3, Remove
<1>5. PICK q \in b-1 .. p : x.tab = Removed(w, b, q) /\ (x.ok => q = p)
                            /\ x.ok \in BOOLEAN /\ x.fault \in {0, 1}
  <2>1. \/ x = [ok |-> TRUE, fault |-> 0, tab |-> Removed(w, b, p)]
        \/ \E q \in b..p : x = [ok |-> FALSE, fault |-> 1, tab |-> Removed(w, b, q - 1)]
    BY DEF Removals, b
  <2>2. p \in b-1 .. p /\ \A q \in b..p : q - 1 \in b-1 .. p
    BY <1>1, <1>2
  <2>3. CASE x = [ok |-> TRUE, fault |-> 0, tab |-> Removed(w, b, p)]
    <3>1. x.tab = Removed(w, b, p) /\ x.ok = TRUE /\ x.fault = 0
      BY <2>3
    <3> QED BY <2>2, <3>1
  <2>4. ASSUME NEW q \in b..p, x = [ok |-> FALSE, fault |-> 1, tab |-> Removed(w, b, q - 1)]
        PROVE  \E z \in b-1 .. p : x.tab = Removed(w, b, z) /\ (x.ok => z = p)
                                 /\ x.ok \in BOOLEAN /\ x.fault \in {0, 1}
    <3>1. x.tab = Removed(w, b, q - 1) /\ x.ok = FALSE /\ x.fault = 1
      BY <2>4
    <3> QED BY <2>2, <3>1
  <2> QED BY <2>1, <2>3, <2>4
<1> QED BY <1>4, <1>5 DEF SameEnds

\* So n is taken, or was left where it is.
LEMMA RemovalChanges ==
  ASSUME NEW t, Made(t), NEW w, Made(w), NEW n \in Name, Found(t, n),
         NEW new, NEW m, NEW o, NEW put, Changed(t, w, new, 0, m, o, put, {}), Longs(t, w),
         NEW x \in Removals(w, Block(t, Where(t, n)), Where(t, n))
  PROVE  /\ Made(x.tab) /\ SameEnds(w, x.tab) /\ x.ok \in BOOLEAN /\ x.fault \in {0, 1}
         /\ x.ok => Where(t, n) \notin Entries(x.tab)
         /\ \E taken \in SUBSET {n} :
              /\ x.ok => taken = {n}
              /\ Changed(t, x.tab, new, Where(t, n), m, o, put, taken)
<1> DEFINE p == Where(t, n)
           v == x.tab
           taken == IF p \in Entries(v) /\ IsNamed(v, p, n) THEN {} ELSE {n}
<1>1. TableType(t) /\ TableType(w)
  BY DEF Made
<1>2. p \in Entries(t) /\ Seen(t, p) /\ IsNamed(t, p, n)
  BY <1>1, WhereIs
<1>3. 0 \notin Entries(t) /\ 0 \notin Entries(w) /\ p # 0
  BY <1>1, <1>2, TableIs
<1>4. Follows(t, w, new, 0)
  BY DEF Changed
<1>5. p \in Entries(w) /\ Seen(w, p)
  BY <1>2, <1>3, <1>4 DEF Follows
<1>6. /\ Made(v) /\ SameEnds(w, v) /\ Follows(w, v, 0, p) /\ Hides(w, v)
      /\ x.ok \in BOOLEAN /\ x.fault \in {0, 1}
      /\ x.ok => p \notin Entries(v)
  BY <1>2, <1>5, RemovalIs
<1>7. 0 \notin Entries(v)
  BY <1>6, TableIs DEF Made
<1> HIDE DEF p, v
<1>8. Follows(t, v, new, p)
  BY <1>2, <1>3, <1>4, <1>6, <1>7, FollowsAll
<1>9. ASSUME new # 0
      PROVE  /\ put = {<<m, o>>} /\ m \in Name /\ v[new].dir = o /\ IsNamed(v, new, m)
             /\ Found(t, m) => t[Where(t, m)].dir = o
  <2>1. /\ put = {<<m, o>>} /\ m \in Name /\ w[new].dir = o /\ IsNamed(w, new, m)
        /\ Found(t, m) => t[Where(t, m)].dir = o
    BY <1>9 DEF Changed
  <2>2. new \in Entries(w) /\ new \notin Entries(t)
    BY <1>4, <1>9 DEF Follows
  <2>3. new \in Entries(v) /\ v[new] = w[new] /\ IsNamed(v, new, m)
    BY <1>2, <1>6, <2>1, <2>2 DEF Follows
  <2> QED BY <2>1, <2>3
<1>10. \A k \in taken : k = n /\ ~(p \in Entries(v) /\ IsNamed(v, p, k))
  OBVIOUS
<1>11. \A k \in Name \ taken : IsNamed(t, p, k) => p \in Entries(v) /\ IsNamed(v, p, k)
  <2> SUFFICES ASSUME NEW k \in Name \ taken, IsNamed(t, p, k)
               PROVE  p \in Entries(v) /\ IsNamed(v, p, k)
    OBVIOUS
  <2>1. k = n
    BY <1>2 DEF Made
  <2> QED BY <2>1
<1>12. x.ok => taken = {n}
  BY <1>6
<1>13. new = 0 => put = {}
  BY DEF Changed
<1>14. taken \in SUBSET {n}
  OBVIOUS
<1> HIDE DEF taken
<1>15. Changed(t, v, new, p, m, o, put, taken)
  <2>1. \A k \in taken : Found(t, k) /\ p = Where(t, k) /\ ~(p \in Entries(v) /\ IsNamed(v, p, k))
    BY <1>10 DEF p
  <2>2. taken \subseteq Name
    BY <1>14
  <2> QED BY <1>8, <1>9, <1>11, <1>13, <2>1, <2>2 DEF Changed
<1> QED BY <1>6, <1>12, <1>14, <1>15 DEF p, v

\* What a registration does to the names.
LEMMA RegisterChanges ==
  ASSUME NEW d, NEW n \in Name, NEW fr, NEW o, NEW r, Registered(d, n, fr, o, r), Made(table[d]),
         Found(table[d], n) => table[d][Where(table[d], n)].dir = o
  PROVE  Changed(table[d], r.tab, IF r.ok THEN r.pos ELSE 0, 0, n, o, IF r.ok THEN {<<n, o>>} ELSE {}, {})
<1> DEFINE t == table[d]
<1>1. 0 \notin Entries(t)
  BY TableIs DEF Made
<1>2. CASE r.ok
  <2>1. r.pos # 0 /\ Follows(t, r.tab, r.pos, 0) /\ r.tab[r.pos].dir = o /\ IsNamed(r.tab, r.pos, n)
    BY <1>2 DEF Registered
  <2> HIDE DEF t
  <2>2. Changed(t, r.tab, r.pos, 0, n, o, {<<n, o>>}, {})
    BY <1>1, <2>1 DEF Changed, t
  <2> QED BY <1>2, <2>2 DEF t
<1>3. CASE ~r.ok
  <2>1. Follows(t, r.tab, 0, 0)
    BY <1>3 DEF Registered
  <2> HIDE DEF t
  <2>2. Changed(t, r.tab, 0, 0, n, o, {}, {})
    BY <1>1, <2>1 DEF Changed
  <2> QED BY <1>3, <2>2 DEF t
<1> QED BY <1>2, <1>3

LEMMA NothingChanges ==
  ASSUME NEW t, Made(t), NEW m, NEW o
  PROVE  Changed(t, t, 0, 0, m, o, {}, {}) /\ Longs(t, t)
<1>1. TableType(t) /\ 0 \notin Entries(t)
  BY TableIs DEF Made
<1> QED BY <1>1, FollowsItself DEF Changed, Longs

\* End marks that stay the same stay last.
LEMMA PackedKept ==
  ASSUME NEW t, NEW u, SameEnds(t, u)
  PROVE  /\ Packed(t) => Packed(u)
         /\ \A i : NoEndBefore(t, i) => NoEndBefore(u, i)
         /\ HeldBy(u) = HeldBy(t)
  BY DEF SameEnds, Packed, NoEndBefore, HeldBy

\* A directory just made has no entries but the two dots.
LEMMA NewTable ==
  LET u == <<Dot, Dot>> \o Cleared(Slots - 2)
  IN  Made(u) /\ Neat(u) /\ Entries(u) = {} /\ HeldBy(u) = 1
<1> DEFINE u == <<Dot, Dot>> \o Cleared(Slots - 2)
           k == Slots - 2
<1>1. k \in Nat /\ 2 + k = Slots /\ 2 + k = Slots * 1 /\ 1 \in 1..MaxClusters
  BY VolumeAssumption
<1>2. /\ Cleared(k) \in Seq(Slot) /\ Len(Cleared(k)) = k
      /\ \A i \in 1..k : Cleared(k)[i] = End
  BY <1>1, Slots_ DEF Cleared
<1>3. /\ <<Dot, Dot>> \in Seq(Slot) /\ Len(<<Dot, Dot>>) = 2
      /\ \A i \in 1..2 : <<Dot, Dot>>[i] = Dot
  BY Slots_
<1>4. u = <<Dot, Dot>> \o Cleared(k)
  OBVIOUS
<1> HIDE DEF u, k
<1>5. /\ u \in Seq(Slot) /\ Len(u) = 2 + k
      /\ \A i \in 1..(2 + k) : u[i] = IF i <= 2 THEN Dot ELSE End
  <2>1. /\ u \in Seq(Slot) /\ Len(u) = 2 + k
        /\ \A i \in 1..(2 + k) : u[i] = IF i <= 2 THEN <<Dot, Dot>>[i] ELSE Cleared(k)[i - 2]
    BY <1>2, <1>3, <1>4, ConcatProperties
  <2>2. \A i \in 1..(2 + k) : (i <= 2 => i \in 1..2) /\ (~(i <= 2) => i - 2 \in 1..k)
    BY <1>1
  <2> QED BY <1>2, <1>3, <2>1, <2>2
<1>6. DOMAIN u = 1..(2 + k)
  BY <1>1, <1>5
<1>7. \A i \in DOMAIN u : u[i].kind \in {"dot", "end"} /\ u[i] # Deleted
  BY <1>5, <1>6, Slots_
<1>8. Entries(u) = {}
  BY <1>7 DEF Entries
<1>9. TableType(u)
  BY <1>1, <1>5 DEF TableType
<1>10. Packed(u)
  <2> SUFFICES ASSUME NEW p \in DOMAIN u, NEW q \in DOMAIN u, u[p] = End, p < q PROVE u[q] = End
    BY DEF Packed
  <2>1. Dot # End
    BY Slots_
  <2>2. ~(q <= 2)
    BY <1>1, <1>5, <1>6, <2>1
  <2> QED BY <1>5, <1>6, <2>2
<1>11. Made(u) /\ Neat(u)
  BY <1>7, <1>8, <1>9, <1>10 DEF Made, Neat, Single
<1>12. HeldBy(u) = 1
  BY <1>1, <1>5, VolumeAssumption DEF HeldBy
<1> QED BY <1>8, <1>11, <1>12 DEF u, k

-----------------------------------------------------------------------------
(* The invariant.                                                            *)

Tables ==
    /\ table = [d \in DOMAIN table |-> table[d]]
    /\ Root \in DOMAIN table /\ DOMAIN table \subseteq DirCluster \cup {Root}
    /\ \A d \in DOMAIN table : Made(table[d]) /\ (d \notin trouble => Neat(table[d]))

\* Directories lie in the root, and each that an entry leads to has a table.
Directories ==
    \A d \in DOMAIN table : \A p \in Entries(table[d]) :
      table[d][p].dir # NoDir => d = Root /\ table[d][p].dir \in DOMAIN table

Counts ==
    /\ free \in Nat /\ volume \in Nat /\ faults \in Nat
    /\ cdir \in DOMAIN table /\ scanned \in {Root, cdir} /\ shortCache \subseteq ShortName

\* dir_alloc starts inside its table, and where no call has failed no end mark
\* lies before that.
StartKnown ==
    lastTable \in DOMAIN table =>
        /\ lastIdx \in DOMAIN table[lastTable]
        /\ lastTable \notin trouble => NoEndBefore(table[lastTable], lastIdx)

Watched ==
    listing # Closed =>
        /\ listing \in [dir : DirCluster \cup {Root}, pos : Nat, watch : Name, due : BOOLEAN]
        /\ listing.dir \in DOMAIN table
        /\ Found(table[listing.dir], listing.watch)
        /\ listing.due <=> listing.pos > 0 /\ Where(table[listing.dir], listing.watch) >= listing.pos

\* The variables of NameSpace are what the tables mean.
Tied == ns = Meaning(table) /\ unseen = Unseen(table) /\ trouble \subseteq DOMAIN table

DirInv == Tables /\ Directories /\ Counts /\ StartKnown /\ Watched /\ Tied

-----------------------------------------------------------------------------
(* What the calls have in common.                                            *)

LEMMA StartIs ==
  ASSUME Tables, StartKnown, NEW d \in DOMAIN table
  PROVE  /\ StartAt(d) \in 1..Len(table[d])
         /\ d \notin trouble => NoEndBefore(table[d], StartAt(d))
<1>1. /\ Len(table[d]) \in Nat \ {0} /\ DOMAIN table[d] = 1..Len(table[d])
  BY TableIs DEF Tables, Made
<1>2. CASE lastTable = d
  BY <1>1, <1>2 DEF StartAt, StartKnown
<1>3. CASE lastTable # d
  <2>1. StartAt(d) = 1
    BY <1>3 DEF StartAt
  <2> QED BY <1>1, <2>1 DEF NoEndBefore
<1> QED BY <1>2, <1>3

\* What dir_register may assume, and what it leaves.
LEMMA RegisterOK ==
  ASSUME DirInv, NEW d \in DOMAIN table, NEW n \in Name, NEW fr \in Nat,
         NEW o \in DirCluster \cup {NoDir}, NEW r \in Registrations(d, n, fr, o)
  PROVE  Registered(d, n, fr, o, r)
<1>1. Made(table[d]) /\ StartAt(d) \in 1..Len(table[d])
  BY StartIs DEF DirInv, Tables
<1> QED BY <1>1, RegisterIs

\* In a directory where no call has failed, a name that was registered is seen.
LEMMA RegisterNeat ==
  ASSUME DirInv, NEW d \in DOMAIN table, d \notin trouble, NEW n, NEW fr, NEW o, NEW r,
         Registered(d, n, fr, o, r), r.ok
  PROVE  /\ Neat(table[d]) /\ Packed(r.tab) /\ r.pos \in Entries(r.tab) /\ Seen(r.tab, r.pos)
         /\ NoEndBefore(r.tab, r.pos) /\ NoEndBefore(r.tab, r.pos + 1)
<1>1. Neat(table[d]) /\ NoEndBefore(table[d], StartAt(d))
  BY StartIs DEF DirInv, Tables
<1>2. Packed(r.tab) /\ NoEndBefore(r.tab, r.pos + 1)
  BY <1>1 DEF Registered, Neat
<1>3. r.pos \in Entries(r.tab) /\ Made(r.tab)
  BY DEF Registered, Follows
<1>4. r.pos \in Nat /\ DOMAIN r.tab \subseteq Nat
  BY <1>3, TableIs DEF Made
<1>5. \A q \in DOMAIN r.tab : q <= r.pos => r.tab[q] # End
  BY <1>2, <1>4 DEF NoEndBefore
<1> QED BY <1>1, <1>2, <1>3, <1>4, <1>5 DEF Seen, NoEndBefore

\* What an answer does to the directories calls have failed in.
LEMMA TroubleIs ==
  ASSUME NEW call, NEW on, NEW dirs, NEW ok \in BOOLEAN, Answers(call, on, dirs, ok)
  PROVE  /\ trouble' \subseteq DOMAIN table'
         /\ \A f \in DOMAIN table' \ trouble' : f \notin trouble /\ (f \in dirs => ok)
  BY DEF Answers

\* Where dir_alloc starts after a name was registered in d.
LEMMA StartAfter ==
  ASSUME DirInv, NEW d \in DOMAIN table, NEW n, NEW fr, NEW o, NEW r,
         Registered(d, n, fr, o, r), Caches(r, d),
         d \in DOMAIN table', SameEnds(r.tab, table'[d]),
         d \notin trouble' => d \notin trouble /\ r.ok,
         r.pos = 0 => DOMAIN table' \subseteq DOMAIN table,
         \A f \in DOMAIN table' : f \in DOMAIN table /\ f # d =>
           SameEnds(table[f], table'[f]) /\ (f \notin trouble' => f \notin trouble)
  PROVE  StartKnown'
<1> DEFINE u == table'[d]
<1>0. SameEnds(r.tab, u) /\ Made(r.tab)
  BY DEF Registered
<1>1. CASE r.pos = 0
  <2>1. lastTable' = lastTable /\ lastIdx' = lastIdx
    BY <1>1 DEF Caches
  <2>2. r.tab = table[d] /\ ~r.ok
    BY <1>1 DEF Registered
  <2>3. ASSUME lastTable \in DOMAIN table'
        PROVE  /\ lastIdx \in DOMAIN table'[lastTable]
               /\ lastTable \notin trouble' => NoEndBefore(table'[lastTable], lastIdx)
    <3>1. lastTable \in DOMAIN table
      BY <1>1, <2>3
    <3>2. SameEnds(table[lastTable], table'[lastTable])
      BY <1>0, <2>2, <2>3, <3>1
    <3>3. lastTable \notin trouble' => lastTable \notin trouble
      BY <2>3, <3>1
    <3>4. /\ lastIdx \in DOMAIN table[lastTable]
          /\ lastTable \notin trouble => NoEndBefore(table[lastTable], lastIdx)
      BY <3>1 DEF DirInv, StartKnown
    <3>5. NoEndBefore(table[lastTable], lastIdx) => NoEndBefore(table'[lastTable], lastIdx)
      BY <3>2, PackedKept
    <3>6. DOMAIN table'[lastTable] = DOMAIN table[lastTable]
      BY <3>2 DEF SameEnds
    <3> QED BY <3>3, <3>4, <3>5, <3>6
  <2> QED BY <2>1, <2>3 DEF StartKnown
<1>2. CASE r.pos # 0
  <2>1. lastTable' = d /\ lastIdx' \in {r.pos, 1}
    BY <1>2 DEF Caches, Remember
  <2>2. r.pos \in DOMAIN r.tab
    BY <1>2 DEF Registered
  <2>3. Len(r.tab) \in Nat \ {0} /\ DOMAIN r.tab = 1..Len(r.tab)
    BY <1>0, TableIs DEF Made
  <2>4. 1 \in DOMAIN r.tab /\ NoEndBefore(r.tab, 1)
    BY <2>3 DEF NoEndBefore
  <2>5. d \notin trouble' => NoEndBefore(r.tab, r.pos)
    BY RegisterNeat
  <2>6. lastIdx' \in DOMAIN r.tab /\ (d \notin trouble' => NoEndBefore(r.tab, lastIdx'))
    BY <2>1, <2>2, <2>4, <2>5
  <2>7. DOMAIN u = DOMAIN r.tab /\ (NoEndBefore(r.tab, lastIdx') => NoEndBefore(u, lastIdx'))
    BY <1>0, PackedKept DEF SameEnds
  <2> QED BY <2>1, <2>6, <2>7 DEF StartKnown
<1> QED BY <1>1, <1>2

\* A listing goes on if its name is where it was.
LEMMA WatchedKept ==
  ASSUME DirInv,
         \/ listing' = Closed
         \/ /\ listing' = listing
            /\ listing # Closed =>
                 /\ listing.dir \in DOMAIN table'
                 /\ Found(table'[listing.dir], listing.watch)
                 /\ Where(table'[listing.dir], listing.watch) = Where(table[listing.dir], listing.watch)
  PROVE  Watched'
<1>1. CASE listing' = Closed
  BY <1>1 DEF Watched
<1>2. CASE listing' # Closed
  <2>1. listing # Closed /\ listing' = listing
    BY <1>2
  <2> QED BY <2>1 DEF DirInv, Watched
<1> QED BY <1>1, <1>2

\* The rows of NameSpace.
LEMMA RowsAre ==
  ASSUME NEW tab
  PROVE  /\ DOMAIN Meaning(tab) = DOMAIN tab /\ DOMAIN Unseen(tab) = DOMAIN tab
         /\ \A d \in DOMAIN tab : Meaning(tab)[d] = Row(tab[d]) /\ Unseen(tab)[d] = Pairs(tab[d])
         /\ \A d \in DOMAIN tab, n \in Name : Meaning(tab)[d][n] = Object(tab[d], n)
  BY DEF Meaning, Unseen, Row, Pairs

LEMMA EditedIs ==
  ASSUME Tied, Tied', NEW d \in DOMAIN table, d \in DOMAIN table', NEW put, NEW taken,
         \A x \in put : x[1] \in Name, taken \subseteq Name,
         EditedRow(table[d], table'[d], put, taken, d \notin trouble)
  PROVE  NS!Edited(d, put, taken)
<1> DEFINE t == table[d]
           u == table'[d]
<1>1. /\ unseen[d] = Pairs(t) /\ unseen'[d] = Pairs(u)
      /\ \A n \in Name : ns[d][n] = Object(t, n) /\ ns'[d][n] = Object(u, n)
  BY RowsAre DEF Tied
<1>2. EditedRow(t, u, put, taken, d \notin trouble)
  OBVIOUS
<1> HIDE DEF t, u
<1> DEFINE pool == unseen[d] \cup put
<1>3. \A n \in Name \ taken : ns[d][n] # Absent => ns'[d][n] = ns[d][n]
  BY <1>1, <1>2 DEF EditedRow
<1>4. \A n \in Name : n \in taken \/ ns[d][n] = Absent =>
        ns'[d][n] = Absent \/ <<n, ns'[d][n]>> \in pool
  BY <1>1, <1>2 DEF EditedRow
<1>5. unseen'[d] \subseteq pool
  BY <1>1, <1>2 DEF EditedRow
<1>6. \A x \in pool : x \in unseen'[d] \/ ns'[d][x[1]] = x[2]
  BY <1>1, <1>2 DEF EditedRow
<1>7. \A x \in put : d \notin trouble /\ (x[1] \in taken \/ ns[d][x[1]] = Absent) => ns'[d][x[1]] = x[2]
  BY <1>1, <1>2 DEF EditedRow
<1> QED BY <1>3, <1>4, <1>5, <1>6, <1>7 DEF NS!Edited

LEMMA SameIs ==
  ASSUME Tied, Tied', NEW d \in DOMAIN table, d \in DOMAIN table',
         Row(table'[d]) = Row(table[d]), Pairs(table'[d]) = Pairs(table[d])
  PROVE  NS!Same(d)
  BY RowsAre DEF Tied, NS!Same

\* Where no row changes, nothing does.
LEMMA NothingHappens ==
  ASSUME Tied, Tied', DOMAIN table' = DOMAIN table,
         \A d \in DOMAIN table : Row(table'[d]) = Row(table[d]) /\ Pairs(table'[d]) = Pairs(table[d])
  PROVE  NS!Nothing
<1>1. Meaning(table') = Meaning(table)
  BY DEF Meaning, Row
<1>2. Unseen(table') = Unseen(table)
  BY DEF Unseen, Pairs
<1> QED BY <1>1, <1>2 DEF Tied, NS!Nothing

LEMMA AnsweredIs ==
  ASSUME Tied', NEW call, NEW on, NEW dirs, NEW ok, Answers(call, on, dirs, ok)
  PROVE  NS!Answered(call, on, dirs, ok)
<1>1. DOMAIN ns' = DOMAIN table'
  BY RowsAre DEF Tied
<1> QED BY <1>1 DEF Answers, NS!Answered

LEMMA DirectoriesAre ==
  ASSUME Tied, Tied'
  PROVE  DOMAIN ns = DOMAIN table /\ NS!Directories(DOMAIN table')
  BY RowsAre DEF Tied, NS!Directories

\* The charge for refused accesses.
LEMMA Charged ==
  ASSUME faults \in Nat, NEW k \in Nat, Charge(k)
  PROVE  faults' \in Nat
  BY DEF Charge

\* The entries that lead to directories, after a change of one table.
LEMMA DirectoriesKept ==
  ASSUME Directories,
         \A f \in DOMAIN table' :
           \/ Entries(table'[f]) = {}
           \/ /\ f \in DOMAIN table
              /\ \A p \in Entries(table'[f]) :
                   \/ p \in Entries(table[f]) /\ table'[f][p] = table[f][p]
                      /\ (table[f][p].dir \in DOMAIN table => table[f][p].dir \in DOMAIN table')
                   \/ table'[f][p].dir # NoDir => f = Root /\ table'[f][p].dir \in DOMAIN table'
  PROVE  Directories'
<1> SUFFICES ASSUME NEW f \in DOMAIN table', NEW p \in Entries(table'[f]), table'[f][p].dir # NoDir
             PROVE  f = Root /\ table'[f][p].dir \in DOMAIN table'
  BY DEF Directories, Entries
<1> QED BY DEF Directories

-----------------------------------------------------------------------------
(* The calls.                                                                *)

\* Registering a name n for the object o in d: what it means.
LEMMA RegisterMeans ==
  ASSUME DirInv, Tied', NEW d \in DOMAIN table, d \in DOMAIN table', NEW n \in Name, NEW fr,
         NEW o, NEW r, Registered(d, n, fr, o, r), table'[d] = r.tab,
         Found(table[d], n) => table[d][Where(table[d], n)].dir = o
  PROVE  /\ r.ok => NS!Edited(d, {<<n, o>>}, {})
         /\ ~r.ok => Row(table'[d]) = Row(table[d]) /\ Pairs(table'[d]) = Pairs(table[d])
<1> DEFINE t == table[d]
           u == r.tab
<1>1. Made(t) /\ Made(u) /\ TableType(t) /\ TableType(u) /\ Tied
  BY DEF DirInv, Tables, Registered, Made
<1>2. Changed(t, u, IF r.ok THEN r.pos ELSE 0, 0, n, o, IF r.ok THEN {<<n, o>>} ELSE {}, {})
  BY <1>1, RegisterChanges
<1>3. ASSUME r.ok PROVE NS!Edited(d, {<<n, o>>}, {})
  <2>1. Changed(t, u, r.pos, 0, n, o, {<<n, o>>}, {})
    BY <1>2, <1>3
  <2>2. d \notin trouble => Neat(t) /\ (r.pos # 0 => Seen(u, r.pos))
    BY <1>3, RegisterNeat
  <2> DEFINE calm == d \notin trouble
  <2>3. calm => Neat(t) /\ (r.pos # 0 => Seen(u, r.pos))
    BY <2>2
  <2> HIDE DEF t, u, calm
  <2>4. EditedRow(t, u, {<<n, o>>}, {}, calm)
    BY <1>1, <2>1, <2>3, EditIs
  <2>5. \A x \in {<<n, o>>} : x[1] \in Name
    OBVIOUS
  <2>6. EditedRow(table[d], table'[d], {<<n, o>>}, {}, d \notin trouble)
    BY <2>4 DEF t, u, calm
  <2> QED BY <1>1, <2>5, <2>6, EditedIs
<1>4. ASSUME ~r.ok PROVE Row(table'[d]) = Row(table[d]) /\ Pairs(table'[d]) = Pairs(table[d])
  <2>1. Follows(t, u, 0, 0) /\ Hides(t, u)
    BY <1>4 DEF Registered
  <2> HIDE DEF t, u
  <2>2. Row(u) = Row(t) /\ Pairs(u) = Pairs(t)
    BY <1>1, <2>1, NothingIs
  <2> QED BY <2>2 DEF t, u
<1> QED BY <1>3, <1>4

\* The entries there are after it.
LEMMA RegisteredEntries ==
  ASSUME NEW d, NEW n, NEW fr, NEW o, NEW r, Registered(d, n, fr, o, r), NEW p \in Entries(r.tab)
  PROVE  \/ p \in Entries(table[d]) /\ r.tab[p] = table[d][p]
         \/ r.ok /\ r.tab[p].dir = o
<1>1. p # 0
  BY TableIs DEF Registered, Made
<1>2. CASE r.ok
  <2>1. Follows(table[d], r.tab, r.pos, 0) /\ r.tab[r.pos].dir = o
    BY <1>2 DEF Registered
  <2> QED BY <1>2, <2>1 DEF Follows
<1>3. CASE ~r.ok
  <2>1. Follows(table[d], r.tab, 0, 0)
    BY <1>3 DEF Registered
  <2> QED BY <1>1, <2>1 DEF Follows
<1> QED BY <1>2, <1>3

\* A name other than the one registered leads where it led.
LEMMA RegisterStays ==
  ASSUME NEW d, Made(table[d]), NEW n \in Name, NEW fr, NEW o, NEW r, Registered(d, n, fr, o, r),
         NEW k \in Name, Found(table[d], k), r.ok => k # n
  PROVE  Found(r.tab, k) /\ Where(r.tab, k) = Where(table[d], k)
<1> DEFINE t == table[d]
           u == r.tab
           new == IF r.ok THEN r.pos ELSE 0
<1>1. Made(t) /\ TableType(t) /\ Made(u) /\ TableType(u) /\ Found(t, k)
  BY DEF Registered, Made
<1>2. Follows(t, u, new, 0) /\ (new # 0 => r.ok /\ IsNamed(u, new, n))
  BY DEF Registered
<1>3. 0 # Where(t, k)
  <2> HIDE DEF t
  <2> QED BY <1>1, WhereIs, TableIs
<1> HIDE DEF t, u, new
<1>4. new # 0 => ~IsNamed(u, new, k)
  <2> SUFFICES ASSUME new # 0, IsNamed(u, new, k) PROVE FALSE
    OBVIOUS
  <2>1. IsNamed(u, new, n) /\ new \in Entries(u) /\ k # n
    BY <1>2 DEF Follows
  <2> QED BY <1>1, <2>1 DEF Made
<1>5. Found(u, k) /\ Where(u, k) = Where(t, k)
  BY <1>1, <1>2, <1>3, <1>4, Stays
<1> QED BY <1>5 DEF t, u

\* Registering a name that is not there, where no call has failed.
LEMMA RegisterNeatly ==
  ASSUME DirInv, NEW d \in DOMAIN table, d \notin trouble, NEW n \in Name, NEW fr, NEW o, NEW r,
         Registered(d, n, fr, o, r), r.ok, ~Found(table[d], n)
  PROVE  Neat(r.tab)
<1> DEFINE t == table[d]
           u == r.tab
<1>1. Made(t) /\ Made(u) /\ Neat(t) /\ Packed(u)
  BY RegisterNeat DEF DirInv, Tables, Registered
<1>2. Changed(t, u, r.pos, 0, n, o, {<<n, o>>}, {}) /\ ~Found(t, n)
  <2>1. Changed(t, u, IF r.ok THEN r.pos ELSE 0, 0, n, o, IF r.ok THEN {<<n, o>>} ELSE {}, {})
    BY <1>1, RegisterChanges
  <2> QED BY <2>1
<1> HIDE DEF t, u
<1>3. Single(u)
  BY <1>1, <1>2, SingleKept
<1>4. Neat(u)
  BY <1>1, <1>3 DEF Neat
<1> QED BY <1>4 DEF u

\* A table that is left alone means what it meant.
LEMMA Elsewhere ==
  ASSUME Tied, Tied', NEW f \in DOMAIN table, f \in DOMAIN table', table'[f] = table[f]
  PROVE  NS!Same(f)
<1>1. Row(table'[f]) = Row(table[f]) /\ Pairs(table'[f]) = Pairs(table[f])
  OBVIOUS
<1> QED BY <1>1, SameIs

\* A name that could not be registered means nothing.
LEMMA RegisterFails ==
  ASSUME DirInv, Tied', NEW d \in DOMAIN table, DOMAIN table' = DOMAIN table, NEW n \in Name, NEW fr,
         NEW o, NEW r, Registered(d, n, fr, o, r), ~r.ok, table'[d] = r.tab,
         \A f \in DOMAIN table : f # d => table'[f] = table[f],
         Found(table[d], n) => table[d][Where(table[d], n)].dir = o
  PROVE  NS!Nothing
<1>1. Row(table'[d]) = Row(table[d]) /\ Pairs(table'[d]) = Pairs(table[d])
  BY RegisterMeans
<1>2. \A f \in DOMAIN table : Row(table'[f]) = Row(table[f]) /\ Pairs(table'[f]) = Pairs(table[f])
  <2> SUFFICES ASSUME NEW f \in DOMAIN table
               PROVE  Row(table'[f]) = Row(table[f]) /\ Pairs(table'[f]) = Pairs(table[f])
    OBVIOUS
  <2>1. CASE f = d
    BY <1>1, <2>1
  <2>2. CASE f # d
    <3>1. table'[f] = table[f]
      BY <2>2
    <3> QED BY <3>1
  <2> QED BY <2>1, <2>2
<1> QED BY <1>2, NothingHappens DEF DirInv

LEMMA OpenStep ==
  ASSUME DirInv, NEW d \in DOMAIN table, NEW n \in Name, OpenNew(d, n),
         ns' = Meaning(table'), unseen' = Unseen(table')
  PROVE  DirInv' /\ \E ok \in BOOLEAN : NS!CreateFile(d, n, ok)
<1>0. Tables /\ Directories /\ Counts /\ Tied
  BY DEF DirInv
<1>1. PICK r \in Registrations(d, n, free, NoDir) :
        /\ Charge(r.fault)
        /\ table' = [table EXCEPT ![d] = r.tab]
        /\ free' = r.free
        /\ Caches(r, d)
        /\ Answers("create", <<d, n>>, {d}, r.ok)
  BY DEF OpenNew
<1>2. ~Found(table[d], n) /\ UNCHANGED <<volume, cdir, scanned, listing>>
  BY DEF OpenNew
<1>3. Registered(d, n, free, NoDir, r)
  BY <1>0, RegisterOK DEF Counts
<1>4. /\ DOMAIN table' = DOMAIN table /\ table'[d] = r.tab
      /\ \A e \in DOMAIN table : e # d => table'[e] = table[e]
      /\ table' = [e \in DOMAIN table' |-> table'[e]]
  BY <1>0, <1>1 DEF Tables
<1>5. /\ r.ok \in BOOLEAN /\ r.fault \in {0, 1} /\ r.free \in 0..free /\ r.short \subseteq ShortName
      /\ Made(r.tab) /\ Made(table[d])
  BY <1>0, <1>3 DEF Registered, Tables
<1>6. /\ trouble' \subseteq DOMAIN table'
      /\ \A f \in DOMAIN table' \ trouble' : f \notin trouble /\ (f = d => r.ok)
  BY <1>1, <1>5, TroubleIs
<1>7. Tied'
  BY <1>6 DEF Tied
<1>9. Tables'
  <2>1. ASSUME NEW f \in DOMAIN table' PROVE Made(table'[f]) /\ (f \notin trouble' => Neat(table'[f]))
    <3>1. CASE f # d
      BY <1>0, <1>4, <1>6, <3>1 DEF Tables
    <3>2. CASE f = d
      <4>1. ASSUME d \notin trouble' PROVE Neat(r.tab)
        <5>1. d \notin trouble /\ r.ok
          BY <1>4, <1>6, <4>1
        <5> QED BY <1>2, <1>3, <5>1, RegisterNeatly
      <4> QED BY <1>4, <1>5, <3>2, <4>1
    <3> QED BY <3>1, <3>2
  <2> QED BY <1>0, <1>4, <2>1 DEF Tables
<1>10. Directories'
  <2>1. ASSUME NEW p \in Entries(r.tab)
        PROVE  (p \in Entries(table[d]) /\ r.tab[p] = table[d][p]) \/ r.tab[p].dir = NoDir
    BY <1>3, RegisteredEntries
  <2> QED BY <1>0, <1>4, <2>1, DirectoriesKept
<1>11. Counts'
  <2>1. faults' \in Nat /\ shortCache' = shortCache \cup r.short
    BY <1>0, <1>1, <1>5, Charged DEF Counts, Caches
  <2>2. free' \in Nat
    BY <1>0, <1>1, <1>5 DEF Counts
  <2> QED BY <1>0, <1>2, <1>4, <1>5, <2>1, <2>2 DEF Counts
<1>12. StartKnown'
  <2>1. SameEnds(r.tab, table'[d]) /\ \A f \in DOMAIN table : f # d => SameEnds(table[f], table'[f])
    BY <1>4 DEF SameEnds
  <2> QED BY <1>1, <1>3, <1>4, <1>6, <2>1, StartAfter
<1>13. Watched'
  <2>1. ASSUME listing # Closed
        PROVE  LET e == listing.dir IN
               /\ e \in DOMAIN table' /\ Found(table'[e], listing.watch)
               /\ Where(table'[e], listing.watch) = Where(table[e], listing.watch)
    <3> DEFINE e == listing.dir
               k == listing.watch
    <3>1. e \in DOMAIN table /\ k \in Name /\ Found(table[e], k)
      BY <2>1 DEF DirInv, Watched
    <3>2. CASE e # d
      BY <1>4, <3>1, <3>2
    <3>3. CASE e = d
      <4>1. k # n
        BY <1>2, <3>1, <3>3
      <4> HIDE DEF e, k
      <4>2. Found(r.tab, k) /\ Where(r.tab, k) = Where(table[d], k)
        BY <1>3, <1>5, <3>1, <3>3, <4>1, RegisterStays
      <4> QED BY <1>4, <3>3, <4>2 DEF e, k
    <3> QED BY <3>2, <3>3
  <2> QED BY <1>2, <2>1, WatchedKept
<1>14. DirInv'
  BY <1>7, <1>9, <1>10, <1>11, <1>12, <1>13 DEF DirInv
<1>15. NS!CreateFile(d, n, r.ok)
  <2>1. NS!Answered("create", <<d, n>>, {d}, r.ok)
    BY <1>1, <1>7, AnsweredIs
  <2>2. ns[d][n] = Absent
    <3>1. Object(table[d], n) = Absent
      BY <1>2 DEF Object
    <3> QED BY <1>0, <3>1, RowsAre DEF Tied
  <2>3. \A f \in DOMAIN table \ {d} : NS!Same(f)
    BY <1>0, <1>4, <1>7, Elsewhere
  <2>4. DOMAIN ns = DOMAIN table /\ NS!Directories(DOMAIN ns)
    BY <1>0, <1>4, <1>7, DirectoriesAre
  <2>5. CASE r.ok
    <3>1. NS!Edited(d, {<<n, NoDir>>}, {})
      BY <1>2, <1>3, <1>4, <1>7, <2>5, RegisterMeans
    <3> QED BY <2>1, <2>2, <2>3, <2>4, <2>5, <3>1 DEF NS!CreateFile
  <2>6. CASE ~r.ok
    <3>1. NS!Nothing
      BY <1>2, <1>3, <1>4, <1>7, <2>6, RegisterFails
    <3> QED BY <2>1, <2>2, <2>6, <3>1 DEF NS!CreateFile
  <2> QED BY <2>5, <2>6
<1> QED BY <1>5, <1>14, <1>15

\* What a removal of the name n in d means, the other entries being as before.
LEMMA RemovalMeans ==
  ASSUME DirInv, Tied', NEW d \in DOMAIN table, d \in DOMAIN table', NEW n \in Name,
         NEW u, Made(u), table'[d] = u, NEW taken \in SUBSET {n},
         Changed(table[d], u, 0, Where(table[d], n), n, NoDir, {}, taken)
  PROVE  NS!Edited(d, {}, taken)
<1> DEFINE t == table[d]
           calm == d \notin trouble
           p == Where(t, n)
<1>1. Made(t) /\ (calm => Neat(t)) /\ Tied
  BY DEF DirInv, Tables
<1>2. Changed(t, u, 0, p, n, NoDir, {}, taken)
  OBVIOUS
<1> HIDE DEF t, calm, p
<1>3. EditedRow(t, u, {}, taken, calm)
  BY <1>1, <1>2, EditIs
<1>4. EditedRow(table[d], table'[d], {}, taken, d \notin trouble)
  BY <1>3 DEF t, calm
<1>5. taken \subseteq Name
  OBVIOUS
<1> QED BY <1>1, <1>4, <1>5, EditedIs

\* After a removal that went well, where no call has failed.
LEMMA RemovalNeat ==
  ASSUME NEW t, Made(t), Neat(t), NEW u, Made(u), SameEnds(t, u), NEW n, NEW taken,
         Changed(t, u, 0, Where(t, n), n, NoDir, {}, taken)
  PROVE  Neat(u)
<1>1. Packed(u)
  BY PackedKept DEF Neat
<1>2. Single(u)
  <2> DEFINE p == Where(t, n)
  <2>1. Changed(t, u, 0, p, n, NoDir, {}, taken)
    OBVIOUS
  <2> HIDE DEF p
  <2>2. 0 # 0 /\ Found(t, n) => n \in taken
    OBVIOUS
  <2> QED BY <2>1, <2>2, SingleKept
<1> QED BY <1>1, <1>2 DEF Neat

\* A listing's name stays, unless it is the one removed.
LEMMA RemovalStays ==
  ASSUME NEW t, Made(t), NEW u, Made(u), NEW new, NEW n \in Name, NEW m, NEW o, NEW put, NEW taken,
         Found(t, n), Changed(t, u, new, Where(t, n), m, o, put, taken),
         NEW k \in Name, Found(t, k), k # n, new # 0 => k # m
  PROVE  Found(u, k) /\ Where(u, k) = Where(t, k)
<1>1. TableType(t) /\ TableType(u)
  BY DEF Made
<1>2. Where(t, n) # Where(t, k)
  <2>1. /\ Where(t, n) \in Entries(t) /\ IsNamed(t, Where(t, n), n)
        /\ Where(t, k) \in Entries(t) /\ IsNamed(t, Where(t, k), k)
    BY <1>1, WhereIs
  <2>2. t[Where(t, n)].for = n /\ t[Where(t, k)].for = k
    BY <2>1 DEF Made
  <2> QED BY <2>2
<1>3. Follows(t, u, new, Where(t, n))
  BY DEF Changed
<1>4. new # 0 => ~IsNamed(u, new, k)
  <2> SUFFICES ASSUME new # 0, IsNamed(u, new, k) PROVE FALSE
    OBVIOUS
  <2>1. new \in Entries(u) /\ m \in Name /\ IsNamed(u, new, m)
    BY <1>3 DEF Changed, Follows
  <2>2. u[new].for = k /\ u[new].for = m
    BY <2>1 DEF Made
  <2> QED BY <2>2
<1> DEFINE old == Where(t, n)
<1> HIDE DEF old
<1>5. Follows(t, u, new, old) /\ old # Where(t, k)
  BY <1>2, <1>3 DEF old
<1> QED BY <1>1, <1>4, <1>5, Stays

LEMMA UnlinkStep ==
  ASSUME DirInv, NEW d \in DOMAIN table, NEW n \in Name, Unlink(d, n),
         ns' = Meaning(table'), unseen' = Unseen(table')
  PROVE  DirInv' /\ \E ok \in BOOLEAN : NS!Remove(d, n, ok)
<1> DEFINE t == table[d]
           p == Where(t, n)
           c == t[p].dir
<1>0. Tables /\ Directories /\ Counts /\ StartKnown /\ Tied
  BY DEF DirInv
<1>a. PICK x \in Removals(t, Block(t, p), p) : \E f \in Synced(x.ok) :
        /\ Charge(x.fault + f)
        /\ free' = IF x.ok THEN free + Chain(c) ELSE free
        /\ table' = [e \in DOMAIN table \ (IF x.ok THEN {c} ELSE {}) |->
                       IF e = d THEN x.tab ELSE table[e]]
        /\ Answers("remove", <<d, n>>, {d}, x.ok /\ f = 0)
  BY DEF Unlink
<1>1. PICK f \in Synced(x.ok) :
        /\ Charge(x.fault + f)
        /\ free' = IF x.ok THEN free + Chain(c) ELSE free
        /\ table' = [e \in DOMAIN table \ (IF x.ok THEN {c} ELSE {}) |->
                       IF e = d THEN x.tab ELSE table[e]]
        /\ Answers("remove", <<d, n>>, {d}, x.ok /\ f = 0)
  BY <1>a
<1>2. /\ Found(t, n) /\ Forget(d, n)
      /\ UNCHANGED <<volume, cdir, scanned, shortCache, lastTable, lastIdx>>
      /\ c # NoDir =>
           /\ c \notin {cdir, listing.dir} /\ OneEntry(c)
           /\ \A q \in BeforeEnd(table[c]) : table[c][q].kind # "short"
  BY DEF Unlink
<1>3. Made(t) /\ TableType(t) /\ (d \notin trouble => Neat(t))
  BY <1>0 DEF Tables, Made
<1>4. /\ Made(x.tab) /\ SameEnds(t, x.tab) /\ x.ok \in BOOLEAN /\ x.fault \in {0, 1}
      /\ x.ok => p \notin Entries(x.tab)
      /\ \E taken \in SUBSET {n} :
           /\ x.ok => taken = {n}
           /\ Changed(t, x.tab, 0, p, n, NoDir, {}, taken)
  <2> HIDE DEF t
  <2>1. Changed(t, t, 0, 0, n, NoDir, {}, {}) /\ Longs(t, t)
    BY <1>3, NothingChanges
  <2> QED BY <1>2, <1>3, <2>1, RemovalChanges
<1>5. PICK taken \in SUBSET {n} :
        (x.ok => taken = {n}) /\ Changed(t, x.tab, 0, p, n, NoDir, {}, taken)
  BY <1>4
<1>6. p \in Entries(t) /\ c \in DirCluster \cup {NoDir} /\ Object(t, n) = c /\ c # Absent
  <2> HIDE DEF t
  <2>1. p \in Entries(t) /\ Object(t, n) = t[p].dir /\ Object(t, n) # Absent
    BY <1>2, <1>3, WhereIs, ObjectIs
  <2>2. t[p].dir \in DirCluster \cup {NoDir}
    BY <1>3, <2>1, TableIs, Slots_
  <2> QED BY <2>1, <2>2
<1>7. c # NoDir => d = Root /\ c \in DOMAIN table
  BY <1>0, <1>6 DEF Directories
<1>8. c # Root /\ c # d /\ NoDir \notin DOMAIN table
  <2>1. c # Root /\ NoDir \notin DOMAIN table
    BY <1>0, <1>6, VolumeAssumption DEF Tables
  <2> QED BY <1>7, <2>1
<1> DEFINE gone == IF x.ok THEN {c} ELSE {}
<1>9. /\ DOMAIN table' = DOMAIN table \ gone /\ d \in DOMAIN table' /\ table'[d] = x.tab
      /\ \A e \in DOMAIN table' : e \in DOMAIN table /\ (e # d => table'[e] = table[e])
      /\ table' = [e \in DOMAIN table' |-> table'[e]]
  BY <1>1, <1>8
<1>10. f \in {0, 1} /\ (~x.ok => f = 0)
  BY <1>4 DEF Synced
<1> DEFINE ok == x.ok /\ f = 0
<1>11. ok \in BOOLEAN /\ (ok => x.ok)
  BY <1>4
<1>12. /\ trouble' \subseteq DOMAIN table'
       /\ \A e \in DOMAIN table' \ trouble' : e \notin trouble /\ (e = d => ok)
  <2>1. Answers("remove", <<d, n>>, {d}, ok)
    BY <1>1
  <2> HIDE DEF ok
  <2> QED BY <1>11, <2>1, TroubleIs
<1>13. Tied'
  BY <1>12 DEF Tied
<1> HIDE DEF ok
<1>14. Tables'
  <2>1. ASSUME NEW e \in DOMAIN table' PROVE Made(table'[e]) /\ (e \notin trouble' => Neat(table'[e]))
    <3>1. CASE e # d
      BY <1>0, <1>9, <1>12, <3>1 DEF Tables
    <3>2. CASE e = d
      <4>1. ASSUME d \notin trouble' PROVE Neat(x.tab)
        <5>1. d \notin trouble
          BY <1>9, <1>12, <4>1
        <5> HIDE DEF t, p
        <5> QED BY <1>3, <1>4, <1>5, <5>1, RemovalNeat DEF p
      <4> QED BY <1>4, <1>9, <3>2, <4>1
    <3> QED BY <3>1, <3>2
  <2>2. Root \in DOMAIN table'
    BY <1>0, <1>8, <1>9 DEF Tables
  <2> QED BY <1>0, <1>9, <2>1, <2>2 DEF Tables
<1>15. Directories'
  <2>1. ASSUME NEW q \in Entries(x.tab)
        PROVE  q \in Entries(t) /\ x.tab[q] = t[q]
    <3>1. Follows(t, x.tab, 0, p)
      BY <1>5 DEF Changed
    <3>2. q # 0
      BY <1>4, TableIs DEF Made
    <3> QED BY <3>1, <3>2 DEF Follows
  <2>2. ASSUME NEW e \in DOMAIN table', NEW q \in Entries(table'[e])
        PROVE  /\ q \in Entries(table[e]) /\ table'[e][q] = table[e][q]
               /\ table[e][q].dir \in DOMAIN table => table[e][q].dir \in DOMAIN table'
    <3>1. q \in Entries(table[e]) /\ table'[e][q] = table[e][q]
      BY <1>9, <2>1
    <3>2. ASSUME table[e][q].dir \in DOMAIN table, table[e][q].dir \notin DOMAIN table' PROVE FALSE
      <4>1. x.ok /\ table[e][q].dir = c /\ c # NoDir
        BY <1>8, <1>9, <3>2
      <4>2. e = Root /\ d = Root /\ OneEntry(c)
        BY <1>0, <1>2, <1>7, <1>9, <3>1, <4>1 DEF Directories
      <4>3. q \in DOMAIN table[Root] /\ table[Root][q].kind = "short"
            /\ p \in DOMAIN table[Root] /\ table[Root][p].kind = "short"
        BY <1>6, <3>1, <4>2 DEF Entries
      <4>4. q = p
        <5> HIDE DEF c, p
        <5>1. table[Root][p].dir = c
          BY <4>2 DEF c
        <5> QED BY <4>1, <4>2, <4>3, <5>1 DEF OneEntry
      <4> QED BY <1>4, <1>9, <2>2, <4>1, <4>2, <4>4
    <3> QED BY <3>1, <3>2
  <2> QED BY <1>0, <1>9, <2>2, DirectoriesKept
<1>16. Counts'
  <2>1. x.fault + f \in Nat
    BY <1>4, <1>10
  <2>2. faults' \in Nat
    BY <1>0, <1>1, <2>1, Charged DEF Counts
  <2>3. Chain(c) \in Nat
    <3>1. CASE c = NoDir
      BY <3>1 DEF Chain
    <3>2. CASE c # NoDir
      <4>1. Len(table[c]) \in Nat
        BY <1>0, <1>7, <3>2, TableIs DEF Tables, Made
      <4> DEFINE l == Len(table[c])
      <4>2. l \in Nat /\ Slots \in Nat \ {0}
        BY <4>1, VolumeAssumption
      <4> HIDE DEF l
      <4>3. l \div Slots \in Nat
        BY <4>2, Divided
      <4> QED BY <3>2, <4>3 DEF Chain, l
    <3> QED BY <3>1, <3>2
  <2>4. free' \in Nat
    BY <1>0, <1>1, <2>3 DEF Counts
  <2>5. cdir \in DOMAIN table' /\ Root \in DOMAIN table'
    <3>1. c # cdir
      BY <1>0, <1>2, <1>8 DEF Counts
    <3> QED BY <1>0, <1>8, <1>9, <3>1 DEF Counts, Tables
  <2> QED BY <1>0, <1>2, <2>2, <2>4, <2>5 DEF Counts
<1>17. StartKnown'
  <2> SUFFICES ASSUME lastTable \in DOMAIN table'
               PROVE  /\ lastIdx \in DOMAIN table'[lastTable]
                      /\ lastTable \notin trouble' => NoEndBefore(table'[lastTable], lastIdx)
    BY <1>2 DEF StartKnown
  <2>1. /\ lastTable \in DOMAIN table /\ lastIdx \in DOMAIN table[lastTable]
        /\ lastTable \notin trouble => NoEndBefore(table[lastTable], lastIdx)
    BY <1>0, <1>9 DEF StartKnown
  <2>2. SameEnds(table[lastTable], table'[lastTable])
    BY <1>4, <1>9 DEF SameEnds
  <2>3. DOMAIN table'[lastTable] = DOMAIN table[lastTable]
    BY <2>2 DEF SameEnds
  <2>4. NoEndBefore(table[lastTable], lastIdx) => NoEndBefore(table'[lastTable], lastIdx)
    BY <2>2, PackedKept
  <2> QED BY <1>12, <2>1, <2>3, <2>4
<1>18. Watched'
  <2>1. ASSUME listing' = listing, listing # Closed
        PROVE  LET e == listing.dir IN
               /\ e \in DOMAIN table' /\ Found(table'[e], listing.watch)
               /\ Where(table'[e], listing.watch) = Where(table[e], listing.watch)
    <3> DEFINE e == listing.dir
               k == listing.watch
    <3>1. e \in DOMAIN table /\ k \in Name /\ Found(table[e], k)
      BY <2>1 DEF DirInv, Watched
    <3>2. e # c
      BY <1>2, <1>8, <3>1
    <3>3. e \in DOMAIN table'
      BY <1>9, <3>1, <3>2
    <3>4. CASE e # d
      BY <1>9, <3>1, <3>3, <3>4
    <3>5. CASE e = d
      <4>1. k # n
        BY <1>2, <2>1, <3>5 DEF Forget
      <4>2. Found(x.tab, k) /\ Where(x.tab, k) = Where(t, k)
        <5> HIDE DEF t, p, k, e
        <5>1. Changed(t, x.tab, 0, Where(t, n), n, NoDir, {}, taken)
          BY <1>5 DEF p
        <5>2. Found(t, k)
          BY <3>1, <3>5 DEF t
        <5>3. 0 # 0 => k # n
          OBVIOUS
        <5> QED BY <1>2, <1>3, <1>4, <3>1, <4>1, <5>1, <5>2, <5>3, RemovalStays
      <4> QED BY <1>9, <3>3, <3>5, <4>2
    <3> QED BY <3>4, <3>5
  <2>2. listing' = Closed \/ listing' = listing
    BY <1>2 DEF Forget
  <2> QED BY <2>1, <2>2, WatchedKept
<1>19. DirInv'
  BY <1>13, <1>14, <1>15, <1>16, <1>17, <1>18 DEF DirInv
<1>20. NS!Remove(d, n, ok)
  <2>1. NS!Answered("remove", <<d, n>>, {d}, ok)
    BY <1>1, <1>13, AnsweredIs DEF ok
  <2>2. ns[d][n] = c /\ c # Absent
    BY <1>0, <1>6, RowsAre DEF Tied
  <2>3. c # NoDir => ns[c] = NS!Empty
    <3> SUFFICES ASSUME c # NoDir PROVE ns[c] = NS!Empty
      OBVIOUS
    <3>1. c \in DOMAIN table /\ \A q \in BeforeEnd(table[c]) : table[c][q].kind # "short"
      BY <1>2, <1>7
    <3>2. \A k \in Name : Object(table[c], k) = Absent
      BY <3>1 DEF Object, Found, Hits, IsNamed
    <3>3. ns[c] = Row(table[c])
      BY <1>0, <3>1, RowsAre DEF Tied
    <3> QED BY <3>2, <3>3 DEF Row, NS!Empty
  <2>4. \A e \in DOMAIN table' \ {d} : NS!Same(e)
    BY <1>0, <1>9, <1>13, Elsewhere
  <2>5. DOMAIN ns = DOMAIN table /\ NS!Directories(DOMAIN table')
    BY <1>0, <1>13, DirectoriesAre
  <2>6. NS!Edited(d, {}, taken)
    BY <1>4, <1>5, <1>9, <1>13, RemovalMeans
  <2>7. CASE x.ok
    <3>1. DOMAIN table' = DOMAIN ns \ {c} /\ taken = {n}
      BY <1>5, <1>9, <2>5, <2>7
    <3>2. \A e \in DOMAIN ns \ {c, d} : NS!Same(e)
      BY <2>4, <3>1
    <3> HIDE DEF c
    <3>3. NS!Directories(DOMAIN ns \ {c}) /\ NS!Edited(d, {}, {n})
      BY <2>5, <2>6, <3>1
    <3> QED BY <2>1, <2>2, <2>3, <3>2, <3>3 DEF NS!Remove
  <2>8. CASE ~x.ok
    <3>1. DOMAIN table' = DOMAIN ns /\ ~ok
      BY <1>9, <1>11, <2>5, <2>8
    <3> HIDE DEF c
    <3>2. NS!Directories(DOMAIN ns) /\ \E tk \in SUBSET {n} : NS!Edited(d, {}, tk)
      BY <2>5, <2>6, <3>1
    <3>3. \A e \in DOMAIN ns \ {d} : NS!Same(e)
      BY <2>4, <3>1
    <3> QED BY <2>1, <2>2, <2>3, <3>1, <3>2, <3>3 DEF NS!Remove
  <2> QED BY <2>7, <2>8
<1> QED BY <1>11, <1>19, <1>20

LEMMA MkdirStep ==
  ASSUME DirInv, NEW n \in Name, NEW c \in DirCluster, Mkdir(n, c),
         ns' = Meaning(table'), unseen' = Unseen(table')
  PROVE  DirInv' /\ \E ok \in BOOLEAN : NS!MakeDirectory(n, c, ok)
<1> DEFINE new == <<Dot, Dot>> \o Cleared(Slots - 2)
<1>0. Tables /\ Directories /\ Counts /\ Tied /\ Root \in DOMAIN table
  BY DEF DirInv, Tables
<1>a. PICK r \in Registrations(Root, n, free - 1, c) : \E f \in Synced(r.ok) :
        LET t == [table EXCEPT ![Root] = r.tab] IN
        /\ Charge(r.fault + f)
        /\ table' = IF r.ok THEN [e \in DOMAIN t \cup {c} |-> IF e = c THEN new ELSE t[e]] ELSE t
        /\ free' = IF r.ok THEN r.free ELSE r.free + 1
        /\ Caches(r, Root)
        /\ Answers("mkdir", <<n, c>>, {Root}, r.ok /\ f = 0)
  BY DEF Mkdir
<1> DEFINE t == [table EXCEPT ![Root] = r.tab]
<1>1. PICK f \in Synced(r.ok) :
        /\ Charge(r.fault + f)
        /\ table' = IF r.ok THEN [e \in DOMAIN t \cup {c} |-> IF e = c THEN new ELSE t[e]] ELSE t
        /\ free' = IF r.ok THEN r.free ELSE r.free + 1
        /\ Caches(r, Root)
        /\ Answers("mkdir", <<n, c>>, {Root}, r.ok /\ f = 0)
  BY <1>a
<1>2. /\ ~Found(table[Root], n) /\ c \notin DOMAIN table /\ c # Root
      /\ UNCHANGED <<volume, cdir, scanned, listing>>
  BY <1>0 DEF Mkdir
<1>3. free - 1 \in Nat
  BY <1>0 DEF Mkdir, Counts
<1>4. Registered(Root, n, free - 1, c, r)
  BY <1>0, <1>3, RegisterOK
<1>5. /\ r.ok \in BOOLEAN /\ r.fault \in {0, 1} /\ r.free \in 0..(free - 1) /\ r.short \subseteq ShortName
      /\ Made(r.tab) /\ Made(table[Root])
  BY <1>0, <1>4 DEF Registered, Tables
<1> DEFINE add == IF r.ok THEN {c} ELSE {}
<1>6. /\ DOMAIN table' = DOMAIN table \cup add /\ table'[Root] = r.tab
      /\ \A e \in DOMAIN table : e # Root => table'[e] = table[e]
      /\ r.ok => table'[c] = new
      /\ table' = [e \in DOMAIN table' |-> table'[e]]
  <2> HIDE DEF new
  <2>1. DOMAIN t = DOMAIN table /\ t[Root] = r.tab /\ \A e \in DOMAIN table : e # Root => t[e] = table[e]
    BY <1>0 DEF Tables
  <2> HIDE DEF t
  <2>2. CASE r.ok
    BY <1>0, <1>1, <1>2, <2>1, <2>2
  <2>3. CASE ~r.ok
    <3>1. t = [e \in DOMAIN t |-> t[e]]
      BY DEF t
    <3> QED BY <1>0, <1>1, <2>1, <2>3, <3>1
  <2> QED BY <2>2, <2>3
<1>7. f \in {0, 1} /\ (~r.ok => f = 0)
  BY <1>5 DEF Synced
<1> DEFINE ok == r.ok /\ f = 0
<1>8. ok \in BOOLEAN /\ (ok => r.ok) /\ Answers("mkdir", <<n, c>>, {Root}, ok)
  BY <1>1, <1>5
<1>9. Made(new) /\ Neat(new) /\ Entries(new) = {}
  BY NewTable
<1> HIDE DEF ok, new, t
<1>10. /\ trouble' \subseteq DOMAIN table'
       /\ \A e \in DOMAIN table' \ trouble' : e \notin trouble /\ (e = Root => ok)
  BY <1>8, TroubleIs
<1>11. Tied'
  BY <1>10 DEF Tied
<1>12. Tables'
  <2>1. ASSUME NEW e \in DOMAIN table' PROVE Made(table'[e]) /\ (e \notin trouble' => Neat(table'[e]))
    <3>1. CASE e \in DOMAIN table /\ e # Root
      BY <1>0, <1>6, <1>10, <3>1 DEF Tables
    <3>2. CASE e \notin DOMAIN table
      BY <1>6, <1>9, <3>2
    <3>3. CASE e = Root
      <4>1. ASSUME Root \notin trouble' PROVE Neat(r.tab)
        <5>1. Root \notin trouble /\ r.ok
          BY <1>0, <1>6, <1>8, <1>10, <4>1
        <5> QED BY <1>0, <1>2, <1>4, <5>1, RegisterNeatly
      <4> QED BY <1>5, <1>6, <3>3, <4>1
    <3> QED BY <3>1, <3>2, <3>3
  <2> QED BY <1>0, <1>6, <2>1 DEF Tables
<1>13. Directories'
  <2>1. ASSUME NEW p \in Entries(r.tab)
        PROVE  \/ p \in Entries(table[Root]) /\ r.tab[p] = table[Root][p]
               \/ r.ok /\ r.tab[p].dir = c
    BY <1>4, RegisteredEntries
  <2>2. ASSUME NEW e \in DOMAIN table'
        PROVE  \/ Entries(table'[e]) = {}
               \/ /\ e \in DOMAIN table
                  /\ \A p \in Entries(table'[e]) :
                       \/ p \in Entries(table[e]) /\ table'[e][p] = table[e][p]
                          /\ (table[e][p].dir \in DOMAIN table => table[e][p].dir \in DOMAIN table')
                       \/ table'[e][p].dir # NoDir => e = Root /\ table'[e][p].dir \in DOMAIN table'
    BY <1>6, <1>9, <2>1
  <2> QED BY <1>0, <2>2, DirectoriesKept
<1>14. Counts'
  <2>1. r.fault + f \in Nat
    BY <1>5, <1>7
  <2>2. faults' \in Nat /\ shortCache' = shortCache \cup r.short
    BY <1>0, <1>1, <2>1, Charged DEF Counts, Caches
  <2>3. free' \in Nat
    BY <1>1, <1>3, <1>5
  <2> QED BY <1>0, <1>2, <1>5, <1>6, <2>2, <2>3 DEF Counts
<1>15. StartKnown'
  <2>1. SameEnds(r.tab, table'[Root])
        /\ \A e \in DOMAIN table' : e \in DOMAIN table /\ e # Root => SameEnds(table[e], table'[e])
    BY <1>6 DEF SameEnds
  <2>2. r.pos = 0 => DOMAIN table' \subseteq DOMAIN table
    BY <1>4, <1>6 DEF Registered
  <2>3. Root \in DOMAIN table' /\ (Root \notin trouble' => Root \notin trouble /\ r.ok)
    BY <1>0, <1>6, <1>8, <1>10
  <2> QED BY <1>0, <1>1, <1>4, <1>10, <2>1, <2>2, <2>3, StartAfter
<1>16. Watched'
  <2>1. ASSUME listing # Closed
        PROVE  LET e == listing.dir IN
               /\ e \in DOMAIN table' /\ Found(table'[e], listing.watch)
               /\ Where(table'[e], listing.watch) = Where(table[e], listing.watch)
    <3> DEFINE e == listing.dir
               k == listing.watch
    <3>1. e \in DOMAIN table /\ k \in Name /\ Found(table[e], k)
      BY <2>1 DEF DirInv, Watched
    <3>2. CASE e # Root
      BY <1>6, <3>1, <3>2
    <3>3. CASE e = Root
      <4>1. k # n
        BY <1>2, <3>1, <3>3
      <4> HIDE DEF e, k
      <4>2. Found(r.tab, k) /\ Where(r.tab, k) = Where(table[Root], k)
        BY <1>4, <1>5, <3>1, <3>3, <4>1, RegisterStays
      <4> QED BY <1>6, <3>1, <3>3, <4>2 DEF e, k
    <3> QED BY <3>2, <3>3
  <2> QED BY <1>2, <2>1, WatchedKept
<1>17. DirInv'
  BY <1>11, <1>12, <1>13, <1>14, <1>15, <1>16 DEF DirInv
<1>18. NS!MakeDirectory(n, c, ok)
  <2>1. NS!Answered("mkdir", <<n, c>>, {Root}, ok)
    BY <1>8, <1>11, AnsweredIs
  <2>2. DOMAIN ns = DOMAIN table /\ NS!Directories(DOMAIN table')
    BY <1>0, <1>11, DirectoriesAre
  <2>3. c \notin DOMAIN ns /\ ns[Root][n] = Absent
    <3>1. Object(table[Root], n) = Absent
      BY <1>2 DEF Object
    <3> QED BY <1>0, <1>2, <2>2, <3>1, RowsAre DEF Tied
  <2>4. CASE r.ok
    <3>1. NS!Edited(Root, {<<n, c>>}, {})
      BY <1>0, <1>2, <1>4, <1>6, <1>11, <2>4, RegisterMeans
    <3>2. \A e \in DOMAIN ns \ {Root} : NS!Same(e)
      BY <1>0, <1>6, <1>11, <2>2, Elsewhere
    <3>3. ns'[c] = NS!Empty /\ unseen'[c] = {}
      <4>1. c \in DOMAIN table' /\ table'[c] = new
        BY <1>6, <2>4
      <4>2. ns'[c] = Row(new) /\ unseen'[c] = Pairs(new)
        BY <1>11, <4>1, RowsAre DEF Tied
      <4>3. \A q \in DOMAIN new, k \in Name : ~IsNamed(new, q, k)
        BY <1>9 DEF IsNamed, Entries
      <4>4. \A k \in Name : Object(new, k) = Absent /\ Hidden(new, k) = {}
        <5>1. TableType(new)
          BY <1>9 DEF Made
        <5> QED BY <1>9, <4>3, <5>1, ObjectIs, WhereIs DEF Hidden
      <4> QED BY <4>2, <4>4 DEF Row, Pairs, NS!Empty
    <3>4. NS!Directories(DOMAIN ns \cup {c})
      BY <1>6, <2>2, <2>4
    <3> QED BY <2>1, <2>3, <3>1, <3>2, <3>3, <3>4 DEF NS!MakeDirectory
  <2>5. CASE ~r.ok
    <3>1. DOMAIN table' = DOMAIN table /\ ~ok
      BY <1>6, <1>8, <2>5
    <3>2. NS!Nothing
      BY <1>0, <1>2, <1>4, <1>6, <1>11, <2>5, <3>1, RegisterFails
    <3> QED BY <2>1, <2>3, <3>1, <3>2 DEF NS!MakeDirectory
  <2> QED BY <2>4, <2>5
<1> QED BY <1>8, <1>17, <1>18

\* What holds before f_rename: a name there is not the new one, unless it is the same.
LEMMA RenameNames ==
  ASSUME DirInv, NEW d \in DOMAIN table, NEW e \in DOMAIN table, NEW n \in Name, NEW m \in Name,
         Found(table[d], n),
         Found(table[e], m) => d = e /\ Where(table[e], m) = Where(table[d], n)
  PROVE  /\ Where(table[d], n) \in Entries(table[d])
         /\ table[d][Where(table[d], n)].dir \in DirCluster \cup {NoDir}
         /\ ns[d][n] = table[d][Where(table[d], n)].dir /\ ns[d][n] # Absent
         /\ Found(table[e], m) => d = e /\ m = n
         /\ ns[e][m] = Absent \/ (d = e /\ m = n)
<1> DEFINE t == table[d]
           p == Where(t, n)
<1>1. Made(t) /\ TableType(t) /\ Found(t, n) /\ Tied
  BY DEF DirInv, Tables, Made
<1>2. p \in Entries(t) /\ IsNamed(t, p, n) /\ Object(t, n) = t[p].dir /\ Object(t, n) # Absent
  <2> HIDE DEF t
  <2> QED BY <1>1, WhereIs, ObjectIs
<1>3. t[p].dir \in DirCluster \cup {NoDir}
  <2> HIDE DEF t, p
  <2> QED BY <1>1, <1>2, TableIs, Slots_
<1>4. ns[d][n] = Object(t, n)
  BY <1>1, RowsAre DEF Tied
<1>5. ASSUME Found(table[e], m) PROVE d = e /\ m = n
  <2>1. d = e /\ Where(t, m) = p /\ Found(t, m)
    BY <1>5
  <2> HIDE DEF t
  <2>2. IsNamed(t, p, m)
    BY <1>1, <2>1, WhereIs
  <2>3. t[p].for = m /\ t[p].for = n
    BY <1>1, <1>2, <2>2 DEF Made
  <2> QED BY <2>1, <2>3
<1>6. ASSUME ~Found(table[e], m) PROVE ns[e][m] = Absent
  <2>1. Object(table[e], m) = Absent
    BY <1>6 DEF Object
  <2> QED BY <1>1, <2>1, RowsAre DEF Tied
<1> QED BY <1>2, <1>3, <1>4, <1>5, <1>6

\* f_rename, the new name not being registered.
LEMMA RenameFails ==
  ASSUME DirInv, Tied', NEW d \in DOMAIN table, NEW e \in DOMAIN table, NEW n \in Name, NEW m \in Name,
         Found(table[d], n),
         Found(table[e], m) => d = e /\ Where(table[e], m) = Where(table[d], n),
         NEW r, Registered(e, m, free, table[d][Where(table[d], n)].dir, r), ~r.ok,
         table' = [table EXCEPT ![e] = r.tab], free' = r.free, Caches(r, e), Charge(r.fault),
         Answers("rename", <<d, n, e, m>>, {d, e}, FALSE),
         UNCHANGED <<volume, cdir, scanned, listing>>
  PROVE  DirInv' /\ NS!Rename(d, n, e, m, FALSE)
<1> DEFINE o == table[d][Where(table[d], n)].dir
<1>0. Tables /\ Directories /\ Counts /\ Tied
  BY DEF DirInv
<1>1. Registered(e, m, free, o, r)
  OBVIOUS
<1>2. /\ ns[d][n] # Absent /\ (ns[e][m] = Absent \/ (d = e /\ m = n))
      /\ Found(table[e], m) => table[e][Where(table[e], m)].dir = o
  BY RenameNames
<1> HIDE DEF o
<1>3. /\ DOMAIN table' = DOMAIN table /\ table'[e] = r.tab
      /\ \A f \in DOMAIN table : f # e => table'[f] = table[f]
      /\ table' = [f \in DOMAIN table' |-> table'[f]]
  BY <1>0 DEF Tables
<1>4. /\ r.fault \in {0, 1} /\ r.free \in 0..free /\ r.short \subseteq ShortName
      /\ Made(r.tab) /\ Made(table[e])
  BY <1>0, <1>1 DEF Registered, Tables
<1>5. \A f \in DOMAIN table' \ trouble' : f \notin trouble /\ f # d /\ f # e
  BY TroubleIs
<1>6. Tables'
  BY <1>0, <1>3, <1>4, <1>5 DEF Tables
<1>7. Directories'
  <2>1. \A p \in Entries(r.tab) : p \in Entries(table[e]) /\ r.tab[p] = table[e][p]
    BY <1>1, RegisteredEntries
  <2> QED BY <1>0, <1>3, <2>1, DirectoriesKept
<1>8. Counts'
  <2>1. faults' \in Nat /\ shortCache' = shortCache \cup r.short
    BY <1>0, <1>4, Charged DEF Counts, Caches
  <2>2. free' \in Nat
    BY <1>0, <1>4 DEF Counts
  <2> QED BY <1>0, <1>3, <1>4, <2>1, <2>2 DEF Counts
<1>9. StartKnown'
  <2>1. SameEnds(r.tab, table'[e]) /\ \A f \in DOMAIN table : f # e => SameEnds(table[f], table'[f])
    BY <1>3 DEF SameEnds
  <2> QED BY <1>1, <1>3, <1>5, <2>1, StartAfter
<1>10. Watched'
  <2>1. ASSUME listing # Closed
        PROVE  LET f == listing.dir IN
               /\ f \in DOMAIN table' /\ Found(table'[f], listing.watch)
               /\ Where(table'[f], listing.watch) = Where(table[f], listing.watch)
    <3> DEFINE f == listing.dir
               k == listing.watch
    <3>1. f \in DOMAIN table /\ k \in Name /\ Found(table[f], k)
      BY <2>1 DEF DirInv, Watched
    <3>2. CASE f # e
      BY <1>3, <3>1, <3>2
    <3>3. CASE f = e
      <4> HIDE DEF f, k
      <4>1. Found(r.tab, k) /\ Where(r.tab, k) = Where(table[e], k)
        BY <1>1, <1>4, <3>1, <3>3, RegisterStays
      <4> QED BY <1>3, <3>1, <3>3, <4>1 DEF f, k
    <3> QED BY <3>2, <3>3
  <2> QED BY <2>1, WatchedKept
<1>11. NS!Answered("rename", <<d, n, e, m>>, {d, e}, FALSE)
  BY AnsweredIs
<1>12. NS!Nothing
  BY <1>1, <1>2, <1>3, RegisterFails
<1> QED BY <1>2, <1>6, <1>7, <1>8, <1>9, <1>10, <1>11, <1>12 DEF DirInv, NS!Rename

\* The new name being registered: the two tables, and what they mean.
Renamed(d, n, e, m, p, r, u, taken) ==
    LET o == table[d][p].dir IN
    /\ Made(u) /\ SameEnds(IF d = e THEN r.tab ELSE table[d], u)
    /\ IF d = e THEN Changed(table[d], u, r.pos, p, m, o, {<<m, o>>}, taken)
                ELSE Changed(table[d], u, 0, p, n, NoDir, {}, taken)

Registers(d, n, e, m, r) ==
    /\ Found(table[d], n)
    /\ table[d][Where(table[d], n)].dir # NoDir => e = Root
    /\ Found(table[e], m) => d = e /\ Where(table[e], m) = Where(table[d], n)
    /\ Registered(e, m, free, table[d][Where(table[d], n)].dir, r)
    /\ r.ok

\* What the removal x of the old entry comes to.
RemovedWell(d, n, e, m, r, x) ==
    /\ x.ok \in BOOLEAN /\ x.fault \in {0, 1}
    /\ \E taken \in SUBSET {n} :
         (x.ok => taken = {n}) /\ Renamed(d, n, e, m, Where(table[d], n), r, x.tab, taken)

LEMMA RenamedIs ==
  ASSUME DirInv, NEW d \in DOMAIN table, NEW e \in DOMAIN table, NEW n \in Name, NEW m \in Name,
         NEW r, Registers(d, n, e, m, r), NEW w, w = IF d = e THEN r.tab ELSE table[d],
         NEW x, x \in Removals(w, Block(table[d], Where(table[d], n)), Where(table[d], n))
  PROVE  RemovedWell(d, n, e, m, r, x)
<1> SUFFICES ASSUME Found(table[d], n),
                    Found(table[e], m) => d = e /\ Where(table[e], m) = Where(table[d], n),
                    Registered(e, m, free, table[d][Where(table[d], n)].dir, r), r.ok
             PROVE  /\ x.ok \in BOOLEAN /\ x.fault \in {0, 1}
                    /\ \E taken \in SUBSET {n} :
                         /\ x.ok => taken = {n}
                         /\ Renamed(d, n, e, m, Where(table[d], n), r, x.tab, taken)
  BY DEF Registers, RemovedWell
<1> DEFINE t == table[d]
           p == Where(t, n)
           o == t[p].dir
<1>1. Made(t) /\ Made(w) /\ Found(t, n) /\ Longs(t, w)
  BY NothingChanges DEF DirInv, Tables, Registered
<1>2. CASE d = e
  <2>1. Changed(t, w, r.pos, 0, m, o, {<<m, o>>}, {})
    <3>1. Found(table[e], m) => table[e][Where(table[e], m)].dir = o
      BY RenameNames
    <3>2. Registered(e, m, free, o, r) /\ Made(table[e])
      BY <1>1, <1>2
    <3> HIDE DEF o
    <3>3. Changed(table[e], r.tab, IF r.ok THEN r.pos ELSE 0, 0, m, o, IF r.ok THEN {<<m, o>>} ELSE {}, {})
      BY <3>1, <3>2, RegisterChanges
    <3> QED BY <1>2, <3>3
  <2>2. x \in Removals(w, Block(t, Where(t, n)), Where(t, n))
    OBVIOUS
  <2> HIDE DEF t, o
  <2>3. /\ Made(x.tab) /\ SameEnds(w, x.tab) /\ x.ok \in BOOLEAN /\ x.fault \in {0, 1}
        /\ \E taken \in SUBSET {n} :
             /\ x.ok => taken = {n}
             /\ Changed(t, x.tab, r.pos, Where(t, n), m, o, {<<m, o>>}, taken)
    BY <1>1, <2>1, <2>2, RemovalChanges
  <2> QED BY <1>2, <2>3 DEF Renamed, t, o
<1>3. CASE d # e
  <2>1. Changed(t, w, 0, 0, n, NoDir, {}, {})
    BY <1>1, <1>3, NothingChanges
  <2>2. x \in Removals(w, Block(t, Where(t, n)), Where(t, n))
    OBVIOUS
  <2> HIDE DEF t, o
  <2>3. /\ Made(x.tab) /\ SameEnds(w, x.tab) /\ x.ok \in BOOLEAN /\ x.fault \in {0, 1}
        /\ \E taken \in SUBSET {n} :
             /\ x.ok => taken = {n}
             /\ Changed(t, x.tab, 0, Where(t, n), n, NoDir, {}, taken)
    BY <1>1, <2>1, <2>2, RemovalChanges
  <2> QED BY <1>3, <2>3 DEF Renamed, t, o
<1> QED BY <1>2, <1>3

\* f_rename, the new name being registered and the old entry removed as far as it goes.
RenameEnds(d, n, e, m, r, u, taken, k, ok) ==
    /\ Renamed(d, n, e, m, Where(table[d], n), r, u, taken)
    /\ table' = [[table EXCEPT ![e] = r.tab] EXCEPT ![d] = u]
    /\ free' = r.free /\ Caches(r, e) /\ Charge(k) /\ Forget(d, n)
    /\ UNCHANGED <<volume, cdir, scanned>>
    /\ ok => taken = {n}
    /\ Answers("rename", <<d, n, e, m>>, {d, e}, ok)

LEMMA RenameWorks ==
  ASSUME DirInv, Tied', NEW d \in DOMAIN table, NEW e \in DOMAIN table, NEW n \in Name, NEW m \in Name,
         NEW r, NEW u, NEW taken \in SUBSET {n}, NEW ok \in BOOLEAN, NEW k \in Nat,
         Registers(d, n, e, m, r), RenameEnds(d, n, e, m, r, u, taken, k, ok)
  PROVE  DirInv' /\ NS!Rename(d, n, e, m, ok)
<1> SUFFICES ASSUME
      Found(table[d], n), table[d][Where(table[d], n)].dir # NoDir => e = Root,
      Found(table[e], m) => d = e /\ Where(table[e], m) = Where(table[d], n),
      Registered(e, m, free, table[d][Where(table[d], n)].dir, r), r.ok,
      Renamed(d, n, e, m, Where(table[d], n), r, u, taken),
      table' = [[table EXCEPT ![e] = r.tab] EXCEPT ![d] = u],
      free' = r.free, Caches(r, e), Charge(k), Forget(d, n), UNCHANGED <<volume, cdir, scanned>>,
      ok => taken = {n}, Answers("rename", <<d, n, e, m>>, {d, e}, ok)
    PROVE DirInv' /\ NS!Rename(d, n, e, m, ok)
  BY DEF Registers, RenameEnds
<1> DEFINE t == table[d]
           p == Where(t, n)
           o == t[p].dir
<1>0. Tables /\ Directories /\ Counts /\ Tied
  BY DEF DirInv
<1>1. /\ Registered(e, m, free, o, r) /\ Renamed(d, n, e, m, p, r, u, taken) /\ Found(t, n)
      /\ o # NoDir => e = Root
  OBVIOUS
<1>2. /\ p \in Entries(t) /\ o \in DirCluster \cup {NoDir} /\ ns[d][n] = o /\ ns[d][n] # Absent
      /\ Found(table[e], m) => d = e /\ m = n
      /\ ns[e][m] = Absent \/ (d = e /\ m = n)
  BY RenameNames
<1>3. o \in DOMAIN table \/ o = NoDir
  BY <1>0, <1>2 DEF Directories
<1>4. /\ DOMAIN table' = DOMAIN table /\ table'[d] = u /\ (d # e => table'[e] = r.tab)
      /\ \A f \in DOMAIN table : f # d /\ f # e => table'[f] = table[f]
      /\ table' = [f \in DOMAIN table' |-> table'[f]]
  BY <1>0 DEF Tables
<1>5. /\ r.free \in 0..free /\ r.short \subseteq ShortName /\ r.pos # 0
      /\ Made(r.tab) /\ Made(t) /\ Made(table[e]) /\ Made(u)
  BY <1>0, <1>1 DEF Registered, Tables, Renamed
<1>6. \A f \in DOMAIN table' \ trouble' : f \notin trouble /\ (f \in {d, e} => ok)
  BY TroubleIs
<1>7. /\ d = e => /\ SameEnds(r.tab, u)
                  /\ Changed(t, u, r.pos, p, m, o, {<<m, o>>}, taken)
      /\ d # e => SameEnds(t, u) /\ Changed(t, u, 0, p, n, NoDir, {}, taken)
  BY <1>1 DEF Renamed
<1> HIDE DEF p, o
<1>8. d = e /\ d \notin trouble => Neat(t) /\ Packed(r.tab) /\ Seen(u, r.pos)
  <2> SUFFICES ASSUME d = e, d \notin trouble PROVE Neat(t) /\ Packed(r.tab) /\ Seen(u, r.pos)
    OBVIOUS
  <2>1. Neat(table[e]) /\ Packed(r.tab) /\ Seen(r.tab, r.pos)
    BY <1>1, RegisterNeat
  <2>2. Seen(u, r.pos)
    BY <1>7, <2>1 DEF SameEnds, Seen
  <2> QED BY <2>1, <2>2
<1>9. Tables'
  <2>1. ASSUME NEW f \in DOMAIN table' PROVE Made(table'[f]) /\ (f \notin trouble' => Neat(table'[f]))
    <3>1. CASE f # d /\ f # e
      BY <1>0, <1>4, <1>6, <3>1 DEF Tables
    <3>2. CASE f = e /\ d # e
      <4>1. e \notin trouble' => Neat(r.tab)
        BY <1>1, <1>2, <1>4, <1>6, <3>2, RegisterNeatly
      <4> QED BY <1>4, <1>5, <3>2, <4>1
    <3>3. CASE f = d /\ d # e
      <4>1. ASSUME d \notin trouble' PROVE Neat(u)
        <5>1. Neat(t)
          BY <1>0, <1>4, <1>6, <4>1 DEF Tables
        <5> HIDE DEF t
        <5> QED BY <1>5, <1>7, <3>3, <5>1, RemovalNeat DEF p
      <4> QED BY <1>4, <1>5, <3>3, <4>1
    <3>4. CASE f = d /\ d = e
      <4>1. ASSUME d \notin trouble' PROVE Neat(u)
        <5>1. Neat(t) /\ Packed(r.tab) /\ taken = {n}
          BY <1>4, <1>6, <1>8, <3>4, <4>1
        <5>2. r.pos # 0 /\ Found(t, m) => m \in taken
          BY <1>2, <3>4, <5>1
        <5> HIDE DEF t
        <5>3. Single(u)
          BY <1>5, <1>7, <3>4, <5>1, <5>2, SingleKept
        <5>4. Packed(u)
          BY <1>7, <3>4, <5>1, PackedKept
        <5> QED BY <5>3, <5>4 DEF Neat
      <4> QED BY <1>4, <1>5, <3>4, <4>1
    <3> QED BY <3>1, <3>2, <3>3, <3>4
  <2> QED BY <1>0, <1>4, <2>1 DEF Tables
<1>10. Directories'
  <2>1. ASSUME NEW q \in Entries(r.tab)
        PROVE  \/ q \in Entries(table[e]) /\ r.tab[q] = table[e][q]
               \/ r.tab[q].dir = o
    BY <1>1, RegisteredEntries
  <2>2. ASSUME NEW q \in Entries(u)
        PROVE  \/ q \in Entries(t) /\ u[q] = t[q]
               \/ d = e /\ u[q].dir = o
    <3>1. CASE d = e
      BY <1>7, <3>1 DEF Changed, Follows
    <3>2. CASE d # e
      <4>1. Follows(t, u, 0, p)
        BY <1>7, <3>2 DEF Changed
      <4>2. q # 0
        BY <1>5, TableIs DEF Made
      <4> QED BY <4>1, <4>2 DEF Follows
    <3> QED BY <3>1, <3>2
  <2>3. ASSUME NEW f \in DOMAIN table', NEW q \in Entries(table'[f])
        PROVE  \/ q \in Entries(table[f]) /\ table'[f][q] = table[f][q]
               \/ f = e /\ table'[f][q].dir = o
    BY <1>4, <2>1, <2>2
  <2>4. ASSUME NEW f \in DOMAIN table', NEW q \in Entries(table'[f])
        PROVE  \/ q \in Entries(table[f]) /\ table'[f][q] = table[f][q]
                  /\ (table[f][q].dir \in DOMAIN table => table[f][q].dir \in DOMAIN table')
               \/ table'[f][q].dir # NoDir => f = Root /\ table'[f][q].dir \in DOMAIN table'
    BY <1>1, <1>3, <1>4, <2>3
  <2> QED BY <1>0, <1>4, <2>4, DirectoriesKept
<1>11. Counts'
  <2>1. faults' \in Nat /\ shortCache' = shortCache \cup r.short
    BY <1>0, Charged DEF Counts, Caches
  <2>2. free' \in Nat
    BY <1>0, <1>5 DEF Counts
  <2> QED BY <1>0, <1>4, <1>5, <2>1, <2>2 DEF Counts
<1>12. StartKnown'
  <2>1. SameEnds(r.tab, table'[e]) /\ \A f \in DOMAIN table : f # e => SameEnds(table[f], table'[f])
    BY <1>4, <1>7 DEF SameEnds
  <2> QED BY <1>1, <1>4, <1>6, <2>1, StartAfter
<1>13. Watched'
  <2>1. ASSUME listing' = listing, listing # Closed
        PROVE  LET f == listing.dir IN
               /\ f \in DOMAIN table' /\ Found(table'[f], listing.watch)
               /\ Where(table'[f], listing.watch) = Where(table[f], listing.watch)
    <3> DEFINE f == listing.dir
               w == listing.watch
    <3>1. f \in DOMAIN table /\ w \in Name /\ Found(table[f], w)
      BY <2>1 DEF DirInv, Watched
    <3>2. ~(f = d /\ w = n)
      BY <2>1 DEF Forget
    <3>3. f = e => w # m
      BY <1>2, <3>1, <3>2
    <3> HIDE DEF f, w
    <3>4. CASE f # d /\ f # e
      BY <1>4, <3>1, <3>4 DEF f, w
    <3>5. CASE f = e /\ d # e
      <4>1. Found(r.tab, w) /\ Where(r.tab, w) = Where(table[e], w)
        BY <1>1, <1>5, <3>1, <3>3, <3>5, RegisterStays
      <4> QED BY <1>4, <3>5, <4>1 DEF f, w
    <3>6. CASE f = d
      <4>1. w # n /\ Found(t, w)
        BY <3>1, <3>2, <3>6
      <4>2. Found(u, w) /\ Where(u, w) = Where(t, w)
        <5> HIDE DEF t
        <5>1. CASE d = e
          <6>1. Changed(t, u, r.pos, Where(t, n), m, o, {<<m, o>>}, taken) /\ w # m
            BY <1>7, <3>3, <3>6, <5>1 DEF p
          <6> QED BY <1>1, <1>5, <3>1, <4>1, <6>1, RemovalStays
        <5>2. CASE d # e
          <6>1. Changed(t, u, 0, Where(t, n), n, NoDir, {}, taken)
            BY <1>7, <5>2 DEF p
          <6> QED BY <1>1, <1>5, <3>1, <4>1, <6>1, RemovalStays
        <5> QED BY <5>1, <5>2
      <4> QED BY <1>4, <3>6, <4>2 DEF f, w
    <3> QED BY <3>4, <3>5, <3>6
  <2>2. listing' = Closed \/ listing' = listing
    BY DEF Forget
  <2> QED BY <2>1, <2>2, WatchedKept
<1>14. DirInv'
  BY <1>9, <1>10, <1>11, <1>12, <1>13 DEF DirInv
<1>15. NS!Rename(d, n, e, m, ok)
  <2>1. NS!Answered("rename", <<d, n, e, m>>, {d, e}, ok)
    BY AnsweredIs
  <2>2. DOMAIN ns = DOMAIN table /\ NS!Directories(DOMAIN ns)
    BY <1>0, <1>4, DirectoriesAre
  <2>3. \A f \in DOMAIN ns \ {d, e} : NS!Same(f)
    BY <1>0, <1>4, <2>2, Elsewhere
  <2>4. IF d = e THEN NS!Edited(d, {<<m, o>>}, taken)
        ELSE NS!Edited(d, {}, taken) /\ NS!Edited(e, {<<m, o>>}, {})
    <3>1. CASE d = e
      <4> DEFINE calm == d \notin trouble
      <4>1. calm => Neat(t) /\ (r.pos # 0 => Seen(u, r.pos))
        BY <1>8, <3>1
      <4> HIDE DEF t, calm
      <4>2. EditedRow(t, u, {<<m, o>>}, taken, calm)
        BY <1>5, <1>7, <3>1, <4>1, EditIs
      <4>3. EditedRow(table[d], table'[d], {<<m, o>>}, taken, d \notin trouble)
        BY <1>4, <4>2 DEF t, calm
      <4>4. taken \subseteq Name /\ \A x \in {<<m, o>>} : x[1] \in Name
        OBVIOUS
      <4>5. NS!Edited(d, {<<m, o>>}, taken)
        BY <1>0, <1>4, <4>3, <4>4, EditedIs
      <4> QED BY <3>1, <4>5
    <3>2. CASE d # e
      <4>1. NS!Edited(d, {}, taken)
        BY <1>4, <1>5, <1>7, <3>2, RemovalMeans DEF p
      <4>2. NS!Edited(e, {<<m, o>>}, {})
        BY <1>1, <1>2, <1>4, <3>2, RegisterMeans
      <4> QED BY <3>2, <4>1, <4>2
    <3> QED BY <3>1, <3>2
  <2> QED BY <1>2, <2>1, <2>2, <2>3, <2>4 DEF NS!Rename
<1> QED BY <1>14, <1>15

LEMMA RenameStep ==
  ASSUME DirInv, NEW d \in DOMAIN table, NEW e \in DOMAIN table, NEW n \in Name, NEW m \in Name,
         Rename(d, n, e, m), ns' = Meaning(table'), unseen' = Unseen(table')
  PROVE  DirInv' /\ \E ok \in BOOLEAN : NS!Rename(d, n, e, m, ok)
<1> DEFINE p == Where(table[d], n)
           o == table[d][p].dir
<1>1. /\ Found(table[d], n) /\ (o # NoDir => e = Root)
      /\ Found(table[e], m) => d = e /\ Where(table[e], m) = p
      /\ UNCHANGED <<volume, cdir, scanned>>
  BY DEF Rename, IsDir, SlotOf
<1>2. PICK r \in Registrations(e, m, free, o) :
         LET t == [table EXCEPT ![e] = r.tab] IN
         /\ free' = r.free
         /\ Caches(r, e)
         /\ \/ /\ ~r.ok
               /\ Charge(r.fault)
               /\ table' = t
               /\ Answers("rename", <<d, n, e, m>>, {d, e}, FALSE)
               /\ UNCHANGED listing
            \/ /\ r.ok
               /\ \E x \in Removals(t[d], Block(table[d], p), p) : \E f \in Synced(x.ok) :
                    /\ Charge(x.fault + f)
                    /\ table' = [t EXCEPT ![d] = x.tab]
                    /\ Answers("rename", <<d, n, e, m>>, {d, e}, x.ok /\ f = 0)
               /\ Forget(d, n)
  BY DEF Rename
<1>3. Registered(e, m, free, o, r)
  <2>1. o \in DirCluster \cup {NoDir} /\ free \in Nat
    BY <1>1, RenameNames DEF DirInv, Counts
  <2> HIDE DEF o
  <2> QED BY <2>1, RegisterOK
<1>4. trouble' \subseteq DOMAIN table'
  BY <1>2 DEF Answers
<1>5. Tied'
  BY <1>4 DEF Tied
<1>6. CASE ~r.ok
  <2>1. DirInv' /\ NS!Rename(d, n, e, m, FALSE)
    BY <1>1, <1>2, <1>3, <1>5, <1>6, RenameFails
  <2> QED BY <2>1
<1>7. CASE r.ok
  <2> DEFINE t == [table EXCEPT ![e] = r.tab]
  <2>1. t[d] = IF d = e THEN r.tab ELSE table[d]
    BY DEF DirInv, Tables
  <2>2. PICK x \in Removals(t[d], Block(table[d], p), p) : \E f \in Synced(x.ok) :
          /\ Charge(x.fault + f)
          /\ table' = [t EXCEPT ![d] = x.tab]
          /\ Answers("rename", <<d, n, e, m>>, {d, e}, x.ok /\ f = 0)
    BY <1>2, <1>7
  <2>3. PICK f \in Synced(x.ok) :
          /\ Charge(x.fault + f)
          /\ table' = [t EXCEPT ![d] = x.tab]
          /\ Answers("rename", <<d, n, e, m>>, {d, e}, x.ok /\ f = 0)
    BY <2>2
  <2>4. Registers(d, n, e, m, r)
    BY <1>1, <1>3, <1>7 DEF Registers
  <2>5. /\ x.ok \in BOOLEAN /\ x.fault \in {0, 1}
        /\ \E taken \in SUBSET {n} : (x.ok => taken = {n}) /\ Renamed(d, n, e, m, p, r, x.tab, taken)
    <3> DEFINE w == t[d]
    <3>1. w = (IF d = e THEN r.tab ELSE table[d]) /\ x \in Removals(w, Block(table[d], p), p)
      BY <2>1
    <3> HIDE DEF w
    <3>2. RemovedWell(d, n, e, m, r, x)
      BY <2>4, <3>1, RenamedIs
    <3> QED BY <3>2 DEF RemovedWell
  <2>6. PICK taken \in SUBSET {n} : (x.ok => taken = {n}) /\ Renamed(d, n, e, m, p, r, x.tab, taken)
    BY <2>5
  <2>7. f \in {0, 1} /\ x.fault + f \in Nat
    BY <2>5 DEF Synced
  <2> DEFINE ok == x.ok /\ f = 0
  <2>8. ok \in BOOLEAN /\ (ok => taken = {n}) /\ Answers("rename", <<d, n, e, m>>, {d, e}, ok)
    BY <2>3, <2>5, <2>6
  <2>9. free' = r.free /\ Caches(r, e) /\ Forget(d, n) /\ Charge(x.fault + f)
        /\ table' = [[table EXCEPT ![e] = r.tab] EXCEPT ![d] = x.tab]
    BY <1>2, <1>7, <2>3
  <2> DEFINE k == x.fault + f
             u == x.tab
  <2>10. k \in Nat /\ RenameEnds(d, n, e, m, r, u, taken, k, ok)
    BY <1>1, <2>6, <2>7, <2>8, <2>9 DEF RenameEnds
  <2> HIDE DEF ok, k, u
  <2>11. DirInv' /\ NS!Rename(d, n, e, m, ok)
    BY <1>5, <2>4, <2>8, <2>10, RenameWorks
  <2> QED BY <2>8, <2>11
<1> QED BY <1>6, <1>7, <1>3 DEF Registered

\* A call that changes no table.
LEMMA TablesUnchanged ==
  ASSUME DirInv, UNCHANGED <<table, ns, unseen, trouble>>, Counts', StartKnown', Watched'
  PROVE  DirInv'
BY DEF DirInv, Tables, Directories, Tied

LEMMA ChdirStep ==
  ASSUME DirInv, ChdirRoot \/ ChdirDot \/ (\E n \in Name : ChdirName(n)), UNCHANGED <<ns, unseen>>
  PROVE  DirInv' /\ UNCHANGED <<trouble, answer>>
<1>0. Tables /\ Directories /\ Counts /\ Watched
  BY DEF DirInv
<1>1. UNCHANGED <<table, listing, free, volume, faults, trouble, answer>> /\ lastTable' = NoDir
  BY DEF ChdirRoot, ChdirDot, ChdirName, ClearCaches
<1>2. StartKnown'
  <2>1. NoDir \notin DOMAIN table
    BY <1>0, VolumeAssumption DEF Tables
  <2> QED BY <1>1, <2>1 DEF StartKnown
<1>3. Watched'
  BY <1>0, <1>1 DEF Watched
<1>4. cdir' \in DOMAIN table /\ scanned' \in {Root, cdir'} /\ shortCache' \subseteq ShortName
  <2>1. CASE ChdirRoot
    BY <1>0, <2>1 DEF ChdirRoot, Tables
  <2>2. CASE ChdirDot
    BY <1>0, <2>2 DEF ChdirDot, Counts
  <2>3. ASSUME NEW n \in Name, ChdirName(n)
        PROVE  cdir' \in DOMAIN table /\ scanned' \in {Root, cdir'} /\ shortCache' \subseteq ShortName
    <3> DEFINE t == table[Root]
               c == SlotOf(Root, n).dir
    <3>1. shortCache' \in SUBSET {Short[n]}
      BY <2>3 DEF ChdirName
    <3>2. shortCache' \subseteq ShortName
      BY <3>1, NamesAre
    <3>3. CASE Found(t, n) /\ c # NoDir
      <4>1. cdir' = c /\ scanned' = c
        BY <2>3, <3>3 DEF ChdirName
      <4>2. Root \in DOMAIN table /\ TableType(t)
        BY <1>0 DEF Tables, Made
      <4>3. Where(t, n) \in Entries(t)
        <5> HIDE DEF t
        <5> QED BY <3>3, <4>2, WhereIs
      <4>4. c \in DOMAIN table
        BY <1>0, <3>3, <4>2, <4>3 DEF Directories, SlotOf
      <4> QED BY <3>2, <4>1, <4>4
    <3>4. CASE ~(Found(t, n) /\ c # NoDir)
      <4>1. cdir' = cdir /\ scanned' = Root
        BY <2>3, <3>4 DEF ChdirName
      <4> QED BY <1>0, <3>2, <4>1 DEF Counts
    <3> QED BY <3>3, <3>4
  <2> QED BY <2>1, <2>2, <2>3
<1>5. Counts'
  BY <1>0, <1>1, <1>4 DEF Counts
<1> QED BY <1>1, <1>2, <1>3, <1>5, TablesUnchanged

LEMMA OpendirStep ==
  ASSUME DirInv, NEW d \in DOMAIN table, NEW n \in Name, Opendir(d, n), UNCHANGED <<ns, unseen>>
  PROVE  DirInv' /\ UNCHANGED <<table, trouble, answer>>
<1> DEFINE t == table[d]
           w == Where(t, n)
<1>0. Tables /\ Counts /\ StartKnown
  BY DEF DirInv
<1>1. /\ Found(t, n) /\ listing' = [dir |-> d, pos |-> 1, watch |-> n, due |-> TRUE]
      /\ UNCHANGED <<volume, table, free, cdir, scanned, shortCache, lastTable, lastIdx,
                     faults, answer, trouble>>
  BY DEF Opendir
<1>2. TableType(t)
  BY <1>0 DEF Tables, Made
<1>3. w \in Nat /\ w >= 1
  <2> HIDE DEF t
  <2>1. w \in Entries(t)
    BY <1>1, <1>2, WhereIs
  <2> HIDE DEF w
  <2> QED BY <1>2, <2>1, TableIs
<1>4. d \in DirCluster \cup {Root}
  BY <1>0 DEF Tables
<1>5. Watched'
  <2>1. /\ listing' \in [dir : DirCluster \cup {Root}, pos : Nat, watch : Name, due : BOOLEAN]
        /\ listing'.dir = d /\ listing'.pos = 1 /\ listing'.watch = n /\ listing'.due = TRUE
    BY <1>1, <1>4
  <2>2. Found(table'[d], n) /\ Where(table'[d], n) = w /\ d \in DOMAIN table'
    BY <1>1
  <2> HIDE DEF w
  <2> QED BY <1>3, <2>1, <2>2 DEF Watched
<1>6. Counts' /\ StartKnown'
  BY <1>0, <1>1 DEF Counts, StartKnown
<1> QED BY <1>1, <1>5, <1>6, TablesUnchanged

LEMMA ReaddirStep ==
  ASSUME DirInv, Readdir, UNCHANGED <<ns, unseen>>
  PROVE  DirInv' /\ UNCHANGED <<table, trouble, answer>>
<1> DEFINE d == listing.dir
           pos == listing.pos
           k == listing.watch
           t == table[d]
           rest == {q \in pos .. Len(t) :
                      t[q].kind = "short" /\ \A s \in pos..q : t[s].kind # "end"}
           p == Min(rest)
           w == Where(t, k)
<1>0. Tables /\ Counts /\ StartKnown /\ Watched
  BY DEF DirInv
<1>1. /\ pos > 0
      /\ listing' = IF rest = {} THEN (IF listing.due THEN [listing EXCEPT !.pos = 0] ELSE Closed)
                    ELSE [listing EXCEPT !.pos = IF p = Len(t) THEN 0 ELSE p + 1,
                                         !.due = @ /\ ~IsNamed(t, p, k)]
      /\ UNCHANGED <<volume, table, free, cdir, scanned, shortCache, lastTable, lastIdx,
                     faults, answer, trouble>>
  BY DEF Readdir
<1>2. listing # Closed
  BY <1>1 DEF Closed
<1>3. /\ listing \in [dir : DirCluster \cup {Root}, pos : Nat, watch : Name, due : BOOLEAN]
      /\ d \in DOMAIN table /\ Found(t, k)
      /\ listing.due <=> pos > 0 /\ w >= pos
  BY <1>0, <1>2 DEF Watched
<1>4. TableType(t) /\ pos \in Nat \ {0} /\ k \in Name /\ listing.due \in BOOLEAN
  BY <1>0, <1>1, <1>3 DEF Tables, Made
<1>5. /\ Len(t) \in Nat /\ DOMAIN t = 1..Len(t) /\ \A q \in DOMAIN t : t[q] \in Slot
      /\ \A q \in DOMAIN t : t[q].kind = "end" <=> t[q] = End
  <2> HIDE DEF t
  <2> QED BY <1>4, TableIs, Slots_
<1>6. /\ w \in Entries(t) /\ Seen(t, w) /\ IsNamed(t, w, k)
      /\ \A q \in Entries(t) : Seen(t, q) /\ IsNamed(t, q, k) => w <= q
  <2> HIDE DEF t, k
  <2> QED BY <1>3, <1>4, WhereIs
<1> HIDE DEF w
<1>7. w \in 1..Len(t) /\ t[w].kind = "short"
  BY <1>5, <1>6 DEF Entries
<1>8. rest \subseteq Nat
  BY <1>4
<1>9. w >= pos => w \in rest
  <2> SUFFICES ASSUME w >= pos PROVE w \in rest
    OBVIOUS
  <2>1. ASSUME NEW s \in pos..w, t[s].kind = "end" PROVE FALSE
    <3>1. s \in 1..Len(t) /\ s <= w
      BY <1>4, <1>5, <1>7
    <3>2. t[s] = End
      BY <1>5, <2>1, <3>1
    <3> QED BY <1>5, <1>6, <3>1, <3>2 DEF Seen
  <2>2. w \in pos..Len(t)
    BY <1>4, <1>5, <1>7
  <2> QED BY <1>7, <2>1, <2>2
<1>10. rest # {} => p \in rest /\ (w >= pos => p <= w)
  <2> HIDE DEF rest
  <2> QED BY <1>8, <1>9, LeastNumber
<1>11. rest # {} => p \in 1..Len(t) /\ p >= pos /\ p \in Entries(t)
  <2> HIDE DEF p
  <2> QED BY <1>4, <1>5, <1>10 DEF Entries
<1> HIDE DEF p, rest, pos, t, d, k
<1>12. Counts' /\ StartKnown'
  BY <1>0, <1>1 DEF Counts, StartKnown
<1>13. CASE rest = {}
  <2>1. ~listing.due
    BY <1>3, <1>9, <1>13
  <2>2. listing' = Closed
    BY <1>1, <1>13, <2>1
  <2>3. Watched'
    BY <2>2 DEF Watched
  <2> QED BY <1>1, <1>12, <2>3, TablesUnchanged
<1>14. CASE rest # {}
  <2> DEFINE next == IF p = Len(t) THEN 0 ELSE p + 1
             due == listing.due /\ ~IsNamed(t, p, k)
  <2>1. listing' = [listing EXCEPT !.pos = next, !.due = due]
    BY <1>1, <1>14
  <2>2. listing.due => p <= w /\ (IsNamed(t, p, k) <=> p = w)
    <3> SUFFICES ASSUME listing.due PROVE p <= w /\ (IsNamed(t, p, k) <=> p = w)
      OBVIOUS
    <3>1. p <= w /\ p \in Entries(t) /\ p \in DOMAIN t /\ w \in DOMAIN t
      BY <1>3, <1>5, <1>7, <1>10, <1>11, <1>14
    <3>2. Seen(t, p)
      BY <1>4, <1>6, <3>1, SeenBefore
    <3>3. IsNamed(t, p, k) => w <= p
      BY <1>6, <3>1, <3>2
    <3>4. p \in Nat /\ w \in Nat
      BY <1>7, <1>11, <1>14
    <3> QED BY <1>6, <3>1, <3>3, <3>4
  <2>3. next \in Nat /\ due \in BOOLEAN
    BY <1>5, <1>11, <1>14
  <2>4. (p = Len(t) => next = 0) /\ (p # Len(t) => next = p + 1)
    OBVIOUS
  <2> HIDE DEF next
  <2>5. ~(next > 0) \/ next = p + 1
    BY <2>4
  <2>6. due <=> next > 0 /\ w >= next
    <3>1. CASE listing.due
      <4>1. p <= w /\ p \in 1..Len(t) /\ w \in 1..Len(t)
        BY <1>7, <1>11, <1>14, <2>2, <3>1
      <4>2. due <=> p # w
        BY <2>2, <3>1
      <4>3. CASE p = w
        BY <2>5, <4>1, <4>2, <4>3
      <4>4. CASE p # w
        <5>1. next = p + 1
          <6> DEFINE L == Len(t)
          <6>1. L \in Nat /\ p \in 1..L /\ w \in 1..L /\ p <= w
            BY <1>5, <4>1
          <6> HIDE DEF L
          <6>2. p # L
            BY <4>4, <6>1
          <6> QED BY <2>4, <6>2 DEF L
        <5>2. next > 0 /\ w >= next
          BY <4>1, <4>4, <5>1
        <5> QED BY <4>2, <4>4, <5>2
      <4> QED BY <4>3, <4>4
    <3>2. CASE ~listing.due
      <4>1. w < pos /\ p >= pos /\ p \in 1..Len(t) /\ w \in 1..Len(t)
        <5>1. ~(w >= pos)
          BY <1>3, <1>4, <3>2
        <5> QED BY <1>4, <1>7, <1>11, <1>14, <5>1
      <4>2. ~(next > 0 /\ w >= next)
        BY <1>4, <2>5, <4>1
      <4>3. ~due
        BY <3>2
      <4> QED BY <4>2, <4>3
    <3> QED BY <3>1, <3>2
  <2> HIDE DEF due
  <2>7. /\ listing' \in [dir : DirCluster \cup {Root}, pos : Nat, watch : Name, due : BOOLEAN]
        /\ listing'.dir = d /\ listing'.pos = next /\ listing'.due = due /\ listing'.watch = k
    BY <1>3, <2>1, <2>3 DEF d, k
  <2>8. d \in DOMAIN table' /\ Found(table'[d], k) /\ Where(table'[d], k) = w
    BY <1>1, <1>3 DEF t, w
  <2>9. Watched'
    BY <2>6, <2>7, <2>8 DEF Watched
  <2> QED BY <1>1, <1>12, <2>9, TablesUnchanged
<1> QED BY <1>13, <1>14

LEMMA EveryStep ==
  ASSUME DirInv, [Next]_vars
  PROVE  DirInv' /\ [NS!Next]_<<ns, unseen, trouble, answer>>
<1>1. CASE UNCHANGED vars
  <2>1. UNCHANGED <<ns, unseen, trouble, answer>>
    BY <1>1 DEF vars
  <2> QED BY <1>1, <2>1 DEF vars, DirInv, Tables, Directories, Counts, StartKnown, Watched, Tied
<1>2. CASE Next
  <2>1. Call /\ (table' = table => UNCHANGED <<ns, unseen>>)
    BY <1>2 DEF Next
  <2>2. ns' = Meaning(table') /\ unseen' = Unseen(table')
    BY <1>2 DEF Next, DirInv, Tied
  <2>3. DOMAIN ns = DOMAIN table /\ Root \in DOMAIN table
    BY RowsAre DEF DirInv, Tables, Tied
  <2>4. ASSUME NEW d \in DOMAIN table, NEW n \in Name, OpenNew(d, n) PROVE DirInv' /\ NS!Next
    BY <2>2, <2>3, <2>4, OpenStep DEF NS!Next
  <2>5. ASSUME NEW d \in DOMAIN table, NEW n \in Name, Unlink(d, n) PROVE DirInv' /\ NS!Next
    BY <2>2, <2>3, <2>5, UnlinkStep DEF NS!Next
  <2>6. ASSUME NEW n \in Name, NEW c \in DirCluster, Mkdir(n, c) PROVE DirInv' /\ NS!Next
    BY <2>2, <2>3, <2>6, MkdirStep DEF NS!Next
  <2>7. ASSUME NEW d \in DOMAIN table, NEW e \in DOMAIN table, NEW n \in Name, NEW m \in Name,
               Rename(d, n, e, m)
        PROVE  DirInv' /\ NS!Next
    BY <2>2, <2>3, <2>7, RenameStep DEF NS!Next
  <2>8. ASSUME ChdirRoot \/ ChdirDot \/ \E n \in Name : ChdirName(n)
        PROVE  DirInv' /\ UNCHANGED <<ns, unseen, trouble, answer>>
    <3>1. table' = table
      BY <2>8 DEF ChdirRoot, ChdirDot, ChdirName
    <3> QED BY <2>1, <2>8, <3>1, ChdirStep
  <2>9. ASSUME NEW d \in DOMAIN table, NEW n \in Name, Opendir(d, n)
        PROVE  DirInv' /\ UNCHANGED <<ns, unseen, trouble, answer>>
    <3>1. table' = table
      BY <2>9 DEF Opendir
    <3> QED BY <2>1, <2>9, <3>1, OpendirStep
  <2>10. ASSUME Readdir PROVE DirInv' /\ UNCHANGED <<ns, unseen, trouble, answer>>
    <3>1. table' = table
      BY <2>10 DEF Readdir
    <3> QED BY <2>1, <2>10, <3>1, ReaddirStep
  <2> QED BY <2>1, <2>4, <2>5, <2>6, <2>7, <2>8, <2>9, <2>10 DEF Call
<1> QED BY <1>1, <1>2

LEMMA Started ==
  ASSUME Init
  PROVE  DirInv /\ NS!Init
<1> DEFINE t == Cleared(Slots)
<1>1. /\ table = [d \in {Root} |-> t] /\ volume \in 0..Clusters /\ free = volume /\ faults = 0
      /\ cdir = Root /\ scanned = Root /\ shortCache = {} /\ lastTable = NoDir
      /\ listing = Closed /\ ns = Meaning(table) /\ unseen = Unseen(table) /\ trouble = {}
  BY DEF Init
<1>2. /\ t \in Seq(Slot) /\ Len(t) = Slots /\ DOMAIN t = 1..Slots
      /\ \A i \in DOMAIN t : t[i] = End
  BY VolumeAssumption, Slots_ DEF Cleared
<1> HIDE DEF t
<1>3. Entries(t) = {} /\ \A i \in DOMAIN t : t[i].kind = "end" /\ t[i] # Deleted
  BY <1>2, Slots_ DEF Entries
<1>4. TableType(t)
  <2>1. Len(t) = Slots * 1 /\ 1 \in 1..MaxClusters
    BY <1>2, VolumeAssumption
  <2> QED BY <1>2, <2>1 DEF TableType
<1>5. Made(t) /\ Neat(t)
  BY <1>2, <1>3, <1>4 DEF Made, Neat, Packed, Single
<1>6. DOMAIN table = {Root} /\ table[Root] = t /\ table = [d \in DOMAIN table |-> table[d]]
  BY <1>1
<1>7. Tables
  BY <1>5, <1>6 DEF Tables
<1>8. Directories
  BY <1>3, <1>6 DEF Directories
<1>9. Counts
  BY <1>1, <1>6, VolumeAssumption DEF Counts
<1>10. StartKnown /\ Watched /\ Tied
  BY <1>1, <1>6, VolumeAssumption DEF StartKnown, Watched, Tied
<1>11. Row(t) = NS!Empty /\ Pairs(t) = {}
  <2>1. \A k \in Name : Object(t, k) = Absent /\ Hidden(t, k) = {}
    <3>1. \A q \in DOMAIN t, k \in Name : ~IsNamed(t, q, k)
      BY <1>3 DEF IsNamed, Entries
    <3> QED BY <1>3, <1>4, <3>1, ObjectIs, WhereIs DEF Hidden
  <2> QED BY <2>1 DEF Row, Pairs, NS!Empty
<1>12. ns = [d \in {Root} |-> NS!Empty] /\ unseen = [d \in {Root} |-> {}]
  <2>1. Meaning(table) = [d \in {Root} |-> Row(table[d])]
        /\ Unseen(table) = [d \in {Root} |-> Pairs(table[d])]
    BY <1>6 DEF Meaning, Unseen, Row, Pairs
  <2> QED BY <1>1, <1>6, <1>11, <2>1
<1>13. NS!Init
  BY <1>12 DEF Init, NS!Init
<1> QED BY <1>7, <1>8, <1>9, <1>10, <1>13 DEF DirInv

-----------------------------------------------------------------------------
(* The clusters of the tables, counted.                                      *)

\* The clusters of the directories D, whose tables are t.
Cells(D, t) == UNION {{d} \X (1 .. HeldBy(t[d])) : d \in D}

LEMMA HeldIs ==
  ASSUME NEW t, Made(t)
  PROVE  HeldBy(t) \in Nat
  BY TableIs, VolumeAssumption DEF HeldBy, Made

LEMMA SameCells ==
  ASSUME NEW D, NEW t, NEW u, \A d \in D : HeldBy(u[d]) = HeldBy(t[d])
  PROVE  Cells(D, u) = Cells(D, t)
  BY DEF Cells

LEMMA OneMore ==
  ASSUME NEW D, NEW c, c \notin D, NEW t, HeldBy(t[c]) \in Nat, IsFiniteSet(Cells(D, t))
  PROVE  /\ IsFiniteSet(Cells(D \cup {c}, t))
         /\ Cardinality(Cells(D \cup {c}, t)) = Cardinality(Cells(D, t)) + HeldBy(t[c])
<1> DEFINE k == HeldBy(t[c])
           A == Cells(D, t)
           B == {c} \X (1..k)
<1>0. k = HeldBy(t[c])
  OBVIOUS
<1>1. Cells(D \cup {c}, t) = A \cup B
  BY DEF Cells
<1>2. A \cap B = {}
  BY DEF Cells
<1>3. IsFiniteSet(B) /\ Cardinality(B) = k
  <2>1. IsFiniteSet({c}) /\ Cardinality({c}) = 1
    BY FS_Singleton
  <2>2. IsFiniteSet(1..k) /\ Cardinality(1..k) = k
    BY FS_Interval
  <2>3. /\ IsFiniteSet({c} \X (1..k))
        /\ Cardinality({c} \X (1..k)) = Cardinality({c}) * Cardinality(1..k)
    BY <2>1, <2>2, FS_Product, Zenon
  <2>4. 1 * k = k
    OBVIOUS
  <2> QED BY <2>1, <2>2, <2>3, <2>4
<1>4. IsFiniteSet(A) /\ Cardinality(A) \in Nat /\ k \in Nat
  BY FS_CardinalityType
<1>5. Cardinality(A \cap B) = 0
  BY <1>2, FS_EmptySet
<1> HIDE DEF A, B, k
<1>6. /\ IsFiniteSet(A \cup B)
      /\ Cardinality(A \cup B) = Cardinality(A) + Cardinality(B) - Cardinality(A \cap B)
  BY <1>3, <1>4, FS_Union
<1>7. Cardinality(A \cup B) = Cardinality(A) + k
  BY <1>3, <1>4, <1>5, <1>6
<1> QED BY <1>1, <1>6, <1>7 DEF A, k

LEMMA OneLess ==
  ASSUME NEW D, NEW c \in D, NEW t, HeldBy(t[c]) \in Nat, IsFiniteSet(Cells(D, t))
  PROVE  /\ IsFiniteSet(Cells(D \ {c}, t))
         /\ Cardinality(Cells(D, t)) = Cardinality(Cells(D \ {c}, t)) + HeldBy(t[c])
<1>1. Cells(D \ {c}, t) \in SUBSET Cells(D, t)
  BY DEF Cells
<1>2. IsFiniteSet(Cells(D \ {c}, t))
  BY <1>1, FS_Subset
<1>3. c \notin D \ {c} /\ (D \ {c}) \cup {c} = D
  OBVIOUS
<1> DEFINE E == D \ {c}
<1> HIDE DEF E
<1>4. Cardinality(Cells(E \cup {c}, t)) = Cardinality(Cells(E, t)) + HeldBy(t[c])
  BY <1>2, <1>3, OneMore DEF E
<1> QED BY <1>2, <1>3, <1>4 DEF E

LEMMA Resized ==
  ASSUME NEW D, NEW d \in D, NEW t, NEW u, IsFiniteSet(Cells(D, t)),
         \A e \in D : e # d => HeldBy(u[e]) = HeldBy(t[e]),
         HeldBy(t[d]) \in Nat, HeldBy(u[d]) \in Nat
  PROVE  /\ IsFiniteSet(Cells(D, u)) /\ Cardinality(Cells(D, t)) \in Nat
         /\ Cardinality(Cells(D, u)) \in Nat
         /\ Cardinality(Cells(D, u)) + HeldBy(t[d]) = Cardinality(Cells(D, t)) + HeldBy(u[d])
<1> DEFINE E == D \ {d}
<1>1. d \notin E /\ E \cup {d} = D
  OBVIOUS
<1>2. IsFiniteSet(Cells(E, t)) /\ Cardinality(Cells(D, t)) = Cardinality(Cells(E, t)) + HeldBy(t[d])
  BY OneLess
<1>3. Cells(E, u) = Cells(E, t)
  BY SameCells
<1> HIDE DEF E
<1>4. /\ IsFiniteSet(Cells(E \cup {d}, u))
      /\ Cardinality(Cells(E \cup {d}, u)) = Cardinality(Cells(E, u)) + HeldBy(u[d])
  BY <1>1, <1>2, <1>3, OneMore
<1>5. Cardinality(Cells(E, t)) \in Nat
  BY <1>2, FS_CardinalityType
<1> QED BY <1>1, <1>2, <1>3, <1>4, <1>5

\* The invariant: the tables have finitely many clusters, and with the free ones
\* they are all there were.
Accounted == IsFiniteSet(TableClusters) /\ ClustersAccounted

LEMMA ClustersAre == TableClusters = Cells(DOMAIN table, table) /\ TableClusters' = Cells(DOMAIN table', table')
  BY DEF TableClusters, Cells, HeldBy

\* A call that stretches the table of d, at the cost of free clusters.
LEMMA StretchCounts ==
  ASSUME Accounted, NEW d \in DOMAIN table, NEW u, NEW fr \in Nat, DOMAIN u = DOMAIN table,
         free \in Nat, volume \in Nat,
         Made(table[d]), HeldBy(u[d]) \in Nat, HeldBy(u[d]) + fr = HeldBy(table[d]) + free,
         \A e \in DOMAIN table : e # d => HeldBy(u[e]) = HeldBy(table[e])
  PROVE  IsFiniteSet(Cells(DOMAIN u, u)) /\ fr + Cardinality(Cells(DOMAIN u, u)) = volume + 1
<1>1. HeldBy(table[d]) \in Nat /\ HeldBy(u[d]) \in Nat
  BY HeldIs
<1>2. IsFiniteSet(Cells(DOMAIN table, table)) /\ free + Cardinality(Cells(DOMAIN table, table)) = volume + 1
  BY ClustersAre DEF Accounted, ClustersAccounted
<1>3. LET t == table
          D == DOMAIN table
      IN  /\ IsFiniteSet(Cells(D, u)) /\ Cardinality(Cells(D, t)) \in Nat
          /\ Cardinality(Cells(D, u)) \in Nat
          /\ Cardinality(Cells(D, u)) + HeldBy(t[d]) = Cardinality(Cells(D, t)) + HeldBy(u[d])
  BY <1>1, <1>2, Resized
<1> QED BY <1>1, <1>2, <1>3

LEMMA OpenCounts ==
  ASSUME DirInv, Accounted, NEW d \in DOMAIN table, NEW n \in Name, OpenNew(d, n)
  PROVE  Accounted'
<1>1. PICK r \in Registrations(d, n, free, NoDir) : table' = [table EXCEPT ![d] = r.tab] /\ free' = r.free
  BY DEF OpenNew
<1>2. free \in Nat /\ volume \in Nat /\ Made(table[d]) /\ volume' = volume
  BY DEF DirInv, Counts, Tables, OpenNew
<1>3. Registered(d, n, free, NoDir, r)
  BY <1>2, RegisterOK
<1>4. r.free \in Nat /\ Made(r.tab) /\ HeldBy(r.tab) + r.free = HeldBy(table[d]) + free
  BY <1>2, <1>3 DEF Registered
<1>5. /\ DOMAIN table' = DOMAIN table /\ table'[d] = r.tab
      /\ \A e \in DOMAIN table : e # d => table'[e] = table[e]
  BY <1>1
<1>6. HeldBy(table'[d]) \in Nat
  BY <1>4, <1>5, HeldIs
<1>7. /\ IsFiniteSet(Cells(DOMAIN table', table'))
      /\ r.free + Cardinality(Cells(DOMAIN table', table')) = volume + 1
  BY <1>2, <1>4, <1>5, <1>6, StretchCounts
<1> QED BY <1>1, <1>2, <1>7, ClustersAre DEF Accounted, ClustersAccounted

\* What a removed directory held is free again.
LEMMA UnlinkCounts ==
  ASSUME DirInv, Accounted, NEW d \in DOMAIN table, NEW n \in Name, Unlink(d, n)
  PROVE  Accounted'
<1> DEFINE t == table[d]
           p == Where(t, n)
           c == t[p].dir
<1>0. Tables /\ Directories /\ Counts
  BY DEF DirInv
<1>1. PICK x \in Removals(t, Block(t, p), p) :
        /\ free' = IF x.ok THEN free + Chain(c) ELSE free
        /\ table' = [e \in DOMAIN table \ (IF x.ok THEN {c} ELSE {}) |->
                       IF e = d THEN x.tab ELSE table[e]]
  BY DEF Unlink
<1>2. Made(t) /\ TableType(t) /\ Found(t, n) /\ free \in Nat /\ volume \in Nat /\ volume' = volume
  BY <1>0 DEF Tables, Counts, Made, Unlink
<1>3. SameEnds(t, x.tab) /\ x.ok \in BOOLEAN
  <2> HIDE DEF t
  <2>1. Changed(t, t, 0, 0, n, NoDir, {}, {}) /\ Longs(t, t)
    BY <1>2, NothingChanges
  <2> QED BY <1>2, <2>1, RemovalChanges
<1>4. p \in Entries(t) /\ c \in DirCluster \cup {NoDir}
  <2> HIDE DEF t
  <2>1. p \in Entries(t)
    BY <1>2, WhereIs
  <2> HIDE DEF p
  <2> QED BY <1>2, <2>1, TableIs, Slots_
<1>5. NoDir \notin DOMAIN table /\ (c # NoDir => c \in DOMAIN table /\ c # d)
  <2>1. c # NoDir => d = Root /\ c \in DOMAIN table
    BY <1>0, <1>4 DEF Directories
  <2>2. NoDir \notin DOMAIN table
    BY <1>0, VolumeAssumption DEF Tables
  <2> QED BY <1>4, <2>1, <2>2, VolumeAssumption
<1> DEFINE w == [e \in DOMAIN table |-> IF e = d THEN x.tab ELSE table[e]]
           gone == IF x.ok THEN {c} ELSE {}
<1>6. DOMAIN w = DOMAIN table /\ w[d] = x.tab /\ \A e \in DOMAIN table : e # d => w[e] = table[e]
  OBVIOUS
<1>7. DOMAIN table' = DOMAIN w \ gone /\ \A e \in DOMAIN table' : table'[e] = w[e]
  BY <1>1
<1> HIDE DEF w
<1>8. \A e \in DOMAIN table : HeldBy(table[e]) \in Nat /\ HeldBy(w[e]) = HeldBy(table[e])
  BY <1>0, <1>3, <1>6, HeldIs, PackedKept DEF Tables
<1>9. IsFiniteSet(Cells(DOMAIN w, w)) /\ free + Cardinality(Cells(DOMAIN w, w)) = volume + 1
  <2>1. HeldBy(w[d]) \in Nat /\ HeldBy(w[d]) + free = HeldBy(table[d]) + free
    BY <1>8
  <2> HIDE DEF t
  <2> QED BY <1>2, <1>6, <1>8, <2>1, StretchCounts DEF t
<1>10. Cells(DOMAIN table', table') = Cells(DOMAIN w \ gone, w)
  BY <1>7, SameCells
<1> HIDE DEF c, t
<1>11. CASE ~x.ok \/ c = NoDir
  <2>1. DOMAIN w \ gone = DOMAIN w
    BY <1>5, <1>6, <1>11
  <2>2. free' = free
    BY <1>1, <1>2, <1>11 DEF Chain
  <2> QED BY <1>2, <1>9, <1>10, <2>1, <2>2, ClustersAre DEF Accounted, ClustersAccounted
<1>12. CASE x.ok /\ c # NoDir
  <2>1. Chain(c) = HeldBy(w[c]) /\ c \in DOMAIN w /\ HeldBy(w[c]) \in Nat
    BY <1>5, <1>6, <1>8, <1>12 DEF Chain, HeldBy
  <2> DEFINE D == DOMAIN w
  <2> HIDE DEF D
  <2>2. /\ IsFiniteSet(Cells(D \ {c}, w))
        /\ Cardinality(Cells(D, w)) = Cardinality(Cells(D \ {c}, w)) + HeldBy(w[c])
    BY <1>9, <2>1, OneLess DEF D
  <2>3. Cardinality(Cells(D \ {c}, w)) \in Nat
    BY <2>2, FS_CardinalityType
  <2>4. free' = free + HeldBy(w[c]) /\ Cells(DOMAIN table', table') = Cells(D \ {c}, w)
    BY <1>1, <1>10, <1>12, <2>1 DEF D
  <2> QED BY <1>2, <1>9, <2>1, <2>2, <2>3, <2>4, ClustersAre DEF Accounted, ClustersAccounted, D
<1> QED BY <1>11, <1>12

\* A directory made holds the cluster taken for it, and one refused gives it back.
LEMMA MkdirCounts ==
  ASSUME DirInv, Accounted, NEW n \in Name, NEW c \in DirCluster, Mkdir(n, c)
  PROVE  Accounted'
<1> DEFINE fresh == <<Dot, Dot>> \o Cleared(Slots - 2)
<1>1. PICK r \in Registrations(Root, n, free - 1, c) :
        LET w == [table EXCEPT ![Root] = r.tab] IN
        /\ table' = IF r.ok THEN [e \in DOMAIN w \cup {c} |-> IF e = c THEN fresh ELSE w[e]] ELSE w
        /\ free' = IF r.ok THEN r.free ELSE r.free + 1
  BY DEF Mkdir
<1> DEFINE w == [table EXCEPT ![Root] = r.tab]
<1>2. /\ free - 1 \in Nat /\ free \in Nat /\ volume \in Nat /\ c \notin DOMAIN table /\ volume' = volume
      /\ Root \in DOMAIN table /\ Made(table[Root])
  BY DEF Mkdir, DirInv, Tables, Counts
<1>3. Registered(Root, n, free - 1, c, r)
  BY <1>2, RegisterOK
<1>4. HeldBy(fresh) = 1
  BY NewTable
<1>5. DOMAIN w = DOMAIN table /\ w[Root] = r.tab /\ \A e \in DOMAIN table : e # Root => w[e] = table[e]
  BY <1>2
<1>6. table' = (IF r.ok THEN [e \in DOMAIN w \cup {c} |-> IF e = c THEN fresh ELSE w[e]] ELSE w)
      /\ free' = IF r.ok THEN r.free ELSE r.free + 1
  BY <1>1
<1> HIDE DEF fresh, w
<1>7. /\ r.ok \in BOOLEAN /\ r.free \in Nat /\ HeldBy(r.tab) \in Nat
      /\ HeldBy(r.tab) + (r.free + 1) = HeldBy(table[Root]) + free
  <2>1. /\ r.ok \in BOOLEAN /\ r.free \in 0..(free - 1) /\ Made(r.tab)
        /\ HeldBy(r.tab) + r.free = HeldBy(table[Root]) + (free - 1)
    BY <1>3 DEF Registered
  <2>2. HeldBy(r.tab) \in Nat /\ HeldBy(table[Root]) \in Nat
    BY <1>2, <2>1, HeldIs
  <2> QED BY <1>2, <2>1, <2>2
<1>8. /\ IsFiniteSet(Cells(DOMAIN w, w))
      /\ (r.free + 1) + Cardinality(Cells(DOMAIN w, w)) = volume + 1
  <2> DEFINE fr == r.free + 1
  <2>1. fr \in Nat /\ HeldBy(w[Root]) \in Nat /\ HeldBy(w[Root]) + fr = HeldBy(table[Root]) + free
    BY <1>5, <1>7
  <2> HIDE DEF fr
  <2>2. fr + Cardinality(Cells(DOMAIN w, w)) = volume + 1 /\ IsFiniteSet(Cells(DOMAIN w, w))
    BY <1>2, <1>5, <2>1, StretchCounts
  <2> QED BY <2>2 DEF fr
<1>9. CASE ~r.ok
  BY <1>2, <1>6, <1>8, <1>9, ClustersAre DEF Accounted, ClustersAccounted
<1>10. CASE r.ok
  <2> DEFINE D == DOMAIN w
  <2>1. DOMAIN table' = D \cup {c} /\ c \notin D /\ table'[c] = fresh
        /\ \A e \in D : table'[e] = w[e]
    BY <1>2, <1>5, <1>6, <1>10
  <2> HIDE DEF D
  <2>2. Cells(D, table') = Cells(D, w)
    BY <2>1, SameCells
  <2>3. /\ IsFiniteSet(Cells(D \cup {c}, table'))
        /\ Cardinality(Cells(D \cup {c}, table')) = Cardinality(Cells(D, table')) + HeldBy(fresh)
    <3> DEFINE t == table'
    <3>1. HeldBy(t[c]) \in Nat /\ IsFiniteSet(Cells(D, t)) /\ t[c] = fresh
      BY <1>4, <1>8, <2>1, <2>2 DEF D
    <3> HIDE DEF t
    <3>2. /\ IsFiniteSet(Cells(D \cup {c}, t))
          /\ Cardinality(Cells(D \cup {c}, t)) = Cardinality(Cells(D, t)) + HeldBy(t[c])
      BY <2>1, <3>1, OneMore
    <3> QED BY <3>1, <3>2 DEF t
  <2>4. Cardinality(Cells(D, w)) \in Nat
    BY <1>8, FS_CardinalityType DEF D
  <2>5. free' + Cardinality(Cells(DOMAIN table', table')) = volume' + 1
    BY <1>2, <1>4, <1>6, <1>7, <1>8, <1>10, <2>1, <2>2, <2>3, <2>4 DEF D
  <2> QED BY <2>1, <2>3, <2>5, ClustersAre DEF Accounted, ClustersAccounted
<1> QED BY <1>7, <1>9, <1>10

\* f_rename stretches the table of the new name; removing an entry leaves a table its size.
LEMMA RenameCounts ==
  ASSUME DirInv, Accounted, NEW d \in DOMAIN table, NEW n \in Name, NEW e \in DOMAIN table,
         NEW m \in Name, Rename(d, n, e, m)
  PROVE  Accounted'
<1> DEFINE p == Where(table[d], n)
           o == table[d][p].dir
<1>1. /\ Found(table[d], n) /\ (o # NoDir => e = Root)
      /\ Found(table[e], m) => d = e /\ Where(table[e], m) = p
      /\ volume' = volume
  BY DEF Rename, IsDir, SlotOf
<1>2. PICK r \in Registrations(e, m, free, o) :
        /\ free' = r.free
        /\ \/ ~r.ok /\ table' = [table EXCEPT ![e] = r.tab]
           \/ /\ r.ok
              /\ \E x \in Removals([table EXCEPT ![e] = r.tab][d], Block(table[d], p), p) :
                   table' = [[table EXCEPT ![e] = r.tab] EXCEPT ![d] = x.tab]
  BY DEF Rename
<1>3. free \in Nat /\ volume \in Nat /\ \A f \in DOMAIN table : Made(table[f])
  BY DEF DirInv, Counts, Tables
<1>4. Registered(e, m, free, o, r)
  <2>1. o \in DirCluster \cup {NoDir}
    BY <1>1, RenameNames
  <2> HIDE DEF o
  <2> QED BY <1>3, <2>1, RegisterOK
<1>5. /\ r.free \in Nat /\ HeldBy(r.tab) \in Nat
      /\ HeldBy(r.tab) + r.free = HeldBy(table[e]) + free
  BY <1>3, <1>4, HeldIs DEF Registered
<1>6. /\ DOMAIN table' = DOMAIN table
      /\ HeldBy(table'[e]) = HeldBy(r.tab)
      /\ \A f \in DOMAIN table : f # e => HeldBy(table'[f]) = HeldBy(table[f])
  <2>1. CASE ~r.ok
    BY <1>2, <2>1
  <2>2. CASE r.ok
    <3> DEFINE w == [table EXCEPT ![e] = r.tab][d]
    <3>1. w = IF d = e THEN r.tab ELSE table[d]
      OBVIOUS
    <3>2. PICK x \in Removals(w, Block(table[d], p), p) :
            table' = [[table EXCEPT ![e] = r.tab] EXCEPT ![d] = x.tab]
      BY <1>2, <2>2
    <3>3. Registers(d, n, e, m, r)
      BY <1>1, <1>4, <2>2 DEF Registers
    <3> HIDE DEF w
    <3>4. RemovedWell(d, n, e, m, r, x)
      BY <3>1, <3>2, <3>3, RenamedIs
    <3>5. HeldBy(x.tab) = HeldBy(w)
      BY <3>1, <3>4, PackedKept DEF RemovedWell, Renamed
    <3> QED BY <3>1, <3>2, <3>5
  <2> QED BY <1>2, <2>1, <2>2
<1>7. /\ IsFiniteSet(Cells(DOMAIN table', table'))
      /\ r.free + Cardinality(Cells(DOMAIN table', table')) = volume + 1
  <2>1. HeldBy(table'[e]) \in Nat /\ HeldBy(table'[e]) + r.free = HeldBy(table[e]) + free
    BY <1>5, <1>6
  <2> QED BY <1>3, <1>5, <1>6, <2>1, StretchCounts
<1> QED BY <1>1, <1>2, <1>7, ClustersAre DEF Accounted, ClustersAccounted

LEMMA StepCounts ==
  ASSUME DirInv, Accounted, [Next]_vars
  PROVE  Accounted'
<1>1. CASE UNCHANGED <<table, free, volume>>
  BY <1>1 DEF Accounted, ClustersAccounted, TableClusters
<1>2. CASE Next
  <2>1. Call
    BY <1>2 DEF Next
  <2>2. \A d \in DOMAIN table, n \in Name : OpenNew(d, n) \/ Unlink(d, n) => Accounted'
    BY OpenCounts, UnlinkCounts
  <2>3. \A n \in Name, c \in DirCluster : Mkdir(n, c) => Accounted'
    BY MkdirCounts
  <2>4. \A d, e \in DOMAIN table, n, m \in Name : Rename(d, n, e, m) => Accounted'
    BY RenameCounts
  <2>5. ChdirRoot \/ ChdirDot \/ Readdir \/ (\E n \in Name : ChdirName(n))
          \/ (\E d \in DOMAIN table, n \in Name : Opendir(d, n)) => UNCHANGED <<table, free, volume>>
    BY DEF ChdirRoot, ChdirDot, ChdirName, Opendir, Readdir
  <2> QED BY <1>1, <2>1, <2>2, <2>3, <2>4, <2>5 DEF Call
<1> QED BY <1>1, <1>2 DEF vars

LEMMA CountsStarted ==
  ASSUME Init
  PROVE  Accounted
<1>1. DirInv /\ DOMAIN table = {Root} /\ table[Root] = Cleared(Slots) /\ volume = free /\ free \in Nat
  BY Started DEF Init, DirInv, Counts
<1>2. Len(Cleared(Slots)) = Slots
  BY VolumeAssumption, Slots_ DEF Cleared
<1>3. HeldBy(table[Root]) = 1
  BY <1>1, <1>2, VolumeAssumption DEF HeldBy
<1>4. Cells({}, table) = {}
  BY DEF Cells
<1>5. IsFiniteSet(Cells({}, table)) /\ Cardinality(Cells({}, table)) = 0
  BY <1>4, FS_EmptySet
<1>6. /\ IsFiniteSet(Cells({} \cup {Root}, table))
      /\ Cardinality(Cells({} \cup {Root}, table)) = Cardinality(Cells({}, table)) + HeldBy(table[Root])
  <2> DEFINE D == {}
  <2>1. Root \notin D
    OBVIOUS
  <2> HIDE DEF D
  <2>2. IsFiniteSet(Cells(D, table)) /\ HeldBy(table[Root]) \in Nat
    BY <1>3, <1>5 DEF D
  <2>3. /\ IsFiniteSet(Cells(D \cup {Root}, table))
        /\ Cardinality(Cells(D \cup {Root}, table)) = Cardinality(Cells(D, table)) + HeldBy(table[Root])
    BY <2>1, <2>2, OneMore
  <2> QED BY <2>3 DEF D
<1>7. TableClusters = Cells({} \cup {Root}, table)
  BY <1>1, ClustersAre
<1> QED BY <1>1, <1>3, <1>5, <1>6, <1>7 DEF Accounted, ClustersAccounted

-----------------------------------------------------------------------------
(* The theorems.                                                             *)

\* DirInv holds throughout, for any volume and any pattern of refused accesses.
THEOREM DirInvHolds == Spec => []DirInv
<1>1. Init => DirInv
  BY Started
<1>2. DirInv /\ [Next]_vars => DirInv'
  BY EveryStep
<1> QED BY <1>1, <1>2, PTL DEF Spec

\* The variables hold what they are declared to hold, and the index dir_alloc
\* starts at lies in the table it is kept for, whatever became of the directory
\* that had this cluster before (ff.c:1786).
THEOREM TypesHold == Spec => []TypeOK
<1>1. DirInv => TypeOK
  <2> SUFFICES ASSUME DirInv PROVE TypeOK
    OBVIOUS
  <2>0. Tables /\ Counts /\ StartKnown /\ trouble \subseteq DOMAIN table
    BY DEF DirInv, Tied
  <2>1. \A d \in DOMAIN table : table[d] \in Seq(Slot)
    BY <2>0, TableIs DEF Tables, Made
  <2>2. table \in [DOMAIN table -> Seq(Slot)]
    BY <2>0, <2>1 DEF Tables
  <2>3. {cdir, scanned} \subseteq DOMAIN table
    BY <2>0 DEF Counts, Tables
  <2> QED BY <2>0, <2>2, <2>3 DEF TypeOK, Tables, Counts, StartKnown, StartInTable
<1> QED BY <1>1, DirInvHolds, PTL

\* Whatever is created, removed or renamed, and wherever dir_register or
\* dir_remove is stopped by the drive, a name leads only to entries made for it
\* (ff.c:2689, ff.c:2742).
THEOREM NamesStayTheirOwn == Spec => []NamesAreTheirOwn
<1>1. DirInv => NamesAreTheirOwn
  <2> SUFFICES ASSUME DirInv, NEW d \in DOMAIN table, NEW p \in DOMAIN table[d], NEW n \in Name,
                      IsNamed(table[d], p, n)
               PROVE  table[d][p].for = n
    BY DEF NamesAreTheirOwn
  <2>1. Made(table[d])
    BY DEF DirInv, Tables
  <2>2. p \in Entries(table[d])
    BY DEF Entries, IsNamed
  <2> QED BY <2>1, <2>2 DEF Made
<1> QED BY <1>1, DirInvHolds, PTL

\* A listing names whatever is there from its start to its end, once, whatever
\* other calls do between its steps and however they fail (ff.c:2292).
THEOREM ListingStaysFaithful == Spec => []ListingIsFaithful
<1>1. DirInv => ListingIsFaithful
  BY DEF DirInv, Watched, ListingIsFaithful, Closed
<1> QED BY <1>1, DirInvHolds, PTL

\* No call loses a cluster of the volume or finds one too many: not f_mkdir when it
\* finds no room for the name, nor any call that is refused an access to an entry
\* (ff.c:5269).
THEOREM ClustersStayAccounted == Spec => []ClustersAccounted
<1>1. Init => Accounted
  BY CountsStarted
<1>2. DirInv /\ Accounted /\ [Next]_vars => Accounted'
  BY StepCounts
<1>3. Accounted => ClustersAccounted
  BY DEF Accounted
<1> QED BY <1>1, <1>2, <1>3, DirInvHolds, PTL DEF Spec

\* The tables implement the tree of names of NameSpace: the first table maps to the
\* empty tree, and every call, failing ones included, to a step with its answer.
THEOREM DirectoriesImplementNames == Spec => IsNameSpace
<1>1. Init => NS!Init
  BY Started
<1>2. DirInv /\ [Next]_vars => [NS!Next]_<<ns, unseen, trouble, answer>>
  BY EveryStep
<1> QED BY <1>1, <1>2, DirInvHolds, PTL DEF Spec, IsNameSpace, NS!Spec

=============================================================================
