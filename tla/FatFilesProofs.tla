--------------------------- MODULE FatFilesProofs ---------------------------
(***************************************************************************)
(* Proofs about FatFiles, for any number of files and clusters, any size   *)
(* of a cluster and any failing accesses: that the links follow the data,  *)
(* that each position and each part of a size has its cluster, and that no *)
(* cluster and no count is lost while every access works.                  *)
(*                                                                         *)
(* Chained says where the clusters of one file are: Laid, where the links  *)
(* from part to part stand, in the table or in the file object's pieces;   *)
(* Ends, that the last leads nowhere; Sized, that no part of the size is   *)
(* without a cluster.  Busy says what a call in progress adds to it at     *)
(* each of its steps, CutOff what remove_chain has cut off and still has   *)
(* to free.  FilesInv is all of it, and each action is shown to keep it:   *)
(* Frame and CallStep leave to an action what it does to its own file.     *)
(***************************************************************************)
EXTENDS FatFiles, FiniteSetTheorems, WellFoundedInduction, TLAPS

-----------------------------------------------------------------------------
(* What the proofs say of a volume v, where clusters hold h and the table is *)
(* t, and of a file f with the object o.                                     *)

\* The clusters that n units take.
Parts(n) == (n + ClusterSize - 1) \div ClusterSize

HasPart(h, f, k) == \E c \in Of(h, f) : h[c].part = k

\* Each part of a file is in one cluster, and no part is missing before one there is.
Placed(h) ==
    /\ h \in [Cluster -> {Nothing} \cup [file : File, part : Nat \ {0}]]
    /\ \A f \in File : \A c, d \in Of(h, f) : h[c].part = h[d].part => c = d
    /\ \A f \in File : \A c \in Of(h, f) : \A k \in 1..h[c].part : HasPart(h, f, k)

\* get_fat, of any table.
LinkOf(v, t, o, c) ==
    IF c \notin Cluster THEN 1
    ELSE IF v = "FAT" THEN t[c]
    ELSE IF o.stat # 0 /\ (o.objsize = 0 \/ o.sclust = 0) THEN 1
    ELSE IF o.stat = 2
         THEN (IF c - o.sclust \notin 0..LastOffset(o) THEN 1
               ELSE IF c - o.sclust = LastOffset(o) THEN EOC ELSE c + 1)
    ELSE IF o.stat = 3 /\ c - o.sclust \in 0..o.n_cont - 1 THEN c + 1
    ELSE IF o.n_frag # 0 THEN EOC ELSE t[c]

\* Where the links from part to part are.  In one piece (stat 2) there are none; of
\* two pieces (stat 3) the first has none; the last n_frag clusters have none yet.
OnePiece(h, o, f) ==
    o.stat = 2 => o.n_frag = 0 /\ \A c \in Of(h, f) : c = o.sclust + h[c].part - 1
FirstPiece(h, o, f) ==
    o.stat = 3 => \A c \in Of(h, f) : h[c].part <= o.n_cont + 1 => c = o.sclust + h[c].part - 1
LastPiece(h, o, f) ==
    o.n_frag # 0 =>
        /\ o.clust \in Of(h, f) /\ o.n_frag <= h[o.clust].part
        /\ \A c \in Of(h, f) :
             /\ h[c].part <= h[o.clust].part
             /\ h[c].part > h[o.clust].part - o.n_frag => c = o.clust - (h[o.clust].part - h[c].part)
        /\ o.stat = 3 => o.n_cont + 1 <= h[o.clust].part - o.n_frag
        /\ o.objsize <= o.fptr
InTable(h, t, o, f) ==
    o.stat # 2 =>
        \A c, d \in Of(h, f) : h[d].part = h[c].part + 1 =>
            \/ o.stat = 3 /\ h[c].part <= o.n_cont
            \/ o.n_frag # 0 /\ h[c].part > h[o.clust].part - o.n_frag
            \/ t[c] = d
Laid(v, h, t, o, f) ==
    /\ o.sclust = 0 => Of(h, f) = {} /\ o.stat = 0 /\ o.n_frag = 0
    /\ o.sclust # 0 => o.sclust \in Of(h, f) /\ h[o.sclust].part = 1
    /\ v = "FAT" => o.stat = 0 /\ o.n_frag = 0
    /\ OnePiece(h, o, f) /\ FirstPiece(h, o, f) /\ LastPiece(h, o, f) /\ InTable(h, t, o, f)

\* The last link leads nowhere, and a first piece is followed by another.
Ends(h, t, o, f) ==
    /\ o.stat = 3 => HasPart(h, f, o.n_cont + 2)
    /\ o.stat # 2 /\ o.n_frag = 0 =>
         \A c \in Of(h, f) : t[c] = EOC \/ HasPart(h, f, h[c].part + 1)

\* There is a cluster for each part of n units; there are k clusters at most.
Sized(h, f, n) == \A k \in 1..Parts(n) : HasPart(h, f, k)
AtMost(h, f, k) == \A c \in Of(h, f) : h[c].part <= k

Lies(v, h, t, o, f) ==
    /\ Laid(v, h, t, o, f) /\ Ends(h, t, o, f) /\ Sized(h, f, o.objsize)
    /\ o.fptr <= o.objsize
Chained(v, h, t, o, f) ==
    Lies(v, h, t, o, f) /\ (v = "exFAT" => AtMost(h, f, Parts(o.objsize)))

\* clust has the k-th part.
AtPart(h, o, f, k) == o.clust \in Of(h, f) /\ h[o.clust].part = k
Positioned(h, o, f) == o.fptr > 0 => AtPart(h, o, f, Parts(o.fptr))

\* The entry e leads to the chain of o, or to none.
Fits(h, e, o, f) ==
    /\ (e.sclust = 0 /\ e.size = 0) \/ e.sclust = o.sclust
    /\ Sized(h, f, e.size)
Same(e, o) == e.sclust = o.sclust /\ e.size = o.objsize /\ e.stat = o.stat /\ o.n_frag = 0

-----------------------------------------------------------------------------
(* A file no call is in progress for, e being its entry and n the number of  *)
(* accesses that failed.                                                     *)
Rests(v, h, t, n, e, o, f) ==
    /\ Chained(v, h, t, o, f)
    /\ ~o.err => Positioned(h, o, f)
    /\ n = 0 => ~o.err
    /\ o.open /\ ~o.modified => Fits(h, e, o, f) /\ (n = 0 => Same(e, o))
Resting(f) == Rests(type, holds, fat, faults, entry[f], ObjectOf(f), f)

EntryOK(v, e) == (v = "FAT" => e.stat = 0) /\ (~e.there => e = NoEntry)

(* The file of the call p.                                                   *)
Appending(v, h, t, e, o, p, f) ==
    /\ p.at = "loop" /\ o.open /\ ~o.err /\ ~o.modified /\ o.n_frag = 0 /\ o.fptr = o.objsize
    /\ Chained(v, h, t, o, f) /\ Same(e, o)
    /\ p.n \in 1..o.objsize /\ (o.objsize - p.n) % ClusterSize = 0
    /\ AtPart(h, o, f, Parts(o.objsize - p.n) + 1)

Reading(v, h, t, n, e, o, p, f) ==
    /\ p.at = "loop" /\ o.open /\ ~o.err /\ p.n <= o.objsize - o.fptr
    /\ Rests(v, h, t, n, e, o, f)

Writing(v, h, t, n, e, o, p, f) ==
    /\ p.call = "write" /\ p.at = "loop" /\ o.open /\ o.write /\ ~o.err
    /\ Chained(v, h, t, o, f) /\ Positioned(h, o, f)
    /\ ~o.modified => Fits(h, e, o, f)

\* A cluster is asked of create_chain, or it gave none.
MayStay(h, n, e, o, p, f) ==
    ~o.modified => Fits(h, e, o, f) /\ (p.call = "seek" /\ n = 0 => Same(e, o))
Asking(v, h, t, n, e, o, p, f) ==
    /\ p.call \in {"write", "seek"} /\ p.at = "chain" /\ o.open /\ o.write /\ ~o.err
    /\ Chained(v, h, t, o, f) /\ Positioned(h, o, f) /\ MayStay(h, n, e, o, p, f)
    /\ OnBoundary(o) /\ p.n > 0 /\ (o.fptr > 0 \/ o.sclust = 0)
Denied(v, h, t, n, e, o, p, f) ==
    /\ p.call \in {"write", "seek"} /\ p.at = "got" /\ p.got \in {0, 1} /\ o.open /\ ~o.err
    /\ p.got = 1 => n # 0
    /\ Chained(v, h, t, o, f) /\ Positioned(h, o, f) /\ MayStay(h, n, e, o, p, f)

\* The file object is at the cluster that the position goes on in.
Ahead(v, h, t, n, e, o, p, f) ==
    /\ o.open /\ ~o.err /\ Lies(v, h, t, o, f)
    /\ v = "exFAT" =>
         \A c \in Of(h, f) : h[c].part <= Parts(o.objsize) \/ h[c].part <= Parts(o.fptr) + 1
    /\ OnBoundary(o) /\ p.n > 0 /\ AtPart(h, o, f, Parts(o.fptr) + 1)
    /\ ~o.modified => /\ Fits(h, e, o, f)
                      /\ p.call = "seek" /\ n = 0 => Same(e, o) \/ o.objsize <= o.fptr
Given(v, h, t, n, e, o, p, f) ==
    /\ p.call \in {"write", "seek"} /\ p.at = "got" /\ p.got \in Cluster
    /\ o.write /\ Ahead(v, h, t, n, e, At(o, p.got), p, f)
Seeking(v, h, t, n, e, o, p, f) ==
    /\ p.call = "seek" /\ p.at = "loop" /\ Ahead(v, h, t, n, e, o, p, f)
    /\ ~o.write => o.fptr + p.n <= o.objsize

\* A chain is removed behind pclst, or all of it.
Behind(v, h, e, o, p, f) ==
    /\ o.n_frag = 0 /\ ~o.err
    /\ p.call = "truncate" => o.open /\ o.fptr < o.objsize
    /\ p.call # "truncate" =>
         p.call \in {"overwrite", "unlink"} /\ ~o.open /\ o.fptr = 0 /\ e.sclust = 0 /\ e.size = 0 /\ e.stat = 0
    /\ p.call = "overwrite" => p.n \in Cluster
    /\ v = "FAT" => o.stat = 0
    /\ p.pclst = IF o.fptr = 0 THEN 0 ELSE o.clust
    /\ Positioned(h, o, f)
Cutting(v, h, t, e, o, p, f) ==
    /\ Behind(v, h, e, o, p, f) /\ p.at = "cut"
    /\ Chained(v, h, t, o, f)
    /\ p.clst \in Of(h, f) /\ h[p.clst].part = Parts(o.fptr) + 1
    /\ p.scl = p.clst /\ p.ecl = p.clst
Freeing(v, h, t, e, o, p, f) ==
    /\ Behind(v, h, e, o, p, f) /\ p.at \in {"free", "freed"}
    /\ AtMost(h, f, Parts(o.fptr))
    /\ p.pclst # 0 => Laid(v, h, t, o, f) /\ (o.stat # 2 => t[p.pclst] = EOC)
    /\ p.at = "free" => p.ecl = p.clst /\ p.scl \in Cluster /\ p.scl <= p.ecl

Busy(v, h, t, n, e, o, p, f) ==
    \/ p.call = "append" /\ Appending(v, h, t, e, o, p, f)
    \/ p.call = "read" /\ Reading(v, h, t, n, e, o, p, f)
    \/ Writing(v, h, t, n, e, o, p, f)
    \/ Seeking(v, h, t, n, e, o, p, f)
    \/ Asking(v, h, t, n, e, o, p, f)
    \/ Denied(v, h, t, n, e, o, p, f)
    \/ Given(v, h, t, n, e, o, p, f)
    \/ Cutting(v, h, t, e, o, p, f)
    \/ Freeing(v, h, t, e, o, p, f)

-----------------------------------------------------------------------------
(* The clusters that are cut off and still to be freed, in the order tp: the *)
(* others of a block wait with their bits.                                   *)
Pending == IF type = "exFAT" /\ op.at = "free" THEN op.scl .. op.ecl - 1 ELSE {}
CutOff(tp) ==
    /\ tp \in [Cluster -> Nat]
    /\ \A c, d \in Cluster : tp[c] > 0 /\ tp[c] = tp[d] => c = d
    /\ op.at # "free" => \A c \in Cluster : tp[c] = 0
    /\ op.at = "free" =>
         /\ op.clst \in Cluster /\ tp[op.clst] > 0
         /\ \A c \in Cluster : tp[c] > 0 =>
              /\ tp[op.clst] <= tp[c]
              /\ \A k \in tp[op.clst] .. tp[c] : \E d \in Cluster : tp[d] = k
              /\ LET next == LinkOf(type, fat, obj[op.file], c) IN
                 IF \E d \in Cluster : tp[d] = tp[c] + 1 THEN next \in Cluster /\ tp[next] = tp[c] + 1
                 ELSE next = EOC
    /\ \A c \in Cluster : tp[c] > 0 => holds[c] = Nothing /\ c \in InUse \ Pending
Counted(tp) ==
    /\ faults = 0 => \A c \in InUse : holds[c] # Nothing \/ tp[c] > 0 \/ c \in Pending
    /\ free_clst <= Total =>
         /\ free_clst >= Cardinality(FreeClusters) + Cardinality(Pending)
         /\ faults = 0 => free_clst = Cardinality(FreeClusters) + Cardinality(Pending)

FilesInv ==
    /\ TypeOK /\ Placed(holds)
    /\ type = "exFAT" => faults = 0
    /\ \A f \in File : EntryOK(type, entry[f])
    /\ \A c \in Cluster : holds[c] # Nothing => c \in InUse
    /\ \A c \in Pending : c \in InUse /\ holds[c] = Nothing
    /\ IF op.file = None THEN op = Idle ELSE op.call # "none"
    /\ \A f \in File :
         IF f = op.file THEN Busy(type, holds, fat, faults, entry[f], obj[f], op, f) ELSE Resting(f)
    /\ \E tp \in [Cluster -> Nat] : CutOff(tp) /\ Counted(tp)

-----------------------------------------------------------------------------
(* Units and clusters.                                                       *)

LEMMA Divided ==
  ASSUME NEW n \in Nat, NEW d \in Nat \ {0}
  PROVE  /\ n \div d \in Nat /\ n % d \in 0..(d - 1)
         /\ n = d * (n \div d) + (n % d)
  BY SMT

LEMMA Quotient ==
  ASSUME NEW d \in Nat \ {0}, NEW q \in Nat, NEW r \in 0..(d - 1)
  PROVE  (d * q + r) \div d = q /\ (d * q + r) % d = r
<1> DEFINE n == d * q + r
           x == n \div d
           s == n % d
<1>1. n \in Nat /\ d * q \in Nat
  BY SMT
<1>2. x \in Nat /\ s \in 0..(d - 1) /\ n = d * x + s
  <2> HIDE DEF n
  <2> QED BY <1>1, Divided
<1>3. x = q
  <2> HIDE DEF x, s
  <2>1. d * x + s = d * q + r
    BY <1>2
  <2>2. CASE x > q
    <3>1. PICK y \in Nat \ {0} : x = q + y
      <4>1. x - q \in Nat \ {0} /\ x = q + (x - q)
        BY <1>2, <2>2
      <4> QED BY <4>1
    <3>2. d * x = d * q + d * y
      BY <3>1
    <3>3. d * y >= d
      BY <3>1
    <3> QED BY <1>1, <1>2, <2>1, <3>2, <3>3
  <2>3. CASE x < q
    <3>1. PICK y \in Nat \ {0} : q = x + y
      <4>1. q - x \in Nat \ {0} /\ q = x + (q - x)
        BY <1>2, <2>3
      <4> QED BY <4>1
    <3>2. d * q = d * x + d * y
      BY <1>2, <3>1
    <3>3. d * y >= d
      BY <3>1
    <3>4. d * x \in Nat
      BY <1>2
    <3> QED BY <1>1, <1>2, <2>1, <3>2, <3>3, <3>4
  <2> QED BY <1>2, <2>2, <2>3
<1> HIDE DEF x, s
<1>4. s = r
  BY <1>1, <1>2, <1>3
<1> QED BY <1>3, <1>4 DEF x, s

LEMMA PartsIs ==
  ASSUME NEW q \in Nat, NEW r \in 1..ClusterSize, NEW n, n = ClusterSize * q + r
  PROVE  Parts(n) = q + 1 /\ (n - 1) \div ClusterSize = q
<1> DEFINE D == ClusterSize
<1>1. D \in Nat \ {0}
  BY VolumeAssumption
<1>2. D * (q + 1) = D * q + D /\ D * q \in Nat
  BY <1>1
<1>3. r - 1 \in 0..(D - 1) /\ q + 1 \in Nat
  BY <1>1
<1> HIDE DEF D
<1>4. (D * (q + 1) + (r - 1)) \div D = q + 1 /\ (D * q + (r - 1)) \div D = q
  BY <1>1, <1>3, Quotient
<1> DEFINE z == D * q
<1>5. n + D - 1 = D * (q + 1) + (r - 1) /\ n - 1 = z + (r - 1)
  <2>1. z \in Nat /\ D \in Nat /\ r \in Int /\ n = z + r /\ D * (q + 1) = z + D
    BY <1>1, <1>2, <1>3 DEF D
  <2> HIDE DEF z
  <2> QED BY <2>1
<1> QED BY <1>4, <1>5 DEF Parts, D

LEMMA PartsOfNone == Parts(0) = 0
<1> DEFINE D == ClusterSize
<1>1. D \in Nat \ {0}
  BY VolumeAssumption
<1>2. D - 1 \in 0..(D - 1) /\ D * 0 + (D - 1) = D - 1 /\ 0 + D - 1 = D - 1
  BY <1>1
<1> HIDE DEF D
<1>3. (D * 0 + (D - 1)) \div D = 0
  BY <1>1, <1>2, Quotient
<1> QED BY <1>2, <1>3 DEF Parts, D

\* A number of units is none, or so many full clusters and a last one.
LEMMA Remainder ==
  ASSUME NEW n \in Nat \ {0}
  PROVE  \E q \in Nat : \E r \in 1..ClusterSize : n = ClusterSize * q + r
<1> DEFINE D == ClusterSize
           q == (n - 1) \div D
           s == (n - 1) % D
<1>1. D \in Nat \ {0} /\ n - 1 \in Nat
  BY VolumeAssumption
<1> HIDE DEF D
<1>2. q \in Nat /\ s \in 0..(D - 1) /\ n - 1 = D * q + s
  BY <1>1, Divided
<1>3. D * q \in Nat
  BY <1>1, <1>2
<1> HIDE DEF q, s
<1>4. s + 1 \in 1..D /\ n = D * q + (s + 1)
  BY <1>1, <1>2, <1>3
<1> QED BY <1>2, <1>4 DEF D

LEMMA PartsType ==
  ASSUME NEW n \in Nat
  PROVE  /\ Parts(n) \in Nat
         /\ n > 0 => Parts(n) > 0 /\ (n - 1) \div ClusterSize + 1 = Parts(n)
<1>1. CASE n = 0
  BY <1>1, PartsOfNone
<1>2. CASE n # 0
  <2>1. PICK q \in Nat : \E r \in 1..ClusterSize : n = ClusterSize * q + r
    BY <1>2, Remainder
  <2>2. PICK r \in 1..ClusterSize : n = ClusterSize * q + r
    BY <2>1
  <2>3. Parts(n) = q + 1 /\ (n - 1) \div ClusterSize = q
    BY <2>2, PartsIs
  <2> QED BY <2>3
<1> QED BY <1>1, <1>2

LEMMA PartsGrow ==
  ASSUME NEW m \in Nat, NEW n \in Nat, m <= n
  PROVE  Parts(m) <= Parts(n)
<1>1. Parts(n) \in Nat
  BY PartsType
<1>2. CASE m = 0
  BY <1>1, <1>2, PartsOfNone
<1>3. CASE m # 0
  <2> DEFINE D == ClusterSize
  <2>1. PICK q \in Nat : \E r \in 1..D : m = D * q + r
    BY <1>3, Remainder
  <2>2. PICK x \in Nat : \E s \in 1..D : n = D * x + s
    BY <1>3, Remainder
  <2>3. Parts(m) = q + 1 /\ Parts(n) = x + 1
    BY <2>1, <2>2, PartsIs
  <2>4. D \in Nat \ {0}
    BY VolumeAssumption
  <2>5. ASSUME x < q PROVE FALSE
    <3>1. PICK y \in Nat \ {0} : q = x + y
      <4>1. q - x \in Nat \ {0} /\ q = x + (q - x)
        BY <2>5
      <4> QED BY <4>1
    <3>2. D * q = D * x + D * y /\ D * y >= D /\ D * x \in Nat /\ D * y \in Nat
      BY <2>4, <3>1
    <3> QED BY <2>1, <2>2, <2>4, <3>2
  <2> QED BY <2>3, <2>5
<1> QED BY <1>2, <1>3

LEMMA AtBoundary ==
  ASSUME NEW n \in Nat, n % ClusterSize = 0
  PROVE  /\ n \div ClusterSize = Parts(n)
         /\ (n + ClusterSize) % ClusterSize = 0
         /\ \A m \in 1..ClusterSize : Parts(n + m) = Parts(n) + 1
<1> DEFINE D == ClusterSize
           q == n \div D
<1>1. D \in Nat \ {0}
  BY VolumeAssumption
<1>2. q \in Nat /\ n = D * q
  BY <1>1, Divided
<1> HIDE DEF q
<1>3. \A m \in 1..D : Parts(n + m) = q + 1
  BY <1>2, PartsIs
<1>4. Parts(n) = q
  <2>1. CASE q = 0
    <3>1. n = 0
      BY <1>1, <1>2, <2>1
    <3> QED BY <2>1, <3>1, PartsOfNone
  <2>2. CASE q # 0
    <3>1. D * q = D * (q - 1) + D /\ q - 1 \in Nat /\ D \in 1..D
      BY <1>1, <1>2, <2>2
    <3>2. Parts(D * (q - 1) + D) = (q - 1) + 1
      BY <3>1, PartsIs
    <3> QED BY <1>2, <3>1, <3>2
  <2> QED BY <2>1, <2>2
<1>5. (n + D) % D = 0
  <2>1. n + D = D * (q + 1) + 0 /\ q + 1 \in Nat /\ 0 \in 0..(D - 1)
    BY <1>1, <1>2
  <2> HIDE DEF D
  <2>2. (D * (q + 1) + 0) % D = 0
    BY <1>1, <2>1, Quotient
  <2> QED BY <2>1, <2>2
<1> QED BY <1>3, <1>4, <1>5 DEF q

LEMMA WithinCluster ==
  ASSUME NEW n \in Nat, n % ClusterSize # 0
  PROVE  /\ n % ClusterSize \in 1..(ClusterSize - 1)
         /\ \A m \in 0..(ClusterSize - (n % ClusterSize)) : Parts(n + m) = Parts(n)
<1> DEFINE D == ClusterSize
           q == n \div D
           r == n % D
<1>1. D \in Nat \ {0}
  BY VolumeAssumption
<1>2. q \in Nat /\ r \in 0..(D - 1) /\ n = D * q + r
  BY <1>1, Divided
<1>3. r # 0
  OBVIOUS
<1> HIDE DEF q, r
<1>4. ASSUME NEW m \in 0..(D - r)
      PROVE  Parts(n + m) = q + 1
  <2>1. r + m \in 1..D /\ D * q \in Nat
    BY <1>1, <1>2, <1>3
  <2>2. Parts(D * q + (r + m)) = q + 1
    BY <1>2, <2>1, PartsIs
  <2> DEFINE z == D * q
  <2>3. z \in Nat
    BY <2>1
  <2>4. n + m = z + (r + m)
    <3>1. n = z + r
      BY <1>2
    <3> HIDE DEF z
    <3> QED BY <1>2, <2>3, <3>1
  <2> QED BY <2>2, <2>4
<1>5. Parts(n) = q + 1
  <2>1. 0 \in 0..(D - r) /\ n + 0 = n
    BY <1>1, <1>2
  <2> QED BY <1>4, <2>1
<1>6. r \in 1..(D - 1)
  BY <1>1, <1>2, <1>3
<1> QED BY <1>4, <1>5, <1>6 DEF r

\* Where f_lseek starts from, a position being n.
LEMMA TopOf ==
  ASSUME NEW n \in Nat \ {0}
  PROVE  LET top == ((n - 1) \div ClusterSize) * ClusterSize IN
         /\ top \in Nat /\ top % ClusterSize = 0 /\ top < n /\ n <= top + ClusterSize
         /\ Parts(n) = Parts(top) + 1
<1> DEFINE D == ClusterSize
           top == ((n - 1) \div D) * D
<1>1. D \in Nat \ {0}
  BY VolumeAssumption
<1>2. PICK q \in Nat : \E r \in 1..D : n = D * q + r
  BY Remainder
<1>3. PICK r \in 1..D : n = D * q + r
  BY <1>2
<1>4. (n - 1) \div D = q
  BY <1>3, PartsIs
<1>5. q * D = D * q /\ D * q \in Nat
  BY <1>1
<1>6. top = D * q
  BY <1>4, <1>5
<1>7. (D * q) % D = 0
  <2>1. D * q + 0 = D * q /\ 0 \in 0..(D - 1)
    BY <1>1, <1>5
  <2> HIDE DEF D
  <2>2. (D * q + 0) % D = 0
    BY <1>1, <2>1, Quotient
  <2> QED BY <2>1, <2>2
<1> HIDE DEF top
<1>8. top \in Nat /\ top % D = 0 /\ n = top + r
  BY <1>3, <1>5, <1>6, <1>7
<1>9. top < n /\ n <= top + D
  BY <1>1, <1>8
<1>10. Parts(n) = Parts(top) + 1
  BY <1>8, AtBoundary
<1> QED BY <1>8, <1>9, <1>10 DEF top

LEMMA PartsCompare ==
  ASSUME NEW n \in Nat, NEW m \in Nat, n % ClusterSize = 0
  PROVE  /\ Parts(m) <= Parts(n) => m <= n
         /\ m > n => Parts(m) >= Parts(n) + 1
         /\ m > n + ClusterSize => Parts(m) >= Parts(n) + 2
<1>1. ClusterSize \in Nat \ {0}
  BY VolumeAssumption
<1>2. 1 \in 1..ClusterSize /\ ClusterSize \in 1..ClusterSize
  BY <1>1
<1>3. Parts(n + 1) = Parts(n) + 1 /\ (n + ClusterSize) % ClusterSize = 0
      /\ Parts(n + ClusterSize) = Parts(n) + 1
  BY <1>1, <1>2, AtBoundary
<1>4. Parts(n) \in Nat /\ Parts(m) \in Nat
  BY PartsType
<1>5. m > n => Parts(m) >= Parts(n) + 1
  <2> SUFFICES ASSUME m > n PROVE Parts(n + 1) <= Parts(m)
    BY <1>3, <1>4
  <2>1. n + 1 \in Nat /\ n + 1 <= m
    OBVIOUS
  <2> QED BY <2>1, PartsGrow
<1>6. m > n + ClusterSize => Parts(m) >= Parts(n) + 2
  <2> DEFINE x == n + ClusterSize
  <2>1. x \in Nat /\ x + 1 \in Nat /\ x % ClusterSize = 0
    BY <1>1, <1>3
  <2>2. Parts(x + 1) = Parts(x) + 1
    <3> HIDE DEF x
    <3> QED BY <1>2, <2>1, AtBoundary
  <2> SUFFICES ASSUME m > x PROVE Parts(x + 1) <= Parts(m)
    BY <1>3, <1>4, <2>2
  <2>3. x + 1 <= m
    BY <2>1
  <2> HIDE DEF x
  <2> QED BY <2>1, <2>3, PartsGrow
<1> QED BY <1>4, <1>5, <1>6

-----------------------------------------------------------------------------
(* Chains.                                                                   *)

FileObject ==
    [open : BOOLEAN, write : BOOLEAN, modified : BOOLEAN, err : BOOLEAN,
     sclust : Cluster \cup {0}, objsize : Nat, stat : {0, 2, 3},
     n_cont : Nat, n_frag : Nat, fptr : Nat, clust : Cluster \cup {0}]

LEMMA HoldsIs ==
  ASSUME NEW h, Placed(h)
  PROVE  /\ \A f \in File : \A c \in Of(h, f) :
              c \in Cluster /\ h[c].part \in Nat \ {0} /\ h[c] = Part(f, h[c].part) /\ h[c] # Nothing
         /\ \A c \in Cluster : h[c] # Nothing => h[c].file \in File /\ c \in Of(h, h[c].file)
         /\ \A c \in Cluster : h[c] = Nothing => \A f \in File : c \notin Of(h, f)
<1>1. None \notin File
  BY VolumeAssumption
<1>2. h \in [Cluster -> {Nothing} \cup [file : File, part : Nat \ {0}]]
  BY DEF Placed
<1>3. Nothing.file = None
  BY DEF Nothing
<1>4. ASSUME NEW c \in Cluster
      PROVE  \/ h[c] = Nothing /\ h[c].file = None
             \/ h[c].file \in File /\ h[c].part \in Nat \ {0} /\ h[c] = Part(h[c].file, h[c].part)
  <2>1. CASE h[c] = Nothing
    BY <1>3, <2>1
  <2>2. CASE h[c] \in [file : File, part : Nat \ {0}]
    BY <2>2 DEF Part
  <2> QED BY <1>2, <2>1, <2>2
<1>5. \A c \in Cluster : h[c].file \in File => h[c] # Nothing
  BY <1>1, <1>3
<1> QED BY <1>1, <1>4, <1>5 DEF Of

LEMMA ClusterIs ==
  /\ \A c \in Cluster : c \in Nat /\ c >= 2 /\ c <= LastCluster
  /\ \A c \in Nat : c >= 2 /\ c <= LastCluster => c \in Cluster
  /\ EOC \in Nat /\ EOC \notin Cluster /\ EOC > LastCluster + 1
  /\ LastCluster \in Nat /\ LastCluster >= 2
  BY VolumeAssumption DEF Cluster, EOC

\* A file in one piece, and the pieces of one that is not.
LEMMA OneIs ==
  ASSUME NEW h, Placed(h), NEW f \in File, NEW o \in FileObject, o.stat = 2, OnePiece(h, o, f),
         NEW k \in Nat \ {0}, HasPart(h, f, k)
  PROVE  \A j \in 1..k : o.sclust + j - 1 \in Of(h, f) /\ h[o.sclust + j - 1].part = j
<1>1. ASSUME NEW j \in 1..k PROVE HasPart(h, f, j)
  BY <1>1 DEF Placed, HasPart
<1> QED BY <1>1 DEF OnePiece, HasPart, FileObject

LEMMA FirstIs ==
  ASSUME NEW h, Placed(h), NEW f \in File, NEW o \in FileObject, o.stat = 3, FirstPiece(h, o, f),
         NEW k \in 1..(o.n_cont + 1), HasPart(h, f, k)
  PROVE  \A j \in 1..k : o.sclust + j - 1 \in Of(h, f) /\ h[o.sclust + j - 1].part = j
<1>1. o.n_cont \in Nat /\ k \in Nat \ {0}
  BY DEF FileObject
<1>2. ASSUME NEW j \in 1..k PROVE HasPart(h, f, j)
  BY <1>1, <1>2 DEF Placed, HasPart
<1> SUFFICES ASSUME NEW j \in 1..k
             PROVE  o.sclust + j - 1 \in Of(h, f) /\ h[o.sclust + j - 1].part = j
  OBVIOUS
<1>3. j \in Nat /\ j <= o.n_cont + 1
  BY <1>1
<1>4. PICK c \in Of(h, f) : h[c].part = j
  BY <1>2 DEF HasPart
<1>5. c = o.sclust + j - 1
  BY <1>3, <1>4 DEF FirstPiece
<1> QED BY <1>4, <1>5

LEMMA LastIs ==
  ASSUME NEW h, Placed(h), NEW f \in File, NEW o \in FileObject, o.n_frag # 0, LastPiece(h, o, f)
  PROVE  \A c \in o.clust - o.n_frag + 1 .. o.clust :
           c \in Of(h, f) /\ h[c].part = h[o.clust].part - (o.clust - c)
<1> DEFINE L == h[o.clust].part
<1>1. /\ o.n_frag \in Nat \ {0} /\ o.clust \in Of(h, f) /\ o.n_frag <= L
      /\ L \in Nat \ {0} /\ o.clust \in Cluster /\ o.clust \in Nat
  BY HoldsIs, ClusterIs DEF LastPiece, FileObject
<1>2. \A d \in Of(h, f) : h[d].part > L - o.n_frag => d = o.clust - (L - h[d].part)
  BY DEF LastPiece
<1> SUFFICES ASSUME NEW c \in o.clust - o.n_frag + 1 .. o.clust
             PROVE  c \in Of(h, f) /\ h[c].part = L - (o.clust - c)
  OBVIOUS
<1> HIDE DEF L
<1> DEFINE j == L - (o.clust - c)
<1>3. j \in 1..L /\ j > L - o.n_frag /\ c = o.clust - (L - j)
  BY <1>1
<1>4. PICK d \in Of(h, f) : h[d].part = j
  BY <1>1, <1>3 DEF L, Placed, HasPart
<1>5. d = c
  BY <1>2, <1>3, <1>4
<1> QED BY <1>4, <1>5

LEMMA GetFatIs ==
  ASSUME NEW o, NEW c
  PROVE  GetFat(o, c) = LinkOf(type, fat, o, c)
  BY DEF GetFat, LinkOf

\* get_fat leads from part to part, and from the last nowhere.
LEMMA NextIs ==
  ASSUME NEW v, NEW h, Placed(h), NEW t, NEW f \in File, NEW o \in FileObject, o.n_frag = 0,
         Chained(v, h, t, o, f), v \in {"FAT", "exFAT"}, NEW c \in Of(h, f)
  PROVE  LET d == LinkOf(v, t, o, c) IN
         IF HasPart(h, f, h[c].part + 1) THEN d \in Of(h, f) /\ h[d].part = h[c].part + 1
         ELSE d = EOC
<1> DEFINE k == h[c].part
           d == LinkOf(v, t, o, c)
<1>0. Laid(v, h, t, o, f) /\ Ends(h, t, o, f) /\ Sized(h, f, o.objsize)
      /\ (v = "exFAT" => AtMost(h, f, Parts(o.objsize)))
  BY DEF Chained, Lies
<1>1. c \in Cluster /\ k \in Nat \ {0} /\ c \in Nat
  BY HoldsIs, ClusterIs
<1>2. o.sclust # 0 /\ o.sclust \in Of(h, f) /\ o.sclust \in Nat
  BY <1>0, HoldsIs, ClusterIs DEF Laid
<1>3. /\ OnePiece(h, o, f) /\ FirstPiece(h, o, f) /\ InTable(h, t, o, f)
      /\ v = "FAT" => o.stat = 0
  BY <1>0 DEF Laid
<1>4. o.stat \in {0, 2, 3} /\ o.objsize \in Nat /\ o.n_cont \in Nat
  BY DEF FileObject
<1>5. \A e \in Of(h, f) : HasPart(h, f, h[e].part + 1) /\ h[e].part = k => 
        \E x \in Of(h, f) : h[x].part = k + 1
  BY DEF HasPart
<1> HIDE DEF k
<1>6. k = h[c].part
  BY DEF k
<1>7. CASE o.stat = 0
  <2>1. v = "exFAT" => o.stat = 0
    BY <1>7
  <2>2. d = t[c]
    BY <1>1, <1>7 DEF LinkOf, FileObject
  <2>3. CASE HasPart(h, f, k + 1)
    <3>1. PICK x \in Of(h, f) : h[x].part = k + 1
      BY <2>3 DEF HasPart
    <3>2. t[c] = x
      BY <1>3, <1>6, <1>7, <3>1 DEF InTable
    <3> QED BY <1>6, <2>2, <2>3, <3>1, <3>2
  <2>4. CASE ~HasPart(h, f, k + 1)
    <3>1. t[c] = EOC
      BY <1>0, <1>6, <1>7, <2>4 DEF Ends
    <3> QED BY <1>6, <2>2, <2>4, <3>1
  <2> QED BY <2>3, <2>4
<1>8. CASE o.stat # 0
  <2>1. v = "exFAT" /\ k <= Parts(o.objsize)
    BY <1>0, <1>3, <1>6, <1>8 DEF AtMost
  <2>2. o.objsize # 0 /\ LastOffset(o) + 1 = Parts(o.objsize) /\ Parts(o.objsize) \in Nat
    <3>1. o.objsize # 0
      BY <1>1, <2>1, PartsOfNone
    <3> QED BY <1>4, <3>1, PartsType DEF LastOffset
  <2> DEFINE m == LastOffset(o)
  <2> HIDE DEF m
  <2>3. m + 1 = Parts(o.objsize) /\ m \in Int
    <3>1. o.objsize - 1 \in Nat /\ ClusterSize \in Nat \ {0}
      BY <1>4, <2>2, VolumeAssumption
    <3>2. m \in Nat
      BY <3>1, Divided DEF m, LastOffset
    <3> QED BY <2>2, <3>2 DEF m
  <2>4. CASE o.stat = 2
    <3>1. c = o.sclust + k - 1
      BY <1>3, <1>6, <2>4 DEF OnePiece
    <3>2. c - o.sclust = k - 1 /\ c - o.sclust \in 0..m
      BY <1>1, <1>2, <2>1, <2>3, <3>1
    <3>3. d = IF c - o.sclust = m THEN EOC ELSE c + 1
      BY <1>1, <1>2, <2>1, <2>2, <2>4, <3>2 DEF LinkOf, m
    <3>4. CASE k = Parts(o.objsize)
      <4>1. ~HasPart(h, f, k + 1)
        BY <1>0, <1>1, <2>1, <2>2, <3>4 DEF HasPart, AtMost
      <4>2. d = EOC
        BY <2>3, <3>2, <3>3, <3>4, <1>1
      <4> QED BY <1>6, <4>1, <4>2
    <3>5. CASE k # Parts(o.objsize)
      <4>1. k + 1 \in 1..Parts(o.objsize)
        BY <1>1, <2>1, <2>2, <3>5
      <4>2. HasPart(h, f, k + 1)
        BY <1>0, <4>1 DEF Sized
      <4>3. c + 1 \in Of(h, f) /\ h[c + 1].part = k + 1
        <5>1. k + 1 \in 1..(k + 1) /\ k + 1 \in Nat \ {0}
          BY <1>1
        <5>2. o.sclust + (k + 1) - 1 \in Of(h, f) /\ h[o.sclust + (k + 1) - 1].part = k + 1
          BY <1>3, <2>4, <4>2, <5>1, OneIs
        <5>3. o.sclust + (k + 1) - 1 = c + 1
          BY <1>1, <1>2, <3>1
        <5> QED BY <5>2, <5>3
      <4>4. d = c + 1
        BY <1>1, <2>3, <3>2, <3>3, <3>5
      <4> QED BY <1>6, <4>2, <4>3, <4>4
    <3> QED BY <3>4, <3>5
  <2>5. CASE o.stat = 3
    <3>1. HasPart(h, f, o.n_cont + 2)
      BY <1>0, <2>5 DEF Ends
    <3>2. PICK z \in Of(h, f) : h[z].part = o.n_cont + 2
      BY <3>1 DEF HasPart
    <3>3. \A j \in 1..(o.n_cont + 1) : o.sclust + j - 1 \in Of(h, f) /\ h[o.sclust + j - 1].part = j
      <4>1. o.n_cont + 1 \in 1..(o.n_cont + 1) /\ o.n_cont + 1 \in 1..h[z].part
        BY <1>4, <3>2
      <4>2. HasPart(h, f, o.n_cont + 1)
        BY <4>1 DEF Placed
      <4> QED BY <1>3, <2>5, <4>1, <4>2, FirstIs
    <3>4. c - o.sclust \in 0..o.n_cont - 1 <=> k <= o.n_cont
      <4>1. CASE k <= o.n_cont
        <5>1. c = o.sclust + k - 1
          BY <1>1, <1>3, <1>4, <1>6, <2>5, <4>1 DEF FirstPiece
        <5> QED BY <1>1, <1>2, <1>4, <4>1, <5>1
      <4>2. CASE ~(k <= o.n_cont)
        <5> SUFFICES ASSUME c - o.sclust \in 0..o.n_cont - 1 PROVE FALSE
          BY <4>2
        <5> DEFINE j == c - o.sclust + 1
        <5>1. j \in 1..(o.n_cont + 1) /\ j <= o.n_cont /\ c = o.sclust + j - 1
          BY <1>1, <1>2, <1>4
        <5> HIDE DEF j
        <5>2. h[c].part = j
          BY <3>3, <5>1
        <5> QED BY <1>6, <4>2, <5>1, <5>2
      <4> QED BY <4>1, <4>2
    <3>5. d = IF k <= o.n_cont THEN c + 1 ELSE t[c]
      BY <1>1, <1>2, <2>1, <2>2, <2>5, <3>4 DEF LinkOf
    <3>6. CASE k <= o.n_cont
      <4>1. c = o.sclust + k - 1
        BY <1>1, <1>3, <1>4, <1>6, <2>5, <3>6 DEF FirstPiece
      <4>2. k + 1 \in 1..(o.n_cont + 1) /\ o.sclust + (k + 1) - 1 = c + 1
        BY <1>1, <1>2, <1>4, <3>6, <4>1
      <4>3. c + 1 \in Of(h, f) /\ h[c + 1].part = k + 1
        BY <3>3, <4>2
      <4>4. HasPart(h, f, k + 1)
        BY <4>3 DEF HasPart
      <4> QED BY <1>6, <3>5, <3>6, <4>3, <4>4
    <3>7. CASE ~(k <= o.n_cont)
      <4>1. CASE HasPart(h, f, k + 1)
        <5>1. PICK x \in Of(h, f) : h[x].part = k + 1
          BY <4>1 DEF HasPart
        <5>2. t[c] = x
          BY <1>3, <1>6, <2>5, <3>7, <5>1 DEF InTable
        <5> QED BY <1>6, <3>5, <3>7, <4>1, <5>1, <5>2
      <4>2. CASE ~HasPart(h, f, k + 1)
        <5>1. t[c] = EOC
          BY <1>0, <1>6, <2>5, <4>2 DEF Ends
        <5> QED BY <1>6, <3>5, <3>7, <4>2, <5>1
      <4> QED BY <4>1, <4>2
    <3> QED BY <3>6, <3>7
  <2> QED BY <1>4, <1>8, <2>4, <2>5
<1> QED BY <1>7, <1>8

\* Where the last piece is not in the table yet, the file object is at its end.
LEMMA LastNext ==
  ASSUME NEW v, NEW h, Placed(h), NEW t, NEW f \in File, NEW o \in FileObject, o.n_frag # 0,
         Chained(v, h, t, o, f), v \in {"FAT", "exFAT"}
  PROVE  /\ v = "exFAT" /\ o.clust \in Of(h, f) /\ LinkOf(v, t, o, o.clust) = EOC
         /\ ~HasPart(h, f, h[o.clust].part + 1) /\ o.objsize # 0 /\ o.fptr = o.objsize
<1> DEFINE L == h[o.clust].part
<1>1. Laid(v, h, t, o, f) /\ (v = "exFAT" => AtMost(h, f, Parts(o.objsize)))
  BY DEF Chained, Lies
<1>2. /\ v = "exFAT" /\ o.stat # 2 /\ o.sclust # 0
      /\ o.clust \in Of(h, f) /\ o.n_frag <= L /\ \A c \in Of(h, f) : h[c].part <= L
      /\ o.stat = 3 => o.n_cont + 1 <= L - o.n_frag
      /\ FirstPiece(h, o, f) /\ LastPiece(h, o, f)
  BY <1>1 DEF Laid, OnePiece, LastPiece
<1>3. /\ L \in Nat \ {0} /\ o.clust \in Cluster /\ o.clust \in Nat /\ o.sclust \in Nat
      /\ o.n_frag \in Nat \ {0} /\ o.n_cont \in Nat /\ o.objsize \in Nat /\ o.stat \in {0, 2, 3}
  BY <1>2, HoldsIs, ClusterIs DEF FileObject
<1>4. ~HasPart(h, f, L + 1)
  BY <1>2, <1>3, HoldsIs DEF HasPart
<1>5. o.objsize # 0
  BY <1>1, <1>2, <1>3, PartsOfNone DEF AtMost
<1>6. o.stat = 3 => o.clust - o.sclust \notin 0..o.n_cont - 1
  <2> SUFFICES ASSUME o.stat = 3, o.clust - o.sclust \in 0..o.n_cont - 1 PROVE FALSE
    OBVIOUS
  <2> DEFINE j == o.clust - o.sclust + 1
  <2>1. j \in 1..(o.n_cont + 1) /\ j <= o.n_cont /\ o.clust = o.sclust + j - 1 /\ j \in Nat
    BY <1>3
  <2>2. o.n_cont + 1 <= L
    BY <1>2, <1>3
  <2> HIDE DEF j, L
  <2>3. o.n_cont + 1 \in 1..L /\ o.n_cont + 1 \in 1..(o.n_cont + 1)
    BY <1>3, <2>2
  <2>4. HasPart(h, f, o.n_cont + 1)
    BY <1>2, <2>3 DEF Placed, L
  <2>5. h[o.sclust + j - 1].part = j
    BY <1>2, <2>1, <2>3, <2>4, FirstIs
  <2> QED BY <1>3, <2>1, <2>2, <2>5 DEF L
<1>7. LinkOf(v, t, o, o.clust) = EOC
  BY <1>2, <1>3, <1>5, <1>6 DEF LinkOf
<1>8. o.fptr = o.objsize
  BY <1>2, <1>3 DEF Chained, Lies, LastPiece, FileObject
<1> QED BY <1>2, <1>4, <1>5, <1>7, <1>8

-----------------------------------------------------------------------------
(* What a step leaves alone.                                                 *)

EntryRecord == [there : BOOLEAN, sclust : Cluster \cup {0}, size : Nat, stat : {0, 2}]
CallRecord ==
    [call : {"none", "append", "write", "read", "seek", "truncate", "overwrite", "unlink"},
     file : File \cup {None}, at : {"loop", "chain", "got", "cut", "free", "freed"},
     n : Nat, got : 0..LastCluster, clst : 0..EOC, pclst : Cluster \cup {0},
     scl : 0..EOC, ecl : 0..EOC]

LEMMA Objects ==
  ASSUME NEW e \in EntryRecord, NEW x \in BOOLEAN, NEW y \in BOOLEAN, NEW z \in BOOLEAN
  PROVE  Object(e, x, y, z) \in FileObject
  BY DEF Object, EntryRecord, FileObject

LEMMA EntriesAreTyped ==
  /\ NoEntry \in EntryRecord
  /\ \A s \in Cluster \cup {0}, n \in Nat, st \in {0, 2} : Entry(s, n, st) \in EntryRecord
  BY DEF NoEntry, Entry, EntryRecord

LEMMA TypeIs ==
  ASSUME TypeOK
  PROVE  /\ type \in Types /\ type \in {"FAT", "exFAT"} /\ fat \in [Cluster -> Link] /\ bitmap \subseteq Cluster
         /\ free_clst \in 0..Unknown /\ last_clst \in 0..LastCluster
         /\ entry \in [File -> EntryRecord] /\ obj \in [File -> FileObject]
         /\ op \in CallRecord /\ faults \in 0..MaxFaults /\ faults \in Nat /\ MaxFaults \in Nat
         /\ \A f \in File : obj[f] \in FileObject /\ entry[f] \in EntryRecord /\ ObjectOf(f) \in FileObject
<1>1. /\ type \in Types /\ type \in {"FAT", "exFAT"} /\ fat \in [Cluster -> Link] /\ bitmap \subseteq Cluster
      /\ free_clst \in 0..Unknown /\ last_clst \in 0..LastCluster
      /\ faults \in 0..MaxFaults /\ faults \in Nat /\ MaxFaults \in Nat
  BY VolumeAssumption DEF TypeOK
<1>2. entry \in [File -> EntryRecord] /\ obj \in [File -> FileObject] /\ op \in CallRecord
  BY DEF TypeOK, EntryRecord, FileObject, CallRecord
<1>3. \A f \in File : obj[f] \in FileObject /\ entry[f] \in EntryRecord
  BY <1>2
<1>4. \A f \in File : ObjectOf(f) \in FileObject
  BY <1>3, Objects DEF ObjectOf
<1> QED BY <1>1, <1>2, <1>3, <1>4

LEMMA IdleIs ==
  Idle \in CallRecord /\ Idle.file = None /\ Idle.call = "none" /\ Idle.at = "loop" /\ None \notin File
  BY VolumeAssumption DEF Idle, CallRecord, EOC

\* What is said of a file is told by its clusters alone.
LEMMA Untouched ==
  ASSUME NEW v, NEW h, NEW h2, NEW t, NEW t2, NEW e, NEW o, NEW f \in File,
         NEW n \in Nat, NEW n2 \in Nat, n <= n2,
         Of(h2, f) = Of(h, f), \A c \in Of(h, f) : h2[c] = h[c] /\ t2[c] = t[c]
  PROVE  /\ \A k : HasPart(h2, f, k) <=> HasPart(h, f, k)
         /\ \A m : Sized(h2, f, m) <=> Sized(h, f, m)
         /\ \A m : AtMost(h2, f, m) <=> AtMost(h, f, m)
         /\ Laid(v, h, t, o, f) => Laid(v, h2, t2, o, f)
         /\ Lies(v, h, t, o, f) => Lies(v, h2, t2, o, f)
         /\ Chained(v, h, t, o, f) => Chained(v, h2, t2, o, f)
         /\ Rests(v, h, t, n, e, o, f) => Rests(v, h2, t2, n2, e, o, f)
<1>1. \A k : HasPart(h2, f, k) <=> HasPart(h, f, k)
  BY DEF HasPart
<1>2. /\ \A m : Sized(h2, f, m) <=> Sized(h, f, m)
      /\ \A m : AtMost(h2, f, m) <=> AtMost(h, f, m)
  BY <1>1 DEF Sized, AtMost
<1>3. ASSUME Laid(v, h, t, o, f) PROVE Laid(v, h2, t2, o, f)
  <2>1. /\ OnePiece(h, o, f) => OnePiece(h2, o, f)
        /\ FirstPiece(h, o, f) => FirstPiece(h2, o, f)
    BY DEF OnePiece, FirstPiece
  <2>2. LastPiece(h, o, f) => LastPiece(h2, o, f)
    BY DEF LastPiece
  <2>3. LastPiece(h, o, f) /\ InTable(h, t, o, f) => InTable(h2, t2, o, f)
    <3> SUFFICES ASSUME LastPiece(h, o, f), InTable(h, t, o, f), o.stat # 2,
                        NEW c \in Of(h, f), NEW d \in Of(h, f), h2[d].part = h2[c].part + 1
                 PROVE  \/ o.stat = 3 /\ h2[c].part <= o.n_cont
                        \/ o.n_frag # 0 /\ h2[c].part > h2[o.clust].part - o.n_frag
                        \/ t2[c] = d
      BY DEF InTable
    <3>1. h2[c] = h[c] /\ h2[d] = h[d] /\ t2[c] = t[c]
      OBVIOUS
    <3>2. o.n_frag # 0 => h2[o.clust] = h[o.clust]
      BY DEF LastPiece
    <3> QED BY <3>1, <3>2 DEF InTable
  <2>4. o.sclust \in Of(h, f) => h2[o.sclust] = h[o.sclust]
    OBVIOUS
  <2> QED BY <1>3, <2>1, <2>2, <2>3, <2>4 DEF Laid
<1>4. Ends(h, t, o, f) => Ends(h2, t2, o, f)
  BY <1>1 DEF Ends
<1>5. Lies(v, h, t, o, f) => Lies(v, h2, t2, o, f)
  BY <1>2, <1>3, <1>4 DEF Lies
<1>6. Chained(v, h, t, o, f) => Chained(v, h2, t2, o, f)
  BY <1>2, <1>5 DEF Chained
<1>7. ASSUME Rests(v, h, t, n, e, o, f) PROVE Rests(v, h2, t2, n2, e, o, f)
  <2>1. Chained(v, h2, t2, o, f)
    BY <1>6, <1>7 DEF Rests
  <2>2. Positioned(h, o, f) => Positioned(h2, o, f)
    BY DEF Positioned, AtPart
  <2>3. Fits(h, e, o, f) => Fits(h2, e, o, f)
    BY <1>2 DEF Fits
  <2>4. n2 = 0 => n = 0
    OBVIOUS
  <2> QED BY <1>7, <2>1, <2>2, <2>3, <2>4 DEF Rests
<1> QED BY <1>1, <1>2, <1>3, <1>5, <1>6, <1>7

LEMMA LaidAlike ==
  ASSUME NEW v, NEW h, NEW t, NEW f, NEW o, NEW x,
         x.sclust = o.sclust, x.stat = o.stat, x.n_frag = o.n_frag,
         o.stat = 3 => x.n_cont = o.n_cont,
         o.n_frag # 0 => x.clust = o.clust /\ x.objsize <= x.fptr
  PROVE  /\ Laid(v, h, t, o, f) => Laid(v, h, t, x, f)
         /\ Ends(h, t, o, f) => Ends(h, t, x, f)
<1>1. OnePiece(h, o, f) => OnePiece(h, x, f)
  BY DEF OnePiece
<1>2. FirstPiece(h, o, f) => FirstPiece(h, x, f)
  BY DEF FirstPiece
<1>3. LastPiece(h, o, f) => LastPiece(h, x, f)
  BY DEF LastPiece
<1>4. InTable(h, t, o, f) => InTable(h, t, x, f)
  BY DEF InTable
<1>5. Ends(h, t, o, f) => Ends(h, t, x, f)
  BY DEF Ends
<1> QED BY <1>1, <1>2, <1>3, <1>4, <1>5 DEF Laid

\* What is accounted for, tp telling the clusters that are cut off.
Accounted ==
    /\ \A c \in Cluster : holds[c] # Nothing => c \in InUse
    /\ \A c \in Pending : c \in InUse /\ holds[c] = Nothing
    /\ \E tp \in [Cluster -> Nat] : CutOff(tp) /\ Counted(tp)

\* A step of a call of f, that touches no cluster of another file.
LEMMA Frame ==
  ASSUME FilesInv, TypeOK', NEW f \in File, op.file \in {f, None}, op'.file \in {f, None}, type' = type,
         \A g \in File \ {f} : entry'[g] = entry[g] /\ obj'[g] = obj[g],
         Placed(holds)',
         \A g \in File \ {f} : Of(holds', g) = Of(holds, g)
                               /\ \A c \in Of(holds, g) : holds'[c] = holds[c] /\ fat'[c] = fat[c],
         faults <= faults', type = "exFAT" => faults' = 0,
         EntryOK(type, entry'[f]),
         IF op'.file = f
         THEN op'.call # "none" /\ Busy(type, holds', fat', faults', entry'[f], obj'[f], op', f)
         ELSE op' = Idle /\ Rests(type, holds', fat', faults', entry'[f], ObjectOf(f)', f),
         Accounted'
  PROVE  FilesInv'
<1>1. TypeOK
  BY DEF FilesInv
<1>2. faults \in Nat /\ faults' \in Nat
  <2>1. MaxFaults \in Nat
    BY VolumeAssumption
  <2> QED BY <1>1, <2>1 DEF TypeOK
<1>3. None \notin File /\ f # None
  BY VolumeAssumption
<1>4. \A g \in File : EntryOK(type', entry'[g])
  BY DEF FilesInv
<1>5. ASSUME NEW g \in File, g # f PROVE Resting(g)'
  <2>1. Resting(g)
    BY <1>3, <1>5 DEF FilesInv
  <2>2. ObjectOf(g)' = ObjectOf(g) /\ entry'[g] = entry[g]
    BY <1>5 DEF ObjectOf
  <2>3. Of(holds', g) = Of(holds, g) /\ \A c \in Of(holds, g) : holds'[c] = holds[c] /\ fat'[c] = fat[c]
    BY <1>5
  <2>4. Rests(type, holds, fat, faults, entry[g], ObjectOf(g), g)
    BY <2>1 DEF Resting
  <2>5. Rests(type, holds', fat', faults', entry[g], ObjectOf(g), g)
    BY <1>2, <2>3, <2>4, Untouched
  <2> QED BY <2>2, <2>5 DEF Resting
<1>6. \A g \in File :
        IF g = op'.file THEN Busy(type', holds', fat', faults', entry'[g], obj'[g], op', g) ELSE Resting(g)'
  <2>1. CASE op'.file = f
    BY <1>5, <2>1
  <2>2. CASE op'.file = None
    <3>1. Resting(f)'
      BY <1>3, <2>2 DEF Resting
    <3> QED BY <1>3, <1>5, <2>2, <3>1
  <2> QED BY <2>1, <2>2
<1>7. IF op'.file = None THEN op' = Idle ELSE op'.call # "none"
  BY <1>3
<1> QED BY <1>4, <1>6, <1>7 DEF FilesInv, Accounted

\* The clusters of f are given up.
LEMMA GivenUp ==
  ASSUME NEW h, Placed(h), NEW f \in File, NEW h2, h2 = [c \in Cluster |-> IF c \in Of(h, f) THEN Nothing ELSE h[c]]
  PROVE  /\ Placed(h2) /\ h2 \in [Cluster -> {Nothing} \cup [file : File, part : Nat \ {0}]]
         /\ \A c \in Cluster : h2[c] \in {h[c], Nothing}
         /\ Of(h2, f) = {}
         /\ \A g \in File \ {f} : Of(h2, g) = Of(h, g) /\ \A c \in Of(h, g) : h2[c] = h[c]
         /\ Of(h, f) = {} => h2 = h
<1>1. h2 \in [Cluster -> {Nothing} \cup [file : File, part : Nat \ {0}]]
  BY DEF Placed
<1>2. \A c \in Cluster : h2[c] = IF c \in Of(h, f) THEN Nothing ELSE h[c]
  OBVIOUS
<1>3. Nothing.file = None /\ None \notin File
  BY VolumeAssumption DEF Nothing
<1>4. Of(h2, f) = {}
  BY <1>2, <1>3 DEF Of
<1>5. \A g \in File \ {f} : Of(h2, g) = Of(h, g) /\ \A c \in Of(h, g) : h2[c] = h[c]
  <2>1. \A g \in File \ {f} : \A c \in Cluster : h2[c].file = g <=> h[c].file = g
    BY <1>2, <1>3 DEF Of
  <2>2. \A g \in File \ {f} : Of(h2, g) = Of(h, g)
    BY <2>1 DEF Of
  <2>3. \A g \in File \ {f} : \A c \in Of(h, g) : c \in Cluster /\ c \notin Of(h, f)
    BY DEF Of
  <2> QED BY <1>2, <2>2, <2>3
<1>6. \A g \in File \ {f} : \A k : HasPart(h2, g, k) <=> HasPart(h, g, k)
  BY <1>5 DEF HasPart
<1>7. ASSUME NEW g \in File, NEW c \in Of(h2, g), NEW d \in Of(h2, g), h2[c].part = h2[d].part
      PROVE  c = d
  <2>1. g # f
    BY <1>4
  <2>2. c \in Of(h, g) /\ d \in Of(h, g) /\ h2[c] = h[c] /\ h2[d] = h[d]
    BY <1>5, <2>1
  <2> QED BY <1>7, <2>2 DEF Placed
<1>8. \A g \in File : \A c \in Of(h2, g) : \A k \in 1..h2[c].part : HasPart(h2, g, k)
  BY <1>4, <1>5, <1>6 DEF Placed
<1>9. Placed(h2)
  BY <1>1, <1>7, <1>8 DEF Placed
<1>10. Of(h, f) = {} => h2 = h
  BY <1>2 DEF Placed
<1> QED BY <1>1, <1>2, <1>4, <1>5, <1>9, <1>10

\* A step that takes and frees no cluster, though it may write to the table for f
\* and give up what f has.
LEMMA CallStep ==
  ASSUME FilesInv, NEW f \in File, NEW x \in FileObject, NEW e \in EntryRecord, NEW p \in CallRecord,
         op.file \in {f, None}, p.file \in {f, None},
         obj' = [obj EXCEPT ![f] = x], entry' = [entry EXCEPT ![f] = e], op' = p,
         type' = type, bitmap' = bitmap, free_clst' = free_clst, last_clst' \in 0..LastCluster,
         fat' \in [Cluster -> Link], type = "FAT" => fat' = fat,
         \A c \in Cluster \ Of(holds, f) : fat'[c] = fat[c],
         faults' \in 0..MaxFaults, faults <= faults', type = "exFAT" => faults' = 0,
         \/ holds' = holds
         \/ holds' = [c \in Cluster |-> IF c \in Of(holds, f) THEN Nothing ELSE holds[c]] /\ faults' # 0,
         op.at = "free" => type = "FAT" /\ faults' # 0,
         p.at # "free",
         EntryOK(type, e),
         IF p.file = f
         THEN p.call # "none" /\ Busy(type, holds', fat', faults', e, x, p, f)
         ELSE p = Idle /\ Rests(type, holds', fat', faults', e,
                                IF x.open THEN x ELSE Object(e, FALSE, FALSE, FALSE), f)
  PROVE  FilesInv'
<1>1. TypeOK /\ Placed(holds)
  BY DEF FilesInv
<1>2. obj'[f] = x /\ entry'[f] = e /\ \A g \in File \ {f} : entry'[g] = entry[g] /\ obj'[g] = obj[g]
  BY <1>1, TypeIs
<1>3. /\ Placed(holds')
      /\ holds' \in [Cluster -> {Nothing} \cup [file : File, part : Nat \ {0}]]
      /\ \A c \in Cluster : holds'[c] \in {holds[c], Nothing}
      /\ faults' = 0 => holds' = holds
      /\ \A g \in File \ {f} : Of(holds', g) = Of(holds, g) /\ \A c \in Of(holds, g) : holds'[c] = holds[c]
  <2>1. CASE holds' = holds
    BY <1>1, <2>1 DEF Placed
  <2>2. CASE holds' = [c \in Cluster |-> IF c \in Of(holds, f) THEN Nothing ELSE holds[c]] /\ faults' # 0
    <3>1. /\ Placed(holds') /\ holds' \in [Cluster -> {Nothing} \cup [file : File, part : Nat \ {0}]]
          /\ \A c \in Cluster : holds'[c] \in {holds[c], Nothing}
      BY <1>1, <2>2, GivenUp
    <3>2. \A g \in File \ {f} : Of(holds', g) = Of(holds, g) /\ \A c \in Of(holds, g) : holds'[c] = holds[c]
      BY <1>1, <2>2, GivenUp
    <3> QED BY <2>2, <3>1, <3>2
  <2> QED BY <2>1, <2>2
<1>4. TypeOK'
  <2>1. /\ type' \in Types /\ bitmap' \subseteq Cluster /\ free_clst' \in 0..Unknown
        /\ entry' \in [File -> EntryRecord] /\ obj' \in [File -> FileObject] /\ op' \in CallRecord
    BY <1>1, TypeIs
  <2> QED BY <1>3, <2>1 DEF TypeOK, EntryRecord, FileObject, CallRecord
<1>5. \A g \in File \ {f} : \A c \in Of(holds, g) : fat'[c] = fat[c]
  BY DEF Of
<1>6. InUse' = InUse /\ FreeClusters' = FreeClusters
  <2>1. InUse' = InUse
    BY <1>1, TypeIs DEF InUse
  <2> QED BY <2>1 DEF FreeClusters
<1>7. Pending' = {} /\ (op.at = "free" => Pending = {})
  BY DEF Pending
<1>8. Accounted'
  <2>1. \A c \in Cluster : holds'[c] # Nothing => c \in InUse'
    BY <1>3, <1>6 DEF FilesInv
  <2>2. PICK tp \in [Cluster -> Nat] : CutOff(tp) /\ Counted(tp)
    BY DEF FilesInv
  <2> DEFINE none == [c \in Cluster |-> 0]
  <2>3. none \in [Cluster -> Nat] /\ \A c \in Cluster : none[c] = 0
    OBVIOUS
  <2> HIDE DEF none
  <2>4. CutOff(none)'
    BY <2>3 DEF CutOff
  <2>5. Counted(none)'
    <3>1. CASE op.at = "free"
      BY <1>6, <1>7, <2>2, <3>1 DEF Counted
    <3>2. CASE op.at # "free"
      <4>1. Pending = {} /\ \A c \in Cluster : tp[c] = 0
        BY <2>2, <3>2 DEF Pending, CutOff
      <4>2. faults' = 0 => faults = 0 /\ holds' = holds
        BY <1>1, <1>3, TypeIs
      <4>3. InUse \subseteq Cluster
        BY <1>1, TypeIs DEF InUse
      <4>4. faults' = 0 => \A c \in InUse' : holds'[c] # Nothing \/ none[c] > 0 \/ c \in Pending'
        BY <1>6, <2>2, <4>1, <4>2, <4>3 DEF Counted
      <4>5. free_clst' <= Total =>
              /\ free_clst' >= Cardinality(FreeClusters') + Cardinality(Pending')
              /\ faults' = 0 => free_clst' = Cardinality(FreeClusters') + Cardinality(Pending')
        BY <1>6, <1>7, <2>2, <4>1, <4>2 DEF Counted
      <4> QED BY <4>4, <4>5 DEF Counted
    <3> QED BY <3>1, <3>2
  <2> QED BY <1>7, <2>1, <2>3, <2>4, <2>5 DEF Accounted
<1>9. p.file = f => obj'[f] = x /\ entry'[f] = e
  BY <1>2
<1>10. ObjectOf(f)' = IF x.open THEN x ELSE Object(e, FALSE, FALSE, FALSE)
  BY <1>2 DEF ObjectOf, Object
<1> QED BY <1>2, <1>3, <1>4, <1>5, <1>8, <1>10, Frame

\* A change of the object that leaves the size and the pieces.
Alike(o, x) ==
    /\ x.sclust = o.sclust /\ x.stat = o.stat /\ x.n_frag = o.n_frag
    /\ o.stat = 3 => x.n_cont = o.n_cont
    /\ x.objsize = o.objsize /\ x.fptr <= x.objsize
    /\ o.n_frag # 0 => x.clust = o.clust /\ x.objsize <= x.fptr

LEMMA LiesAlike ==
  ASSUME NEW v, NEW h, NEW t, NEW f, NEW o, NEW x, Alike(o, x), Lies(v, h, t, o, f)
  PROVE  Lies(v, h, t, x, f)
<1>1. /\ Laid(v, h, t, o, f) => Laid(v, h, t, x, f)
      /\ Ends(h, t, o, f) => Ends(h, t, x, f)
  BY LaidAlike DEF Alike
<1> QED BY <1>1 DEF Lies, Alike

LEMMA ChainAlike ==
  ASSUME NEW v, NEW h, NEW t, NEW f, NEW o, NEW x, Alike(o, x), Chained(v, h, t, o, f)
  PROVE  Chained(v, h, t, x, f)
  BY LiesAlike DEF Chained, Alike

LEMMA LiesOnFAT ==
  ASSUME NEW h, NEW t, NEW f, NEW o
  PROVE  Chained("FAT", h, t, o, f) <=> Lies("FAT", h, t, o, f)
  BY DEF Chained

LEMMA NewCalls ==
  /\ \A call \in {"append", "write", "read", "seek"}, f \in File, at \in {"loop", "chain", "got"}, n \in Nat :
       LET p == Doing(call, f, at, n) IN
       /\ p \in CallRecord /\ p.call = call /\ p.file = f /\ p.at = at /\ p.n = n /\ p.got = 0
  /\ \A call \in {"truncate", "overwrite", "unlink"}, f \in File, c \in Cluster, d \in Cluster \cup {0} :
       LET p == Removing(call, f, c, d) IN
       /\ p \in CallRecord /\ p.call = call /\ p.file = f /\ p.at = "cut" /\ p.n = c
       /\ p.clst = c /\ p.pclst = d /\ p.scl = c /\ p.ecl = c
<1>1. Idle \in CallRecord
  BY IdleIs
<1>2. ASSUME NEW call \in {"append", "write", "read", "seek"}, NEW f \in File,
             NEW at \in {"loop", "chain", "got"}, NEW n \in Nat
      PROVE  LET p == Doing(call, f, at, n) IN
             /\ p \in CallRecord /\ p.call = call /\ p.file = f /\ p.at = at /\ p.n = n /\ p.got = 0
  BY <1>1 DEF Doing, CallRecord, Idle
<1>3. ASSUME NEW call \in {"truncate", "overwrite", "unlink"}, NEW f \in File, NEW c \in Cluster,
             NEW d \in Cluster \cup {0}
      PROVE  LET p == Removing(call, f, c, d) IN
             /\ p \in CallRecord /\ p.call = call /\ p.file = f /\ p.at = "cut" /\ p.n = c
             /\ p.clst = c /\ p.pclst = d /\ p.scl = c /\ p.ecl = c
  <2>1. c \in 0..EOC /\ c \in Nat
    BY ClusterIs
  <2> QED BY <1>1, <2>1 DEF Removing, CallRecord, Idle
<1> QED BY <1>2, <1>3

\* The call in progress.
LEMMA Current ==
  ASSUME FilesInv, op # Idle
  PROVE  LET f == op.file
             o == obj[f]
             e == entry[f] IN
         /\ f \in File /\ f # None /\ op \in CallRecord /\ o \in FileObject /\ e \in EntryRecord
         /\ op.call # "none" /\ EntryOK(type, e)
         /\ op.call = "append" => Appending(type, holds, fat, e, o, op, f)
         /\ op.call = "read" => Reading(type, holds, fat, faults, e, o, op, f)
         /\ op.call = "write" /\ op.at = "loop" => Writing(type, holds, fat, faults, e, o, op, f)
         /\ op.call = "seek" /\ op.at = "loop" => Seeking(type, holds, fat, faults, e, o, op, f)
         /\ op.at = "chain" => Asking(type, holds, fat, faults, e, o, op, f)
         /\ op.at = "got" /\ op.got \in {0, 1} => Denied(type, holds, fat, faults, e, o, op, f)
         /\ op.at = "got" /\ op.got \notin {0, 1} => Given(type, holds, fat, faults, e, o, op, f)
         /\ op.at = "cut" => Cutting(type, holds, fat, e, o, op, f)
         /\ op.at \in {"free", "freed"} => Freeing(type, holds, fat, e, o, op, f)
<1> DEFINE f == op.file
           o == obj[f]
           e == entry[f]
<1>1. f # None /\ op.call # "none" /\ TypeOK
  BY DEF FilesInv
<1>2. op \in CallRecord /\ f \in File /\ o \in FileObject /\ e \in EntryRecord
  <2>1. op \in CallRecord
    BY <1>1, TypeIs
  <2>2. f \in File
    BY <1>1, <2>1 DEF CallRecord
  <2> QED BY <1>1, <2>1, <2>2, TypeIs
<1>3. Busy(type, holds, fat, faults, e, o, op, f) /\ EntryOK(type, e)
  BY <1>2 DEF FilesInv
<1>4. 0 \notin Cluster /\ 1 \notin Cluster
  BY ClusterIs
<1> HIDE DEF o, e, f
<1> SUFFICES
      /\ op.call = "append" => Appending(type, holds, fat, e, o, op, f)
      /\ op.call = "read" => Reading(type, holds, fat, faults, e, o, op, f)
      /\ op.call = "write" /\ op.at = "loop" => Writing(type, holds, fat, faults, e, o, op, f)
      /\ op.call = "seek" /\ op.at = "loop" => Seeking(type, holds, fat, faults, e, o, op, f)
      /\ op.at = "chain" => Asking(type, holds, fat, faults, e, o, op, f)
      /\ op.at = "got" /\ op.got \in {0, 1} => Denied(type, holds, fat, faults, e, o, op, f)
      /\ op.at = "got" /\ op.got \notin {0, 1} => Given(type, holds, fat, faults, e, o, op, f)
      /\ op.at = "cut" => Cutting(type, holds, fat, e, o, op, f)
      /\ op.at \in {"free", "freed"} => Freeing(type, holds, fat, e, o, op, f)
  BY <1>1, <1>2, <1>3 DEF o, e, f
<1> QED BY <1>3, <1>4 DEF Busy, Appending, Reading, Writing, Seeking, Asking, Denied, Given, Cutting, Freeing, Behind

\* A file at rest.
LEMMA AtRest ==
  ASSUME FilesInv, op = Idle, NEW f \in File
  PROVE  LET o == ObjectOf(f) IN
         /\ op.file = None /\ op.at = "loop"
         /\ obj[f] \in FileObject /\ entry[f] \in EntryRecord /\ o \in FileObject
         /\ EntryOK(type, entry[f])
         /\ Rests(type, holds, fat, faults, entry[f], o, f) /\ Chained(type, holds, fat, o, f)
         /\ obj[f].open => o = obj[f]
         /\ ~obj[f].open => o = Object(entry[f], FALSE, FALSE, FALSE)
<1>1. op.file = None /\ op.at = "loop" /\ None \notin File
  BY IdleIs
<1>2. Resting(f) /\ EntryOK(type, entry[f]) /\ TypeOK
  BY <1>1 DEF FilesInv
<1>3. obj[f] \in FileObject /\ entry[f] \in EntryRecord /\ ObjectOf(f) \in FileObject
  BY <1>2, TypeIs
<1>4. /\ obj[f].open => ObjectOf(f) = obj[f]
      /\ ~obj[f].open => ObjectOf(f) = Object(entry[f], FALSE, FALSE, FALSE)
  BY DEF ObjectOf
<1>5. Rests(type, holds, fat, faults, entry[f], ObjectOf(f), f)
  BY <1>2 DEF Resting
<1>6. Chained(type, holds, fat, ObjectOf(f), f)
  BY <1>5 DEF Rests
<1> QED BY <1>1, <1>2, <1>3, <1>4, <1>5, <1>6

-----------------------------------------------------------------------------
(* f_open.                                                                   *)

\* The chain of no clusters.
LEMMA NoChain ==
  ASSUME NEW v, NEW h, Placed(h), NEW t, NEW f \in File, Of(h, f) = {}, NEW o \in FileObject,
         o.sclust = 0, o.stat = 0, o.n_frag = 0, o.objsize = 0, o.fptr = 0
  PROVE  Chained(v, h, t, o, f) /\ Positioned(h, o, f) /\ Sized(h, f, 0)
<1>1. Laid(v, h, t, o, f)
  BY DEF Laid, OnePiece, FirstPiece, LastPiece, InTable
<1>2. Ends(h, t, o, f)
  BY DEF Ends
<1>3. Sized(h, f, 0)
  <2>1. 1..Parts(0) = {}
    BY PartsOfNone
  <2> QED BY <2>1 DEF Sized
<1>4. AtMost(h, f, Parts(0))
  BY DEF AtMost
<1> QED BY <1>1, <1>2, <1>3, <1>4 DEF Chained, Lies, Positioned

\* A file has a first cluster if it has any data, or any size.
LEMMA HasFirst ==
  ASSUME NEW v, NEW h, Placed(h), NEW t, NEW f \in File, NEW o \in FileObject, Lies(v, h, t, o, f)
  PROVE  /\ o.sclust = 0 => Of(h, f) = {} /\ o.objsize = 0 /\ o.fptr = 0 /\ o.stat = 0 /\ o.n_frag = 0
         /\ o.objsize # 0 => o.sclust \in Of(h, f) /\ o.sclust \in Cluster /\ h[o.sclust].part = 1
         /\ \A n \in Nat : Sized(h, f, n) /\ Of(h, f) = {} => n = 0
<1>1. o.objsize \in Nat /\ o.fptr \in Nat /\ o.fptr <= o.objsize /\ Laid(v, h, t, o, f) /\ Sized(h, f, o.objsize)
  BY DEF Lies, FileObject
<1>2. ASSUME NEW n \in Nat, Sized(h, f, n), Of(h, f) = {}
      PROVE  n = 0
  <2> SUFFICES ASSUME n # 0 PROVE FALSE
    OBVIOUS
  <2>1. Parts(n) \in Nat /\ Parts(n) > 0
    BY PartsType
  <2>2. 1 \in 1..Parts(n)
    BY <2>1
  <2> QED BY <1>2, <2>2 DEF Sized, HasPart
<1>3. o.sclust = 0 => Of(h, f) = {} /\ o.objsize = 0 /\ o.fptr = 0 /\ o.stat = 0 /\ o.n_frag = 0
  BY <1>1, <1>2 DEF Laid
<1>4. o.sclust # 0 => o.sclust \in Of(h, f) /\ o.sclust \in Cluster /\ h[o.sclust].part = 1
  BY <1>1 DEF Laid, FileObject
<1> QED BY <1>2, <1>3, <1>4

\* A step that changes no more than the entry, the object and the call of f.
LEMMA QuietStep ==
  ASSUME FilesInv, NEW f \in File, NEW x \in FileObject, NEW e \in EntryRecord, NEW p \in CallRecord,
         op.file \in {f, None}, op.at # "free", p.at # "free",
         obj' = [obj EXCEPT ![f] = x], entry' = [entry EXCEPT ![f] = e], op' = p,
         UNCHANGED <<type, fat, bitmap, free_clst, last_clst, holds>>,
         faults' = faults \/ Fails,
         EntryOK(type, e),
         \/ p.file = f /\ p.call # "none" /\ Busy(type, holds, fat, faults', e, x, p, f)
         \/ p = Idle /\ Rests(type, holds, fat, faults', e,
                              IF x.open THEN x ELSE Object(e, FALSE, FALSE, FALSE), f)
  PROVE  FilesInv'
<1>1. /\ last_clst \in 0..LastCluster /\ fat \in [Cluster -> Link] /\ faults \in 0..MaxFaults
      /\ faults \in Nat /\ MaxFaults \in Nat /\ (type = "exFAT" => faults = 0)
  BY TypeIs DEF FilesInv
<1>2. faults' \in 0..MaxFaults /\ faults <= faults' /\ (type = "exFAT" => faults' = 0)
  BY <1>1 DEF Fails
<1>3. p.file \in {f, None} /\ f # None /\ (p = Idle => p.file # f)
  BY IdleIs
<1>4. IF p.file = f
      THEN p.call # "none" /\ Busy(type, holds', fat', faults', e, x, p, f)
      ELSE p = Idle /\ Rests(type, holds', fat', faults', e,
                             IF x.open THEN x ELSE Object(e, FALSE, FALSE, FALSE), f)
  BY <1>3
<1> QED BY <1>1, <1>2, <1>3, <1>4, CallStep

LEMMA Unchanged ==
  ASSUME FilesInv, NEW f \in File
  PROVE  obj = [obj EXCEPT ![f] = obj[f]] /\ entry = [entry EXCEPT ![f] = entry[f]]
  BY TypeIs DEF FilesInv

LEMMA OpenNewKeeps ==
  ASSUME FilesInv, NEW f \in File, OpenNew(f)
  PROVE  FilesInv'
<1> DEFINE e == Entry(0, 0, 0)
           x == Object(e, TRUE, TRUE, TRUE)
           o == ObjectOf(f)
<1>1. op = Idle /\ ~obj[f].open /\ ~entry[f].there
  BY DEF OpenNew, CanOpen
<1>2. e \in EntryRecord /\ x \in FileObject /\ x.open /\ EntryOK(type, e)
  BY EntriesAreTyped, Objects DEF Object, EntryOK, Entry
<1>3. o = Object(NoEntry, FALSE, FALSE, FALSE) /\ Chained(type, holds, fat, o, f)
  BY <1>1, AtRest DEF EntryOK
<1>4. Chained(type, holds, fat, x, f)
  <2>1. Alike(o, x)
    BY <1>3 DEF Alike, Object, NoEntry, Entry
  <2> QED BY <1>3, <2>1, ChainAlike
<1>5. Rests(type, holds, fat, faults, e, x, f)
  BY <1>4 DEF Rests, Positioned, Object
<1> HIDE DEF e, x, o
<1>6. /\ obj' = [obj EXCEPT ![f] = x] /\ entry' = [entry EXCEPT ![f] = e] /\ op' = Idle
      /\ UNCHANGED <<type, fat, bitmap, free_clst, last_clst, holds, faults>>
  BY <1>1 DEF OpenNew, e, x
<1> QED BY <1>1, <1>2, <1>5, <1>6, IdleIs, QuietStep

LEMMA OpenOldKeeps ==
  ASSUME FilesInv, NEW f \in File, NEW w \in BOOLEAN, OpenOld(f, w)
  PROVE  FilesInv'
<1> DEFINE e == entry[f]
           x == Object(e, TRUE, w, FALSE)
           o == ObjectOf(f)
<1>1. op = Idle /\ ~obj[f].open
  BY DEF OpenOld, CanOpen
<1>2. e \in EntryRecord /\ x \in FileObject /\ x.open /\ EntryOK(type, e)
  BY <1>1, AtRest, Objects DEF Object
<1>3. o = Object(e, FALSE, FALSE, FALSE) /\ Chained(type, holds, fat, o, f)
  BY <1>1, AtRest
<1>4. Same(e, x) /\ Chained(type, holds, fat, x, f)
  <2>1. Alike(o, x) /\ Same(e, x)
    BY <1>2, <1>3 DEF Object, EntryRecord, Alike, Same
  <2> QED BY <1>3, <2>1, ChainAlike
<1>5. Fits(holds, e, x, f)
  BY <1>4 DEF Fits, Same, Chained, Lies
<1>6. Rests(type, holds, fat, faults, e, x, f)
  BY <1>4, <1>5 DEF Rests, Positioned, Object
<1> HIDE DEF e, x, o
<1>7. /\ obj' = [obj EXCEPT ![f] = x] /\ entry' = [entry EXCEPT ![f] = e] /\ op' = Idle
      /\ UNCHANGED <<type, fat, bitmap, free_clst, last_clst, holds, faults>>
  BY <1>1, Unchanged DEF OpenOld, e, x
<1> QED BY <1>1, <1>2, <1>6, <1>7, IdleIs, QuietStep

LEMMA ZeroIsBoundary == 0 % ClusterSize = 0 /\ ClusterSize \in Nat \ {0}
<1>1. ClusterSize \in Nat \ {0}
  BY VolumeAssumption
<1>2. 0 \in 0..(ClusterSize - 1) /\ ClusterSize * 0 + 0 = 0
  BY <1>1
<1>3. (ClusterSize * 0 + 0) % ClusterSize = 0
  BY <1>1, <1>2, Quotient
<1> QED BY <1>1, <1>2, <1>3

LEMMA OpenAppendKeeps ==
  ASSUME FilesInv, NEW f \in File, OpenAppend(f)
  PROVE  FilesInv'
<1> DEFINE e == entry[f]
           y == Object(e, TRUE, TRUE, FALSE)
           x == [y EXCEPT !.fptr = y.objsize, !.clust = y.sclust]
           o == ObjectOf(f)
           p == Doing("append", f, "loop", e.size)
<1>1. op = Idle /\ ~obj[f].open /\ e.size > 0
  BY DEF OpenAppend, CanOpen
<1>2. e \in EntryRecord /\ y \in FileObject /\ EntryOK(type, e) /\ e.size \in Nat
  BY <1>1, AtRest, Objects DEF EntryRecord
<1>3. o = Object(e, FALSE, FALSE, FALSE) /\ Chained(type, holds, fat, o, f) /\ o \in FileObject
  BY <1>1, AtRest
<1>4. x \in FileObject
  BY <1>2 DEF FileObject
<1>5. Same(e, x) /\ Chained(type, holds, fat, x, f)
  <2>1. Alike(o, x) /\ Same(e, x)
    BY <1>2, <1>3 DEF Object, EntryRecord, Alike, Same
  <2> QED BY <1>3, <2>1, ChainAlike
<1>6. /\ x.open /\ ~x.err /\ ~x.modified /\ x.n_frag = 0 /\ x.fptr = x.objsize /\ x.objsize = e.size
      /\ x.clust = x.sclust
  BY DEF Object
<1>7. Placed(holds)
  BY DEF FilesInv
<1>8. p \in CallRecord /\ p.file = f /\ p.at = "loop" /\ p.n = e.size /\ p.call = "append"
  BY <1>2, NewCalls
<1> HIDE DEF e, o, p, x
<1>9. AtPart(holds, x, f, Parts(x.objsize - p.n) + 1)
  <2>1. x.clust \in Of(holds, f) /\ holds[x.clust].part = 1
    <3>1. Lies(type, holds, fat, x, f) /\ x.objsize # 0
      BY <1>1, <1>2, <1>5, <1>6 DEF Chained
    <3> QED BY <1>4, <1>6, <1>7, <3>1, HasFirst
  <2>2. Parts(x.objsize - p.n) + 1 = 1
    BY <1>2, <1>6, <1>8, PartsOfNone
  <2> QED BY <2>1, <2>2 DEF AtPart
<1>10. p.n \in 1..x.objsize /\ (x.objsize - p.n) % ClusterSize = 0
  <2>1. x.objsize - p.n = 0
    BY <1>2, <1>6, <1>8
  <2> QED BY <1>1, <1>2, <1>6, <1>8, <2>1, ZeroIsBoundary
<1>11. Appending(type, holds, fat, e, x, p, f)
  BY <1>5, <1>6, <1>8, <1>9, <1>10 DEF Appending
<1>12. Busy(type, holds, fat, faults, e, x, p, f)
  BY <1>8, <1>11 DEF Busy
<1>13. /\ obj' = [obj EXCEPT ![f] = x] /\ entry' = [entry EXCEPT ![f] = e] /\ op' = p
       /\ UNCHANGED <<type, fat, bitmap, free_clst, last_clst, holds, faults>>
  BY Unchanged DEF OpenAppend, e, x, p
<1> QED BY <1>1, <1>2, <1>4, <1>8, <1>12, <1>13, IdleIs, QuietStep

\* The cluster after one with part k of a file.
LEMMA NextOf ==
  ASSUME FilesInv, NEW f \in File, NEW o \in FileObject, o.n_frag = 0,
         Chained(type, holds, fat, o, f), NEW c \in Of(holds, f)
  PROVE  LET d == GetFat(o, c) IN
         IF HasPart(holds, f, holds[c].part + 1)
         THEN d \in Of(holds, f) /\ holds[d].part = holds[c].part + 1 /\ d \in Cluster /\ d # EOC /\ d > 1
         ELSE d = EOC /\ d \notin Cluster
<1>1. Placed(holds) /\ type \in {"FAT", "exFAT"}
  BY TypeIs DEF FilesInv
<1> DEFINE d == GetFat(o, c)
<1>2. IF HasPart(holds, f, holds[c].part + 1) THEN d \in Of(holds, f) /\ holds[d].part = holds[c].part + 1
      ELSE d = EOC
  BY <1>1, GetFatIs, NextIs
<1>3. \A x \in Of(holds, f) : x \in Cluster
  BY DEF Of
<1> HIDE DEF d
<1> QED BY <1>2, <1>3, ClusterIs DEF d

LEMMA AppendLoopKeeps ==
  ASSUME FilesInv, AppendLoop
  PROVE  FilesInv'
<1> DEFINE f == op.file
           e == entry[f]
           o == obj[f]
           next == GetFat(o, o.clust)
           D == ClusterSize
           m == o.objsize - op.n
<1>1. op.call = "append" /\ op # Idle
  BY IdleIs DEF AppendLoop
<1>2. /\ f \in File /\ e \in EntryRecord /\ o \in FileObject /\ op \in CallRecord /\ EntryOK(type, e)
      /\ Appending(type, holds, fat, e, o, op, f)
  BY <1>1, Current
<1>3. /\ op.at = "loop" /\ o.open /\ ~o.err /\ ~o.modified /\ o.n_frag = 0 /\ o.fptr = o.objsize
      /\ Chained(type, holds, fat, o, f) /\ Same(e, o)
      /\ op.n \in 1..o.objsize /\ m % D = 0 /\ AtPart(holds, o, f, Parts(m) + 1)
      /\ o.objsize \in Nat
  BY <1>2 DEF Appending, FileObject
<1>4. m \in Nat /\ op.n \in Nat /\ m + op.n = o.objsize /\ D \in Nat \ {0}
  BY <1>3, ZeroIsBoundary
<1>5. /\ Parts(m) \in Nat /\ (m + D) % D = 0 /\ \A i \in 1..D : Parts(m + i) = Parts(m) + 1
  BY <1>3, <1>4, AtBoundary, PartsType
<1>6. Sized(holds, f, o.objsize)
  BY <1>3 DEF Chained, Lies
<1>7. \/ op.n <= D /\ op' = Idle /\ obj' = obj
      \/ op.n > D /\ next < 2 /\ op' = Idle /\ obj' = [obj EXCEPT ![f] = Closed]
      \/ /\ op.n > D /\ ~(next < 2)
         /\ op' = [op EXCEPT !.n = @ - D] /\ obj' = [obj EXCEPT ![f].clust = next]
  BY <1>4 DEF AppendLoop
<1>8. UNCHANGED <<type, fat, bitmap, free_clst, last_clst, entry, holds, faults>>
  BY DEF AppendLoop
<1>9. /\ op.file \in {f, None} /\ Idle \in CallRecord /\ Idle.at # "free" /\ op.at # "free"
      /\ entry = [entry EXCEPT ![f] = e] /\ obj = [obj EXCEPT ![f] = o]
  BY <1>2, <1>3, IdleIs, Unchanged
<1> HIDE DEF f, e, o, next, D, m
<1>10. ASSUME op.n <= D, op' = Idle, obj' = obj PROVE FilesInv'
  <2>1. Parts(o.fptr) = Parts(m) + 1
    BY <1>3, <1>4, <1>5, <1>10
  <2>2. Positioned(holds, o, f) /\ Fits(holds, e, o, f)
    BY <1>3, <1>6, <2>1 DEF Positioned, Fits, Same
  <2>3. Rests(type, holds, fat, faults, e, o, f)
    BY <1>3, <2>2 DEF Rests
  <2> QED BY <1>2, <1>3, <1>8, <1>9, <1>10, <2>3, QuietStep
<1>11. ASSUME op.n > D
       PROVE  next \in Of(holds, f) /\ holds[next].part = Parts(m) + 2 /\ next \in Cluster /\ next > 1
  <2>1. Parts(o.objsize) \in Nat /\ Parts(o.objsize) >= Parts(m) + 2
    BY <1>3, <1>4, <1>11, PartsCompare, PartsType DEF D
  <2>2. o.clust \in Of(holds, f) /\ holds[o.clust].part = Parts(m) + 1
    BY <1>3 DEF AtPart
  <2>3. holds[o.clust].part + 1 \in 1..Parts(o.objsize) /\ holds[o.clust].part + 1 = Parts(m) + 2
    BY <1>5, <2>1, <2>2
  <2>4. HasPart(holds, f, holds[o.clust].part + 1)
    BY <1>6, <2>3 DEF Sized
  <2> QED BY <1>2, <1>3, <2>2, <2>3, <2>4, NextOf DEF next
<1>12. ASSUME op.n > D, next < 2 PROVE FilesInv'
  BY <1>11, <1>12, ClusterIs
<1>13. ASSUME op.n > D, op' = [op EXCEPT !.n = @ - D], obj' = [obj EXCEPT ![f].clust = next] PROVE FilesInv'
  <2> DEFINE x == [o EXCEPT !.clust = next]
             p == [op EXCEPT !.n = @ - D]
  <2>1. x \in FileObject
    BY <1>2, <1>11, <1>13 DEF FileObject
  <2>2. /\ x.open /\ ~x.err /\ ~x.modified /\ x.n_frag = 0 /\ x.fptr = x.objsize /\ x.objsize = o.objsize
        /\ x.clust = next /\ Alike(o, x) /\ Same(e, x)
    BY <1>2, <1>3 DEF Alike, FileObject, Same
  <2>3. obj' = [obj EXCEPT ![f] = x]
    BY <1>13 DEF o
  <2>4. op.n - D \in Nat /\ op.n - D > 0
    BY <1>4, <1>13
  <2>5. p \in CallRecord /\ p.n = op.n - D /\ p.at = "loop" /\ p.call = "append" /\ p.file = f
    BY <1>1, <1>2, <1>3, <2>4 DEF CallRecord, f
  <2> HIDE DEF x, p
  <2>6. Chained(type, holds, fat, x, f)
    BY <1>3, <2>2, ChainAlike
  <2>7. p.n \in 1..x.objsize /\ x.objsize - p.n = m + D
    BY <1>3, <1>4, <2>2, <2>4, <2>5
  <2>8. Parts(m + D) = Parts(m) + 1
    BY <1>4, <1>5
  <2>9. AtPart(holds, x, f, Parts(x.objsize - p.n) + 1)
    BY <1>5, <1>11, <1>13, <2>2, <2>7, <2>8 DEF AtPart
  <2>10. Appending(type, holds, fat, e, x, p, f)
    BY <1>5, <2>2, <2>5, <2>6, <2>7, <2>9 DEF Appending, D
  <2>11. op' = p
    BY <1>13 DEF p
  <2>12. Busy(type, holds, fat, faults', e, x, p, f)
    BY <2>5, <2>10 DEF Busy
  <2> QED BY <1>2, <1>3, <1>8, <1>9, <2>1, <2>3, <2>5, <2>11, <2>12, QuietStep
<1> QED BY <1>7, <1>10, <1>12, <1>13

\* The file is closed, with the chain and the size of its entry.
LEMMA ClosedAlike ==
  ASSUME NEW v \in {"FAT", "exFAT"}, NEW h, NEW t, NEW f \in File, NEW n, NEW o \in FileObject, NEW e \in EntryRecord,
         Chained(v, h, t, o, f), Same(e, o)
  PROVE  Rests(v, h, t, n, e, Object(e, FALSE, FALSE, FALSE), f)
<1> DEFINE x == Object(e, FALSE, FALSE, FALSE)
<1>1. e.stat # 3 /\ e.size \in Nat
  BY DEF EntryRecord
<1>2. Alike(o, x)
  BY <1>1 DEF Same, Alike, Object
<1>3. ~x.open /\ ~x.err /\ x.fptr = 0
  BY DEF Object
<1> HIDE DEF x
<1>4. Chained(v, h, t, x, f)
  BY <1>2, ChainAlike
<1>5. Rests(v, h, t, n, e, x, f)
  BY <1>3, <1>4 DEF Rests, Positioned
<1> QED BY <1>5 DEF x

LEMMA ClosedIs ==
  Closed \in FileObject /\ ~Closed.open
  BY EntriesAreTyped, Objects DEF Closed, Object

LEMMA AppendFailsKeeps ==
  ASSUME FilesInv, AppendFails
  PROVE  FilesInv'
<1> DEFINE f == op.file
           e == entry[f]
           o == obj[f]
<1>1. op.call = "append" /\ op # Idle
  BY IdleIs DEF AppendFails
<1>2. /\ f \in File /\ e \in EntryRecord /\ o \in FileObject /\ op \in CallRecord /\ EntryOK(type, e)
      /\ Appending(type, holds, fat, e, o, op, f)
  BY <1>1, Current
<1>3. op.at = "loop" /\ Chained(type, holds, fat, o, f) /\ Same(e, o) /\ type \in {"FAT", "exFAT"}
  BY <1>2, TypeIs DEF Appending, FilesInv
<1>4. /\ obj' = [obj EXCEPT ![f] = Closed] /\ op' = Idle /\ Fails
      /\ UNCHANGED <<type, fat, bitmap, free_clst, last_clst, entry, holds>>
  BY DEF AppendFails
<1>5. /\ op.file \in {f, None} /\ Idle \in CallRecord /\ Idle.at # "free" /\ op.at # "free"
      /\ entry' = [entry EXCEPT ![f] = e]
  BY <1>2, <1>3, <1>4, IdleIs, Unchanged
<1> HIDE DEF f, e, o
<1>6. Rests(type, holds, fat, faults', e, Object(e, FALSE, FALSE, FALSE), f)
  BY <1>2, <1>3, ClosedAlike
<1> QED BY <1>2, <1>4, <1>5, <1>6, ClosedIs, QuietStep

\* The chain of a closed file is to be removed.
LEMMA RemoveAll ==
  ASSUME FilesInv, op = Idle, NEW f \in File, ~obj[f].open, entry[f].sclust # 0,
         NEW call \in {"overwrite", "unlink"},
         NEW e, e.sclust = 0, e.size = 0, e.stat = 0
  PROVE  LET x == Object(entry[f], FALSE, FALSE, FALSE)
             p == Removing(call, f, entry[f].sclust, 0) IN
         /\ x \in FileObject /\ p \in CallRecord /\ p.file = f /\ p.call # "none" /\ p.at = "cut"
         /\ Busy(type, holds, fat, faults, e, x, p, f)
<1> DEFINE x == Object(entry[f], FALSE, FALSE, FALSE)
           s == entry[f].sclust
           p == Removing(call, f, s, 0)
<1>1. /\ Chained(type, holds, fat, x, f) /\ EntryOK(type, entry[f]) /\ entry[f] \in EntryRecord
      /\ x \in FileObject
  BY AtRest
<1>2. /\ ~x.open /\ ~x.err /\ x.n_frag = 0 /\ x.fptr = 0 /\ x.sclust = s /\ x.stat = entry[f].stat
  BY DEF Object
<1>3. s \in Of(holds, f) /\ holds[s].part = 1 /\ s \in Cluster
  BY <1>1, <1>2 DEF Chained, Lies, Laid, Of
<1>4. /\ p \in CallRecord /\ p.call = call /\ p.file = f /\ p.at = "cut" /\ p.n = s
      /\ p.clst = s /\ p.pclst = 0 /\ p.scl = s /\ p.ecl = s
  BY <1>3, NewCalls
<1> HIDE DEF x, s, p
<1>5. Positioned(holds, x, f) /\ Parts(x.fptr) + 1 = 1
  BY <1>2, PartsOfNone DEF Positioned
<1>6. type = "FAT" => x.stat = 0
  BY <1>1, <1>2 DEF EntryOK
<1>7. Behind(type, holds, e, x, p, f)
  BY <1>2, <1>3, <1>4, <1>5, <1>6 DEF Behind
<1>8. Cutting(type, holds, fat, e, x, p, f)
  BY <1>1, <1>3, <1>4, <1>5, <1>7 DEF Cutting
<1>9. Busy(type, holds, fat, faults, e, x, p, f)
  BY <1>8 DEF Busy
<1> QED BY <1>1, <1>4, <1>9 DEF x, s, p

\* A closed file without clusters has no size.
LEMMA EmptyFile ==
  ASSUME FilesInv, op = Idle, NEW f \in File, ~obj[f].open, entry[f].sclust = 0
  PROVE  Of(holds, f) = {} /\ entry[f].size = 0 /\ entry[f].stat = 0
<1> DEFINE o == Object(entry[f], FALSE, FALSE, FALSE)
<1>1. Chained(type, holds, fat, o, f) /\ o \in FileObject /\ Placed(holds)
  BY AtRest DEF FilesInv
<1>2. o.sclust = 0 /\ o.objsize = entry[f].size /\ o.stat = entry[f].stat
  BY DEF Object
<1> HIDE DEF o
<1>3. Lies(type, holds, fat, o, f)
  BY <1>1 DEF Chained
<1> QED BY <1>1, <1>2, <1>3, HasFirst

LEMMA EmptyRests ==
  ASSUME NEW v, NEW h, Placed(h), NEW t, NEW f \in File, NEW n, NEW e, Of(h, f) = {},
         NEW s \in EntryRecord, s.sclust = 0, s.size = 0, s.stat = 0, NEW x \in BOOLEAN, NEW w \in BOOLEAN, NEW m \in BOOLEAN,
         x => m
  PROVE  Rests(v, h, t, n, e, Object(s, x, w, m), f)
<1> DEFINE o == Object(s, x, w, m)
<1>1. o \in FileObject
  BY Objects
<1>2. /\ o.sclust = 0 /\ o.stat = 0 /\ o.n_frag = 0 /\ o.objsize = 0 /\ o.fptr = 0
      /\ ~o.err /\ (o.open => o.modified)
  BY DEF Object
<1> HIDE DEF o
<1>3. Chained(v, h, t, o, f) /\ Positioned(h, o, f)
  BY <1>1, <1>2, NoChain
<1>4. Rests(v, h, t, n, e, o, f)
  BY <1>2, <1>3 DEF Rests
<1> QED BY <1>4 DEF o

LEMMA ZeroEntries ==
  /\ Entry(0, 0, 0) \in EntryRecord /\ NoEntry \in EntryRecord
  /\ Entry(0, 0, 0).sclust = 0 /\ Entry(0, 0, 0).size = 0 /\ Entry(0, 0, 0).stat = 0
  /\ NoEntry.sclust = 0 /\ NoEntry.size = 0 /\ NoEntry.stat = 0
  /\ \A v : EntryOK(v, Entry(0, 0, 0)) /\ EntryOK(v, NoEntry)
  BY EntriesAreTyped DEF Entry, NoEntry, EntryOK

LEMMA OverwriteKeeps ==
  ASSUME FilesInv, NEW f \in File, Overwrite(f)
  PROVE  FilesInv'
<1> DEFINE e == Entry(0, 0, 0)
<1>1. /\ op = Idle /\ ~obj[f].open /\ op.file = None /\ op.at # "free" /\ Placed(holds) /\ faults' = faults
      /\ entry[f] \in EntryRecord
  BY AtRest DEF Overwrite, CanOpen, FilesInv
<1>2. /\ entry' = [entry EXCEPT ![f] = e]
      /\ UNCHANGED <<type, fat, bitmap, free_clst, last_clst, holds, faults>>
  BY DEF Overwrite
<1>3. CASE entry[f].sclust = 0
  <2> DEFINE x == Object(e, TRUE, TRUE, TRUE)
  <2>1. x \in FileObject /\ x.open
    BY ZeroEntries, Objects DEF Object
  <2>2. Rests(type, holds, fat, faults, e, x, f)
    BY <1>1, <1>3, EmptyFile, ZeroEntries, EmptyRests
  <2>3. obj' = [obj EXCEPT ![f] = x] /\ op' = Idle
    BY <1>1, <1>3 DEF Overwrite
  <2> HIDE DEF x, e
  <2> QED BY <1>1, <1>2, <2>1, <2>2, <2>3, ZeroEntries, IdleIs, QuietStep DEF e
<1>4. CASE entry[f].sclust # 0
  <2> DEFINE x == Object(entry[f], FALSE, FALSE, FALSE)
             p == Removing("overwrite", f, entry[f].sclust, 0)
  <2>1. /\ x \in FileObject /\ p \in CallRecord /\ p.file = f /\ p.call # "none" /\ p.at = "cut"
        /\ Busy(type, holds, fat, faults, e, x, p, f)
    <3> HIDE DEF e
    <3> QED BY <1>1, <1>4, ZeroEntries, RemoveAll DEF e
  <2>2. obj' = [obj EXCEPT ![f] = x] /\ op' = p
    BY <1>4 DEF Overwrite
  <2> HIDE DEF x, e, p
  <2> QED BY <1>1, <1>2, <2>1, <2>2, ZeroEntries, QuietStep DEF e
<1> QED BY <1>3, <1>4

LEMMA UnlinkKeeps ==
  ASSUME FilesInv, NEW f \in File, Unlink(f)
  PROVE  FilesInv'
<1>1. /\ op = Idle /\ ~obj[f].open /\ op.file = None /\ op.at # "free" /\ Placed(holds) /\ faults' = faults
      /\ entry[f] \in EntryRecord /\ obj[f] \in FileObject
  BY AtRest DEF Unlink, CanOpen, FilesInv
<1>2. /\ entry' = [entry EXCEPT ![f] = NoEntry]
      /\ UNCHANGED <<type, fat, bitmap, free_clst, last_clst, holds, faults>>
  BY DEF Unlink
<1>3. CASE entry[f].sclust = 0
  <2>1. Rests(type, holds, fat, faults, NoEntry, Object(NoEntry, FALSE, FALSE, FALSE), f)
    BY <1>1, <1>3, EmptyFile, ZeroEntries, EmptyRests
  <2>2. obj' = [obj EXCEPT ![f] = obj[f]] /\ op' = Idle
    BY <1>1, <1>3, Unchanged DEF Unlink
  <2> QED BY <1>1, <1>2, <2>1, <2>2, ZeroEntries, IdleIs, QuietStep
<1>4. CASE entry[f].sclust # 0
  <2> DEFINE x == Object(entry[f], FALSE, FALSE, FALSE)
             p == Removing("unlink", f, entry[f].sclust, 0)
  <2>1. /\ x \in FileObject /\ p \in CallRecord /\ p.file = f /\ p.call # "none" /\ p.at = "cut"
        /\ Busy(type, holds, fat, faults, NoEntry, x, p, f)
    BY <1>1, <1>4, ZeroEntries, RemoveAll
  <2>2. obj' = [obj EXCEPT ![f] = x] /\ op' = p
    BY <1>4 DEF Unlink
  <2> HIDE DEF x, p
  <2> QED BY <1>1, <1>2, <2>1, <2>2, ZeroEntries, QuietStep
<1> QED BY <1>3, <1>4

-----------------------------------------------------------------------------
(* f_write.                                                                  *)

\* x is o with the position w units further, and the size at least that.
Onto(o, x, w) ==
    /\ x.sclust = o.sclust /\ x.stat = o.stat /\ x.n_cont = o.n_cont /\ x.n_frag = o.n_frag /\ x.clust = o.clust
    /\ x.fptr = o.fptr + w
    /\ x.objsize = IF o.fptr + w > o.objsize THEN o.fptr + w ELSE o.objsize

\* The pieces stay where they are.
LEMMA OntoLaid ==
  ASSUME NEW v, NEW h, NEW t, NEW f, NEW o \in FileObject, NEW w \in Nat, NEW x, Onto(o, x, w),
         Laid(v, h, t, o, f), Ends(h, t, o, f)
  PROVE  Laid(v, h, t, x, f) /\ Ends(h, t, x, f) /\ x.fptr <= x.objsize
<1>1. o.fptr \in Nat /\ o.objsize \in Nat
  BY DEF FileObject
<1>2. o.n_frag # 0 => o.objsize <= o.fptr
  BY DEF Laid, LastPiece
<1>3. o.n_frag # 0 => x.clust = o.clust /\ x.objsize <= x.fptr
  BY <1>1, <1>2 DEF Onto
<1>4. x.sclust = o.sclust /\ x.stat = o.stat /\ x.n_frag = o.n_frag /\ (o.stat = 3 => x.n_cont = o.n_cont)
  BY DEF Onto
<1>5. Laid(v, h, t, x, f) /\ Ends(h, t, x, f)
  BY <1>3, <1>4, LaidAlike
<1> QED BY <1>1, <1>5 DEF Onto

\* Over data in the cluster that was asked for.
LEMMA Onward ==
  ASSUME NEW v, NEW h, Placed(h), NEW t, NEW n, NEW e, NEW f \in File, NEW o \in FileObject, NEW p,
         Ahead(v, h, t, n, e, o, p, f), NEW w \in 1..ClusterSize, NEW x, Onto(o, x, w)
  PROVE  /\ Chained(v, h, t, x, f) /\ Positioned(h, x, f)
         /\ Parts(x.fptr) = Parts(o.fptr) + 1 /\ Parts(x.fptr) \in Nat
<1>1. /\ Lies(v, h, t, o, f) /\ AtPart(h, o, f, Parts(o.fptr) + 1)
      /\ v = "exFAT" => \A c \in Of(h, f) : h[c].part <= Parts(o.objsize) \/ h[c].part <= Parts(o.fptr) + 1
      /\ o.fptr % ClusterSize = 0
  BY DEF Ahead, OnBoundary
<1>2. /\ o.fptr \in Nat /\ o.objsize \in Nat /\ w \in Nat /\ o.fptr <= o.objsize
      /\ Laid(v, h, t, o, f) /\ Ends(h, t, o, f) /\ Sized(h, f, o.objsize)
  BY <1>1, ZeroIsBoundary DEF FileObject, Lies
<1>3. Parts(o.fptr + w) = Parts(o.fptr) + 1
  BY <1>1, <1>2, AtBoundary
<1>4. x.fptr = o.fptr + w /\ x.fptr \in Nat /\ x.objsize \in Nat /\ x.clust = o.clust
      /\ o.objsize <= x.objsize /\ x.fptr <= x.objsize
      /\ (x.objsize = o.objsize \/ x.objsize = x.fptr)
  BY <1>2 DEF Onto
<1>5. Parts(x.fptr) \in Nat /\ Parts(x.objsize) \in Nat /\ Parts(o.objsize) \in Nat /\ Parts(o.fptr) \in Nat
      /\ Parts(o.objsize) <= Parts(x.objsize) /\ Parts(x.fptr) <= Parts(x.objsize)
  BY <1>2, <1>4, PartsType, PartsGrow
<1>6. Laid(v, h, t, x, f) /\ Ends(h, t, x, f)
  BY <1>2, OntoLaid
<1>7. o.clust \in Of(h, f) /\ h[o.clust].part = Parts(x.fptr)
  BY <1>1, <1>3, <1>4 DEF AtPart
<1>8. Sized(h, f, x.objsize)
  <2>1. CASE x.objsize = o.objsize
    BY <1>2, <2>1
  <2>2. CASE x.objsize = x.fptr
    <3>1. \A k \in 1..Parts(x.fptr) : HasPart(h, f, k)
      BY <1>7 DEF Placed
    <3> QED BY <2>2, <3>1 DEF Sized
  <2> QED BY <1>4, <2>1, <2>2
<1>9. v = "exFAT" => AtMost(h, f, Parts(x.objsize))
  <2> SUFFICES ASSUME v = "exFAT", NEW c \in Of(h, f) PROVE h[c].part <= Parts(x.objsize)
    BY DEF AtMost
  <2>1. h[c].part \in Nat
    BY HoldsIs
  <2>2. h[c].part <= Parts(o.objsize) \/ h[c].part <= Parts(x.fptr)
    BY <1>1, <1>3, <1>4
  <2> QED BY <1>5, <2>1, <2>2
<1>10. Chained(v, h, t, x, f)
  BY <1>4, <1>6, <1>8, <1>9 DEF Chained, Lies
<1> QED BY <1>3, <1>4, <1>5, <1>7, <1>10 DEF Positioned, AtPart

\* Over data in the cluster of the position.
LEMMA Inward ==
  ASSUME NEW v, NEW h, Placed(h), NEW t, NEW f \in File, NEW o \in FileObject,
         Chained(v, h, t, o, f), Positioned(h, o, f), o.fptr % ClusterSize # 0,
         NEW w \in 1..(ClusterSize - (o.fptr % ClusterSize)), NEW x, Onto(o, x, w)
  PROVE  Chained(v, h, t, x, f) /\ Positioned(h, x, f)
<1>1. /\ Lies(v, h, t, o, f) /\ (v = "exFAT" => AtMost(h, f, Parts(o.objsize)))
  BY DEF Chained
<1>2. /\ o.fptr \in Nat /\ o.objsize \in Nat /\ o.fptr <= o.objsize
      /\ Laid(v, h, t, o, f) /\ Ends(h, t, o, f) /\ Sized(h, f, o.objsize)
  BY <1>1 DEF FileObject, Lies
<1> DEFINE r == ClusterSize - (o.fptr % ClusterSize)
<1>3. r \in Nat /\ w \in Nat /\ w \in 0..r /\ \A m \in 0..r : Parts(o.fptr + m) = Parts(o.fptr)
  BY <1>2, WithinCluster, ZeroIsBoundary
<1> HIDE DEF r
<1>4. o.fptr # 0
  BY ZeroIsBoundary
<1>5. x.fptr = o.fptr + w /\ x.fptr \in Nat /\ x.objsize \in Nat /\ x.clust = o.clust
      /\ o.objsize <= x.objsize /\ x.fptr <= x.objsize /\ o.objsize - o.fptr \in Nat
      /\ (x.objsize = o.objsize \/ (x.objsize = x.fptr /\ o.objsize - o.fptr <= w))
  BY <1>2, <1>3 DEF Onto
<1>6. Parts(x.fptr) = Parts(o.fptr)
  BY <1>3, <1>5
<1>7. Parts(x.objsize) = Parts(o.objsize)
  <2>1. CASE x.objsize = x.fptr /\ o.objsize - o.fptr <= w
    <3>1. o.objsize - o.fptr \in 0..r /\ o.fptr + (o.objsize - o.fptr) = o.objsize
      BY <1>2, <1>3, <1>5, <2>1
    <3>2. Parts(o.objsize) = Parts(o.fptr)
      BY <1>3, <3>1
    <3> QED BY <1>6, <2>1, <3>2
  <2> QED BY <1>5, <2>1
<1>8. Laid(v, h, t, x, f) /\ Ends(h, t, x, f)
  BY <1>2, <1>3, OntoLaid
<1>9. Sized(h, f, x.objsize)
  BY <1>2, <1>7 DEF Sized
<1>10. Chained(v, h, t, x, f)
  BY <1>1, <1>5, <1>7, <1>8, <1>9 DEF Chained, Lies
<1>11. Positioned(h, x, f)
  BY <1>2, <1>4, <1>5, <1>6 DEF Positioned, AtPart
<1> QED BY <1>10, <1>11

LEMMA WriteBeginKeeps ==
  ASSUME FilesInv, NEW f \in File, NEW n \in Lengths, WriteBegin(f, n)
  PROVE  FilesInv'
<1> DEFINE e == entry[f]
           o == obj[f]
           p == Doing("write", f, "loop", n)
<1>1. op = Idle /\ o.open /\ ~o.err /\ o.write
  BY DEF WriteBegin, Usable
<1>2. /\ e \in EntryRecord /\ o \in FileObject /\ EntryOK(type, e) /\ op.file = None /\ op.at = "loop"
      /\ Rests(type, holds, fat, faults, e, o, f)
  BY <1>1, AtRest
<1>3. n \in Nat
  BY VolumeAssumption
<1>4. p \in CallRecord /\ p.file = f /\ p.call = "write" /\ p.at = "loop"
  BY <1>3, NewCalls
<1>5. /\ op' = p /\ UNCHANGED <<type, fat, bitmap, free_clst, last_clst, holds, faults>>
      /\ entry' = [entry EXCEPT ![f] = e] /\ obj' = [obj EXCEPT ![f] = o]
  BY Unchanged DEF WriteBegin
<1> HIDE DEF e, o, p
<1>6. Writing(type, holds, fat, faults, e, o, p, f)
  BY <1>1, <1>2, <1>4 DEF Writing, Rests
<1>7. Busy(type, holds, fat, faults, e, o, p, f)
  BY <1>6 DEF Busy
<1> QED BY <1>1, <1>2, <1>4, <1>5, <1>7, QuietStep

LEMMA AtIs ==
  ASSUME NEW o \in FileObject, NEW c \in Cluster
  PROVE  LET x == At(o, c) IN
         /\ x \in FileObject /\ x.clust = c /\ x.sclust = IF o.sclust = 0 THEN c ELSE o.sclust
         /\ x.open = o.open /\ x.write = o.write /\ x.modified = o.modified /\ x.err = o.err
         /\ x.objsize = o.objsize /\ x.stat = o.stat /\ x.n_cont = o.n_cont /\ x.n_frag = o.n_frag
         /\ x.fptr = o.fptr
  BY DEF At, FileObject

\* The file object goes on in the first cluster.
LEMMA AtFirst ==
  ASSUME NEW v \in {"FAT", "exFAT"}, NEW h, Placed(h), NEW t, NEW n, NEW e, NEW f \in File, NEW o \in FileObject, NEW p,
         o.open, ~o.err, Chained(v, h, t, o, f), o.sclust # 0, NEW x \in FileObject,
         x.open /\ ~x.err /\ x.fptr = 0 /\ x.clust = o.sclust /\ x.sclust = o.sclust /\ x.stat = o.stat,
         x.objsize = o.objsize /\ x.n_cont = o.n_cont /\ x.n_frag = o.n_frag, x.n_frag # 0 => o.fptr = 0,
         p.n > 0,
         ~x.modified => Fits(h, e, x, f) /\ (p.call = "seek" /\ n = 0 => Same(e, x) \/ x.objsize <= 0)
  PROVE  Ahead(v, h, t, n, e, x, p, f)
<1>1. o.n_frag = 0
  <2> SUFFICES ASSUME o.n_frag # 0 PROVE FALSE
    OBVIOUS
  <2>1. o.objsize # 0 /\ o.fptr = o.objsize
    BY LastNext
  <2> QED BY <2>1
<1>2. Alike(o, x)
  BY <1>1 DEF Alike, FileObject
<1>3. Chained(v, h, t, x, f)
  BY <1>2, ChainAlike
<1>4. Lies(v, h, t, x, f) /\ (v = "exFAT" => AtMost(h, f, Parts(x.objsize)))
  BY <1>3 DEF Chained
<1>5. OnBoundary(x)
  BY ZeroIsBoundary DEF OnBoundary
<1>6. AtPart(h, x, f, Parts(x.fptr) + 1)
  BY <1>4, PartsOfNone DEF AtPart, Lies, Laid
<1> QED BY <1>4, <1>5, <1>6 DEF Ahead, AtMost

LEMMA WriteClusterKeeps ==
  ASSUME FilesInv, WriteCluster
  PROVE  FilesInv'
<1> DEFINE f == op.file
           e == entry[f]
           o == obj[f]
<1>1. op.call = "write" /\ op.at = "loop" /\ op.n > 0 /\ OnBoundary(o) /\ op # Idle
  BY IdleIs DEF WriteCluster
<1>2. /\ f \in File /\ e \in EntryRecord /\ o \in FileObject /\ op \in CallRecord /\ EntryOK(type, e)
      /\ Writing(type, holds, fat, faults, e, o, op, f) /\ type \in {"FAT", "exFAT"} /\ Placed(holds)
  BY <1>1, Current, TypeIs DEF FilesInv
<1>3. /\ o.open /\ o.write /\ ~o.err
      /\ Chained(type, holds, fat, o, f) /\ Positioned(holds, o, f)
      /\ ~o.modified => Fits(holds, e, o, f)
  BY <1>2 DEF Writing
<1>4. /\ \/ o.fptr = 0 /\ o.sclust # 0 /\ op' = [op EXCEPT !.at = "got", !.got = o.sclust]
         \/ ~(o.fptr = 0 /\ o.sclust # 0) /\ op' = [op EXCEPT !.at = "chain"]
      /\ UNCHANGED <<type, fat, bitmap, free_clst, last_clst, holds, faults>>
      /\ entry' = [entry EXCEPT ![f] = e] /\ obj' = [obj EXCEPT ![f] = o]
  BY <1>2, Unchanged DEF WriteCluster
<1>5. op.file \in {f, None}
  OBVIOUS
<1>6. op.file = f
  OBVIOUS
<1> HIDE DEF f, e, o
<1>7. CASE o.fptr = 0 /\ o.sclust # 0
  <2> DEFINE p == [op EXCEPT !.at = "got", !.got = o.sclust]
             x == At(o, o.sclust)
  <2>1. o.sclust \in Cluster /\ o.sclust \in 0..LastCluster
    BY <1>2, <1>7, ClusterIs DEF FileObject
  <2>2. /\ p \in CallRecord /\ p.file = f /\ p.call = "write" /\ p.at = "got" /\ p.got = o.sclust /\ p.n = op.n
    BY <1>1, <1>2, <1>6, <2>1 DEF CallRecord
  <2>3. /\ x \in FileObject /\ x.open /\ ~x.err /\ x.fptr = 0 /\ x.clust = o.sclust /\ x.sclust = o.sclust
        /\ x.stat = o.stat /\ x.objsize = o.objsize /\ x.n_cont = o.n_cont /\ x.n_frag = o.n_frag
        /\ x.modified = o.modified
    BY <1>2, <1>3, <1>7, <2>1, AtIs
  <2> HIDE DEF x
  <2>4. ~x.modified => Fits(holds, e, x, f)
    BY <1>3, <2>3 DEF Fits
  <2>5. p.n > 0 /\ p.call # "seek"
    BY <1>1, <2>2
  <2>6. op' = p
    BY <1>4, <1>7
  <2> HIDE DEF p
  <2>7. Ahead(type, holds, fat, faults, e, x, p, f)
    BY <1>2, <1>3, <1>7, <2>3, <2>4, <2>5, AtFirst
  <2>8. Given(type, holds, fat, faults, e, o, p, f)
    BY <1>3, <2>1, <2>2, <2>7 DEF Given, x
  <2>9. Busy(type, holds, fat, faults', e, o, p, f)
    BY <1>4, <2>8 DEF Busy
  <2> QED BY <1>1, <1>2, <1>4, <1>5, <2>2, <2>6, <2>9, QuietStep
<1>8. CASE ~(o.fptr = 0 /\ o.sclust # 0)
  <2> DEFINE p == [op EXCEPT !.at = "chain"]
  <2>2. p \in CallRecord /\ p.file = f /\ p.call = "write" /\ p.at = "chain" /\ p.n = op.n
    BY <1>1, <1>2, <1>6 DEF CallRecord
  <2>3. op' = p
    BY <1>4, <1>8
  <2> HIDE DEF p
  <2>4. p.n > 0 /\ (o.fptr > 0 \/ o.sclust = 0)
    BY <1>1, <1>2, <1>8, <2>2 DEF FileObject
  <2>5. MayStay(holds, faults, e, o, p, f)
    BY <1>3, <2>2 DEF MayStay
  <2>6. Asking(type, holds, fat, faults, e, o, p, f)
    BY <1>1, <1>3, <2>2, <2>4, <2>5 DEF Asking
  <2>7. Busy(type, holds, fat, faults', e, o, p, f)
    BY <1>4, <2>6 DEF Busy
  <2> QED BY <1>1, <1>2, <1>4, <1>5, <2>2, <2>3, <2>7, QuietStep
<1> QED BY <1>7, <1>8

LEMMA PartLengthIs ==
  ASSUME NEW o \in FileObject, op.n \in Nat, op.n > 0
  PROVE  /\ PartLength(o) \in 1..(ClusterSize - (o.fptr % ClusterSize)) /\ PartLength(o) <= op.n
         /\ PartLength(o) \in Nat /\ o.fptr \in Nat
         /\ OnBoundary(o) => PartLength(o) \in 1..ClusterSize
<1> DEFINE r == o.fptr % ClusterSize
<1>1. o.fptr \in Nat /\ ClusterSize \in Nat \ {0}
  BY ZeroIsBoundary DEF FileObject
<1>2. r \in 0..(ClusterSize - 1)
  BY <1>1, Divided
<1>3. PartLength(o) = IF op.n < ClusterSize - r THEN op.n ELSE ClusterSize - r
  BY DEF PartLength, Room
<1>4. OnBoundary(o) => r = 0
  BY DEF OnBoundary
<1> HIDE DEF r
<1>5. PartLength(o) \in 1..(ClusterSize - r) /\ PartLength(o) <= op.n /\ PartLength(o) \in Nat
      /\ (r = 0 => PartLength(o) \in 1..ClusterSize)
  BY <1>1, <1>2, <1>3
<1> QED BY <1>1, <1>4, <1>5 DEF r

LEMMA MovedIs ==
  ASSUME NEW o \in FileObject, NEW w \in Nat
  PROVE  LET x == Moved(o, w) IN
         /\ x \in FileObject /\ Onto(o, x, w) /\ x.sclust = o.sclust
         /\ x.open = o.open /\ x.write = o.write /\ x.modified = o.modified /\ x.err = o.err
<1> DEFINE n == o.fptr + w
           m == IF n > o.objsize THEN n ELSE o.objsize
           y == [o EXCEPT !.fptr = n]
           x == [y EXCEPT !.objsize = m]
<1>1. n \in Nat /\ m \in Nat
  BY DEF FileObject
<1>2. Moved(o, w) = x
  BY DEF Moved
<1>3. m = IF o.fptr + w > o.objsize THEN o.fptr + w ELSE o.objsize
  OBVIOUS
<1>4. n = o.fptr + w
  OBVIOUS
<1> HIDE DEF n, m
<1>5. /\ x \in FileObject /\ x.fptr = n /\ x.objsize = m
      /\ x.sclust = o.sclust /\ x.stat = o.stat /\ x.n_cont = o.n_cont /\ x.n_frag = o.n_frag /\ x.clust = o.clust
      /\ x.open = o.open /\ x.write = o.write /\ x.modified = o.modified /\ x.err = o.err
  BY <1>1 DEF FileObject
<1> HIDE DEF x
<1> QED BY <1>2, <1>3, <1>4, <1>5 DEF Onto

LEMMA WriteRestKeeps ==
  ASSUME FilesInv, WriteRest
  PROVE  FilesInv'
<1> DEFINE f == op.file
           e == entry[f]
           o == obj[f]
           w == PartLength(o)
<1>1. op.call = "write" /\ op.at = "loop" /\ op # Idle
  BY IdleIs DEF WriteRest
<1>2. /\ f \in File /\ e \in EntryRecord /\ o \in FileObject /\ op \in CallRecord /\ EntryOK(type, e)
      /\ Writing(type, holds, fat, faults, e, o, op, f) /\ type \in {"FAT", "exFAT"} /\ Placed(holds)
      /\ op.n \in Nat
  BY <1>1, Current, TypeIs DEF FilesInv, CallRecord
<1>3. /\ o.open /\ o.write /\ ~o.err
      /\ Chained(type, holds, fat, o, f) /\ Positioned(holds, o, f)
      /\ ~o.modified => Fits(holds, e, o, f)
  BY <1>2 DEF Writing
<1>4. /\ \/ op.n = 0 /\ op' = Idle /\ obj' = [obj EXCEPT ![f] = [o EXCEPT !.modified = TRUE]]
         \/ /\ op.n # 0 /\ ~OnBoundary(o)
            /\ obj' = [obj EXCEPT ![f] = Moved(o, w)] /\ op' = [op EXCEPT !.n = @ - w]
      /\ UNCHANGED <<type, fat, bitmap, free_clst, last_clst, holds, faults>>
      /\ entry' = [entry EXCEPT ![f] = e]
  BY <1>2, Unchanged DEF WriteRest
<1>5. op.file \in {f, None} /\ op.file = f
  OBVIOUS
<1>6. op.n # 0 => w \in 1..(ClusterSize - (o.fptr % ClusterSize)) /\ w <= op.n /\ w \in Nat
  BY <1>2, PartLengthIs
<1> HIDE DEF f, e, o, w
<1>7. CASE op.n = 0 /\ op' = Idle /\ obj' = [obj EXCEPT ![f] = [o EXCEPT !.modified = TRUE]]
  <2> DEFINE x == [o EXCEPT !.modified = TRUE]
  <2>1. x \in FileObject /\ x.open /\ x.modified /\ ~x.err /\ Alike(o, x) /\ x.fptr = o.fptr /\ x.clust = o.clust
    BY <1>2, <1>3 DEF FileObject, Alike, Chained, Lies, Laid, LastPiece
  <2>2. obj' = [obj EXCEPT ![f] = x]
    BY <1>7
  <2> HIDE DEF x
  <2>3. Chained(type, holds, fat, x, f) /\ Positioned(holds, x, f)
    BY <1>3, <2>1, ChainAlike DEF Positioned, AtPart
  <2>4. Rests(type, holds, fat, faults, e, x, f)
    BY <2>1, <2>3 DEF Rests
  <2> QED BY <1>1, <1>2, <1>4, <1>5, <1>7, <2>1, <2>2, <2>4, IdleIs, QuietStep
<1>8. CASE op.n # 0 /\ ~OnBoundary(o) /\ obj' = [obj EXCEPT ![f] = Moved(o, w)] /\ op' = [op EXCEPT !.n = @ - w]
  <2> DEFINE x == Moved(o, w)
             p == [op EXCEPT !.n = @ - w]
  <2>1. /\ x \in FileObject /\ x.open /\ x.write /\ ~x.err /\ x.modified = o.modified /\ Onto(o, x, w)
        /\ x.sclust = o.sclust
    BY <1>2, <1>3, <1>6, <1>8, MovedIs
  <2>2. op.n - w \in Nat
    BY <1>2, <1>6, <1>8
  <2>3. p \in CallRecord /\ p.call = "write" /\ p.file = f /\ p.at = "loop"
    BY <1>1, <1>2, <1>5, <2>2 DEF CallRecord
  <2>4. obj' = [obj EXCEPT ![f] = x] /\ op' = p
    BY <1>8
  <2> HIDE DEF x, p
  <2>5. Chained(type, holds, fat, x, f) /\ Positioned(holds, x, f)
    BY <1>2, <1>3, <1>6, <1>8, <2>1, Inward DEF OnBoundary
  <2>6. ~x.modified => Fits(holds, e, x, f)
    BY <1>3, <2>1 DEF Fits
  <2>7. Writing(type, holds, fat, faults, e, x, p, f)
    BY <2>1, <2>3, <2>5, <2>6 DEF Writing
  <2>8. Busy(type, holds, fat, faults', e, x, p, f)
    BY <1>4, <2>7 DEF Busy
  <2> QED BY <1>1, <1>2, <1>4, <1>5, <2>1, <2>3, <2>4, <2>8, QuietStep
<1> QED BY <1>4, <1>7, <1>8

LEMMA WriteGotKeeps ==
  ASSUME FilesInv, WriteGot
  PROVE  FilesInv'
<1> DEFINE f == op.file
           e == entry[f]
           o == obj[f]
           y == At(o, op.got)
           w == PartLength(o)
<1>1. op.call = "write" /\ op.at = "got" /\ op # Idle
  BY IdleIs DEF WriteGot
<1>2. /\ f \in File /\ e \in EntryRecord /\ o \in FileObject /\ op \in CallRecord /\ EntryOK(type, e)
      /\ type \in {"FAT", "exFAT"} /\ Placed(holds) /\ op.n \in Nat /\ op.got \in 0..LastCluster
      /\ op.got \in {0, 1} => Denied(type, holds, fat, faults, e, o, op, f)
      /\ op.got \notin {0, 1} => Given(type, holds, fat, faults, e, o, op, f)
  BY <1>1, Current, TypeIs DEF FilesInv, CallRecord
<1>3. /\ \/ op.got = 0 /\ op' = Idle /\ obj' = [obj EXCEPT ![f] = [o EXCEPT !.modified = TRUE]]
         \/ op.got = 1 /\ op' = Idle /\ obj' = [obj EXCEPT ![f] = [o EXCEPT !.err = TRUE]]
         \/ /\ op.got \notin {0, 1} /\ obj' = [obj EXCEPT ![f] = Moved(y, w)]
            /\ op' = [op EXCEPT !.at = "loop", !.n = @ - w, !.got = 0]
      /\ UNCHANGED <<type, fat, bitmap, free_clst, last_clst, holds, faults>>
      /\ entry' = [entry EXCEPT ![f] = e]
  <2>1. /\ CASE op.got = 0 -> op' = Idle /\ obj' = [obj EXCEPT ![f].modified = TRUE]
             [] op.got = 1 -> op' = Idle /\ obj' = [obj EXCEPT ![f].err = TRUE]
             [] OTHER -> /\ obj' = [obj EXCEPT ![f] = Moved(y, w)]
                         /\ op' = [op EXCEPT !.at = "loop", !.n = @ - w, !.got = 0]
        /\ UNCHANGED <<type, fat, bitmap, free_clst, last_clst, entry, holds, faults>>
    BY <1>2 DEF WriteGot
  <2>2. \/ op.got = 0 /\ op' = Idle /\ obj' = [obj EXCEPT ![f].modified = TRUE]
        \/ op.got = 1 /\ op' = Idle /\ obj' = [obj EXCEPT ![f].err = TRUE]
        \/ /\ op.got \notin {0, 1} /\ obj' = [obj EXCEPT ![f] = Moved(y, w)]
           /\ op' = [op EXCEPT !.at = "loop", !.n = @ - w, !.got = 0]
    <3> HIDE DEF y, w, f
    <3> QED BY <2>1
  <2> QED BY <1>2, <2>1, <2>2, Unchanged
<1>4. op.file \in {f, None} /\ op.file = f
  OBVIOUS
<1>w. w = PartLength(o)
  OBVIOUS
<1> HIDE DEF f, e, o, y, w
<1>5. ASSUME op.got \in {0, 1}
      PROVE  /\ o.open /\ ~o.err /\ (op.got = 1 => faults # 0)
             /\ Chained(type, holds, fat, o, f) /\ Positioned(holds, o, f)
             /\ ~o.modified => Fits(holds, e, o, f)
  BY <1>2, <1>5 DEF Denied, MayStay
<1>6. ASSUME op.got = 0, op' = Idle, obj' = [obj EXCEPT ![f] = [o EXCEPT !.modified = TRUE]]
      PROVE  FilesInv'
  <2> DEFINE x == [o EXCEPT !.modified = TRUE]
  <2>1. x \in FileObject /\ x.open /\ x.modified /\ ~x.err /\ Alike(o, x) /\ x.fptr = o.fptr /\ x.clust = o.clust
    BY <1>2, <1>5, <1>6 DEF FileObject, Alike, Chained, Lies, Laid, LastPiece
  <2>2. obj' = [obj EXCEPT ![f] = x]
    BY <1>6
  <2> HIDE DEF x
  <2>3. Chained(type, holds, fat, x, f) /\ Positioned(holds, x, f)
    BY <1>5, <1>6, <2>1, ChainAlike DEF Positioned, AtPart
  <2>4. Rests(type, holds, fat, faults, e, x, f)
    BY <2>1, <2>3 DEF Rests
  <2> QED BY <1>1, <1>2, <1>3, <1>4, <1>6, <2>1, <2>2, <2>4, IdleIs, QuietStep
<1>7. ASSUME op.got = 1, op' = Idle, obj' = [obj EXCEPT ![f] = [o EXCEPT !.err = TRUE]]
      PROVE  FilesInv'
  <2> DEFINE x == [o EXCEPT !.err = TRUE]
  <2>1. x \in FileObject /\ x.open /\ x.modified = o.modified /\ x.err /\ Alike(o, x) /\ x.sclust = o.sclust
    BY <1>2, <1>5, <1>7 DEF FileObject, Alike, Chained, Lies, Laid, LastPiece
  <2>2. obj' = [obj EXCEPT ![f] = x]
    BY <1>7
  <2> HIDE DEF x
  <2>3. Chained(type, holds, fat, x, f) /\ (~x.modified => Fits(holds, e, x, f)) /\ faults # 0
    BY <1>5, <1>7, <2>1, ChainAlike DEF Fits
  <2>4. Rests(type, holds, fat, faults, e, x, f)
    BY <2>1, <2>3 DEF Rests
  <2> QED BY <1>1, <1>2, <1>3, <1>4, <1>7, <2>1, <2>2, <2>4, IdleIs, QuietStep
<1>8. ASSUME op.got \notin {0, 1}, obj' = [obj EXCEPT ![f] = Moved(y, w)],
             op' = [op EXCEPT !.at = "loop", !.n = @ - w, !.got = 0]
      PROVE  FilesInv'
  <2> DEFINE x == Moved(y, w)
             p == [op EXCEPT !.at = "loop", !.n = @ - w, !.got = 0]
  <2>1. op.got \in Cluster /\ o.write /\ Ahead(type, holds, fat, faults, e, y, op, f)
    BY <1>2, <1>8 DEF Given, y
  <2>2. /\ y \in FileObject /\ y.write /\ y.open /\ y.fptr = o.fptr
    <3>1. y \in FileObject /\ y.write = o.write /\ y.fptr = o.fptr
      BY <1>2, <2>1, AtIs DEF y
    <3> QED BY <2>1, <3>1 DEF Ahead
  <2>3. ~y.err /\ OnBoundary(y) /\ op.n > 0 /\ (~y.modified => Fits(holds, e, y, f))
    BY <2>1 DEF Ahead
  <2>4. w \in 1..ClusterSize /\ w <= op.n /\ w \in Nat
    <3>1. OnBoundary(o)
      BY <2>2, <2>3 DEF OnBoundary
    <3> QED BY <1>2, <1>w, <2>3, <3>1, PartLengthIs
  <2>5. /\ x \in FileObject /\ x.open /\ x.write /\ ~x.err /\ x.modified = y.modified /\ Onto(y, x, w)
        /\ x.sclust = y.sclust
    BY <2>2, <2>3, <2>4, MovedIs
  <2>6. op.n - w \in Nat /\ 0 \in 0..LastCluster
    BY <1>2, <2>4, ClusterIs
  <2>7. p \in CallRecord /\ p.call = "write" /\ p.file = f /\ p.at = "loop"
    BY <1>1, <1>2, <1>4, <2>6 DEF CallRecord
  <2>8. obj' = [obj EXCEPT ![f] = x] /\ op' = p
    BY <1>8
  <2> HIDE DEF x, p
  <2>9. Chained(type, holds, fat, x, f) /\ Positioned(holds, x, f)
    BY <1>2, <2>1, <2>2, <2>4, <2>5, Onward
  <2>10. ~x.modified => Fits(holds, e, x, f)
    BY <2>3, <2>5 DEF Fits
  <2>11. Writing(type, holds, fat, faults, e, x, p, f)
    BY <2>5, <2>7, <2>9, <2>10 DEF Writing
  <2>12. Busy(type, holds, fat, faults', e, x, p, f)
    BY <1>3, <2>11 DEF Busy
  <2> QED BY <1>1, <1>2, <1>3, <1>4, <2>5, <2>7, <2>8, <2>12, QuietStep
<1> QED BY <1>3, <1>6, <1>7, <1>8

LEMMA WriteFailsKeeps ==
  ASSUME FilesInv, WriteFails
  PROVE  FilesInv'
<1> DEFINE f == op.file
           e == entry[f]
           o == obj[f]
           y == IF op.at = "got" THEN At(o, op.got) ELSE o
<1>1. /\ op.call = "write" /\ op # Idle /\ op.at \in {"got", "loop"}
      /\ op.at = "got" => op.got > 1
      /\ op.at = "loop" => op.n > 0 /\ ~OnBoundary(o)
  BY IdleIs DEF WriteFails
<1>2. /\ f \in File /\ e \in EntryRecord /\ o \in FileObject /\ op \in CallRecord /\ EntryOK(type, e)
      /\ type \in {"FAT", "exFAT"} /\ Placed(holds) /\ faults \in Nat /\ op.n \in Nat
      /\ op.at = "got" => Given(type, holds, fat, faults, e, o, op, f)
      /\ op.at = "loop" => Writing(type, holds, fat, faults, e, o, op, f)
  BY <1>1, Current, TypeIs DEF FilesInv, CallRecord
<1>3. PICK w \in 0 .. PartLength(o) - 1 : obj' = [obj EXCEPT ![f] = [Moved(y, w) EXCEPT !.err = TRUE]]
  BY DEF WriteFails
<1>4. /\ op' = Idle /\ Fails
      /\ UNCHANGED <<type, fat, bitmap, free_clst, last_clst, holds>>
      /\ entry' = [entry EXCEPT ![f] = e]
  BY <1>2, Unchanged DEF WriteFails
<1>5. op.file \in {f, None} /\ (op.at = "got" => y = At(o, op.got)) /\ (op.at = "loop" => y = o)
  OBVIOUS
<1> HIDE DEF f, e, o, y
<1>6. op.n > 0 => PartLength(o) \in 1..(ClusterSize - (o.fptr % ClusterSize)) /\ PartLength(o) \in Nat
                  /\ (OnBoundary(o) => PartLength(o) \in 1..ClusterSize)
  BY <1>2, PartLengthIs
<1>7. /\ y \in FileObject /\ y.open /\ Lies(type, holds, fat, y, f) /\ op.n > 0
      /\ ~y.modified => Fits(holds, e, y, f)
      /\ op.at = "got" => Ahead(type, holds, fat, faults, e, y, op, f) /\ OnBoundary(o)
      /\ op.at = "loop" => Chained(type, holds, fat, y, f) /\ Positioned(holds, y, f) /\ ~OnBoundary(y) /\ y = o
  <2>1. CASE op.at = "got"
    <3>1. op.got \in Cluster /\ Ahead(type, holds, fat, faults, e, y, op, f)
      BY <1>2, <1>5, <2>1 DEF Given
    <3>2. y \in FileObject /\ y.fptr = o.fptr
      BY <1>2, <1>5, <2>1, <3>1, AtIs
    <3>3. OnBoundary(o)
      BY <3>1, <3>2 DEF Ahead, OnBoundary
    <3> QED BY <2>1, <3>1, <3>2, <3>3 DEF Ahead
  <2>2. CASE op.at = "loop"
    <3>1. y = o /\ ~OnBoundary(o) /\ op.n > 0 /\ Writing(type, holds, fat, faults, e, o, op, f)
      BY <1>1, <1>2, <1>5, <2>2
    <3> QED BY <1>2, <2>2, <3>1 DEF Writing, Chained
  <2> QED BY <1>1, <2>1, <2>2
<1> DEFINE z == Moved(y, w)
           x == [z EXCEPT !.err = TRUE]
<1>8. w \in Nat /\ w < PartLength(o)
  BY <1>3, <1>6, <1>7
<1>9. z \in FileObject /\ Onto(y, z, w) /\ z.sclust = y.sclust /\ z.open = y.open /\ z.modified = y.modified
  BY <1>7, <1>8, MovedIs
<1>10. obj' = [obj EXCEPT ![f] = x]
  BY <1>3
<1> HIDE DEF z
<1>11. /\ x \in FileObject /\ x.open /\ x.modified = y.modified /\ x.err /\ x.sclust = y.sclust
       /\ x.stat = z.stat /\ x.n_cont = z.n_cont /\ x.n_frag = z.n_frag /\ x.clust = z.clust
       /\ x.objsize = z.objsize /\ x.fptr = z.fptr
  BY <1>7, <1>9 DEF FileObject
<1> HIDE DEF x
<1>12. Onto(y, x, w)
  BY <1>9, <1>11 DEF Onto
<1>13. type = "FAT" /\ faults' # 0
  BY <1>2, <1>4 DEF Fails
<1>14. Lies(type, holds, fat, x, f)
  <2>1. CASE w = 0
    <3>1. y.fptr \in Nat /\ y.objsize \in Nat /\ y.fptr <= y.objsize
      BY <1>7 DEF FileObject, Lies
    <3>2. x.fptr = y.fptr /\ x.objsize = y.objsize
      BY <1>12, <2>1, <3>1 DEF Onto
    <3>3. y.n_frag # 0 => x.objsize <= x.fptr
      BY <1>7, <3>2 DEF Lies, Laid, LastPiece
    <3>4. Alike(y, x)
      BY <1>12, <3>1, <3>2, <3>3 DEF Onto, Alike
    <3> QED BY <1>7, <3>4, LiesAlike
  <2>2. CASE w # 0 /\ op.at = "got"
    <3>1. w \in 1..ClusterSize
      <4>1. PartLength(o) \in 1..ClusterSize /\ ClusterSize \in Nat
        BY <1>6, <1>7, <2>2, ZeroIsBoundary
      <4> QED BY <1>8, <2>2, <4>1
    <3> QED BY <1>2, <1>7, <1>12, <2>2, <3>1, Onward DEF Chained
  <2>3. CASE w # 0 /\ op.at = "loop"
    <3>1. w \in 1..(ClusterSize - (y.fptr % ClusterSize)) /\ y.fptr % ClusterSize # 0
      <4> DEFINE r == y.fptr % ClusterSize
      <4>1. r \in 0..(ClusterSize - 1) /\ ClusterSize \in Nat
        BY <1>7, ZeroIsBoundary, Divided DEF FileObject
      <4>2. r # 0 /\ PartLength(o) \in 1..(ClusterSize - r)
        BY <1>6, <1>7, <2>3 DEF OnBoundary
      <4> HIDE DEF r
      <4>3. w \in 1..(ClusterSize - r)
        BY <1>8, <2>3, <4>1, <4>2
      <4> QED BY <4>2, <4>3 DEF r
    <3> QED BY <1>2, <1>7, <1>12, <2>3, <3>1, Inward DEF Chained
  <2> QED BY <1>1, <2>1, <2>2, <2>3
<1>15. Chained(type, holds, fat, x, f)
  BY <1>13, <1>14, LiesOnFAT
<1>16. ~x.modified => Fits(holds, e, x, f)
  BY <1>7, <1>11 DEF Fits
<1>17. Rests(type, holds, fat, faults', e, x, f)
  BY <1>11, <1>13, <1>15, <1>16 DEF Rests
<1> QED BY <1>1, <1>2, <1>4, <1>5, <1>10, <1>11, <1>17, IdleIs, QuietStep

-----------------------------------------------------------------------------
(* f_read.                                                                   *)

LEMMA ReadBeginKeeps ==
  ASSUME FilesInv, NEW f \in File, NEW n \in Lengths, ReadBegin(f, n)
  PROVE  FilesInv'
<1> DEFINE e == entry[f]
           o == obj[f]
           r == o.objsize - o.fptr
           k == IF n > r THEN r ELSE n
           p == Doing("read", f, "loop", k)
<1>1. op = Idle /\ o.open /\ ~o.err
  BY DEF ReadBegin, Usable
<1>2. /\ e \in EntryRecord /\ o \in FileObject /\ EntryOK(type, e) /\ op.file = None /\ op.at = "loop"
      /\ Rests(type, holds, fat, faults, e, o, f)
  BY <1>1, AtRest
<1>3. n \in Nat
  BY VolumeAssumption
<1>4. k \in Nat /\ k <= o.objsize - o.fptr
  BY <1>2, <1>3 DEF FileObject, Rests, Chained, Lies
<1>5. p \in CallRecord /\ p.file = f /\ p.call = "read" /\ p.at = "loop" /\ p.n = k
  BY <1>4, NewCalls
<1>6. /\ op' = p /\ UNCHANGED <<type, fat, bitmap, free_clst, last_clst, holds, faults>>
      /\ entry' = [entry EXCEPT ![f] = e] /\ obj' = [obj EXCEPT ![f] = o]
  BY Unchanged DEF ReadBegin
<1> HIDE DEF e, o, p, k
<1>7. Reading(type, holds, fat, faults, e, o, p, f)
  BY <1>1, <1>2, <1>4, <1>5 DEF Reading
<1>8. Busy(type, holds, fat, faults, e, o, p, f)
  BY <1>5, <1>7 DEF Busy
<1> QED BY <1>1, <1>2, <1>5, <1>6, <1>8, QuietStep

\* There is a cluster for the data behind the position.
LEMMA NextToRead ==
  ASSUME FilesInv, NEW f \in File, NEW o \in FileObject, Chained(type, holds, fat, o, f), Positioned(holds, o, f),
         o.fptr < o.objsize
  PROVE  LET d == IF ~OnBoundary(o) THEN o.clust ELSE IF o.fptr = 0 THEN o.sclust ELSE GetFat(o, o.clust) IN
         /\ o.n_frag = 0 /\ d \in Of(holds, f) /\ d \in Cluster
         /\ OnBoundary(o) => holds[d].part = Parts(o.fptr) + 1
         /\ ~OnBoundary(o) => holds[d].part = Parts(o.fptr)
<1>1. /\ Placed(holds) /\ type \in {"FAT", "exFAT"}
      /\ Lies(type, holds, fat, o, f) /\ Sized(holds, f, o.objsize) /\ o.fptr \in Nat /\ o.objsize \in Nat
  BY TypeIs DEF FilesInv, Chained, Lies, FileObject
<1>2. o.n_frag = 0
  <2> SUFFICES ASSUME o.n_frag # 0 PROVE FALSE
    OBVIOUS
  <2>1. o.fptr = o.objsize
    BY <1>1, LastNext
  <2> QED BY <1>1, <2>1
<1>3. o.sclust \in Of(holds, f) /\ holds[o.sclust].part = 1
  <2>1. o.objsize # 0
    BY <1>1
  <2> QED BY <1>1, <2>1, HasFirst
<1>4. \A c \in Of(holds, f) : c \in Cluster
  BY DEF Of
<1>5. CASE ~OnBoundary(o)
  <2>1. o.fptr > 0
    BY <1>1, <1>5, ZeroIsBoundary DEF OnBoundary
  <2>2. o.clust \in Of(holds, f) /\ holds[o.clust].part = Parts(o.fptr)
    BY <2>1 DEF Positioned, AtPart
  <2> QED BY <1>2, <1>4, <1>5, <2>2
<1>6. CASE OnBoundary(o) /\ o.fptr = 0
  BY <1>2, <1>3, <1>4, <1>6, PartsOfNone
<1>7. CASE OnBoundary(o) /\ o.fptr # 0
  <2>1. o.clust \in Of(holds, f) /\ holds[o.clust].part = Parts(o.fptr)
    BY <1>1, <1>7 DEF Positioned, AtPart
  <2>2. Parts(o.fptr) \in Nat /\ Parts(o.objsize) \in Nat /\ Parts(o.objsize) >= Parts(o.fptr) + 1
    BY <1>1, <1>7, PartsCompare, PartsType DEF OnBoundary
  <2>3. Parts(o.fptr) + 1 \in 1..Parts(o.objsize)
    BY <2>2
  <2>4. HasPart(holds, f, holds[o.clust].part + 1)
    BY <1>1, <2>1, <2>3 DEF Sized
  <2>5. LET d == GetFat(o, o.clust) IN d \in Of(holds, f) /\ holds[d].part = holds[o.clust].part + 1
    BY <1>2, <2>1, <2>4, NextOf
  <2> QED BY <1>2, <1>4, <1>7, <2>1, <2>5
<1> QED BY <1>5, <1>6, <1>7

LEMMA ReadPartKeeps ==
  ASSUME FilesInv, ReadPart
  PROVE  FilesInv'
<1> DEFINE f == op.file
           e == entry[f]
           o == obj[f]
           w == PartLength(o)
           clst == IF ~OnBoundary(o) THEN o.clust ELSE IF o.fptr = 0 THEN o.sclust ELSE GetFat(o, o.clust)
<1>1. op.call = "read" /\ op # Idle
  BY IdleIs DEF ReadPart
<1>2. /\ f \in File /\ e \in EntryRecord /\ o \in FileObject /\ op \in CallRecord /\ EntryOK(type, e)
      /\ type \in {"FAT", "exFAT"} /\ Placed(holds) /\ op.n \in Nat
      /\ Reading(type, holds, fat, faults, e, o, op, f)
  BY <1>1, Current, TypeIs DEF FilesInv, CallRecord
<1>3. /\ \/ /\ op.n > 0 /\ clst \in Cluster
            /\ obj' = [obj EXCEPT ![f].clust = clst, ![f].fptr = @ + w] /\ op' = [op EXCEPT !.n = @ - w]
         \/ ~(op.n > 0 /\ clst \in Cluster) /\ obj' = [obj EXCEPT ![f].err = op.n > 0] /\ op' = Idle
      /\ UNCHANGED <<type, fat, bitmap, free_clst, last_clst, holds, faults>>
      /\ entry' = [entry EXCEPT ![f] = e]
  BY <1>2, Unchanged DEF ReadPart
<1>4. op.file \in {f, None} /\ op.file = f /\ w = PartLength(o) /\ op.at = "loop"
  BY <1>2 DEF Reading
<1>5. /\ o.open /\ ~o.err /\ op.n <= o.objsize - o.fptr /\ Rests(type, holds, fat, faults, e, o, f)
      /\ Chained(type, holds, fat, o, f) /\ Positioned(holds, o, f)
      /\ ~o.modified => Fits(holds, e, o, f) /\ (faults = 0 => Same(e, o))
      /\ o.objsize \in Nat /\ o.fptr \in Nat
  BY <1>2 DEF Reading, Rests, FileObject
<1>6. ASSUME op.n > 0
      PROVE  /\ o.n_frag = 0 /\ clst \in Of(holds, f) /\ clst \in Cluster
             /\ OnBoundary(o) => holds[clst].part = Parts(o.fptr) + 1
             /\ ~OnBoundary(o) => holds[clst].part = Parts(o.fptr)
  <2>1. o.fptr < o.objsize
    BY <1>2, <1>5, <1>6
  <2> HIDE DEF o, f
  <2> QED BY <1>2, <1>5, <2>1, NextToRead
<1>7. obj' = [obj EXCEPT ![f].clust = clst, ![f].fptr = @ + w] =>
      obj' = [obj EXCEPT ![f] = [o EXCEPT !.clust = clst, !.fptr = o.fptr + w]]
  <2> HIDE DEF clst, w
  <2>1. obj \in [File -> FileObject]
    BY TypeIs DEF FilesInv
  <2> QED BY <1>2, <2>1 DEF FileObject
<1>8. obj' = [obj EXCEPT ![f].err = op.n > 0] => obj' = [obj EXCEPT ![f] = [o EXCEPT !.err = op.n > 0]]
  OBVIOUS
<1> HIDE DEF f, e, o, w, clst
<1>9. ASSUME op.n > 0, clst \in Cluster, op' = [op EXCEPT !.n = @ - w],
             obj' = [obj EXCEPT ![f] = [o EXCEPT !.clust = clst, !.fptr = o.fptr + w]]
      PROVE  FilesInv'
  <2> DEFINE y == o.fptr + w
             x == [o EXCEPT !.clust = clst, !.fptr = y]
             p == [op EXCEPT !.n = @ - w]
  <2>1. /\ w \in 1..(ClusterSize - (o.fptr % ClusterSize)) /\ w <= op.n /\ w \in Nat
        /\ OnBoundary(o) => w \in 1..ClusterSize
    BY <1>2, <1>4, <1>9, PartLengthIs
  <2>2. y \in Nat /\ y <= o.objsize /\ y = o.fptr + w /\ op.n - w \in Nat /\ op.n - w <= o.objsize - y
    BY <1>2, <1>5, <2>1
  <2>3. Parts(y) = holds[clst].part
    <3>1. CASE OnBoundary(o)
      BY <1>5, <1>6, <1>9, <2>1, <2>2, <3>1, AtBoundary DEF OnBoundary
    <3>2. CASE ~OnBoundary(o)
      <4>1. w \in 0..(ClusterSize - (o.fptr % ClusterSize))
        BY <2>1
      <4>2. Parts(y) = Parts(o.fptr)
        BY <1>5, <2>2, <3>2, <4>1, WithinCluster DEF OnBoundary
      <4> QED BY <1>6, <1>9, <3>2, <4>2
    <3> QED BY <3>1, <3>2
  <2>4. obj' = [obj EXCEPT ![f] = x] /\ op' = p
    BY <1>9
  <2> HIDE DEF y
  <2>5. /\ x \in FileObject /\ x.open /\ ~x.err /\ x.fptr = y /\ x.objsize = o.objsize /\ x.clust = clst
        /\ x.modified = o.modified /\ Alike(o, x) /\ x.sclust = o.sclust /\ x.stat = o.stat /\ x.n_frag = o.n_frag
    BY <1>2, <1>5, <1>6, <1>9, <2>2 DEF FileObject, Alike
  <2>6. p \in CallRecord /\ p.call = "read" /\ p.file = f /\ p.at = "loop" /\ p.n = op.n - w
    BY <1>1, <1>2, <1>4, <2>2 DEF CallRecord
  <2> HIDE DEF x, p
  <2>7. Chained(type, holds, fat, x, f)
    BY <1>5, <2>5, ChainAlike
  <2>8. Positioned(holds, x, f)
    BY <1>6, <1>9, <2>3, <2>5 DEF Positioned, AtPart
  <2>9. ~x.modified => Fits(holds, e, x, f) /\ (faults = 0 => Same(e, x))
    BY <1>5, <2>5 DEF Fits, Same
  <2>10. Rests(type, holds, fat, faults, e, x, f)
    BY <2>5, <2>7, <2>8, <2>9 DEF Rests
  <2>11. Reading(type, holds, fat, faults, e, x, p, f)
    BY <2>2, <2>5, <2>6, <2>10 DEF Reading
  <2>12. Busy(type, holds, fat, faults', e, x, p, f)
    BY <1>3, <2>6, <2>11 DEF Busy
  <2> QED BY <1>1, <1>2, <1>3, <1>4, <2>4, <2>5, <2>6, <2>12, QuietStep
<1>10. ASSUME ~(op.n > 0 /\ clst \in Cluster), op' = Idle,
              obj' = [obj EXCEPT ![f] = [o EXCEPT !.err = op.n > 0]]
       PROVE  FilesInv'
  <2>1. ~(op.n > 0)
    BY <1>6, <1>10
  <2>2. [o EXCEPT !.err = op.n > 0] = o
    BY <1>2, <1>5, <2>1 DEF FileObject
  <2>3. obj' = [obj EXCEPT ![f] = o]
    BY <1>10, <2>2
  <2> QED BY <1>1, <1>2, <1>3, <1>4, <1>5, <1>10, <2>3, IdleIs, QuietStep
<1> QED BY <1>3, <1>7, <1>8, <1>9, <1>10

LEMMA ReadFailsKeeps ==
  ASSUME FilesInv, ReadFails
  PROVE  FilesInv'
<1> DEFINE f == op.file
           e == entry[f]
           o == obj[f]
           x == [o EXCEPT !.err = TRUE]
<1>1. op.call = "read" /\ op # Idle
  BY IdleIs DEF ReadFails
<1>2. /\ f \in File /\ e \in EntryRecord /\ o \in FileObject /\ EntryOK(type, e) /\ faults \in Nat
      /\ Reading(type, holds, fat, faults, e, o, op, f)
  BY <1>1, Current, TypeIs DEF FilesInv
<1>3. /\ op' = Idle /\ obj' = [obj EXCEPT ![f] = x] /\ Fails
      /\ UNCHANGED <<type, fat, bitmap, free_clst, last_clst, holds>>
      /\ entry' = [entry EXCEPT ![f] = e]
  BY <1>2, Unchanged DEF ReadFails
<1>4. op.file \in {f, None}
  OBVIOUS
<1> HIDE DEF f, e, o
<1>5. /\ op.at = "loop" /\ o.open /\ Chained(type, holds, fat, o, f) /\ (~o.modified => Fits(holds, e, o, f))
  BY <1>2 DEF Reading, Rests
<1>6. x \in FileObject /\ x.open /\ x.modified = o.modified /\ x.err /\ Alike(o, x) /\ x.sclust = o.sclust
  BY <1>2, <1>5 DEF FileObject, Alike, Chained, Lies, Laid, LastPiece
<1> HIDE DEF x
<1>7. faults' # 0
  BY <1>2, <1>3 DEF Fails
<1>8. Chained(type, holds, fat, x, f) /\ (~x.modified => Fits(holds, e, x, f))
  BY <1>5, <1>6, ChainAlike DEF Fits
<1>9. Rests(type, holds, fat, faults', e, x, f)
  BY <1>6, <1>7, <1>8 DEF Rests
<1> QED BY <1>1, <1>2, <1>3, <1>4, <1>5, <1>6, <1>9, IdleIs, QuietStep

-----------------------------------------------------------------------------
(* f_lseek.                                                                  *)

\* fill_last_frag puts the last piece in the table, and nothing else.
LEMMA LastFilled ==
  ASSUME NEW v \in {"FAT", "exFAT"}, NEW h, Placed(h), NEW t \in [Cluster -> Link], NEW f \in File,
         NEW o \in FileObject, Chained(v, h, t, o, f)
  PROVE  LET t2 == FillLast(t, o.n_frag, o.clust, EOC) IN
         /\ Chained(v, h, t2, Filled(o), f)
         /\ t2 \in [Cluster -> Link] /\ \A c \in Cluster \ Of(h, f) : t2[c] = t[c]
         /\ o.n_frag = 0 => t2 = t
<1> DEFINE t2 == FillLast(t, o.n_frag, o.clust, EOC)
           x == Filled(o)
           k == o.n_frag
           z == o.clust
           L == h[z].part
<1>1. /\ x \in FileObject /\ x.n_frag = 0 /\ x.sclust = o.sclust /\ x.stat = o.stat /\ x.n_cont = o.n_cont
      /\ x.objsize = o.objsize /\ x.fptr = o.fptr /\ k \in Nat /\ z \in Nat
  BY ClusterIs DEF Filled, FileObject
<1>2. /\ Laid(v, h, t, o, f) /\ Ends(h, t, o, f) /\ Sized(h, f, o.objsize) /\ o.fptr <= o.objsize
      /\ (v = "exFAT" => AtMost(h, f, Parts(o.objsize)))
  BY DEF Chained, Lies
<1>3. ASSUME k = 0 PROVE t2 = t
  <2>1. z - k + 1 .. z = {}
    BY <1>1, <1>3
  <2>2. t2 = [c \in Cluster |-> t[c]]
    BY <2>1 DEF FillLast
  <2> QED BY <2>2
<1>4. CASE k = 0
  <2>1. Alike(o, x)
    BY <1>1, <1>2, <1>4 DEF Alike
  <2> QED BY <1>3, <1>4, <2>1, ChainAlike
<1>5. CASE k # 0
  <2>1. /\ z \in Of(h, f) /\ k <= L /\ L \in Nat \ {0} /\ o.stat # 2 /\ o.sclust # 0
        /\ \A c \in Of(h, f) :
             /\ h[c].part <= L
             /\ h[c].part > L - k => c = z - (L - h[c].part)
        /\ o.stat = 3 => o.n_cont + 1 <= L - k
    BY <1>2, <1>5, HoldsIs DEF Laid, LastPiece, OnePiece
  <2>2. \A c \in z - k + 1 .. z : c \in Of(h, f) /\ h[c].part = L - (z - c)
    BY <1>2, <1>5, LastIs DEF Laid
  <2>3. \A c \in Cluster : t2[c] = IF c \in z - k + 1 .. z THEN (IF c = z THEN EOC ELSE c + 1) ELSE t[c]
    BY DEF FillLast
  <2>4. ASSUME NEW c \in Cluster
        PROVE  t2[c] \in Link
    <3>1. CASE c \in z - k + 1 .. z /\ c # z
      <4>1. c + 1 \in z - k + 1 .. z
        BY <1>1, <3>1, ClusterIs
      <4>2. c + 1 \in Cluster
        BY <2>2, <4>1 DEF Of
      <4> QED BY <2>3, <3>1, <4>2 DEF Link
    <3> QED BY <2>3, <3>1 DEF Link
  <2>5. t2 \in [Cluster -> Link]
    BY <2>4 DEF FillLast
  <2>6. \A c \in Cluster \ Of(h, f) : t2[c] = t[c]
    BY <2>2, <2>3
  <2> HIDE DEF t2, L
  <2>7. \A c \in Of(h, f) : c \in Cluster /\ c \in Nat /\ h[c].part \in Nat
    BY HoldsIs, ClusterIs
  <2>8. InTable(h, t2, x, f)
    <3> SUFFICES ASSUME NEW c \in Of(h, f), NEW d \in Of(h, f), h[d].part = h[c].part + 1,
                        ~(o.stat = 3 /\ h[c].part <= o.n_cont)
                 PROVE  t2[c] = d
      BY <1>1 DEF InTable
    <3>1. CASE h[c].part > L - k
      <4>1. c = z - (L - h[c].part) /\ d = z - (L - h[d].part) /\ h[d].part <= L
        BY <2>1, <2>7, <3>1, <1>1
      <4>2. d = c + 1 /\ c \in z - k + 1 .. z /\ c # z
        BY <1>1, <2>1, <2>7, <3>1, <4>1
      <4> QED BY <2>3, <2>7, <4>2
    <3>2. CASE ~(h[c].part > L - k)
      <4>1. c \notin z - k + 1 .. z
        BY <1>1, <2>1, <2>2, <2>7, <3>2
      <4>2. t2[c] = t[c]
        BY <2>3, <2>7, <4>1
      <4>3. t[c] = d
        BY <1>2, <2>1, <3>2, <1>5 DEF Laid, InTable, L
      <4> QED BY <4>2, <4>3
    <3> QED BY <3>1, <3>2
  <2>9. Ends(h, t2, x, f)
    <3>1. ASSUME NEW c \in Of(h, f) PROVE t2[c] = EOC \/ HasPart(h, f, h[c].part + 1)
      <4>1. CASE h[c].part < L
        <5>1. h[c].part + 1 \in 1..L
          BY <2>1, <2>7, <4>1
        <5> QED BY <2>1, <5>1 DEF Placed, L
      <4>2. CASE ~(h[c].part < L)
        <5>1. h[c].part = L
          BY <2>1, <2>7, <4>2
        <5>2. c = z
          BY <2>1, <5>1 DEF Placed, L
        <5>3. z \in z - k + 1 .. z
          BY <1>1, <1>5
        <5> QED BY <2>3, <2>7, <5>2, <5>3
      <4> QED BY <4>1, <4>2
    <3>2. o.stat = 3 => HasPart(h, f, o.n_cont + 2)
      BY <1>2 DEF Ends
    <3> QED BY <1>1, <3>1, <3>2 DEF Ends
  <2>10. OnePiece(h, x, f) /\ FirstPiece(h, x, f) /\ LastPiece(h, x, f)
    BY <1>1, <1>2 DEF Laid, OnePiece, FirstPiece, LastPiece
  <2>11. Laid(v, h, t2, x, f)
    BY <1>1, <1>2, <2>8, <2>10 DEF Laid
  <2>12. Chained(v, h, t2, x, f)
    BY <1>1, <1>2, <2>9, <2>11 DEF Chained, Lies
  <2> QED BY <1>5, <2>5, <2>6, <2>12 DEF t2
<1> QED BY <1>4, <1>5

\* Where f_lseek starts from when it goes on from the cluster of the position.
LEMMA SeekFrom ==
  ASSUME NEW m \in Nat \ {0}, NEW n \in Nat \ {0}, (n - 1) \div ClusterSize >= (m - 1) \div ClusterSize
  PROVE  LET top == ((m - 1) \div ClusterSize) * ClusterSize IN n - top \in Nat /\ n - top > 0 /\ top + (n - top) = n
<1> DEFINE D == ClusterSize
           top == ((m - 1) \div D) * D
<1>1. D \in Nat \ {0}
  BY ZeroIsBoundary
<1>2. PICK q \in Nat : \E r \in 1..D : n = D * q + r
  BY Remainder
<1>3. PICK r \in 1..D : n = D * q + r
  BY <1>2
<1>4. PICK x \in Nat : \E s \in 1..D : m = D * x + s
  BY Remainder
<1>5. PICK s \in 1..D : m = D * x + s
  BY <1>4
<1>6. (n - 1) \div D = q /\ (m - 1) \div D = x
  BY <1>3, <1>5, PartsIs
<1>7. top = x * D /\ x <= q /\ x \in Nat
  BY <1>6
<1>8. x * D = D * x /\ D * x <= D * q /\ D * x \in Nat /\ D * q \in Nat
  <2> HIDE DEF D
  <2>1. PICK y \in Nat : q = x + y
    <3>1. q - x \in Nat /\ q = x + (q - x)
      BY <1>7
    <3> QED BY <3>1
  <2>2. D * q = D * x + D * y /\ D * y \in Nat /\ D * x \in Nat
    BY <1>1, <1>7, <2>1
  <2> QED BY <1>1, <1>7, <2>2
<1> DEFINE a == D * x
           b == D * q
<1>9. top = a /\ a <= b /\ a \in Nat /\ b \in Nat /\ n = b + r /\ r \in Nat \ {0}
  BY <1>1, <1>3, <1>7, <1>8
<1> HIDE DEF a, b, top
<1>10. n - top \in Nat /\ n - top > 0 /\ top + (n - top) = n
  BY <1>9
<1> QED BY <1>10 DEF top

LEMMA SeekBeginKeeps ==
  ASSUME FilesInv, NEW f \in File, NEW ofs \in Nat, SeekBegin(f, ofs)
  PROVE  FilesInv'
<1> DEFINE e == entry[f]
           o == obj[f]
           y == Filled(o)
           n == IF ofs > y.objsize /\ ~y.write THEN y.objsize ELSE ofs
           top == ((y.fptr - 1) \div ClusterSize) * ClusterSize
           on == y.fptr > 0 /\ (n - 1) \div ClusterSize >= (y.fptr - 1) \div ClusterSize
           at == IF y.sclust = 0 THEN "chain" ELSE "loop"
<1>1. op = Idle /\ o.open /\ ~o.err
  BY DEF SeekBegin, Usable
<1>2. /\ e \in EntryRecord /\ o \in FileObject /\ EntryOK(type, e) /\ op.file = None /\ op.at = "loop"
      /\ Rests(type, holds, fat, faults, e, o, f) /\ Chained(type, holds, fat, o, f)
      /\ Placed(holds) /\ type \in {"FAT", "exFAT"} /\ fat \in [Cluster -> Link]
      /\ last_clst \in 0..LastCluster /\ faults \in 0..MaxFaults /\ faults \in Nat
      /\ (type = "exFAT" => faults = 0)
  BY <1>1, AtRest, TypeIs DEF FilesInv
<1>3. /\ fat' = IF type = "exFAT" THEN FillLast(fat, o.n_frag, o.clust, EOC) ELSE fat
      /\ \/ n = 0 /\ obj' = [obj EXCEPT ![f] = [y EXCEPT !.fptr = 0]] /\ op' = Idle
         \/ /\ n > 0 /\ on /\ obj' = [obj EXCEPT ![f] = [y EXCEPT !.fptr = top]]
            /\ op' = Doing("seek", f, "loop", n - top)
         \/ /\ n > 0 /\ ~on /\ obj' = [obj EXCEPT ![f] = [y EXCEPT !.fptr = 0, !.clust = y.sclust]]
            /\ op' = Doing("seek", f, at, n)
      /\ UNCHANGED <<type, bitmap, free_clst, last_clst, holds, faults>>
      /\ entry' = [entry EXCEPT ![f] = e]
  <2>1. y.clust = o.clust
    BY <1>2 DEF Filled, FileObject
  <2> QED BY <2>1, Unchanged DEF SeekBegin
<1>4. /\ y \in FileObject /\ y.n_frag = 0 /\ y.sclust = o.sclust /\ y.stat = o.stat /\ y.n_cont = o.n_cont
      /\ y.objsize = o.objsize /\ y.fptr = o.fptr /\ y.clust = o.clust
      /\ y.open /\ ~y.err /\ y.modified = o.modified /\ y.write = o.write
      /\ y.objsize \in Nat /\ y.fptr \in Nat
  BY <1>1, <1>2 DEF Filled, FileObject
<1>n. n \in Nat /\ (~y.write => n <= y.objsize)
  BY <1>4
<1>t. top = ((y.fptr - 1) \div ClusterSize) * ClusterSize
      /\ (on <=> y.fptr > 0 /\ (n - 1) \div ClusterSize >= (y.fptr - 1) \div ClusterSize)
      /\ at = IF y.sclust = 0 THEN "chain" ELSE "loop"
  OBVIOUS
<1> HIDE DEF e, o, y, n, top, on, at
<1>5. /\ fat' \in [Cluster -> Link] /\ (type = "FAT" => fat' = fat)
      /\ \A c \in Cluster \ Of(holds, f) : fat'[c] = fat[c]
      /\ Chained(type, holds, fat', y, f)
  <2>1. CASE type = "exFAT"
    BY <1>2, <1>3, <2>1, LastFilled DEF y
  <2>2. CASE type = "FAT"
    <3>1. o.n_frag = 0 /\ o.fptr <= o.objsize
      BY <1>2, <2>2 DEF Chained, Lies, Laid
    <3>2. Alike(o, y)
      BY <1>4, <3>1 DEF Alike
    <3>3. Chained(type, holds, fat, y, f) /\ fat' = fat
      BY <1>2, <1>3, <2>2, <3>2, ChainAlike
    <3> QED BY <1>2, <3>3
  <2> QED BY <1>2, <2>1, <2>2
<1>6. ~o.modified => Fits(holds, e, o, f) /\ (faults = 0 => Same(e, o))
  BY <1>1, <1>2 DEF Rests
<1>7. Positioned(holds, o, f) /\ Lies(type, holds, fat', y, f)
  BY <1>1, <1>2, <1>5 DEF Rests, Chained
<1>8. ASSUME NEW x \in FileObject, NEW p \in CallRecord, obj' = [obj EXCEPT ![f] = x], op' = p, p.at # "free",
             x.open,
             \/ p.file = f /\ p.call # "none" /\ Busy(type, holds, fat', faults, e, x, p, f)
             \/ p = Idle /\ Rests(type, holds, fat', faults, e, x, f)
      PROVE  FilesInv'
  <2>1. p.file \in {f, None} /\ f # None /\ (p = Idle => p.file # f)
    BY <1>8, IdleIs
  <2>2. IF p.file = f
        THEN p.call # "none" /\ Busy(type, holds', fat', faults', e, x, p, f)
        ELSE p = Idle /\ Rests(type, holds', fat', faults', e,
                               IF x.open THEN x ELSE Object(e, FALSE, FALSE, FALSE), f)
    BY <1>3, <1>8, <2>1
  <2>3. /\ type' = type /\ bitmap' = bitmap /\ free_clst' = free_clst /\ last_clst' \in 0..LastCluster
        /\ holds' = holds /\ faults' \in 0..MaxFaults /\ faults <= faults' /\ (type = "exFAT" => faults' = 0)
        /\ op.file \in {f, None} /\ op.at # "free" /\ entry' = [entry EXCEPT ![f] = e]
    BY <1>2, <1>3
  <2> QED BY <1>2, <1>5, <1>8, <2>1, <2>2, <2>3, CallStep
\* To the start.
<1>9. ASSUME n = 0, obj' = [obj EXCEPT ![f] = [y EXCEPT !.fptr = 0]], op' = Idle
      PROVE  FilesInv'
  <2> DEFINE x == [y EXCEPT !.fptr = 0]
  <2>1. /\ x \in FileObject /\ x.open /\ ~x.err /\ x.fptr = 0 /\ x.n_frag = 0 /\ x.sclust = o.sclust /\ x.stat = o.stat
        /\ x.objsize = o.objsize /\ x.modified = o.modified /\ Alike(y, x)
    BY <1>4 DEF FileObject, Alike
  <2>2. obj' = [obj EXCEPT ![f] = x]
    BY <1>9
  <2> HIDE DEF x
  <2>3. Chained(type, holds, fat', x, f)
    BY <1>5, <2>1, ChainAlike
  <2>4. ~x.modified => Fits(holds, e, x, f) /\ (faults = 0 => Same(e, x))
    BY <1>6, <2>1 DEF Fits, Same
  <2>5. Rests(type, holds, fat', faults, e, x, f)
    BY <2>1, <2>3, <2>4 DEF Rests, Positioned
  <2> QED BY <1>8, <1>9, <2>1, <2>2, <2>5, IdleIs
\* From the cluster of the position.
<1>10. ASSUME n > 0, on, obj' = [obj EXCEPT ![f] = [y EXCEPT !.fptr = top]],
              op' = Doing("seek", f, "loop", n - top)
       PROVE  FilesInv'
  <2> DEFINE x == [y EXCEPT !.fptr = top]
             p == Doing("seek", f, "loop", n - top)
  <2>1. /\ top \in Nat /\ top % ClusterSize = 0 /\ top < y.fptr /\ Parts(y.fptr) = Parts(top) + 1
        /\ n - top \in Nat /\ n - top > 0 /\ top + (n - top) = n
    <3>1. y.fptr \in Nat \ {0} /\ n \in Nat \ {0}
      BY <1>4, <1>n, <1>t, <1>10
    <3> QED BY <1>t, <1>10, <3>1, TopOf, SeekFrom
  <2>2. p \in CallRecord /\ p.call = "seek" /\ p.file = f /\ p.at = "loop" /\ p.n = n - top
    BY <2>1, NewCalls
  <2>3. /\ x \in FileObject /\ x.open /\ ~x.err /\ x.fptr = top /\ x.n_frag = 0 /\ x.sclust = o.sclust
        /\ x.stat = o.stat /\ x.objsize = o.objsize /\ x.modified = o.modified /\ x.clust = o.clust
        /\ x.write = y.write /\ Alike(y, x)
    BY <1>4, <1>7, <2>1 DEF FileObject, Alike, Lies
  <2>4. obj' = [obj EXCEPT ![f] = x] /\ op' = p
    BY <1>10
  <2> HIDE DEF x, p
  <2>5. Chained(type, holds, fat', x, f)
    BY <1>5, <2>3, ChainAlike
  <2>6. AtPart(holds, x, f, Parts(x.fptr) + 1)
    BY <1>4, <1>7, <1>t, <1>10, <2>1, <2>3 DEF Positioned, AtPart
  <2>7. ~x.modified => Fits(holds, e, x, f) /\ (faults = 0 => Same(e, x))
    BY <1>6, <2>3 DEF Fits, Same
  <2>8. Ahead(type, holds, fat', faults, e, x, p, f)
    BY <2>1, <2>2, <2>3, <2>5, <2>6, <2>7 DEF Ahead, Chained, OnBoundary, AtMost
  <2>9. ~x.write => x.fptr + p.n <= x.objsize
    BY <1>4, <1>n, <2>1, <2>2, <2>3
  <2>10. Seeking(type, holds, fat', faults, e, x, p, f)
    BY <2>2, <2>8, <2>9 DEF Seeking
  <2>11. Busy(type, holds, fat', faults, e, x, p, f)
    BY <2>10 DEF Busy
  <2> QED BY <1>8, <2>2, <2>3, <2>4, <2>11
\* From the first cluster, which is made if there is none.
<1>11. ASSUME n > 0, obj' = [obj EXCEPT ![f] = [y EXCEPT !.fptr = 0, !.clust = y.sclust]],
              op' = Doing("seek", f, at, n)
       PROVE  FilesInv'
  <2> DEFINE x == [y EXCEPT !.fptr = 0, !.clust = y.sclust]
             p == Doing("seek", f, at, n)
  <2>1. p \in CallRecord /\ p.call = "seek" /\ p.file = f /\ p.at = at /\ p.n = n
    BY <1>n, <1>t, NewCalls
  <2>2. /\ x \in FileObject /\ x.open /\ ~x.err /\ x.fptr = 0 /\ x.n_frag = 0 /\ x.sclust = y.sclust
        /\ x.stat = y.stat /\ x.objsize = y.objsize /\ x.modified = o.modified /\ x.clust = y.sclust
        /\ x.write = y.write /\ x.n_cont = y.n_cont
    <3>1. y.sclust \in Cluster \cup {0}
      BY <1>4 DEF FileObject
    <3> QED BY <1>4, <3>1 DEF FileObject
  <2>3. obj' = [obj EXCEPT ![f] = x] /\ op' = p
    BY <1>11
  <2> HIDE DEF x, p
  <2>a. Alike(y, x)
    BY <1>4, <2>2 DEF Alike
  <2>4. Chained(type, holds, fat', x, f) /\ Positioned(holds, x, f)
    BY <1>5, <2>2, <2>a, ChainAlike DEF Positioned
  <2>5. ~x.modified => Fits(holds, e, x, f) /\ (faults = 0 => Same(e, x))
    BY <1>4, <1>6, <2>2 DEF Fits, Same
  <2>6. p.n > 0
    BY <1>11, <2>1
  <2>7. CASE y.sclust = 0
    <3>1. o.objsize = 0
      <4>1. Placed(holds) /\ y \in FileObject /\ Lies(type, holds, fat', y, f)
        BY <1>2, <1>4, <1>7
      <4>2. y.objsize = 0
        BY <2>7, <4>1, HasFirst
      <4> QED BY <1>4, <4>2
    <3>2. x.write
      BY <1>4, <1>n, <1>11, <2>2, <3>1
    <3>3. OnBoundary(x)
      BY <2>2, ZeroIsBoundary DEF OnBoundary
    <3>4. Asking(type, holds, fat', faults, e, x, p, f)
      BY <1>t, <2>1, <2>2, <2>4, <2>5, <2>6, <2>7, <3>2, <3>3 DEF Asking, MayStay
    <3>5. Busy(type, holds, fat', faults, e, x, p, f)
      BY <3>4 DEF Busy
    <3> QED BY <1>8, <1>t, <2>1, <2>2, <2>3, <2>7, <3>5
  <2>8. CASE y.sclust # 0
    <3>1. Ahead(type, holds, fat', faults, e, x, p, f)
      BY <1>2, <1>4, <1>5, <2>2, <2>5, <2>6, <2>8, AtFirst
    <3>2. ~x.write => x.fptr + p.n <= x.objsize
      BY <1>4, <1>n, <2>1, <2>2
    <3>3. Seeking(type, holds, fat', faults, e, x, p, f)
      BY <1>t, <2>1, <2>8, <3>1, <3>2 DEF Seeking
    <3>4. Busy(type, holds, fat', faults, e, x, p, f)
      BY <3>3 DEF Busy
    <3> QED BY <1>8, <1>t, <2>1, <2>2, <2>3, <2>8, <3>4
  <2> QED BY <2>7, <2>8
<1> QED BY <1>3, <1>9, <1>10, <1>11

LEMMA ExtendedIs ==
  ASSUME NEW o \in FileObject, NEW w \in Nat
  PROVE  LET x == Extended([o EXCEPT !.fptr = @ + w]) IN
         /\ x \in FileObject /\ Onto(o, x, w) /\ x.sclust = o.sclust /\ x.stat = o.stat /\ x.n_frag = o.n_frag
         /\ x.open = o.open /\ x.write = o.write /\ x.err = o.err /\ x.fptr = o.fptr + w
         /\ ~x.modified => ~o.modified /\ o.fptr + w <= o.objsize
         /\ o.fptr + w <= o.objsize => x.objsize = o.objsize
<1> DEFINE n == o.fptr + w
           y == [o EXCEPT !.fptr = n]
           x == IF n > o.objsize THEN [y EXCEPT !.objsize = n, !.modified = TRUE] ELSE y
<1>1. n \in Nat /\ n = o.fptr + w /\ o.objsize \in Nat
  BY DEF FileObject
<1>2. [o EXCEPT !.fptr = @ + w] = y
  OBVIOUS
<1> HIDE DEF n
<1>3. /\ y \in FileObject /\ y.fptr = n /\ y.objsize = o.objsize
      /\ y.sclust = o.sclust /\ y.stat = o.stat /\ y.n_cont = o.n_cont /\ y.n_frag = o.n_frag /\ y.clust = o.clust
      /\ y.open = o.open /\ y.write = o.write /\ y.modified = o.modified /\ y.err = o.err
  BY <1>1 DEF FileObject
<1>4. Extended(y) = x
  BY <1>3 DEF Extended
<1> HIDE DEF y
<1>5. CASE n > o.objsize
  <2> DEFINE z == [y EXCEPT !.objsize = n, !.modified = TRUE]
  <2>1. /\ z \in FileObject /\ z.fptr = n /\ z.objsize = n
        /\ z.sclust = y.sclust /\ z.stat = y.stat /\ z.n_cont = y.n_cont /\ z.n_frag = y.n_frag /\ z.clust = y.clust
        /\ z.open = y.open /\ z.write = y.write /\ z.modified = TRUE /\ z.err = y.err
    BY <1>1, <1>3 DEF FileObject
  <2>2. x = z
    BY <1>5
  <2> HIDE DEF x, z
  <2>4. Extended(y) = z
    BY <1>4, <2>2
  <2>5. /\ z \in FileObject /\ Onto(o, z, w) /\ z.sclust = o.sclust /\ z.stat = o.stat /\ z.n_frag = o.n_frag
        /\ z.open = o.open /\ z.write = o.write /\ z.err = o.err /\ z.fptr = o.fptr + w
        /\ ~(o.fptr + w <= o.objsize)
    BY <1>1, <1>3, <1>5, <2>1 DEF Onto
  <2>6. z.modified
    BY <2>1
  <2> QED BY <1>2, <2>4, <2>5, <2>6
<1>6. CASE ~(n > o.objsize)
  <2>1. x = y
    BY <1>6
  <2> HIDE DEF x
  <2>2. /\ y \in FileObject /\ Onto(o, y, w) /\ y.sclust = o.sclust /\ y.stat = o.stat /\ y.n_frag = o.n_frag
        /\ y.open = o.open /\ y.write = o.write /\ y.err = o.err /\ y.fptr = o.fptr + w
        /\ y.objsize = o.objsize
    BY <1>1, <1>3, <1>6 DEF Onto
  <2>3. o.fptr + w <= o.objsize
    BY <1>1, <1>6 DEF FileObject
  <2>4. ~y.modified => ~o.modified /\ o.fptr + w <= o.objsize
    BY <1>3, <2>3
  <2>5. Extended(y) = y
    BY <1>4, <2>1
  <2> QED BY <1>2, <2>2, <2>4, <2>5
<1> QED BY <1>5, <1>6

LEMMA SeekLoopKeeps ==
  ASSUME FilesInv, SeekLoop
  PROVE  FilesInv'
<1> DEFINE f == op.file
           e == entry[f]
           o == obj[f]
           D == ClusterSize
           next == GetFat(o, o.clust)
           further == [o EXCEPT !.fptr = @ + D]
<1>1. op.call = "seek" /\ op.at = "loop" /\ op # Idle
  BY IdleIs DEF SeekLoop
<1>2. /\ f \in File /\ e \in EntryRecord /\ o \in FileObject /\ op \in CallRecord /\ EntryOK(type, e)
      /\ type \in {"FAT", "exFAT"} /\ Placed(holds) /\ op.n \in Nat /\ D \in Nat \ {0}
      /\ Seeking(type, holds, fat, faults, e, o, op, f)
  BY <1>1, Current, TypeIs, ZeroIsBoundary DEF FilesInv, CallRecord
<1>3. /\ \/ op.n <= D /\ obj' = [obj EXCEPT ![f] = Extended([o EXCEPT !.fptr = @ + op.n])] /\ op' = Idle
         \/ /\ op.n > D /\ o.write /\ obj' = [obj EXCEPT ![f] = Extended(further)]
            /\ op' = [op EXCEPT !.n = @ - D, !.at = "chain"]
         \/ /\ op.n > D /\ ~o.write /\ next \in Cluster
            /\ obj' = [obj EXCEPT ![f] = [further EXCEPT !.clust = next]]
            /\ op' = [op EXCEPT !.n = @ - D]
         \/ op.n > D /\ ~o.write /\ next \notin Cluster
      /\ UNCHANGED <<type, fat, bitmap, free_clst, last_clst, holds, faults>>
      /\ entry' = [entry EXCEPT ![f] = e]
  BY <1>2, Unchanged DEF SeekLoop
<1>4. op.file \in {f, None} /\ op.file = f
  OBVIOUS
<1>5. /\ Ahead(type, holds, fat, faults, e, o, op, f) /\ (~o.write => o.fptr + op.n <= o.objsize)
      /\ o.open /\ ~o.err /\ OnBoundary(o) /\ op.n > 0 /\ AtPart(holds, o, f, Parts(o.fptr) + 1)
      /\ ~o.modified => Fits(holds, e, o, f) /\ (faults = 0 => Same(e, o) \/ o.objsize <= o.fptr)
      /\ o.fptr \in Nat /\ o.objsize \in Nat /\ Lies(type, holds, fat, o, f)
  BY <1>1, <1>2 DEF Seeking, Ahead, FileObject
<1>6. /\ Parts(o.fptr) \in Nat /\ (o.fptr + D) % D = 0 /\ Parts(o.fptr + D) = Parts(o.fptr) + 1 /\ D \in 1..D
  <2>1. D \in 1..D
    BY <1>2
  <2> QED BY <1>2, <1>5, <2>1, AtBoundary, PartsType DEF OnBoundary
<1>D. D = ClusterSize /\ further = [o EXCEPT !.fptr = @ + D] /\ next = GetFat(o, o.clust)
  OBVIOUS
<1> HIDE DEF f, e, o, D, next, further
<1>7. ASSUME op.n <= D, obj' = [obj EXCEPT ![f] = Extended([o EXCEPT !.fptr = @ + op.n])], op' = Idle
      PROVE  FilesInv'
  <2> DEFINE x == Extended([o EXCEPT !.fptr = @ + op.n])
  <2>1. op.n \in 1..ClusterSize
    BY <1>2, <1>5, <1>7, <1>D
  <2>2. /\ x \in FileObject /\ Onto(o, x, op.n) /\ x.sclust = o.sclust /\ x.stat = o.stat /\ x.n_frag = o.n_frag
        /\ x.open /\ ~x.err /\ x.fptr = o.fptr + op.n
        /\ ~x.modified => ~o.modified /\ o.fptr + op.n <= o.objsize
        /\ o.fptr + op.n <= o.objsize => x.objsize = o.objsize
    BY <1>2, <1>5, ExtendedIs
  <2>3. obj' = [obj EXCEPT ![f] = x]
    BY <1>7
  <2> HIDE DEF x
  <2>4. Chained(type, holds, fat, x, f) /\ Positioned(holds, x, f)
    BY <1>2, <1>5, <2>1, <2>2, Onward
  <2>5. ASSUME ~x.modified PROVE Fits(holds, e, x, f) /\ (faults = 0 => Same(e, x))
    <3>1. ~o.modified /\ o.fptr + op.n <= o.objsize
      BY <1>2, <1>5, <2>2, <2>5
    <3>2. ~(o.objsize <= o.fptr) /\ x.objsize = o.objsize
      BY <1>2, <1>5, <2>2, <3>1
    <3> QED BY <1>5, <2>2, <3>1, <3>2 DEF Fits, Same
  <2>6. Rests(type, holds, fat, faults, e, x, f)
    BY <2>2, <2>4, <2>5 DEF Rests
  <2> QED BY <1>1, <1>2, <1>3, <1>4, <1>7, <2>2, <2>3, <2>6, IdleIs, QuietStep
<1>8. ASSUME op.n > D, o.write, obj' = [obj EXCEPT ![f] = Extended(further)],
             op' = [op EXCEPT !.n = @ - D, !.at = "chain"]
      PROVE  FilesInv'
  <2> DEFINE x == Extended(further)
             p == [op EXCEPT !.n = @ - D, !.at = "chain"]
  <2>1. op.n - D \in Nat /\ op.n - D > 0
    BY <1>2, <1>8
  <2>2. /\ x \in FileObject /\ Onto(o, x, D) /\ x.sclust = o.sclust /\ x.stat = o.stat /\ x.n_frag = o.n_frag
        /\ x.open /\ x.write /\ ~x.err /\ x.fptr = o.fptr + D
        /\ ~x.modified => ~o.modified /\ o.fptr + D <= o.objsize
        /\ o.fptr + D <= o.objsize => x.objsize = o.objsize
    BY <1>2, <1>5, <1>8, ExtendedIs DEF further
  <2>3. p \in CallRecord /\ p.call = "seek" /\ p.file = f /\ p.at = "chain" /\ p.n = op.n - D
    BY <1>1, <1>2, <1>4, <2>1 DEF CallRecord
  <2>4. obj' = [obj EXCEPT ![f] = x] /\ op' = p
    BY <1>8
  <2> HIDE DEF x, p
  <2>5. Chained(type, holds, fat, x, f) /\ Positioned(holds, x, f)
    BY <1>2, <1>5, <1>6, <1>D, <2>2, Onward
  <2>6. MayStay(holds, faults, e, x, p, f)
    <3> SUFFICES ASSUME ~x.modified PROVE Fits(holds, e, x, f) /\ (faults = 0 => Same(e, x))
      BY DEF MayStay
    <3>1. ~o.modified /\ o.fptr + D <= o.objsize
      BY <1>2, <1>5, <2>2
    <3>2. ~(o.objsize <= o.fptr) /\ x.objsize = o.objsize
      BY <1>2, <1>5, <2>2, <3>1
    <3> QED BY <1>5, <2>2, <3>1, <3>2 DEF Fits, Same
  <2>7. OnBoundary(x) /\ x.fptr > 0
    BY <1>2, <1>5, <1>6, <1>D, <2>2 DEF OnBoundary
  <2>8. Asking(type, holds, fat, faults, e, x, p, f)
    BY <2>1, <2>2, <2>3, <2>5, <2>6, <2>7 DEF Asking
  <2>9. Busy(type, holds, fat, faults', e, x, p, f)
    BY <1>3, <2>8 DEF Busy
  <2> QED BY <1>1, <1>2, <1>3, <1>4, <2>2, <2>3, <2>4, <2>9, QuietStep
<1>9. ASSUME op.n > D, ~o.write
      PROVE  /\ o.n_frag = 0 /\ next \in Of(holds, f) /\ holds[next].part = Parts(o.fptr) + 2 /\ next \in Cluster
             /\ o.fptr + D <= o.objsize /\ Chained(type, holds, fat, o, f)
             /\ Parts(o.fptr) + 2 <= Parts(o.objsize) /\ Parts(o.objsize) \in Nat
  <2>1. o.objsize > o.fptr + D /\ o.fptr + D <= o.objsize
    BY <1>2, <1>5, <1>9
  <2>2. Parts(o.objsize) >= Parts(o.fptr) + 2 /\ Parts(o.objsize) \in Nat
    BY <1>5, <1>D, <2>1, PartsCompare, PartsType DEF OnBoundary
  <2>3. o.n_frag = 0
    BY <1>2, <1>5, <2>1 DEF Lies, Laid, LastPiece
  <2>4. Chained(type, holds, fat, o, f)
    <3> SUFFICES ASSUME type = "exFAT" PROVE AtMost(holds, f, Parts(o.objsize))
      BY <1>5 DEF Chained
    <3> SUFFICES ASSUME NEW c \in Of(holds, f) PROVE holds[c].part <= Parts(o.objsize)
      BY DEF AtMost
    <3>1. holds[c].part \in Nat
      BY <1>2, HoldsIs
    <3>2. holds[c].part <= Parts(o.objsize) \/ holds[c].part <= Parts(o.fptr) + 1
      BY <1>5 DEF Ahead
    <3> QED BY <1>6, <2>2, <3>1, <3>2
  <2>5. o.clust \in Of(holds, f) /\ holds[o.clust].part = Parts(o.fptr) + 1
    BY <1>5 DEF AtPart
  <2>6. Parts(o.fptr) + 1 + 1 \in 1..Parts(o.objsize) /\ Parts(o.fptr) + 1 + 1 = Parts(o.fptr) + 2
    BY <1>6, <2>2
  <2>7. HasPart(holds, f, holds[o.clust].part + 1)
    BY <1>5, <2>5, <2>6 DEF Lies, Sized
  <2> QED BY <1>2, <1>D, <2>1, <2>2, <2>3, <2>4, <2>5, <2>6, <2>7, NextOf
<1>10. ASSUME op.n > D, ~o.write, next \in Cluster, op' = [op EXCEPT !.n = @ - D],
              obj' = [obj EXCEPT ![f] = [further EXCEPT !.clust = next]]
       PROVE  FilesInv'
  <2> DEFINE y == o.fptr + D
             x == [o EXCEPT !.fptr = y, !.clust = next]
             p == [op EXCEPT !.n = @ - D]
  <2>1. op.n - D \in Nat /\ op.n - D > 0 /\ y \in Nat /\ y = o.fptr + D /\ y <= o.objsize
    BY <1>2, <1>5, <1>9, <1>10
  <2>2. [further EXCEPT !.clust = next] = x
    BY <1>2, <1>D DEF FileObject
  <2>3. obj' = [obj EXCEPT ![f] = x] /\ op' = p
    BY <1>10, <2>2
  <2> HIDE DEF y
  <2>4. /\ x \in FileObject /\ x.open /\ ~x.write /\ ~x.err /\ x.fptr = y /\ x.objsize = o.objsize /\ x.clust = next
        /\ x.modified = o.modified /\ x.sclust = o.sclust /\ x.stat = o.stat /\ x.n_frag = o.n_frag /\ x.n_cont = o.n_cont
    BY <1>2, <1>5, <1>10, <2>1 DEF FileObject
  <2>5. p \in CallRecord /\ p.call = "seek" /\ p.file = f /\ p.at = "loop" /\ p.n = op.n - D
    BY <1>1, <1>2, <1>4, <2>1 DEF CallRecord
  <2> HIDE DEF x, p
  <2>6. Alike(o, x)
    BY <1>9, <1>10, <2>1, <2>4 DEF Alike
  <2>7. Chained(type, holds, fat, x, f)
    BY <1>9, <1>10, <2>6, ChainAlike
  <2>8. AtPart(holds, x, f, Parts(x.fptr) + 1) /\ OnBoundary(x)
    BY <1>6, <1>9, <1>10, <1>D, <2>1, <2>4 DEF AtPart, OnBoundary
  <2>9. ~x.modified => Fits(holds, e, x, f) /\ (faults = 0 => Same(e, x))
    <3>1. ~(o.objsize <= o.fptr)
      BY <1>2, <1>5, <2>1
    <3> QED BY <1>5, <2>4, <3>1 DEF Fits, Same
  <2>10. Ahead(type, holds, fat, faults, e, x, p, f)
    BY <2>1, <2>4, <2>5, <2>7, <2>8, <2>9 DEF Ahead, Chained, AtMost
  <2>11. x.fptr + p.n <= x.objsize
    BY <1>2, <1>5, <1>10, <2>1, <2>4, <2>5
  <2>12. Seeking(type, holds, fat, faults, e, x, p, f)
    BY <2>5, <2>10, <2>11 DEF Seeking
  <2>13. Busy(type, holds, fat, faults', e, x, p, f)
    BY <1>3, <2>12 DEF Busy
  <2> QED BY <1>1, <1>2, <1>3, <1>4, <2>3, <2>4, <2>5, <2>13, QuietStep
<1> QED BY <1>3, <1>7, <1>8, <1>9, <1>10

LEMMA SeekGotKeeps ==
  ASSUME FilesInv, SeekGot
  PROVE  FilesInv'
<1> DEFINE f == op.file
           e == entry[f]
           o == obj[f]
           y == At(o, op.got)
<1>1. op.call = "seek" /\ op.at = "got" /\ op # Idle
  BY IdleIs DEF SeekGot
<1>2. /\ f \in File /\ e \in EntryRecord /\ o \in FileObject /\ op \in CallRecord /\ EntryOK(type, e)
      /\ type \in {"FAT", "exFAT"} /\ Placed(holds) /\ op.n \in Nat /\ op.got \in 0..LastCluster
      /\ op.got \in {0, 1} => Denied(type, holds, fat, faults, e, o, op, f)
      /\ op.got \notin {0, 1} => Given(type, holds, fat, faults, e, o, op, f)
  BY <1>1, Current, TypeIs DEF FilesInv, CallRecord
<1>3. /\ \/ op.got = 0 /\ op' = Idle /\ obj' = [obj EXCEPT ![f] = Extended(o)]
         \/ op.got = 1 /\ op' = Idle /\ obj' = [obj EXCEPT ![f] = [o EXCEPT !.err = TRUE]]
         \/ /\ op.got \notin {0, 1} /\ obj' = [obj EXCEPT ![f] = y]
            /\ op' = [op EXCEPT !.at = "loop", !.got = 0]
      /\ UNCHANGED <<type, fat, bitmap, free_clst, last_clst, holds, faults>>
      /\ entry' = [entry EXCEPT ![f] = e]
  <2>1. /\ CASE op.got = 0 -> op' = Idle /\ obj' = [obj EXCEPT ![f] = Extended(o)]
             [] op.got = 1 -> op' = Idle /\ obj' = [obj EXCEPT ![f].err = TRUE]
             [] OTHER -> op' = [op EXCEPT !.at = "loop", !.got = 0] /\ obj' = [obj EXCEPT ![f] = y]
        /\ UNCHANGED <<type, fat, bitmap, free_clst, last_clst, entry, holds, faults>>
    BY <1>2 DEF SeekGot
  <2>2. \/ op.got = 0 /\ op' = Idle /\ obj' = [obj EXCEPT ![f] = Extended(o)]
        \/ op.got = 1 /\ op' = Idle /\ obj' = [obj EXCEPT ![f].err = TRUE]
        \/ /\ op.got \notin {0, 1} /\ obj' = [obj EXCEPT ![f] = y]
           /\ op' = [op EXCEPT !.at = "loop", !.got = 0]
    <3> HIDE DEF y, f
    <3> QED BY <2>1
  <2> QED BY <1>2, <2>1, <2>2, Unchanged
<1>4. op.file \in {f, None} /\ op.file = f
  OBVIOUS
<1> HIDE DEF f, e, o, y
<1>5. ASSUME op.got \in {0, 1}
      PROVE  /\ o.open /\ ~o.err /\ (op.got = 1 => faults # 0)
             /\ Chained(type, holds, fat, o, f) /\ Positioned(holds, o, f)
             /\ ~o.modified => Fits(holds, e, o, f) /\ (faults = 0 => Same(e, o))
  BY <1>1, <1>2, <1>5 DEF Denied, MayStay
<1>6. ASSUME op.got = 0, op' = Idle, obj' = [obj EXCEPT ![f] = Extended(o)]
      PROVE  FilesInv'
  <2>1. Extended(o) = o
    BY <1>2, <1>5, <1>6 DEF Extended, Chained, Lies, FileObject
  <2>2. Rests(type, holds, fat, faults, e, o, f)
    BY <1>5, <1>6 DEF Rests
  <2> QED BY <1>1, <1>2, <1>3, <1>4, <1>5, <1>6, <2>1, <2>2, IdleIs, QuietStep
<1>7. ASSUME op.got = 1, op' = Idle, obj' = [obj EXCEPT ![f] = [o EXCEPT !.err = TRUE]]
      PROVE  FilesInv'
  <2> DEFINE x == [o EXCEPT !.err = TRUE]
  <2>1. x \in FileObject /\ x.open /\ x.modified = o.modified /\ x.err /\ Alike(o, x) /\ x.sclust = o.sclust
    BY <1>2, <1>5, <1>7 DEF FileObject, Alike, Chained, Lies, Laid, LastPiece
  <2>2. obj' = [obj EXCEPT ![f] = x]
    BY <1>7
  <2> HIDE DEF x
  <2>3. Chained(type, holds, fat, x, f) /\ (~x.modified => Fits(holds, e, x, f)) /\ faults # 0
    BY <1>5, <1>7, <2>1, ChainAlike DEF Fits
  <2>4. Rests(type, holds, fat, faults, e, x, f)
    BY <2>1, <2>3 DEF Rests
  <2> QED BY <1>1, <1>2, <1>3, <1>4, <1>7, <2>1, <2>2, <2>4, IdleIs, QuietStep
<1>8. ASSUME op.got \notin {0, 1}, obj' = [obj EXCEPT ![f] = y],
             op' = [op EXCEPT !.at = "loop", !.got = 0]
      PROVE  FilesInv'
  <2> DEFINE p == [op EXCEPT !.at = "loop", !.got = 0]
  <2>1. op.got \in Cluster /\ o.write /\ Ahead(type, holds, fat, faults, e, y, op, f)
    BY <1>2, <1>8 DEF Given, y
  <2>2. y \in FileObject /\ y.write
    BY <1>2, <2>1, AtIs DEF y
  <2>3. 0 \in 0..LastCluster
    BY ClusterIs
  <2>4. p \in CallRecord /\ p.call = "seek" /\ p.file = f /\ p.at = "loop" /\ p.n = op.n
    BY <1>1, <1>2, <1>4, <2>3 DEF CallRecord
  <2>5. op' = p
    BY <1>8
  <2> HIDE DEF p
  <2>6. Ahead(type, holds, fat, faults, e, y, p, f)
    BY <1>1, <2>1, <2>4 DEF Ahead
  <2>7. Seeking(type, holds, fat, faults, e, y, p, f)
    BY <2>2, <2>4, <2>6 DEF Seeking
  <2>8. Busy(type, holds, fat, faults', e, y, p, f)
    BY <1>3, <2>7 DEF Busy
  <2> QED BY <1>1, <1>2, <1>3, <1>4, <1>8, <2>2, <2>4, <2>5, <2>8, QuietStep
<1> QED BY <1>3, <1>6, <1>7, <1>8

LEMMA SeekFailsKeeps ==
  ASSUME FilesInv, SeekFails
  PROVE  FilesInv'
<1> DEFINE f == op.file
           e == entry[f]
           o == obj[f]
           x == [o EXCEPT !.err = TRUE]
<1>1. op.call = "seek" /\ op.at = "loop" /\ op # Idle
  BY IdleIs DEF SeekFails
<1>2. /\ f \in File /\ e \in EntryRecord /\ o \in FileObject /\ EntryOK(type, e) /\ faults \in Nat
      /\ Seeking(type, holds, fat, faults, e, o, op, f)
  BY <1>1, Current, TypeIs DEF FilesInv
<1>3. /\ op' = Idle /\ obj' = [obj EXCEPT ![f] = x] /\ Fails
      /\ UNCHANGED <<type, fat, bitmap, free_clst, last_clst, holds>>
      /\ entry' = [entry EXCEPT ![f] = e]
  BY <1>2, Unchanged DEF SeekFails
<1>4. op.file \in {f, None}
  OBVIOUS
<1> HIDE DEF f, e, o
<1>5. /\ o.open /\ Lies(type, holds, fat, o, f) /\ (~o.modified => Fits(holds, e, o, f))
  BY <1>2 DEF Seeking, Ahead
<1>6. x \in FileObject /\ x.open /\ x.modified = o.modified /\ x.err /\ Alike(o, x) /\ x.sclust = o.sclust
  BY <1>2, <1>5 DEF FileObject, Alike, Lies, Laid, LastPiece
<1> HIDE DEF x
<1>7. faults' # 0 /\ type = "FAT"
  BY <1>2, <1>3 DEF Fails
<1>8. Chained(type, holds, fat, x, f) /\ (~x.modified => Fits(holds, e, x, f))
  BY <1>5, <1>6, <1>7, LiesAlike, LiesOnFAT DEF Fits
<1>9. Rests(type, holds, fat, faults', e, x, f)
  BY <1>6, <1>7, <1>8 DEF Rests
<1> QED BY <1>1, <1>2, <1>3, <1>4, <1>5, <1>6, <1>9, IdleIs, QuietStep

-----------------------------------------------------------------------------
(* f_truncate and f_sync.                                                    *)

\* The parts of a file that are not behind k.
LEMMA NoneBehind ==
  ASSUME NEW h, Placed(h), NEW f \in File, NEW k \in Nat, ~HasPart(h, f, k + 1)
  PROVE  AtMost(h, f, k)
<1> SUFFICES ASSUME NEW c \in Of(h, f), h[c].part > k PROVE FALSE
  <2>1. \A c \in Of(h, f) : h[c].part \in Nat
    BY HoldsIs
  <2> QED BY <2>1 DEF AtMost
<1>1. h[c].part \in Nat
  BY HoldsIs
<1>2. k + 1 \in 1..h[c].part
  BY <1>1
<1> QED BY <1>2 DEF Placed

LEMMA TruncateKeeps ==
  ASSUME FilesInv, NEW f \in File, Truncate(f)
  PROVE  FilesInv'
<1> DEFINE e == entry[f]
           o == obj[f]
           ncl == GetFat(o, o.clust)
           err == ncl = 1
           short == [Shortened(o) EXCEPT !.err = err]
<1>1. op = Idle /\ o.open /\ ~o.err /\ o.write /\ o.fptr < o.objsize
  BY DEF Truncate, Usable
<1>2. /\ e \in EntryRecord /\ o \in FileObject /\ EntryOK(type, e) /\ op.file = None /\ op.at = "loop"
      /\ Rests(type, holds, fat, faults, e, o, f) /\ Chained(type, holds, fat, o, f) /\ Positioned(holds, o, f)
      /\ Placed(holds) /\ type \in {"FAT", "exFAT"} /\ o.objsize \in Nat /\ o.fptr \in Nat
  BY <1>1, AtRest, TypeIs DEF FilesInv, Rests, FileObject
<1>3. /\ \/ o.fptr = 0 /\ op' = Removing("truncate", f, o.sclust, 0) /\ obj' = obj
         \/ o.fptr > 0 /\ ncl \in Cluster /\ op' = Removing("truncate", f, ncl, o.clust) /\ obj' = obj
         \/ /\ o.fptr > 0 /\ ncl \notin Cluster
            /\ obj' = [obj EXCEPT ![f] = short] /\ op' = op
      /\ UNCHANGED <<type, fat, bitmap, free_clst, last_clst, holds, faults>>
      /\ entry' = [entry EXCEPT ![f] = e] /\ obj = [obj EXCEPT ![f] = o]
  BY Unchanged DEF Truncate
<1>n. ncl = GetFat(o, o.clust) /\ (err <=> ncl = 1) /\ err \in BOOLEAN /\ short = [Shortened(o) EXCEPT !.err = err]
  OBVIOUS
<1> HIDE DEF e, o, ncl, err, short
<1>4. Sized(holds, f, o.objsize) /\ Lies(type, holds, fat, o, f)
  BY <1>2 DEF Chained, Lies
<1>5. o.n_frag = 0
  BY <1>1, <1>2, <1>4 DEF Lies, Laid, LastPiece
<1>6. type = "FAT" => o.stat = 0
  BY <1>4 DEF Lies, Laid
<1>7. Parts(o.fptr) \in Nat
  BY <1>2, PartsType
<1>8. ASSUME NEW c \in Of(holds, f), holds[c].part = Parts(o.fptr) + 1,
             NEW d \in Cluster \cup {0}, d = IF o.fptr = 0 THEN 0 ELSE o.clust,
             op' = Removing("truncate", f, c, d), obj' = obj
      PROVE  FilesInv'
  <2> DEFINE p == Removing("truncate", f, c, d)
  <2>1. c \in Cluster
    BY DEF Of
  <2>2. /\ p \in CallRecord /\ p.call = "truncate" /\ p.file = f /\ p.at = "cut" /\ p.n = c
        /\ p.clst = c /\ p.pclst = d /\ p.scl = c /\ p.ecl = c
    BY <2>1, NewCalls
  <2>3. op' = p
    BY <1>8
  <2> HIDE DEF p
  <2>4. Behind(type, holds, e, o, p, f)
    BY <1>1, <1>2, <1>5, <1>6, <1>8, <2>2 DEF Behind
  <2>5. Cutting(type, holds, fat, e, o, p, f)
    BY <1>2, <1>8, <2>2, <2>4 DEF Cutting
  <2>6. Busy(type, holds, fat, faults', e, o, p, f)
    BY <1>3, <2>5 DEF Busy
  <2> QED BY <1>1, <1>2, <1>3, <1>8, <2>2, <2>3, <2>6, QuietStep
<1>9. ASSUME o.fptr = 0, op' = Removing("truncate", f, o.sclust, 0), obj' = obj
      PROVE  FilesInv'
  <2>1. o.sclust \in Of(holds, f) /\ holds[o.sclust].part = 1
    <3>1. o.objsize # 0
      BY <1>1, <1>2
    <3> QED BY <1>2, <1>4, <3>1, HasFirst
  <2>2. Parts(o.fptr) + 1 = 1
    BY <1>9, PartsOfNone
  <2> QED BY <1>8, <1>9, <2>1, <2>2
<1>10. ASSUME o.fptr > 0
       PROVE  /\ o.clust \in Of(holds, f) /\ o.clust \in Cluster /\ holds[o.clust].part = Parts(o.fptr)
              /\ IF HasPart(holds, f, Parts(o.fptr) + 1)
                 THEN ncl \in Of(holds, f) /\ holds[ncl].part = Parts(o.fptr) + 1 /\ ncl \in Cluster
                 ELSE ncl = EOC /\ ncl \notin Cluster
  <2>1. o.clust \in Of(holds, f) /\ holds[o.clust].part = Parts(o.fptr)
    BY <1>2, <1>10 DEF Positioned, AtPart
  <2>2. o.clust \in Cluster
    BY <2>1 DEF Of
  <2> QED BY <1>2, <1>5, <1>n, <2>1, <2>2, NextOf
<1>11. ASSUME o.fptr > 0, ncl \in Cluster, op' = Removing("truncate", f, ncl, o.clust), obj' = obj
       PROVE  FilesInv'
  <2>1. ncl \in Of(holds, f) /\ holds[ncl].part = Parts(o.fptr) + 1
    BY <1>10, <1>11
  <2> QED BY <1>2, <1>8, <1>10, <1>11, <2>1
<1>12. ASSUME o.fptr > 0, ncl \notin Cluster, obj' = [obj EXCEPT ![f] = short], op' = op
       PROVE  FilesInv'
  <2>1. ~HasPart(holds, f, Parts(o.fptr) + 1) /\ ncl = EOC
    BY <1>10, <1>12
  <2>2. ~err
    BY <1>n, <2>1, ClusterIs
  <2>3. /\ short \in FileObject /\ short.open /\ short.modified /\ ~short.err /\ short.objsize = o.fptr
        /\ short.fptr = o.fptr /\ short.clust = o.clust /\ short.sclust = o.sclust /\ short.stat = o.stat
        /\ short.n_cont = o.n_cont /\ short.n_frag = 0
    BY <1>1, <1>2, <1>5, <1>n, <2>2 DEF Shortened, FileObject
  <2>4. AtMost(holds, f, Parts(o.fptr))
    BY <1>2, <1>7, <2>1, NoneBehind
  <2>5. Sized(holds, f, o.fptr)
    BY <1>2, <1>10, <1>12 DEF Sized, Placed
  <2>6. Laid(type, holds, fat, short, f) /\ Ends(holds, fat, short, f)
    BY <1>4, <1>5, <2>3, LaidAlike DEF Lies
  <2>7. Chained(type, holds, fat, short, f)
    BY <1>2, <2>3, <2>4, <2>5, <2>6 DEF Chained, Lies
  <2>8. Positioned(holds, short, f)
    BY <1>2, <2>3 DEF Positioned, AtPart
  <2>9. Rests(type, holds, fat, faults, e, short, f)
    BY <2>3, <2>7, <2>8 DEF Rests
  <2> QED BY <1>1, <1>2, <1>3, <1>12, <2>3, <2>9, IdleIs, QuietStep
<1> QED BY <1>3, <1>9, <1>11, <1>12

\* The size is set back and the call fails, on a FAT volume.
LEMMA ShortOnFAT ==
  ASSUME NEW h, Placed(h), NEW t, NEW f \in File, NEW o \in FileObject, Lies("FAT", h, t, o, f),
         NEW x, x.sclust = o.sclust /\ x.stat = o.stat /\ x.n_cont = o.n_cont /\ x.n_frag = o.n_frag,
         x.objsize = o.fptr /\ x.fptr = o.fptr
  PROVE  Chained("FAT", h, t, x, f)
<1>1. o.n_frag = 0 /\ Laid("FAT", h, t, o, f) /\ Ends(h, t, o, f) /\ Sized(h, f, o.objsize) /\ o.fptr <= o.objsize
      /\ o.fptr \in Nat /\ o.objsize \in Nat
  BY DEF Lies, Laid, FileObject
<1>2. Laid("FAT", h, t, x, f) /\ Ends(h, t, x, f)
  BY <1>1, LaidAlike
<1>3. Parts(o.fptr) \in Nat /\ Parts(o.objsize) \in Nat /\ Parts(o.fptr) <= Parts(o.objsize)
  BY <1>1, PartsType, PartsGrow
<1>4. Sized(h, f, x.objsize)
  BY <1>1, <1>3 DEF Sized
<1> QED BY <1>1, <1>2, <1>4 DEF Chained, Lies

LEMMA TruncateFailsKeeps ==
  ASSUME FilesInv, NEW f \in File, TruncateFails(f)
  PROVE  FilesInv'
<1> DEFINE e == entry[f]
           o == obj[f]
           x == [Shortened(o) EXCEPT !.err = TRUE]
<1>1. op = Idle /\ o.open
  BY DEF TruncateFails, Usable
<1>2. /\ e \in EntryRecord /\ o \in FileObject /\ EntryOK(type, e) /\ op.file = None /\ op.at = "loop"
      /\ Chained(type, holds, fat, o, f) /\ Placed(holds) /\ faults \in Nat
  BY <1>1, AtRest, TypeIs DEF FilesInv
<1>3. /\ obj' = [obj EXCEPT ![f] = x] /\ Fails /\ op' = Idle
      /\ UNCHANGED <<type, fat, bitmap, free_clst, last_clst, holds>>
      /\ entry' = [entry EXCEPT ![f] = e]
  BY <1>1, Unchanged DEF TruncateFails
<1> HIDE DEF e, o
<1>4. /\ x \in FileObject /\ x.open /\ x.modified /\ x.err /\ x.objsize = o.fptr
      /\ x.fptr = o.fptr /\ x.sclust = o.sclust /\ x.stat = o.stat
      /\ x.n_cont = o.n_cont /\ x.n_frag = o.n_frag
  BY <1>1, <1>2 DEF Shortened, FileObject
<1> HIDE DEF x
<1>5. type = "FAT" /\ faults' # 0
  BY <1>2, <1>3 DEF Fails
<1>6. Chained(type, holds, fat, x, f)
  BY <1>2, <1>4, <1>5, LiesOnFAT, ShortOnFAT
<1>7. Rests(type, holds, fat, faults', e, x, f)
  BY <1>4, <1>5, <1>6 DEF Rests
<1> QED BY <1>1, <1>2, <1>3, <1>4, <1>7, IdleIs, QuietStep

\* fill_first_frag puts the first piece in the table.
LEMMA FirstFilled ==
  ASSUME NEW v \in {"FAT", "exFAT"}, NEW h, Placed(h), NEW t \in [Cluster -> Link], NEW f \in File,
         NEW o \in FileObject, Chained(v, h, t, o, f)
  PROVE  LET t2 == FillFirst(t, o)
             x == [o EXCEPT !.stat = IF o.stat = 3 THEN 0 ELSE @] IN
         /\ x \in FileObject /\ Chained(v, h, t2, x, f)
         /\ t2 \in [Cluster -> Link] /\ \A c \in Cluster \ Of(h, f) : t2[c] = t[c]
<1> DEFINE t2 == FillFirst(t, o)
           x == [o EXCEPT !.stat = IF o.stat = 3 THEN 0 ELSE @]
           k == o.n_cont
           s == o.sclust
<1>1. CASE o.stat # 3
  <2>1. t2 = t /\ x = o
    BY <1>1 DEF FillFirst, FileObject
  <2> QED BY <2>1
<1>2. CASE o.stat = 3
  <2>1. /\ x \in FileObject /\ x.n_frag = o.n_frag /\ x.sclust = s /\ x.stat = 0 /\ x.clust = o.clust
        /\ x.objsize = o.objsize /\ x.fptr = o.fptr /\ k \in Nat
    BY <1>2 DEF FileObject
  <2>2. /\ Laid(v, h, t, o, f) /\ Ends(h, t, o, f) /\ Sized(h, f, o.objsize) /\ o.fptr <= o.objsize
        /\ (v = "exFAT" => AtMost(h, f, Parts(o.objsize)))
    BY DEF Chained, Lies
  <2>3. HasPart(h, f, k + 2) /\ HasPart(h, f, k + 1) /\ s # 0 /\ s \in Nat /\ v = "exFAT"
    <3>1. HasPart(h, f, k + 2)
      BY <1>2, <2>2 DEF Ends
    <3>2. PICK z \in Of(h, f) : h[z].part = k + 2
      BY <3>1 DEF HasPart
    <3>3. k + 1 \in 1..h[z].part
      BY <2>1, <3>2
    <3> QED BY <1>2, <2>2, <3>1, <3>3, ClusterIs DEF Placed, Laid, FileObject
  <2>4. \A j \in 1..k + 1 : s + j - 1 \in Of(h, f) /\ h[s + j - 1].part = j
    <3>1. k + 1 \in 1..(k + 1)
      BY <2>1
    <3> QED BY <1>2, <2>1, <2>2, <2>3, <3>1, FirstIs DEF Laid
  <2>5. \A c \in s .. s + k - 1 : c \in Of(h, f) /\ h[c].part = c - s + 1 /\ h[c].part <= k
    <3> SUFFICES ASSUME NEW c \in s .. s + k - 1
                 PROVE  c \in Of(h, f) /\ h[c].part = c - s + 1 /\ h[c].part <= k
      OBVIOUS
    <3>1. c - s + 1 \in 1..k + 1 /\ s + (c - s + 1) - 1 = c /\ c - s + 1 <= k
      BY <2>1, <2>3
    <3> QED BY <2>4, <3>1
  <2>6. \A c \in Of(h, f) : c \in Cluster /\ c \in Nat /\ h[c].part \in Nat \ {0}
    BY HoldsIs, ClusterIs
  <2>7. \A c \in Of(h, f) : h[c].part <= k + 1 => c = s + h[c].part - 1
    BY <1>2, <2>2 DEF Laid, FirstPiece
  <2>8. \A c \in Cluster : t2[c] = IF c \in s .. s + k - 1 THEN c + 1 ELSE t[c]
    BY <1>2 DEF FillFirst
  <2>9. ASSUME NEW c \in Cluster
        PROVE  t2[c] \in Link
    <3>1. CASE c \in s .. s + k - 1
      <4>1. c - s + 2 \in 1..k + 1 /\ s + (c - s + 2) - 1 = c + 1
        BY <2>1, <2>3, <3>1
      <4>2. c + 1 \in Cluster
        BY <2>4, <2>6, <4>1
      <4> QED BY <2>8, <3>1, <4>2 DEF Link
    <3> QED BY <2>8, <3>1 DEF Link
  <2>10. t2 \in [Cluster -> Link]
    BY <1>2, <2>9 DEF FillFirst
  <2>11. \A c \in Cluster \ Of(h, f) : t2[c] = t[c]
    BY <2>5, <2>8
  <2> HIDE DEF t2, x
  <2>12. InTable(h, t2, x, f)
    <3> SUFFICES ASSUME NEW c \in Of(h, f), NEW d \in Of(h, f), h[d].part = h[c].part + 1,
                        ~(o.n_frag # 0 /\ h[c].part > h[o.clust].part - o.n_frag)
                 PROVE  t2[c] = d
      BY <2>1 DEF InTable
    <3>1. CASE h[c].part <= k
      <4>1. h[c].part <= k + 1 /\ h[d].part <= k + 1
        BY <2>1, <2>6, <3>1
      <4>2. c = s + h[c].part - 1 /\ d = s + h[d].part - 1
        BY <2>7, <4>1
      <4>3. d = c + 1 /\ c \in s .. s + k - 1
        BY <2>1, <2>3, <2>6, <3>1, <4>2
      <4> QED BY <2>6, <2>8, <4>3
    <3>2. CASE ~(h[c].part <= k)
      <4>1. c \notin s .. s + k - 1
        BY <2>5, <3>2
      <4>2. t2[c] = t[c]
        BY <2>6, <2>8, <4>1
      <4>3. t[c] = d
        BY <1>2, <2>2, <3>2 DEF Laid, InTable
      <4> QED BY <4>2, <4>3
    <3> QED BY <3>1, <3>2
  <2>13. Ends(h, t2, x, f)
    <3>1. ASSUME o.n_frag = 0, NEW c \in Of(h, f) PROVE t2[c] = EOC \/ HasPart(h, f, h[c].part + 1)
      <4>1. CASE c \in s .. s + k - 1
        <5>1. PICK z \in Of(h, f) : h[z].part = k + 1
          BY <2>3 DEF HasPart
        <5>2. h[c].part + 1 \in 1..h[z].part
          BY <2>1, <2>5, <2>6, <4>1, <5>1
        <5> QED BY <5>2 DEF Placed
      <4>2. CASE c \notin s .. s + k - 1
        <5>1. t2[c] = t[c]
          BY <2>6, <2>8, <4>2
        <5> QED BY <1>2, <2>2, <3>1, <5>1 DEF Ends
      <4> QED BY <4>1, <4>2
    <3> QED BY <2>1, <3>1 DEF Ends
  <2>14. OnePiece(h, x, f) /\ FirstPiece(h, x, f) /\ LastPiece(h, x, f)
    BY <2>1, <2>2 DEF Laid, OnePiece, FirstPiece, LastPiece
  <2>15. Laid(v, h, t2, x, f)
    BY <2>1, <2>2, <2>3, <2>12, <2>14 DEF Laid
  <2>16. Chained(v, h, t2, x, f)
    BY <2>1, <2>2, <2>13, <2>15 DEF Chained, Lies
  <2> QED BY <2>1, <2>10, <2>11, <2>16 DEF t2, x
<1> QED BY <1>1, <1>2

\* What f_sync makes of the table and of the object.
LEMMA AllFilled ==
  ASSUME NEW v \in {"FAT", "exFAT"}, NEW h, Placed(h), NEW t \in [Cluster -> Link], NEW f \in File,
         NEW o \in FileObject, Chained(v, h, t, o, f)
  PROVE  LET t2 == IF v = "exFAT" THEN FillLast(FillFirst(t, o), o.n_frag, o.clust, EOC) ELSE t IN
         /\ Synced(o) \in FileObject /\ Chained(v, h, t2, Synced(o), f)
         /\ t2 \in [Cluster -> Link] /\ \A c \in Cluster \ Of(h, f) : t2[c] = t[c]
<1> DEFINE y == [o EXCEPT !.stat = IF o.stat = 3 THEN 0 ELSE @]
           t1 == FillFirst(t, o)
           z == Filled(y)
           t2 == FillLast(t1, y.n_frag, y.clust, EOC)
           x == Synced(o)
<1>1. /\ y \in FileObject /\ Chained(v, h, t1, y, f)
      /\ t1 \in [Cluster -> Link] /\ \A c \in Cluster \ Of(h, f) : t1[c] = t[c]
  BY FirstFilled
<1>2. /\ y.n_frag = o.n_frag /\ y.clust = o.clust /\ y.sclust = o.sclust /\ y.objsize = o.objsize /\ y.fptr = o.fptr
      /\ y.stat = (IF o.stat = 3 THEN 0 ELSE o.stat) /\ y.n_cont = o.n_cont
  BY DEF FileObject
<1>3. /\ x \in FileObject /\ x.n_frag = 0 /\ x.sclust = o.sclust /\ x.objsize = o.objsize /\ x.fptr = o.fptr
      /\ x.stat = (IF o.stat = 3 THEN 0 ELSE o.stat) /\ x.n_cont = o.n_cont /\ o.stat \in {0, 2, 3}
      /\ o.fptr <= o.objsize
  BY DEF Synced, FileObject, Chained, Lies
<1> HIDE DEF y, t1, x
<1>4. /\ Chained(v, h, t2, z, f) /\ t2 \in [Cluster -> Link] /\ \A c \in Cluster \ Of(h, f) : t2[c] = t1[c]
  BY <1>1, LastFilled
<1>5. /\ z.n_frag = 0 /\ z.clust = y.clust /\ z.sclust = y.sclust /\ z.objsize = y.objsize /\ z.fptr = y.fptr
      /\ z.stat = y.stat /\ z.n_cont = y.n_cont
  BY <1>1 DEF Filled, FileObject
<1> HIDE DEF t2, z
<1>6. CASE v = "exFAT"
  <2>1. Alike(z, x)
    BY <1>2, <1>3, <1>5 DEF Alike
  <2>2. Chained(v, h, t2, x, f)
    BY <1>4, <2>1, ChainAlike
  <2>3. t2 = FillLast(FillFirst(t, o), o.n_frag, o.clust, EOC)
    BY <1>2 DEF t1, t2
  <2> QED BY <1>1, <1>3, <1>4, <1>6, <2>2, <2>3 DEF x
<1>7. CASE v = "FAT"
  <2>1. o.n_frag = 0 /\ o.stat = 0
    BY <1>7 DEF Chained, Lies, Laid
  <2>2. Alike(o, x)
    BY <1>3, <2>1 DEF Alike
  <2>3. Chained(v, h, t, x, f)
    BY <2>2, ChainAlike
  <2> QED BY <1>3, <1>7, <2>3 DEF x
<1> QED BY <1>6, <1>7

LEMMA ForgetAll ==
  ASSUME TypeOK, Placed(holds), NEW f \in File, Forget(f, 0)
  PROVE  /\ holds' = [c \in Cluster |-> IF c \in Of(holds, f) THEN Nothing ELSE holds[c]]
         /\ Placed(holds') /\ Of(holds', f) = {} /\ (Of(holds, f) = {} => holds' = holds)
<1>1. \A c \in Cluster : IsOf(c, f) /\ holds[c].part > 0 <=> c \in Of(holds, f)
  <2>1. \A c \in Of(holds, f) : holds[c].part \in Nat \ {0}
    BY HoldsIs
  <2> QED BY <2>1 DEF IsOf, Of
<1>2. holds' = [c \in Cluster |-> IF c \in Of(holds, f) THEN Nothing ELSE holds[c]]
  BY <1>1 DEF Forget
<1> QED BY <1>2, GivenUp

\* A file of which the entry leads to no cluster is closed.
LEMMA UnheldRests ==
  ASSUME NEW v, NEW h, Placed(h), NEW t, NEW n, NEW f \in File, Of(h, f) = {}, NEW e \in EntryRecord,
         e.sclust = 0, e.size = 0, e.stat = 0
  PROVE  Rests(v, h, t, n, e, Object(e, FALSE, FALSE, FALSE), f)
<1> DEFINE x == Object(e, FALSE, FALSE, FALSE)
<1>1. /\ x \in FileObject /\ ~x.open /\ ~x.err /\ x.fptr = 0 /\ x.sclust = 0 /\ x.objsize = 0 /\ x.stat = 0
      /\ x.n_frag = 0
  BY Objects DEF Object
<1> HIDE DEF x
<1>2. Chained(v, h, t, x, f) /\ Positioned(h, x, f)
  BY <1>1, NoChain
<1>3. Rests(v, h, t, n, e, x, f)
  BY <1>1, <1>2 DEF Rests
<1> QED BY <1>3 DEF x

\* The object that was not modified is closed: the entry may be behind it on a FAT volume.
LEMMA FitsRests ==
  ASSUME NEW h, Placed(h), NEW t, NEW n, NEW f \in File, NEW o \in FileObject, Chained("FAT", h, t, o, f),
         NEW e \in EntryRecord, EntryOK("FAT", e), Fits(h, e, o, f), e.sclust # 0
  PROVE  Rests("FAT", h, t, n, e, Object(e, FALSE, FALSE, FALSE), f)
<1> DEFINE x == Object(e, FALSE, FALSE, FALSE)
<1>1. /\ x \in FileObject /\ ~x.open /\ ~x.err /\ x.fptr = 0 /\ x.sclust = e.sclust /\ x.objsize = e.size
      /\ x.stat = 0 /\ x.n_frag = 0 /\ e.size \in Nat
  BY Objects DEF Object, EntryOK, EntryRecord
<1>2. e.sclust = o.sclust /\ Sized(h, f, e.size)
  BY DEF Fits
<1>3. Laid("FAT", h, t, o, f) /\ Ends(h, t, o, f) /\ o.stat = 0 /\ o.n_frag = 0
  BY DEF Chained, Lies, Laid
<1> HIDE DEF x
<1>4. Laid("FAT", h, t, x, f) /\ Ends(h, t, x, f)
  BY <1>1, <1>2, <1>3, LaidAlike
<1>5. Chained("FAT", h, t, x, f)
  BY <1>1, <1>2, <1>4 DEF Chained, Lies
<1>6. Rests("FAT", h, t, n, e, x, f)
  BY <1>1, <1>5 DEF Rests, Positioned
<1> QED BY <1>6 DEF x

LEMMA SyncKeeps ==
  ASSUME FilesInv, NEW f \in File, NEW isClose \in BOOLEAN, Sync(f, isClose)
  PROVE  FilesInv'
<1> DEFINE e == entry[f]
           o == obj[f]
           s == Synced(o)
           written == Entry(o.sclust, o.objsize, s.stat)
           t2 == IF type = "exFAT" THEN FillLast(FillFirst(fat, o), o.n_frag, o.clust, EOC) ELSE fat
           e2 == IF o.modified THEN written ELSE e
           x == IF isClose THEN Closed ELSE s
<1>1. op = Idle /\ o.open /\ (isClose \/ o.modified)
  BY DEF Sync
<1>2. /\ e \in EntryRecord /\ o \in FileObject /\ EntryOK(type, e) /\ op.file = None /\ op.at = "loop"
      /\ Rests(type, holds, fat, faults, e, o, f) /\ Chained(type, holds, fat, o, f)
      /\ TypeOK /\ Placed(holds) /\ type \in {"FAT", "exFAT"} /\ fat \in [Cluster -> Link]
      /\ last_clst \in 0..LastCluster /\ faults \in 0..MaxFaults /\ (type = "exFAT" => faults = 0)
      /\ faults \in Nat
  BY <1>1, AtRest, TypeIs DEF FilesInv
<1>3. /\ s \in FileObject /\ Chained(type, holds, t2, s, f)
      /\ t2 \in [Cluster -> Link] /\ \A c \in Cluster \ Of(holds, f) : t2[c] = fat[c]
  BY <1>2, AllFilled
<1>4. /\ s.open /\ ~s.modified /\ s.err = o.err /\ s.n_frag = 0 /\ s.sclust = o.sclust /\ s.objsize = o.objsize
      /\ s.fptr = o.fptr /\ s.clust = o.clust /\ s.stat \in {0, 2} /\ (type = "FAT" => s.stat = 0)
      /\ o.objsize \in Nat /\ o.sclust \in Cluster \cup {0}
  <2>1. type = "FAT" => o.stat = 0
    BY <1>2 DEF Chained, Lies, Laid
  <2> QED BY <1>1, <1>2, <2>1 DEF Synced, FileObject
<1>5. /\ written \in EntryRecord /\ written.sclust = s.sclust /\ written.size = s.objsize /\ written.stat = s.stat
      /\ EntryOK(type, written)
  BY <1>4, EntriesAreTyped DEF Entry, EntryOK
<1>6. /\ IF o.modified THEN entry' = [entry EXCEPT ![f] = written] /\ fat' = t2 ELSE entry' = entry /\ fat' = fat
      /\ obj' = [obj EXCEPT ![f] = x]
      /\ IF isClose THEN Unheld(f, entry'[f]) ELSE holds' = holds
      /\ UNCHANGED <<type, bitmap, free_clst, last_clst, op, faults>>
  BY DEF Sync
<1>7. entry' = [entry EXCEPT ![f] = e2] /\ entry'[f] = e2
  BY <1>2, <1>6, TypeIs
<1>8. fat' \in [Cluster -> Link] /\ (type = "FAT" => fat' = fat) /\ \A c \in Cluster \ Of(holds, f) : fat'[c] = fat[c]
  BY <1>2, <1>3, <1>6
<1>9. x \in FileObject /\ (isClose => x = Closed /\ ~x.open) /\ (~isClose => x = s /\ x.open /\ o.modified)
      /\ (isClose <=> ~x.open)
  BY <1>1, <1>3, <1>4, ClosedIs
<1>10. (o.modified => e2 = written) /\ (~o.modified => e2 = e) /\ e2 \in EntryRecord /\ EntryOK(type, e2)
  BY <1>2, <1>5
<1> HIDE DEF e, o, s, written, t2, e2, x
<1>11. Same(written, s)
  BY <1>4, <1>5 DEF Same
<1>12. ~o.modified => Fits(holds, e, o, f) /\ (faults = 0 => Same(e, o))
  BY <1>1, <1>2 DEF Rests
<1>13. ASSUME ~isClose
       PROVE  holds' = holds /\ Rests(type, holds', fat', faults', e2, x, f)
  <2>1. x = s /\ e2 = written /\ fat' = t2 /\ holds' = holds /\ faults' = faults
    BY <1>6, <1>9, <1>10, <1>13
  <2>2. ~o.err => Positioned(holds, o, f)
    BY <1>2 DEF Rests
  <2>3. ~s.err => Positioned(holds, s, f)
    BY <1>4, <2>2 DEF Positioned, AtPart
  <2>4. Fits(holds, written, s, f)
    BY <1>3, <1>11 DEF Fits, Same, Chained, Lies
  <2>5. faults = 0 => ~s.err
    BY <1>2, <1>4 DEF Rests
  <2>6. Rests(type, holds, t2, faults, written, s, f)
    BY <1>3, <1>11, <2>3, <2>4, <2>5 DEF Rests
  <2> QED BY <2>1, <2>6
<1>14. ASSUME isClose, e2.sclust # 0
       PROVE  /\ holds' = holds
              /\ Rests(type, holds', fat', faults', e2, Object(e2, FALSE, FALSE, FALSE), f)
  <2>1. holds' = holds /\ faults' = faults
    BY <1>6, <1>7, <1>14 DEF Unheld
  <2>2. CASE o.modified
    <3>1. e2 = written /\ fat' = t2
      BY <1>6, <1>10, <2>2
    <3> QED BY <1>2, <1>3, <1>5, <1>11, <2>1, <3>1, ClosedAlike
  <2>3. CASE ~o.modified
    <3>1. e2 = e /\ fat' = fat
      BY <1>6, <1>10, <2>3
    <3>2. CASE faults = 0
      BY <1>2, <1>12, <2>1, <2>3, <3>1, <3>2, ClosedAlike
    <3>3. CASE faults # 0
      <4>1. type = "FAT"
        BY <1>2, <3>3
      <4> QED BY <1>2, <1>12, <1>14, <2>1, <2>3, <3>1, <4>1, FitsRests
    <3> QED BY <3>2, <3>3
  <2> QED BY <2>1, <2>2, <2>3
<1>15. ASSUME isClose, e2.sclust = 0
       PROVE  /\ \/ holds' = holds
                 \/ holds' = [c \in Cluster |-> IF c \in Of(holds, f) THEN Nothing ELSE holds[c]] /\ faults' # 0
              /\ Rests(type, holds', fat', faults', e2, Object(e2, FALSE, FALSE, FALSE), f)
  <2>1. Forget(f, 0) /\ faults' = faults
    BY <1>6, <1>7, <1>15 DEF Unheld
  <2>2. /\ holds' = [c \in Cluster |-> IF c \in Of(holds, f) THEN Nothing ELSE holds[c]]
        /\ Placed(holds') /\ Of(holds', f) = {} /\ (Of(holds, f) = {} => holds' = holds)
    BY <1>2, <2>1, ForgetAll
  <2>3. /\ o.sclust = 0 => Of(holds, f) = {} /\ o.objsize = 0 /\ o.stat = 0
        /\ \A n \in Nat : Sized(holds, f, n) /\ Of(holds, f) = {} => n = 0
    <3>1. Lies(type, holds, fat, o, f)
      BY <1>2 DEF Chained
    <3> QED BY <1>2, <3>1, HasFirst
  <2>4. s.sclust = 0 => s.stat = 0
    BY <1>3 DEF Chained, Lies, Laid
  <2>5. e2.size = 0 /\ e2.stat = 0 /\ (holds' = holds \/ faults' # 0)
    <3>1. CASE o.modified
      <4>1. e2 = written /\ o.sclust = 0
        BY <1>4, <1>5, <1>10, <1>15, <3>1
      <4> QED BY <1>4, <1>5, <2>2, <2>3, <2>4, <4>1
    <3>2. CASE ~o.modified /\ faults = 0
      <4>1. e2 = e /\ Same(e, o)
        BY <1>10, <1>12, <3>2
      <4> QED BY <1>15, <2>2, <2>3, <4>1 DEF Same
    <3>3. CASE ~o.modified /\ faults # 0
      <4>1. e2 = e /\ Fits(holds, e, o, f) /\ type = "FAT"
        BY <1>2, <1>10, <1>12, <3>3
      <4>2. e.stat = 0 /\ e.size \in Nat
        BY <1>2, <4>1 DEF EntryOK, EntryRecord
      <4>3. e.size = 0
        BY <1>15, <2>3, <4>1, <4>2 DEF Fits
      <4> QED BY <2>1, <3>3, <4>1, <4>2, <4>3
    <3> QED BY <3>1, <3>2, <3>3
  <2> QED BY <1>10, <1>15, <2>2, <2>5, UnheldRests
<1>16. /\ \/ holds' = holds
          \/ holds' = [c \in Cluster |-> IF c \in Of(holds, f) THEN Nothing ELSE holds[c]] /\ faults' # 0
       /\ Rests(type, holds', fat', faults', e2, IF x.open THEN x ELSE Object(e2, FALSE, FALSE, FALSE), f)
  BY <1>9, <1>13, <1>14, <1>15
<1>17. /\ Idle.file = None /\ None # f /\ Idle.at # "free" /\ op' = Idle /\ Idle \in CallRecord /\ op.at # "free"
       /\ type' = type /\ bitmap' = bitmap /\ free_clst' = free_clst /\ last_clst' \in 0..LastCluster
       /\ faults' = faults /\ faults' \in 0..MaxFaults /\ faults <= faults' /\ (type = "exFAT" => faults' = 0)
  BY <1>1, <1>2, <1>6, IdleIs
<1> HIDE DEF Sync
<1> QED BY <1>2, <1>6, <1>7, <1>8, <1>9, <1>10, <1>16, <1>17, CallStep

LEMMA SyncFailsKeeps ==
  ASSUME FilesInv, NEW f \in File, SyncFails(f)
  PROVE  FilesInv'
<1> DEFINE e == entry[f]
           o == obj[f]
           written == Entry(o.sclust, o.objsize, o.stat)
           x == [o EXCEPT !.modified = FALSE]
<1>1. op = Idle /\ o.open /\ o.modified
  BY DEF SyncFails
<1>2. /\ e \in EntryRecord /\ o \in FileObject /\ EntryOK(type, e) /\ op.file = None /\ op.at = "loop"
      /\ Rests(type, holds, fat, faults, e, o, f) /\ Chained(type, holds, fat, o, f) /\ faults \in Nat
  BY <1>1, AtRest, TypeIs DEF FilesInv
<1>3. /\ \/ entry' = entry /\ obj' = obj
         \/ entry' = [entry EXCEPT ![f] = written] /\ obj' = [obj EXCEPT ![f] = x]
      /\ Fails /\ op' = Idle /\ UNCHANGED <<type, fat, bitmap, free_clst, last_clst, holds>>
      /\ entry = [entry EXCEPT ![f] = e] /\ obj = [obj EXCEPT ![f] = o]
  BY <1>1, Unchanged DEF SyncFails
<1>4. /\ x \in FileObject /\ x.open /\ ~x.modified /\ x.err = o.err /\ x.sclust = o.sclust /\ x.objsize = o.objsize
      /\ x.fptr = o.fptr /\ x.clust = o.clust /\ x.stat = o.stat /\ x.n_frag = o.n_frag /\ x.n_cont = o.n_cont
      /\ o.sclust \in Cluster \cup {0} /\ o.objsize \in Nat
  BY <1>1, <1>2 DEF FileObject
<1>5. type = "FAT" /\ faults' # 0
  BY <1>2, <1>3 DEF Fails
<1>6. o.stat = 0 /\ o.n_frag = 0 /\ o.fptr <= o.objsize /\ Sized(holds, f, o.objsize)
  BY <1>2, <1>5 DEF Chained, Lies, Laid
<1>7. /\ written \in EntryRecord /\ written.sclust = o.sclust /\ written.size = o.objsize /\ written.stat = 0
      /\ EntryOK(type, written)
  BY <1>4, <1>6, EntriesAreTyped DEF Entry, EntryOK
<1> HIDE DEF e, o, x, written
<1>8. ~o.err => Positioned(holds, o, f)
  BY <1>2 DEF Rests
<1>9. Rests(type, holds, fat, faults', e, o, f)
  BY <1>1, <1>2, <1>5, <1>8 DEF Rests
<1>10. Rests(type, holds, fat, faults', written, x, f)
  <2>1. Alike(o, x)
    BY <1>4, <1>6 DEF Alike
  <2>2. Chained(type, holds, fat, x, f)
    BY <1>2, <2>1, ChainAlike
  <2>3. ~x.err => Positioned(holds, x, f)
    BY <1>4, <1>8 DEF Positioned, AtPart
  <2>4. Fits(holds, written, x, f)
    BY <1>4, <1>6, <1>7 DEF Fits
  <2> QED BY <1>5, <2>2, <2>3, <2>4 DEF Rests
<1>11. ASSUME entry' = entry, obj' = obj PROVE FilesInv'
  BY <1>1, <1>2, <1>3, <1>9, <1>11, IdleIs, QuietStep
<1>12. ASSUME entry' = [entry EXCEPT ![f] = written], obj' = [obj EXCEPT ![f] = x] PROVE FilesInv'
  BY <1>1, <1>2, <1>3, <1>4, <1>7, <1>10, <1>12, IdleIs, QuietStep
<1> QED BY <1>3, <1>11, <1>12

\* f_getfree.
LEMMA GetFreeKeeps ==
  ASSUME FilesInv, GetFree
  PROVE  FilesInv'
<1>1. op = Idle /\ op.at = "loop" /\ op.file = None /\ free_clst' = Cardinality(FreeClusters)
      /\ UNCHANGED <<type, fat, bitmap, last_clst, entry, obj, op, holds, faults>>
  BY IdleIs DEF GetFree
<1>2. FreeClusters \subseteq Cluster /\ InUse' = InUse /\ FreeClusters' = FreeClusters
  BY <1>1 DEF FreeClusters, InUse
<1>3. /\ IsFiniteSet(FreeClusters) /\ Cardinality(FreeClusters) \in Nat /\ Cardinality(FreeClusters) <= Total
      /\ Total \in Nat /\ Total <= Unknown
  <2>1. IsFiniteSet(Cluster) /\ Cardinality(Cluster) = LastCluster - 1
    BY ClusterIs, FS_Interval DEF Cluster
  <2>2. IsFiniteSet(FreeClusters) /\ Cardinality(FreeClusters) <= Cardinality(Cluster)
    BY <1>2, <2>1, FS_Subset
  <2>3. Cardinality(FreeClusters) \in Nat
    BY <2>2, FS_CardinalityType
  <2> QED BY <2>1, <2>2, <2>3, ClusterIs DEF Total, Unknown
<1>4. Pending = {} /\ Pending' = {}
  BY <1>1 DEF Pending
<1>5. TypeOK'
  BY <1>1, <1>3, ClusterIs DEF FilesInv, TypeOK, Unknown, Total
<1>6. PICK tp \in [Cluster -> Nat] : CutOff(tp) /\ Counted(tp)
  BY DEF FilesInv
<1>7. CutOff(tp)'
  BY <1>1, <1>2, <1>4, <1>6 DEF CutOff
<1>8. Counted(tp)'
  <2>1. Cardinality(Pending') = 0
    BY <1>4, FS_EmptySet
  <2>2. free_clst' = Cardinality(FreeClusters') + Cardinality(Pending')
    BY <1>1, <1>2, <1>3, <2>1
  <2>3. Cardinality(FreeClusters') + Cardinality(Pending') \in Nat
    BY <1>2, <1>3, <2>1
  <2>4. faults' = 0 => \A c \in InUse' : holds'[c] # Nothing \/ tp[c] > 0 \/ c \in Pending'
    BY <1>1, <1>2, <1>4, <1>6 DEF Counted
  <2> QED BY <2>2, <2>3, <2>4 DEF Counted
<1>9. Placed(holds)' /\ (type' = "exFAT" => faults' = 0) /\ (\A f \in File : EntryOK(type', entry'[f]))
      /\ (\A c \in Cluster : holds'[c] # Nothing => c \in InUse')
      /\ (\A c \in Pending' : c \in InUse' /\ holds'[c] = Nothing)
  BY <1>1, <1>2, <1>4 DEF FilesInv
<1>10. /\ IF op'.file = None THEN op' = Idle ELSE op'.call # "none"
       /\ \A f \in File :
            IF f = op'.file THEN Busy(type', holds', fat', faults', entry'[f], obj'[f], op', f) ELSE Resting(f)'
  BY <1>1 DEF FilesInv, Resting, ObjectOf
<1> QED BY <1>5, <1>6, <1>7, <1>8, <1>9, <1>10 DEF FilesInv

-----------------------------------------------------------------------------
(* create_chain.                                                             *)

\* A set of numbers that is not empty has a least one.
LEMMA LeastNumber ==
  ASSUME NEW T, T \subseteq Nat, T # {}
  PROVE  Least(T) \in T /\ \A m \in T : Least(T) <= m
<1>1. IsWellFoundedOn(OpToRel(<, Nat), Nat)
  BY NatLessThanWellFounded
<1>2. PICK n \in T : \A m \in T : <<m, n>> \notin OpToRel(<, Nat)
  BY <1>1, WFMin
<1>3. \A m \in T : n <= m
  <2> SUFFICES ASSUME NEW m \in T PROVE n <= m
    OBVIOUS
  <2>1. m \in Nat /\ n \in Nat /\ ~(m < n)
    BY <1>2 DEF OpToRel
  <2> QED BY <2>1
<1> QED BY <1>3 DEF Least

LEMMA FoundIs ==
  ASSUME TypeOK, NEW clst \in Cluster \cup {0}, Find(clst) # 0
  PROVE  /\ Find(clst) \in FreeClusters /\ Find(clst) \in Cluster /\ Find(clst) \notin InUse
         /\ Find(clst) \in 2..LastCluster /\ Find(clst) > 1
<1>1. FreeClusters \subseteq Nat /\ FreeClusters \subseteq Cluster
  BY ClusterIs DEF FreeClusters
<1>2. ASSUME NEW c, FirstFrom(c) # 0 PROVE FirstFrom(c) \in FreeClusters
  <2> DEFINE behind == {d \in FreeClusters : d >= c}
  <2>1. CASE behind # {}
    <3>1. behind \subseteq Nat
      BY <1>1
    <3>2. Least(behind) \in behind
      BY <2>1, <3>1, LeastNumber
    <3> QED BY <2>1, <3>2 DEF FirstFrom
  <2>2. CASE behind = {} /\ FreeClusters # {}
    <3>1. Least(FreeClusters) \in FreeClusters
      BY <1>1, <2>2, LeastNumber
    <3> QED BY <2>2, <3>1 DEF FirstFrom
  <2>3. CASE behind = {} /\ FreeClusters = {}
    BY <1>2, <2>3 DEF FirstFrom
  <2> QED BY <2>1, <2>2, <2>3
<1>3. Find(clst) \in FreeClusters
  <2>1. CASE type = "exFAT"
    BY <1>2, <2>1 DEF Find
  <2>2. CASE type = "FAT"
    <3> DEFINE next == IF clst + 1 \in Cluster THEN clst + 1 ELSE 2
    <3>1. next \in Cluster
      BY ClusterIs
    <3> HIDE DEF next
    <3>2. CASE clst # 0 /\ fat[next] = 0
      <4>1. Find(clst) = next
        BY <2>2, <3>2 DEF Find, next
      <4> QED BY <2>2, <3>1, <3>2, <4>1 DEF FreeClusters, InUse
    <3>3. CASE ~(clst # 0 /\ fat[next] = 0)
      <4>1. Find(clst) = FirstFrom(Suggested(IF clst = 0 THEN 1 ELSE clst) + 1)
        BY <2>2, <3>3 DEF Find, next
      <4> HIDE DEF Find
      <4> QED BY <1>2, <4>1
    <3> QED BY <3>2, <3>3
  <2> QED BY <2>1, <2>2, TypeIs
<1> HIDE DEF Find
<1>4. Find(clst) \in Cluster /\ Find(clst) \notin InUse
  BY <1>3 DEF FreeClusters
<1> QED BY <1>3, <1>4, ClusterIs DEF Cluster

\* What is so when create_chain is called.
LEMMA AskingIs ==
  ASSUME FilesInv, op.at = "chain"
  PROVE  LET f == op.file
             o == obj[f]
             e == entry[f]
             clst == ChainArg(o) IN
         /\ f \in File /\ f # None /\ o \in FileObject /\ e \in EntryRecord /\ op \in CallRecord /\ EntryOK(type, e)
         /\ op.call \in {"write", "seek"} /\ o.open /\ o.write /\ ~o.err
         /\ Chained(type, holds, fat, o, f) /\ Positioned(holds, o, f) /\ MayStay(holds, faults, e, o, op, f)
         /\ OnBoundary(o) /\ op.n > 0
         /\ type \in {"FAT", "exFAT"} /\ Placed(holds) /\ TypeOK /\ faults \in Nat
         /\ clst \in Cluster \cup {0}
         /\ clst = 0 => o.sclust = 0 /\ Of(holds, f) = {} /\ o.objsize = 0 /\ o.fptr = 0 /\ o.stat = 0 /\ o.n_frag = 0
         /\ clst # 0 => /\ o.sclust # 0 /\ o.fptr > 0 /\ clst = o.clust /\ clst \in Of(holds, f)
                        /\ holds[clst].part = Parts(o.fptr)
<1> DEFINE f == op.file
           o == obj[f]
           e == entry[f]
           clst == ChainArg(o)
<1>1. op # Idle
  BY IdleIs
<1>2. /\ f \in File /\ f # None /\ op \in CallRecord /\ o \in FileObject /\ e \in EntryRecord /\ EntryOK(type, e)
      /\ Asking(type, holds, fat, faults, e, o, op, f)
      /\ type \in {"FAT", "exFAT"} /\ Placed(holds) /\ TypeOK /\ faults \in Nat
  BY <1>1, Current, TypeIs DEF FilesInv
<1>3. /\ op.call \in {"write", "seek"} /\ o.open /\ o.write /\ ~o.err
      /\ Chained(type, holds, fat, o, f) /\ Positioned(holds, o, f) /\ MayStay(holds, faults, e, o, op, f)
      /\ OnBoundary(o) /\ op.n > 0 /\ (o.fptr > 0 \/ o.sclust = 0)
  BY <1>2 DEF Asking
<1> HIDE DEF f, o, e
<1>4. clst = (IF o.sclust = 0 THEN 0 ELSE o.clust) /\ o.clust \in Cluster \cup {0} /\ o.fptr \in Nat
  BY <1>2 DEF ChainArg, FileObject
<1>5. Lies(type, holds, fat, o, f)
  BY <1>3 DEF Chained
<1>6. o.sclust = 0 => Of(holds, f) = {} /\ o.objsize = 0 /\ o.fptr = 0 /\ o.stat = 0 /\ o.n_frag = 0
  BY <1>2, <1>5, HasFirst
<1>7. o.sclust # 0 => o.fptr > 0 /\ o.clust \in Of(holds, f) /\ holds[o.clust].part = Parts(o.fptr)
  BY <1>3, <1>4 DEF Positioned, AtPart
<1>8. \A c \in Of(holds, f) : c \in Cluster /\ c # 0
  BY ClusterIs DEF Of
<1>9. (clst = 0 <=> o.sclust = 0)
  BY <1>4, <1>7, <1>8
<1>10. /\ clst \in Cluster \cup {0}
       /\ clst = 0 => o.sclust = 0 /\ Of(holds, f) = {} /\ o.objsize = 0 /\ o.fptr = 0 /\ o.stat = 0 /\ o.n_frag = 0
       /\ clst # 0 => /\ o.sclust # 0 /\ o.fptr > 0 /\ clst = o.clust /\ clst \in Of(holds, f)
                      /\ holds[clst].part = Parts(o.fptr)
  BY <1>4, <1>6, <1>7, <1>9
<1> HIDE DEF clst
<1> QED BY <1>2, <1>3, <1>10 DEF clst, f, o, e

LEMMA ChainFollowsKeeps ==
  ASSUME FilesInv, ChainFollows
  PROVE  FilesInv'
<1> DEFINE f == op.file
           o == obj[f]
           e == entry[f]
           clst == ChainArg(o)
           next == GetFat(o, clst)
           p == [op EXCEPT !.at = "got", !.got = next]
           x == At(o, next)
<1>1. op.at = "chain" /\ clst # 0 /\ next # EOC
  BY DEF ChainFollows
<1>2. /\ f \in File /\ f # None /\ o \in FileObject /\ e \in EntryRecord /\ op \in CallRecord /\ EntryOK(type, e)
      /\ op.call \in {"write", "seek"} /\ o.open /\ o.write /\ ~o.err
      /\ Chained(type, holds, fat, o, f) /\ Positioned(holds, o, f) /\ MayStay(holds, faults, e, o, op, f)
      /\ OnBoundary(o) /\ op.n > 0
      /\ type \in {"FAT", "exFAT"} /\ Placed(holds)
      /\ o.sclust # 0 /\ o.fptr > 0 /\ clst = o.clust /\ clst \in Of(holds, f) /\ holds[clst].part = Parts(o.fptr)
  BY <1>1, AskingIs
<1>3. o.n_frag = 0
  BY <1>1, <1>2, GetFatIs, LastNext
<1>4. next \in Of(holds, f) /\ holds[next].part = Parts(o.fptr) + 1 /\ next \in Cluster /\ next > 1
  BY <1>1, <1>2, <1>3, NextOf
<1>5. op' = p /\ UNCHANGED <<type, fat, bitmap, free_clst, last_clst, entry, obj, holds, faults>>
  <2>1. ~(next < 2)
    BY <1>4, ClusterIs
  <2> QED BY <2>1 DEF ChainFollows, Got
<1>6. obj = [obj EXCEPT ![f] = o] /\ entry = [entry EXCEPT ![f] = e] /\ op.file = f
  BY <1>2, Unchanged
<1> HIDE DEF f, o, e, clst, next
<1>7. next \in 0..LastCluster
  BY <1>4, ClusterIs
<1>8. /\ p \in CallRecord /\ p.call = op.call /\ p.file = f /\ p.at = "got" /\ p.got = next /\ p.n = op.n
  BY <1>2, <1>6, <1>7 DEF CallRecord
<1>9. /\ x \in FileObject /\ x.clust = next /\ x.sclust = o.sclust /\ x.open /\ ~x.err /\ x.modified = o.modified
      /\ x.objsize = o.objsize /\ x.stat = o.stat /\ x.n_cont = o.n_cont /\ x.n_frag = 0 /\ x.fptr = o.fptr
  BY <1>2, <1>3, <1>4, AtIs
<1> HIDE DEF x, p
<1>10. Alike(o, x)
  BY <1>2, <1>3, <1>9 DEF Alike, Chained, Lies
<1>11. Lies(type, holds, fat, x, f) /\ (type = "exFAT" => AtMost(holds, f, Parts(x.objsize)))
  BY <1>2, <1>10, ChainAlike DEF Chained
<1>12. OnBoundary(x) /\ AtPart(holds, x, f, Parts(x.fptr) + 1)
  BY <1>2, <1>4, <1>9 DEF OnBoundary, AtPart
<1>13. ~x.modified => Fits(holds, e, x, f) /\ (p.call = "seek" /\ faults = 0 => Same(e, x))
  BY <1>2, <1>8, <1>9, <1>3 DEF MayStay, Fits, Same
<1>14. Ahead(type, holds, fat, faults, e, x, p, f)
  BY <1>2, <1>8, <1>9, <1>11, <1>12, <1>13 DEF Ahead, AtMost
<1>15. Given(type, holds, fat, faults, e, o, p, f)
  BY <1>2, <1>4, <1>8, <1>14 DEF Given, x
<1>16. Busy(type, holds, fat, faults', e, o, p, f)
  BY <1>5, <1>15 DEF Busy
<1> QED BY <1>1, <1>2, <1>5, <1>6, <1>8, <1>16, QuietStep

\* create_chain gives no cluster.
LEMMA DeniedIs ==
  ASSUME FilesInv, op.at = "chain", NEW c \in {0, 1}, NEW n \in Nat, c = 1 => n # 0, n = 0 => faults = 0,
         NEW t, \A d \in Of(holds, op.file) : t[d] = fat[d]
  PROVE  LET f == op.file
             o == obj[f]
             p == [op EXCEPT !.at = "got", !.got = c] IN
         /\ p \in CallRecord /\ p.file = f /\ p.call # "none" /\ p.at = "got"
         /\ Busy(type, holds, t, n, entry[f], o, p, f)
<1> DEFINE f == op.file
           o == obj[f]
           e == entry[f]
           p == [op EXCEPT !.at = "got", !.got = c]
<1>1. /\ f \in File /\ f # None /\ o \in FileObject /\ e \in EntryRecord /\ op \in CallRecord /\ EntryOK(type, e)
      /\ op.call \in {"write", "seek"} /\ o.open /\ o.write /\ ~o.err
      /\ Chained(type, holds, fat, o, f) /\ Positioned(holds, o, f) /\ MayStay(holds, faults, e, o, op, f)
  BY AskingIs
<1>2. c \in 0..LastCluster /\ op.file = f
  BY ClusterIs
<1>t. Chained(type, holds, t, o, f)
  <2>1. 0 \in Nat /\ 0 <= 0
    OBVIOUS
  <2> HIDE DEF o
  <2> QED BY <1>1, <2>1, Untouched
<1> HIDE DEF f, o, e
<1>3. p \in CallRecord /\ p.call = op.call /\ p.file = f /\ p.at = "got" /\ p.got = c /\ p.n = op.n
  BY <1>1, <1>2 DEF CallRecord
<1> HIDE DEF p
<1>4. MayStay(holds, n, e, o, p, f)
  BY <1>1, <1>3 DEF MayStay
<1>5. Denied(type, holds, t, n, e, o, p, f)
  BY <1>1, <1>t, <1>3, <1>4 DEF Denied
<1>6. Busy(type, holds, t, n, e, o, p, f)
  BY <1>5 DEF Busy
<1> QED BY <1>1, <1>3, <1>6 DEF f, o, e, p

LEMMA ChainIsFullKeeps ==
  ASSUME FilesInv, ChainIsFull
  PROVE  FilesInv'
<1> DEFINE f == op.file
           p == [op EXCEPT !.at = "got", !.got = 0]
<1>1. /\ op.at = "chain" /\ op' = p
      /\ UNCHANGED <<type, fat, bitmap, free_clst, last_clst, entry, obj, holds, faults>>
  BY DEF ChainIsFull, Got
<1>2. f \in File /\ obj[f] \in FileObject /\ entry[f] \in EntryRecord /\ EntryOK(type, entry[f]) /\ faults \in Nat
  BY <1>1, AskingIs
<1>3. /\ p \in CallRecord /\ p.file = f /\ p.call # "none" /\ p.at = "got"
      /\ Busy(type, holds, fat, faults, entry[f], obj[f], p, f)
  BY <1>1, <1>2, DeniedIs
<1>4. obj = [obj EXCEPT ![f] = obj[f]] /\ entry = [entry EXCEPT ![f] = entry[f]] /\ op.file = f
  BY <1>2, Unchanged
<1> HIDE DEF f, p
<1> QED BY <1>1, <1>2, <1>3, <1>4, QuietStep

\* A free cluster is taken, with its part of a file, or by a write that fails.
LEMMA OneTaken ==
  ASSUME FilesInv, op.at # "free", op'.at # "free", NEW c \in FreeClusters, InUse' = InUse \cup {c},
         faults' = 0 => faults = 0,
         \A d \in Cluster : d # c => holds'[d] = holds[d],
         \/ holds'[c] = holds[c] /\ free_clst' = free_clst /\ faults' # 0
         \/ holds'[c] # Nothing /\ free_clst' = IF free_clst <= Total THEN free_clst - 1 ELSE free_clst
  PROVE  Accounted'
<1>1. Pending = {} /\ Pending' = {} /\ Cardinality(Pending) = 0 /\ Cardinality(Pending') = 0
  BY FS_EmptySet DEF Pending
<1>2. c \in Cluster /\ c \notin InUse /\ holds[c] = Nothing
  BY DEF FreeClusters, FilesInv
<1>3. /\ IsFiniteSet(FreeClusters) /\ Cardinality(FreeClusters') = Cardinality(FreeClusters) - 1
      /\ Cardinality(FreeClusters) \in Nat \ {0} /\ Total \in Nat /\ free_clst \in Nat
  <2>1. IsFiniteSet(Cluster)
    BY ClusterIs, FS_Interval DEF Cluster
  <2>2. IsFiniteSet(FreeClusters)
    BY <2>1, FS_Subset DEF FreeClusters
  <2>3. FreeClusters' = FreeClusters \ {c}
    BY DEF FreeClusters
  <2>4. Cardinality(FreeClusters \ {c}) = Cardinality(FreeClusters) - 1 /\ IsFiniteSet(FreeClusters \ {c})
    BY <2>2, FS_RemoveElement
  <2>5. Cardinality(FreeClusters) \in Nat /\ Cardinality(FreeClusters \ {c}) \in Nat
    BY <2>2, <2>4, FS_CardinalityType
  <2>6. free_clst \in Nat /\ Total \in Nat
    BY TypeIs, ClusterIs DEF FilesInv, Unknown, Total
  <2> QED BY <2>2, <2>3, <2>4, <2>5, <2>6
<1>4. PICK tp \in [Cluster -> Nat] : CutOff(tp) /\ Counted(tp)
  BY DEF FilesInv
<1>5. \A d \in Cluster : tp[d] = 0
  BY <1>4 DEF CutOff
<1>6. CutOff(tp)'
  BY <1>5 DEF CutOff
<1>7. InUse \subseteq Cluster
  BY TypeIs DEF FilesInv, InUse
<1>8. ASSUME faults' = 0 PROVE \A d \in InUse' : holds'[d] # Nothing \/ tp[d] > 0 \/ d \in Pending'
  <2> SUFFICES ASSUME NEW d \in InUse' PROVE holds'[d] # Nothing
    OBVIOUS
  <2>1. CASE d = c
    BY <1>8, <2>1
  <2>2. CASE d # c
    <3>1. d \in InUse /\ d \in Cluster
      BY <1>7, <2>2
    <3>2. holds[d] # Nothing
      BY <1>1, <1>4, <1>5, <1>8, <3>1 DEF Counted
    <3> QED BY <2>2, <3>1, <3>2
  <2> QED BY <2>1, <2>2
<1>9. free_clst <= Total => /\ free_clst >= Cardinality(FreeClusters)
                            /\ faults = 0 => free_clst = Cardinality(FreeClusters)
  <2>1. \A n \in Nat : n + 0 = n
    OBVIOUS
  <2> QED BY <1>1, <1>3, <1>4, <2>1 DEF Counted
<1>10. free_clst' <= Total => /\ free_clst' >= Cardinality(FreeClusters')
                              /\ faults' = 0 => free_clst' = Cardinality(FreeClusters')
  BY <1>3, <1>9
<1>11. Cardinality(FreeClusters') + Cardinality(Pending') = Cardinality(FreeClusters')
  BY <1>1, <1>3
<1>12. Counted(tp)'
  BY <1>8, <1>10, <1>11 DEF Counted
<1>13. \A d \in Cluster : holds'[d] # Nothing => d \in InUse'
  BY DEF FilesInv
<1> QED BY <1>1, <1>4, <1>6, <1>12, <1>13 DEF Accounted

LEMMA ChainFailsKeeps ==
  ASSUME FilesInv, ChainFails
  PROVE  FilesInv'
<1> DEFINE f == op.file
           o == obj[f]
           e == entry[f]
           ncl == Find(ChainArg(o))
           p == [op EXCEPT !.at = "got", !.got = 1]
<1>1. /\ op.at = "chain" /\ op' = p /\ Fails
      /\ UNCHANGED <<type, bitmap, free_clst, last_clst, entry, obj, holds>>
  BY DEF ChainFails, Got
<1>2. fat' = fat \/ (ncl # 0 /\ fat' = [fat EXCEPT ![ncl] = EOC])
  BY DEF ChainFails
<1>3. /\ f \in File /\ o \in FileObject /\ e \in EntryRecord /\ EntryOK(type, e) /\ faults \in Nat
      /\ Placed(holds) /\ TypeOK /\ ChainArg(o) \in Cluster \cup {0}
  BY <1>1, AskingIs
<1>4. type = "FAT" /\ faults' # 0 /\ faults' \in Nat /\ faults <= faults' /\ faults' \in 0..MaxFaults
  BY <1>1, <1>3, TypeIs DEF Fails
<1>5. ncl # 0 => ncl \in FreeClusters /\ ncl \in Cluster /\ ncl \notin InUse
  BY <1>3, FoundIs
<1>6. ncl # 0 => holds[ncl] = Nothing /\ \A g \in File : ncl \notin Of(holds, g)
  BY <1>3, <1>5, HoldsIs DEF FilesInv
<1>7. /\ fat' \in [Cluster -> Link] /\ \A g \in File : \A c \in Of(holds, g) : fat'[c] = fat[c]
  <2>1. fat \in [Cluster -> Link]
    BY <1>3, TypeIs
  <2>2. \A g \in File : \A c \in Of(holds, g) : c \in Cluster
    BY DEF Of
  <2>3. EOC \in Link
    BY DEF Link
  <2> HIDE DEF ncl
  <2> QED BY <1>2, <1>5, <1>6, <2>1, <2>2, <2>3
<1>8. /\ p \in CallRecord /\ p.file = f /\ p.call # "none" /\ p.at = "got"
      /\ Busy(type, holds, fat', faults', e, o, p, f)
  BY <1>1, <1>3, <1>4, <1>7, DeniedIs
<1>9. obj = [obj EXCEPT ![f] = o] /\ entry = [entry EXCEPT ![f] = e] /\ op.file = f
  BY <1>3, Unchanged
<1> HIDE DEF f, o, e, p, ncl
<1>10. CASE fat' = fat
  BY <1>1, <1>3, <1>8, <1>9, <1>10, QuietStep
<1>11. CASE ncl # 0 /\ fat' = [fat EXCEPT ![ncl] = EOC]
  <2>1. InUse' = InUse \cup {ncl}
    <3>1. \A c \in Cluster : fat'[c] = IF c = ncl THEN EOC ELSE fat[c]
      BY <1>3, <1>11, TypeIs
    <3>2. EOC # 0
      BY ClusterIs
    <3> QED BY <1>1, <1>4, <1>5, <1>11, <3>1, <3>2 DEF InUse
  <2>2. Accounted'
    BY <1>1, <1>4, <1>5, <1>8, <1>11, <2>1, OneTaken
  <2>3. TypeOK'
    <3>1. /\ type' \in Types /\ bitmap' \subseteq Cluster /\ free_clst' \in 0..Unknown /\ last_clst' \in 0..LastCluster
          /\ entry' \in [File -> EntryRecord] /\ obj' \in [File -> FileObject] /\ op' \in CallRecord
      BY <1>1, <1>3, <1>8, TypeIs
    <3>2. holds' \in [Cluster -> {Nothing} \cup [file : File, part : Nat \ {0}]]
      BY <1>1, <1>3 DEF Placed
    <3> QED BY <1>4, <1>7, <3>1, <3>2 DEF TypeOK, EntryRecord, FileObject, CallRecord
  <2>4. /\ op.file \in {f, None} /\ op'.file \in {f, None} /\ type' = type /\ Placed(holds)'
        /\ \A g \in File \ {f} : entry'[g] = entry[g] /\ obj'[g] = obj[g]
        /\ \A g \in File \ {f} : Of(holds', g) = Of(holds, g)
                                 /\ \A c \in Of(holds, g) : holds'[c] = holds[c] /\ fat'[c] = fat[c]
        /\ (type = "exFAT" => faults' = 0)
    BY <1>1, <1>3, <1>4, <1>7, <1>8, <1>9 DEF Placed, Of
  <2>5. /\ EntryOK(type, entry'[f]) /\ op'.file = f /\ op'.call # "none"
        /\ Busy(type, holds', fat', faults', entry'[f], obj'[f], op', f)
    BY <1>1, <1>3, <1>8 DEF e, o
  <2> QED BY <1>3, <1>4, <2>2, <2>3, <2>4, <2>5, Frame
<1> QED BY <1>2, <1>10, <1>11

\* h2 is h with the next part, k, of f in the cluster c; clst has the one before it, if any.
Longer(h, h2, f, c, k, clst) ==
    /\ Placed(h) /\ Placed(h2) /\ k \in Nat \ {0} /\ c \in Cluster /\ c \in Nat /\ c \notin Of(h, f)
    /\ Of(h2, f) = Of(h, f) \cup {c} /\ h2[c].part = k
    /\ \A d \in Of(h, f) : h2[d] = h[d] /\ d \in Cluster /\ d \in Nat /\ h[d].part \in 1..(k - 1)
    /\ \A j : HasPart(h, f, j) => HasPart(h2, f, j)
    /\ HasPart(h2, f, k)
    /\ IF clst = 0 THEN Of(h, f) = {} /\ k = 1
       ELSE clst \in Of(h, f) /\ h[clst].part = k - 1
            /\ \A d \in Of(h, f) : h[d].part = k - 1 => d = clst

\* h2 is h with the part behind k - 1 others, which clst has the last of.
Places(h, h2, f, c, k, clst) ==
    /\ Placed(h) /\ c \in Cluster /\ h[c] = Nothing /\ k \in Nat \ {0}
    /\ (\A j \in 1..(k - 1) : HasPart(h, f, j)) /\ AtMost(h, f, k - 1)
    /\ h2 = [h EXCEPT ![c] = Part(f, k)]
    /\ IF clst = 0 THEN Of(h, f) = {} /\ k = 1 ELSE clst \in Of(h, f) /\ h[clst].part = k - 1

LEMMA MorePlaced ==
  ASSUME NEW h, NEW h2, NEW f \in File, NEW c, NEW k, NEW clst, Places(h, h2, f, c, k, clst)
  PROVE  /\ Longer(h, h2, f, c, k, clst)
         /\ \A d \in Cluster : d # c => h2[d] = h[d]
         /\ h2[c] # Nothing
         /\ h2 \in [Cluster -> {Nothing} \cup [file : File, part : Nat \ {0}]]
         /\ \A g \in File \ {f} : Of(h2, g) = Of(h, g) /\ \A d \in Of(h, g) : h2[d] = h[d]
<1>0. /\ Placed(h) /\ c \in Cluster /\ h[c] = Nothing /\ k \in Nat \ {0}
      /\ (\A j \in 1..(k - 1) : HasPart(h, f, j)) /\ AtMost(h, f, k - 1)
      /\ h2 = [h EXCEPT ![c] = Part(f, k)]
      /\ IF clst = 0 THEN Of(h, f) = {} /\ k = 1 ELSE clst \in Of(h, f) /\ h[clst].part = k - 1
  BY DEF Places
<1>1. h \in [Cluster -> {Nothing} \cup [file : File, part : Nat \ {0}]]
  BY <1>0 DEF Placed
<1>2. /\ \A d \in Cluster : h2[d] = IF d = c THEN Part(f, k) ELSE h[d]
      /\ Part(f, k).file = f /\ Part(f, k).part = k /\ Part(f, k) \in [file : File, part : Nat \ {0}]
  BY <1>0, <1>1 DEF Part
<1>3. h2 \in [Cluster -> {Nothing} \cup [file : File, part : Nat \ {0}]]
  BY <1>0, <1>1, <1>2
<1>4. \A g \in File : c \notin Of(h, g)
  BY <1>0, HoldsIs
<1>5. Of(h2, f) = Of(h, f) \cup {c}
  BY <1>0, <1>2, <1>4 DEF Of
<1>6. \A g \in File \ {f} : Of(h2, g) = Of(h, g)
  BY <1>0, <1>2, <1>4 DEF Of
<1>7. \A g \in File : \A d \in Of(h, g) : h2[d] = h[d] /\ d \in Cluster /\ d \in Nat /\ h[d].part \in Nat \ {0}
  BY <1>0, <1>2, <1>4, HoldsIs, ClusterIs
<1>8. h2[c].part = k /\ c \in Nat /\ h2[c] # Nothing
  <2>1. None \notin File /\ Nothing.file = None
    BY <1>0, VolumeAssumption DEF Nothing
  <2> QED BY <1>0, <1>2, <2>1, ClusterIs
<1>9. \A d \in Of(h, f) : h[d].part \in 1..(k - 1)
  BY <1>0, <1>7 DEF AtMost
<1>10. \A j : HasPart(h, f, j) => HasPart(h2, f, j)
  BY <1>0, <1>5, <1>7 DEF HasPart
<1>11. HasPart(h2, f, k)
  BY <1>0, <1>5, <1>8 DEF HasPart
<1>12. \A g \in File \ {f} : \A j : HasPart(h, g, j) => HasPart(h2, g, j)
  BY <1>0, <1>6, <1>7 DEF HasPart
<1>13. ASSUME NEW g \in File, NEW x \in Of(h2, g), NEW y \in Of(h2, g), h2[x].part = h2[y].part
       PROVE  x = y
  <2>1. CASE x \in Of(h, g) /\ y \in Of(h, g)
    BY <1>0, <1>7, <1>13, <2>1 DEF Placed
  <2>2. CASE ~(x \in Of(h, g) /\ y \in Of(h, g))
    <3>1. g = f
      BY <1>0, <1>6, <2>2
    <3>2. \A d \in Of(h, f) : h2[d].part # k
      BY <1>0, <1>7, <1>9
    <3>3. x \in Of(h, f) \cup {c} /\ y \in Of(h, f) \cup {c} /\ (x = c \/ y = c)
      BY <1>0, <1>5, <2>2, <3>1
    <3> QED BY <1>0, <1>8, <1>13, <3>2, <3>3
  <2> QED BY <1>0, <2>1, <2>2
<1>14. ASSUME NEW g \in File, NEW x \in Of(h2, g), NEW j \in 1..h2[x].part
       PROVE  HasPart(h2, g, j)
  <2>1. CASE x \in Of(h, g)
    <3>1. HasPart(h, g, j)
      BY <1>0, <1>7, <1>14, <2>1 DEF Placed
    <3> QED BY <1>0, <1>10, <1>12, <3>1
  <2>2. CASE x \notin Of(h, g)
    <3>1. g = f /\ x = c
      BY <1>0, <1>5, <1>6, <2>2
    <3>2. j = k \/ j \in 1..(k - 1)
      BY <1>0, <1>8, <3>1
    <3> QED BY <1>0, <1>10, <1>11, <3>1, <3>2
  <2> QED BY <1>0, <2>1, <2>2
<1>15. Placed(h2)
  BY <1>0, <1>3, <1>13, <1>14 DEF Placed
<1>16. clst # 0 => \A d \in Of(h, f) : h[d].part = k - 1 => d = clst
  BY <1>0 DEF Placed
<1>17. Longer(h, h2, f, c, k, clst)
  BY <1>0, <1>4, <1>5, <1>7, <1>8, <1>9, <1>10, <1>11, <1>15, <1>16 DEF Longer
<1> QED BY <1>0, <1>2, <1>3, <1>6, <1>7, <1>8, <1>17

\* The object x of the longer file, where the new cluster is its current one.
Goes(o, x, c) ==
    /\ x.clust = c /\ x.sclust = (IF o.sclust = 0 THEN c ELSE o.sclust)
    /\ x.objsize = o.objsize /\ x.fptr = o.fptr /\ x.objsize <= x.fptr /\ x.fptr <= x.objsize

\* The first cluster.
LEMMA LongerFirst ==
  ASSUME NEW v \in {"FAT", "exFAT"}, NEW h, NEW h2, NEW t, NEW t2, NEW f \in File, NEW c, NEW k,
         Longer(h, h2, f, c, k, 0), NEW o \in FileObject, NEW x \in FileObject, Lies(v, h, t, o, f), Goes(o, x, c),
         o.sclust = 0, x.n_frag = 0, IF v = "FAT" THEN x.stat = 0 /\ t2[c] = EOC ELSE x.stat = 2
  PROVE  Lies(v, h2, t2, x, f)
<1>1. /\ Of(h2, f) = {c} /\ k = 1 /\ h2[c].part = 1 /\ c # 0 /\ x.sclust = c /\ c \in Nat
      /\ \A j : HasPart(h, f, j) => HasPart(h2, f, j)
  BY ClusterIs DEF Longer, Goes
<1>2. /\ x.objsize = o.objsize /\ x.fptr <= x.objsize /\ Sized(h, f, o.objsize)
  BY DEF Goes, Lies
<1>3. Sized(h2, f, x.objsize)
  BY <1>1, <1>2 DEF Sized
<1>4. OnePiece(h2, x, f) /\ FirstPiece(h2, x, f) /\ LastPiece(h2, x, f)
  BY <1>1 DEF OnePiece, FirstPiece, LastPiece
<1>5. InTable(h2, t2, x, f)
  BY <1>1 DEF InTable
<1>6. Laid(v, h2, t2, x, f)
  BY <1>1, <1>4, <1>5 DEF Laid
<1>7. Ends(h2, t2, x, f)
  BY <1>1 DEF Ends
<1> QED BY <1>2, <1>3, <1>6, <1>7 DEF Lies

\* On a FAT volume.
LEMMA LongerOnFAT ==
  ASSUME NEW h, NEW h2, NEW t, NEW t2, NEW f \in File, NEW c, NEW k, NEW clst, clst # 0,
         Longer(h, h2, f, c, k, clst), NEW o \in FileObject, NEW x \in FileObject, Lies("FAT", h, t, o, f),
         Goes(o, x, c), o.sclust # 0, x.stat = o.stat, x.n_frag = o.n_frag,
         t2 = [d \in Cluster |-> IF d = c THEN EOC ELSE IF d = clst THEN c ELSE t[d]]
  PROVE  Lies("FAT", h2, t2, x, f)
<1>1. /\ k \in Nat \ {0} /\ c \in Cluster /\ c \notin Of(h, f)
      /\ Of(h2, f) = Of(h, f) \cup {c} /\ h2[c].part = k
      /\ \A d \in Of(h, f) : h2[d] = h[d] /\ d \in Cluster /\ h[d].part \in 1..(k - 1)
      /\ \A j : HasPart(h, f, j) => HasPart(h2, f, j)
      /\ HasPart(h2, f, k) /\ clst \in Of(h, f) /\ h[clst].part = k - 1
      /\ \A d \in Of(h, f) : h[d].part = k - 1 => d = clst
  BY DEF Longer
<1>2. /\ x.objsize = o.objsize /\ x.fptr <= x.objsize /\ x.sclust = o.sclust /\ x.stat = 0 /\ x.n_frag = 0
      /\ Sized(h, f, o.objsize) /\ InTable(h, t, o, f) /\ Ends(h, t, o, f)
      /\ o.sclust \in Of(h, f) /\ h[o.sclust].part = 1 /\ o.stat = 0 /\ o.n_frag = 0
  BY DEF Goes, Lies, Laid
<1>3. Sized(h2, f, x.objsize)
  BY <1>1, <1>2 DEF Sized
<1>4. OnePiece(h2, x, f) /\ FirstPiece(h2, x, f) /\ LastPiece(h2, x, f)
  BY <1>2 DEF OnePiece, FirstPiece, LastPiece
<1>5. \A d \in Cluster : t2[d] = IF d = c THEN EOC ELSE IF d = clst THEN c ELSE t[d]
  OBVIOUS
<1>6. InTable(h2, t2, x, f)
  <2> SUFFICES ASSUME NEW a \in Of(h2, f), NEW b \in Of(h2, f), h2[b].part = h2[a].part + 1 PROVE t2[a] = b
    BY DEF InTable
  <2>1. CASE b = c
    <3>1. a # c
      BY <1>1, <2>1
    <3>2. a \in Of(h, f) /\ h[a].part = k - 1
      BY <1>1, <2>1, <3>1
    <3>3. a = clst /\ a \in Cluster
      BY <1>1, <3>2
    <3> QED BY <1>5, <2>1, <3>1, <3>3
  <2>2. CASE b # c
    <3>1. b \in Of(h, f) /\ h[b].part \in 1..(k - 1) /\ h2[b] = h[b]
      BY <1>1, <2>2
    <3>2. a # c
      BY <1>1, <3>1
    <3>3. a \in Of(h, f) /\ h[b].part = h[a].part + 1 /\ a \in Cluster
      BY <1>1, <3>1, <3>2
    <3>4. a # clst
      BY <1>1, <3>1, <3>3
    <3>5. t[a] = b
      BY <1>2, <3>1, <3>3 DEF InTable
    <3> QED BY <1>5, <3>2, <3>3, <3>4, <3>5
  <2> QED BY <2>1, <2>2
<1>7. Ends(h2, t2, x, f)
  <2> SUFFICES ASSUME NEW a \in Of(h2, f) PROVE t2[a] = EOC \/ HasPart(h2, f, h2[a].part + 1)
    BY <1>2 DEF Ends
  <2>1. CASE a = c
    BY <1>1, <1>5, <2>1
  <2>2. CASE a = clst
    BY <1>1, <2>2
  <2>3. CASE a # c /\ a # clst
    <3>1. a \in Of(h, f) /\ a \in Cluster /\ h2[a] = h[a]
      BY <1>1, <2>3
    <3>2. t[a] = EOC \/ HasPart(h, f, h[a].part + 1)
      BY <1>2, <3>1 DEF Ends
    <3> QED BY <1>1, <1>5, <2>3, <3>1, <3>2
  <2> QED BY <2>1, <2>2, <2>3
<1>8. Laid("FAT", h2, t2, x, f)
  <2>1. x.sclust \in Of(h2, f) /\ h2[x.sclust].part = 1
    BY <1>1, <1>2
  <2> QED BY <1>2, <1>4, <1>6, <2>1 DEF Laid
<1> QED BY <1>2, <1>3, <1>7, <1>8 DEF Lies

\* exFAT: the only piece goes on.
LEMMA LongerPiece ==
  ASSUME NEW h, NEW h2, NEW t, NEW f \in File, NEW c, NEW k, NEW clst, clst # 0,
         Longer(h, h2, f, c, k, clst), NEW o \in FileObject, NEW x \in FileObject, Lies("exFAT", h, t, o, f),
         Goes(o, x, c), o.sclust # 0, o.stat = 2, x.stat = 2, x.n_frag = o.n_frag, c = clst + 1
  PROVE  Lies("exFAT", h2, t, x, f)
<1>1. /\ k \in Nat \ {0} /\ c \in Nat
      /\ Of(h2, f) = Of(h, f) \cup {c} /\ h2[c].part = k
      /\ \A d \in Of(h, f) : h2[d] = h[d] /\ d \in Nat /\ h[d].part \in 1..(k - 1)
      /\ \A j : HasPart(h, f, j) => HasPart(h2, f, j)
      /\ clst \in Of(h, f) /\ h[clst].part = k - 1
  BY DEF Longer
<1>2. /\ x.objsize = o.objsize /\ x.fptr <= x.objsize /\ x.sclust = o.sclust /\ x.n_frag = 0
      /\ Sized(h, f, o.objsize)
      /\ o.sclust \in Of(h, f) /\ h[o.sclust].part = 1
      /\ \A d \in Of(h, f) : d = o.sclust + h[d].part - 1
  BY DEF Goes, Lies, Laid, OnePiece
<1>3. Sized(h2, f, x.objsize)
  BY <1>1, <1>2 DEF Sized
<1>4. OnePiece(h2, x, f)
  <2> SUFFICES ASSUME NEW d \in Of(h2, f) PROVE d = x.sclust + h2[d].part - 1
    BY <1>2 DEF OnePiece
  <2>1. clst = o.sclust + (k - 1) - 1 /\ o.sclust \in Nat
    BY <1>1, <1>2
  <2>2. CASE d = c
    <3>1. h2[d].part = k /\ x.sclust = o.sclust /\ k \in Nat
      BY <1>1, <1>2, <2>2
    <3>2. d = o.sclust + k - 1
      BY <2>1, <2>2, <3>1
    <3> QED BY <3>1, <3>2
  <2>3. CASE d # c
    BY <1>1, <1>2, <2>3
  <2> QED BY <2>2, <2>3
<1>5. FirstPiece(h2, x, f) /\ LastPiece(h2, x, f) /\ InTable(h2, t, x, f) /\ Ends(h2, t, x, f)
  BY <1>2 DEF FirstPiece, LastPiece, InTable, Ends
<1>6. Laid("exFAT", h2, t, x, f)
  <2>1. x.sclust \in Of(h2, f) /\ h2[x.sclust].part = 1
    BY <1>1, <1>2
  <2> QED BY <1>2, <1>4, <1>5, <2>1 DEF Laid
<1> QED BY <1>2, <1>3, <1>5, <1>6 DEF Lies

\* Two clusters with one part and the next.
Pair(h, h2, f, c, k, clst, a, b) ==
    \/ b = c /\ a = clst /\ h2[a] = h[a] /\ h[a].part = k - 1 /\ a \in Of(h, f)
    \/ /\ b # c /\ a \in Of(h, f) /\ b \in Of(h, f) /\ h2[a] = h[a] /\ h2[b] = h[b]
       /\ h[b].part = h[a].part + 1 /\ h[b].part \in 1..(k - 1) /\ h[a].part \in 1..(k - 2)
       /\ a # clst /\ a \in Cluster /\ a \in Nat

LEMMA PairIs ==
  ASSUME NEW h, NEW h2, NEW f \in File, NEW c, NEW k, NEW clst, clst # 0, Longer(h, h2, f, c, k, clst),
         NEW a \in Of(h2, f), NEW b \in Of(h2, f), h2[b].part = h2[a].part + 1
  PROVE  Pair(h, h2, f, c, k, clst, a, b)
<1>1. /\ k \in Nat \ {0} /\ c \notin Of(h, f)
      /\ Of(h2, f) = Of(h, f) \cup {c} /\ h2[c].part = k
      /\ \A d \in Of(h, f) : h2[d] = h[d] /\ d \in Nat /\ d \in Cluster /\ h[d].part \in 1..(k - 1)
      /\ clst \in Of(h, f) /\ h[clst].part = k - 1
      /\ \A d \in Of(h, f) : h[d].part = k - 1 => d = clst
  BY DEF Longer
<1>2. \A d \in Of(h, f) : h[d].part \in Nat /\ h[d].part <= k - 1 /\ h[d].part >= 1
  BY <1>1
<1>3. a # c
  <2> SUFFICES ASSUME a = c PROVE FALSE
    OBVIOUS
  <2>1. h2[b].part = k + 1
    BY <1>1
  <2>2. b \in Of(h, f)
    BY <1>1, <2>1
  <2> QED BY <1>1, <1>2, <2>1, <2>2
<1>4. a \in Of(h, f) /\ h2[a] = h[a] /\ a \in Nat /\ a \in Cluster
  BY <1>1, <1>3
<1>5. CASE b = c
  <2>1. h[a].part = k - 1
    BY <1>1, <1>2, <1>4, <1>5
  <2> QED BY <1>1, <1>4, <1>5, <2>1 DEF Pair
<1>6. CASE b # c
  <2>1. b \in Of(h, f) /\ h2[b] = h[b] /\ h[b].part = h[a].part + 1
    BY <1>1, <1>4, <1>6
  <2>2. h[b].part \in 1..(k - 1) /\ h[a].part \in 1..(k - 2)
    BY <1>1, <1>2, <1>4, <2>1
  <2>3. a # clst
    BY <1>1, <2>2
  <2> QED BY <1>4, <1>6, <2>1, <2>2, <2>3 DEF Pair
<1> QED BY <1>5, <1>6

\* exFAT: the only piece breaks up.
LEMMA LongerBroken ==
  ASSUME NEW h, NEW h2, NEW t \in [Cluster -> Link], NEW t2, NEW f \in File, NEW c, NEW k, NEW clst, clst # 0,
         Longer(h, h2, f, c, k, clst), NEW o \in FileObject, NEW x \in FileObject, Lies("exFAT", h, t, o, f),
         Goes(o, x, c), o.sclust # 0, o.stat = 2, x.stat = 3, x.n_cont = clst - o.sclust, x.n_frag = 1,
         t2[clst] = c
  PROVE  Lies("exFAT", h2, t2, x, f)
<1>1. /\ k \in Nat \ {0} /\ c \in Nat /\ c \notin Of(h, f) /\ HasPart(h2, f, k)
      /\ Of(h2, f) = Of(h, f) \cup {c} /\ h2[c].part = k
      /\ \A d \in Of(h, f) : h2[d] = h[d] /\ d \in Nat /\ h[d].part \in 1..(k - 1)
      /\ \A j : HasPart(h, f, j) => HasPart(h2, f, j)
      /\ clst \in Of(h, f) /\ h[clst].part = k - 1
      /\ \A d \in Of(h, f) : h[d].part = k - 1 => d = clst
  BY DEF Longer
<1>2. /\ x.objsize = o.objsize /\ x.fptr <= x.objsize /\ x.objsize <= x.fptr /\ x.sclust = o.sclust /\ x.clust = c
      /\ Sized(h, f, o.objsize)
      /\ o.sclust \in Of(h, f) /\ h[o.sclust].part = 1
      /\ \A d \in Of(h, f) : d = o.sclust + h[d].part - 1
  BY DEF Goes, Lies, Laid, OnePiece
<1>3. x.n_cont = k - 2 /\ clst = o.sclust + k - 2 /\ k - 1 \in Nat \ {0} /\ o.sclust \in Nat
  <2>1. clst = o.sclust + (k - 1) - 1 /\ o.sclust \in Nat /\ clst \in Nat /\ h[clst].part \in 1..(k - 1)
    BY <1>1, <1>2
  <2> QED BY <1>1, <2>1
<1>4. Sized(h2, f, x.objsize)
  BY <1>1, <1>2 DEF Sized
<1>5. \A d \in Of(h2, f) : (d = c /\ h2[d].part = k) \/ (d \in Of(h, f) /\ h2[d] = h[d] /\ h2[d].part \in 1..(k - 1))
  BY <1>1
<1>6. FirstPiece(h2, x, f)
  <2> SUFFICES ASSUME NEW d \in Of(h2, f), h2[d].part <= x.n_cont + 1 PROVE d = x.sclust + h2[d].part - 1
    BY DEF FirstPiece
  <2>1. h2[d].part # k
    BY <1>1, <1>3
  <2> QED BY <1>2, <1>5, <2>1
<1>7. LastPiece(h2, x, f)
  <2>1. x.clust \in Of(h2, f) /\ x.n_frag <= h2[x.clust].part /\ x.n_cont + 1 <= h2[x.clust].part - x.n_frag
    BY <1>1, <1>2, <1>3
  <2>2. ASSUME NEW d \in Of(h2, f)
        PROVE  /\ h2[d].part <= h2[x.clust].part
               /\ h2[d].part > h2[x.clust].part - x.n_frag => d = x.clust - (h2[x.clust].part - h2[d].part)
    BY <1>1, <1>2, <1>5
  <2> QED BY <1>2, <2>1, <2>2 DEF LastPiece
<1>8. InTable(h2, t2, x, f)
  <2> SUFFICES ASSUME NEW a \in Of(h2, f), NEW b \in Of(h2, f), h2[b].part = h2[a].part + 1
               PROVE  h2[a].part <= x.n_cont \/ t2[a] = b
    BY DEF InTable
  <2>1. Pair(h, h2, f, c, k, clst, a, b)
    BY PairIs
  <2>2. (b = c /\ a = clst) \/ (h2[a] = h[a] /\ h[a].part \in 1..(k - 2))
    BY <2>1 DEF Pair
  <2> QED BY <1>1, <1>3, <2>2
<1>9. Ends(h2, t2, x, f)
  <2>1. x.n_cont + 2 = k
    BY <1>1, <1>3
  <2> QED BY <1>1, <2>1 DEF Ends
<1>10. Laid("exFAT", h2, t2, x, f)
  <2>1. x.sclust \in Of(h2, f) /\ h2[x.sclust].part = 1
    BY <1>1, <1>2
  <2> QED BY <1>2, <1>6, <1>7, <1>8, <2>1 DEF Laid, OnePiece
<1> QED BY <1>2, <1>4, <1>9, <1>10 DEF Lies

\* exFAT: the last piece goes on.
LEMMA LongerLast ==
  ASSUME NEW h, NEW h2, NEW t, NEW f \in File, NEW c, NEW k, NEW clst, clst # 0,
         Longer(h, h2, f, c, k, clst), NEW o \in FileObject, NEW x \in FileObject, Lies("exFAT", h, t, o, f),
         Goes(o, x, c), o.sclust # 0, o.stat # 2, x.stat = o.stat, x.n_cont = o.n_cont,
         o.n_frag # 0 => o.clust = clst,
         x.n_frag = (IF o.n_frag = 0 THEN 2 ELSE o.n_frag + 1), c = clst + 1
  PROVE  Lies("exFAT", h2, t, x, f)
<1>1. /\ k \in Nat \ {0} /\ c \in Nat /\ c \notin Of(h, f)
      /\ Of(h2, f) = Of(h, f) \cup {c} /\ h2[c].part = k
      /\ \A d \in Of(h, f) : h2[d] = h[d] /\ d \in Nat /\ h[d].part \in 1..(k - 1)
      /\ \A j : HasPart(h, f, j) => HasPart(h2, f, j)
      /\ clst \in Of(h, f) /\ clst \in Nat /\ h[clst].part = k - 1 /\ k - 1 \in Nat \ {0}
      /\ \A d \in Of(h, f) : h[d].part = k - 1 => d = clst
  BY DEF Longer
<1>2. /\ x.objsize = o.objsize /\ x.fptr <= x.objsize /\ x.objsize <= x.fptr /\ x.sclust = o.sclust /\ x.clust = c
      /\ Sized(h, f, o.objsize) /\ Ends(h, t, o, f) /\ InTable(h, t, o, f) /\ FirstPiece(h, o, f)
      /\ LastPiece(h, o, f)
      /\ o.sclust \in Of(h, f) /\ h[o.sclust].part = 1
      /\ o.n_frag \in Nat /\ o.n_cont \in Nat /\ x.n_frag \in Nat \ {0, 1}
  BY DEF Goes, Lies, Laid, FileObject
<1>3. o.n_frag # 0 => /\ o.n_frag <= k - 1
                      /\ \A d \in Of(h, f) : h[d].part > (k - 1) - o.n_frag => d = clst - ((k - 1) - h[d].part)
                      /\ o.stat = 3 => o.n_cont + 1 <= (k - 1) - o.n_frag
  BY <1>1, <1>2 DEF LastPiece
<1>4. o.stat = 3 => o.n_cont + 2 <= k - 1
  <2> SUFFICES ASSUME o.stat = 3 PROVE o.n_cont + 2 <= k - 1
    OBVIOUS
  <2>1. PICK z \in Of(h, f) : h[z].part = o.n_cont + 2
    BY <1>2 DEF Ends, HasPart
  <2>2. h[z].part \in 1..(k - 1)
    BY <1>1
  <2> QED BY <1>1, <1>2, <2>1, <2>2
<1>5. Sized(h2, f, x.objsize)
  BY <1>1, <1>2 DEF Sized
<1>6. \A d \in Of(h2, f) : (d = c /\ h2[d].part = k) \/ (d \in Of(h, f) /\ h2[d] = h[d] /\ h2[d].part \in 1..(k - 1))
  BY <1>1
<1>7. FirstPiece(h2, x, f)
  <2> SUFFICES ASSUME x.stat = 3, NEW d \in Of(h2, f), h2[d].part <= x.n_cont + 1 PROVE d = x.sclust + h2[d].part - 1
    BY DEF FirstPiece
  <2>1. h2[d].part # k
    BY <1>1, <1>2, <1>4
  <2> QED BY <1>2, <1>6, <2>1 DEF FirstPiece
<1>8. LastPiece(h2, x, f)
  <2>1. x.n_frag <= k /\ (x.stat = 3 => x.n_cont + 1 <= k - x.n_frag)
    BY <1>1, <1>2, <1>3, <1>4
  <2>2. ASSUME NEW d \in Of(h2, f), h2[d].part > k - x.n_frag
        PROVE  d = c - (k - h2[d].part)
    <3>1. CASE d = c
      BY <1>1, <3>1
    <3>2. CASE d # c
      <4>1. d \in Of(h, f) /\ h2[d].part = h[d].part /\ h[d].part \in 1..(k - 1) /\ d \in Nat
        BY <1>1, <1>6, <3>2
      <4>2. CASE o.n_frag = 0
        <5>1. h[d].part = k - 1
          BY <1>1, <2>2, <4>1, <4>2
        <5> QED BY <1>1, <4>1, <5>1
      <4>3. CASE o.n_frag # 0
        <5>1. h[d].part > (k - 1) - o.n_frag
          BY <1>1, <1>2, <2>2, <4>1, <4>3
        <5>2. d = clst - ((k - 1) - h[d].part)
          BY <1>3, <4>1, <4>3, <5>1
        <5> QED BY <1>1, <4>1, <5>2
      <4> QED BY <4>2, <4>3
    <3> QED BY <3>1, <3>2
  <2>3. \A d \in Of(h2, f) : h2[d].part <= k
    BY <1>1, <1>6
  <2> QED BY <1>1, <1>2, <2>1, <2>2, <2>3 DEF LastPiece
<1>9. InTable(h2, t, x, f)
  <2> SUFFICES ASSUME NEW a \in Of(h2, f), NEW b \in Of(h2, f), h2[b].part = h2[a].part + 1
               PROVE  (x.stat = 3 /\ h2[a].part <= x.n_cont) \/ h2[a].part > k - x.n_frag \/ t[a] = b
    BY <1>1, <1>2 DEF InTable
  <2>p. Pair(h, h2, f, c, k, clst, a, b)
    BY PairIs
  <2>1. CASE b = c
    <3>1. h2[a].part = k - 1
      BY <2>p, <2>1 DEF Pair
    <3> QED BY <1>1, <1>2, <3>1
  <2>2. CASE b # c
    <3>1. b \in Of(h, f)
      BY <2>p, <2>2 DEF Pair
    <3>2. a \in Of(h, f) /\ h2[a] = h[a] /\ h[b].part = h[a].part + 1 /\ h[a].part \in Nat
      BY <2>p, <2>2 DEF Pair
    <3>3. (o.stat = 3 /\ h[a].part <= o.n_cont) \/ (o.n_frag # 0 /\ h[a].part > h[o.clust].part - o.n_frag) \/ t[a] = b
      BY <1>2, <3>1, <3>2 DEF InTable
    <3>4. CASE o.n_frag # 0 /\ h[a].part > h[o.clust].part - o.n_frag
      <4>1. h[a].part > (k - 1) - o.n_frag
        BY <1>1, <3>4
      <4> QED BY <1>1, <1>2, <3>2, <3>4, <4>1
    <3> QED BY <3>2, <3>3, <3>4
  <2> QED BY <2>1, <2>2
<1>10. Ends(h2, t, x, f)
  BY <1>1, <1>2 DEF Ends
<1>11. Laid("exFAT", h2, t, x, f)
  <2>1. x.sclust \in Of(h2, f) /\ h2[x.sclust].part = 1
    BY <1>1, <1>2
  <2>2. OnePiece(h2, x, f)
    BY DEF OnePiece
  <2> QED BY <1>2, <1>7, <1>8, <1>9, <2>1, <2>2 DEF Laid
<1> QED BY <1>2, <1>5, <1>10, <1>11 DEF Lies

\* exFAT: a new piece begins, and the last one, of m clusters, goes to the table.
NewPiece(h, h2, t, t2, f, c, k, clst, o, x, m) ==
    /\ t \in [Cluster -> Link] /\ clst # 0 /\ Longer(h, h2, f, c, k, clst)
    /\ o \in FileObject /\ x \in FileObject /\ Lies("exFAT", h, t, o, f) /\ Goes(o, x, c)
    /\ o.sclust # 0 /\ o.stat # 2 /\ x.stat = o.stat /\ x.n_cont = o.n_cont
    /\ o.n_frag # 0 => o.clust = clst
    /\ x.n_frag = 1
    /\ o.n_frag = 0 => m = 1
    /\ o.n_frag # 0 => m = o.n_frag
    /\ t2 = FillLast(t, m, clst, c)

LEMMA LongerNew ==
  ASSUME NEW h, NEW h2, NEW t, NEW t2, NEW f \in File, NEW c, NEW k, NEW clst, NEW o, NEW x, NEW m,
         NewPiece(h, h2, t, t2, f, c, k, clst, o, x, m)
  PROVE  /\ Lies("exFAT", h2, t2, x, f)
         /\ t2 \in [Cluster -> Link] /\ \A d \in Cluster \ Of(h, f) : t2[d] = t[d]
<1>0. /\ t \in [Cluster -> Link] /\ clst # 0 /\ Longer(h, h2, f, c, k, clst)
      /\ o \in FileObject /\ x \in FileObject /\ Lies("exFAT", h, t, o, f) /\ Goes(o, x, c)
      /\ o.sclust # 0 /\ o.stat # 2 /\ x.stat = o.stat /\ x.n_cont = o.n_cont
      /\ o.n_frag # 0 => o.clust = clst
      /\ x.n_frag = 1
      /\ o.n_frag = 0 => m = 1
      /\ o.n_frag # 0 => m = o.n_frag
      /\ t2 = FillLast(t, m, clst, c)
  BY DEF NewPiece
<1>1. /\ k \in Nat \ {0} /\ c \in Nat /\ c \in Cluster /\ c \notin Of(h, f) /\ Placed(h)
      /\ Of(h2, f) = Of(h, f) \cup {c} /\ h2[c].part = k
      /\ \A d \in Of(h, f) : h2[d] = h[d] /\ d \in Nat /\ d \in Cluster /\ h[d].part \in 1..(k - 1)
      /\ \A j : HasPart(h, f, j) => HasPart(h2, f, j)
      /\ clst \in Of(h, f) /\ clst \in Nat /\ h[clst].part = k - 1 /\ k - 1 \in Nat \ {0}
      /\ \A d \in Of(h, f) : h[d].part = k - 1 => d = clst
  BY <1>0 DEF Longer
<1>2. /\ x.objsize = o.objsize /\ x.fptr <= x.objsize /\ x.objsize <= x.fptr /\ x.sclust = o.sclust /\ x.clust = c
      /\ Sized(h, f, o.objsize) /\ Ends(h, t, o, f) /\ InTable(h, t, o, f) /\ FirstPiece(h, o, f)
      /\ LastPiece(h, o, f)
      /\ o.sclust \in Of(h, f) /\ h[o.sclust].part = 1
      /\ o.n_frag \in Nat /\ o.n_cont \in Nat /\ m \in Nat \ {0}
  BY <1>0 DEF Goes, Lies, Laid, FileObject
<1>3. o.n_frag # 0 => /\ o.n_frag <= k - 1 /\ m = o.n_frag
                      /\ \A d \in Of(h, f) : h[d].part > (k - 1) - m => d = clst - ((k - 1) - h[d].part)
                      /\ \A d \in clst - m + 1 .. clst : d \in Of(h, f) /\ h[d].part = (k - 1) - (clst - d)
  <2> SUFFICES ASSUME o.n_frag # 0
               PROVE  /\ o.n_frag <= k - 1 /\ m = o.n_frag
                      /\ \A d \in Of(h, f) : h[d].part > (k - 1) - m => d = clst - ((k - 1) - h[d].part)
                      /\ \A d \in clst - m + 1 .. clst : d \in Of(h, f) /\ h[d].part = (k - 1) - (clst - d)
    OBVIOUS
  <2>1. /\ o.n_frag <= k - 1 /\ m = o.n_frag
        /\ \A d \in Of(h, f) : h[d].part > (k - 1) - m => d = clst - ((k - 1) - h[d].part)
    BY <1>0, <1>1, <1>2 DEF LastPiece
  <2>2. \A d \in o.clust - o.n_frag + 1 .. o.clust : d \in Of(h, f) /\ h[d].part = h[o.clust].part - (o.clust - d)
    BY <1>0, <1>1, <1>2, LastIs
  <2> QED BY <1>0, <1>1, <2>1, <2>2
<1>4. o.stat = 3 => o.n_cont + 2 <= k - 1
  <2> SUFFICES ASSUME o.stat = 3 PROVE o.n_cont + 2 <= k - 1
    OBVIOUS
  <2>1. PICK z \in Of(h, f) : h[z].part = o.n_cont + 2
    BY <1>0, <1>2 DEF Ends, HasPart
  <2>2. h[z].part \in 1..(k - 1)
    BY <1>0, <1>1
  <2> QED BY <1>0, <1>1, <1>2, <2>1, <2>2
<1>5. /\ \A d \in clst - m + 1 .. clst : d \in Of(h, f) /\ h[d].part = (k - 1) - (clst - d)
      /\ \A d \in Of(h, f) : h[d].part > (k - 1) - m => d = clst - ((k - 1) - h[d].part)
  <2>1. CASE o.n_frag = 0
    <3>1. m = 1 /\ clst - m + 1 .. clst = {clst}
      BY <1>0, <1>1, <2>1
    <3>2. \A d \in Of(h, f) : h[d].part > (k - 1) - 1 => h[d].part = k - 1
      BY <1>0, <1>1
    <3> QED BY <1>0, <1>1, <3>1, <3>2
  <2>2. CASE o.n_frag # 0
    BY <1>0, <1>3, <2>2
  <2> QED BY <1>0, <2>1, <2>2
<1>6. \A d \in Cluster : t2[d] = IF d \in clst - m + 1 .. clst THEN (IF d = clst THEN c ELSE d + 1) ELSE t[d]
  BY <1>0 DEF FillLast
<1>7. \A d \in Cluster \ Of(h, f) : t2[d] = t[d]
  BY <1>0, <1>5, <1>6
<1>8. t2 \in [Cluster -> Link]
  <2>1. ASSUME NEW d \in Cluster PROVE t2[d] \in Link
    <3>1. CASE d \in clst - m + 1 .. clst /\ d # clst
      <4>1. d + 1 \in clst - m + 1 .. clst
        BY <1>0, <1>1, <1>2, <3>1, ClusterIs
      <4>2. d + 1 \in Cluster
        BY <1>0, <1>1, <1>5, <4>1
      <4> QED BY <1>0, <1>6, <3>1, <4>2 DEF Link
    <3>2. CASE ~(d \in clst - m + 1 .. clst /\ d # clst)
      BY <1>0, <1>1, <1>6, <3>2 DEF Link
    <3> QED BY <1>0, <3>1, <3>2
  <2> QED BY <1>0, <2>1 DEF FillLast
<1>9. Sized(h2, f, x.objsize)
  BY <1>0, <1>1, <1>2 DEF Sized
<1>10. \A d \in Of(h2, f) : (d = c /\ h2[d].part = k) \/ (d \in Of(h, f) /\ h2[d] = h[d] /\ h2[d].part \in 1..(k - 1))
  BY <1>0, <1>1
<1>11. FirstPiece(h2, x, f)
  <2> SUFFICES ASSUME x.stat = 3, NEW d \in Of(h2, f), h2[d].part <= x.n_cont + 1 PROVE d = x.sclust + h2[d].part - 1
    BY <1>0 DEF FirstPiece
  <2>1. h2[d].part # k
    BY <1>0, <1>1, <1>2, <1>4
  <2> QED BY <1>0, <1>2, <1>10, <2>1 DEF FirstPiece
<1>12. LastPiece(h2, x, f)
  <2>1. 1 <= k /\ (x.stat = 3 => x.n_cont + 1 <= k - 1)
    BY <1>0, <1>1, <1>2, <1>4
  <2>2. ASSUME NEW d \in Of(h2, f)
        PROVE  h2[d].part <= k /\ (h2[d].part > k - 1 => d = c - (k - h2[d].part))
    <3>1. CASE d = c /\ h2[d].part = k
      BY <1>0, <1>1, <3>1
    <3>2. CASE h2[d].part \in 1..(k - 1)
      BY <1>0, <1>1, <3>2
    <3> QED BY <1>0, <1>10, <3>1, <3>2
  <2> QED BY <1>0, <1>1, <1>2, <2>1, <2>2 DEF LastPiece
<1>13. InTable(h2, t2, x, f)
  <2> SUFFICES ASSUME NEW a \in Of(h2, f), NEW b \in Of(h2, f), h2[b].part = h2[a].part + 1
               PROVE  (x.stat = 3 /\ h2[a].part <= x.n_cont) \/ t2[a] = b
    BY <1>0 DEF InTable
  <2>p. Pair(h, h2, f, c, k, clst, a, b)
    BY <1>0, PairIs
  <2>1. CASE b = c
    <3>1. a = clst
      BY <1>0, <2>p, <2>1 DEF Pair
    <3>2. clst \in clst - m + 1 .. clst /\ clst \in Cluster
      BY <1>0, <1>1, <1>2
    <3> QED BY <1>0, <1>6, <2>1, <3>1, <3>2
  <2>2. CASE b # c
    <3>1. b \in Of(h, f) /\ h[b].part \in Nat
      BY <1>0, <2>p, <2>2 DEF Pair
    <3>2. /\ a \in Of(h, f) /\ h2[a] = h[a] /\ h[b].part = h[a].part + 1 /\ h[a].part \in Nat /\ h[a].part <= k - 2
          /\ a \in Cluster /\ a \in Nat
      BY <1>0, <2>p, <2>2 DEF Pair
    <3>3. a # clst
      BY <1>0, <2>p, <2>2 DEF Pair
    <3>4. CASE h[a].part > (k - 1) - m
      <4>1. a = clst - ((k - 1) - h[a].part) /\ b = clst - ((k - 1) - h[b].part)
        BY <1>0, <1>1, <1>2, <1>5, <3>1, <3>2, <3>4
      <4>2. b = a + 1 /\ a \in clst - m + 1 .. clst
        BY <1>0, <1>1, <1>2, <3>1, <3>2, <3>4, <4>1
      <4> QED BY <1>0, <1>6, <3>2, <3>3, <4>2
    <3>5. CASE ~(h[a].part > (k - 1) - m)
      <4>1. a \notin clst - m + 1 .. clst
        <5> SUFFICES ASSUME a \in clst - m + 1 .. clst PROVE FALSE
          OBVIOUS
        <5>1. h[a].part = (k - 1) - (clst - a)
          BY <1>0, <1>5
        <5> QED BY <1>0, <1>1, <1>2, <3>2, <3>5, <5>1
      <4>2. t2[a] = t[a]
        BY <1>0, <1>6, <3>2, <4>1
      <4>3. (o.stat = 3 /\ h[a].part <= o.n_cont) \/ (o.n_frag # 0 /\ h[a].part > h[o.clust].part - o.n_frag) \/ t[a] = b
        BY <1>0, <1>2, <3>1, <3>2 DEF InTable
      <4>4. ~(o.n_frag # 0 /\ h[a].part > h[o.clust].part - o.n_frag)
        BY <1>0, <1>1, <1>3, <3>5
      <4> QED BY <1>0, <3>2, <4>2, <4>3, <4>4
    <3> QED BY <1>0, <3>4, <3>5
  <2> QED BY <1>0, <2>1, <2>2
<1>14. Ends(h2, t2, x, f)
  BY <1>0, <1>1, <1>2 DEF Ends
<1>15. Laid("exFAT", h2, t2, x, f)
  <2>1. x.sclust \in Of(h2, f) /\ h2[x.sclust].part = 1
    BY <1>0, <1>1, <1>2
  <2>2. OnePiece(h2, x, f)
    BY <1>0 DEF OnePiece
  <2> QED BY <1>0, <1>2, <1>11, <1>12, <1>13, <2>1, <2>2 DEF Laid
<1>16. Lies("exFAT", h2, t2, x, f)
  BY <1>0, <1>2, <1>9, <1>14, <1>15 DEF Lies
<1> QED BY <1>0, <1>7, <1>8, <1>16

\* The object create_chain leaves on exFAT.
LEMMA GrownIs ==
  ASSUME NEW o \in FileObject, NEW clst \in Cluster \cup {0}, NEW c \in Cluster,
         clst # 0 /\ o.stat = 2 => clst - o.sclust \in Nat
  PROVE  LET g == Grown(o, clst, c) IN
         /\ g \in FileObject /\ g.open = o.open /\ g.write = o.write /\ g.modified = o.modified /\ g.err = o.err
         /\ g.sclust = o.sclust /\ g.objsize = o.objsize /\ g.fptr = o.fptr /\ g.clust = o.clust
         /\ clst = 0 => g.stat = 2 /\ g.n_frag = o.n_frag
         /\ clst # 0 /\ o.stat = 2 /\ c = clst + 1 => g.stat = 2 /\ g.n_frag = o.n_frag
         /\ clst # 0 /\ o.stat = 2 /\ c # clst + 1 => g.stat = 3 /\ g.n_cont = clst - o.sclust /\ g.n_frag = 1
         /\ clst # 0 /\ o.stat # 2 => g.stat = o.stat /\ g.n_cont = o.n_cont
         /\ clst # 0 /\ o.stat # 2 /\ c = clst + 1 => g.n_frag = (IF o.n_frag = 0 THEN 2 ELSE o.n_frag + 1)
         /\ clst # 0 /\ o.stat # 2 /\ c # clst + 1 => g.n_frag = 1
<1> DEFINE g == Grown(o, clst, c)
<1>1. CASE clst = 0
  <2>1. g = [o EXCEPT !.stat = 2]
    BY <1>1 DEF Grown, Broken, FileObject
  <2> QED BY <1>1, <2>1 DEF FileObject
<1>2. CASE clst # 0 /\ o.stat = 2 /\ c = clst + 1
  <2>1. g = o
    BY <1>2 DEF Grown, Broken, FileObject
  <2> QED BY <1>2, <2>1
<1>3. CASE clst # 0 /\ o.stat = 2 /\ c # clst + 1
  <2> DEFINE b == [o EXCEPT !.stat = 3, !.n_cont = clst - o.sclust]
  <2>1. Broken(o, clst, c) = b /\ b.stat = 3
    BY <1>3 DEF Broken, FileObject
  <2>2. /\ b \in FileObject /\ b.open = o.open /\ b.write = o.write /\ b.modified = o.modified /\ b.err = o.err
        /\ b.sclust = o.sclust /\ b.objsize = o.objsize /\ b.fptr = o.fptr /\ b.clust = o.clust
        /\ b.n_cont = clst - o.sclust
    BY <1>3 DEF FileObject
  <2> HIDE DEF b
  <2>3. g = [b EXCEPT !.n_frag = 1]
    BY <1>3, <2>1 DEF Grown
  <2> QED BY <1>3, <2>1, <2>2, <2>3 DEF FileObject
<1>4. CASE clst # 0 /\ o.stat # 2 /\ c = clst + 1
  <2>1. g = [o EXCEPT !.n_frag = IF o.n_frag = 0 THEN 2 ELSE o.n_frag + 1]
    BY <1>4 DEF Grown, Broken
  <2> QED BY <1>4, <2>1 DEF FileObject
<1>5. CASE clst # 0 /\ o.stat # 2 /\ c # clst + 1
  <2>1. g = [o EXCEPT !.n_frag = 1]
    BY <1>5 DEF Grown, Broken
  <2> QED BY <1>5, <2>1 DEF FileObject
<1> QED BY <1>1, <1>2, <1>3, <1>4, <1>5

\* What it leaves in the table there.
LEMMA LinkedIs ==
  ASSUME type = "exFAT", NEW o \in FileObject, NEW clst \in Cluster \cup {0}, NEW c \in Cluster
  PROVE  /\ clst = 0 \/ c = clst + 1 => Linked(o, clst, c) = fat
         /\ clst # 0 /\ c # clst + 1 =>
              Linked(o, clst, c) = FillLast(fat, IF o.n_frag = 0 THEN 1 ELSE o.n_frag, clst, c)
<1>1. clst = 0 => Broken(o, clst, c).stat = 2
  BY DEF Broken, FileObject
<1>2. clst # 0 /\ c # clst + 1 => Broken(o, clst, c).stat # 2
  <2>1. CASE o.stat = 2
    BY <2>1 DEF Broken, FileObject
  <2>2. CASE o.stat # 2
    BY <2>2 DEF Broken
  <2> QED BY <2>1, <2>2
<1> QED BY <1>1, <1>2 DEF Linked

\* The chain ends where the position is, and so does the size.
LEMMA EndIs ==
  ASSUME FilesInv, op.at = "chain", IsAtEnd(obj[op.file])
  PROVE  LET f == op.file
             o == obj[f]
             k == Parts(o.fptr) + 1 IN
         /\ k \in Nat \ {0} /\ ~HasPart(holds, f, k) /\ AtMost(holds, f, k - 1)
         /\ o.objsize = o.fptr /\ k - 1 = Parts(o.fptr) /\ o.fptr \div ClusterSize + 1 = k
         /\ \A j \in 1..(k - 1) : HasPart(holds, f, j)
         /\ ChainArg(o) = 0 => k = 1
<1> DEFINE f == op.file
           o == obj[f]
           clst == ChainArg(o)
           k == Parts(o.fptr) + 1
<1>1. /\ f \in File /\ o \in FileObject /\ Chained(type, holds, fat, o, f) /\ OnBoundary(o)
      /\ type \in {"FAT", "exFAT"} /\ Placed(holds)
      /\ clst = 0 => Of(holds, f) = {} /\ o.objsize = 0 /\ o.fptr = 0
      /\ clst # 0 => clst = o.clust /\ clst \in Of(holds, f) /\ holds[clst].part = Parts(o.fptr)
  BY AskingIs
<1>2. clst = 0 \/ GetFat(o, clst) = EOC
  BY DEF IsAtEnd
<1> HIDE DEF f, o, clst
<1>3. Parts(o.fptr) \in Nat /\ k \in Nat \ {0} /\ k - 1 = Parts(o.fptr) /\ o.fptr \in Nat /\ o.objsize \in Nat
  <2>1. o.fptr \in Nat /\ o.objsize \in Nat
    BY <1>1 DEF FileObject
  <2>2. Parts(o.fptr) \in Nat
    BY <2>1, PartsType
  <2> QED BY <2>1, <2>2
<1>4. ~HasPart(holds, f, k)
  <2>1. CASE clst = 0
    BY <1>1, <2>1 DEF HasPart
  <2>2. CASE clst # 0 /\ o.n_frag = 0
    <3>1. GetFat(o, clst) = EOC /\ holds[clst].part + 1 = k
      BY <1>1, <1>2, <2>2
    <3> QED BY <1>1, <2>2, <3>1, NextOf
  <2>3. CASE clst # 0 /\ o.n_frag # 0
    BY <1>1, <2>3, LastNext
  <2> QED BY <2>1, <2>2, <2>3
<1>5. AtMost(holds, f, k - 1)
  BY <1>1, <1>3, <1>4, NoneBehind
<1>6. Sized(holds, f, o.objsize) /\ o.fptr <= o.objsize
  BY <1>1 DEF Chained, Lies
<1>7. o.objsize <= o.fptr
  <2>1. Parts(o.objsize) \in Nat
    BY <1>3, PartsType
  <2>2. ~(k <= Parts(o.objsize))
    <3> SUFFICES ASSUME k <= Parts(o.objsize) PROVE FALSE
      OBVIOUS
    <3> HIDE DEF k
    <3>1. k \in 1..Parts(o.objsize)
      BY <1>3, <2>1
    <3> QED BY <1>4, <1>6, <3>1 DEF Sized
  <2>3. Parts(o.objsize) <= Parts(o.fptr)
    BY <1>3, <2>1, <2>2
  <2> QED BY <1>1, <1>3, <2>3, PartsCompare DEF OnBoundary
<1>8. o.objsize = o.fptr
  BY <1>3, <1>6, <1>7
<1>9. o.fptr \div ClusterSize + 1 = k
  BY <1>1, <1>3, AtBoundary DEF OnBoundary
<1>10. \A j \in 1..(k - 1) : HasPart(holds, f, j)
  <2> HIDE DEF k
  <2> SUFFICES ASSUME NEW j \in 1..(k - 1) PROVE HasPart(holds, f, j)
    OBVIOUS
  <2>1. j \in 1..Parts(o.objsize)
    BY <1>3, <1>8
  <2> QED BY <1>6, <2>1 DEF Sized
<1>11. clst = 0 => k = 1
  BY <1>1, PartsOfNone
<1> QED BY <1>3, <1>4, <1>5, <1>8, <1>9, <1>10, <1>11 DEF f, o, clst

\* The longer chain.
LEMMA ChainLonger ==
  ASSUME FilesInv, op.at = "chain", IsAtEnd(obj[op.file]), NEW c \in Cluster, NEW h2,
         Longer(holds, h2, op.file, c, Parts(obj[op.file].fptr) + 1, ChainArg(obj[op.file])),
         c \notin InUse
  PROVE  LET f == op.file
             o == obj[f]
             clst == ChainArg(o)
             g == IF type = "FAT" THEN o ELSE Grown(o, clst, c)
             x == At(g, c)
             t2 == Linked(o, clst, c) IN
         /\ g \in FileObject /\ x \in FileObject /\ Lies(type, h2, t2, x, f)
         /\ x.clust = c /\ x.sclust = (IF o.sclust = 0 THEN c ELSE o.sclust) /\ x.objsize = o.objsize /\ x.fptr = o.fptr
         /\ x.open = o.open /\ x.write = o.write /\ x.modified = o.modified /\ x.err = o.err /\ g.write = o.write
         /\ t2 \in [Cluster -> Link] /\ \A d \in Cluster \ Of(h2, f) : t2[d] = fat[d]
<1> DEFINE f == op.file
           o == obj[f]
           clst == ChainArg(o)
           g == IF type = "FAT" THEN o ELSE Grown(o, clst, c)
           x == At(g, c)
           t2 == Linked(o, clst, c)
           k == Parts(o.fptr) + 1
<1>1. /\ f \in File /\ o \in FileObject /\ Chained(type, holds, fat, o, f)
      /\ type \in {"FAT", "exFAT"} /\ Placed(holds) /\ TypeOK /\ clst \in Cluster \cup {0}
      /\ clst = 0 => o.sclust = 0 /\ Of(holds, f) = {} /\ o.objsize = 0 /\ o.fptr = 0 /\ o.stat = 0 /\ o.n_frag = 0
      /\ clst # 0 => /\ o.sclust # 0 /\ o.fptr > 0 /\ clst = o.clust /\ clst \in Of(holds, f)
                     /\ holds[clst].part = Parts(o.fptr)
  BY AskingIs
<1>2. o.objsize = o.fptr /\ o.fptr \in Nat
  BY <1>1, EndIs DEF FileObject
<1>3. Lies(type, holds, fat, o, f) /\ fat \in [Cluster -> Link]
  BY <1>1, TypeIs DEF Chained
<1>4. Longer(holds, h2, f, c, k, clst) /\ c \in Cluster
  OBVIOUS
<1>5. clst # 0 /\ o.stat = 2 => clst - o.sclust \in Nat
  <2> SUFFICES ASSUME clst # 0, o.stat = 2 PROVE clst - o.sclust \in Nat
    OBVIOUS
  <2> HIDE DEF f, o, clst, k
  <2>1. clst = o.sclust + holds[clst].part - 1 /\ o.sclust \in Of(holds, f)
    BY <1>1, <1>3 DEF Lies, Laid, OnePiece
  <2>2. o.sclust \in Nat /\ holds[clst].part \in Nat \ {0}
    BY <1>1, <2>1, HoldsIs, ClusterIs
  <2> QED BY <2>1, <2>2
<1> HIDE DEF f, o, clst, k
<1>6. /\ g \in FileObject /\ g.open = o.open /\ g.write = o.write /\ g.modified = o.modified /\ g.err = o.err
      /\ g.sclust = o.sclust /\ g.objsize = o.objsize /\ g.fptr = o.fptr
  BY <1>1, <1>5, GrownIs
<1>7. type = "exFAT" =>
        /\ clst = 0 => g.stat = 2 /\ g.n_frag = o.n_frag
        /\ clst # 0 /\ o.stat = 2 /\ c = clst + 1 => g.stat = 2 /\ g.n_frag = o.n_frag
        /\ clst # 0 /\ o.stat = 2 /\ c # clst + 1 => g.stat = 3 /\ g.n_cont = clst - o.sclust /\ g.n_frag = 1
        /\ clst # 0 /\ o.stat # 2 => g.stat = o.stat /\ g.n_cont = o.n_cont
        /\ clst # 0 /\ o.stat # 2 /\ c = clst + 1 => g.n_frag = (IF o.n_frag = 0 THEN 2 ELSE o.n_frag + 1)
        /\ clst # 0 /\ o.stat # 2 /\ c # clst + 1 => g.n_frag = 1
  <2> SUFFICES ASSUME type = "exFAT"
               PROVE  /\ clst = 0 => g.stat = 2 /\ g.n_frag = o.n_frag
                      /\ clst # 0 /\ o.stat = 2 /\ c = clst + 1 => g.stat = 2 /\ g.n_frag = o.n_frag
                      /\ clst # 0 /\ o.stat = 2 /\ c # clst + 1 =>
                           g.stat = 3 /\ g.n_cont = clst - o.sclust /\ g.n_frag = 1
                      /\ clst # 0 /\ o.stat # 2 => g.stat = o.stat /\ g.n_cont = o.n_cont
                      /\ clst # 0 /\ o.stat # 2 /\ c = clst + 1 =>
                           g.n_frag = (IF o.n_frag = 0 THEN 2 ELSE o.n_frag + 1)
                      /\ clst # 0 /\ o.stat # 2 /\ c # clst + 1 => g.n_frag = 1
    OBVIOUS
  <2>1. g = Grown(o, clst, c)
    OBVIOUS
  <2> HIDE DEF g
  <2> QED BY <1>1, <1>5, <2>1, GrownIs
<1>8. type = "FAT" => g = o
  OBVIOUS
<1> HIDE DEF g
<1>9. /\ x \in FileObject /\ x.clust = c /\ x.sclust = (IF o.sclust = 0 THEN c ELSE o.sclust)
      /\ x.open = o.open /\ x.write = o.write /\ x.modified = o.modified /\ x.err = o.err
      /\ x.objsize = o.objsize /\ x.fptr = o.fptr /\ x.stat = g.stat /\ x.n_cont = g.n_cont /\ x.n_frag = g.n_frag
  BY <1>4, <1>6, AtIs
<1> HIDE DEF x
<1>10. Goes(o, x, c)
  BY <1>2, <1>9 DEF Goes
<1>11. c \in Of(h2, f) /\ (\A d \in Of(holds, f) : d \in Of(h2, f))
  BY <1>4 DEF Longer
<1> SUFFICES /\ Lies(type, h2, t2, x, f)
             /\ t2 \in [Cluster -> Link] /\ \A d \in Cluster \ Of(h2, f) : t2[d] = fat[d]
  BY <1>6, <1>9 DEF f, o, clst, g, x
<1>12. CASE type = "FAT"
  <2>1. t2 = [d \in Cluster |-> IF d = c THEN EOC ELSE IF d = clst THEN c ELSE fat[d]]
    BY <1>12 DEF Linked
  <2>2. t2 \in [Cluster -> Link] /\ \A d \in Cluster \ Of(h2, f) : t2[d] = fat[d]
    <3>1. clst \in Of(h2, f) \/ clst \notin Cluster
      BY <1>1, <1>11, ClusterIs
    <3> HIDE DEF t2
    <3> QED BY <1>3, <1>4, <1>11, <2>1, <3>1 DEF Link
  <2>3. o.stat = 0 /\ o.n_frag = 0
    BY <1>3, <1>12 DEF Lies, Laid
  <2>4. t2[c] = EOC
    BY <1>4, <2>1
  <2> HIDE DEF t2
  <2>5. CASE clst = 0
    BY <1>1, <1>3, <1>4, <1>8, <1>9, <1>10, <1>12, <2>2, <2>3, <2>4, <2>5, LongerFirst
  <2>6. CASE clst # 0
    BY <1>1, <1>3, <1>4, <1>8, <1>9, <1>10, <1>12, <2>1, <2>2, <2>6, LongerOnFAT
  <2> QED BY <2>5, <2>6
<1>13. CASE type = "exFAT"
  <2>1. /\ clst = 0 \/ c = clst + 1 => t2 = fat
        /\ clst # 0 /\ c # clst + 1 => t2 = FillLast(fat, IF o.n_frag = 0 THEN 1 ELSE o.n_frag, clst, c)
    BY <1>1, <1>13, LinkedIs
  <2> HIDE DEF t2
  <2>2. CASE clst = 0
    <3>1. Lies("exFAT", h2, t2, x, f)
      BY <1>1, <1>3, <1>4, <1>7, <1>9, <1>10, <1>13, <2>2, LongerFirst
    <3> QED BY <1>3, <1>13, <2>1, <2>2, <3>1
  <2>3. CASE clst # 0 /\ o.stat = 2 /\ c = clst + 1
    <3>1. Lies("exFAT", h2, fat, x, f)
      BY <1>1, <1>3, <1>4, <1>7, <1>9, <1>10, <1>13, <2>3, LongerPiece
    <3> QED BY <1>3, <1>13, <2>1, <2>3, <3>1
  <2>4. CASE clst # 0 /\ o.stat = 2 /\ c # clst + 1
    <3>1. o.n_frag = 0 /\ clst \in Cluster /\ clst \in Nat
      BY <1>1, <1>3, <2>4, ClusterIs DEF Lies, Laid, OnePiece
    <3>2. t2 = FillLast(fat, 1, clst, c) /\ clst - 1 + 1 .. clst = {clst}
      BY <2>1, <2>4, <3>1
    <3>3. \A d \in Cluster : t2[d] = IF d = clst THEN c ELSE fat[d]
      BY <3>2 DEF FillLast
    <3>4. t2 \in [Cluster -> Link]
      <4>1. \A d \in Cluster : t2[d] \in Link
        BY <1>3, <1>4, <3>3 DEF Link
      <4> QED BY <3>2, <4>1 DEF FillLast
    <3>5. Lies("exFAT", h2, t2, x, f)
      BY <1>1, <1>3, <1>4, <1>7, <1>9, <1>10, <1>13, <2>4, <3>1, <3>3, LongerBroken
    <3> QED BY <1>1, <1>11, <1>13, <2>4, <3>3, <3>4, <3>5
  <2>5. CASE clst # 0 /\ o.stat # 2 /\ c = clst + 1
    <3>1. Lies("exFAT", h2, fat, x, f)
      BY <1>1, <1>3, <1>4, <1>7, <1>9, <1>10, <1>13, <2>5, LongerLast
    <3> QED BY <1>3, <1>13, <2>1, <2>5, <3>1
  <2>6. CASE clst # 0 /\ o.stat # 2 /\ c # clst + 1
    <3> DEFINE m == IF o.n_frag = 0 THEN 1 ELSE o.n_frag
    <3>1. t2 = FillLast(fat, m, clst, c) /\ (o.n_frag = 0 => m = 1) /\ (o.n_frag # 0 => m = o.n_frag)
      BY <2>1, <2>6
    <3> HIDE DEF m
    <3>2. x.stat = o.stat /\ x.n_cont = o.n_cont /\ x.n_frag = 1 /\ (o.n_frag # 0 => o.clust = clst)
      BY <1>1, <1>7, <1>9, <1>13, <2>6
    <3>3. NewPiece(holds, h2, fat, t2, f, c, k, clst, o, x, m)
      BY <1>1, <1>3, <1>4, <1>9, <1>10, <1>13, <2>6, <3>1, <3>2 DEF NewPiece
    <3>4. /\ Lies("exFAT", h2, t2, x, f)
          /\ t2 \in [Cluster -> Link] /\ \A d \in Cluster \ Of(holds, f) : t2[d] = fat[d]
      BY <1>1, <3>3, LongerNew
    <3> QED BY <1>11, <1>13, <3>4
  <2> QED BY <2>2, <2>3, <2>4, <2>5, <2>6
<1> QED BY <1>1, <1>12, <1>13

LEMMA ChainGrowsKeeps ==
  ASSUME FilesInv, ChainGrows
  PROVE  FilesInv'
<1> DEFINE f == op.file
           o == obj[f]
           e == entry[f]
           clst == ChainArg(o)
           c == Find(clst)
           k == Parts(o.fptr) + 1
           g == IF type = "FAT" THEN o ELSE Grown(o, clst, c)
           x == At(g, c)
           p == [op EXCEPT !.at = "got", !.got = c]
<1>1. /\ op.at = "chain" /\ IsAtEnd(o) /\ free_clst # 0 /\ c # 0 /\ op' = p
      /\ fat' = Linked(o, clst, c) /\ last_clst' = c
      /\ free_clst' = IF free_clst <= Total THEN free_clst - 1 ELSE free_clst
      /\ holds' = [holds EXCEPT ![c] = Part(f, o.fptr \div ClusterSize + 1)]
      /\ UNCHANGED <<type, entry, faults>>
  BY DEF ChainGrows, Got
<1>2. /\ type = "FAT" => bitmap' = bitmap /\ obj' = obj
      /\ type # "FAT" => bitmap' = bitmap \cup {c} /\ obj' = [obj EXCEPT ![f] = g]
  BY DEF ChainGrows
<1>3. /\ f \in File /\ f # None /\ o \in FileObject /\ e \in EntryRecord /\ op \in CallRecord /\ EntryOK(type, e)
      /\ op.call \in {"write", "seek"} /\ o.open /\ o.write /\ ~o.err
      /\ Chained(type, holds, fat, o, f) /\ MayStay(holds, faults, e, o, op, f)
      /\ OnBoundary(o) /\ op.n > 0
      /\ type \in {"FAT", "exFAT"} /\ Placed(holds) /\ TypeOK /\ faults \in Nat
      /\ clst \in Cluster \cup {0}
      /\ clst = 0 => o.sclust = 0 /\ Of(holds, f) = {}
      /\ clst # 0 => clst \in Of(holds, f) /\ holds[clst].part = Parts(o.fptr)
  BY <1>1, AskingIs
<1>4. /\ k \in Nat \ {0} /\ AtMost(holds, f, k - 1) /\ o.objsize = o.fptr /\ k - 1 = Parts(o.fptr)
      /\ o.fptr \div ClusterSize + 1 = k /\ (\A j \in 1..(k - 1) : HasPart(holds, f, j))
      /\ clst = 0 => k = 1
  BY <1>1, EndIs
<1>5. c \in FreeClusters /\ c \in Cluster /\ c \notin InUse /\ c \in 0..LastCluster
  BY <1>1, <1>3, FoundIs
<1>6. holds[c] = Nothing
  BY <1>5 DEF FilesInv
<1>7. obj' = [obj EXCEPT ![f] = g]
  <2>1. CASE type = "FAT"
    BY <1>2, <1>3, <2>1, Unchanged
  <2>2. CASE type # "FAT"
    BY <1>2, <2>2
  <2> QED BY <2>1, <2>2
<1>8. /\ holds' = [holds EXCEPT ![c] = Part(f, k)]
      /\ IF clst = 0 THEN Of(holds, f) = {} /\ k = 1 ELSE clst \in Of(holds, f) /\ holds[clst].part = k - 1
  BY <1>1, <1>3, <1>4
<1>9. /\ Longer(holds, holds', f, c, k, clst)
      /\ \A d \in Cluster : d # c => holds'[d] = holds[d]
      /\ holds'[c] # Nothing
      /\ holds' \in [Cluster -> {Nothing} \cup [file : File, part : Nat \ {0}]]
      /\ \A i \in File \ {f} : Of(holds', i) = Of(holds, i) /\ \A d \in Of(holds, i) : holds'[d] = holds[d]
  <2> HIDE DEF f, o, clst, c, k
  <2>1. Places(holds, holds', f, c, k, clst)
    BY <1>3, <1>4, <1>5, <1>6, <1>8 DEF Places
  <2>2. Longer(holds, holds', f, c, k, clst) /\ holds'[c] # Nothing
    BY <1>3, <2>1, MorePlaced
  <2>3. \A d \in Cluster : d # c => holds'[d] = holds[d]
    BY <1>3, <2>1, MorePlaced
  <2>4. holds' \in [Cluster -> {Nothing} \cup [file : File, part : Nat \ {0}]]
    BY <1>3, <2>1, MorePlaced
  <2>5. \A i \in File \ {f} : Of(holds', i) = Of(holds, i) /\ \A d \in Of(holds, i) : holds'[d] = holds[d]
    BY <1>3, <2>1, MorePlaced
  <2> QED BY <2>2, <2>3, <2>4, <2>5
<1>10. /\ g \in FileObject /\ x \in FileObject /\ Lies(type, holds', fat', x, f)
       /\ x.clust = c /\ x.sclust = (IF o.sclust = 0 THEN c ELSE o.sclust) /\ x.objsize = o.objsize
       /\ x.fptr = o.fptr /\ x.open = o.open /\ x.modified = o.modified /\ x.err = o.err /\ g.write = o.write
       /\ fat' \in [Cluster -> Link] /\ \A d \in Cluster \ Of(holds', f) : fat'[d] = fat[d]
  <2>1. /\ g \in FileObject /\ x \in FileObject /\ Lies(type, holds', Linked(o, clst, c), x, f)
        /\ x.clust = c /\ x.sclust = (IF o.sclust = 0 THEN c ELSE o.sclust) /\ x.objsize = o.objsize /\ x.fptr = o.fptr
        /\ x.open = o.open /\ x.write = o.write /\ x.modified = o.modified /\ x.err = o.err /\ g.write = o.write
        /\ Linked(o, clst, c) \in [Cluster -> Link]
        /\ \A d \in Cluster \ Of(holds', f) : Linked(o, clst, c)[d] = fat[d]
    <3>1. c \in Cluster /\ c \notin InUse /\ op.at = "chain" /\ IsAtEnd(obj[op.file])
      BY <1>1, <1>5
    <3>2. Longer(holds, holds', op.file, c, Parts(obj[op.file].fptr) + 1, ChainArg(obj[op.file]))
      BY <1>9
    <3> HIDE DEF c
    <3> QED BY <3>1, <3>2, ChainLonger
  <2> HIDE DEF f, o, clst, c, x, g
  <2> QED BY <1>1, <2>1
<1>11. InUse' = InUse \cup {c}
  <2>1. CASE type = "FAT"
    <3>1. fat' = [d \in Cluster |-> IF d = c THEN EOC ELSE IF d = clst THEN c ELSE fat[d]]
      BY <1>1, <2>1 DEF Linked
    <3>2. clst # 0 => clst \in InUse
      BY <1>3, HoldsIs DEF FilesInv
    <3>3. clst # 0 => fat[clst] # 0
      BY <2>1, <3>2 DEF InUse
    <3>4. EOC # 0 /\ 0 \notin Cluster
      BY ClusterIs
    <3> HIDE DEF clst, c
    <3>5. \A d \in Cluster : fat'[d] # 0 <=> (d = c \/ fat[d] # 0)
      BY <1>1, <1>5, <3>1, <3>3, <3>4
    <3> QED BY <1>1, <1>5, <2>1, <3>5 DEF InUse
  <2>2. CASE type # "FAT"
    BY <1>1, <1>2, <2>2 DEF InUse
  <2> QED BY <2>1, <2>2
<1>12. p \in CallRecord /\ p.call = op.call /\ p.file = f /\ p.at = "got" /\ p.got = c /\ p.n = op.n
  <2> HIDE DEF c
  <2> QED BY <1>3, <1>5 DEF CallRecord
<1>13. obj \in [File -> FileObject] /\ bitmap \subseteq Cluster /\ free_clst \in 0..Unknown
       /\ type \in Types /\ entry \in [File -> EntryRecord] /\ faults \in 0..MaxFaults
       /\ (type = "exFAT" => faults = 0)
  BY <1>3, TypeIs DEF FilesInv
<1>14. e.size \in Nat /\ e.sclust \in Cluster \cup {0}
  BY <1>3 DEF EntryRecord
<1>15. op.file = f /\ entry'[f] = e /\ obj'[f] = g /\ \A i \in File \ {f} : entry'[i] = entry[i] /\ obj'[i] = obj[i]
  BY <1>1, <1>3, <1>7, <1>13
<1>16. x = At(g, c)
  OBVIOUS
<1> HIDE DEF f, o, e, clst, c, k, g, x, p
<1>17. /\ c \in Of(holds', f) /\ holds'[c].part = k
       /\ \A d \in Of(holds', f) : holds'[d].part <= k
       /\ \A j : HasPart(holds, f, j) => HasPart(holds', f, j)
  <2>1. /\ Of(holds', f) = Of(holds, f) \cup {c} /\ holds'[c].part = k
        /\ \A d \in Of(holds, f) : holds'[d] = holds[d] /\ holds[d].part \in 1..(k - 1)
        /\ \A j : HasPart(holds, f, j) => HasPart(holds', f, j)
    BY <1>9 DEF Longer
  <2> QED BY <1>4, <2>1
<1>18. ~o.modified => Fits(holds', e, x, f)
  <2> SUFFICES ASSUME ~o.modified PROVE Fits(holds', e, x, f)
    OBVIOUS
  <2>1. Fits(holds, e, o, f)
    BY <1>3 DEF MayStay
  <2>2. Sized(holds', f, e.size)
    BY <1>17, <2>1 DEF Fits, Sized
  <2>3. Lies(type, holds, fat, o, f)
    BY <1>3 DEF Chained
  <2>4. o.sclust = 0 => e.size = 0
    BY <1>3, <1>14, <2>1, <2>3, HasFirst DEF Fits
  <2>5. (e.sclust = 0 /\ e.size = 0) \/ e.sclust = x.sclust
    BY <1>10, <2>1, <2>4 DEF Fits
  <2> QED BY <2>2, <2>5 DEF Fits
<1>19. OnBoundary(x) /\ AtPart(holds', x, f, Parts(x.fptr) + 1) /\ x.objsize <= x.fptr
  <2>1. OnBoundary(x)
    BY <1>3, <1>10 DEF OnBoundary
  <2>2. AtPart(holds', x, f, Parts(x.fptr) + 1)
    BY <1>10, <1>17 DEF AtPart, k
  <2>3. o.fptr \in Nat
    BY <1>3 DEF FileObject
  <2> QED BY <1>4, <1>10, <2>1, <2>2, <2>3
<1>20. \A d \in Of(holds', f) : holds'[d].part <= Parts(x.fptr) + 1
  BY <1>10, <1>17 DEF k
<1>21. Ahead(type, holds', fat', faults, e, x, p, f)
  BY <1>3, <1>10, <1>12, <1>18, <1>19, <1>20 DEF Ahead
<1>22. Given(type, holds', fat', faults, e, g, p, f)
  BY <1>3, <1>5, <1>10, <1>12, <1>16, <1>21 DEF Given
<1>23. Busy(type, holds', fat', faults', e, g, p, f)
  BY <1>1, <1>22 DEF Busy
<1>24. Accounted'
  BY <1>1, <1>5, <1>9, <1>11, <1>12, OneTaken
<1>25. TypeOK'
  <2>1. free_clst' \in 0..Unknown
    BY <1>1, <1>13, ClusterIs DEF Unknown
  <2>2. /\ type' \in Types /\ bitmap' \subseteq Cluster /\ last_clst' \in 0..LastCluster
        /\ entry' \in [File -> EntryRecord] /\ obj' \in [File -> FileObject] /\ op' \in CallRecord
    BY <1>1, <1>2, <1>5, <1>7, <1>10, <1>12, <1>13
  <2> QED BY <1>1, <1>9, <1>10, <1>13, <2>1, <2>2 DEF TypeOK, EntryRecord, FileObject, CallRecord
<1>26. \A i \in File \ {f} : \A d \in Of(holds, i) : fat'[d] = fat[d]
  <2>1. ASSUME NEW i \in File \ {f}, NEW d \in Of(holds, i) PROVE d \in Cluster \ Of(holds', f)
    BY <1>9, <2>1 DEF Of
  <2> QED BY <1>10, <2>1
<1>27. faults <= faults' /\ (type = "exFAT" => faults' = 0)
  BY <1>1, <1>3, <1>13
<1>28. Placed(holds)'
  BY <1>9 DEF Longer
<1>29. p.call # "none"
  BY <1>3, <1>12
<1>30. /\ op.file \in {f, None} /\ op'.file \in {f, None} /\ type' = type
       /\ \A i \in File \ {f} : entry'[i] = entry[i] /\ obj'[i] = obj[i]
       /\ \A i \in File \ {f} : Of(holds', i) = Of(holds, i)
                                /\ \A d \in Of(holds, i) : holds'[d] = holds[d] /\ fat'[d] = fat[d]
  BY <1>1, <1>9, <1>12, <1>15, <1>26
<1>31. /\ EntryOK(type, entry'[f]) /\ op'.file = f /\ op'.call # "none"
       /\ Busy(type, holds', fat', faults', entry'[f], obj'[f], op', f)
  BY <1>1, <1>3, <1>12, <1>15, <1>23, <1>29
<1> QED BY <1>3, <1>24, <1>25, <1>27, <1>28, <1>30, <1>31, Frame

-----------------------------------------------------------------------------
(* remove_chain.                                                             *)

\* The links lead from each cluster to its neighbour, from s up to the last, p.
Runs(h, t, f, s, p) ==
    /\ Placed(h) /\ s \in Of(h, f) /\ h[s].part = 1 /\ p \in Of(h, f) /\ AtMost(h, f, h[p].part) /\ p >= s
    /\ \A c, d \in Of(h, f) : h[d].part = h[c].part + 1 => t[c] = d
    /\ \A c \in s..(p - 1) : t[c] = c + 1

LEMMA RunsAre ==
  ASSUME NEW h, NEW t, NEW f \in File, NEW s, NEW p, Runs(h, t, f, s, p)
  PROVE  \A c \in Of(h, f) : c = s + h[c].part - 1
<1>0. /\ Placed(h) /\ s \in Of(h, f) /\ h[s].part = 1 /\ p \in Of(h, f) /\ AtMost(h, f, h[p].part) /\ p >= s
      /\ \A c, d \in Of(h, f) : h[d].part = h[c].part + 1 => t[c] = d
      /\ \A c \in s..(p - 1) : t[c] = c + 1
  BY DEF Runs
<1> DEFINE Bad == {d \in Of(h, f) : d # s + h[d].part - 1}
           Numbers == {h[d].part : d \in Bad}
<1>1. /\ \A c \in Of(h, f) : c \in Cluster /\ c \in Nat /\ h[c].part \in Nat \ {0}
      /\ s \in Nat
  BY <1>0, HoldsIs, ClusterIs
<1>2. /\ \A c, d \in Of(h, f) : h[c].part = h[d].part => c = d
      /\ \A c \in Of(h, f) : \A k \in 1..h[c].part : HasPart(h, f, k)
  BY <1>0 DEF Placed
<1> SUFFICES ASSUME Bad # {} PROVE FALSE
  OBVIOUS
<1>3. Numbers \subseteq Nat /\ Numbers # {}
  BY <1>1
<1>4. Least(Numbers) \in Numbers /\ \A m \in Numbers : Least(Numbers) <= m
  <2> HIDE DEF Numbers
  <2> QED BY <1>3, LeastNumber
<1>5. PICK c \in Bad : h[c].part = Least(Numbers)
  BY <1>4
<1> DEFINE m == h[c].part
<1>6. c \in Of(h, f) /\ c # s + m - 1 /\ m \in Nat \ {0} /\ c \in Nat
  BY <1>1, <1>5
<1>7. \A d \in Of(h, f) : h[d].part < m => d = s + h[d].part - 1
  <2> SUFFICES ASSUME NEW d \in Of(h, f), h[d].part < m, d \in Bad PROVE FALSE
    OBVIOUS
  <2>1. h[d].part \in Numbers
    OBVIOUS
  <2>2. m <= h[d].part
    BY <1>4, <1>5, <2>1
  <2> QED BY <1>1, <1>6, <2>2
<1> HIDE DEF Bad, Numbers
<1>8. m # 1
  <2> SUFFICES ASSUME m = 1 PROVE FALSE
    OBVIOUS
  <2>1. c = s
    BY <1>0, <1>1, <1>2, <1>6
  <2> QED BY <1>1, <1>6, <2>1
<1>9. m - 1 \in 1..m
  BY <1>6, <1>8
<1>10. PICK d \in Of(h, f) : h[d].part = m - 1
  BY <1>2, <1>6, <1>9 DEF HasPart
<1>11. d = s + (m - 1) - 1 /\ d \in Nat
  <2>1. h[d].part < m
    BY <1>6, <1>10
  <2>2. d = s + h[d].part - 1
    BY <1>7, <2>1
  <2> QED BY <1>1, <1>10, <2>2
<1>12. CASE d <= p - 1
  <2>1. d \in s..(p - 1)
    BY <1>0, <1>1, <1>6, <1>8, <1>11, <1>12
  <2>2. t[d] = d + 1
    BY <1>0, <2>1
  <2>3. t[d] = c
    <3>1. h[c].part = h[d].part + 1
      BY <1>6, <1>10
    <3> QED BY <1>0, <1>6, <3>1
  <2> QED BY <1>1, <1>6, <1>11, <2>2, <2>3
<1>13. CASE ~(d <= p - 1)
  <2>1. p \in Nat /\ p >= s /\ p <= d
    BY <1>0, <1>1, <1>11, <1>13
  <2> DEFINE j == p - s + 1
  <2>2. j \in 1..m /\ j < m
    BY <1>1, <1>6, <1>11, <2>1
  <2>3. PICK q \in Of(h, f) : h[q].part = j
    BY <1>2, <1>6, <2>2 DEF HasPart
  <2>4. q = s + j - 1
    BY <1>7, <2>2, <2>3
  <2>5. q = p
    BY <1>0, <1>1, <2>1, <2>4
  <2>6. m <= h[p].part
    BY <1>0, <1>6 DEF AtMost
  <2> QED BY <1>6, <2>2, <2>3, <2>5, <2>6
<1> QED BY <1>12, <1>13

\* The status of the exFAT file whose last cluster is p.
LEMMA CutStatIs ==
  ASSUME type = "exFAT", NEW h, Placed(h), NEW f \in File, NEW o \in FileObject,
         Laid(type, h, fat, o, f), o.n_frag = 0, NEW p \in Of(h, f), AtMost(h, f, h[p].part)
  PROVE  \/ CutStat(o, p) = 2 /\ \A c \in Of(h, f) : c = o.sclust + h[c].part - 1
         \/ CutStat(o, p) = 0 /\ o.stat = 0
         \/ CutStat(o, p) = 3 /\ o.stat = 3 /\ o.n_cont + 2 <= h[p].part
<1>1. /\ \A c \in Of(h, f) : c \in Cluster /\ c \in Nat /\ h[c].part \in Nat \ {0} /\ h[c].part <= h[p].part
      /\ p # 0
  BY HoldsIs, ClusterIs DEF AtMost
<1>2. o.sclust # 0
  BY DEF Laid
<1>3. /\ o.sclust \in Of(h, f) /\ h[o.sclust].part = 1 /\ o.sclust \in Nat
      /\ OnePiece(h, o, f) /\ FirstPiece(h, o, f) /\ InTable(h, fat, o, f)
  BY <1>1, <1>2 DEF Laid
<1>4. CASE o.stat = 2
  BY <1>1, <1>3, <1>4 DEF CutStat, OnePiece
<1>5. CASE o.stat = 0
  <2>1. CASE p >= o.sclust /\ \A c \in o.sclust..p-1 : GetFat(o, c) = c + 1
    <3>1. \A c \in o.sclust..(p - 1) : c \in Cluster
      BY <1>1, <1>3, ClusterIs
    <3>2. \A c \in o.sclust..(p - 1) : fat[c] = c + 1
      BY <1>5, <2>1, <3>1 DEF GetFat
    <3>3. \A c \in Of(h, f) : c = o.sclust + h[c].part - 1
      <4>1. \A c, d \in Of(h, f) : h[d].part = h[c].part + 1 => fat[c] = d
        <5> SUFFICES ASSUME NEW c \in Of(h, f), NEW d \in Of(h, f), h[d].part = h[c].part + 1 PROVE fat[c] = d
          OBVIOUS
        <5>1. o.stat # 2 /\ o.stat # 3 /\ ~(o.n_frag # 0)
          BY <1>5
        <5> QED BY <1>3, <5>1 DEF InTable
      <4>2. Runs(h, fat, f, o.sclust, p)
        BY <1>3, <2>1, <3>2, <4>1 DEF Runs
      <4> QED BY <4>2, RunsAre
    <3> QED BY <1>1, <1>5, <2>1, <3>3 DEF CutStat
  <2>2. CASE ~(p >= o.sclust /\ \A c \in o.sclust..p-1 : GetFat(o, c) = c + 1)
    BY <1>1, <1>5, <2>2 DEF CutStat
  <2> QED BY <2>1, <2>2
<1>6. CASE o.stat = 3
  <2>0. o.n_cont \in Nat
    BY DEF FileObject
  <2>1. CASE h[p].part <= o.n_cont + 1
    <3>1. \A c \in Of(h, f) : c = o.sclust + h[c].part - 1
      BY <1>1, <1>3, <1>6, <2>0, <2>1 DEF FirstPiece
    <3>2. p \in o.sclust .. o.sclust + o.n_cont
      BY <1>1, <1>3, <2>0, <2>1, <3>1
    <3> QED BY <1>1, <1>6, <3>1, <3>2 DEF CutStat
  <2>2. CASE ~(h[p].part <= o.n_cont + 1)
    <3>1. p \notin o.sclust .. o.sclust + o.n_cont
      <4> SUFFICES ASSUME p \in o.sclust .. o.sclust + o.n_cont PROVE FALSE
        OBVIOUS
      <4> DEFINE j == p - o.sclust + 1
                 k == o.n_cont + 1
      <4>1. j \in 1..k /\ k \in 1..(o.n_cont + 1) /\ k \in 1..h[p].part
        BY <1>1, <1>3, <2>0, <2>2
      <4>2. HasPart(h, f, k)
        BY <4>1 DEF Placed
      <4>3. o.sclust + j - 1 \in Of(h, f) /\ h[o.sclust + j - 1].part = j
        <5> HIDE DEF j, k
        <5> QED BY <1>3, <1>6, <4>1, <4>2, FirstIs
      <4>4. o.sclust + j - 1 = p
        BY <1>1, <1>3
      <4> QED BY <1>1, <2>0, <2>2, <4>1, <4>3, <4>4
    <3>2. CutStat(o, p) = 3
      BY <1>1, <1>6, <3>1 DEF CutStat
    <3> QED BY <1>1, <1>6, <2>0, <2>2, <3>2
  <2> QED BY <2>1, <2>2
<1> QED BY <1>4, <1>5, <1>6 DEF FileObject

\* A file that was cut behind its current cluster.
LEMMA ShortChain ==
  ASSUME type \in {"FAT", "exFAT"}, NEW h, Placed(h), NEW f \in File, NEW o \in FileObject, o.n_frag = 0,
         Laid(type, h, fat, o, f), o.clust \in Of(h, f), h[o.clust].part = Parts(o.fptr),
         AtMost(h, f, Parts(o.fptr)), o.stat # 2 => fat[o.clust] = EOC,
         NEW x \in FileObject, x.sclust = o.sclust, x.n_cont = o.n_cont, x.n_frag = 0,
         x.stat = (IF type = "exFAT" THEN CutStat(o, o.clust) ELSE o.stat),
         x.objsize = o.fptr, x.fptr = o.fptr
  PROVE  Chained(type, h, fat, x, f)
<1> DEFINE p == o.clust
<1>1. /\ \A c \in Of(h, f) : c \in Cluster /\ h[c].part \in Nat \ {0} /\ h[c].part <= h[p].part
      /\ p \in Of(h, f) /\ h[p].part = Parts(o.fptr) /\ p # 0 /\ o.fptr \in Nat /\ o.n_cont \in Nat
  BY HoldsIs, ClusterIs DEF AtMost, FileObject
<1>2. /\ \A c, d \in Of(h, f) : h[c].part = h[d].part => c = d
      /\ \A c \in Of(h, f) : \A k \in 1..h[c].part : HasPart(h, f, k)
  BY DEF Placed
<1>3. o.sclust # 0
  BY <1>1 DEF Laid
<1>4. /\ o.sclust \in Of(h, f) /\ h[o.sclust].part = 1
      /\ OnePiece(h, o, f) /\ FirstPiece(h, o, f) /\ InTable(h, fat, o, f)
      /\ type = "FAT" => o.stat = 0
  BY <1>3 DEF Laid
<1>5. Sized(h, f, x.objsize)
  BY <1>1, <1>2 DEF Sized
<1>6. ASSUME NEW k \in Nat \ {0}, k <= h[p].part PROVE HasPart(h, f, k)
  BY <1>1, <1>2, <1>6
<1>7. \/ x.stat = 2 /\ type = "exFAT" /\ \A c \in Of(h, f) : c = o.sclust + h[c].part - 1
      \/ x.stat = 0 /\ o.stat = 0
      \/ x.stat = 3 /\ type = "exFAT" /\ o.stat = 3 /\ o.n_cont + 2 <= h[p].part
  <2>1. CASE type = "FAT"
    BY <1>4, <2>1
  <2>2. CASE type = "exFAT"
    <3>1. x.stat = CutStat(o, p)
      BY <2>2
    <3>2. AtMost(h, f, h[p].part)
      BY <1>1
    <3> HIDE DEF p
    <3>3. \/ CutStat(o, p) = 2 /\ \A c \in Of(h, f) : c = o.sclust + h[c].part - 1
          \/ CutStat(o, p) = 0 /\ o.stat = 0
          \/ CutStat(o, p) = 3 /\ o.stat = 3 /\ o.n_cont + 2 <= h[p].part
      BY <1>1, <2>2, <3>2, CutStatIs
    <3> QED BY <2>2, <3>1, <3>3
  <2> QED BY <2>1, <2>2
<1>8. ASSUME o.stat # 2, NEW c \in Of(h, f) PROVE fat[c] = EOC \/ HasPart(h, f, h[c].part + 1)
  <2>1. CASE c = p
    BY <1>8, <2>1
  <2>2. CASE c # p
    <3>1. h[c].part < h[p].part
      BY <1>1, <1>2, <2>2
    <3> QED BY <1>1, <1>6, <3>1
  <2> QED BY <2>1, <2>2
<1> HIDE DEF p
<1>9. CASE x.stat = 2 /\ type = "exFAT" /\ \A c \in Of(h, f) : c = o.sclust + h[c].part - 1
  <2>1. Laid(type, h, fat, x, f)
    BY <1>3, <1>4, <1>9 DEF Laid, OnePiece, FirstPiece, LastPiece, InTable
  <2>2. Ends(h, fat, x, f)
    BY <1>9 DEF Ends
  <2> QED BY <1>1, <1>5, <2>1, <2>2 DEF Chained, Lies
<1>10. CASE x.stat # 2 /\ x.stat = o.stat /\ (x.stat = 3 => type = "exFAT" /\ o.n_cont + 2 <= h[p].part)
  <2>1. FirstPiece(h, x, f)
    BY <1>4, <1>10 DEF FirstPiece
  <2>2. InTable(h, fat, x, f)
    <3> SUFFICES ASSUME NEW c \in Of(h, f), NEW d \in Of(h, f), h[d].part = h[c].part + 1
                 PROVE  (o.stat = 3 /\ h[c].part <= o.n_cont) \/ fat[c] = d
      BY <1>10 DEF InTable
    <3>1. \/ o.stat = 3 /\ h[c].part <= o.n_cont
          \/ o.n_frag # 0 /\ h[c].part > h[o.clust].part - o.n_frag
          \/ fat[c] = d
      BY <1>4, <1>10 DEF InTable
    <3> QED BY <3>1
  <2>3. Laid(type, h, fat, x, f)
    BY <1>3, <1>4, <1>10, <2>1, <2>2 DEF Laid, OnePiece, LastPiece
  <2>4. Ends(h, fat, x, f)
    <3>1. x.stat = 3 => HasPart(h, f, x.n_cont + 2)
      BY <1>1, <1>6, <1>10
    <3> QED BY <1>8, <1>10, <3>1 DEF Ends
  <2> QED BY <1>1, <1>5, <2>3, <2>4 DEF Chained, Lies
<1> QED BY <1>7, <1>9, <1>10

\* What f_truncate, f_open and f_unlink leave.
LEMMA EndedRests ==
  ASSUME TypeOK, NEW h, Placed(h), NEW f \in File, NEW o \in FileObject, NEW e \in EntryRecord, NEW n,
         Behind(type, h, e, o, op, f), AtMost(h, f, Parts(o.fptr)),
         op.pclst # 0 => Laid(type, h, fat, o, f) /\ (o.stat # 2 => fat[op.pclst] = EOC),
         NEW fails \in BOOLEAN, fails => n # 0
  PROVE  LET x == Ended(o, fails) IN
         x \in FileObject /\ Rests(type, h, fat, n, e, IF x.open THEN x ELSE Object(e, FALSE, FALSE, FALSE), f)
<1> DEFINE x == Ended(o, fails)
<1>1. type \in {"FAT", "exFAT"} /\ op \in CallRecord /\ o.fptr \in Nat
  BY TypeIs DEF FileObject
<1>2. /\ o.n_frag = 0 /\ ~o.err /\ (type = "FAT" => o.stat = 0)
      /\ op.pclst = (IF o.fptr = 0 THEN 0 ELSE o.clust) /\ Positioned(h, o, f)
      /\ op.call = "truncate" => o.open
      /\ op.call # "truncate" =>
           op.call \in {"overwrite", "unlink"} /\ o.fptr = 0 /\ e.sclust = 0 /\ e.size = 0 /\ e.stat = 0
  BY DEF Behind
<1>3. o.fptr = 0 => Of(h, f) = {}
  <2>1. \A c \in Of(h, f) : h[c].part \in Nat \ {0}
    BY HoldsIs
  <2> QED BY <2>1, PartsOfNone DEF AtMost
<1>4. Closed \in FileObject /\ ~Closed.open
  BY EntriesAreTyped, Objects DEF Closed, Object
<1>5. CASE op.call = "unlink" \/ (op.call = "overwrite" /\ fails)
  <2>1. x = Closed
    BY <1>5 DEF Ended
  <2>2. Of(h, f) = {} /\ e.sclust = 0 /\ e.size = 0 /\ e.stat = 0
    BY <1>2, <1>3, <1>5
  <2>3. Rests(type, h, fat, n, e, Object(e, FALSE, FALSE, FALSE), f)
    BY <2>2, UnheldRests
  <2> QED BY <1>4, <2>1, <2>3
<1>6. CASE op.call = "overwrite" /\ ~fails
  <2> DEFINE z == Entry(0, 0, 0)
  <2>1. x = Object(z, TRUE, TRUE, TRUE)
    BY <1>6 DEF Ended
  <2>2. z \in EntryRecord /\ z.sclust = 0 /\ z.size = 0 /\ z.stat = 0
    BY EntriesAreTyped DEF Entry
  <2>3. Of(h, f) = {}
    BY <1>2, <1>3, <1>6
  <2>4. Object(z, TRUE, TRUE, TRUE) \in FileObject /\ Object(z, TRUE, TRUE, TRUE).open
    BY <2>2, Objects DEF Object
  <2> HIDE DEF z
  <2>5. Rests(type, h, fat, n, e, Object(z, TRUE, TRUE, TRUE), f)
    BY <2>2, <2>3, EmptyRests
  <2> QED BY <2>1, <2>4, <2>5
<1>7. CASE op.call = "truncate"
  <2> DEFINE st == IF type = "exFAT" THEN CutStat(o, op.pclst) ELSE o.stat
  <2>1. x = [o EXCEPT !.sclust = IF op.pclst = 0 THEN 0 ELSE @, !.stat = st,
                      !.objsize = o.fptr, !.modified = TRUE, !.err = fails]
    BY <1>7 DEF Ended
  <2>2. CASE o.fptr = 0
    <3>1. st = 0
      BY <1>1, <1>2, <2>2 DEF CutStat
    <3> HIDE DEF st
    <3>2. /\ x \in FileObject /\ x.open /\ x.modified /\ x.err = fails /\ x.sclust = 0 /\ x.stat = 0 /\ x.n_frag = 0
          /\ x.objsize = 0 /\ x.fptr = 0
      BY <1>1, <1>2, <1>7, <2>1, <2>2, <3>1 DEF FileObject
    <3> HIDE DEF x
    <3>3. Chained(type, h, fat, x, f) /\ Positioned(h, x, f)
      BY <1>3, <2>2, <3>2, NoChain
    <3>4. Rests(type, h, fat, n, e, x, f)
      BY <3>2, <3>3 DEF Rests
    <3> QED BY <3>2, <3>4 DEF x
  <2>3. CASE o.fptr # 0
    <3>1. op.pclst = o.clust /\ o.clust \in Of(h, f) /\ h[o.clust].part = Parts(o.fptr) /\ o.clust # 0
      BY <1>1, <1>2, <2>3, ClusterIs DEF Positioned, AtPart, Of
    <3>2. Laid(type, h, fat, o, f) /\ (o.stat # 2 => fat[o.clust] = EOC)
      BY <3>1
    <3>3. st \in {0, 2, 3} /\ st = (IF type = "exFAT" THEN CutStat(o, o.clust) ELSE o.stat)
      <4>1. CutStat(o, o.clust) \in {0, 2, 3}
        <5>1. o.stat \in {0, 2, 3}
          BY DEF FileObject
        <5> QED BY <5>1 DEF CutStat
      <4> QED BY <3>1, <4>1 DEF FileObject
    <3> HIDE DEF st
    <3>4. /\ x \in FileObject /\ x.open /\ x.modified /\ x.err = fails /\ x.sclust = o.sclust /\ x.stat = st
          /\ x.n_frag = 0 /\ x.objsize = o.fptr /\ x.fptr = o.fptr /\ x.n_cont = o.n_cont /\ x.clust = o.clust
      BY <1>1, <1>2, <1>7, <2>1, <3>1, <3>3 DEF FileObject
    <3> HIDE DEF x
    <3>5. Chained(type, h, fat, x, f)
      BY <1>1, <1>2, <3>1, <3>2, <3>3, <3>4, ShortChain
    <3>6. Positioned(h, x, f)
      BY <3>1, <3>4 DEF Positioned, AtPart
    <3>7. Rests(type, h, fat, n, e, x, f)
      BY <3>4, <3>5, <3>6 DEF Rests
    <3> QED BY <3>4, <3>7 DEF x
  <2> QED BY <2>2, <2>3
<1> QED BY <1>2, <1>5, <1>6, <1>7

\* A cluster that is to be freed has a link to the next, or is the last.
LEMMA CutOffLinks ==
  ASSUME FilesInv, op.at = "free", NEW tp, CutOff(tp)
  PROVE  LET next == GetFat(obj[op.file], op.clst) IN
         /\ op.clst \in Cluster /\ tp[op.clst] > 0 /\ next \in Nat /\ next > 1
         /\ IF \E d \in Cluster : tp[d] = tp[op.clst] + 1
            THEN next \in Cluster /\ tp[next] = tp[op.clst] + 1
            ELSE next = EOC
<1> DEFINE next == LinkOf(type, fat, obj[op.file], op.clst)
<1>1. /\ op.clst \in Cluster /\ tp[op.clst] > 0
      /\ IF \E d \in Cluster : tp[d] = tp[op.clst] + 1
         THEN next \in Cluster /\ tp[next] = tp[op.clst] + 1
         ELSE next = EOC
  BY DEF CutOff
<1>2. GetFat(obj[op.file], op.clst) = next
  BY GetFatIs
<1> HIDE DEF next
<1>3. next \in Nat /\ next > 1
  BY <1>1, ClusterIs
<1> QED BY <1>1, <1>2, <1>3

LEMMA RemoveEndsKeeps ==
  ASSUME FilesInv, RemoveEnds
  PROVE  FilesInv'
<1> DEFINE f == op.file
           o == obj[f]
           e == entry[f]
<1>1. op.at = "freed"
  <2>1. op.at = "free" => GetFat(o, op.clst) # 0
    <3>1. PICK tp \in [Cluster -> Nat] : CutOff(tp)
      BY DEF FilesInv
    <3> QED BY <3>1, CutOffLinks
  <2> QED BY <2>1 DEF RemoveEnds
<1>2. PICK fails \in BOOLEAN :
         /\ IF fails THEN Fails ELSE UNCHANGED faults
         /\ obj' = [obj EXCEPT ![f] = Ended(o, fails)]
         /\ last_clst' = IF op.call = "overwrite" /\ ~fails THEN op.n - 1 ELSE last_clst
  BY DEF RemoveEnds
<1> DEFINE x == Ended(o, fails)
<1>3. /\ op # Idle /\ op' = Idle /\ obj' = [obj EXCEPT ![f] = x]
      /\ UNCHANGED <<type, fat, bitmap, free_clst, entry, holds>>
  BY <1>1, <1>2, IdleIs DEF RemoveEnds
<1>4. /\ f \in File /\ f # None /\ op \in CallRecord /\ o \in FileObject /\ e \in EntryRecord /\ EntryOK(type, e)
      /\ Freeing(type, holds, fat, e, o, op, f) /\ Placed(holds) /\ TypeOK
  BY <1>1, <1>3, Current DEF FilesInv
<1>5. entry' = [entry EXCEPT ![f] = e]
  BY <1>3, <1>4, Unchanged
<1>6. /\ fat \in [Cluster -> Link] /\ faults \in 0..MaxFaults /\ faults \in Nat /\ last_clst \in 0..LastCluster
      /\ (type = "exFAT" => faults = 0) /\ MaxFaults \in Nat
  BY <1>4, TypeIs, VolumeAssumption DEF FilesInv
<1>f. /\ faults' \in 0..MaxFaults /\ faults <= faults' /\ (fails => faults' # 0)
      /\ (type = "exFAT" => faults' = 0)
  <2>1. CASE fails
    BY <1>2, <1>6, <2>1 DEF Fails
  <2>2. CASE ~fails
    BY <1>2, <1>6, <2>2
  <2> QED BY <2>1, <2>2
<1> HIDE DEF f, o, e
<1>7. /\ Behind(type, holds, e, o, op, f) /\ AtMost(holds, f, Parts(o.fptr))
      /\ op.pclst # 0 => Laid(type, holds, fat, o, f) /\ (o.stat # 2 => fat[op.pclst] = EOC)
  BY <1>4 DEF Freeing
<1>8. x \in FileObject /\ Rests(type, holds, fat, faults', e, IF x.open THEN x ELSE Object(e, FALSE, FALSE, FALSE), f)
  <2>1. fails => faults' # 0
    BY <1>f
  <2>2. CASE fails = TRUE
    <3>1. x = Ended(o, TRUE) /\ faults' # 0
      BY <2>1, <2>2
    <3>2. LET y == Ended(o, TRUE) IN
          y \in FileObject /\ Rests(type, holds, fat, faults', e, IF y.open THEN y ELSE Object(e, FALSE, FALSE, FALSE), f)
      BY <1>4, <1>7, <3>1, EndedRests
    <3> QED BY <3>1, <3>2
  <2>3. CASE fails = FALSE
    <3>1. x = Ended(o, FALSE)
      BY <2>3
    <3> HIDE DEF x
    <3> QED BY <1>4, <1>7, <3>1, EndedRests
  <2> QED BY <2>2, <2>3
<1>9. last_clst' \in 0..LastCluster
  <2>1. op.call = "overwrite" => op.n \in Cluster
    BY <1>7 DEF Behind
  <2> QED BY <1>2, <1>6, <2>1, ClusterIs
<1>10. op.file = f
  BY DEF f
<1> HIDE DEF x
<1>11. op.at # "free" /\ Idle.at # "free" /\ Idle.file # f /\ Idle.file \in {f, None} /\ Idle \in CallRecord
  BY <1>1, <1>4, IdleIs
<1>12. /\ fat' \in [Cluster -> Link] /\ fat' = fat /\ holds' = holds /\ type' = type
       /\ bitmap' = bitmap /\ free_clst' = free_clst
  BY <1>3, <1>6
<1>13. Rests(type, holds', fat', faults', e, IF x.open THEN x ELSE Object(e, FALSE, FALSE, FALSE), f)
  BY <1>8, <1>12
<1> QED BY <1>3, <1>4, <1>5, <1>8, <1>9, <1>10, <1>11, <1>12, <1>13, <1>f, CallStep

LEMMA RemoveFailsKeeps ==
  ASSUME FilesInv, RemoveFails
  PROVE  FilesInv'
<1> DEFINE f == op.file
           o == obj[f]
           e == entry[f]
           x == Ended(o, TRUE)
<1>1. op.at \in {"cut", "free"} /\ Fails
  <2>1. op.at = "free" => GetFat(o, op.clst) # 1
    <3>1. PICK tp \in [Cluster -> Nat] : CutOff(tp)
      BY DEF FilesInv
    <3> QED BY <3>1, CutOffLinks
  <2> QED BY <2>1 DEF RemoveFails
<1>2. /\ obj' = [obj EXCEPT ![f] = x] /\ op' = Idle
      /\ IF op.at = "cut" /\ op.pclst = 0 THEN Forget(f, 0) ELSE holds' = holds
      /\ UNCHANGED <<type, fat, bitmap, free_clst, last_clst, entry>>
  BY DEF RemoveFails
<1>3. op # Idle
  BY <1>1, IdleIs
<1>4. /\ f \in File /\ f # None /\ op \in CallRecord /\ o \in FileObject /\ e \in EntryRecord /\ EntryOK(type, e)
      /\ op.at = "cut" => Cutting(type, holds, fat, e, o, op, f)
      /\ op.at = "free" => Freeing(type, holds, fat, e, o, op, f)
      /\ Placed(holds) /\ TypeOK /\ faults \in Nat
  BY <1>1, <1>3, Current, TypeIs DEF FilesInv
<1>5. entry' = [entry EXCEPT ![f] = e] /\ op.file = f
  BY <1>2, <1>4, Unchanged
<1>6. type = "FAT" /\ faults' # 0 /\ faults' \in Nat /\ faults <= faults' /\ faults' \in 0..MaxFaults
  BY <1>1, <1>4, TypeIs DEF Fails
<1>7. last_clst \in 0..LastCluster /\ fat \in [Cluster -> Link]
  BY <1>4, TypeIs
<1> HIDE DEF f, o, e
<1>8. Behind(type, holds, e, o, op, f)
  BY <1>1, <1>4 DEF Cutting, Freeing
<1> SUFFICES
      /\ x \in FileObject
      /\ Rests(type, holds', fat, faults', e, IF x.open THEN x ELSE Object(e, FALSE, FALSE, FALSE), f)
      /\ \/ holds' = holds
         \/ holds' = [c \in Cluster |-> IF c \in Of(holds, f) THEN Nothing ELSE holds[c]] /\ faults' # 0
  <2>1. Idle.at # "free" /\ Idle.file # f /\ Idle.file \in {f, None} /\ Idle \in CallRecord
    BY <1>4, IdleIs
  <2>2. /\ fat' \in [Cluster -> Link] /\ last_clst' \in 0..LastCluster /\ fat' = fat /\ type' = type
        /\ bitmap' = bitmap /\ free_clst' = free_clst /\ (type = "exFAT" => faults' = 0)
        /\ (op.at = "free" => type = "FAT" /\ faults' # 0)
    BY <1>2, <1>6, <1>7
  <2> HIDE DEF x
  <2>3. Rests(type, holds', fat', faults', e, IF x.open THEN x ELSE Object(e, FALSE, FALSE, FALSE), f)
    BY <2>2
  <2> QED BY <1>2, <1>4, <1>5, <1>6, <2>1, <2>2, <2>3, CallStep
<1>9. CASE op.at = "cut" /\ op.pclst = 0
  <2>1. Forget(f, 0)
    BY <1>2, <1>9
  <2>2. /\ holds' = [c \in Cluster |-> IF c \in Of(holds, f) THEN Nothing ELSE holds[c]]
        /\ Placed(holds') /\ Of(holds', f) = {}
    BY <1>4, <2>1, ForgetAll
  <2>3. o.fptr = 0
    <3>1. o.fptr # 0 => op.pclst \in Cluster
      BY <1>4, <1>8 DEF Behind, Positioned, AtPart, Of, FileObject
    <3> QED BY <1>9, <3>1, ClusterIs
  <2>4. Behind(type, holds', e, o, op, f)
    BY <1>8, <2>3 DEF Behind, Positioned
  <2>5. AtMost(holds', f, Parts(o.fptr))
    BY <2>2 DEF AtMost
  <2> HIDE DEF x
  <2>6. x \in FileObject /\ Rests(type, holds', fat, faults', e, IF x.open THEN x ELSE Object(e, FALSE, FALSE, FALSE), f)
    BY <1>4, <1>6, <1>9, <2>2, <2>4, <2>5, EndedRests DEF x
  <2> QED BY <1>6, <2>2, <2>6
<1>10. CASE op.at = "free"
  <2>1. /\ AtMost(holds, f, Parts(o.fptr)) /\ holds' = holds
        /\ op.pclst # 0 => Laid(type, holds, fat, o, f) /\ (o.stat # 2 => fat[op.pclst] = EOC)
    BY <1>2, <1>4, <1>10 DEF Freeing
  <2> HIDE DEF x
  <2>2. x \in FileObject /\ Rests(type, holds, fat, faults', e, IF x.open THEN x ELSE Object(e, FALSE, FALSE, FALSE), f)
    BY <1>4, <1>6, <1>8, <2>1, EndedRests DEF x
  <2> QED BY <2>1, <2>2
<1>11. CASE op.at = "cut" /\ op.pclst # 0
  <2>1. holds' = holds /\ Chained(type, holds, fat, o, f) /\ o.fptr # 0
    BY <1>2, <1>4, <1>8, <1>11 DEF Cutting, Behind
  <2>2. op.call = "truncate" /\ o.open /\ o.n_frag = 0 /\ Positioned(holds, o, f)
    BY <1>8, <2>1 DEF Behind
  <2>3. x = [o EXCEPT !.stat = o.stat, !.objsize = o.fptr, !.modified = TRUE, !.err = TRUE]
    <3>1. x = [o EXCEPT !.sclust = o.sclust, !.stat = o.stat, !.objsize = o.fptr, !.modified = TRUE, !.err = TRUE]
      BY <1>6, <1>11, <2>2 DEF Ended
    <3> QED BY <1>4, <3>1 DEF FileObject
  <2>4. /\ x \in FileObject /\ x.open /\ x.modified /\ x.err /\ x.sclust = o.sclust /\ x.stat = o.stat
        /\ x.n_frag = o.n_frag /\ x.objsize = o.fptr /\ x.fptr = o.fptr /\ x.n_cont = o.n_cont
    BY <1>4, <2>2, <2>3 DEF FileObject
  <2> HIDE DEF x
  <2>5. Chained(type, holds, fat, x, f)
    BY <1>4, <1>6, <2>1, <2>4, LiesOnFAT, ShortOnFAT
  <2>6. Rests(type, holds, fat, faults', e, x, f)
    BY <1>6, <2>4, <2>5 DEF Rests
  <2> QED BY <2>1, <2>4, <2>6
<1> QED BY <1>1, <1>9, <1>10, <1>11

\* h2 is h without what is behind the k-th part of f.
Forgotten(h, h2, f, k) ==
    /\ Placed(h2) /\ h2 \in [Cluster -> {Nothing} \cup [file : File, part : Nat \ {0}]]
    /\ \A c \in Of(h2, f) : c \in Of(h, f) /\ h2[c] = h[c] /\ h[c].part <= k
    /\ \A c \in Of(h, f) : h[c].part <= k => c \in Of(h2, f) /\ h2[c] = h[c]
    /\ \A c \in Of(h, f) : h[c].part > k => h2[c] = Nothing
    /\ \A c \in Cluster : h2[c] # Nothing => h2[c] = h[c]
    /\ \A c \in Cluster : h[c] # Nothing /\ h2[c] = Nothing => c \in Of(h, f) /\ h[c].part > k
    /\ \A g \in File \ {f} : Of(h2, g) = Of(h, g) /\ \A c \in Of(h, g) : h2[c] = h[c]

LEMMA ForgetBehind ==
  ASSUME NEW h, Placed(h), NEW f \in File, NEW k \in Nat, NEW h2,
         h2 = [c \in Cluster |-> IF c \in Of(h, f) /\ h[c].part > k THEN Nothing ELSE h[c]]
  PROVE  Forgotten(h, h2, f, k)
<1>0. h \in [Cluster -> {Nothing} \cup [file : File, part : Nat \ {0}]]
  BY DEF Placed
<1>1. h2 \in [Cluster -> {Nothing} \cup [file : File, part : Nat \ {0}]]
  BY <1>0
<1>2. \A c \in Cluster : h2[c] = IF c \in Of(h, f) /\ h[c].part > k THEN Nothing ELSE h[c]
  OBVIOUS
<1>3. Nothing.file = None /\ None \notin File
  BY VolumeAssumption DEF Nothing
<1>4. /\ \A c \in Of(h, f) : c \in Cluster /\ h[c].file = f /\ h[c].part \in Nat \ {0}
      /\ \A g \in File : \A c \in Of(h, g) : c \in Cluster /\ h[c].file = g /\ h[c].part \in Nat \ {0}
      /\ \A g \in File : \A c \in Cluster : c \in Of(h2, g) <=> h2[c].file = g
      /\ \A g \in File : \A c \in Cluster : c \in Of(h, g) <=> h[c].file = g
  BY HoldsIs DEF Of
<1>5. \A c \in Of(h2, f) : c \in Of(h, f) /\ h2[c] = h[c] /\ h[c].part <= k
  <2> SUFFICES ASSUME NEW c \in Of(h2, f) PROVE c \in Of(h, f) /\ h2[c] = h[c] /\ h[c].part <= k
    OBVIOUS
  <2>1. c \in Cluster /\ h2[c].file = f
    BY DEF Of
  <2>2. ~(c \in Of(h, f) /\ h[c].part > k)
    BY <1>2, <1>3, <2>1
  <2> QED BY <1>2, <1>4, <2>1, <2>2
<1>6. \A c \in Of(h, f) : h[c].part <= k => c \in Of(h2, f) /\ h2[c] = h[c]
  <2> SUFFICES ASSUME NEW c \in Of(h, f), h[c].part <= k PROVE c \in Of(h2, f) /\ h2[c] = h[c]
    OBVIOUS
  <2>1. c \in Cluster /\ h[c].file = f /\ ~(h[c].part > k)
    BY <1>4
  <2> QED BY <1>2, <1>4, <2>1
<1>7. \A g \in File \ {f} : \A c \in Of(h, g) : h2[c] = h[c] /\ c \in Of(h2, g)
  BY <1>2, <1>4
<1>8. \A g \in File \ {f} : \A c \in Of(h2, g) : c \in Of(h, g)
  <2> SUFFICES ASSUME NEW g \in File \ {f}, NEW c \in Of(h2, g) PROVE c \in Of(h, g)
    OBVIOUS
  <2>1. c \in Cluster /\ h2[c].file = g
    BY DEF Of
  <2> QED BY <1>2, <1>3, <1>4, <2>1
<1>9. \A g \in File \ {f} : Of(h2, g) = Of(h, g)
  BY <1>7, <1>8
<1>10. \A g \in File : \A c \in Of(h2, g) : c \in Of(h, g) /\ h2[c] = h[c]
  BY <1>5, <1>7, <1>8
<1>11. ASSUME NEW g \in File, NEW c \in Of(h2, g), NEW j \in 1..h2[c].part PROVE HasPart(h2, g, j)
  <2>1. c \in Of(h, g) /\ h2[c] = h[c] /\ h[c].part \in Nat
    BY <1>4, <1>10
  <2>2. PICK d \in Of(h, g) : h[d].part = j
    BY <2>1 DEF Placed, HasPart
  <2>3. d \in Of(h2, g) /\ h2[d] = h[d]
    <3>1. CASE g = f
      <4>1. h[c].part <= k
        BY <1>5, <3>1
      <4>2. j <= k
        BY <2>1, <4>1
      <4> QED BY <1>6, <2>2, <3>1, <4>2
    <3>2. CASE g # f
      BY <1>7, <3>2
    <3> QED BY <3>1, <3>2
  <2> QED BY <2>2, <2>3 DEF HasPart
<1>12. ASSUME NEW g \in File, NEW c \in Of(h2, g), NEW d \in Of(h2, g), h2[c].part = h2[d].part PROVE c = d
  BY <1>10, <1>12 DEF Placed
<1>13. Placed(h2)
  BY <1>1, <1>11, <1>12 DEF Placed
<1>14. \A c \in Of(h, f) : h[c].part > k => h2[c] = Nothing
  BY <1>2, <1>4
<1>15. /\ \A c \in Cluster : h2[c] # Nothing => h2[c] = h[c]
       /\ \A c \in Cluster : h[c] # Nothing /\ h2[c] = Nothing => c \in Of(h, f) /\ h[c].part > k
  BY <1>2
<1> HIDE DEF Nothing
<1> QED BY <1>1, <1>5, <1>6, <1>7, <1>9, <1>13, <1>14, <1>15 DEF Forgotten

\* What is behind the k-th part of f, from the cluster c on, is cut off: tp numbers it, and
\* the links of t2 lead through it.
LeftBehind(h, t2, f, o, k, c, tp) ==
    /\ tp \in [Cluster -> Nat] /\ tp[c] > 0
    /\ \A x, y \in Cluster : tp[x] > 0 /\ tp[x] = tp[y] => x = y
    /\ \A x \in Cluster : tp[x] > 0 =>
         /\ tp[c] <= tp[x]
         /\ \A j \in tp[c] .. tp[x] : \E d \in Cluster : tp[d] = j
         /\ LET next == LinkOf(type, t2, o, x) IN
            IF \E d \in Cluster : tp[d] = tp[x] + 1 THEN next \in Cluster /\ tp[next] = tp[x] + 1
            ELSE next = EOC
    /\ \A x \in Cluster : tp[x] > 0 <=> x \in Of(h, f) /\ h[x].part > k

LEMMA CutOffBegins ==
  ASSUME NEW h, Placed(h), NEW t, NEW f \in File, NEW o \in FileObject, o.n_frag = 0, type \in {"FAT", "exFAT"},
         Chained(type, h, t, o, f), NEW k \in Nat, NEW c \in Of(h, f), h[c].part = k + 1,
         NEW t2, \A d \in Of(h, f) : h[d].part > k => t2[d] = t[d],
         NEW tp, tp = [d \in Cluster |-> IF d \in Of(h, f) /\ h[d].part > k THEN h[d].part ELSE 0]
  PROVE  LeftBehind(h, t2, f, o, k, c, tp)
<1>1. \A d \in Of(h, f) : d \in Cluster /\ h[d].part \in Nat \ {0}
  BY HoldsIs
<1>2. /\ \A x, y \in Of(h, f) : h[x].part = h[y].part => x = y
      /\ \A x \in Of(h, f) : \A j \in 1..h[x].part : HasPart(h, f, j)
  BY DEF Placed
<1>3. \A d \in Cluster : tp[d] = IF d \in Of(h, f) /\ h[d].part > k THEN h[d].part ELSE 0
  OBVIOUS
<1>4. tp \in [Cluster -> Nat]
  BY <1>1
<1>5. \A x \in Cluster : tp[x] > 0 <=> x \in Of(h, f) /\ h[x].part > k
  BY <1>1, <1>3
<1>6. \A x \in Cluster : tp[x] > 0 => x \in Of(h, f) /\ h[x].part > k /\ tp[x] = h[x].part
  BY <1>3, <1>5
<1>7. tp[c] = k + 1 /\ tp[c] > 0
  BY <1>1, <1>3
<1>8. ASSUME NEW j \in Nat, j > k, HasPart(h, f, j) PROVE \E d \in Cluster : tp[d] = j
  BY <1>1, <1>3, <1>8 DEF HasPart
<1>9. \A x, y \in Cluster : tp[x] > 0 /\ tp[x] = tp[y] => x = y
  BY <1>2, <1>6
<1>10. ASSUME NEW x \in Cluster, tp[x] > 0
       PROVE  /\ tp[c] <= tp[x]
              /\ \A j \in tp[c] .. tp[x] : \E d \in Cluster : tp[d] = j
              /\ LET next == LinkOf(type, t2, o, x) IN
                 IF \E d \in Cluster : tp[d] = tp[x] + 1 THEN next \in Cluster /\ tp[next] = tp[x] + 1
                 ELSE next = EOC
  <2>1. x \in Of(h, f) /\ h[x].part > k /\ tp[x] = h[x].part /\ tp[x] \in Nat
    BY <1>1, <1>6, <1>10
  <2>2. tp[c] <= tp[x]
    BY <1>7, <2>1
  <2>3. ASSUME NEW j \in tp[c] .. tp[x] PROVE \E d \in Cluster : tp[d] = j
    <3>1. j \in Nat /\ j > k /\ j \in 1..h[x].part
      BY <1>7, <2>1
    <3>2. HasPart(h, f, j)
      BY <1>2, <2>1, <3>1
    <3> QED BY <1>8, <3>1, <3>2
  <2> DEFINE next == LinkOf(type, t2, o, x)
  <2>4. next = LinkOf(type, t, o, x)
    <3>1. t2[x] = t[x]
      BY <2>1
    <3> QED BY <3>1 DEF LinkOf
  <2>5. IF HasPart(h, f, h[x].part + 1) THEN next \in Of(h, f) /\ h[next].part = h[x].part + 1 ELSE next = EOC
    BY <2>1, <2>4, NextIs
  <2> HIDE DEF next
  <2>6. (\E d \in Cluster : tp[d] = tp[x] + 1) <=> HasPart(h, f, h[x].part + 1)
    <3>1. ASSUME NEW d \in Cluster, tp[d] = tp[x] + 1 PROVE HasPart(h, f, h[x].part + 1)
      BY <1>6, <2>1, <3>1 DEF HasPart
    <3>2. ASSUME HasPart(h, f, h[x].part + 1) PROVE \E d \in Cluster : tp[d] = tp[x] + 1
      BY <1>8, <2>1, <3>2
    <3> QED BY <3>1, <3>2
  <2>7. next \in Of(h, f) /\ h[next].part = h[x].part + 1 => next \in Cluster /\ tp[next] = tp[x] + 1
    BY <1>1, <1>3, <2>1
  <2>8. IF \E d \in Cluster : tp[d] = tp[x] + 1 THEN next \in Cluster /\ tp[next] = tp[x] + 1 ELSE next = EOC
    BY <2>5, <2>6, <2>7
  <2> QED BY <2>2, <2>3, <2>8 DEF next
<1> QED BY <1>4, <1>5, <1>7, <1>9, <1>10 DEF LeftBehind

LEMMA CutKeeps ==
  ASSUME FilesInv, Cut
  PROVE  FilesInv'
<1> DEFINE f == op.file
           o == obj[f]
           e == entry[f]
           p == op.pclst
           k == Parts(o.fptr)
           q == [op EXCEPT !.at = "free"]
<1>1. /\ op.at = "cut" /\ op' = q
      /\ fat' = (IF p # 0 /\ (type = "FAT" \/ o.stat # 2) THEN [fat EXCEPT ![p] = EOC] ELSE fat)
      /\ Forget(f, IF p = 0 THEN 0 ELSE holds[p].part)
      /\ UNCHANGED <<type, bitmap, free_clst, last_clst, entry, obj, faults>>
  BY DEF Cut
<1>2. /\ f \in File /\ f # None /\ op \in CallRecord /\ o \in FileObject /\ e \in EntryRecord /\ EntryOK(type, e)
      /\ Cutting(type, holds, fat, e, o, op, f) /\ Placed(holds) /\ TypeOK /\ op.call # "none"
  <2>1. op # Idle
    BY <1>1, IdleIs
  <2> QED BY <1>1, <2>1, Current DEF FilesInv
<1>3. op.file = f /\ obj'[f] = o /\ entry'[f] = e
  BY <1>1
<1>4. /\ fat \in [Cluster -> Link] /\ faults \in Nat /\ type \in {"FAT", "exFAT"} /\ o.fptr \in Nat /\ k \in Nat
      /\ (type = "exFAT" => faults = 0)
  BY <1>2, TypeIs, PartsType DEF FilesInv, FileObject
<1> HIDE DEF f, o, e
<1>5. /\ Behind(type, holds, e, o, op, f) /\ Chained(type, holds, fat, o, f)
      /\ op.clst \in Of(holds, f) /\ holds[op.clst].part = k + 1
      /\ op.scl = op.clst /\ op.ecl = op.clst
  BY <1>2 DEF Cutting
<1>6. o.n_frag = 0 /\ p = (IF o.fptr = 0 THEN 0 ELSE o.clust) /\ Positioned(holds, o, f)
  BY <1>5 DEF Behind
<1>7. /\ p = 0 => k = 0
      /\ p # 0 => o.fptr > 0 /\ p = o.clust /\ p \in Of(holds, f) /\ p \in Cluster /\ holds[p].part = k
  <2>1. o.fptr # 0 => o.clust \in Of(holds, f) /\ o.clust # 0 /\ holds[o.clust].part = k /\ o.clust \in Cluster
    BY <1>4, <1>6, ClusterIs DEF Positioned, AtPart, Of
  <2> QED BY <1>4, <1>6, <2>1, PartsOfNone
<1> HIDE DEF p, k
<1>8. holds' = [c \in Cluster |-> IF c \in Of(holds, f) /\ holds[c].part > k THEN Nothing ELSE holds[c]]
  <2>1. (IF p = 0 THEN 0 ELSE holds[p].part) = k
    BY <1>7
  <2> QED BY <1>1, <2>1 DEF Forget, IsOf, Of
<1>9. /\ Placed(holds') /\ holds' \in [Cluster -> {Nothing} \cup [file : File, part : Nat \ {0}]]
      /\ \A c \in Of(holds', f) : c \in Of(holds, f) /\ holds'[c] = holds[c] /\ holds[c].part <= k
      /\ \A c \in Of(holds, f) : holds[c].part <= k => c \in Of(holds', f) /\ holds'[c] = holds[c]
      /\ \A c \in Of(holds, f) : holds[c].part > k => holds'[c] = Nothing
      /\ \A c \in Cluster : holds'[c] # Nothing => holds'[c] = holds[c]
      /\ \A c \in Cluster : holds[c] # Nothing /\ holds'[c] = Nothing => c \in Of(holds, f) /\ holds[c].part > k
      /\ \A g \in File \ {f} : Of(holds', g) = Of(holds, g) /\ \A c \in Of(holds, g) : holds'[c] = holds[c]
  <2>1. Forgotten(holds, holds', f, k)
    BY <1>2, <1>4, <1>8, ForgetBehind
  <2> QED BY <2>1 DEF Forgotten
<1>10. /\ fat' \in [Cluster -> Link]
       /\ \A c \in Cluster : c # p => fat'[c] = fat[c]
       /\ p # 0 /\ o.stat # 2 => fat'[p] = EOC
  <2>1. EOC \in Link
    BY DEF Link
  <2> QED BY <1>1, <1>4, <1>7, <2>1
<1>11. \A c \in Of(holds, f) : c \in Cluster /\ holds[c].part \in Nat \ {0}
  BY <1>2, HoldsIs
<1>12. /\ q \in CallRecord /\ q.call = op.call /\ q.file = f /\ q.at = "free" /\ q.n = op.n /\ q.pclst = p
       /\ q.clst = op.clst /\ q.scl = op.clst /\ q.ecl = op.clst /\ op.clst \in Cluster
  BY <1>2, <1>3, <1>5, <1>11 DEF CallRecord, p
<1> HIDE DEF q
<1>13. Behind(type, holds', e, o, q, f)
  <2>1. Positioned(holds', o, f)
    <3> SUFFICES ASSUME o.fptr > 0 PROVE AtPart(holds', o, f, k)
      BY DEF Positioned, k
    <3>1. o.clust \in Of(holds, f) /\ holds[o.clust].part = k
      BY <1>6 DEF Positioned, AtPart, k
    <3> QED BY <1>4, <1>9, <3>1 DEF AtPart
  <2> QED BY <1>5, <1>12, <2>1 DEF Behind, p
<1>14. AtMost(holds', f, k)
  BY <1>9 DEF AtMost
<1>15. p # 0 => Laid(type, holds', fat', o, f) /\ (o.stat # 2 => fat'[p] = EOC)
  <2> SUFFICES ASSUME p # 0 PROVE Laid(type, holds', fat', o, f)
    BY <1>10
  <2>1. /\ Laid(type, holds, fat, o, f) /\ OnePiece(holds, o, f) /\ FirstPiece(holds, o, f)
        /\ InTable(holds, fat, o, f) /\ o.sclust # 0 /\ o.sclust \in Of(holds, f) /\ holds[o.sclust].part = 1
        /\ (type = "FAT" => o.stat = 0)
    BY <1>5, <1>7 DEF Chained, Lies, Laid
  <2>2. o.sclust \in Of(holds', f) /\ holds'[o.sclust].part = 1
    <3>1. 1 <= k
      BY <1>4, <1>7, <1>11
    <3> QED BY <1>9, <2>1, <3>1
  <2>3. OnePiece(holds', o, f) /\ FirstPiece(holds', o, f) /\ LastPiece(holds', o, f)
    BY <1>6, <1>9, <2>1 DEF OnePiece, FirstPiece, LastPiece
  <2>4. InTable(holds', fat', o, f)
    <3> SUFFICES ASSUME o.stat # 2, NEW c \in Of(holds', f), NEW d \in Of(holds', f), holds'[d].part = holds'[c].part + 1
                 PROVE  (o.stat = 3 /\ holds'[c].part <= o.n_cont) \/ fat'[c] = d
      BY DEF InTable
    <3>1. /\ c \in Of(holds, f) /\ d \in Of(holds, f) /\ holds'[c] = holds[c] /\ holds'[d] = holds[d]
          /\ holds[d].part = holds[c].part + 1 /\ holds[d].part <= k
      BY <1>9
    <3>2. c # p
      BY <1>4, <1>7, <1>11, <3>1
    <3>3. fat'[c] = fat[c]
      BY <1>10, <1>11, <3>1, <3>2
    <3>4. (o.stat = 3 /\ holds[c].part <= o.n_cont) \/ fat[c] = d
      BY <1>6, <2>1, <3>1 DEF InTable
    <3> QED BY <3>1, <3>3, <3>4
  <2> QED BY <2>1, <2>2, <2>3, <2>4 DEF Laid
<1>16. Freeing(type, holds', fat', e, o, q, f)
  BY <1>12, <1>13, <1>14, <1>15, ClusterIs DEF Freeing, k
<1>17. Busy(type, holds', fat', faults', e, o, q, f)
  BY <1>16 DEF Busy
<1>18. InUse' = InUse /\ FreeClusters' = FreeClusters
  <2>1. \A c \in Cluster : holds[c] # Nothing => c \in InUse
    BY DEF FilesInv
  <2>2. p # 0 => p \in InUse
    BY <1>2, <1>7, <2>1, HoldsIs
  <2>3. InUse' = InUse
    <3>1. CASE type = "FAT"
      <4>1. p # 0 => fat[p] # 0
        BY <2>2, <3>1 DEF InUse
      <4>2. EOC # 0
        BY ClusterIs
      <4>3. \A c \in Cluster : fat'[c] # 0 <=> fat[c] # 0
        <5>1. p # 0 => fat'[p] # 0
          BY <1>1, <1>4, <1>7, <3>1, <4>2
        <5>2. p = 0 => p \notin Cluster
          BY ClusterIs
        <5> QED BY <1>10, <4>1, <5>1, <5>2
      <4> QED BY <1>1, <3>1, <4>3 DEF InUse
    <3>2. CASE type # "FAT"
      BY <1>1, <3>2 DEF InUse
    <3> QED BY <3>1, <3>2
  <2> QED BY <2>3 DEF FreeClusters
<1>19. Pending = {} /\ Pending' = {}
  <2>1. op.clst .. op.clst - 1 = {}
    BY <1>12, ClusterIs
  <2> QED BY <1>1, <1>12, <2>1 DEF Pending
<1>20. Accounted'
  <2>1. PICK tp : tp = [d \in Cluster |-> IF d \in Of(holds, f) /\ holds[d].part > k THEN holds[d].part ELSE 0]
    OBVIOUS
  <2>2. \A d \in Of(holds, f) : holds[d].part > k => fat'[d] = fat[d]
    <3>1. \A d \in Of(holds, f) : holds[d].part > k => d # p
      BY <1>4, <1>7, <1>11, ClusterIs
    <3> QED BY <1>10, <1>11, <3>1
  <2>3. /\ tp \in [Cluster -> Nat] /\ tp[op.clst] > 0
        /\ \A x, y \in Cluster : tp[x] > 0 /\ tp[x] = tp[y] => x = y
        /\ \A x \in Cluster : tp[x] > 0 =>
              /\ tp[op.clst] <= tp[x]
              /\ \A j \in tp[op.clst] .. tp[x] : \E d \in Cluster : tp[d] = j
              /\ LET next == LinkOf(type, fat', o, x) IN
                 IF \E d \in Cluster : tp[d] = tp[x] + 1 THEN next \in Cluster /\ tp[next] = tp[x] + 1
                 ELSE next = EOC
        /\ \A x \in Cluster : tp[x] > 0 <=> x \in Of(holds, f) /\ holds[x].part > k
    <3>1. LeftBehind(holds, fat', f, o, k, op.clst, tp)
      BY <1>2, <1>4, <1>5, <1>6, <2>1, <2>2, CutOffBegins
    <3> QED BY <3>1 DEF LeftBehind
  <2>4. \A c \in Cluster : tp[c] > 0 => holds'[c] = Nothing /\ c \in InUse' \ Pending'
    <3>1. \A c \in Of(holds, f) : c \in InUse
      BY <1>2, <1>11, HoldsIs DEF FilesInv
    <3> QED BY <1>9, <1>18, <1>19, <2>3, <3>1
  <2>5. CutOff(tp)'
    <3>1. op'.at = "free" /\ op'.clst = op.clst /\ obj'[op'.file] = o /\ type' = type
      BY <1>1, <1>3, <1>12
    <3> QED BY <1>12, <2>3, <2>4, <3>1 DEF CutOff
  <2>6. PICK tq \in [Cluster -> Nat] : CutOff(tq) /\ Counted(tq)
    BY DEF FilesInv
  <2>7. \A c \in Cluster : tq[c] = 0
    BY <1>1, <2>6 DEF CutOff
  <2>8. InUse \subseteq Cluster
    BY <1>2, TypeIs DEF InUse
  <2>9. Counted(tp)'
    <3>1. faults' = 0 => \A c \in InUse' : holds'[c] # Nothing \/ tp[c] > 0 \/ c \in Pending'
      <4> SUFFICES ASSUME faults = 0, NEW c \in InUse PROVE holds'[c] # Nothing \/ tp[c] > 0
        BY <1>1, <1>18
      <4>1. c \in Cluster /\ holds[c] # Nothing
        BY <1>19, <2>6, <2>7, <2>8 DEF Counted
      <4> QED BY <1>9, <2>3, <4>1
    <3> QED BY <1>1, <1>18, <1>19, <2>6, <3>1 DEF Counted
  <2>10. \A c \in Cluster : holds'[c] # Nothing => c \in InUse'
    <3>1. \A c \in Cluster : holds[c] # Nothing => c \in InUse
      BY DEF FilesInv
    <3> QED BY <1>9, <1>18, <3>1
  <2> QED BY <1>19, <2>3, <2>5, <2>9, <2>10 DEF Accounted
<1>21. TypeOK'
  <2>1. /\ type' \in Types /\ bitmap' \subseteq Cluster /\ free_clst' \in 0..Unknown /\ last_clst' \in 0..LastCluster
        /\ entry' \in [File -> EntryRecord] /\ obj' \in [File -> FileObject] /\ op' \in CallRecord
        /\ faults' \in 0..MaxFaults
    BY <1>1, <1>2, <1>12, TypeIs
  <2> QED BY <1>9, <1>10, <2>1 DEF TypeOK, EntryRecord, FileObject, CallRecord
<1>22. /\ op.file \in {f, None} /\ op'.file \in {f, None} /\ type' = type
       /\ \A i \in File \ {f} : entry'[i] = entry[i] /\ obj'[i] = obj[i]
       /\ \A i \in File \ {f} : Of(holds', i) = Of(holds, i)
                                /\ \A d \in Of(holds, i) : holds'[d] = holds[d] /\ fat'[d] = fat[d]
  <2>1. \A i \in File \ {f} : \A d \in Of(holds, i) : d \in Cluster /\ d # p
    <3> SUFFICES ASSUME NEW i \in File \ {f}, NEW d \in Of(holds, i) PROVE d \in Cluster /\ d # p
      OBVIOUS
    <3>1. d \in Cluster /\ d # 0 /\ d \notin Of(holds, f)
      BY ClusterIs DEF Of
    <3> QED BY <1>7, <3>1
  <2> QED BY <1>1, <1>3, <1>9, <1>10, <1>12, <2>1
<1>23. /\ EntryOK(type, entry'[f]) /\ op'.file = f /\ op'.call # "none"
       /\ Busy(type, holds', fat', faults', entry'[f], obj'[f], op', f)
  BY <1>1, <1>2, <1>3, <1>12, <1>17
<1>24. faults <= faults' /\ (type = "exFAT" => faults' = 0) /\ Placed(holds)'
  BY <1>1, <1>4, <1>9
<1> QED BY <1>2, <1>20, <1>21, <1>22, <1>23, <1>24, Frame

\* What may be taken, or waits to be marked free.
LEMMA ReadyIs ==
  ASSUME NEW S, NEW P, S \subseteq Cluster, P \subseteq S
  PROVE  /\ IsFiniteSet(Cluster \ S) /\ IsFiniteSet(P) /\ IsFiniteSet(Cluster \ (S \ P))
         /\ Cardinality(Cluster \ (S \ P)) = Cardinality(Cluster \ S) + Cardinality(P)
         /\ Cardinality(Cluster \ S) \in Nat /\ Cardinality(P) \in Nat
         /\ Cardinality(Cluster \ (S \ P)) <= Total
<1>1. IsFiniteSet(Cluster) /\ Cardinality(Cluster) = LastCluster - 1
  BY ClusterIs, FS_Interval DEF Cluster
<1>2. IsFiniteSet(Cluster \ S) /\ IsFiniteSet(P) /\ IsFiniteSet(Cluster \ (S \ P))
  <2>1. Cluster \ S \subseteq Cluster /\ P \subseteq Cluster /\ Cluster \ (S \ P) \subseteq Cluster
    OBVIOUS
  <2> QED BY <1>1, <2>1, FS_Subset
<1>3. Cluster \ (S \ P) = (Cluster \ S) \cup P /\ (Cluster \ S) \cap P = {}
  OBVIOUS
<1>4. Cardinality((Cluster \ S) \cup P) =
        Cardinality(Cluster \ S) + Cardinality(P) - Cardinality((Cluster \ S) \cap P)
  BY <1>2, FS_Union
<1>5. Cardinality({}) = 0
  BY FS_EmptySet
<1>6. Cardinality(Cluster \ S) \in Nat /\ Cardinality(P) \in Nat
  BY <1>2, FS_CardinalityType
<1>7. Cardinality(Cluster \ (S \ P)) = Cardinality(Cluster \ S) + Cardinality(P)
  <2>1. Cardinality(Cluster \ (S \ P)) = Cardinality(Cluster \ S) + Cardinality(P) - 0
    BY <1>3, <1>4, <1>5
  <2> DEFINE a == Cardinality(Cluster \ S)
             b == Cardinality(P)
  <2>2. a \in Nat /\ b \in Nat
    BY <1>6
  <2> HIDE DEF a, b
  <2>3. a + b - 0 = a + b
    BY <2>2
  <2> QED BY <2>1, <2>3 DEF a, b
<1>8. Cardinality(Cluster \ (S \ P)) <= Total
  <2>1. Cluster \ (S \ P) \subseteq Cluster
    OBVIOUS
  <2> HIDE DEF Cluster
  <2> QED BY <1>1, <2>1, FS_Subset DEF Total
<1> QED BY <1>2, <1>6, <1>7, <1>8

\* The first of what is cut off is freed, or waits for the rest of its block.
LEMMA OneFreed ==
  ASSUME FilesInv, op.at = "free", NEW c, c = op.clst, NEW nxt, nxt = GetFat(obj[op.file], c),
         type' = type, holds' = holds, faults' = faults, obj'[op'.file] = obj[op.file],
         \A d \in Cluster : d # c => fat'[d] = fat[d],
         op'.at = (IF nxt \in Cluster THEN "free" ELSE "freed"), op'.clst = nxt,
         free_clst' = Returned(free_clst),
         InUse' \subseteq InUse, Pending' \subseteq InUse', Pending' \subseteq Pending \cup {c},
         InUse' \ Pending' = (InUse \ Pending) \ {c}
  PROVE  Accounted'
<1>1. PICK tp \in [Cluster -> Nat] : CutOff(tp) /\ Counted(tp)
  BY DEF FilesInv
<1>2. /\ \A d \in Cluster : holds[d] # Nothing => d \in InUse
      /\ \A d \in Pending : d \in InUse /\ holds[d] = Nothing
      /\ InUse \subseteq Cluster /\ free_clst \in Nat /\ Total \in Nat
  <2>1. free_clst \in Nat /\ Total \in Nat /\ InUse \subseteq Cluster
    BY TypeIs, ClusterIs DEF FilesInv, Unknown, Total, InUse
  <2> QED BY <2>1 DEF FilesInv
<1>3. /\ c \in Cluster /\ tp[c] > 0 /\ tp[c] \in Nat
      /\ IF \E d \in Cluster : tp[d] = tp[c] + 1 THEN nxt \in Cluster /\ tp[nxt] = tp[c] + 1 ELSE nxt = EOC
  BY <1>1, CutOffLinks
<1>4. /\ \A d, i \in Cluster : tp[d] > 0 /\ tp[d] = tp[i] => d = i
      /\ \A d \in Cluster : tp[d] \in Nat
      /\ \A d \in Cluster : tp[d] > 0 => holds[d] = Nothing /\ d \in InUse \ Pending
  BY <1>1 DEF CutOff
<1>5. ASSUME NEW d \in Cluster, tp[d] > 0
      PROVE  /\ tp[c] <= tp[d]
             /\ \A k \in tp[c] .. tp[d] : \E i \in Cluster : tp[i] = k
             /\ IF \E i \in Cluster : tp[i] = tp[d] + 1
                THEN LinkOf(type, fat, obj[op.file], d) \in Cluster
                     /\ tp[LinkOf(type, fat, obj[op.file], d)] = tp[d] + 1
                ELSE LinkOf(type, fat, obj[op.file], d) = EOC
  BY <1>1, <1>5 DEF CutOff
<1>6. c \in InUse \ Pending /\ holds[c] = Nothing
  BY <1>3, <1>4
<1>7. PICK tq : tq = [d \in Cluster |-> IF d = c THEN 0 ELSE tp[d]]
  OBVIOUS
<1>8. /\ tq \in [Cluster -> Nat] /\ tq[c] = 0
      /\ \A d \in Cluster : tq[d] = IF d = c THEN 0 ELSE tp[d]
      /\ \A d \in Cluster : tq[d] > 0 => d # c /\ tq[d] = tp[d] /\ tp[d] > tp[c]
  <2>1. \A d \in Cluster : tq[d] = IF d = c THEN 0 ELSE tp[d]
    BY <1>7
  <2>2. tq \in [Cluster -> Nat]
    BY <1>4, <1>7
  <2>3. ASSUME NEW d \in Cluster, tq[d] > 0 PROVE d # c /\ tq[d] = tp[d] /\ tp[d] > tp[c]
    <3>1. d # c /\ tq[d] = tp[d]
      BY <2>1, <2>3
    <3>2. tp[c] <= tp[d] /\ tp[d] # tp[c]
      BY <1>3, <1>4, <1>5, <2>3, <3>1
    <3> QED BY <1>3, <1>4, <3>1, <3>2
  <2> QED BY <1>3, <2>1, <2>2, <2>3
<1>9. \A d \in Cluster : tq[d] > 0 => holds'[d] = Nothing /\ d \in InUse' \ Pending'
  BY <1>4, <1>8
<1>10. \A d, i \in Cluster : tq[d] > 0 /\ tq[d] = tq[i] => d = i
  BY <1>4, <1>8
<1>11. CutOff(tq)'
  <2>1. CASE nxt \in Cluster
    <3>1. tp[nxt] = tp[c] + 1
      BY <1>3, <2>1, ClusterIs
    <3>2. tq[nxt] = tp[c] + 1 /\ tq[nxt] > 0 /\ op'.at = "free" /\ op'.clst \in Cluster
      BY <1>3, <1>8, <2>1, <3>1
    <3>3. ASSUME NEW d \in Cluster, tq[d] > 0
          PROVE  /\ tq[nxt] <= tq[d]
                 /\ \A k \in tq[nxt] .. tq[d] : \E i \in Cluster : tq[i] = k
                 /\ IF \E i \in Cluster : tq[i] = tq[d] + 1
                    THEN LinkOf(type, fat', obj[op.file], d) \in Cluster
                         /\ tq[LinkOf(type, fat', obj[op.file], d)] = tq[d] + 1
                    ELSE LinkOf(type, fat', obj[op.file], d) = EOC
      <4>1. d # c /\ tq[d] = tp[d] /\ tp[d] > tp[c] /\ tp[d] > 0 /\ tp[d] \in Nat
        BY <1>3, <1>4, <1>8, <3>3
      <4>2. tq[nxt] <= tq[d]
        BY <1>3, <3>2, <4>1
      <4>3. ASSUME NEW k \in tq[nxt] .. tq[d] PROVE \E i \in Cluster : tq[i] = k
        <5>1. k \in tp[c] .. tp[d] /\ k # tp[c]
          BY <1>3, <3>2, <4>1
        <5>2. PICK i \in Cluster : tp[i] = k
          BY <1>5, <4>1, <5>1
        <5>3. i # c
          BY <5>1, <5>2
        <5> QED BY <1>8, <5>2, <5>3
      <4>4. LinkOf(type, fat', obj[op.file], d) = LinkOf(type, fat, obj[op.file], d)
        <5>1. fat'[d] = fat[d]
          BY <4>1
        <5> QED BY <5>1 DEF LinkOf
      <4>5. (\E i \in Cluster : tq[i] = tq[d] + 1) <=> (\E i \in Cluster : tp[i] = tp[d] + 1)
        <5>1. ASSUME NEW i \in Cluster, tq[i] = tq[d] + 1 PROVE tp[i] = tp[d] + 1
          BY <1>8, <4>1, <5>1
        <5>2. ASSUME NEW i \in Cluster, tp[i] = tp[d] + 1 PROVE tq[i] = tq[d] + 1
          <6>1. i # c
            BY <1>3, <4>1, <5>2
          <6> QED BY <1>8, <4>1, <5>2, <6>1
        <5> QED BY <5>1, <5>2
      <4> DEFINE next == LinkOf(type, fat, obj[op.file], d)
      <4>6. IF \E i \in Cluster : tp[i] = tp[d] + 1 THEN next \in Cluster /\ tp[next] = tp[d] + 1 ELSE next = EOC
        BY <1>5, <4>1
      <4> HIDE DEF next
      <4>7. next \in Cluster /\ tp[next] = tp[d] + 1 => tq[next] = tq[d] + 1
        <5>1. tp[next] = tp[d] + 1 => next # c
          BY <1>3, <4>1
        <5> QED BY <1>8, <4>1, <5>1
      <4>8. IF \E i \in Cluster : tq[i] = tq[d] + 1 THEN next \in Cluster /\ tq[next] = tq[d] + 1 ELSE next = EOC
        BY <4>5, <4>6, <4>7
      <4>9. IF \E i \in Cluster : tq[i] = tq[d] + 1
            THEN LinkOf(type, fat', obj[op.file], d) \in Cluster
                 /\ tq[LinkOf(type, fat', obj[op.file], d)] = tq[d] + 1
            ELSE LinkOf(type, fat', obj[op.file], d) = EOC
        BY <4>4, <4>8 DEF next
      <4> QED BY <4>2, <4>3, <4>9
    <3> QED BY <1>8, <1>9, <1>10, <3>2, <3>3 DEF CutOff
  <2>2. CASE nxt \notin Cluster
    <3>1. ~\E d \in Cluster : tp[d] = tp[c] + 1
      BY <1>3, <2>2
    <3>2. ASSUME NEW d \in Cluster, tq[d] > 0 PROVE FALSE
      <4>1. tp[d] > 0 /\ tp[c] + 1 \in tp[c] .. tp[d]
        BY <1>3, <1>4, <1>8, <3>2
      <4> QED BY <1>5, <3>1, <4>1
    <3>3. \A d \in Cluster : tq[d] = 0
      BY <1>8, <3>2
    <3>4. op'.at = "freed"
      BY <2>2
    <3> QED BY <1>8, <1>9, <1>10, <3>3, <3>4 DEF CutOff
  <2> QED BY <2>1, <2>2
<1>12. /\ Cardinality(FreeClusters') + Cardinality(Pending') = Cardinality(FreeClusters) + Cardinality(Pending) + 1
       /\ Cardinality(FreeClusters') + Cardinality(Pending') <= Total
       /\ Cardinality(FreeClusters) + Cardinality(Pending) \in Nat
  <2> DEFINE S == Cluster \ (InUse \ Pending)
             R == Cluster \ (InUse' \ Pending')
  <2>1. Pending \subseteq InUse /\ InUse' \subseteq Cluster /\ InUse \subseteq Cluster
    BY <1>2
  <2>2. /\ IsFiniteSet(S) /\ Cardinality(S) = Cardinality(FreeClusters) + Cardinality(Pending)
        /\ Cardinality(S) \in Nat
    <3>1. IsFiniteSet(S) /\ Cardinality(S) = Cardinality(FreeClusters) + Cardinality(Pending)
      BY <2>1, ReadyIs DEF FreeClusters
    <3> HIDE DEF S
    <3> QED BY <3>1, FS_CardinalityType
  <2>3. Cardinality(R) = Cardinality(FreeClusters') + Cardinality(Pending') /\ Cardinality(R) <= Total
    BY <2>1, ReadyIs DEF FreeClusters
  <2>4. R = S \cup {c} /\ c \notin S
    BY <1>3, <1>6
  <2> HIDE DEF S, R
  <2>5. Cardinality(R) = Cardinality(S) + 1
    BY <2>2, <2>4, FS_AddElement
  <2> QED BY <2>2, <2>3, <2>5
<1>13. faults' = 0 => \A d \in InUse' : holds'[d] # Nothing \/ tq[d] > 0 \/ d \in Pending'
  <2> SUFFICES ASSUME faults = 0, NEW d \in InUse', d \notin Pending' PROVE holds'[d] # Nothing \/ tq[d] > 0
    OBVIOUS
  <2>1. d \in InUse /\ d \notin Pending /\ d # c /\ d \in Cluster
    BY <1>2
  <2>2. holds[d] # Nothing \/ tp[d] > 0
    BY <1>1, <2>1 DEF Counted
  <2> QED BY <1>8, <2>1, <2>2
<1>14. Counted(tq)'
  <2>1. free_clst <= Total => /\ free_clst >= Cardinality(FreeClusters) + Cardinality(Pending)
                              /\ faults = 0 => free_clst = Cardinality(FreeClusters) + Cardinality(Pending)
    BY <1>1 DEF Counted
  <2> DEFINE m == Cardinality(FreeClusters) + Cardinality(Pending)
             n == Cardinality(FreeClusters') + Cardinality(Pending')
  <2>2. n = m + 1 /\ n <= Total /\ m \in Nat
    BY <1>12
  <2>3. free_clst <= Total => free_clst >= m /\ (faults = 0 => free_clst = m)
    BY <2>1
  <2> HIDE DEF m, n
  <2>4. free_clst' <= Total => free_clst' >= n /\ (faults' = 0 => free_clst' = n)
    BY <1>2, <2>2, <2>3 DEF Returned
  <2>5. free_clst' <= Total => /\ free_clst' >= Cardinality(FreeClusters') + Cardinality(Pending')
                               /\ faults' = 0 => free_clst' = Cardinality(FreeClusters') + Cardinality(Pending')
    BY <2>4 DEF n
  <2> QED BY <1>13, <2>5 DEF Counted
<1>15. \A d \in Cluster : holds'[d] # Nothing => d \in InUse'
  <2> SUFFICES ASSUME NEW d \in Cluster, holds[d] # Nothing PROVE d \in InUse'
    OBVIOUS
  <2>1. d \in InUse /\ d \notin Pending /\ d # c
    BY <1>2, <1>6
  <2> QED BY <2>1
<1>16. \A d \in Pending' : d \in InUse' /\ holds'[d] = Nothing
  BY <1>2, <1>6
<1> QED BY <1>8, <1>11, <1>14, <1>15, <1>16 DEF Accounted

\* One turn of the loop in remove_chain.
LEMMA FreeOneKeeps ==
  ASSUME FilesInv, FreeOne
  PROVE  FilesInv'
<1> DEFINE f == op.file
           o == obj[f]
           e == entry[f]
           c == op.clst
           nxt == GetFat(o, c)
           s == IF op.ecl + 1 = nxt THEN op.scl ELSE nxt
           q == [op EXCEPT !.clst = nxt, !.at = IF nxt \in Cluster THEN "free" ELSE "freed",
                           !.scl = s, !.ecl = nxt]
<1>1. /\ op.at = "free" /\ op' = q /\ free_clst' = Returned(free_clst)
      /\ IF type = "FAT" THEN fat' = [fat EXCEPT ![c] = 0] /\ bitmap' = bitmap
         ELSE fat' = fat /\ bitmap' = FreedBits(nxt)
      /\ UNCHANGED <<type, last_clst, entry, obj, holds, faults>>
  <2>1. op' = q
    BY DEF FreeOne
  <2> QED BY <2>1 DEF FreeOne
<1>2. /\ f \in File /\ f # None /\ op \in CallRecord /\ o \in FileObject /\ e \in EntryRecord /\ EntryOK(type, e)
      /\ Freeing(type, holds, fat, e, o, op, f) /\ Placed(holds) /\ TypeOK /\ op.call # "none"
  <2>1. op # Idle
    BY <1>1, IdleIs
  <2> QED BY <1>1, <2>1, Current DEF FilesInv
<1>3. op.file = f /\ obj'[f] = o /\ entry'[f] = e
  BY <1>1
<1>4. /\ fat \in [Cluster -> Link] /\ faults \in Nat /\ type \in {"FAT", "exFAT"} /\ bitmap \subseteq Cluster
      /\ free_clst \in 0..Unknown /\ (type = "exFAT" => faults = 0)
  BY <1>2, TypeIs DEF FilesInv
<1>5. PICK tp \in [Cluster -> Nat] : CutOff(tp)
  BY DEF FilesInv
<1>6. c \in Cluster /\ tp[c] > 0 /\ nxt \in Nat /\ (nxt \in Cluster \/ nxt = EOC) /\ nxt \in 0..EOC
  <2>1. c \in Cluster /\ tp[c] > 0 /\ nxt \in Nat /\ (nxt \in Cluster \/ nxt = EOC)
    BY <1>1, <1>5, CutOffLinks
  <2> HIDE DEF nxt
  <2> QED BY <2>1, ClusterIs
<1>7. holds[c] = Nothing /\ c \in InUse /\ c \notin Pending
  BY <1>5, <1>6 DEF CutOff
<1>8. \A g \in File : c \notin Of(holds, g)
  BY <1>2, <1>6, <1>7, HoldsIs
<1>9. op.ecl = c /\ op.scl \in Cluster /\ op.scl <= c
  BY <1>1, <1>2 DEF Freeing
<1>10. \A g \in File : Of(holds', g) = Of(holds, g)
                       /\ \A d \in Of(holds, g) : holds'[d] = holds[d] /\ fat'[d] = fat[d]
  <2>1. ASSUME NEW g \in File, NEW d \in Of(holds, g) PROVE fat'[d] = fat[d]
    <3>1. d # c
      BY <1>8, <2>1
    <3> QED BY <1>1, <1>4, <1>6, <3>1 DEF Of
  <2> QED BY <1>1, <2>1
<1>11. \A d \in Cluster : d # c => fat'[d] = fat[d]
  BY <1>1, <1>4, <1>6
<1>12. /\ q \in CallRecord /\ q.call = op.call /\ q.file = f /\ q.n = op.n /\ q.pclst = op.pclst
       /\ q.at = (IF nxt \in Cluster THEN "free" ELSE "freed") /\ q.clst = nxt /\ q.ecl = nxt /\ q.scl = s
       /\ s \in 0..EOC /\ (nxt \in Cluster => s \in Cluster /\ s <= nxt)
  <2>1. s \in 0..EOC /\ (nxt \in Cluster => s \in Cluster /\ s <= nxt)
    <3> HIDE DEF nxt
    <3> QED BY <1>6, <1>9, ClusterIs
  <2> HIDE DEF nxt, s, f
  <2> QED BY <1>2, <1>3, <1>6, <2>1 DEF CallRecord
<1>13. Pending = (IF type = "exFAT" THEN op.scl .. c - 1 ELSE {})
  BY <1>1, <1>9 DEF Pending
<1>14. Pending' = (IF type = "exFAT" /\ nxt \in Cluster THEN s .. nxt - 1 ELSE {})
  <2> HIDE DEF q, nxt, s
  <2>1. op'.at = (IF nxt \in Cluster THEN "free" ELSE "freed") /\ op'.ecl = nxt /\ op'.scl = s /\ type' = type
    BY <1>1, <1>12
  <2> QED BY <2>1 DEF Pending
<1>15. /\ InUse' \subseteq InUse /\ Pending' \subseteq InUse' /\ Pending' \subseteq Pending \cup {c}
       /\ InUse' \ Pending' = (InUse \ Pending) \ {c}
  <2> HIDE DEF q, nxt, c, f, o, e
  <2>1. CASE type = "FAT"
    <3>1. Pending = {} /\ Pending' = {}
      BY <1>13, <1>14, <2>1
    <3>2. InUse' = InUse \ {c}
      BY <1>1, <1>4, <1>6, <2>1 DEF InUse
    <3> QED BY <3>1, <3>2
  <2>2. CASE type = "exFAT"
    <3>1. op.scl .. c = Pending \cup {c} /\ Pending = op.scl .. c - 1
      BY <1>6, <1>9, <1>13, <2>2, ClusterIs
    <3>2. InUse = bitmap /\ InUse' = bitmap' /\ \A d \in Pending : d \in InUse
      BY <1>1, <2>2 DEF InUse, FilesInv
    <3>3. CASE c + 1 = nxt
      <4>1. nxt \in Cluster /\ s = op.scl /\ nxt - 1 = c
        BY <1>6, <1>9, <3>3, ClusterIs
      <4>2. Pending' = Pending \cup {c}
        BY <1>14, <2>2, <3>1, <4>1
      <4>3. bitmap' = bitmap
        BY <1>1, <1>9, <2>2, <3>3 DEF FreedBits
      <4> QED BY <1>7, <3>2, <4>2, <4>3
    <3>4. CASE c + 1 # nxt
      <4>1. s = nxt /\ nxt .. nxt - 1 = {}
        BY <1>6, <1>9, <3>4
      <4>2. Pending' = {}
        BY <1>14, <4>1
      <4>3. bitmap' = bitmap \ (op.scl .. c)
        BY <1>1, <1>9, <2>2, <3>4 DEF FreedBits
      <4> QED BY <3>1, <3>2, <4>2, <4>3
    <3> QED BY <3>3, <3>4
  <2> QED BY <1>4, <2>1, <2>2
<1>16. Accounted'
  <2>1. PICK k : k = nxt
    OBVIOUS
  <2>2. PICK b : b = c
    OBVIOUS
  <2>3. obj'[op'.file] = obj[op.file]
    BY <1>1, <1>12
  <2>4. op'.at = (IF k \in Cluster THEN "free" ELSE "freed") /\ op'.clst = k
    BY <1>1, <1>12, <2>1
  <2>5. b = op.clst /\ k = GetFat(obj[op.file], b)
    BY <2>1, <2>2
  <2>6. (\A d \in Cluster : d # b => fat'[d] = fat[d]) /\ Pending' \subseteq Pending \cup {b}
        /\ InUse' \ Pending' = (InUse \ Pending) \ {b}
    BY <1>11, <1>15, <2>2
  <2> HIDE DEF q, nxt, c, f, o, e
  <2> QED BY <1>1, <1>15, <2>3, <2>4, <2>5, <2>6, OneFreed
<1> HIDE DEF f, o, e, nxt, s, q
<1>17. /\ Behind(type, holds, e, o, op, f) /\ AtMost(holds, f, Parts(o.fptr))
       /\ op.pclst # 0 => Laid(type, holds, fat, o, f) /\ (o.stat # 2 => fat[op.pclst] = EOC)
  BY <1>2 DEF Freeing
<1>18. op.pclst # 0 => op.pclst \in Of(holds, f)
  BY <1>17, <1>2 DEF Behind, Positioned, AtPart, FileObject
<1>19. Freeing(type, holds', fat', e, o, q, f)
  <2>1. Behind(type, holds', e, o, q, f)
    BY <1>1, <1>12, <1>17 DEF Behind
  <2>2. AtMost(holds', f, Parts(o.fptr))
    BY <1>1, <1>17
  <2>3. /\ Laid(type, holds, fat, o, f) => Laid(type, holds', fat', o, f)
        /\ Rests(type, holds, fat, faults, e, o, f) => Rests(type, holds', fat', faults, e, o, f)
    <3>1. /\ Of(holds', f) = Of(holds, f) /\ \A d \in Of(holds, f) : holds'[d] = holds[d] /\ fat'[d] = fat[d]
          /\ f \in File /\ faults \in Nat /\ faults <= faults
      BY <1>2, <1>4, <1>10
    <3> QED BY <3>1, Untouched
  <2>4. q.pclst # 0 => Laid(type, holds', fat', o, f) /\ (o.stat # 2 => fat'[q.pclst] = EOC)
    BY <1>2, <1>10, <1>12, <1>17, <1>18, <2>3
  <2>5. q.at \in {"free", "freed"} /\ (q.at = "free" => q.ecl = q.clst /\ q.scl \in Cluster /\ q.scl <= q.ecl)
    BY <1>12
  <2> QED BY <2>1, <2>2, <2>4, <2>5 DEF Freeing
<1>20. Busy(type, holds', fat', faults', e, o, q, f)
  BY <1>19 DEF Busy
<1>21. TypeOK'
  <2>1. /\ type' \in Types /\ last_clst' \in 0..LastCluster /\ faults' \in 0..MaxFaults
        /\ entry' \in [File -> EntryRecord] /\ obj' \in [File -> FileObject] /\ op' \in CallRecord
    BY <1>1, <1>2, <1>12, TypeIs
  <2>2. holds' \in [Cluster -> {Nothing} \cup [file : File, part : Nat \ {0}]]
    BY <1>1, <1>2 DEF Placed
  <2>3. bitmap' \subseteq Cluster
    BY <1>1, <1>4 DEF FreedBits
  <2>4. fat' \in [Cluster -> Link]
    <3>1. 0 \in Link
      BY DEF Link
    <3> QED BY <1>1, <1>4, <3>1
  <2>5. free_clst' \in 0..Unknown
    <3>1. Unknown \in Nat /\ Total \in Nat /\ Total < Unknown
      BY ClusterIs DEF Unknown, Total
    <3> QED BY <1>1, <1>4, <3>1 DEF Returned
  <2> QED BY <2>1, <2>2, <2>3, <2>4, <2>5 DEF TypeOK, EntryRecord, FileObject, CallRecord
<1>22. /\ op.file \in {f, None} /\ op'.file \in {f, None} /\ type' = type
       /\ \A i \in File \ {f} : entry'[i] = entry[i] /\ obj'[i] = obj[i]
       /\ \A i \in File \ {f} : Of(holds', i) = Of(holds, i)
                                /\ \A d \in Of(holds, i) : holds'[d] = holds[d] /\ fat'[d] = fat[d]
  BY <1>1, <1>3, <1>10, <1>12
<1>23. /\ EntryOK(type, entry'[f]) /\ op'.file = f /\ op'.call # "none"
       /\ Busy(type, holds', fat', faults', entry'[f], obj'[f], op', f)
  BY <1>1, <1>2, <1>3, <1>12, <1>20
<1>24. faults <= faults' /\ (type = "exFAT" => faults' = 0) /\ Placed(holds)'
  BY <1>1, <1>2, <1>4
<1> QED BY <1>2, <1>16, <1>21, <1>22, <1>23, <1>24, Frame

-----------------------------------------------------------------------------
(* The invariant, and what it says where no call is in progress.             *)

LEMMA FilesBegin ==
  ASSUME Init
  PROVE  FilesInv
<1>1. /\ type \in Types /\ type \in {"FAT", "exFAT"} /\ fat = [c \in Cluster |-> 0] /\ bitmap = {}
      /\ free_clst = Unknown \/ free_clst = Total
      /\ last_clst = 0 /\ entry = [f \in File |-> NoEntry] /\ obj = [f \in File |-> Closed]
      /\ op = Idle /\ holds = [c \in Cluster |-> Nothing] /\ faults = 0
  BY VolumeAssumption DEF Init
<1>2. InUse = {} /\ Pending = {} /\ op.at = "loop" /\ op.file = None /\ None \notin File
  BY <1>1, IdleIs DEF InUse, Pending
<1>3. \A f \in File : Of(holds, f) = {}
  BY <1>1, <1>2 DEF Of, Nothing
<1>4. TypeOK
  <2>1. /\ fat \in [Cluster -> Link] /\ bitmap \subseteq Cluster
        /\ holds \in [Cluster -> {Nothing} \cup [file : File, part : Nat \ {0}]]
    BY <1>1 DEF Link
  <2>2. free_clst \in 0..Unknown /\ last_clst \in 0..LastCluster
    <3>1. Unknown \in Nat /\ Total \in Nat /\ Total < Unknown
      BY ClusterIs DEF Unknown, Total
    <3> QED BY <1>1, <3>1, ClusterIs
  <2>3. entry \in [File -> EntryRecord] /\ obj \in [File -> FileObject] /\ op \in CallRecord
    BY <1>1, EntriesAreTyped, ClosedIs, IdleIs
  <2>4. faults \in 0..MaxFaults
    BY <1>1, VolumeAssumption
  <2> QED BY <1>1, <2>1, <2>2, <2>3, <2>4 DEF TypeOK, EntryRecord, FileObject, CallRecord
<1>5. Placed(holds)
  <2>1. holds \in [Cluster -> {Nothing} \cup [file : File, part : Nat \ {0}]]
    BY <1>1
  <2> QED BY <1>3, <2>1 DEF Placed
<1>6. ASSUME NEW f \in File PROVE EntryOK(type, entry[f]) /\ Resting(f)
  <2> DEFINE o == ObjectOf(f)
  <2>1. entry[f] = NoEntry /\ obj[f] = Closed
    BY <1>1
  <2>2. EntryOK(type, entry[f])
    BY <2>1 DEF EntryOK, NoEntry
  <2>3. /\ o.sclust = 0 /\ o.objsize = 0 /\ o.stat = 0 /\ o.n_frag = 0 /\ o.fptr = 0 /\ ~o.err /\ ~o.open
    BY <2>1, ClosedIs DEF ObjectOf, Object, NoEntry
  <2> HIDE DEF o
  <2>4. Laid(type, holds, fat, o, f) /\ Ends(holds, fat, o, f) /\ AtMost(holds, f, Parts(o.objsize))
    BY <1>3, <1>6, <2>3 DEF Laid, Ends, AtMost, OnePiece, FirstPiece, LastPiece, InTable
  <2>5. Sized(holds, f, o.objsize)
    <3>1. Parts(0) = 0
      BY PartsOfNone
    <3> QED BY <2>3, <3>1 DEF Sized
  <2>6. Chained(type, holds, fat, o, f)
    BY <2>3, <2>4, <2>5 DEF Chained, Lies
  <2>7. Positioned(holds, o, f)
    BY <2>3 DEF Positioned
  <2> QED BY <2>2, <2>3, <2>6, <2>7 DEF Resting, Rests, o
<1>7. \E tp \in [Cluster -> Nat] : CutOff(tp) /\ Counted(tp)
  <2> DEFINE none == [c \in Cluster |-> 0]
  <2>1. none \in [Cluster -> Nat] /\ \A c \in Cluster : none[c] = 0
    OBVIOUS
  <2> HIDE DEF none
  <2>2. CutOff(none)
    BY <1>2, <2>1 DEF CutOff
  <2>3. Counted(none)
    <3>1. FreeClusters = Cluster /\ Cardinality(Cluster) = Total /\ Cardinality({}) = 0 /\ Total < Unknown
          /\ Total \in Nat /\ Unknown \in Nat
      BY <1>2, ClusterIs, FS_Interval, FS_EmptySet DEF FreeClusters, Cluster, Total, Unknown
    <3> HIDE DEF Cluster
    <3>2. Cardinality(FreeClusters) + Cardinality(Pending) = Total
      BY <1>2, <3>1
    <3>3. free_clst <= Total => free_clst = Total
      BY <1>1, <3>1
    <3> DEFINE n == Cardinality(FreeClusters) + Cardinality(Pending)
    <3>4. n = Total
      BY <3>2
    <3> HIDE DEF n
    <3>5. free_clst <= Total => free_clst >= n /\ (faults = 0 => free_clst = n)
      BY <3>1, <3>3, <3>4
    <3>6. faults = 0 => \A c \in InUse : holds[c] # Nothing \/ none[c] > 0 \/ c \in Pending
      BY <1>2
    <3> QED BY <3>5, <3>6 DEF Counted, n
  <2> QED BY <2>1, <2>2, <2>3
<1> QED BY <1>1, <1>2, <1>3, <1>4, <1>5, <1>6, <1>7 DEF FilesInv

LEMMA CallOfFileKeeps ==
  ASSUME FilesInv, NEW f \in File,
         \/ OpenNew(f) \/ Sync(f, TRUE) \/ SyncFails(f)
         \/ "openRead" \in Uses[f] /\ OpenOld(f, FALSE)
         \/ "open" \in Uses[f] /\ OpenOld(f, TRUE)
         \/ "append" \in Uses[f] /\ OpenAppend(f)
         \/ "overwrite" \in Uses[f] /\ Overwrite(f)
         \/ "unlink" \in Uses[f] /\ Unlink(f)
         \/ "write" \in Uses[f] /\ \E n \in Lengths : WriteBegin(f, n)
         \/ "read" \in Uses[f] /\ \E n \in Lengths : ReadBegin(f, n)
         \/ "seek" \in Uses[f] /\ \E ofs \in {i \in Offsets : i <= MaxSize[f]} : SeekBegin(f, ofs)
         \/ "truncate" \in Uses[f] /\ (Truncate(f) \/ TruncateFails(f))
         \/ "sync" \in Uses[f] /\ Sync(f, FALSE)
  PROVE  FilesInv'
<1>1. CASE OpenNew(f)
  BY <1>1, OpenNewKeeps
<1>2. CASE OpenOld(f, FALSE) \/ OpenOld(f, TRUE)
  BY <1>2, OpenOldKeeps
<1>3. CASE OpenAppend(f)
  BY <1>3, OpenAppendKeeps
<1>4. CASE Overwrite(f)
  BY <1>4, OverwriteKeeps
<1>5. CASE Unlink(f)
  BY <1>5, UnlinkKeeps
<1>6. CASE \E n \in Lengths : WriteBegin(f, n)
  BY <1>6, WriteBeginKeeps
<1>7. CASE \E n \in Lengths : ReadBegin(f, n)
  BY <1>7, ReadBeginKeeps
<1>8. CASE \E ofs \in {i \in Offsets : i <= MaxSize[f]} : SeekBegin(f, ofs)
  <2>1. PICK ofs \in {i \in Offsets : i <= MaxSize[f]} : SeekBegin(f, ofs)
    BY <1>8
  <2>2. ofs \in Nat
    BY VolumeAssumption
  <2> QED BY <2>1, <2>2, SeekBeginKeeps
<1>9. CASE Truncate(f) \/ TruncateFails(f)
  BY <1>9, TruncateKeeps, TruncateFailsKeeps
<1>10. CASE Sync(f, TRUE) \/ Sync(f, FALSE)
  BY <1>10, SyncKeeps
<1>11. CASE SyncFails(f)
  BY <1>11, SyncFailsKeeps
<1> QED BY <1>1, <1>2, <1>3, <1>4, <1>5, <1>6, <1>7, <1>8, <1>9, <1>10, <1>11

LEMMA EveryStep ==
  ASSUME FilesInv, [Next]_vars
  PROVE  FilesInv'
<1>1. CASE Call
  <2>1. CASE GetFree
    BY <2>1, GetFreeKeeps
  <2>2. CASE ~GetFree
    BY <1>1, <2>2, CallOfFileKeeps DEF Call
  <2> QED BY <2>1, <2>2
<1>2. CASE Chain
  BY <1>2, ChainFollowsKeeps, ChainIsFullKeeps, ChainGrowsKeeps, ChainFailsKeeps DEF Chain
<1>3. CASE Remove
  BY <1>3, CutKeeps, FreeOneKeeps, RemoveEndsKeeps, RemoveFailsKeeps DEF Remove
<1>4. CASE AppendLoop \/ AppendFails
  BY <1>4, AppendLoopKeeps, AppendFailsKeeps
<1>5. CASE WriteCluster \/ WriteGot \/ WriteRest \/ WriteFails
  BY <1>5, WriteClusterKeeps, WriteGotKeeps, WriteRestKeeps, WriteFailsKeeps
<1>6. CASE ReadPart \/ ReadFails
  BY <1>6, ReadPartKeeps, ReadFailsKeeps
<1>7. CASE SeekLoop \/ SeekGot \/ SeekFails
  BY <1>7, SeekLoopKeeps, SeekGotKeeps, SeekFailsKeeps
<1>8. CASE UNCHANGED vars
  <2>1. /\ type' = type /\ fat' = fat /\ bitmap' = bitmap /\ free_clst' = free_clst /\ last_clst' = last_clst
        /\ entry' = entry /\ obj' = obj /\ op' = op /\ holds' = holds /\ faults' = faults
    BY <1>8 DEF vars
  <2>2. TypeOK' /\ Placed(holds)' /\ InUse' = InUse /\ Pending' = Pending /\ FreeClusters' = FreeClusters
    BY <2>1 DEF FilesInv, TypeOK, InUse, Pending, FreeClusters
  <2>3. \A f \in File : Resting(f)' <=> Resting(f)
    BY <2>1 DEF Resting, ObjectOf
  <2>4. \A tp \in [Cluster -> Nat] : (CutOff(tp) => CutOff(tp)') /\ (Counted(tp) => Counted(tp)')
    BY <2>1, <2>2 DEF CutOff, Counted
  <2>5. \E tp \in [Cluster -> Nat] : CutOff(tp)' /\ Counted(tp)'
    BY <2>4 DEF FilesInv
  <2> QED BY <2>1, <2>2, <2>3, <2>5 DEF FilesInv
<1> QED BY <1>1, <1>2, <1>3, <1>4, <1>5, <1>6, <1>7, <1>8 DEF Next, Loop

\* The clusters with a part of a file.
LEMMA HeldIs ==
  ASSUME FilesInv, NEW f \in File, NEW k \in Nat \ {0}
  PROVE  /\ HeldBy(f, k) = {c \in Of(holds, f) : holds[c].part = k}
         /\ HeldBy(f, k) = {} <=> ~HasPart(holds, f, k)
         /\ \A c \in Of(holds, f) : holds[c].part = k => HeldBy(f, k) = {c}
<1>1. Placed(holds)
  BY DEF FilesInv
<1>2. \A c \in Of(holds, f) : c \in Cluster /\ holds[c] = Part(f, holds[c].part)
  BY <1>1, HoldsIs
<1>3. Part(f, k).file = f /\ Part(f, k).part = k
  BY DEF Part
<1>4. HeldBy(f, k) = {c \in Of(holds, f) : holds[c].part = k}
  BY <1>2, <1>3 DEF HeldBy, Of
<1>5. \A c, d \in Of(holds, f) : holds[c].part = holds[d].part => c = d
  BY <1>1 DEF Placed
<1>6. HeldBy(f, k) = {} <=> ~HasPart(holds, f, k)
  BY <1>4 DEF HasPart
<1>7. \A c \in Of(holds, f) : holds[c].part = k => HeldBy(f, k) = {c}
  BY <1>4, <1>5
<1> QED BY <1>4, <1>6, <1>7

LEMMA InvLinks ==
  ASSUME FilesInv
  PROVE  LinksFollowData
<1> SUFFICES ASSUME op = Idle, NEW f \in File
             PROVE  LET o == ObjectOf(f) IN
                    /\ o.sclust # 0 => HeldBy(f, 1) = {o.sclust}
                    /\ o.sclust = 0 => HeldBy(f, 1) = {}
                    /\ \A c \in Cluster : IsOf(c, f) =>
                         LET next == HeldBy(f, holds[c].part + 1) IN
                         /\ c \in InUse /\ HeldBy(f, holds[c].part) = {c}
                         /\ o.n_frag = 0 => IF next = {} THEN GetFat(o, c) = EOC ELSE next = {GetFat(o, c)}
  BY DEF LinksFollowData
<1> DEFINE o == ObjectOf(f)
<1>1. Chained(type, holds, fat, o, f) /\ o \in FileObject /\ Placed(holds)
  <2>1. f # op.file
    BY IdleIs
  <2> QED BY <2>1, TypeIs DEF FilesInv, Resting, Rests
<1> HIDE DEF o
<1>2. Laid(type, holds, fat, o, f)
  BY <1>1 DEF Chained, Lies
<1>3. o.sclust # 0 => HeldBy(f, 1) = {o.sclust}
  BY <1>2, HeldIs DEF Laid
<1>4. o.sclust = 0 => HeldBy(f, 1) = {}
  BY <1>2, HeldIs DEF Laid
<1>5. ASSUME NEW c \in Cluster, IsOf(c, f)
      PROVE  /\ c \in InUse /\ HeldBy(f, holds[c].part) = {c}
             /\ o.n_frag = 0 => IF HeldBy(f, holds[c].part + 1) = {} THEN GetFat(o, c) = EOC
                                ELSE HeldBy(f, holds[c].part + 1) = {GetFat(o, c)}
  <2>1. c \in Of(holds, f)
    BY <1>5 DEF IsOf, Of
  <2>2. holds[c].part \in Nat \ {0} /\ holds[c].part + 1 \in Nat \ {0} /\ holds[c] # Nothing
    BY <1>1, <2>1, HoldsIs
  <2>3. c \in InUse
    BY <2>2 DEF FilesInv
  <2>4. HeldBy(f, holds[c].part) = {c}
    BY <2>1, <2>2, HeldIs
  <2>5. ASSUME o.n_frag = 0
        PROVE  IF HeldBy(f, holds[c].part + 1) = {} THEN GetFat(o, c) = EOC
               ELSE HeldBy(f, holds[c].part + 1) = {GetFat(o, c)}
    <3> DEFINE d == GetFat(o, c)
    <3>1. IF HasPart(holds, f, holds[c].part + 1)
          THEN d \in Of(holds, f) /\ holds[d].part = holds[c].part + 1 ELSE d = EOC
      BY <1>1, <2>1, <2>5, NextOf
    <3> HIDE DEF d
    <3>2. /\ HeldBy(f, holds[c].part + 1) = {} <=> ~HasPart(holds, f, holds[c].part + 1)
          /\ \A x \in Of(holds, f) : holds[x].part = holds[c].part + 1 => HeldBy(f, holds[c].part + 1) = {x}
      BY <2>2, HeldIs
    <3>3. IF HeldBy(f, holds[c].part + 1) = {} THEN d = EOC ELSE HeldBy(f, holds[c].part + 1) = {d}
      BY <3>1, <3>2
    <3> QED BY <3>3 DEF d
  <2> QED BY <2>3, <2>4, <2>5
<1> QED BY <1>3, <1>4, <1>5 DEF o

LEMMA InvPositions ==
  ASSUME FilesInv
  PROVE  PositionsHaveClusters
<1> SUFFICES ASSUME op = Idle, NEW f \in File
             PROVE  LET o == ObjectOf(f) IN
                    /\ (o.open /\ o.fptr > 0 /\ ~o.err)
                         => holds[o.clust] = Part(f, (o.fptr - 1) \div ClusterSize + 1)
                    /\ faults = 0 => ~o.err
                    /\ \A k \in 1 .. (o.objsize + ClusterSize - 1) \div ClusterSize : HeldBy(f, k) # {}
  BY DEF PositionsHaveClusters
<1> DEFINE o == ObjectOf(f)
<1>1. Rests(type, holds, fat, faults, entry[f], o, f) /\ o \in FileObject /\ Placed(holds)
  <2>1. f # op.file
    BY IdleIs
  <2> QED BY <2>1, TypeIs DEF FilesInv, Resting
<1> HIDE DEF o
<1>2. o.fptr \in Nat /\ o.objsize \in Nat
  BY <1>1 DEF FileObject
<1>3. ASSUME o.fptr > 0, ~o.err PROVE holds[o.clust] = Part(f, (o.fptr - 1) \div ClusterSize + 1)
  <2>1. o.clust \in Of(holds, f) /\ holds[o.clust].part = Parts(o.fptr)
    BY <1>1, <1>3 DEF Rests, Positioned, AtPart
  <2>2. Parts(o.fptr) = (o.fptr - 1) \div ClusterSize + 1
    BY <1>2, <1>3, PartsType
  <2>3. holds[o.clust] = Part(f, holds[o.clust].part)
    BY <1>1, <2>1, HoldsIs
  <2> QED BY <2>1, <2>2, <2>3
<1>4. faults = 0 => ~o.err
  BY <1>1 DEF Rests
<1>5. \A k \in 1 .. (o.objsize + ClusterSize - 1) \div ClusterSize : HeldBy(f, k) # {}
  <2>1. \A k \in 1 .. Parts(o.objsize) : HasPart(holds, f, k)
    BY <1>1 DEF Rests, Chained, Lies, Sized
  <2>2. Parts(o.objsize) \in Nat
    BY <1>2, PartsType
  <2>3. \A k \in 1 .. Parts(o.objsize) : HeldBy(f, k) # {}
    BY <2>1, <2>2, HeldIs
  <2> QED BY <2>3 DEF Parts
<1> QED BY <1>3, <1>4, <1>5 DEF o

LEMMA InvAccounts ==
  ASSUME FilesInv
  PROVE  ClusterAccounts
<1>1. TypeOK
  BY DEF FilesInv
<1>2. PICK tp \in [Cluster -> Nat] : CutOff(tp) /\ Counted(tp)
  BY DEF FilesInv
<1>3. ASSUME op = Idle
      PROVE  /\ free_clst <= Total => /\ free_clst >= Cardinality(FreeClusters)
                                      /\ faults = 0 => free_clst = Cardinality(FreeClusters)
             /\ faults = 0 => \A c \in InUse : holds[c] # Nothing
  <2>1. op.at # "free"
    BY <1>3, IdleIs
  <2>2. Pending = {} /\ \A c \in Cluster : tp[c] = 0
    BY <1>2, <2>1 DEF Pending, CutOff
  <2>3. InUse \subseteq Cluster
    BY <1>1, TypeIs DEF InUse
  <2>4. faults = 0 => \A c \in InUse : holds[c] # Nothing
    BY <1>2, <2>2, <2>3 DEF Counted
  <2>5. Cardinality(FreeClusters) + Cardinality(Pending) = Cardinality(FreeClusters)
    <3>1. FreeClusters \subseteq Cluster /\ IsFiniteSet(Cluster)
      BY ClusterIs, FS_Interval DEF Cluster, FreeClusters
    <3>2. Cardinality(FreeClusters) \in Nat
      BY <3>1, FS_Subset, FS_CardinalityType
    <3>3. Cardinality(Pending) = 0
      BY <2>2, FS_EmptySet
    <3> QED BY <3>2, <3>3
  <2> QED BY <1>2, <2>4, <2>5 DEF Counted
<1> QED BY <1>1, <1>3 DEF ClusterAccounts, FreeCountHonest, NothingLost


-----------------------------------------------------------------------------
(* What a step does to the other files.                                      *)

\* A step that writes to no cluster.
LEMMA NothingWritten ==
  ASSUME NEW f, \A g \in File \ {f} : entry'[g] = entry[g] /\ obj'[g] = obj[g],
         fat' = fat, holds' = holds
  PROVE  Apart(f)
  BY DEF Apart

LEMMA OpensApart ==
  ASSUME FilesInv, NEW f \in File,
         \/ OpenNew(f) \/ OpenOld(f, FALSE) \/ OpenOld(f, TRUE) \/ OpenAppend(f)
         \/ Overwrite(f) \/ Unlink(f)
  PROVE  Apart(f)
<1>1. fat' = fat /\ holds' = holds /\ obj \in [File -> FileObject] /\ entry \in [File -> EntryRecord]
  BY TypeIs DEF FilesInv, OpenNew, OpenOld, OpenAppend, Overwrite, Unlink
<1>2. \A g \in File \ {f} : entry'[g] = entry[g]
  BY <1>1 DEF OpenNew, OpenOld, OpenAppend, Overwrite, Unlink
<1>3. \A g \in File \ {f} : obj'[g] = obj[g]
  BY <1>1 DEF OpenNew, OpenOld, OpenAppend, Overwrite, Unlink
<1> QED BY <1>1, <1>2, <1>3, NothingWritten

LEMMA BeginsApart ==
  ASSUME FilesInv, NEW f \in File,
         \/ \E n \in Lengths : WriteBegin(f, n) \/ ReadBegin(f, n)
         \/ Truncate(f) \/ TruncateFails(f) \/ SyncFails(f)
  PROVE  Apart(f)
<1>1. fat' = fat /\ holds' = holds /\ obj \in [File -> FileObject] /\ entry \in [File -> EntryRecord]
  BY TypeIs DEF FilesInv, WriteBegin, ReadBegin, Truncate, TruncateFails, SyncFails
<1>2. \A g \in File \ {f} : entry'[g] = entry[g]
  BY <1>1 DEF WriteBegin, ReadBegin, Truncate, TruncateFails, SyncFails
<1>3. \A g \in File \ {f} : obj'[g] = obj[g]
  BY <1>1 DEF WriteBegin, ReadBegin, Truncate, TruncateFails, SyncFails
<1> QED BY <1>1, <1>2, <1>3, NothingWritten

\* f_lseek writes the last piece to the table.
LEMMA SeekApart ==
  ASSUME FilesInv, NEW f \in File, NEW ofs \in Nat, SeekBegin(f, ofs)
  PROVE  Apart(f)
<1> DEFINE o == obj[f]
<1>1. op = Idle /\ o.open
  BY DEF SeekBegin, Usable
<1>2. /\ o \in FileObject /\ Chained(type, holds, fat, o, f) /\ Placed(holds) /\ type \in {"FAT", "exFAT"}
      /\ fat \in [Cluster -> Link] /\ obj \in [File -> FileObject] /\ entry \in [File -> EntryRecord]
  BY <1>1, AtRest, TypeIs DEF FilesInv
<1>3. fat' = (IF type = "exFAT" THEN FillLast(fat, o.n_frag, o.clust, EOC) ELSE fat)
      /\ holds' = holds /\ entry' = entry
  <2>1. Filled(o).clust = o.clust
    BY <1>2 DEF Filled, FileObject
  <2> QED BY <2>1 DEF SeekBegin
<1>4. \A g \in File \ {f} : obj'[g] = obj[g]
  BY <1>2 DEF SeekBegin
<1>5. \A c \in Cluster \ Of(holds, f) : fat'[c] = fat[c]
  <2> HIDE DEF o
  <2> QED BY <1>2, <1>3, LastFilled
<1> QED BY <1>3, <1>4, <1>5 DEF Apart, Of

\* f_sync and f_close write both pieces to it.
LEMMA SyncApart ==
  ASSUME FilesInv, NEW f \in File, NEW isClose \in BOOLEAN, Sync(f, isClose)
  PROVE  Apart(f)
<1> DEFINE o == obj[f]
           t2 == IF type = "exFAT" THEN FillLast(FillFirst(fat, o), o.n_frag, o.clust, EOC) ELSE fat
<1>1. op = Idle /\ o.open
  BY DEF Sync
<1>2. /\ o \in FileObject /\ Chained(type, holds, fat, o, f) /\ Placed(holds) /\ type \in {"FAT", "exFAT"} /\ TypeOK
      /\ fat \in [Cluster -> Link] /\ obj \in [File -> FileObject] /\ entry \in [File -> EntryRecord]
  BY <1>1, AtRest, TypeIs DEF FilesInv
<1>3. (fat' = t2 \/ fat' = fat) /\ (holds' = holds \/ Forget(f, 0))
  BY DEF Sync, Unheld
<1>4. \A g \in File \ {f} : entry'[g] = entry[g] /\ obj'[g] = obj[g]
  BY <1>2 DEF Sync
<1>5. \A c \in Cluster \ Of(holds, f) : t2[c] = fat[c]
  <2> HIDE DEF o
  <2> QED BY <1>2, AllFilled
<1>6. \A g \in File \ {f} : Of(holds', g) = Of(holds, g) /\ \A c \in Of(holds, g) : holds'[c] = holds[c]
  <2>1. CASE holds' = holds
    BY <2>1
  <2>2. CASE Forget(f, 0)
    BY <1>2, <2>2, ForgetAll, GivenUp
  <2> QED BY <1>3, <2>1, <2>2
<1> HIDE DEF o, t2
<1>7. ASSUME NEW g \in File \ {f}, NEW c \in Of(holds, g) PROVE fat'[c] = fat[c]
  <2>1. c \in Cluster \ Of(holds, f)
    BY <1>7 DEF Of
  <2> QED BY <1>3, <1>5, <2>1
<1> QED BY <1>4, <1>6, <1>7 DEF Apart

\* create_chain takes a free cluster and links it to one of the file's own.
LEMMA ChainApart ==
  ASSUME FilesInv, Chain
  PROVE  Apart(op.file)
<1> DEFINE f == op.file
           o == obj[f]
           clst == ChainArg(o)
           c == Find(clst)
<1>1. op.at = "chain"
  BY DEF Chain, ChainFollows, ChainIsFull, ChainGrows, ChainFails
<1>2. /\ f \in File /\ o \in FileObject /\ Chained(type, holds, fat, o, f) /\ Placed(holds) /\ TypeOK
      /\ type \in {"FAT", "exFAT"} /\ clst \in Cluster \cup {0}
      /\ clst # 0 => clst = o.clust /\ clst \in Of(holds, f)
  BY <1>1, AskingIs
<1>3. obj \in [File -> FileObject] /\ fat \in [Cluster -> Link] /\ holds \in [Cluster -> {Nothing} \cup [file : File, part : Nat \ {0}]]
  BY <1>2, TypeIs DEF Placed
<1>4. entry' = entry /\ \A g \in File \ {f} : obj'[g] = obj[g]
  BY <1>3 DEF Chain, ChainFollows, ChainIsFull, ChainGrows, ChainFails
<1>5. c # 0 => c \in Cluster /\ holds[c] = Nothing /\ \A g \in File : c \notin Of(holds, g)
  <2>1. c # 0 => c \in Cluster /\ c \notin InUse
    BY <1>2, FoundIs
  <2> HIDE DEF c
  <2> QED BY <1>2, <2>1, HoldsIs DEF FilesInv
<1>6. \/ fat' = fat /\ holds' = holds
      \/ c # 0 /\ holds' = holds /\ fat' = [fat EXCEPT ![c] = EOC]
      \/ /\ c # 0 /\ fat' = Linked(o, clst, c)
         /\ holds' = [holds EXCEPT ![c] = Part(f, o.fptr \div ClusterSize + 1)]
  BY DEF Chain, ChainFollows, ChainIsFull, ChainGrows, ChainFails
<1>7. o.n_frag # 0 => LastPiece(holds, o, f)
  BY <1>2 DEF Chained, Lies, Laid
<1> HIDE DEF f, o, clst, c
<1>8. CASE fat' = fat /\ holds' = holds
  BY <1>4, <1>8, NothingWritten DEF f
<1>9. CASE c # 0 /\ holds' = holds /\ fat' = [fat EXCEPT ![c] = EOC]
  <2>1. \A g \in File : \A d \in Of(holds, g) : fat'[d] = fat[d]
    BY <1>3, <1>5, <1>9 DEF Of
  <2> QED BY <1>4, <1>9, <2>1 DEF Apart, f
<1>10. CASE /\ c # 0 /\ fat' = Linked(o, clst, c)
            /\ holds' = [holds EXCEPT ![c] = Part(f, o.fptr \div ClusterSize + 1)]
  <2>1. ASSUME NEW g \in File \ {f}
        PROVE  Of(holds', g) = Of(holds, g) /\ \A d \in Of(holds, g) : holds'[d] = holds[d]
    <3>1. \A d \in Cluster : d # c => holds'[d] = holds[d]
      BY <1>3, <1>10
    <3>2. holds'[c].file = f
      BY <1>3, <1>5, <1>10 DEF Part
    <3>3. \A d \in Cluster : holds'[d].file = g <=> holds[d].file = g
      BY <1>5, <1>10, <2>1, <3>1, <3>2 DEF Of
    <3>4. Of(holds', g) = Of(holds, g)
      BY <3>3 DEF Of
    <3>5. \A d \in Of(holds, g) : d \in Cluster /\ d # c
      BY <1>5, <1>10 DEF Of
    <3> QED BY <3>1, <3>4, <3>5
  <2>2. ASSUME NEW g \in File \ {f}, NEW d \in Of(holds, g) PROVE Linked(o, clst, c)[d] = fat[d]
    <3>1. d \in Cluster /\ d # c /\ d \notin Of(holds, f) /\ d # clst /\ d \in Nat
      <4>1. d \in Cluster /\ d # c /\ d \notin Of(holds, f)
        BY <1>5, <1>10, <2>2 DEF Of
      <4> QED BY <1>2, <4>1, ClusterIs
    <3>2. d \notin clst - (IF o.n_frag = 0 THEN 1 ELSE o.n_frag) + 1 .. clst \/ clst = 0
      <4>1. CASE o.n_frag = 0
        BY <1>2, <3>1, <4>1, ClusterIs
      <4>2. CASE o.n_frag # 0 /\ clst # 0
        <5>1. \A i \in o.clust - o.n_frag + 1 .. o.clust : i \in Of(holds, f)
          BY <1>2, <1>7, <4>2, LastIs
        <5> QED BY <1>2, <3>1, <4>2, <5>1
      <4> QED BY <4>1, <4>2
    <3>3. clst = 0 => Broken(o, clst, c).stat = 2
      BY <1>2 DEF Broken, FileObject
    <3> QED BY <1>2, <3>1, <3>2, <3>3 DEF Linked, FillLast
  <2> QED BY <1>4, <1>10, <2>1, <2>2 DEF Apart, f
<1> QED BY <1>6, <1>8, <1>9, <1>10

\* remove_chain writes to the file's own clusters and to those it has cut off.
LEMMA RemoveApart ==
  ASSUME FilesInv, Remove
  PROVE  Apart(op.file)
<1> DEFINE f == op.file
           o == obj[f]
<1>1. op.at \in {"cut", "free", "freed"}
  BY DEF Remove, Cut, FreeOne, RemoveEnds, RemoveFails
<1>2. /\ f \in File /\ o \in FileObject /\ Placed(holds) /\ TypeOK
      /\ op.at = "cut" => Cutting(type, holds, fat, entry[f], o, op, f)
      /\ obj \in [File -> FileObject] /\ fat \in [Cluster -> Link]
  <2>1. op # Idle
    BY <1>1, IdleIs
  <2> QED BY <2>1, Current, TypeIs DEF FilesInv
<1>3. entry' = entry /\ \A g \in File \ {f} : obj'[g] = obj[g]
  BY <1>2 DEF Remove, Cut, FreeOne, RemoveEnds, RemoveFails
<1>4. CASE Cut
  <2> DEFINE p == op.pclst
             k == IF p = 0 THEN 0 ELSE holds[p].part
  <2>1. /\ (fat' = fat \/ (p # 0 /\ fat' = [fat EXCEPT ![p] = EOC]))
        /\ holds' = [c \in Cluster |-> IF IsOf(c, f) /\ holds[c].part > k THEN Nothing ELSE holds[c]]
        /\ op.at = "cut"
    BY <1>4 DEF Cut, Forget
  <2>2. p # 0 => p \in Of(holds, f)
    <3>1. Behind(type, holds, entry[f], o, op, f)
      BY <1>2, <2>1 DEF Cutting
    <3> HIDE DEF f, o
    <3>2. p = (IF o.fptr = 0 THEN 0 ELSE o.clust) /\ Positioned(holds, o, f) /\ o.fptr \in Nat
      BY <1>2, <3>1 DEF Behind, FileObject
    <3> HIDE DEF p
    <3> QED BY <3>2 DEF Positioned, AtPart
  <2> HIDE DEF f, o, p, k
  <2>3. ASSUME NEW g \in File \ {f}
        PROVE  /\ Of(holds', g) = Of(holds, g)
               /\ \A d \in Of(holds, g) : holds'[d] = holds[d] /\ fat'[d] = fat[d]
    <3>1. \A d \in Cluster : holds'[d].file = g <=> holds[d].file = g
      <4>1. Nothing.file # g
        BY VolumeAssumption DEF Nothing
      <4> QED BY <2>1, <2>3, <4>1 DEF IsOf
    <3>2. \A d \in Of(holds, g) : d \in Cluster /\ ~IsOf(d, f) /\ d \notin Of(holds, f)
      BY <2>3 DEF Of, IsOf
    <3>3. Of(holds', g) = Of(holds, g)
      BY <3>1 DEF Of
    <3>4. \A d \in Of(holds, g) : fat'[d] = fat[d]
      BY <1>2, <2>1, <2>2, <3>2
    <3> QED BY <2>1, <3>2, <3>3, <3>4
  <2> QED BY <1>3, <2>3 DEF Apart, f
<1>5. CASE FreeOne
  <2> DEFINE b == op.clst
  <2>1. holds' = holds /\ (fat' = fat \/ fat' = [fat EXCEPT ![b] = 0]) /\ op.at = "free"
    BY <1>5 DEF FreeOne
  <2>2. PICK tp \in [Cluster -> Nat] : CutOff(tp)
    BY DEF FilesInv
  <2>3. b \in Cluster /\ holds[b] = Nothing
    BY <2>1, <2>2 DEF CutOff
  <2> HIDE DEF b, f
  <2>4. \A g \in File : \A d \in Of(holds, g) : fat'[d] = fat[d]
    <3>1. \A g \in File : b \notin Of(holds, g)
      BY <1>2, <2>3, HoldsIs
    <3> QED BY <1>2, <2>1, <2>3, <3>1 DEF Of
  <2> QED BY <1>3, <2>1, <2>4 DEF Apart, f
<1>6. CASE RemoveEnds
  <2>1. fat' = fat /\ holds' = holds
    BY <1>6 DEF RemoveEnds
  <2> QED BY <1>3, <2>1, NothingWritten
<1>7. CASE RemoveFails
  <2>1. fat' = fat /\ (holds' = holds \/ Forget(f, 0))
    BY <1>7 DEF RemoveFails
  <2>2. \A g \in File \ {f} : Of(holds', g) = Of(holds, g) /\ \A c \in Of(holds, g) : holds'[c] = holds[c]
    <3>1. CASE holds' = holds
      BY <3>1
    <3>2. CASE Forget(f, 0)
      BY <1>2, <3>2, ForgetAll, GivenUp
    <3> QED BY <2>1, <3>1, <3>2
  <2> QED BY <1>3, <2>1, <2>2 DEF Apart
<1> QED BY <1>4, <1>5, <1>6, <1>7 DEF Remove

\* The other loops change the object alone.
LEMMA LoopsApart ==
  ASSUME FilesInv,
         \/ AppendLoop \/ AppendFails
         \/ WriteCluster \/ WriteGot \/ WriteRest \/ WriteFails
         \/ ReadPart \/ ReadFails
         \/ SeekLoop \/ SeekGot \/ SeekFails
  PROVE  Apart(op.file)
<1>1. obj \in [File -> FileObject]
  BY TypeIs DEF FilesInv
<1>2. CASE AppendLoop \/ AppendFails
  BY <1>1, <1>2, NothingWritten DEF AppendLoop, AppendFails
<1>3. CASE WriteCluster \/ WriteGot \/ WriteRest \/ WriteFails
  <2>1. \A g \in File \ {op.file} : obj'[g] = obj[g]
    BY <1>1, <1>3 DEF WriteCluster, WriteGot, WriteRest, WriteFails
  <2> QED BY <1>3, <2>1, NothingWritten DEF WriteCluster, WriteGot, WriteRest, WriteFails
<1>4. CASE ReadPart \/ ReadFails
  <2>1. \A g \in File \ {op.file} : obj'[g] = obj[g]
    BY <1>1, <1>4 DEF ReadPart, ReadFails
  <2> QED BY <1>4, <2>1, NothingWritten DEF ReadPart, ReadFails
<1>5. CASE SeekLoop \/ SeekGot \/ SeekFails
  <2>1. \A g \in File \ {op.file} : obj'[g] = obj[g]
    BY <1>1, <1>5 DEF SeekLoop, SeekGot, SeekFails
  <2> QED BY <1>5, <2>1, NothingWritten DEF SeekLoop, SeekGot, SeekFails
<1> QED BY <1>2, <1>3, <1>4, <1>5

LEMMA EveryStepApart ==
  ASSUME FilesInv, Next
  PROVE  \E f \in File \cup {None} : Apart(f)
<1>1. CASE GetFree
  BY <1>1, NothingWritten DEF GetFree
<1>2. ASSUME NEW f \in File,
             \/ OpenNew(f) \/ OpenOld(f, FALSE) \/ OpenOld(f, TRUE) \/ OpenAppend(f)
             \/ Overwrite(f) \/ Unlink(f)
      PROVE  Apart(f)
  BY <1>2, OpensApart
<1>3. ASSUME NEW f \in File,
             \/ \E n \in Lengths : WriteBegin(f, n) \/ ReadBegin(f, n)
             \/ Truncate(f) \/ TruncateFails(f) \/ SyncFails(f)
      PROVE  Apart(f)
  BY <1>3, BeginsApart
<1>4. ASSUME NEW f \in File, Sync(f, TRUE) \/ Sync(f, FALSE)
      PROVE  Apart(f)
  BY <1>4, SyncApart
<1>5. ASSUME NEW f \in File, NEW ofs \in {i \in Offsets : i <= MaxSize[f]}, SeekBegin(f, ofs)
      PROVE  Apart(f)
  <2>1. ofs \in Nat
    BY VolumeAssumption
  <2> QED BY <1>5, <2>1, SeekApart
<1>6. CASE Call
  <2>1. GetFree \/ \E f \in File : Apart(f)
    BY <1>2, <1>3, <1>4, <1>5, <1>6 DEF Call
  <2> QED BY <1>1, <2>1
<1>7. CASE Loop
  <2>1. op.file \in File \cup {None}
    BY TypeIs DEF FilesInv, CallRecord
  <2> QED BY <1>7, <2>1, ChainApart, RemoveApart, LoopsApart DEF Loop
<1> QED BY <1>6, <1>7 DEF Next

\* In each state, within a call too: the parts of each file are in clusters of its own
\* that its object, and its entry when closed, lead along; a cluster that is cut off and
\* still to be freed has a place in the order remove_chain goes; and each is counted.
THEOREM FilesInvHolds == Spec => []FilesInv
<1>1. Init => FilesInv
  BY FilesBegin
<1>2. FilesInv /\ [Next]_vars => FilesInv'
  BY EveryStep
<1> QED BY <1>1, <1>2, PTL DEF Spec

\* get_fat leads from each part of a file's data to the next and from the last nowhere,
\* whatever calls were made of this file and of others, in the FAT and where an exFAT
\* file has no links in it (ff.c:1133).
THEOREM LinksAlwaysFollowData == Spec => []LinksFollowData
<1>1. FilesInv => LinksFollowData
  BY InvLinks
<1> QED BY <1>1, FilesInvHolds, PTL

\* The position of an open file is in the cluster the object holds, and each part of the
\* size has its cluster, though accesses fail within calls (ff.c:4085, 4656).
THEOREM PositionsAlwaysHaveClusters == Spec => []PositionsHaveClusters
<1>1. FilesInv => PositionsHaveClusters
  BY InvPositions
<1> QED BY <1>1, FilesInvHolds, PTL

\* The count of free clusters is never less than the clusters that are free, and is
\* exact, with no cluster lost, until an access fails (ff.c:1435, 1572).
THEOREM ClustersStayCounted == Spec => []ClusterAccounts
<1>1. FilesInv => ClusterAccounts
  BY InvAccounts
<1> QED BY <1>1, FilesInvHolds, PTL

\* A call on one file does nothing to another: no step writes to the entry, the object,
\* the clusters or the links of more than one, a cluster that is freed being none's.
THEOREM FilesStayApart == Spec => FilesApart
<1>1. FilesInv /\ [Next]_vars => [\E f \in File \cup {None} : Apart(f)]_vars
  BY EveryStepApart
<1> QED BY <1>1, FilesInvHolds, PTL DEF Spec, FilesApart
=============================================================================
