-------------------------- MODULE FatWindowProofs --------------------------
(***************************************************************************)
(* Proofs about FatWindow, for every size of the volume, of its sectors    *)
(* and of its table, and for any type of volume: that the window, the disk *)
(* and the two tables agree after each call, whatever the drive refuses,   *)
(* and that the volume seen through the window is a VolumeImage.           *)
(*                                                                         *)
(* WindowIsConsistent is inductive.  It is restated as Good for what the   *)
(* functions return, Quiet says that a function shows the same volume as   *)
(* before, and Written that it put one link and no other.                  *)
(***************************************************************************)
EXTENDS FatWindow, TLAPS

(* Division, for which the provers are given one variable at a time.         *)

LEMMA Divided ==
  ASSUME NEW n \in Nat, NEW d \in Nat \ {0}
  PROVE  /\ n \div d \in Nat /\ n % d \in 0..(d - 1)
         /\ n = d * (n \div d) + (n % d)
  BY SMT

LEMMA Quotient ==
  ASSUME NEW d \in Nat \ {0}, NEW q \in Nat, NEW r \in 0..(d - 1)
  PROVE  (d * q + r) \div d = q /\ (d * q + r) % d = r
  BY SMT

LEMMA QuotientBound ==
  ASSUME NEW d \in Nat \ {0}, NEW f \in Nat, NEW n \in Nat, n < d * f
  PROVE  n \div d < f
  BY SMT

-----------------------------------------------------------------------------
(* The areas of the volume.                                                  *)

LEMMA Layout ==
  /\ FirstFAT \subseteq Volume /\ Table \subseteq Volume /\ FSInfo \in Volume /\ 0 \in Volume
  /\ Volume \subseteq Sectors /\ Nowhere \notin Sectors
  /\ Table \cap FirstFAT = {} /\ FSInfo \notin FirstFAT
  /\ n_fats = 2 => \A s \in FirstFAT : s + fsize \in Sectors /\ s + fsize \notin Volume
  /\ n_fats = 2 => \A s \in SecondFAT : s - fsize \in FirstFAT
  /\ \A s \in Table : \A t \in Nat : s + t <= LastSector => s + t \in Table
  /\ Sectors \subseteq Nat
<1>1. (n_fats * fsize = fsize /\ n_fats = 1) \/ (n_fats * fsize = 2 * fsize /\ n_fats = 2)
  BY FatWindowAssumption
<1> DEFINE both == n_fats * fsize
<1>2. both \in Nat /\ both >= fsize /\ fatbase + both <= LastSector
  BY <1>1, FatWindowAssumption
<1>3. (n_fats = 1 /\ both = fsize) \/ (n_fats = 2 /\ both = 2 * fsize)
  BY <1>1
<1>4. Table = (fatbase + both)..LastSector
  BY DEF Table
<1> HIDE DEF both
<1>5. FirstFAT \subseteq Sectors /\ Table \subseteq Sectors /\ FSInfo \in Sectors /\ 0 \in Sectors
  BY <1>2, <1>4, FatWindowAssumption DEF FirstFAT, FSInfo, Sectors
<1>6. /\ FirstFAT \cap SecondFAT = {} /\ Table \cap SecondFAT = {} /\ FSInfo \notin SecondFAT
      /\ 0 \notin SecondFAT
  BY <1>2, <1>3, <1>4, FatWindowAssumption DEF FirstFAT, SecondFAT, FSInfo
<1>7. n_fats = 2 => \A s \in FirstFAT : s + fsize \in Sectors /\ s + fsize \in SecondFAT
  BY <1>2, <1>3, FatWindowAssumption DEF FirstFAT, SecondFAT, Sectors
<1>8. n_fats = 2 => \A s \in SecondFAT : s - fsize \in FirstFAT
  BY FatWindowAssumption DEF FirstFAT, SecondFAT
<1>9. Table \cap FirstFAT = {} /\ FSInfo \notin FirstFAT /\ Nowhere \notin Sectors
  BY <1>2, <1>4, FatWindowAssumption DEF FirstFAT, FSInfo, Nowhere, Sectors
<1>10. \A s \in Table : \A t \in Nat : s + t <= LastSector => s + t \in Table
  BY <1>2, <1>4, FatWindowAssumption
<1>11. Sectors \subseteq Nat
  BY FatWindowAssumption DEF Sectors
<1> QED BY <1>5, <1>6, <1>7, <1>8, <1>9, <1>10, <1>11 DEF Volume

-----------------------------------------------------------------------------
(* What the functions return.                                                *)

Windows == [disk : [Sectors -> Sector], win : Sector, winsect : Volume \cup {Nowhere},
            wflag : BOOLEAN, unsure : SUBSET Sectors, ok : BOOLEAN]

Agreeing(w) ==
  n_fats = 2 => \A s \in FirstFAT : s + fsize \in w.unsure \/ w.disk[s + fsize] = w.disk[s]

Clean(w) == w.wflag \/ w.winsect \in w.unsure \cup {Nowhere} \/ w.win = w.disk[w.winsect]

Good(w) ==
  /\ w \in Windows /\ Agreeing(w) /\ Clean(w)
  /\ w.wflag => w.winsect # Nowhere
  /\ w.unsure \cap FirstFAT = {}

\* The sector s as a reader finds it.
Shown(w, s) == IF s = w.winsect THEN w.win ELSE w.disk[s]

\* From w to v nothing is changed; what had been may have reached the disk.
Quiet(w, v) ==
  /\ v.unsure \cap Volume \subseteq w.unsure
  /\ \A s \in Volume \ w.unsure : Shown(v, s) = Shown(w, s) /\ v.disk[s] \in {w.disk[s], Shown(w, s)}

LEMMA QuietSame == ASSUME NEW w PROVE Quiet(w, w)
  BY DEF Quiet

LEMMA QuietTwice ==
  ASSUME NEW u, NEW v, NEW w, Quiet(u, v), Quiet(v, w)
  PROVE  Quiet(u, w)
  BY DEF Quiet

\* sync_window keeps the window, and cleans it when it is answered FR_OK.
LEMMA SyncKeeps ==
  ASSUME NEW w, Good(w), w.ok, NEW v \in sync_window(w)
  PROVE  /\ Good(v) /\ Quiet(w, v) /\ v.win = w.win /\ v.winsect = w.winsect
         /\ v.ok => ~v.wflag
<1>1. CASE ~w.wflag
  <2>1. v = w
    BY <1>1 DEF sync_window
  <2> QED BY <1>1, <2>1, QuietSame
<1>2. CASE w.wflag /\ v = Failed(w)
  BY <1>2 DEF Failed, Good, Windows, Agreeing, Clean, Quiet, Shown
<1>3. CASE w.wflag /\ v \in Reflected([Put(w, w.winsect, w.win) EXCEPT !.wflag = FALSE])
  <2> DEFINE x == [Put(w, w.winsect, w.win) EXCEPT !.wflag = FALSE]
  <2>1. /\ w \in Windows /\ w.winsect \in Volume /\ w.winsect \in Sectors
    BY <1>3, Layout DEF Good, Windows
  <2>2. /\ x.disk = [w.disk EXCEPT ![w.winsect] = w.win] /\ x.win = w.win
        /\ x.winsect = w.winsect /\ x.wflag = FALSE /\ x.unsure = w.unsure \ {w.winsect}
        /\ x.ok /\ x \in Windows
    BY <2>1 DEF Put, Windows
  <2>3. x.unsure \cap FirstFAT = {} /\ Clean(x) /\ x.disk[w.winsect] = w.win
    BY <2>1, <2>2 DEF Good, Clean, Windows
  <2>4. Quiet(w, x)
    BY <2>1, <2>2, Layout DEF Quiet, Shown, Windows
  <2> HIDE DEF x
  <2>5. CASE InFirstFAT(w.winsect) /\ n_fats = 2
    <3> DEFINE copy == w.winsect + fsize
    <3>0. w.winsect \in Nat
      BY <2>1, Layout
    <3>9. w.winsect \in FirstFAT
      BY <3>0, <2>5, FatWindowAssumption DEF InFirstFAT, FirstFAT
    <3>1. w.winsect \in FirstFAT /\ copy \in Sectors /\ copy \notin Volume
      BY <3>9, <2>5, Layout
    <3>2. \A s \in FirstFAT : s + fsize = copy => s = w.winsect
      BY <3>1, FatWindowAssumption DEF FirstFAT
    <3>3. copy # Nowhere /\ copy # w.winsect /\ copy \notin FirstFAT
      BY <2>1, <3>1, Layout
    <3> HIDE DEF copy
    <3>4. CASE v = Put(x, copy, x.win)
      <4>1. /\ v.disk = [x.disk EXCEPT ![copy] = w.win] /\ v.win = w.win /\ v.winsect = w.winsect
            /\ v.wflag = FALSE /\ v.unsure = x.unsure \ {copy} /\ v.ok /\ v \in Windows
        BY <3>1, <3>4, <2>1, <2>2 DEF Put, Windows
      <4>2. \A s \in Sectors \ {copy} : v.disk[s] = x.disk[s]
        BY <4>1, <2>2 DEF Windows
      <4>3. v.disk[copy] = w.win
        BY <4>1, <2>2, <3>1 DEF Windows
      <4>4. Agreeing(v)
        <5> SUFFICES ASSUME NEW s \in FirstFAT, s + fsize \notin v.unsure
                     PROVE  v.disk[s + fsize] = v.disk[s]
          BY DEF Agreeing
        <5>1. s \in Sectors /\ s + fsize \in Sectors /\ s + fsize \notin Volume
          BY Layout, <2>5
        <5>2. CASE s = w.winsect
          BY <5>2, <4>2, <4>3, <2>3, <3>3, <5>1 DEF copy
        <5>3. CASE s # w.winsect
          <6>1. s # copy /\ s + fsize # copy /\ s + fsize # w.winsect
            BY <5>3, <3>2, <3>3, <5>1, <2>1
          <6>2. s + fsize \notin w.unsure
            BY <6>1, <4>1, <2>2
          <6> QED BY <6>1, <6>2, <5>1, <5>3, <4>2, <2>2, <2>1, <2>5 DEF Good, Agreeing, Windows
        <5> QED BY <5>2, <5>3
      <4>5. Clean(v) /\ v.unsure \cap FirstFAT = {}
        BY <4>1, <4>2, <2>1, <2>3, <3>3 DEF Clean
      <4>6. Quiet(x, v)
        BY <4>1, <4>2, <2>2, <3>1, Layout DEF Quiet, Shown
      <4> QED BY <4>1, <4>4, <4>5, <4>6, <2>4, QuietTwice DEF Good
    <3>5. CASE v = Lost(x, copy)
      <4>1. /\ v.disk = x.disk /\ v.win = w.win /\ v.winsect = w.winsect
            /\ v.wflag = FALSE /\ v.unsure = x.unsure \cup {copy} /\ v.ok /\ v \in Windows
        BY <3>1, <3>5, <2>2 DEF Lost, Windows
      <4>2. Agreeing(v)
        <5> SUFFICES ASSUME NEW s \in FirstFAT, s + fsize \notin v.unsure
                     PROVE  v.disk[s + fsize] = v.disk[s]
          BY DEF Agreeing
        <5>1. s \in Sectors /\ s + fsize \in Sectors /\ s + fsize \notin Volume
          BY Layout, <2>5
        <5>2. s # w.winsect
          BY <4>1 DEF copy
        <5>3. s + fsize # w.winsect /\ s + fsize \notin w.unsure
          BY <5>1, <2>1, <4>1, <2>2
        <5> QED BY <5>1, <5>2, <5>3, <4>1, <2>2, <2>1, <2>5 DEF Good, Agreeing, Windows
      <4>3. Clean(v) /\ v.unsure \cap FirstFAT = {}
        BY <4>1, <2>3, <2>2, <3>3 DEF Clean
      <4>4. Quiet(x, v)
        BY <4>1, <2>2, <3>1 DEF Quiet, Shown
      <4> QED BY <4>1, <4>2, <4>3, <4>4, <2>4, QuietTwice DEF Good
    <3>6. v \in {Put(x, copy, x.win)} \cup Faulty(Lost(x, copy))
      BY <1>3, <2>5, <2>2 DEF Reflected, x, copy
    <3> QED BY <3>4, <3>5, <3>6 DEF Faulty
  <2>6. CASE ~(InFirstFAT(w.winsect) /\ n_fats = 2)
    <3>1. v = x
      BY <1>3, <2>6, <2>2 DEF Reflected, x
    <3>2. Agreeing(x)
      <4> SUFFICES ASSUME n_fats = 2, NEW s \in FirstFAT, s + fsize \notin x.unsure
                   PROVE  x.disk[s + fsize] = x.disk[s]
        BY DEF Agreeing
      <4>1. s \in Sectors /\ s + fsize \in Sectors /\ s + fsize \notin Volume
        BY Layout
      <4>2. s # w.winsect
        BY <2>6, FatWindowAssumption DEF InFirstFAT, FirstFAT
      <4>3. s + fsize # w.winsect /\ s + fsize \notin w.unsure
        BY <4>1, <2>1, <2>2
      <4> QED BY <4>1, <4>2, <4>3, <2>2, <2>1 DEF Good, Agreeing, Windows
    <3> QED BY <3>1, <3>2, <2>2, <2>3, <2>4 DEF Good
  <2> QED BY <2>5, <2>6
<1> QED BY <1>1, <1>2, <1>3 DEF sync_window, Faulty

\* A clean window shows what the disk has.
LEMMA CleanShown ==
  ASSUME NEW w, Good(w), ~w.wflag
  PROVE  \A s \in Volume \ w.unsure : Shown(w, s) = w.disk[s]
  BY Layout DEF Good, Clean, Shown

\* disk_read into a window that has been written back.
LEMMA LoadedKeeps ==
  ASSUME NEW w, Good(w), w.ok, ~w.wflag, NEW sect \in Volume, NEW v \in Loaded(w, sect)
  PROVE  Good(v) /\ Quiet(w, v) /\ (v.ok => v.winsect = sect)
<1>1. w \in Windows /\ sect \in Sectors /\ Nowhere \notin Volume
  BY Layout DEF Good
<1>2. /\ v.disk = w.disk /\ v.wflag = FALSE /\ v.unsure = w.unsure /\ v \in Windows
      /\ \/ v.winsect = sect /\ v.win = w.disk[sect]
         \/ v.winsect = Nowhere /\ ~v.ok
  BY <1>1 DEF Loaded, Faulty, Windows
<1>3. Good(v)
  BY <1>2 DEF Good, Agreeing, Clean
<1>4. \A s \in Volume \ w.unsure : Shown(w, s) = w.disk[s]
  BY CleanShown
<1>5. \A s \in Volume : Shown(v, s) = w.disk[s]
  BY <1>1, <1>2 DEF Shown
<1> QED BY <1>2, <1>3, <1>4, <1>5, <1>1 DEF Quiet

\* move_window changes nothing, and is at the sector when it is answered FR_OK.
LEMMA MoveKeeps ==
  ASSUME NEW w, Good(w), w.ok, NEW sect \in Volume, NEW v \in move_window(w, sect)
  PROVE  /\ Good(v) /\ Quiet(w, v)
         /\ v.ok => v.winsect = sect
         /\ sect = w.winsect => v = w
<1>1. CASE sect = w.winsect
  BY <1>1, QuietSame DEF move_window
<1>2. CASE sect # w.winsect
  <2>1. PICK u \in sync_window(w) : v \in IF u.ok THEN Loaded(u, sect) ELSE {u}
    BY <1>2 DEF move_window
  <2>2. Good(u) /\ Quiet(w, u) /\ (u.ok => ~u.wflag)
    BY <2>1, SyncKeeps
  <2>3. CASE u.ok
    BY <1>2, <2>1, <2>2, <2>3, LoadedKeeps, QuietTwice
  <2>4. CASE ~u.ok
    BY <1>2, <2>1, <2>2, <2>4
  <2> QED BY <2>3, <2>4
<1> QED BY <1>1, <1>2

\* From w to v the digits of sect from pos on are set to the digits first to last
\* of val, and no other.
Sets(w, v, sect, pos, first, last, val) ==
  /\ v.disk = w.disk /\ v.unsure = w.unsure /\ v.ok /\ v.winsect = sect
  /\ \A s \in Volume \ {sect} : Shown(v, s) = Shown(w, s)
  /\ \A p \in Positions :
       Shown(v, sect)[p] = IF p - pos \in 0..(last - first) THEN val[first + (p - pos)]
                           ELSE Shown(w, sect)[p]

LEMMA StoredSets ==
  ASSUME NEW w, Good(w), w.ok, w.winsect \in Volume,
         NEW pos \in Nat, NEW val \in DWORD, NEW first \in 0..7, NEW last \in first..7
  PROVE  LET v == Stored(w, pos, Part(val, first, last))
         IN  Good(v) /\ Sets(w, v, w.winsect, pos, first, last, val)
<1> DEFINE digits == Part(val, first, last)
           v == Stored(w, pos, digits)
<1>1. /\ DOMAIN digits = 0..(last - first)
      /\ \A k \in 0..(last - first) : digits[k] = val[first + k] /\ first + k \in 0..7
  BY DEF Part
<1>2. \A k \in 0..(last - first) : digits[k] \in Digit
  BY <1>1 DEF DWORD
<1> HIDE DEF digits
<1>3. w \in Windows /\ w.win \in Sector
  BY DEF Good, Windows
<1>4. /\ v.disk = w.disk /\ v.winsect = w.winsect /\ v.wflag = TRUE /\ v.unsure = w.unsure /\ v.ok
      /\ v.win = [p \in Positions |-> IF p - pos \in DOMAIN digits THEN digits[p - pos]
                                      ELSE w.win[p]]
  BY <1>3 DEF Stored, Windows
<1>5. v.win \in Sector
  BY <1>1, <1>2, <1>3, <1>4 DEF Sector
<1>6. v \in Windows
  BY <1>3, <1>4, <1>5 DEF Stored, Windows
<1>7. \A p \in Positions :
        v.win[p] = IF p - pos \in 0..(last - first) THEN val[first + (p - pos)] ELSE w.win[p]
  BY <1>1, <1>4
<1>8. w.winsect # Nowhere
  BY Layout
<1> HIDE DEF v
<1>9. Good(v)
  BY <1>4, <1>6, <1>8 DEF Good, Agreeing, Clean
<1>10. Sets(w, v, w.winsect, pos, first, last, val)
  BY <1>4, <1>7 DEF Sets, Shown
<1> QED BY <1>9, <1>10 DEF v, digits

-----------------------------------------------------------------------------
(* Where the links are.                                                      *)

LEMMA SectorHalves ==
  /\ SS \in Nat \ {0} /\ SS = 2 * (SS \div 2) /\ SS = 4 * (SS \div 4)
  /\ SS \div 2 \in Nat \ {0} /\ SS \div 4 \in Nat \ {0}
  BY FatWindowAssumption

\* A sector of the table, by its number in the table.
LEMMA InTable ==
  ASSUME NEW t \in Nat, t < fsize
  PROVE  fatbase + t \in FirstFAT /\ fatbase + t \in Volume
  BY Layout, FatWindowAssumption DEF FirstFAT

LEMMA Place16 ==
  ASSUME fs_type = "FAT16", NEW clst \in Nat, NEW k \in 0..3
  PROVE  VI!Place(clst, k) = <<fatbase + clst \div (SS \div 2), 2 * ((clst * 2) % SS) + k>>
<1> DEFINE h == SS \div 2
           q == clst \div h
           r == clst % h
           digit == 4 * clst + k
           byte == digit \div 2
           low == digit % 2
<1>1. h \in Nat \ {0} /\ SS = 2 * h /\ SS \in Nat \ {0}
  BY SectorHalves
<1>2. q \in Nat /\ r \in 0..(h - 1) /\ clst = h * q + r
  BY <1>1, Divided
<1>3. byte = 2 * clst + (k \div 2) /\ low = k % 2 /\ k = 2 * (k \div 2) + (k % 2) /\ k \div 2 \in {0, 1}
  OBVIOUS
<1>4. VI!Place(clst, k) = <<fatbase + byte \div SS, 2 * (byte % SS) + low>>
  BY DEF VI!Place, VI!Width
<1> HIDE DEF h, q, r, byte, low
<1>5. byte = SS * q + (2 * r + (k \div 2)) /\ 2 * r + (k \div 2) \in 0..(SS - 1)
  BY <1>1, <1>2, <1>3
<1>6. byte \div SS = q /\ byte % SS = 2 * r + (k \div 2)
  BY <1>1, <1>2, <1>5, Quotient
<1> DEFINE start == clst * 2
<1>7. start = SS * q + 2 * r /\ 2 * r \in 0..(SS - 1)
  BY <1>1, <1>2
<1> HIDE DEF start
<1>8. start % SS = 2 * r
  BY <1>1, <1>2, <1>7, Quotient
<1>9. 2 * (byte % SS) + low = 2 * (start % SS) + k
  <2>1. 2 * (2 * r + (k \div 2)) + (k % 2) = 2 * (2 * r) + k
    BY <1>2, <1>3
  <2> QED BY <2>1, <1>3, <1>6, <1>8
<1> QED BY <1>4, <1>6, <1>9 DEF q, h, start

LEMMA Place32 ==
  ASSUME fs_type = "FAT32", NEW clst \in Nat, NEW k \in 0..6
  PROVE  VI!Place(clst, k) = <<fatbase + clst \div (SS \div 4), 2 * ((clst * 4) % SS) + k>>
<1> DEFINE h == SS \div 4
           q == clst \div h
           r == clst % h
           digit == 8 * clst + k
           byte == digit \div 2
           low == digit % 2
<1>1. h \in Nat \ {0} /\ SS = 4 * h /\ SS \in Nat \ {0}
  BY SectorHalves
<1>2. q \in Nat /\ r \in 0..(h - 1) /\ clst = h * q + r
  BY <1>1, Divided
<1>3. byte = 4 * clst + (k \div 2) /\ low = k % 2 /\ k = 2 * (k \div 2) + (k % 2) /\ k \div 2 \in 0..3
  OBVIOUS
<1>4. VI!Place(clst, k) = <<fatbase + byte \div SS, 2 * (byte % SS) + low>>
  BY DEF VI!Place, VI!Width
<1> HIDE DEF h, q, r, byte, low
<1>5. byte = SS * q + (4 * r + (k \div 2)) /\ 4 * r + (k \div 2) \in 0..(SS - 1)
  BY <1>1, <1>2, <1>3
<1>6. byte \div SS = q /\ byte % SS = 4 * r + (k \div 2)
  BY <1>1, <1>2, <1>5, Quotient
<1> DEFINE start == clst * 4
<1>7. start = SS * q + 4 * r /\ 4 * r \in 0..(SS - 1)
  BY <1>1, <1>2
<1> HIDE DEF start
<1>8. start % SS = 4 * r
  BY <1>1, <1>2, <1>7, Quotient
<1>9. 2 * (byte % SS) + low = 2 * (start % SS) + k
  <2>1. 2 * (4 * r + (k \div 2)) + (k % 2) = 2 * (4 * r) + k
    BY <1>2, <1>3
  <2> QED BY <2>1, <1>3, <1>6, <1>8
<1> QED BY <1>4, <1>6, <1>9 DEF q, h, start

\* The number of the first byte of a FAT12 link.
Byte12(clst) == clst + clst \div 2

LEMMA Place12 ==
  ASSUME fs_type = "FAT12", NEW clst \in Nat, NEW k \in 0..2
  PROVE  LET bc == Byte12(clst)
             odd == clst % 2
         IN  VI!Place(clst, k) =
               IF k <= 1 - odd THEN <<fatbase + bc \div SS, 2 * (bc % SS) + odd + k>>
               ELSE <<fatbase + (bc + 1) \div SS, 2 * ((bc + 1) % SS) + (k - 2 + odd)>>
<1> DEFINE bc == Byte12(clst)
           odd == clst % 2
           digit == 3 * clst + k
           byte == digit \div 2
           low == digit % 2
<1>1. clst \div 2 \in Nat /\ odd \in {0, 1} /\ clst = 2 * (clst \div 2) + odd
  OBVIOUS
<1>2. byte \in Nat /\ low \in {0, 1} /\ digit = 2 * byte + low
  OBVIOUS
<1>3. bc = clst + clst \div 2
  BY DEF Byte12
<1>4. VI!Place(clst, k) = <<fatbase + byte \div SS, 2 * (byte % SS) + low>>
  BY DEF VI!Place, VI!Width
<1>5. digit = 3 * clst + k /\ SS \in Nat \ {0}
  BY FatWindowAssumption
<1> HIDE DEF odd, byte, low, digit, bc
<1>6. IF k <= 1 - odd THEN byte = bc /\ low = odd + k ELSE byte = bc + 1 /\ low = k - 2 + odd
  BY <1>1, <1>2, <1>3, <1>5
<1>7. bc \in Nat /\ bc % SS \in Nat /\ (bc + 1) % SS \in Nat
  BY <1>1, <1>3, <1>5
<1>8. CASE k <= 1 - odd
  <2>1. byte = bc /\ low = odd + k
    BY <1>6, <1>8
  <2>2. 2 * (bc % SS) + low = 2 * (bc % SS) + odd + k
    BY <2>1, <1>7, <1>1
  <2> QED BY <1>4, <1>8, <2>1, <2>2 DEF bc, odd
<1>9. CASE ~(k <= 1 - odd)
  BY <1>4, <1>6, <1>9 DEF bc, odd
<1> QED BY <1>8, <1>9

\* The sectors of a link are in the table.
LEMMA LinkInTable ==
  ASSUME fs_type \in Types, NEW clst \in Links
  PROVE  /\ clst \in Nat
         /\ fs_type = "FAT12" => /\ fatbase + Byte12(clst) \div SS \in FirstFAT
                                 /\ fatbase + (Byte12(clst) + 1) \div SS \in FirstFAT
         /\ fs_type = "FAT16" => fatbase + clst \div (SS \div 2) \in FirstFAT
         /\ fs_type = "FAT32" => fatbase + clst \div (SS \div 4) \in FirstFAT
<1> DEFINE n == n_fatent[fs_type]
           room == SS * fsize
<1>1. n \in Nat /\ clst \in Nat /\ clst < n
  BY FatWindowAssumption DEF Links
<1>2. room \in Nat /\ SS \in Nat \ {0} /\ fsize \in Nat
  BY FatWindowAssumption
<1>3. 2 * SS * fsize = 2 * room
  BY <1>2
<1>4. ASSUME fs_type = "FAT12"
      PROVE  /\ fatbase + Byte12(clst) \div SS \in FirstFAT
             /\ fatbase + (Byte12(clst) + 1) \div SS \in FirstFAT
  <2>1. 3 * n <= 2 * room
    BY <1>3, <1>4, LinksFit
  <2>2. clst \div 2 \in Nat /\ 2 * (clst \div 2) <= clst
    BY <1>1
  <2>3. Byte12(clst) \in Nat /\ 2 * Byte12(clst) <= 3 * clst
    BY <1>1, <2>2 DEF Byte12
  <2> HIDE DEF n, room
  <2>4. Byte12(clst) < room /\ Byte12(clst) + 1 < room
    BY <1>1, <1>2, <2>1, <2>3
  <2>5. Byte12(clst) < SS * fsize /\ Byte12(clst) + 1 < SS * fsize
    BY <2>4 DEF room
  <2>6. Byte12(clst) \div SS < fsize /\ (Byte12(clst) + 1) \div SS < fsize
    <3> DEFINE next == Byte12(clst) + 1
    <3>1. next \in Nat /\ next < SS * fsize
      BY <2>3, <2>5
    <3> HIDE DEF next
    <3>2. next \div SS < fsize
      BY <1>2, <3>1, QuotientBound
    <3> QED BY <1>2, <2>3, <2>5, <3>2, QuotientBound DEF next
  <2> QED BY <1>2, <2>3, <2>6, InTable, Divided
<1>5. ASSUME fs_type = "FAT16" PROVE fatbase + clst \div (SS \div 2) \in FirstFAT
  <2> DEFINE h == SS \div 2
  <2>1. h \in Nat \ {0} /\ SS = 2 * h
    BY SectorHalves
  <2>2. 4 * n <= 2 * room
    BY <1>3, <1>5, LinksFit
  <2> HIDE DEF n, h
  <2>3. room = 2 * (h * fsize) /\ h * fsize \in Nat
    BY <1>2, <2>1
  <2> HIDE DEF room
  <2>4. clst < h * fsize
    BY <1>1, <2>2, <2>3
  <2>5. clst \div h < fsize /\ clst \div h \in Nat
    BY <1>1, <1>2, <2>1, <2>4, QuotientBound, Divided
  <2> QED BY <2>5, InTable DEF h
<1>6. ASSUME fs_type = "FAT32" PROVE fatbase + clst \div (SS \div 4) \in FirstFAT
  <2> DEFINE h == SS \div 4
  <2>1. h \in Nat \ {0} /\ SS = 4 * h
    BY SectorHalves
  <2>2. 8 * n <= 2 * room
    BY <1>3, <1>6, LinksFit
  <2> HIDE DEF n, h
  <2>3. room = 4 * (h * fsize) /\ h * fsize \in Nat
    BY <1>2, <2>1
  <2> HIDE DEF room
  <2>4. clst < h * fsize
    BY <1>1, <2>2, <2>3
  <2>5. clst \div h < fsize /\ clst \div h \in Nat
    BY <1>1, <1>2, <2>1, <2>4, QuotientBound, Divided
  <2> QED BY <2>5, InTable DEF h
<1> QED BY <1>1, <1>4, <1>5, <1>6

-----------------------------------------------------------------------------
(* Putting a link.                                                           *)

\* What the invariant says of the window a call finds.
LEMMA Found ==
  ASSUME WindowIsConsistent
  PROVE  /\ Good(Window) /\ Window.ok
         /\ \A s \in Volume : Image[s] = Shown(Window, s)
         /\ Window.disk = disk /\ Window.unsure = unsure /\ Window.winsect = winsect
         /\ fs_type \in Types /\ fs_type \in {"FAT12", "FAT16", "FAT32"}
<1>1. Window \in Windows
  BY DEF WindowIsConsistent, TypeOK, Window, Windows
<1>2. Good(Window)
  BY <1>1 DEF WindowIsConsistent, CopiesAgree, CleanWindow, Good, Agreeing, Clean, Window
<1> QED BY <1>2, FatWindowAssumption DEF Window, Image, Shown, WindowIsConsistent, TypeOK

\* The digit k of the link is one of val's, or, if the call has failed, the old one.
DigitPut(w, clst, val, k) ==
  LET place == VI!Place(clst, k) IN
    \/ Shown(w, place[1])[place[2]] = val[k]
    \/ ~w.ok /\ Shown(w, place[1])[place[2]] = Image[place[1]][place[2]]

Settled(w) ==
  /\ w.unsure \cap Volume \subseteq unsure
  /\ \A s \in Volume \ unsure : w.disk[s] \in {disk[s], Image[s], Shown(w, s)}

Places(clst) == {VI!Place(clst, k) : k \in VI!Digits}

\* The link of clst is put, and nothing else.
Written(w, clst, val) ==
  /\ Good(w) /\ Settled(w)
  /\ \A k \in VI!Digits : DigitPut(w, clst, val, k)
  /\ \A s \in Volume \ unsure :
       Shown(w, s) = Image[s]
         \/ \A p \in Positions : <<s, p>> \in Places(clst) \/ Shown(w, s)[p] = Image[s][p]

\* A call that fails before it has put anything.
LEMMA NothingWritten ==
  ASSUME WindowIsConsistent, NEW w, Good(w), Quiet(Window, w), ~w.ok, NEW clst, NEW val,
         \A k \in VI!Digits : VI!Place(clst, k)[1] \in FirstFAT
  PROVE  Written(w, clst, val)
<1>1. FirstFAT \cap unsure = {} /\ FirstFAT \subseteq Volume
  BY Layout DEF WindowIsConsistent
<1>2. \A s \in Volume \ unsure : Shown(w, s) = Image[s] /\ w.disk[s] \in {disk[s], Image[s]}
  BY Found DEF Quiet
<1>3. Settled(w)
  BY <1>2, Found DEF Settled, Quiet
<1>4. ASSUME NEW k \in VI!Digits PROVE DigitPut(w, clst, val, k)
  <2> DEFINE place == VI!Place(clst, k)
  <2>1. place[1] \in Volume \ unsure
    BY <1>1
  <2> QED BY <2>1, <1>2 DEF DigitPut
<1> QED BY <1>2, <1>3, <1>4 DEF Written

\* A link whose digits are in a row in one sector.
LEMMA RowPut ==
  ASSUME WindowIsConsistent, NEW clst, NEW val \in DWORD, NEW sect \in FirstFAT,
         NEW pos \in Nat, NEW n \in 1..8, VI!Digits = 0..(n - 1),
         pos + (n - 1) \in Positions,
         \A k \in 0..(n - 1) : VI!Place(clst, k) = <<sect, pos + k>>,
         NEW v \in move_window(Window, sect)
  PROVE  Written(IF v.ok THEN Stored(v, pos, Part(val, 0, n - 1)) ELSE v, clst, val)
<1>1. sect \in Volume /\ sect \notin unsure
  BY Layout DEF WindowIsConsistent
<1>2. Good(v) /\ Quiet(Window, v) /\ (v.ok => v.winsect = sect)
  BY <1>1, Found, MoveKeeps
<1>3. CASE ~v.ok
  BY <1>2, <1>3, NothingWritten
<1>4. CASE v.ok
  <2> DEFINE w == Stored(v, pos, Part(val, 0, n - 1))
  <2>1. Good(w) /\ Sets(v, w, sect, pos, 0, n - 1, val)
    BY <1>1, <1>2, <1>4, StoredSets
  <2> HIDE DEF w
  <2>2. \A s \in Volume \ unsure : Shown(v, s) = Image[s] /\ v.disk[s] \in {disk[s], Image[s]}
    BY <1>2, Found DEF Quiet
  <2>3. Settled(w)
    BY <1>2, <2>1, <2>2, Found DEF Settled, Sets, Quiet
  <2>4. \A p \in Positions :
          Shown(w, sect)[p] = IF p - pos \in 0..(n - 1) THEN val[p - pos] ELSE Image[sect][p]
    <3> SUFFICES ASSUME NEW p \in Positions
                 PROVE  Shown(w, sect)[p] = IF p - pos \in 0..(n - 1) THEN val[p - pos]
                                            ELSE Image[sect][p]
      OBVIOUS
    <3>1. p \in Int
      BY FatWindowAssumption DEF Positions
    <3>2. 0 + (p - pos) = p - pos /\ (n - 1) - 0 = n - 1
      BY <3>1
    <3> QED BY <3>2, <1>1, <2>1, <2>2 DEF Sets
  <2>5. ASSUME NEW k \in VI!Digits PROVE DigitPut(w, clst, val, k)
    <3>1. k \in 0..(n - 1) /\ VI!Place(clst, k) = <<sect, pos + k>>
      OBVIOUS
    <3>2. pos + k \in Positions /\ (pos + k) - pos = k
      BY <3>1, FatWindowAssumption DEF Positions
    <3>3. Shown(w, sect)[pos + k] = val[k]
      BY <2>4, <3>1, <3>2
    <3> QED BY <3>1, <3>3 DEF DigitPut
  <2>6. ASSUME NEW p \in Positions
        PROVE  <<sect, p>> \in Places(clst) \/ Shown(w, sect)[p] = Image[sect][p]
    <3>1. CASE p - pos \in 0..(n - 1)
      <4>1. PICK k \in 0..(n - 1) : k = p - pos
        BY <3>1
      <4>2. p = pos + k
        BY <4>1, FatWindowAssumption DEF Positions
      <4> QED BY <4>1, <4>2 DEF Places
    <3> QED BY <3>1, <2>4
  <2>7. \A s \in Volume \ unsure : s # sect => Shown(w, s) = Image[s]
    BY <2>1, <2>2 DEF Sets
  <2> QED BY <1>4, <2>1, <2>3, <2>5, <2>6, <2>7 DEF Written, w
<1> QED BY <1>3, <1>4

\* The row fits in its sector.
LEMMA Row16 ==
  ASSUME NEW clst \in Nat
  PROVE  2 * ((clst * 2) % SS) \in Nat /\ 2 * ((clst * 2) % SS) + 3 \in Positions
<1>1. PICK r \in Nat : r = (clst * 2) % SS /\ 2 * r <= 2 * SS - 4
  <2> DEFINE h == SS \div 2
             q == clst \div h
             r == clst % h
             start == clst * 2
  <2>1. h \in Nat \ {0} /\ SS = 2 * h /\ SS \in Nat \ {0}
    BY SectorHalves
  <2>2. q \in Nat /\ r \in 0..(h - 1) /\ clst = h * q + r
    BY <2>1, Divided
  <2> HIDE DEF h, q, r
  <2>3. start = SS * q + 2 * r /\ 2 * r \in 0..(SS - 1) /\ 2 * (2 * r) <= 2 * SS - 4
    BY <2>1, <2>2
  <2> HIDE DEF start
  <2>4. start % SS = 2 * r
    BY <2>1, <2>2, <2>3, Quotient
  <2> QED BY <2>2, <2>3, <2>4 DEF start
<1> QED BY <1>1, SectorHalves DEF Positions

LEMMA Put16Writes ==
  ASSUME WindowIsConsistent, fs_type = "FAT16", NEW clst \in Links, NEW val \in DWORD,
         NEW w \in Put16(clst, val)
  PROVE  Written(w, clst, val)
<1> DEFINE sect == fatbase + clst \div (SS \div 2)
           pos == 2 * ((clst * 2) % SS)
<1>1. sect \in FirstFAT /\ clst \in Nat
  BY Found, LinkInTable
<1>2. VI!Digits = 0..3 /\ \A k \in 0..3 : VI!Place(clst, k) = <<sect, pos + k>>
  BY <1>1, Place16 DEF VI!Digits
<1>3. pos \in Nat /\ pos + 3 \in Positions
  BY <1>1, Row16
<1>4. PICK v \in move_window(Window, sect) : w = IF v.ok THEN Stored(v, pos, Part(val, 0, 3)) ELSE v
  BY DEF Put16
<1> HIDE DEF sect, pos
<1>5. 4 \in 1..8 /\ 4 - 1 = 3
  OBVIOUS
<1> QED BY <1>1, <1>2, <1>3, <1>4, <1>5, RowPut

\* The row fits in its sector.
LEMMA Row32 ==
  ASSUME NEW clst \in Nat
  PROVE  2 * ((clst * 4) % SS) \in Nat /\ 2 * ((clst * 4) % SS) + 6 \in Positions
<1>1. PICK r \in Nat : r = (clst * 4) % SS /\ 2 * r <= 2 * SS - 8
  <2> DEFINE h == SS \div 4
             q == clst \div h
             r == clst % h
             start == clst * 4
  <2>1. h \in Nat \ {0} /\ SS = 4 * h /\ SS \in Nat \ {0}
    BY SectorHalves
  <2>2. q \in Nat /\ r \in 0..(h - 1) /\ clst = h * q + r
    BY <2>1, Divided
  <2> HIDE DEF h, q, r
  <2>3. start = SS * q + 4 * r /\ 4 * r \in 0..(SS - 1) /\ 2 * (4 * r) <= 2 * SS - 8
    BY <2>1, <2>2
  <2> HIDE DEF start
  <2>4. start % SS = 4 * r
    BY <2>1, <2>2, <2>3, Quotient
  <2> QED BY <2>2, <2>3, <2>4 DEF start
<1> QED BY <1>1, SectorHalves DEF Positions

LEMMA Put32Writes ==
  ASSUME WindowIsConsistent, fs_type = "FAT32", NEW clst \in Links, NEW val \in DWORD,
         NEW w \in Put32(clst, val)
  PROVE  Written(w, clst, val)
<1> DEFINE sect == fatbase + clst \div (SS \div 4)
           pos == 2 * ((clst * 4) % SS)
<1>1. sect \in FirstFAT /\ clst \in Nat
  BY Found, LinkInTable
<1>2. VI!Digits = 0..6 /\ \A k \in 0..6 : VI!Place(clst, k) = <<sect, pos + k>>
  BY <1>1, Place32 DEF VI!Digits
<1>3. pos \in Nat /\ pos + 6 \in Positions
  BY <1>1, Row32
<1>4. PICK v \in move_window(Window, sect) : w = IF v.ok THEN Stored(v, pos, Part(val, 0, 6)) ELSE v
  BY DEF Put32
<1> HIDE DEF sect, pos
<1>5. 7 \in 1..8 /\ 7 - 1 = 6
  OBVIOUS
<1> QED BY <1>1, <1>2, <1>3, <1>4, <1>5, RowPut

\* The two bytes of a FAT12 link: their sectors, and the first digit in each.
Sect1(clst) == fatbase + Byte12(clst) \div SS
Sect2(clst) == fatbase + (Byte12(clst) + 1) \div SS
Pos1(clst)  == 2 * (Byte12(clst) % SS) + (clst % 2)
Pos2(clst)  == 2 * ((Byte12(clst) + 1) % SS)

LEMMA Link12 ==
  ASSUME WindowIsConsistent, fs_type = "FAT12", NEW clst \in Links
  PROVE  /\ clst \in Nat /\ clst % 2 \in {0, 1}
         /\ Sect1(clst) \in FirstFAT /\ Sect2(clst) \in FirstFAT
         /\ Pos1(clst) \in Nat /\ Pos1(clst) + (1 - (clst % 2)) \in Positions
         /\ Pos2(clst) \in Nat /\ Pos2(clst) + (clst % 2) \in Positions
         /\ Sect1(clst) = Sect2(clst) => Pos2(clst) = Pos1(clst) + (2 - (clst % 2))
         /\ VI!Digits = 0..2
         /\ \A k \in 0..2 :
              VI!Place(clst, k) = IF k <= 1 - (clst % 2) THEN <<Sect1(clst), Pos1(clst) + k>>
                                  ELSE <<Sect2(clst), Pos2(clst) + (k - (2 - (clst % 2)))>>
<1> DEFINE bc == Byte12(clst)
           odd == clst % 2
<1>1. clst \in Nat /\ Sect1(clst) \in FirstFAT /\ Sect2(clst) \in FirstFAT
  BY Found, LinkInTable DEF Sect1, Sect2
<1>2. odd \in {0, 1} /\ bc \in Nat /\ SS \in Nat \ {0}
  BY <1>1, FatWindowAssumption DEF Byte12
<1>3. Pos1(clst) = 2 * (bc % SS) + odd /\ Pos2(clst) = 2 * ((bc + 1) % SS)
  BY DEF Pos1, Pos2
<1>4. Sect1(clst) = fatbase + bc \div SS /\ Sect2(clst) = fatbase + (bc + 1) \div SS
  BY DEF Sect1, Sect2
<1>5. \A k \in 0..2 :
        VI!Place(clst, k) = IF k <= 1 - odd THEN <<Sect1(clst), Pos1(clst) + k>>
                            ELSE <<Sect2(clst), Pos2(clst) + (k - 2 + odd)>>
  BY <1>1, <1>3, <1>4, Place12
<1> DEFINE next == bc + 1
<1>14. next \in Nat /\ next = bc + 1
  BY <1>2
<1> HIDE DEF bc, next
<1>6. /\ bc \div SS \in Nat /\ bc % SS \in 0..(SS - 1) /\ bc = SS * (bc \div SS) + (bc % SS)
      /\ next \div SS \in Nat /\ next % SS \in 0..(SS - 1) /\ next = SS * (next \div SS) + (next % SS)
  BY <1>2, <1>14, Divided
<1> DEFINE q1 == bc \div SS
           r1 == bc % SS
           q2 == next \div SS
           r2 == next % SS
<1>7. /\ q1 \in Nat /\ r1 \in 0..(SS - 1) /\ bc = SS * q1 + r1
      /\ q2 \in Nat /\ r2 \in 0..(SS - 1) /\ bc + 1 = SS * q2 + r2
  BY <1>6, <1>14
<1>8. Pos1(clst) = 2 * r1 + odd /\ Pos2(clst) = 2 * r2
  BY <1>3 DEF next
<1>9. Sect1(clst) = fatbase + q1 /\ Sect2(clst) = fatbase + q2
  BY <1>4 DEF next
<1> HIDE DEF q1, r1, q2, r2, next, bc, odd
<1>10. /\ Pos1(clst) \in Nat /\ Pos1(clst) + (1 - odd) \in Positions
       /\ Pos2(clst) \in Nat /\ Pos2(clst) + odd \in Positions
  BY <1>2, <1>7, <1>8 DEF Positions
<1>11. ASSUME Sect1(clst) = Sect2(clst) PROVE Pos2(clst) = Pos1(clst) + (2 - odd)
  <2>1. q1 = q2
    BY <1>7, <1>9, <1>11, FatWindowAssumption
  <2>2. r2 = r1 + 1
    BY <1>2, <1>7, <2>1
  <2> QED BY <1>2, <1>7, <1>8, <2>2
<1>12. \A k \in 0..2 : k - 2 + odd = k - (2 - odd)
  BY <1>2
<1>13. VI!Digits = 0..2
  BY DEF VI!Digits
<1> QED BY <1>1, <1>2, <1>5, <1>10, <1>11, <1>12, <1>13 DEF odd

LEMMA Put12Writes ==
  ASSUME WindowIsConsistent, fs_type = "FAT12", NEW clst \in Links, NEW val \in DWORD,
         NEW w \in Put12(clst, val)
  PROVE  Written(w, clst, val)
<1> DEFINE odd == clst % 2
           sect1 == Sect1(clst)
           sect2 == Sect2(clst)
           pos1 == Pos1(clst)
           pos2 == Pos2(clst)
<1>1. /\ odd \in {0, 1} /\ pos1 \in Nat /\ pos2 \in Nat
      /\ pos1 + (1 - odd) \in Positions /\ pos2 + odd \in Positions
      /\ sect1 = sect2 => pos2 = pos1 + (2 - odd)
      /\ VI!Digits = 0..2
      /\ \A k \in 0..2 : VI!Place(clst, k) = IF k <= 1 - odd THEN <<sect1, pos1 + k>>
                                             ELSE <<sect2, pos2 + (k - (2 - odd))>>
  BY Link12
<1>2. sect1 \in FirstFAT /\ sect2 \in FirstFAT
  BY Link12
<1>3. sect1 \in Volume \ unsure /\ sect2 \in Volume \ unsure
  BY <1>2, Layout DEF WindowIsConsistent
<1>4. \A k \in VI!Digits : VI!Place(clst, k)[1] \in FirstFAT
  BY <1>1, <1>2
<1>5. PICK v \in move_window(Window, sect1) :
        \/ ~v.ok /\ w = v
        \/ v.ok /\ \E u \in move_window(FirstByte(v, clst, val), sect2) :
                     w = IF u.ok THEN SecondByte(u, clst, val) ELSE u
  BY DEF Put12, Sect1, Sect2, Byte12
<1>6. Good(v) /\ Quiet(Window, v) /\ (v.ok => v.winsect = sect1)
  BY <1>3, Found, MoveKeeps
<1>7. CASE ~v.ok
  BY <1>4, <1>5, <1>6, <1>7, NothingWritten
<1>8. CASE v.ok
  <2> DEFINE a == FirstByte(v, clst, val)
  <2>1. a = Stored(v, pos1, Part(val, 0, 1 - odd))
    BY DEF FirstByte, Pos1, Byte12
  <2>2. 1 - odd \in 0..7 /\ 2 - odd \in 0..7 /\ 2 \in (2 - odd)..7 /\ 2 - (2 - odd) = odd
    BY <1>1
  <2>3. Good(a) /\ Sets(v, a, sect1, pos1, 0, 1 - odd, val)
    BY <1>1, <1>3, <1>6, <1>8, <2>1, <2>2, StoredSets
  <2>4. PICK u \in move_window(a, sect2) : w = IF u.ok THEN SecondByte(u, clst, val) ELSE u
    BY <1>5, <1>8
  <2> HIDE DEF a
  <2>5. /\ Good(u) /\ Quiet(a, u) /\ (u.ok => u.winsect = sect2)
        /\ sect1 = sect2 => u = a
    BY <1>3, <2>3, <2>4, MoveKeeps DEF Sets
  <2>6. /\ u.unsure \cap Volume \subseteq unsure
        /\ \A s \in Volume \ unsure :
             /\ Shown(u, s) = Shown(a, s) /\ u.disk[s] \in {a.disk[s], Shown(a, s)}
             /\ a.disk[s] \in {disk[s], Image[s]} /\ Shown(v, s) = Image[s]
    BY <1>6, <2>3, <2>5, Found DEF Quiet, Sets
  <2> HIDE DEF odd, sect1, sect2, pos1, pos2
  <2>7. \A s \in Volume \ {sect1} : Shown(a, s) = Shown(v, s)
    BY <2>3 DEF Sets
  <2>8. \A p \in Positions :
          Shown(a, sect1)[p] = IF p - pos1 \in 0..(1 - odd) THEN val[p - pos1] ELSE Image[sect1][p]
    <3> SUFFICES ASSUME NEW p \in Positions
                 PROVE  Shown(a, sect1)[p] = IF p - pos1 \in 0..(1 - odd) THEN val[p - pos1]
                                             ELSE Image[sect1][p]
      OBVIOUS
    <3>1. 0 + (p - pos1) = p - pos1 /\ (1 - odd) - 0 = 1 - odd
      BY <1>1, FatWindowAssumption DEF Positions
    <3>2. Shown(v, sect1) = Image[sect1]
      BY <1>3, <2>6
    <3> QED BY <2>3, <3>1, <3>2 DEF Sets
  <2>9. CASE ~u.ok
    <3>1. w = u /\ ~w.ok
      BY <2>4, <2>9
    <3>2. sect1 # sect2
      BY <2>3, <2>5, <2>9 DEF Sets
    <3>3. Settled(w)
      BY <2>6, <3>1 DEF Settled
    <3>4. ASSUME NEW k \in VI!Digits PROVE DigitPut(w, clst, val, k)
      <4>1. CASE k <= 1 - odd
        <5>1. /\ VI!Place(clst, k) = <<sect1, pos1 + k>>
              /\ pos1 + k \in Positions /\ (pos1 + k) - pos1 \in 0..(1 - odd) /\ (pos1 + k) - pos1 = k
          BY <1>1, <4>1, FatWindowAssumption DEF Positions
        <5>2. Shown(w, sect1)[pos1 + k] = val[k]
          BY <1>3, <2>6, <2>8, <3>1, <5>1
        <5> QED BY <5>1, <5>2 DEF DigitPut
      <4>2. CASE ~(k <= 1 - odd)
        <5>1. VI!Place(clst, k)[1] = sect2
          BY <1>1, <4>2
        <5>2. Shown(w, sect2) = Image[sect2]
          BY <1>3, <2>6, <2>7, <3>1, <3>2
        <5> QED BY <3>1, <5>1, <5>2 DEF DigitPut
      <4> QED BY <4>1, <4>2
    <3>5. ASSUME NEW p \in Positions
          PROVE  <<sect1, p>> \in Places(clst) \/ Shown(w, sect1)[p] = Image[sect1][p]
      <4>1. CASE p - pos1 \in 0..(1 - odd)
        <5>1. PICK k \in 0..2 : k = p - pos1 /\ k <= 1 - odd
          BY <1>1, <4>1
        <5>2. p = pos1 + k
          BY <1>1, <5>1, FatWindowAssumption DEF Positions
        <5> QED BY <1>1, <5>1, <5>2 DEF Places
      <4> QED BY <4>1, <1>3, <2>6, <2>8, <3>1
    <3>6. \A s \in Volume \ unsure : s # sect1 => Shown(w, s) = Image[s]
      BY <2>6, <2>7, <3>1
    <3> QED BY <2>5, <3>1, <3>3, <3>4, <3>5, <3>6 DEF Written
  <2>10. CASE u.ok
    <3>1. w = Stored(u, pos2, Part(val, 2 - odd, 2))
      BY <2>4, <2>10 DEF SecondByte, pos2, Pos2, Byte12, odd
    <3>2. Good(w) /\ Sets(u, w, sect2, pos2, 2 - odd, 2, val)
      BY <1>1, <1>3, <2>2, <2>5, <2>10, <3>1, StoredSets
    <3>3. \A s \in Volume \ {sect2} : Shown(w, s) = Shown(u, s)
      BY <3>2 DEF Sets
    <3>4. \A p \in Positions :
            Shown(w, sect2)[p] = IF p - pos2 \in 0..odd THEN val[(2 - odd) + (p - pos2)]
                                 ELSE Shown(u, sect2)[p]
      BY <2>2, <3>2 DEF Sets
    <3>5. Settled(w)
      <4>1. w.unsure \cap Volume \subseteq unsure /\ w.disk = u.disk
        BY <2>6, <3>2 DEF Sets
      <4>2. ASSUME NEW s \in Volume \ unsure PROVE w.disk[s] \in {disk[s], Image[s], Shown(w, s)}
        <5>1. CASE s # sect2
          BY <2>6, <3>3, <4>1, <5>1
        <5>2. CASE s = sect2 /\ sect1 # sect2
          BY <2>6, <2>7, <4>1, <5>2
        <5>3. CASE s = sect2 /\ sect1 = sect2
          BY <2>5, <2>6, <4>1, <5>3
        <5> QED BY <5>1, <5>2, <5>3
      <4> QED BY <4>1, <4>2 DEF Settled
    <3>6. ASSUME NEW k \in VI!Digits PROVE DigitPut(w, clst, val, k)
      <4>1. CASE k <= 1 - odd
        <5>1. /\ VI!Place(clst, k) = <<sect1, pos1 + k>> /\ k \in 0..2
              /\ pos1 + k \in Positions /\ (pos1 + k) - pos1 \in 0..(1 - odd) /\ (pos1 + k) - pos1 = k
          BY <1>1, <4>1, FatWindowAssumption DEF Positions
        <5>2. Shown(u, sect1)[pos1 + k] = val[k]
          BY <1>3, <2>6, <2>8, <5>1
        <5>3. Shown(w, sect1)[pos1 + k] = val[k]
          <6>1. CASE sect1 # sect2
            BY <6>1, <1>3, <3>3, <5>2
          <6>2. CASE sect1 = sect2
            <7>1. ~((pos1 + k) - pos2 \in 0..odd)
              BY <1>1, <4>1, <5>1, <6>2
            <7> QED BY <3>4, <5>1, <5>2, <6>2, <7>1
          <6> QED BY <6>1, <6>2
        <5> QED BY <5>1, <5>3 DEF DigitPut
      <4>2. CASE ~(k <= 1 - odd)
        <5> DEFINE p == pos2 + (k - (2 - odd))
        <5>1. /\ VI!Place(clst, k) = <<sect2, p>> /\ k \in 0..2
              /\ p \in Positions /\ p - pos2 \in 0..odd /\ (2 - odd) + (p - pos2) = k
          BY <1>1, <4>2, FatWindowAssumption DEF Positions
        <5> HIDE DEF p
        <5>2. Shown(w, sect2)[p] = val[k]
          BY <3>4, <5>1
        <5> QED BY <5>1, <5>2 DEF DigitPut
      <4> QED BY <4>1, <4>2
    <3>7. ASSUME NEW s \in Volume \ unsure, NEW p \in Positions, Shown(w, s)[p] # Image[s][p]
          PROVE  <<s, p>> \in Places(clst)
      <4>1. CASE s = sect2 /\ p - pos2 \in 0..odd
        <5>1. PICK k \in 0..2 : k = (2 - odd) + (p - pos2) /\ ~(k <= 1 - odd)
          BY <1>1, <4>1
        <5>2. p = pos2 + (k - (2 - odd))
          BY <1>1, <5>1, FatWindowAssumption DEF Positions
        <5> QED BY <1>1, <4>1, <5>1, <5>2 DEF Places
      <4>2. CASE ~(s = sect2 /\ p - pos2 \in 0..odd)
        <5>1. Shown(w, s)[p] = Shown(a, s)[p]
          BY <4>2, <2>6, <3>3, <3>4
        <5>2. s = sect1 /\ p - pos1 \in 0..(1 - odd)
          BY <5>1, <3>7, <2>6, <2>7, <2>8
        <5>3. PICK k \in 0..2 : k = p - pos1 /\ k <= 1 - odd
          BY <1>1, <5>2
        <5>4. p = pos1 + k
          BY <1>1, <5>3, FatWindowAssumption DEF Positions
        <5> QED BY <1>1, <5>2, <5>3, <5>4 DEF Places
      <4> QED BY <4>1, <4>2
    <3> QED BY <3>2, <3>5, <3>6, <3>7 DEF Written
  <2> QED BY <2>9, <2>10
<1> QED BY <1>7, <1>8

LEMMA PutWrites ==
  ASSUME WindowIsConsistent, NEW clst \in Links, NEW val \in Values,
         NEW w \in CASE fs_type = "FAT12" -> Put12(clst, val)
                     [] fs_type = "FAT16" -> Put16(clst, val)
                     [] fs_type = "FAT32" -> Put32(clst, val)
  PROVE  Written(w, clst, val)
<1>1. val \in DWORD
  BY FatWindowAssumption
<1>2. fs_type \in {"FAT12", "FAT16", "FAT32"}
  BY Found
<1>3. CASE fs_type = "FAT12"
  BY <1>1, <1>3, Put12Writes
<1>4. CASE fs_type = "FAT16"
  BY <1>1, <1>4, Put16Writes
<1>5. CASE fs_type = "FAT32"
  BY <1>1, <1>5, Put32Writes
<1> QED BY <1>2, <1>3, <1>4, <1>5

-----------------------------------------------------------------------------
(* Reading a link.                                                           *)

\* The link read is the one the volume has.
Got(r, clst) ==
  /\ Good(r.w) /\ Quiet(Window, r.w) /\ r.val \in DWORD
  /\ r.w.ok => r.val = VI!LinkOf(clst)

LEMMA ZeroLink == Zero \in DWORD
  BY FatWindowAssumption DEF Zero, DWORD

LEMMA RowGot ==
  ASSUME WindowIsConsistent, NEW clst, NEW sect \in FirstFAT,
         NEW pos \in Nat, NEW n \in 1..8, VI!Digits = 0..(n - 1),
         pos + (n - 1) \in Positions,
         \A k \in 0..(n - 1) : VI!Place(clst, k) = <<sect, pos + k>>,
         NEW v \in move_window(Window, sect)
  PROVE  Got(Read(v, IF v.ok THEN Fetched(v.win, pos, n) ELSE Zero), clst)
<1>1. sect \in Volume /\ sect \notin unsure
  BY Layout DEF WindowIsConsistent
<1>2. Good(v) /\ Quiet(Window, v) /\ (v.ok => v.winsect = sect)
  BY <1>1, Found, MoveKeeps
<1>3. CASE ~v.ok
  BY <1>2, <1>3, ZeroLink DEF Got, Read
<1>4. CASE v.ok
  <2>1. v.win = Image[sect]
    BY <1>1, <1>2, <1>4, Found DEF Quiet, Shown
  <2>2. v.win \in Sector
    BY <1>2 DEF Good, Windows
  <2>3. ASSUME NEW k \in 0..7
        PROVE  /\ Fetched(v.win, pos, n)[k] = IF k < n THEN v.win[pos + k] ELSE 0
               /\ Fetched(v.win, pos, n)[k] \in Digit
               /\ k \in VI!Digits <=> k < n
    <3>1. k < n => pos + k \in Positions
      BY FatWindowAssumption DEF Positions
    <3> QED BY <3>1, <2>2, FatWindowAssumption DEF Fetched, Sector
  <2>4. Fetched(v.win, pos, n) \in DWORD
    BY <2>3 DEF DWORD, Fetched
  <2>5. ASSUME NEW k \in 0..7
        PROVE  Fetched(v.win, pos, n)[k] = IF k \in VI!Digits THEN VI!At(VI!Place(clst, k)) ELSE 0
    <3>1. CASE k < n
      <4>1. k \in 0..(n - 1) /\ VI!Place(clst, k) = <<sect, pos + k>>
        BY <3>1
      <4>2. VI!At(VI!Place(clst, k)) = v.win[pos + k]
        BY <2>1, <4>1 DEF VI!At
      <4> QED BY <2>3, <3>1, <4>2
    <3>2. CASE ~(k < n)
      BY <2>3, <3>2
    <3> QED BY <3>1, <3>2
  <2>6. Fetched(v.win, pos, n) = VI!LinkOf(clst)
    BY <2>5 DEF Fetched, VI!LinkOf
  <2> QED BY <1>2, <1>4, <2>4, <2>6 DEF Got, Read
<1> QED BY <1>3, <1>4

LEMMA Get16Got ==
  ASSUME WindowIsConsistent, fs_type = "FAT16", NEW clst \in Links, NEW r \in Get16(clst)
  PROVE  Got(r, clst)
<1> DEFINE sect == fatbase + clst \div (SS \div 2)
           pos == 2 * ((clst * 2) % SS)
<1>1. sect \in FirstFAT /\ clst \in Nat
  BY Found, LinkInTable
<1>2. VI!Digits = 0..3 /\ \A k \in 0..3 : VI!Place(clst, k) = <<sect, pos + k>>
  BY <1>1, Place16 DEF VI!Digits
<1>3. pos \in Nat /\ pos + 3 \in Positions
  BY <1>1, Row16
<1>4. PICK v \in move_window(Window, sect) :
        r = Read(v, IF v.ok THEN Fetched(v.win, pos, 4) ELSE Zero)
  BY DEF Get16
<1> HIDE DEF sect, pos
<1>5. 4 \in 1..8 /\ 4 - 1 = 3
  OBVIOUS
<1> QED BY <1>1, <1>2, <1>3, <1>4, <1>5, RowGot

LEMMA Get32Got ==
  ASSUME WindowIsConsistent, fs_type = "FAT32", NEW clst \in Links, NEW r \in Get32(clst)
  PROVE  Got(r, clst)
<1> DEFINE sect == fatbase + clst \div (SS \div 4)
           pos == 2 * ((clst * 4) % SS)
<1>1. sect \in FirstFAT /\ clst \in Nat
  BY Found, LinkInTable
<1>2. VI!Digits = 0..6 /\ \A k \in 0..6 : VI!Place(clst, k) = <<sect, pos + k>>
  BY <1>1, Place32 DEF VI!Digits
<1>3. pos \in Nat /\ pos + 6 \in Positions
  BY <1>1, Row32
<1>4. PICK v \in move_window(Window, sect) :
        r = Read(v, IF v.ok THEN Fetched(v.win, pos, 7) ELSE Zero)
  BY DEF Get32
<1> HIDE DEF sect, pos
<1>5. 7 \in 1..8 /\ 7 - 1 = 6
  OBVIOUS
<1> QED BY <1>1, <1>2, <1>3, <1>4, <1>5, RowGot

LEMMA Get12Got ==
  ASSUME WindowIsConsistent, fs_type = "FAT12", NEW clst \in Links, NEW r \in Get12(clst)
  PROVE  Got(r, clst)
<1> DEFINE odd == clst % 2
           sect1 == Sect1(clst)
           sect2 == Sect2(clst)
           pos1 == Pos1(clst)
           pos2 == Pos2(clst)
           Merged(first, second) ==
             [k \in 0..7 |-> IF k <= 1 - odd THEN first[2 * (Byte12(clst) % SS) + odd + k]
                             ELSE IF k <= 2 THEN second[2 * ((Byte12(clst) + 1) % SS) + k - 2 + odd]
                             ELSE 0]
<1>1. /\ odd \in {0, 1} /\ pos1 \in Nat /\ pos2 \in Nat
      /\ pos1 + (1 - odd) \in Positions /\ pos2 + odd \in Positions
      /\ VI!Digits = 0..2
      /\ \A k \in 0..2 : VI!Place(clst, k) = IF k <= 1 - odd THEN <<sect1, pos1 + k>>
                                             ELSE <<sect2, pos2 + (k - (2 - odd))>>
  BY Link12
<1>2. sect1 \in Volume \ unsure /\ sect2 \in Volume \ unsure
  BY Link12, Layout DEF WindowIsConsistent
<1>3. PICK v \in move_window(Window, sect1) :
        \/ ~v.ok /\ r = Read(v, Zero)
        \/ v.ok /\ \E u \in move_window(v, sect2) :
                     r = Read(u, IF u.ok THEN Merged(v.win, u.win) ELSE Zero)
  BY DEF Get12, Sect1, Sect2, Byte12
<1>4. Good(v) /\ Quiet(Window, v) /\ (v.ok => v.winsect = sect1)
  BY <1>2, Found, MoveKeeps
<1>5. CASE ~v.ok
  BY <1>3, <1>4, <1>5, ZeroLink DEF Got, Read
<1>6. CASE v.ok
  <2>1. PICK u \in move_window(v, sect2) : r = Read(u, IF u.ok THEN Merged(v.win, u.win) ELSE Zero)
    BY <1>3, <1>6
  <2>2. Good(u) /\ Quiet(v, u) /\ (u.ok => u.winsect = sect2)
    BY <1>2, <1>4, <1>6, <2>1, MoveKeeps
  <2>3. Quiet(Window, u)
    BY <1>4, <2>2, QuietTwice
  <2>4. CASE ~u.ok
    BY <2>1, <2>2, <2>3, <2>4, ZeroLink DEF Got, Read
  <2>5. CASE u.ok
    <3>1. v.win = Image[sect1] /\ u.win = Image[sect2] /\ v.win \in Sector /\ u.win \in Sector
      BY <1>2, <1>4, <1>6, <2>2, <2>3, <2>5, Found DEF Quiet, Shown, Good, Windows
    <3> DEFINE m == Merged(v.win, u.win)
    <3>2. \A k \in 0..7 :
            m[k] = IF k <= 1 - odd THEN v.win[pos1 + k]
                   ELSE IF k <= 2 THEN u.win[pos2 + (k - (2 - odd))] ELSE 0
      <4> SUFFICES ASSUME NEW k \in 0..7
                   PROVE  m[k] = IF k <= 1 - odd THEN v.win[pos1 + k]
                                 ELSE IF k <= 2 THEN u.win[pos2 + (k - (2 - odd))] ELSE 0
        OBVIOUS
      <4>1. 2 * (Byte12(clst) % SS) + odd + k = pos1 + k
        BY DEF Pos1
      <4>2. 2 * ((Byte12(clst) + 1) % SS) + k - 2 + odd = pos2 + (k - (2 - odd))
        <5>1. pos2 = 2 * ((Byte12(clst) + 1) % SS) /\ pos2 \in Nat /\ odd \in Nat
          BY <1>1 DEF Pos2
        <5> HIDE DEF pos2, odd
        <5>2. pos2 + k - 2 + odd = pos2 + (k - (2 - odd))
          BY <5>1
        <5> QED BY <5>1, <5>2
      <4> QED BY <4>1, <4>2
    <3>3. DOMAIN m = 0..7 /\ m = [k \in 0..7 |-> m[k]]
      OBVIOUS
    <3> HIDE DEF m, odd, sect1, sect2, pos1, pos2
    <3>4. ASSUME NEW k \in 0..7
          PROVE  /\ m[k] \in Digit
                 /\ m[k] = IF k \in VI!Digits THEN VI!At(VI!Place(clst, k)) ELSE 0
      <4>1. CASE k <= 1 - odd
        <5>1. k \in 0..2 /\ VI!Place(clst, k) = <<sect1, pos1 + k>> /\ pos1 + k \in Positions
          BY <1>1, <4>1, FatWindowAssumption DEF Positions
        <5>2. m[k] = v.win[pos1 + k] /\ v.win[pos1 + k] \in Digit
          BY <3>1, <3>2, <4>1, <5>1 DEF Sector
        <5>3. VI!At(VI!Place(clst, k)) = v.win[pos1 + k]
          BY <3>1, <5>1 DEF VI!At
        <5> QED BY <1>1, <5>1, <5>2, <5>3
      <4>2. CASE ~(k <= 1 - odd) /\ k <= 2
        <5> DEFINE p == pos2 + (k - (2 - odd))
        <5>1. k \in 0..2 /\ VI!Place(clst, k) = <<sect2, p>> /\ p \in Positions
          BY <1>1, <4>2, FatWindowAssumption DEF Positions
        <5>2. m[k] = u.win[p]
          BY <3>2, <4>2
        <5> HIDE DEF p
        <5>3. u.win[p] \in Digit
          BY <3>1, <5>1 DEF Sector
        <5>4. VI!At(VI!Place(clst, k)) = u.win[p]
          BY <3>1, <5>1 DEF VI!At
        <5> QED BY <1>1, <5>1, <5>2, <5>3, <5>4
      <4>3. CASE ~(k <= 2)
        BY <1>1, <3>2, <4>3, FatWindowAssumption
      <4> QED BY <4>1, <4>2, <4>3, <1>1
    <3>5. m \in DWORD
      BY <3>3, <3>4 DEF DWORD
    <3>6. m = VI!LinkOf(clst)
      BY <3>3, <3>4 DEF VI!LinkOf
    <3>7. r.w = u /\ r.val = m
      BY <2>1, <2>5 DEF Read, m, odd
    <3> QED BY <2>2, <2>3, <3>5, <3>6, <3>7 DEF Got
  <2> QED BY <2>4, <2>5
<1> QED BY <1>5, <1>6

LEMMA GetGot ==
  ASSUME WindowIsConsistent, NEW clst \in Links,
         NEW r \in CASE fs_type = "FAT12" -> Get12(clst)
                     [] fs_type = "FAT16" -> Get16(clst)
                     [] fs_type = "FAT32" -> Get32(clst)
  PROVE  Got(r, clst)
<1>1. fs_type \in {"FAT12", "FAT16", "FAT32"}
  BY Found
<1>2. CASE fs_type = "FAT12"
  BY <1>2, Get12Got
<1>3. CASE fs_type = "FAT16"
  BY <1>3, Get16Got
<1>4. CASE fs_type = "FAT32"
  BY <1>4, Get32Got
<1> QED BY <1>1, <1>2, <1>3, <1>4

-----------------------------------------------------------------------------
(* The steps: each leaves the window consistent, and is one of VolumeImage.  *)

Results == {"FR_OK", "FR_DISK_ERR", "FR_INT_ERR"}

\* What holds after a call that leaves the window as w.
LEMMA Left ==
  ASSUME NEW w, Good(w), Becomes(w), fs_type \in Types, fs_type' = fs_type,
         fsi_flag' \in {0, 1, 128, 129}, answer'.res \in Results, answer'.val \in DWORD
  PROVE  /\ WindowIsConsistent'
         /\ \A s \in Volume : Image'[s] = Shown(w, s)
         /\ disk' = w.disk /\ unsure' = w.unsure
<1>1. /\ disk' = w.disk /\ win' = w.win /\ winsect' = w.winsect /\ wflag' = w.wflag
      /\ unsure' = w.unsure
  BY DEF Becomes
<1>2. TypeOK'
  BY <1>1 DEF TypeOK, Good, Windows, Results
<1>3. CopiesAgree' /\ CleanWindow' /\ (wflag' => winsect' # Nowhere) /\ unsure' \cap FirstFAT = {}
  BY <1>1 DEF Good, Agreeing, Clean, CopiesAgree, CleanWindow
<1>4. \A s \in Volume : Image'[s] = Shown(w, s)
  BY <1>1 DEF Image, Shown
<1> QED BY <1>1, <1>2, <1>3, <1>4 DEF WindowIsConsistent

LEMMA KnownIs == VI!Known = Volume \ (unsure \cup unsure')
  BY DEF VI!Known, Volume

\* The frame of every step of VolumeImage.
LEMMA Framed ==
  ASSUME WindowIsConsistent', fs_type' = fs_type,
         \/ VI!Mount
         \/ VI!Settles /\ (VI!Refuse \/ VI!Get \/ VI!Put \/ VI!Look \/ VI!Change \/ VI!Clear \/ VI!Sync)
  PROVE  VI!Next
<1>1. (unsure' \ SecondFAT) \cap FirstFAT = {}
  BY DEF WindowIsConsistent
<1> QED BY <1>1 DEF VI!Next

\* A call that changes nothing.
LEMMA QuietLeft ==
  ASSUME WindowIsConsistent, NEW w, Good(w), Becomes(w), Quiet(Window, w),
         \A s \in Volume : Image'[s] = Shown(w, s)
  PROVE  VI!Settles /\ \A s \in VI!Known : VI!Same(s)
<1>1. disk' = w.disk /\ unsure' = w.unsure
  BY DEF Becomes
<1>2. \A s \in VI!Known : Image'[s] = Image[s] /\ disk'[s] \in {disk[s], Image[s]} /\ s \in Volume
  BY <1>1, KnownIs, Found DEF Quiet
<1> QED BY <1>2 DEF VI!Settles, VI!Same

LEMMA SettledLeft ==
  ASSUME NEW w, Becomes(w), Settled(w), \A s \in Volume : Image'[s] = Shown(w, s)
  PROVE  VI!Settles
<1>1. disk' = w.disk /\ unsure' = w.unsure
  BY DEF Becomes
<1>2. \A s \in VI!Known : disk'[s] \in {disk[s], Image[s], Image'[s]} /\ s \in Volume
  BY <1>1, KnownIs DEF Settled
<1> QED BY <1>2 DEF VI!Settles

LEMMA ResultIs ==
  ASSUME NEW w
  PROVE  Result(w) \in Results /\ (Result(w) = "FR_OK" <=> w.ok)
         /\ Result(w) \in {"FR_OK", "FR_DISK_ERR"}
  BY DEF Result, Results

LEMMA PutStep ==
  ASSUME WindowIsConsistent, put_fat
  PROVE  WindowIsConsistent' /\ VI!Next
<1>1. PICK clst \in Clusters, val \in Values :
        /\ IF clst \in Links
           THEN \E w \in CASE fs_type = "FAT12" -> Put12(clst, val)
                           [] fs_type = "FAT16" -> Put16(clst, val)
                           [] fs_type = "FAT32" -> Put32(clst, val) :
                  Becomes(w) /\ Answer("put_fat", clst, Result(w), val)
           ELSE Becomes(Window) /\ Answer("put_fat", clst, "FR_INT_ERR", val)
        /\ UNCHANGED <<fs_type, fsi_flag>>
  BY DEF put_fat
<1>2. val \in DWORD /\ fsi_flag \in {0, 1, 128, 129} /\ fs_type \in Types
  BY FatWindowAssumption DEF WindowIsConsistent, TypeOK
<1>3. CASE clst \in Links
  <2>1. PICK w \in CASE fs_type = "FAT12" -> Put12(clst, val)
                     [] fs_type = "FAT16" -> Put16(clst, val)
                     [] fs_type = "FAT32" -> Put32(clst, val) :
          Becomes(w) /\ Answer("put_fat", clst, Result(w), val)
    BY <1>1, <1>3
  <2>2. Written(w, clst, val)
    BY <1>3, <2>1, PutWrites
  <2>3. answer'.call = "put_fat" /\ answer'.at = clst /\ answer'.res = Result(w) /\ answer'.val = val
    BY <2>1 DEF Answer
  <2>4. /\ WindowIsConsistent' /\ unsure' = w.unsure
        /\ \A s \in Volume : Image'[s] = Shown(w, s)
    BY <1>1, <1>2, <2>1, <2>2, <2>3, ResultIs, Left DEF Written
  <2>5. VI!Settles
    BY <2>1, <2>2, <2>4, SettledLeft DEF Written
  <2>6. \A k \in VI!Digits : VI!Place(clst, k)' = VI!Place(clst, k)
    BY <1>1 DEF VI!Place, VI!Width
  <2>7. ASSUME NEW k \in VI!Digits
        PROVE  \/ VI!At(VI!Place(clst, k))' = answer'.val[k]
               \/ answer'.res # "FR_OK" /\ VI!At(VI!Place(clst, k))' = VI!At(VI!Place(clst, k))
    <3>1. VI!Place(clst, k)[1] \in Volume
      <4>1. /\ clst \in Nat /\ VI!Digits \in {0..2, 0..3, 0..6}
            /\ fs_type \in {"FAT12", "FAT16", "FAT32"}
        BY <1>3, Found, LinkInTable DEF VI!Digits
      <4>2. CASE fs_type = "FAT12"
        BY <1>3, <4>2, Link12, Layout
      <4>3. CASE fs_type = "FAT16"
        BY <1>3, <4>1, <4>3, Place16, LinkInTable, Found, Layout DEF VI!Digits
      <4>4. CASE fs_type = "FAT32"
        BY <1>3, <4>1, <4>4, Place32, LinkInTable, Found, Layout DEF VI!Digits
      <4> QED BY <4>1, <4>2, <4>3, <4>4
    <3>2. VI!At(VI!Place(clst, k))' = Shown(w, VI!Place(clst, k)[1])[VI!Place(clst, k)[2]]
      BY <2>4, <2>6, <3>1 DEF VI!At
    <3>3. VI!At(VI!Place(clst, k)) = Image[VI!Place(clst, k)[1]][VI!Place(clst, k)[2]]
      BY DEF VI!At
    <3>4. DigitPut(w, clst, val, k)
      BY <2>2 DEF Written
    <3>5. w.ok <=> answer'.res = "FR_OK"
      BY <2>3, ResultIs
    <3> QED BY <2>3, <3>2, <3>3, <3>4, <3>5 DEF DigitPut
  <2>8. \A s \in VI!Known :
          VI!Same(s) \/ \A p \in Positions : <<s, p>> \in Places(clst) \/ Image'[s][p] = Image[s][p]
    BY <2>2, <2>4, KnownIs DEF Written, VI!Same
  <2>9. VI!Links = Links
    BY DEF VI!Links, Links
  <2>10. VI!Call("put_fat", {"FR_OK", "FR_DISK_ERR"})
    BY <2>3, ResultIs DEF VI!Call
  <2>11. VI!Put
    BY <1>3, <2>3, <2>7, <2>8, <2>9, <2>10 DEF VI!Put, Places
  <2> QED BY <1>1, <2>4, <2>5, <2>11, Framed
<1>4. CASE clst \notin Links
  <2>1. Becomes(Window) /\ answer'.res = "FR_INT_ERR" /\ answer'.val = val
    BY <1>1, <1>4 DEF Answer
  <2>2. /\ WindowIsConsistent' /\ unsure' = unsure
        /\ \A s \in Volume : Image'[s] = Shown(Window, s)
    BY <1>1, <1>2, <2>1, Found, Left DEF Results
  <2>3. VI!Settles /\ \A s \in VI!Known : VI!Same(s)
    BY <2>1, <2>2, Found, QuietSame, QuietLeft
  <2> QED BY <1>1, <2>1, <2>2, <2>3, Framed DEF VI!Refuse
<1> QED BY <1>3, <1>4

LEMMA GetStep ==
  ASSUME WindowIsConsistent, get_fat
  PROVE  WindowIsConsistent' /\ VI!Next
<1>1. PICK clst \in Clusters :
        /\ IF clst \in Links
           THEN \E r \in CASE fs_type = "FAT12" -> Get12(clst)
                           [] fs_type = "FAT16" -> Get16(clst)
                           [] fs_type = "FAT32" -> Get32(clst) :
                  Becomes(r.w) /\ Answer("get_fat", clst, Result(r.w), r.val)
           ELSE Becomes(Window) /\ Answer("get_fat", clst, "FR_INT_ERR", Zero)
        /\ UNCHANGED <<fs_type, fsi_flag>>
  BY DEF get_fat
<1>2. fsi_flag \in {0, 1, 128, 129} /\ fs_type \in Types
  BY DEF WindowIsConsistent, TypeOK
<1>3. CASE clst \in Links
  <2>1. PICK r \in CASE fs_type = "FAT12" -> Get12(clst)
                     [] fs_type = "FAT16" -> Get16(clst)
                     [] fs_type = "FAT32" -> Get32(clst) :
          Becomes(r.w) /\ Answer("get_fat", clst, Result(r.w), r.val)
    BY <1>1, <1>3
  <2>2. Got(r, clst)
    BY <1>3, <2>1, GetGot
  <2>3. /\ answer'.call = "get_fat" /\ answer'.at = clst
        /\ answer'.res = Result(r.w) /\ answer'.val = r.val
    BY <2>1 DEF Answer
  <2>4. WindowIsConsistent' /\ \A s \in Volume : Image'[s] = Shown(r.w, s)
    BY <1>1, <1>2, <2>1, <2>2, <2>3, ResultIs, Left DEF Got
  <2>5. VI!Settles /\ \A s \in VI!Known : VI!Same(s)
    BY <2>1, <2>2, <2>4, QuietLeft DEF Got
  <2>6. CASE r.w.ok
    <3>1. VI!Links = Links
      BY DEF VI!Links, Links
    <3>2. VI!Get
      BY <1>3, <2>2, <2>3, <2>5, <2>6, <3>1, ResultIs DEF VI!Get, VI!Call, Got
    <3> QED BY <1>1, <2>4, <2>5, <3>2, Framed
  <2>7. CASE ~r.w.ok
    BY <1>1, <2>3, <2>4, <2>5, <2>7, ResultIs, Framed DEF VI!Refuse
  <2> QED BY <2>6, <2>7
<1>4. CASE clst \notin Links
  <2>1. Becomes(Window) /\ answer'.res = "FR_INT_ERR" /\ answer'.val = Zero
    BY <1>1, <1>4 DEF Answer
  <2>2. WindowIsConsistent' /\ \A s \in Volume : Image'[s] = Shown(Window, s)
    BY <1>1, <1>2, <2>1, Found, ZeroLink, Left DEF Results
  <2>3. VI!Settles /\ \A s \in VI!Known : VI!Same(s)
    BY <2>1, <2>2, Found, QuietSame, QuietLeft
  <2> QED BY <1>1, <2>1, <2>2, <2>3, Framed DEF VI!Refuse
<1> QED BY <1>3, <1>4

LEMMA LookStep ==
  ASSUME WindowIsConsistent, LookAtEntry
  PROVE  WindowIsConsistent' /\ VI!Next
<1>0. PICK sect \in Table : \E v \in move_window(Window, sect) :
        /\ Becomes(v) /\ Answer("look", sect, Result(v), Zero)
        /\ UNCHANGED <<fs_type, fsi_flag>>
  BY DEF LookAtEntry
<1>1. PICK v \in move_window(Window, sect) :
        /\ Becomes(v) /\ Answer("look", sect, Result(v), Zero)
        /\ UNCHANGED <<fs_type, fsi_flag>>
  BY <1>0
<1>2. fsi_flag \in {0, 1, 128, 129} /\ fs_type \in Types
  BY DEF WindowIsConsistent, TypeOK
<1>3. answer'.call = "look" /\ answer'.res = Result(v) /\ answer'.val = Zero
  BY <1>1 DEF Answer
<1>4. Good(v) /\ Quiet(Window, v)
  BY <1>1, Found, Layout, MoveKeeps
<1>5. WindowIsConsistent' /\ \A s \in Volume : Image'[s] = Shown(v, s)
  BY <1>1, <1>2, <1>3, <1>4, ResultIs, ZeroLink, Left
<1>6. VI!Settles /\ \A s \in VI!Known : VI!Same(s)
  BY <1>1, <1>4, <1>5, QuietLeft
<1>7. VI!Look \/ VI!Refuse
  BY <1>3, <1>6, ResultIs DEF VI!Look, VI!Call, VI!Refuse
<1> QED BY <1>1, <1>5, <1>6, <1>7, Framed

LEMMA ChangeStep ==
  ASSUME WindowIsConsistent, ChangeEntry
  PROVE  WindowIsConsistent' /\ VI!Next
<1>0. PICK sect \in Table : \E v \in move_window(Window, sect), content \in Contents :
        /\ Becomes(IF v.ok THEN [v EXCEPT !.win = content, !.wflag = TRUE] ELSE v)
        /\ Answer("change", sect, Result(v), Zero)
        /\ UNCHANGED <<fs_type, fsi_flag>>
  BY DEF ChangeEntry
<1>1. PICK v \in move_window(Window, sect), content \in Contents :
        /\ Becomes(IF v.ok THEN [v EXCEPT !.win = content, !.wflag = TRUE] ELSE v)
        /\ Answer("change", sect, Result(v), Zero)
        /\ UNCHANGED <<fs_type, fsi_flag>>
  BY <1>0
<1>2. fsi_flag \in {0, 1, 128, 129} /\ fs_type \in Types /\ content \in Sector
  BY FatWindowAssumption DEF WindowIsConsistent, TypeOK
<1>3. answer'.call = "change" /\ answer'.at = sect /\ answer'.res = Result(v) /\ answer'.val = Zero
  BY <1>1 DEF Answer
<1>4. Good(v) /\ Quiet(Window, v) /\ (v.ok => v.winsect = sect) /\ sect \in Volume
  BY <1>1, Found, Layout, MoveKeeps
<1>5. CASE ~v.ok
  <2>1. WindowIsConsistent' /\ \A s \in Volume : Image'[s] = Shown(v, s)
    BY <1>1, <1>2, <1>3, <1>4, <1>5, ResultIs, ZeroLink, Left
  <2>2. VI!Settles /\ \A s \in VI!Known : VI!Same(s)
    BY <1>1, <1>4, <1>5, <2>1, QuietLeft
  <2> QED BY <1>1, <1>3, <1>5, <2>1, <2>2, ResultIs, Framed DEF VI!Refuse
<1>6. CASE v.ok
  <2> DEFINE w == [v EXCEPT !.win = content, !.wflag = TRUE]
  <2>1. /\ w.disk = v.disk /\ w.win = content /\ w.winsect = sect /\ w.wflag = TRUE
        /\ w.unsure = v.unsure /\ w \in Windows
    BY <1>2, <1>4, <1>6 DEF Good, Windows
  <2>2. Becomes(w)
    BY <1>1, <1>6
  <2> HIDE DEF w
  <2>3. Good(w)
    BY <1>4, <2>1, Layout DEF Good, Agreeing, Clean
  <2>4. /\ WindowIsConsistent' /\ disk' = w.disk /\ unsure' = w.unsure
        /\ \A s \in Volume : Image'[s] = Shown(w, s)
    BY <1>1, <1>2, <1>3, <2>2, <2>3, ResultIs, ZeroLink, Left
  <2>5. Settled(w)
    BY <1>4, <2>1, Found DEF Settled, Quiet
  <2>6. VI!Settles
    BY <2>2, <2>4, <2>5, SettledLeft
  <2>7. \A s \in Volume : s # sect => Shown(w, s) = Shown(v, s)
    BY <1>4, <1>6, <2>1 DEF Shown
  <2>8. \A s \in VI!Known \ {sect} : VI!Same(s)
    BY <1>4, <2>4, <2>7, KnownIs, Found DEF VI!Same, Quiet
  <2>9. sect \in Volume \ FirstFAT
    BY <1>4, Layout
  <2>10. VI!Change
    BY <1>3, <1>6, <2>8, <2>9, ResultIs DEF VI!Change, VI!Call
  <2> QED BY <1>1, <2>4, <2>6, <2>10, Framed
<1> QED BY <1>5, <1>6

LEMMA ClearStep ==
  ASSUME WindowIsConsistent, dir_clear
  PROVE  WindowIsConsistent' /\ VI!Next
<1>1. PICK sect \in Table, n \in (IF DiskFaults THEN 0..csize ELSE {csize}), v \in sync_window(Window) :
        /\ sect + csize - 1 <= LastSector
        /\ Becomes(IF v.ok THEN Cleared(v, sect, n) ELSE v)
        /\ Answer("dir_clear", sect, Result(IF v.ok THEN Cleared(v, sect, n) ELSE v), Zero)
        /\ UNCHANGED <<fs_type, fsi_flag>>
  BY DEF dir_clear
<1> DEFINE w == IF v.ok THEN Cleared(v, sect, n) ELSE v
           cluster == sect..(sect + csize - 1)
<1>2. fsi_flag \in {0, 1, 128, 129} /\ fs_type \in Types /\ csize \in Nat \ {0} /\ n \in 0..csize
  BY FatWindowAssumption DEF WindowIsConsistent, TypeOK
<1>3. answer'.call = "dir_clear" /\ answer'.at = sect /\ answer'.res = Result(w) /\ answer'.val = Zero
  BY <1>1 DEF Answer
<1>4. Good(v) /\ Quiet(Window, v) /\ (v.ok => ~v.wflag)
  BY <1>1, Found, SyncKeeps
<1>5. CASE ~v.ok
  <2>1. w = v
    BY <1>5
  <2>2. WindowIsConsistent' /\ \A s \in Volume : Image'[s] = Shown(v, s)
    BY <1>1, <1>2, <1>3, <1>4, <1>5, ResultIs, ZeroLink, Left
  <2>3. VI!Settles /\ \A s \in VI!Known : VI!Same(s)
    BY <1>1, <1>4, <1>5, <2>2, QuietLeft
  <2> QED BY <1>1, <1>3, <1>5, <2>1, <2>2, <2>3, ResultIs, Framed DEF VI!Refuse
<1>6. CASE v.ok
  <2>1. cluster \subseteq Table /\ sect \in cluster
    <3>1. sect \in Nat
      BY Layout
    <3>2. ASSUME NEW s \in cluster PROVE s \in Table
      <4>1. s - sect \in Nat /\ sect + (s - sect) = s /\ s <= LastSector
        BY <1>1, <1>2, <3>1, FatWindowAssumption
      <4> QED BY <4>1, Layout
    <3> QED BY <1>2, <3>1, <3>2
  <2>2. Blank \in Sector
    BY FatWindowAssumption DEF Blank, Sector
  <2>3. v \in Windows
    BY <1>4 DEF Good
  <2>4. /\ w.disk = [s \in Sectors |-> IF s \in sect..(sect + n - 1) THEN Blank ELSE v.disk[s]]
        /\ w.win = Blank /\ w.winsect = sect /\ w.wflag = FALSE /\ w.ok = (n = csize)
        /\ w.unsure = IF n = csize THEN v.unsure \ cluster ELSE v.unsure \cup cluster
    BY <1>4, <1>6, <2>3 DEF Cleared, Windows
  <2>5. sect..(sect + n - 1) \subseteq cluster /\ (n = csize => sect..(sect + n - 1) = cluster)
    BY <1>2, Layout
  <2>6. cluster \subseteq Sectors /\ cluster \subseteq Volume /\ cluster \cap FirstFAT = {}
    BY <2>1, Layout
  <2>7. w \in Windows
    BY <2>2, <2>3, <2>4, <2>6, <1>1, <1>6, Layout DEF Cleared, Windows
  <2> HIDE DEF w, cluster
  <2>8. \A s \in Sectors \ cluster : w.disk[s] = v.disk[s]
    BY <2>4, <2>5
  <2>9. n = csize => \A s \in cluster : w.disk[s] = Blank
    BY <2>4, <2>5, <2>6
  <2>10. Good(w)
    <3>1. Agreeing(w)
      <4> SUFFICES ASSUME n_fats = 2, NEW s \in FirstFAT, s + fsize \notin w.unsure
                   PROVE  w.disk[s + fsize] = w.disk[s]
        BY DEF Agreeing
      <4>1. s \in Sectors \ cluster /\ s + fsize \in Sectors \ cluster
        BY <2>6, Layout
      <4>2. s + fsize \notin v.unsure
        BY <2>4, <4>1
      <4> QED BY <1>4, <2>8, <4>1, <4>2 DEF Good, Agreeing
    <3>2. Clean(w)
      BY <2>1, <2>4, <2>9 DEF Clean
    <3>3. w.unsure \cap FirstFAT = {}
      BY <1>4, <2>4, <2>6 DEF Good
    <3> QED BY <2>4, <2>7, <3>1, <3>2, <3>3 DEF Good
  <2>11. Becomes(w) /\ answer'.res = Result(w)
    BY <1>1, <1>3 DEF w
  <2>12. /\ WindowIsConsistent' /\ disk' = w.disk /\ unsure' = w.unsure
         /\ \A s \in Volume : Image'[s] = Shown(w, s)
    BY <1>1, <1>2, <1>3, <2>10, <2>11, ResultIs, ZeroLink, Left
  <2>13. \A s \in Volume \ v.unsure : Shown(v, s) = v.disk[s]
    BY <1>4, <1>6, CleanShown
  <2>14. /\ v.unsure \cap Volume \subseteq unsure
         /\ \A s \in Volume \ unsure : Shown(v, s) = Image[s] /\ v.disk[s] \in {disk[s], Image[s]}
    BY <1>4, Found DEF Quiet
  <2>15. \A s \in Volume \ cluster : s \notin unsure => Image'[s] = Image[s] /\ disk'[s] \in {disk[s], Image[s]}
    <3> SUFFICES ASSUME NEW s \in Volume \ cluster, s \notin unsure
                 PROVE  Image'[s] = Image[s] /\ disk'[s] \in {disk[s], Image[s]}
      OBVIOUS
    <3>1. s # sect /\ s \in Sectors
      BY <2>1, Layout
    <3>2. Shown(w, s) = w.disk[s] /\ w.disk[s] = v.disk[s]
      BY <2>4, <2>8, <3>1 DEF Shown
    <3>3. v.disk[s] = Image[s]
      BY <2>13, <2>14
    <3> QED BY <2>12, <3>2, <3>3
  <2>16. CASE n = csize
    <3>1. \A s \in cluster : Image'[s] = Blank /\ disk'[s] = Blank
      BY <2>4, <2>6, <2>9, <2>12, <2>16 DEF Shown
    <3>2. \A s \in VI!Known : IF s \in cluster THEN \A p \in Positions : Image'[s][p] = 0
                              ELSE VI!Same(s)
      BY <2>15, <3>1, KnownIs DEF VI!Same, Blank
    <3>3. VI!Settles
      <4>1. \A s \in VI!Known : s \in Volume /\ disk'[s] \in {disk[s], Image[s], Image'[s]}
        BY <2>15, <3>1, KnownIs
      <4> QED BY <4>1 DEF VI!Settles
    <3>4. VI!Clear
      BY <1>3, <2>4, <2>6, <2>11, <2>16, <3>2, ResultIs DEF VI!Clear, VI!Call, cluster
    <3> QED BY <1>1, <2>12, <3>3, <3>4, Framed
  <2>17. CASE n # csize
    <3>1. VI!Known \cap cluster = {}
      BY <2>4, <2>12, <2>17, KnownIs
    <3>2. \A s \in VI!Known : VI!Same(s)
      BY <2>15, <3>1, KnownIs DEF VI!Same
    <3>3. VI!Settles
      <4>1. \A s \in VI!Known : s \in Volume /\ disk'[s] \in {disk[s], Image[s], Image'[s]}
        BY <2>15, <3>1, KnownIs
      <4> QED BY <4>1 DEF VI!Settles
    <3> QED BY <1>1, <2>4, <2>11, <2>12, <2>17, <3>2, <3>3, ResultIs, Framed DEF VI!Refuse
  <2> QED BY <2>16, <2>17
<1> QED BY <1>5, <1>6

\* FSInfo, made in a clean window, changes the sector FSInfo and no other.
LEMMA InfoKeeps ==
  ASSUME NEW v, Good(v), ~v.wflag, NEW w \in WithInfo(v)
  PROVE  /\ Good(w) /\ ~w.wflag
         /\ w.unsure \cap Volume \subseteq (v.unsure \cup {FSInfo})
         /\ \A s \in Volume \ (v.unsure \cup w.unsure) :
              s # FSInfo => Shown(w, s) = Shown(v, s) /\ w.disk[s] = v.disk[s]
<1>1. CASE w = v
  BY <1>1
<1>2. CASE w # v
  <2>1. PICK info \in Contents :
          LET u == [v EXCEPT !.win = info, !.winsect = FSInfo]
          IN  w = Put(u, FSInfo, info) \/ w = Lost(u, FSInfo)
    BY <1>2 DEF WithInfo, Faulty
  <2>2. v \in Windows /\ info \in Sector /\ FSInfo \in Volume /\ FSInfo \in Sectors
    BY Layout, FatWindowAssumption DEF Good
  <2>3. /\ w \in Windows /\ w.win = info /\ w.winsect = FSInfo /\ w.wflag = v.wflag
        /\ \/ w.disk = [v.disk EXCEPT ![FSInfo] = info] /\ w.unsure = v.unsure \ {FSInfo}
           \/ w.disk = v.disk /\ w.unsure = v.unsure \cup {FSInfo}
    <3> DEFINE u == [v EXCEPT !.win = info, !.winsect = FSInfo]
    <3>1. /\ u \in Windows /\ u.win = info /\ u.winsect = FSInfo /\ u.wflag = v.wflag
          /\ u.disk = v.disk /\ u.unsure = v.unsure
      BY <2>2 DEF Windows
    <3>2. w = Put(u, FSInfo, info) \/ w = Lost(u, FSInfo)
      BY <2>1
    <3> HIDE DEF u
    <3>3. CASE w = Put(u, FSInfo, info)
      BY <2>2, <3>1, <3>3 DEF Put, Windows
    <3>4. CASE w = Lost(u, FSInfo)
      BY <2>2, <3>1, <3>4 DEF Lost, Windows
    <3> QED BY <3>2, <3>3, <3>4
  <2>4. \A s \in Sectors : s # FSInfo => w.disk[s] = v.disk[s]
    BY <2>2, <2>3 DEF Windows
  <2>5. FSInfo \in w.unsure \/ w.disk[FSInfo] = info
    BY <2>2, <2>3 DEF Windows
  <2>6. Agreeing(w)
    <3> SUFFICES ASSUME n_fats = 2, NEW s \in FirstFAT, s + fsize \notin w.unsure
                 PROVE  w.disk[s + fsize] = w.disk[s]
      BY DEF Agreeing
    <3>1. s \in Sectors /\ s # FSInfo /\ s + fsize \in Sectors /\ s + fsize # FSInfo
      BY Layout
    <3>2. s + fsize \notin v.unsure
      BY <2>3, <3>1
    <3> QED BY <2>4, <3>1, <3>2 DEF Good, Agreeing
  <2>7. Good(w) /\ ~w.wflag
    BY <2>3, <2>5, <2>6, Layout DEF Good, Clean
  <2>8. \A s \in Volume \ (v.unsure \cup w.unsure) :
          s # FSInfo => Shown(w, s) = Shown(v, s) /\ w.disk[s] = v.disk[s]
    BY <2>3, <2>4, CleanShown, Layout DEF Shown
  <2> QED BY <2>3, <2>7, <2>8
<1> QED BY <1>1, <1>2

LEMMA SyncStep ==
  ASSUME WindowIsConsistent, sync_fs
  PROVE  WindowIsConsistent' /\ VI!Next
<1>0. fsi_flag \in {0, 1, 128, 129} /\ fs_type \in Types
  BY DEF WindowIsConsistent, TypeOK
<1>1. PICK v \in sync_window(Window) :
        IF v.ok
        THEN \E u \in WithInfo(v) :
               /\ Becomes(u)
               /\ fsi_flag' = IF fs_type = "FAT32" /\ fsi_flag = 1 THEN 0 ELSE fsi_flag
               /\ \/ Answer("sync_fs", 0, "FR_OK", Zero)
                  \/ DiskFaults /\ Answer("sync_fs", 0, "FR_DISK_ERR", Zero)
               /\ UNCHANGED fs_type
        ELSE Becomes(v) /\ Answer("sync_fs", 0, "FR_DISK_ERR", Zero) /\ UNCHANGED <<fs_type, fsi_flag>>
  BY DEF sync_fs
<1>2. Good(v) /\ Quiet(Window, v) /\ (v.ok => ~v.wflag)
  BY <1>1, Found, SyncKeeps
<1>3. CASE ~v.ok
  <2>1. Becomes(v) /\ fs_type' = fs_type /\ fsi_flag' = fsi_flag
    BY <1>1, <1>3
  <2>2. answer'.res = "FR_DISK_ERR" /\ answer'.val = Zero
    BY <1>1, <1>3 DEF Answer
  <2>3. WindowIsConsistent' /\ \A s \in Volume : Image'[s] = Shown(v, s)
    BY <1>0, <1>2, <2>1, <2>2, ZeroLink, Left DEF Results
  <2>4. VI!Settles /\ \A s \in VI!Known : VI!Same(s)
    BY <1>2, <2>1, <2>3, QuietLeft
  <2> QED BY <2>1, <2>2, <2>3, <2>4, Framed DEF VI!Refuse
<1>4. CASE v.ok
  <2>1. PICK w \in WithInfo(v) :
          /\ Becomes(w)
          /\ fsi_flag' = IF fs_type = "FAT32" /\ fsi_flag = 1 THEN 0 ELSE fsi_flag
          /\ \/ Answer("sync_fs", 0, "FR_OK", Zero)
             \/ DiskFaults /\ Answer("sync_fs", 0, "FR_DISK_ERR", Zero)
          /\ UNCHANGED fs_type
    BY <1>1, <1>4
  <2>2. /\ answer'.call = "sync_fs" /\ answer'.res \in {"FR_OK", "FR_DISK_ERR"}
        /\ answer'.val = Zero
    BY <2>1 DEF Answer
  <2>3. /\ Good(w) /\ ~w.wflag
        /\ w.unsure \cap Volume \subseteq (v.unsure \cup {FSInfo})
        /\ \A s \in Volume \ (v.unsure \cup w.unsure) :
             s # FSInfo => Shown(w, s) = Shown(v, s) /\ w.disk[s] = v.disk[s]
    BY <1>2, <1>4, InfoKeeps
  <2>4. fsi_flag' \in {0, 1, 128, 129}
    BY <1>0, <2>1
  <2>5. /\ WindowIsConsistent' /\ disk' = w.disk /\ unsure' = w.unsure
        /\ \A s \in Volume : Image'[s] = Shown(w, s)
    BY <1>0, <2>1, <2>2, <2>3, <2>4, ZeroLink, Left DEF Results
  <2>6. /\ v.unsure \cap Volume \subseteq unsure
        /\ \A s \in Volume \ unsure : Shown(v, s) = Image[s]
    BY <1>2, Found DEF Quiet
  <2>7. \A s \in VI!Known :
          /\ s \in Volume /\ disk'[s] = Image'[s]
          /\ s # FSInfo => Image'[s] = Image[s]
    <3> SUFFICES ASSUME NEW s \in VI!Known
                 PROVE  /\ s \in Volume /\ disk'[s] = Image'[s]
                        /\ s # FSInfo => Image'[s] = Image[s]
      OBVIOUS
    <3>1. s \in Volume /\ s \notin unsure /\ s \notin w.unsure /\ s \notin v.unsure
      BY <2>5, <2>6, KnownIs
    <3>2. Shown(w, s) = w.disk[s]
      BY <2>3, <3>1, CleanShown
    <3> QED BY <2>3, <2>5, <2>6, <3>1, <3>2
  <2>8. VI!Settles
    BY <2>7 DEF VI!Settles
  <2>9. VI!Sync \/ VI!Refuse
    BY <2>2, <2>7 DEF VI!Sync, VI!Refuse, VI!Call, VI!Same
  <2> QED BY <2>1, <2>5, <2>8, <2>9, Framed
<1> QED BY <1>3, <1>4

LEMMA MountStep ==
  ASSUME WindowIsConsistent, mount_volume
  PROVE  WindowIsConsistent' /\ VI!Next
<1>1. PICK m \in Mounted :
        /\ winsect' = m[1] /\ fsi_flag' = m[2] /\ wflag' = FALSE
        /\ win' = disk[IF m[1] = Nowhere THEN 0 ELSE m[1]]
        /\ Answer("mount_volume", 0, "FR_OK", Zero)
        /\ UNCHANGED <<disk, fs_type, unsure>>
  BY DEF mount_volume
<1>2. m[1] \in {0, FSInfo, Nowhere} /\ m[2] \in {0, 128}
  BY DEF Mounted, Faulty
<1>3. winsect' \in Volume \cup {Nowhere} /\ (winsect' # Nowhere => win' = disk[winsect'])
  BY <1>1, <1>2, Layout
<1>4. disk \in [Sectors -> Sector] /\ (IF m[1] = Nowhere THEN 0 ELSE m[1]) \in Sectors
  BY <1>2, Layout DEF WindowIsConsistent, TypeOK
<1>5. win' \in Sector
  BY <1>1, <1>4
<1>6. answer'.call = "mount_volume" /\ answer'.res = "FR_OK" /\ answer'.val = Zero
  BY <1>1 DEF Answer
<1>7. TypeOK'
  BY <1>1, <1>2, <1>3, <1>5, <1>6, ZeroLink DEF TypeOK, WindowIsConsistent
<1>8. WindowIsConsistent'
  BY <1>1, <1>3, <1>7 DEF WindowIsConsistent, CopiesAgree, CleanWindow
<1>9. \A s \in Volume : Image'[s] = disk[s] /\ disk'[s] = disk[s]
  BY <1>1, <1>3, Layout DEF Image
<1>10. VI!Mount
  BY <1>6, <1>9, KnownIs DEF VI!Mount, VI!Call
<1> QED BY <1>1, <1>8, <1>10, Framed

LEMMA CountStep ==
  ASSUME WindowIsConsistent, Counted
  PROVE  WindowIsConsistent' /\ UNCHANGED VI!vars
<1>1. UNCHANGED <<disk, win, winsect, wflag, fs_type, unsure, answer>> /\ fsi_flag' \in {1, 129}
  BY DEF Counted
<1>2. WindowIsConsistent'
  BY <1>1 DEF WindowIsConsistent, TypeOK, CopiesAgree, CleanWindow
<1> QED BY <1>1, <1>2 DEF VI!vars, Image

LEMMA EveryStep ==
  ASSUME WindowIsConsistent, [Next]_vars
  PROVE  WindowIsConsistent' /\ [VI!Next]_VI!vars
<1>1. CASE UNCHANGED vars
  BY <1>1 DEF vars, WindowIsConsistent, TypeOK, CopiesAgree, CleanWindow, VI!vars, Image
<1>2. CASE Next
  BY <1>2, PutStep, GetStep, CountStep, ChangeStep, LookStep, ClearStep, SyncStep, MountStep DEF Next
<1> QED BY <1>1, <1>2

LEMMA Started ==
  ASSUME Init
  PROVE  WindowIsConsistent /\ VI!Init
<1>1. PICK m \in Mounted :
        winsect = m[1] /\ fsi_flag = m[2] /\ win = Formatted[IF m[1] = Nowhere THEN 0 ELSE m[1]]
  BY DEF Init
<1>2. m[1] \in {0, FSInfo, Nowhere} /\ m[2] \in {0, 128}
  BY DEF Mounted, Faulty
<1>3. /\ disk = Formatted /\ fs_type \in Types /\ wflag = FALSE /\ unsure = {}
      /\ answer.res = "FR_OK" /\ answer.val = Zero
  BY DEF Init
<1>4. winsect \in Volume \cup {Nowhere} /\ (winsect # Nowhere => win = disk[winsect])
  BY <1>1, <1>2, <1>3, Layout
<1>5. disk \in [Sectors -> Sector] /\ (IF m[1] = Nowhere THEN 0 ELSE m[1]) \in Sectors
  BY <1>2, <1>3, Layout, FatWindowAssumption
<1>6. win \in Sector
  BY <1>1, <1>3, <1>5
<1>7. TypeOK
  BY <1>1, <1>2, <1>3, <1>4, <1>5, <1>6, ZeroLink DEF TypeOK
<1>8. CopiesAgree
  BY <1>3, FatWindowAssumption DEF CopiesAgree
<1>9. WindowIsConsistent
  BY <1>3, <1>4, <1>7, <1>8 DEF WindowIsConsistent, CleanWindow
<1>10. \A s \in Volume : Image[s] = disk[s]
  BY <1>4, Layout DEF Image
<1>11. Image = [s \in Volume |-> disk[s]]
  BY <1>10 DEF Image
<1> QED BY <1>3, <1>9, <1>11, FatWindowAssumption DEF VI!Init

-----------------------------------------------------------------------------
\* The window, the disk and the two tables agree after each call (sync_window and
\* move_window, ff.c:1022-1081), whatever the drive refuses.
THEOREM WindowStaysConsistent == Spec => []WindowIsConsistent
<1>1. Init => WindowIsConsistent
  BY Started
<1>2. WindowIsConsistent /\ [Next]_vars => WindowIsConsistent'
  BY EveryStep
<1> QED BY <1>1, <1>2, PTL DEF Spec

\* The volume looks as if put_fat, dir_clear and the callers of move_window had
\* changed it in place (ff.c:1212-1262).
THEOREM WindowImplementsImage == Spec => IsVolumeImage
<1>1. Init => VI!Init
  BY Started
<1>2. WindowIsConsistent /\ [Next]_vars => [VI!Next]_VI!vars
  BY EveryStep
<1> QED BY <1>1, <1>2, WindowStaysConsistent, PTL DEF Spec, IsVolumeImage, VI!Spec
============================================================================
