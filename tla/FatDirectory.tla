---------------------------- MODULE FatDirectory ----------------------------
(***************************************************************************)
(* The directories of a mounted FAT volume (ff.c) with the repository's    *)
(* two additions (ffcache.cpp): dir_alloc starts at the index it last      *)
(* allocated, and the check for a taken short name asks a cache of short   *)
(* names when the directory is the one scanned by f_chdir.                 *)
(*                                                                         *)
(* A table is the sequence of its entries, of Slots to the cluster.  A     *)
(* long name is stored in Parts[n] entries ahead of the short one; a short *)
(* name that lost characters is numbered (gen_numname), and Number[n][k]   *)
(* is the k-th attempt.  Directories are known by their first cluster and  *)
(* lie in the root (the depth bound); the data of files is left out.        *)
(* The checksum of a short name is the short name, and any entry may be    *)
(* the first of a sector.  The drive may refuse the accesses to entries    *)
(* that dir_alloc, dir_register, dir_remove and sync_fs make; a call that   *)
(* is refused one before it has changed anything is left out.              *)
(***************************************************************************)
EXTENDS Integers, Sequences, FiniteSets, FiniteSetsExt

CONSTANTS
    Name,        \* the names paths end in
    ShortName,   \* the short names
    Parts,       \* name -> entries its long form takes, 0 if it is in 8.3 form
    Lossy,       \* the names whose short form lost characters (NS_LOSS)
    Short,       \* name -> short form made by create_name
    Number,      \* name -> number -> numbered short form
    MaxNumber,   \* numbered forms tried (99 in the code)
    Root,        \* the first cluster of the root as callers know it (0)
    DirCluster,  \* first clusters directories may get
    Slots,       \* entries to a cluster
    MaxClusters, \* clusters to a table (MAX_DIR)
    Clusters,    \* at most so many clusters are free at first
    ChdirInto,   \* the directories f_chdir is called with
    MaxFaults,   \* at most so many accesses are refused
    NoDir, Absent

ASSUME NamesAssumption ==
    /\ Parts \in [Name -> Nat] /\ Lossy \subseteq Name
    /\ Short \in [Name -> ShortName] /\ MaxNumber \in Nat
    /\ Number \in [Name -> [1..MaxNumber -> ShortName]]
    /\ \A n \in Lossy : Parts[n] > 0
    /\ \A n \in Name \ Lossy, m \in Name :   \* no name is another's short form
          n # m => Short[n] # Short[m] /\ \A k \in 1..MaxNumber : Short[n] # Number[m][k]
ASSUME VolumeAssumption ==
    /\ Slots \in Nat /\ Slots > 2 /\ MaxClusters \in Nat \ {0} /\ Clusters \in Nat /\ MaxFaults \in Nat
    /\ Root \notin DirCluster /\ NoDir \notin DirCluster \cup {Root}
    /\ Absent \notin DirCluster \cup {NoDir}

VARIABLES
    table,      \* directory -> its entries
    free,       \* free clusters of the volume
    volume,     \* free clusters when the volume was mounted, the data of files apart
    cdir,       \* current directory (fs->cdir)
    scanned,    \* fs->scannedDir, Root when there is none
    shortCache, \* the short names in cachedDirSFNs
    lastTable,  \* lastDirTable
    lastIdx,    \* cachedDirLastAllocatedIdx, as a position in the table
    listing,    \* an open directory: its table, the position, a name that was there from
                \* the start on, and whether that is still due
    faults,     \* accesses refused so far
    answer,     \* the last call on names and its answer (see NameSpace)
    trouble,    \* the directories a call has failed on
    ns, unseen  \* what the tables mean: the objects names lead to, and the names
                \* and objects of entries that are not found

vars == <<table, free, volume, cdir, scanned, shortCache, lastTable, lastIdx, listing,
          faults, answer, trouble, ns, unseen>>

End == [kind |-> "end"]
Deleted == [kind |-> "deleted"]
Dot == [kind |-> "dot"]
LongSlot(n, ord, s) == [kind |-> "long", name |-> n, ord |-> ord, sum |-> s]
\* `for` is history: the name the entry was made for.
ShortSlot(s, dir, n) == [kind |-> "short", name |-> s, dir |-> dir, for |-> n]
Slot == {End, Deleted, Dot}
        \cup [kind : {"long"}, name : Name, ord : Nat \ {0}, sum : ShortName]
        \cup [kind : {"short"}, name : ShortName, dir : DirCluster \cup {NoDir}, for : Name]
Cleared(k) == [i \in 1..k |-> End]

Closed == [dir |-> NoDir, pos |-> 0, watch |-> NoDir, due |-> FALSE]

(***************************************************************************)
(* Finding (dir_find, dir_read): entries count up to the first end mark.   *)
(***************************************************************************)
BeforeEnd(t) == 1 .. Min({p \in 1..Len(t) : t[p].kind = "end"} \cup {Len(t) + 1}) - 1

\* Mutant: the checksum is not compared.
HasLong_NoSum(t, p, n) ==
    /\ Parts[n] > 0 /\ p > Parts[n]
    /\ \A k \in 1..Parts[n] : t[p - k].kind = "long" /\ t[p - k].name = n /\ t[p - k].ord = k

\* The entries ahead of p are a whole long form of n, made for the short name at p.
HasLong(t, p, n) ==
    /\ Parts[n] > 0 /\ p > Parts[n]
    /\ \A k \in 1..Parts[n] : t[p - k] = LongSlot(n, k, t[p].name)

IsNamed(t, p, n) ==
    /\ t[p].kind = "short"
    /\ HasLong(t, p, n) \/ (n \notin Lossy /\ t[p].name = Short[n])

Hits(t, n) == {p \in BeforeEnd(t) : IsNamed(t, p, n)}
Found(t, n) == Hits(t, n) # {}
Where(t, n) == Min(Hits(t, n))
Object(t, n) == IF Found(t, n) THEN t[Where(t, n)].dir ELSE Absent
\* The entries made for a name that it does not lead to.
Hidden(t, n) == {p \in DOMAIN t : IsNamed(t, p, n) /\ ~(Found(t, n) /\ p = Where(t, n))}
Meaning(tab) == [d \in DOMAIN tab |-> [n \in Name |-> Object(tab[d], n)]]
Unseen(tab) ==
    [d \in DOMAIN tab |-> UNION {{<<n, tab[d][p].dir>> : p \in Hidden(tab[d], n)} : n \in Name}]

HasShort(t, s) == \E p \in BeforeEnd(t) : t[p].kind = "short" /\ t[p].name = s

\* Where the run of long entries ahead of p starts (blk_ofs), p if there is none.
Block(t, p) ==
    LET starts == {q \in 1..p-1 : /\ t[q].kind = "long" /\ t[q].ord = Parts[t[q].name]
                                  /\ \A r \in q..p-1 : t[r].kind = "long"}
    IN  IF starts = {} THEN p ELSE Max(starts)

Init ==
    /\ table = [d \in {Root} |-> Cleared(Slots)]
    /\ volume \in 0..Clusters /\ free = volume
    /\ cdir = Root /\ scanned = Root /\ shortCache = {}
    /\ lastTable = NoDir /\ lastIdx = 1
    /\ listing = Closed /\ faults = 0
    /\ answer = [call |-> "none", on |-> <<>>, ok |-> TRUE] /\ trouble = {}
    /\ ns = Meaning(table) /\ unseen = Unseen(table)

(***************************************************************************)
(* Allocating entries (dir_alloc, dir_next with stretch, dir_clear).       *)
(***************************************************************************)
IsFree(t, p) == p > Len(t) \/ t[p].kind \in {"end", "deleted"}

\* Mutant: the index is taken for whatever table it was kept for.
StartAt_AnyTable(d) == IF lastIdx <= Len(table[d]) THEN lastIdx ELSE 1

StartAt(d) == IF lastTable = d THEN lastIdx ELSE 1

\* The last entry of the first n free ones in a row at or after position i.
FirstRun(t, i, n) ==
    Min({p \in i+n-1 .. Len(t)+n : \A q \in p-n+1..p : IsFree(t, q)})

\* Mutant: the offset of the directory object moves before dir_next has stretched.
Stopped_Past(t, p) == p
Stopped(t, p) == Len(t)

\* dir_alloc goes from entry to entry up to p, and dir_next stretches the table
\* where it ends: whether it gets there, where it stops, what it leaves.
Walk(d, fr, p) ==
    LET t == table[d]
        need == IF p <= Len(t) THEN 0 ELSE (p - Len(t) + Slots - 1) \div Slots
        room == Min({fr, MaxClusters - Len(t) \div Slots})
        grown == t \o Cleared(Slots * Min({need, room}))
    IN  [ok |-> need <= room, pos |-> IF need <= room THEN p ELSE Stopped(grown, p),
         tab |-> grown, free |-> fr - Min({need, room})]

\* dirCache_setLastAllocatedIdx, on every return of dir_alloc.
Remember(d, pos) ==
    /\ lastTable' = d
    /\ lastIdx' = IF lastTable = d THEN pos ELSE 1

(***************************************************************************)
(* Registering a name (dir_register).                                      *)
(***************************************************************************)
Taken(d, s) ==
    IF scanned # Root /\ scanned = d THEN s \in shortCache ELSE HasShort(table[d], s)

\* The numbers whose short form is not taken; the first is used.
FreeNumbers(d, n) == {k \in 1..MaxNumber : ~Taken(d, Number[n][k])}
ShortFor(d, n) == IF n \in Lossy THEN Number[n][Min(FreeNumbers(d, n))] ELSE Short[n]

\* The entries of name n, with the short name s, of which the last is to be at
\* p, written in their order as far as q, where an access is refused.
Written(t, p, n, s, dir, q) ==
    [r \in DOMAIN t |->
        IF r = p /\ p < q THEN ShortSlot(s, dir, n)
        ELSE IF r \in p - Parts[n] .. p - 1 /\ r < q THEN LongSlot(n, p - r, s)
        ELSE t[r]]

Refused(d, n) == n \in Lossy /\ FreeNumbers(d, n) = {}

\* What dir_register may come to for an object dir, fr clusters being free: no
\* number is left; all goes well or dir_alloc finds no room; an access is
\* refused to dir_alloc at q, or at q to what writes the entries.
Registrations(d, n, fr, dir) ==
    LET p == FirstRun(table[d], StartAt(d), Parts[n] + 1)
        w == Walk(d, fr, p)
        s == ShortFor(d, n)
        Whole == [ok |-> w.ok, fault |-> 0, pos |-> w.pos, free |-> w.free,
                  tab |-> IF w.ok THEN Written(w.tab, p, n, s, dir, p + 1) ELSE w.tab,
                  short |-> IF w.ok /\ scanned # Root /\ scanned = d THEN {s} ELSE {}]
        Partial(x, q) == [ok |-> FALSE, fault |-> 1, pos |-> x.pos, free |-> x.free,
                          tab |-> Written(x.tab, p, n, s, dir, q), short |-> {}]
    IN  IF Refused(d, n)
        THEN {[ok |-> FALSE, fault |-> 0, pos |-> 0, free |-> fr, tab |-> table[d], short |-> {}]}
        ELSE {Whole}
             \cup {Partial(Walk(d, fr, q), 0) : q \in {i \in StartAt(d)..p : Walk(d, fr, i).ok}}
             \cup {Partial(w, q) : q \in IF w.ok THEN p - Parts[n] .. p ELSE {}}

\* The caches after that: createSFN, and the index wherever dir_alloc was called.
Caches(r, d) ==
    /\ shortCache' = shortCache \cup r.short
    /\ IF r.pos = 0 THEN UNCHANGED <<lastTable, lastIdx>> ELSE Remember(d, r.pos)

(***************************************************************************)
(* The calls.  A path is a directory that can be reached and a name.       *)
(***************************************************************************)
Reached(d) ==
    \/ d \in {Root, cdir}
    \/ \E p \in BeforeEnd(table[Root]) : table[Root][p].kind = "short" /\ table[Root][p].dir = d

SlotOf(d, n) == table[d][Where(table[d], n)]
IsDir(d, n) == SlotOf(d, n).dir # NoDir

\* Mutant: entries move up.
Removed_Compacts(t, b, p) == SubSeq(t, 1, b - 1) \o SubSeq(t, p + 1, Len(t)) \o Cleared(p - b + 1)

\* Entries b to p are marked as deleted.
Removed(t, b, p) == [q \in DOMAIN t |-> IF q \in b..p THEN Deleted ELSE t[q]]

\* dir_remove of the entry at p and its long entries from b on, which stops
\* where an access is refused.
Removals(t, b, p) ==
    {[ok |-> TRUE, fault |-> 0, tab |-> Removed(t, b, p)]}
    \cup {[ok |-> FALSE, fault |-> 1, tab |-> Removed(t, b, q - 1)] : q \in b..p}

\* The clusters remove_chain gives back for a directory.  Mutant: none.
Chain_Kept(c) == 0
Chain(c) == IF c = NoDir THEN 0 ELSE Len(table[c]) \div Slots

\* A listing is followed while the watched name stays, and is then closed.
Forget(d, n) ==
    listing' = IF listing.dir = d /\ listing.watch = n THEN Closed ELSE listing

\* The answer to a call on names in the directories dirs.
Answers(call, on, dirs, ok) ==
    /\ answer' = [call |-> call, on |-> on, ok |-> ok]
    /\ trouble' = (IF ok THEN trouble ELSE trouble \cup dirs) \cap DOMAIN table'

Charge(n) == faults + n <= MaxFaults /\ faults' = faults + n

\* The result of the last access, sync_fs's, where all went well before.
Synced(ok) == IF ok THEN {0, 1} ELSE {0}

\* f_open, FA_CREATE_ALWAYS, of a new file; an old one keeps its entries.
OpenNew(d, n) ==
    /\ Reached(d) /\ ~Found(table[d], n)
    /\ \E r \in Registrations(d, n, free, NoDir) :
         /\ Charge(r.fault)
         /\ table' = [table EXCEPT ![d] = r.tab]
         /\ free' = r.free
         /\ Caches(r, d)
         /\ Answers("create", <<d, n>>, {d}, r.ok)
    /\ UNCHANGED <<volume, cdir, scanned, listing>>

\* A bound: what becomes of a directory two entries lead to, when one of them is
\* removed, is not followed.  A refused access in f_rename may leave two, the
\* cross-link of ff.c:5346.
OneEntry(c) ==
    \A p, q \in DOMAIN table[Root] :
      LET t == table[Root] IN
      t[p].kind = "short" /\ t[q].kind = "short" /\ t[p].dir = c /\ t[q].dir = c => p = q

\* f_unlink: not the current directory, not one with something in it, and (as
\* ffconf.h asks of callers, FF_FS_LOCK being 0) not one that is open.
Unlink(d, n) ==
    /\ Reached(d) /\ Found(table[d], n)
    /\ LET t == table[d]
           p == Where(t, n)
           c == t[p].dir
       IN  /\ c # NoDir =>
                /\ c \notin {cdir, listing.dir} /\ OneEntry(c)
                /\ \A q \in BeforeEnd(table[c]) : table[c][q].kind # "short"
           /\ \E r \in Removals(t, Block(t, p), p) : \E f \in Synced(r.ok) :
                /\ Charge(r.fault + f)
                /\ free' = IF r.ok THEN free + Chain(c) ELSE free
                /\ table' = [e \in DOMAIN table \ (IF r.ok THEN {c} ELSE {}) |->
                               IF e = d THEN r.tab ELSE table[e]]
                /\ Answers("remove", <<d, n>>, {d}, r.ok /\ f = 0)
    /\ Forget(d, n)
    /\ UNCHANGED <<volume, cdir, scanned, shortCache, lastTable, lastIdx>>

\* f_mkdir: a cluster with the two dot entries, then the name; without the name
\* the cluster is given back.
Mkdir(n, c) ==
    /\ ~Found(table[Root], n) /\ free > 0 /\ c \notin DOMAIN table
    /\ \E r \in Registrations(Root, n, free - 1, c) : \E f \in Synced(r.ok) :
         LET t == [table EXCEPT ![Root] = r.tab] IN
         /\ Charge(r.fault + f)
         /\ table' = IF r.ok
                     THEN [e \in DOMAIN t \cup {c} |->
                             IF e = c THEN <<Dot, Dot>> \o Cleared(Slots - 2) ELSE t[e]]
                     ELSE t
         /\ free' = IF r.ok THEN r.free ELSE r.free + 1
         /\ Caches(r, Root)
         /\ Answers("mkdir", <<n, c>>, {Root}, r.ok /\ f = 0)
    /\ UNCHANGED <<volume, cdir, scanned, listing>>

\* f_rename: the new name is registered, takes over the old entry's object, and
\* the old entry is removed.  Directories stay in the root.
Rename(d, n, e, m) ==
    /\ Reached(d) /\ Reached(e) /\ Found(table[d], n)
    /\ IsDir(d, n) => e = Root
    /\ Found(table[e], m) => d = e /\ Where(table[e], m) = Where(table[d], n)
    /\ LET p == Where(table[d], n) IN
       \E r \in Registrations(e, m, free, table[d][p].dir) :
         LET t == [table EXCEPT ![e] = r.tab] IN
         /\ free' = r.free
         /\ Caches(r, e)
         /\ \/ /\ ~r.ok
               /\ Charge(r.fault)
               /\ table' = t
               /\ Answers("rename", <<d, n, e, m>>, {d, e}, FALSE)
               /\ UNCHANGED listing
            \/ /\ r.ok
               /\ \E x \in Removals(t[d], Block(table[d], p), p) : \E f \in Synced(x.ok) :
                    /\ Charge(x.fault + f)
                    /\ table' = [t EXCEPT ![d] = x.tab]
                    /\ Answers("rename", <<d, n, e, m>>, {d, e}, x.ok /\ f = 0)
               /\ Forget(d, n)
    /\ UNCHANGED <<volume, cdir, scanned>>

(***************************************************************************)
(* f_chdir clears the caches and scans the directory the path was followed *)
(* in: for a path that ends in a name, the one that holds the name.        *)
(***************************************************************************)
ClearCaches == lastTable' = NoDir /\ lastIdx' = 1

ChdirRoot ==
    /\ cdir' = Root /\ scanned' = Root /\ shortCache' = {}
    /\ ClearCaches
    /\ UNCHANGED <<volume, table, free, listing, faults, answer, trouble>>

\* dir_scan keeps one short name: the path's own, of an entry without a long one.
ScanFinds(t, n) ==
    /\ n \notin Lossy
    /\ \E p \in BeforeEnd(t) : /\ t[p].kind = "short" /\ t[p].name = Short[n]
                            /\ \A m \in Name : ~HasLong(t, p, m)

ChdirName(n) ==
    LET t == table[Root]
        c == SlotOf(Root, n).dir
    IN  /\ IF Found(t, n) /\ c # NoDir
           THEN c \in ChdirInto /\ cdir' = c /\ scanned' = c
           ELSE ChdirInto # {} /\ scanned' = Root /\ UNCHANGED cdir
        /\ shortCache' = IF scanned' # Root /\ ScanFinds(t, n) THEN {Short[n]} ELSE {}
        /\ ClearCaches
        /\ UNCHANGED <<volume, table, free, listing, faults, answer, trouble>>

\* The path ".": the current directory itself is scanned.
ChdirDot ==
    /\ cdir # Root
    /\ scanned' = cdir /\ shortCache' = {}
    /\ ClearCaches
    /\ UNCHANGED <<volume, table, free, cdir, listing, faults, answer, trouble>>

(***************************************************************************)
(* Listing (f_opendir, f_readdir).                                         *)
(***************************************************************************)
Opendir(d, n) ==
    /\ Reached(d) /\ Found(table[d], n)
    /\ listing' = [dir |-> d, pos |-> 1, watch |-> n, due |-> TRUE]
    /\ UNCHANGED <<volume, table, free, cdir, scanned, shortCache, lastTable, lastIdx,
                   faults, answer, trouble>>

\* One entry: the next short one before an end mark.  At the end of the table
\* the position is lost (sect = 0) and later calls answer nothing.
Readdir ==
    LET t == table[listing.dir]
        rest == {p \in listing.pos .. Len(t) :
                   t[p].kind = "short" /\ \A q \in listing.pos..p : t[q].kind # "end"}
        p == Min(rest)
    IN  /\ listing.pos > 0
        /\ listing' =
             IF rest = {} THEN (IF listing.due THEN [listing EXCEPT !.pos = 0] ELSE Closed)
             ELSE [listing EXCEPT !.pos = IF p = Len(t) THEN 0 ELSE p + 1,
                                  !.due = @ /\ ~IsNamed(t, p, listing.watch)]
        /\ UNCHANGED <<volume, table, free, cdir, scanned, shortCache, lastTable, lastIdx,
                       faults, answer, trouble>>

Call ==
    \/ \E d \in DOMAIN table, n \in Name : OpenNew(d, n) \/ Unlink(d, n)
    \/ \E n \in Name, c \in DirCluster : Mkdir(n, c)
    \/ \E d, e \in DOMAIN table, n, m \in Name : Rename(d, n, e, m)
    \/ ChdirRoot \/ ChdirDot \/ \E n \in Name : ChdirName(n)
    \/ \E d \in DOMAIN table, n \in Name : Opendir(d, n)
    \/ Readdir

Next ==
    /\ Call
    /\ IF table' = table THEN UNCHANGED <<ns, unseen>>
       ELSE ns' = Meaning(table') /\ unseen' = Unseen(table')

Spec == Init /\ [][Next]_vars

(***************************************************************************)
(* Properties                                                              *)
(***************************************************************************)
\* The index dir_alloc starts at lies in the table it is kept for, whatever
\* became of the directory that had this cluster before (ff.c:1786).
StartInTable == lastTable \in DOMAIN table => lastIdx \in DOMAIN table[lastTable]

\* The variables hold what they are declared to hold, and StartInTable.
TypeOK ==
    /\ table \in [DOMAIN table -> Seq(Slot)]
    /\ Root \in DOMAIN table /\ DOMAIN table \subseteq DirCluster \cup {Root}
    /\ {free, volume, faults} \subseteq Nat
    /\ {cdir, scanned} \subseteq DOMAIN table /\ trouble \subseteq DOMAIN table
    /\ shortCache \subseteq ShortName
    /\ StartInTable

\* A name leads only to an entry that was made for it: no remains of a long name,
\* left where dir_register or dir_remove stopped half way, come to stand ahead of
\* another entry as its name (ff.c:2689, ff.c:2742).
NamesAreTheirOwn ==
    \A d \in DOMAIN table : \A p \in DOMAIN table[d], n \in Name :
      IsNamed(table[d], p, n) => table[d][p].for = n

\* No two entries of a directory have one short name, as the comment at
\* ff.c:2660 has it: "Check if the name collides with existing SFN".
ShortNamesAllDiffer ==
    \A d \in DOMAIN table : \A p, q \in DOMAIN table[d] :
      LET t == table[d] IN
      p # q /\ t[p].kind = "short" /\ t[q].kind = "short" => t[p].name # t[q].name

\* Behind an end mark there is no entry in use, where dir_find and dir_read,
\* which stop there ("Reached to end of table", ff.c:2570), would miss it.
NothingBehindEnd ==
    \A d \in DOMAIN table : \A p \in DOMAIN table[d] \ BeforeEnd(table[d]) : table[d][p] = End

\* A listing names whatever is there from its start to its end, and names it
\* once, whatever else is created, removed or renamed between its steps: the
\* name is due exactly as long as it lies ahead (ff.c:2292).
ListingIsFaithful ==
    listing.dir # NoDir =>
        listing.due = (listing.pos > 0 /\ Where(table[listing.dir], listing.watch) >= listing.pos)

\* The volume's clusters are all free, in a table or in a file: no call that
\* fails half way loses one (ff.c:5269).
TableClusters == UNION {{d} \X (1 .. Len(table[d]) \div Slots) : d \in DOMAIN table}
ClustersAccounted == free + Cardinality(TableClusters) = volume + 1

\* The tables, read as dir_find reads them, are a tree of names.  Every call does
\* to the names what it answers; until a call has failed in a directory what is
\* put there is found there, and after that it may come to light with a later
\* call, but no name ever changes its object or is lost by a call that was not
\* given it (ff.c:1786, ff.c:2529).
NS == INSTANCE NameSpace
IsNameSpace == NS!Spec
=============================================================================
