------------------------------ MODULE FatFiles ------------------------------
(***************************************************************************)
(* The clusters of files: the calls of ff.c that allocate, follow and free *)
(* cluster chains, on a FAT or an exFAT volume.  FatFs is not reentrant,   *)
(* so one call is in progress at a time (op); each turn of its loops is a  *)
(* step.  Positions are counted in units, ClusterSize to the cluster.       *)
(*                                                                         *)
(* An exFAT file that lies in one piece has no chain in the FAT (stat 2);  *)
(* when it breaks up, its first piece is kept as a length (stat 3, n_cont)  *)
(* and the piece at its growing end as another (n_frag), until they are     *)
(* written to the FAT.                                                      *)
(*                                                                         *)
(* On a FAT volume any access to a sector may fail; on exFAT none does.     *)
(***************************************************************************)
EXTENDS Integers, FiniteSets

CONSTANTS
    File,
    LastCluster,  \* n_fatent - 1
    ClusterSize,  \* units to a cluster
    MaxSize,      \* file -> a bound on positions in it
    Uses,         \* file -> the calls made of it, beside f_open of a new one and f_close
    Lengths,      \* units f_write and f_read are called with
    Offsets,      \* where f_lseek is called to go
    MaxFaults,    \* a bound on failing accesses
    Types,        \* the volumes: "FAT", "exFAT"
    None          \* no file

Calls == {"openRead", "open", "read", "append", "overwrite", "unlink", "write", "seek", "truncate", "sync"}

ASSUME VolumeAssumption ==
    /\ LastCluster \in Nat /\ LastCluster >= 2
    /\ ClusterSize \in Nat \ {0} /\ MaxFaults \in Nat /\ {Lengths, Offsets} \subseteq SUBSET Nat
    /\ MaxSize \in [File -> Nat] /\ Uses \in [File -> SUBSET Calls]
    /\ Types \subseteq {"FAT", "exFAT"} /\ None \notin File

Cluster == 2..LastCluster
Total == LastCluster - 1
EOC == LastCluster + 2        \* 0x7FFFFFFF: behind every cluster, and next to none
Link == Cluster \cup {0, EOC}
Unknown == LastCluster        \* any count above n_fatent - 2

VARIABLES
    type,       \* fs_type
    fat,        \* the table, both copies
    bitmap,     \* exFAT: the clusters marked in use
    free_clst, last_clst,
    entry,      \* file -> its directory entry
    obj,        \* file -> its file object
    op,         \* the call in progress
    holds,      \* history: cluster -> the part of a file's data put there
    faults      \* history: the accesses that failed

vars == <<type, fat, bitmap, free_clst, last_clst, entry, obj, op, holds, faults>>

NoEntry == [there |-> FALSE, sclust |-> 0, size |-> 0, stat |-> 0]
Entry(s, n, st) == [there |-> TRUE, sclust |-> s, size |-> n, stat |-> st]

\* The file object of an entry (init_alloc_info and the end of f_open).
Object(e, isOpen, mayWrite, isNew) ==
    [open |-> isOpen, write |-> mayWrite, modified |-> isNew, err |-> FALSE,
     sclust |-> e.sclust, objsize |-> e.size, stat |-> e.stat, n_cont |-> 0, n_frag |-> 0,
     fptr |-> 0, clust |-> 0]
Closed == Object(NoEntry, FALSE, FALSE, FALSE)

\* call: what is in progress; at: where; n: what is left of it; got: what create_chain
\* returned; clst, pclst, scl, ecl: as in remove_chain.
Idle == [call |-> "none", file |-> None, at |-> "loop", n |-> 0, got |-> 0,
         clst |-> 0, pclst |-> 0, scl |-> 0, ecl |-> 0]
Doing(call, f, at, n) == [Idle EXCEPT !.call = call, !.file = f, !.at = at, !.n = n]
Removing(call, f, c, p) ==
    [Idle EXCEPT !.call = call, !.file = f, !.at = "cut", !.n = c, !.clst = c, !.pclst = p,
                 !.scl = c, !.ecl = c]

Nothing == [file |-> None, part |-> 0]
Part(f, k) == [file |-> f, part |-> k]
IsOf(c, f) == holds[c].file = f

InUse == IF type = "FAT" THEN {c \in Cluster : fat[c] # 0} ELSE bitmap
FreeClusters == Cluster \ InUse

Init ==
    /\ type \in Types
    /\ fat = [c \in Cluster |-> 0] /\ bitmap = {}
    /\ \/ free_clst = Unknown
       \/ type = "FAT" /\ free_clst = Total    \* said by its FSINFO
    /\ last_clst = 0
    /\ entry = [f \in File |-> NoEntry] /\ obj = [f \in File |-> Closed]
    /\ op = Idle /\ holds = [c \in Cluster |-> Nothing] /\ faults = 0

\* An access to the medium fails.
Fails == type = "FAT" /\ faults < MaxFaults /\ faults' = faults + 1

(***************************************************************************)
(* The table (get_fat, fill_first_frag, fill_last_frag).  1 is an error.    *)
(***************************************************************************)
LastOffset(o) == (o.objsize - 1) \div ClusterSize    \* clen

GetFat(o, c) ==
    IF c \notin Cluster THEN 1
    ELSE IF type = "FAT" THEN fat[c]
    ELSE LET ofs == c - o.sclust IN
         IF o.stat # 0 /\ (o.objsize = 0 \/ o.sclust = 0) THEN 1
         ELSE IF o.stat = 2
              THEN (IF ofs \notin 0..LastOffset(o) THEN 1
                    ELSE IF ofs = LastOffset(o) THEN EOC ELSE c + 1)
         ELSE IF o.stat = 3 /\ ofs \in 0..o.n_cont - 1 THEN c + 1
         ELSE IF o.n_frag # 0 THEN EOC ELSE fat[c]

FillFirst(t, o) ==
    IF o.stat # 3 THEN t
    ELSE [c \in Cluster |-> IF c \in o.sclust .. o.sclust + o.n_cont - 1 THEN c + 1 ELSE t[c]]

FillLast(t, n, last, term) ==
    [c \in Cluster |-> IF c \in last - n + 1 .. last
                       THEN (IF c = last THEN term ELSE c + 1) ELSE t[c]]

(***************************************************************************)
(* create_chain, called with 0 or the last cluster of the position.         *)
(***************************************************************************)
Least(S) == CHOOSE c \in S : \A d \in S : c <= d

\* The first free cluster of those from c on, then of all; 0 if none is free.
FirstFrom(c) ==
    LET behind == {d \in FreeClusters : d >= c}
    IN  IF behind # {} THEN Least(behind)
        ELSE IF FreeClusters # {} THEN Least(FreeClusters) ELSE 0

Suggested(scl) == IF last_clst \in Cluster THEN last_clst ELSE scl

\* Mutant: on FAT the next cluster is taken without a look at its link.
Find_Next(clst) ==
    IF type = "exFAT" THEN FirstFrom(IF clst = 0 THEN last_clst ELSE clst)
    ELSE IF clst # 0 THEN (IF clst + 1 \in Cluster THEN clst + 1 ELSE 2)
         ELSE FirstFrom(Suggested(1) + 1)

Find(clst) ==
    IF type = "exFAT" THEN FirstFrom(IF clst = 0 THEN last_clst ELSE clst)
    ELSE LET next == IF clst + 1 \in Cluster THEN clst + 1 ELSE 2 IN
         IF clst # 0 /\ fat[next] = 0 THEN next
         ELSE FirstFrom(Suggested(IF clst = 0 THEN 1 ELSE clst) + 1)

\* exFAT: the object with one more cluster, and what goes to the FAT for it.
Broken(o, clst, ncl) ==
    IF clst = 0 THEN [o EXCEPT !.stat = 2]
    ELSE IF o.stat = 2 /\ ncl # clst + 1 THEN [o EXCEPT !.stat = 3, !.n_cont = clst - o.sclust]
    ELSE o
Grown(o, clst, ncl) ==
    LET b == Broken(o, clst, ncl) IN
    IF b.stat = 2 THEN b
    ELSE IF ncl = clst + 1 THEN [b EXCEPT !.n_frag = IF @ = 0 THEN 2 ELSE @ + 1]
    ELSE [b EXCEPT !.n_frag = 1]
\* Mutant: the piece before the new one is not written to the FAT.
Linked_Unfilled(o, clst, ncl) ==
    IF type = "FAT"
    THEN [c \in Cluster |-> IF c = ncl THEN EOC ELSE IF c = clst THEN ncl ELSE fat[c]]
    ELSE fat

Linked(o, clst, ncl) ==
    IF type = "FAT"
    THEN [c \in Cluster |-> IF c = ncl THEN EOC ELSE IF c = clst THEN ncl ELSE fat[c]]
    ELSE IF Broken(o, clst, ncl).stat = 2 \/ ncl = clst + 1 THEN fat
    ELSE FillLast(fat, IF o.n_frag = 0 THEN 1 ELSE o.n_frag, clst, ncl)

ChainArg(o) == IF o.sclust = 0 THEN 0 ELSE o.clust
Got(c) == op' = [op EXCEPT !.at = "got", !.got = c]

\* The chain goes on where it is: "It is already followed by next cluster".
ChainFollows ==
    LET o == obj[op.file]
        next == GetFat(o, ChainArg(o))
    IN  /\ op.at = "chain" /\ ChainArg(o) # 0 /\ next # EOC
        /\ Got(IF next < 2 THEN 1 ELSE next)
        /\ UNCHANGED <<type, fat, bitmap, free_clst, last_clst, entry, obj, holds, faults>>

IsAtEnd(o) == ChainArg(o) = 0 \/ GetFat(o, ChainArg(o)) = EOC

ChainIsFull ==
    LET o == obj[op.file] IN
    /\ op.at = "chain" /\ IsAtEnd(o)
    /\ free_clst = 0 \/ Find(ChainArg(o)) = 0
    /\ Got(0)
    /\ UNCHANGED <<type, fat, bitmap, free_clst, last_clst, entry, obj, holds, faults>>

ChainGrows ==
    LET f == op.file
        o == obj[f]
        clst == ChainArg(o)
        ncl == Find(clst)
    IN  /\ op.at = "chain" /\ IsAtEnd(o)
        /\ free_clst # 0 /\ ncl # 0
        /\ fat' = Linked(o, clst, ncl)
        /\ IF type = "FAT" THEN UNCHANGED <<bitmap, obj>>
           ELSE /\ bitmap' = bitmap \cup {ncl}
                /\ obj' = [obj EXCEPT ![f] = Grown(o, clst, ncl)]
        /\ last_clst' = ncl
        /\ free_clst' = IF free_clst <= Total THEN free_clst - 1 ELSE free_clst
        /\ holds' = [holds EXCEPT ![ncl] = Part(f, o.fptr \div ClusterSize + 1)]
        /\ Got(ncl)
        /\ UNCHANGED <<type, entry, faults>>

\* A failed access: before anything is changed, or after the new cluster's entry
\* was written and before the one that is to lead to it.
ChainFails ==
    LET o == obj[op.file]
        clst == ChainArg(o)
        ncl == Find(clst)
    IN  /\ op.at = "chain"
        /\ \/ UNCHANGED fat
           \/ /\ clst # 0 /\ IsAtEnd(o) /\ free_clst # 0 /\ ncl # 0
              /\ fat' = [fat EXCEPT ![ncl] = EOC]
        /\ Fails
        /\ Got(1)
        /\ UNCHANGED <<type, bitmap, free_clst, last_clst, entry, obj, holds>>

(***************************************************************************)
(* remove_chain for a file object, and what its callers do after it.        *)
(***************************************************************************)
Forget(f, k) == holds' = [c \in Cluster |-> IF IsOf(c, f) /\ holds[c].part > k THEN Nothing ELSE holds[c]]

\* "Mark the previous cluster 'EOC' on the FAT if it exists"; from here on what
\* follows belongs to nobody.
Cut ==
    LET f == op.file
        p == op.pclst
    IN  /\ op.at = "cut"
        /\ fat' = IF p # 0 /\ (type = "FAT" \/ obj[f].stat # 2) THEN [fat EXCEPT ![p] = EOC] ELSE fat
        /\ Forget(f, IF p = 0 THEN 0 ELSE holds[p].part)
        /\ op' = [op EXCEPT !.at = "free"]
        /\ UNCHANGED <<type, bitmap, free_clst, last_clst, entry, obj, faults>>

\* "if (ecl + 1 == nxt) ecl = nxt", else the block so far is freed.
\* Mutant: only its last cluster is.
FreedBits_One(nxt) == IF op.ecl + 1 = nxt THEN bitmap ELSE bitmap \ {op.ecl}
FreedBits(nxt) == IF op.ecl + 1 = nxt THEN bitmap ELSE bitmap \ (op.scl..op.ecl)

\* "Update FSINFO".
Returned(n) == IF n < Total THEN n + 1 ELSE n

\* One turn of the loop.
FreeOne ==
    LET c == op.clst
        nxt == GetFat(obj[op.file], c)
    IN  /\ op.at = "free" /\ nxt > 1
        /\ IF type = "FAT"
           THEN fat' = [fat EXCEPT ![c] = 0] /\ UNCHANGED bitmap
           ELSE UNCHANGED fat /\ bitmap' = FreedBits(nxt)
        /\ free_clst' = Returned(free_clst)
        /\ op' = [op EXCEPT !.clst = nxt,
                            !.at = IF nxt \in Cluster THEN "free" ELSE "freed",
                            !.scl = IF op.ecl + 1 = nxt THEN @ ELSE nxt,
                            !.ecl = nxt]
        /\ UNCHANGED <<type, last_clst, entry, obj, holds, faults>>

\* The chain status of an exFAT file that was cut: in one piece again, or not.
CutStat(o, p) ==
    IF p = 0 THEN 0
    ELSE IF o.stat = 0
         THEN (IF p >= o.sclust /\ \A c \in o.sclust..p-1 : GetFat(o, c) = c + 1 THEN 2 ELSE 0)
    ELSE IF o.stat = 3 /\ p \in o.sclust .. o.sclust + o.n_cont THEN 2
    ELSE o.stat

\* What f_truncate, f_open and f_unlink do when remove_chain has returned.
\* Mutant: f_truncate leaves the size.
Ended_KeepsSize(o, fails) ==
    LET stat == IF type = "exFAT" THEN CutStat(o, op.pclst) ELSE o.stat IN
    CASE op.call = "truncate" ->
           [o EXCEPT !.sclust = IF op.pclst = 0 THEN 0 ELSE @, !.stat = stat, !.modified = TRUE, !.err = fails]
      [] op.call = "overwrite" -> IF fails THEN Closed ELSE Object(Entry(0, 0, 0), TRUE, TRUE, TRUE)
      [] OTHER -> Closed

Ended(o, fails) ==
    LET stat == IF type = "exFAT" THEN CutStat(o, op.pclst) ELSE o.stat IN
    CASE op.call = "truncate" ->
           [o EXCEPT !.sclust = IF op.pclst = 0 THEN 0 ELSE @, !.stat = stat,
                     !.objsize = o.fptr, !.modified = TRUE, !.err = fails]
      [] op.call = "overwrite" -> IF fails THEN Closed ELSE Object(Entry(0, 0, 0), TRUE, TRUE, TRUE)
      [] OTHER -> Closed

\* "Repeat while not the last link"; an empty cluster ends it too.  What comes
\* behind it may fail: a sector in the buffer, the entry's sector, sync_fs.
RemoveEnds ==
    /\ op.at = "freed" \/ (op.at = "free" /\ GetFat(obj[op.file], op.clst) = 0)
    /\ \E fails \in BOOLEAN :
         /\ IF fails THEN Fails ELSE UNCHANGED faults
         /\ obj' = [obj EXCEPT ![op.file] = Ended(@, fails)]
         /\ last_clst' = IF op.call = "overwrite" /\ ~fails THEN op.n - 1 ELSE last_clst
    /\ op' = Idle
    /\ UNCHANGED <<type, fat, bitmap, free_clst, entry, holds>>

\* An entry that cannot be read or written, or that is an error: what is left of
\* the chain stays in use and is lost.
RemoveFails ==
    /\ op.at \in {"cut", "free"}
    /\ IF op.at = "free" /\ GetFat(obj[op.file], op.clst) = 1 THEN UNCHANGED faults ELSE Fails
    /\ obj' = [obj EXCEPT ![op.file] = Ended(@, TRUE)]
    /\ IF op.at = "cut" /\ op.pclst = 0 THEN Forget(op.file, 0) ELSE UNCHANGED holds
    /\ op' = Idle
    /\ UNCHANGED <<type, fat, bitmap, free_clst, last_clst, entry>>

(***************************************************************************)
(* f_open                                                                  *)
(***************************************************************************)
CanOpen(f) == op = Idle /\ ~obj[f].open

OpenNew(f) ==
    /\ CanOpen(f) /\ ~entry[f].there
    /\ entry' = [entry EXCEPT ![f] = Entry(0, 0, 0)]
    /\ obj' = [obj EXCEPT ![f] = Object(Entry(0, 0, 0), TRUE, TRUE, TRUE)]
    /\ UNCHANGED <<type, fat, bitmap, free_clst, last_clst, op, holds, faults>>

OpenOld(f, mayWrite) ==
    /\ CanOpen(f) /\ entry[f].there
    /\ obj' = [obj EXCEPT ![f] = Object(entry[f], TRUE, mayWrite, FALSE)]
    /\ UNCHANGED <<type, fat, bitmap, free_clst, last_clst, entry, op, holds, faults>>

\* FA_OPEN_APPEND follows the chain to the last cluster of the size.
OpenAppend(f) ==
    /\ CanOpen(f) /\ entry[f].there /\ entry[f].size > 0
    /\ LET o == Object(entry[f], TRUE, TRUE, FALSE)
       IN  obj' = [obj EXCEPT ![f] = [o EXCEPT !.fptr = o.objsize, !.clust = o.sclust]]
    /\ op' = Doing("append", f, "loop", entry[f].size)
    /\ UNCHANGED <<type, fat, bitmap, free_clst, last_clst, entry, holds, faults>>

AppendLoop ==
    LET f == op.file
        next == GetFat(obj[f], obj[f].clust)
    IN  /\ op.call = "append"
        /\ IF op.n <= ClusterSize THEN op' = Idle /\ UNCHANGED obj
           ELSE IF next < 2 THEN op' = Idle /\ obj' = [obj EXCEPT ![f] = Closed]
           ELSE op' = [op EXCEPT !.n = @ - ClusterSize] /\ obj' = [obj EXCEPT ![f].clust = next]
        /\ UNCHANGED <<type, fat, bitmap, free_clst, last_clst, entry, holds, faults>>

AppendFails ==
    /\ op.call = "append"
    /\ obj' = [obj EXCEPT ![op.file] = Closed] /\ op' = Idle /\ Fails
    /\ UNCHANGED <<type, fat, bitmap, free_clst, last_clst, entry, holds>>

\* FA_CREATE_ALWAYS over a file: its entry is emptied, then its chain removed.
Overwrite(f) ==
    /\ CanOpen(f) /\ entry[f].there
    /\ entry' = [entry EXCEPT ![f] = Entry(0, 0, 0)]
    /\ IF entry[f].sclust = 0
       THEN obj' = [obj EXCEPT ![f] = Object(Entry(0, 0, 0), TRUE, TRUE, TRUE)] /\ UNCHANGED op
       ELSE /\ obj' = [obj EXCEPT ![f] = Object(entry[f], FALSE, FALSE, FALSE)]
            /\ op' = Removing("overwrite", f, entry[f].sclust, 0)
    /\ UNCHANGED <<type, fat, bitmap, free_clst, last_clst, holds, faults>>

\* f_unlink, of a file that is not open (FF_FS_LOCK is 0, callers see to that).
Unlink(f) ==
    /\ CanOpen(f) /\ entry[f].there
    /\ entry' = [entry EXCEPT ![f] = NoEntry]
    /\ IF entry[f].sclust = 0 THEN UNCHANGED <<obj, op>>
       ELSE /\ obj' = [obj EXCEPT ![f] = Object(entry[f], FALSE, FALSE, FALSE)]
            /\ op' = Removing("unlink", f, entry[f].sclust, 0)
    /\ UNCHANGED <<type, fat, bitmap, free_clst, last_clst, holds, faults>>

(***************************************************************************)
(* f_write                                                                 *)
(***************************************************************************)
Usable(f) == op = Idle /\ obj[f].open /\ ~obj[f].err

WriteBegin(f, n) ==
    /\ Usable(f) /\ obj[f].write /\ obj[f].fptr + n <= MaxSize[f]
    /\ op' = Doing("write", f, "loop", n)
    /\ UNCHANGED <<type, fat, bitmap, free_clst, last_clst, entry, obj, holds, faults>>

OnBoundary(o) == o.fptr % ClusterSize = 0
Moved(o, w) ==
    [o EXCEPT !.fptr = @ + w, !.objsize = IF o.fptr + w > @ THEN o.fptr + w ELSE @]
\* Mutant: no room where all of it is there.
Room_None(o) == (ClusterSize - (o.fptr % ClusterSize)) % ClusterSize
Room(o) == ClusterSize - (o.fptr % ClusterSize)
PartLength(o) == IF op.n < Room(o) THEN op.n ELSE Room(o)

\* A turn of the loop that begins a cluster asks for it first.
WriteCluster ==
    LET o == obj[op.file] IN
    /\ op.call = "write" /\ op.at = "loop" /\ op.n > 0 /\ OnBoundary(o)
    /\ op' = IF o.fptr = 0 /\ o.sclust # 0 THEN [op EXCEPT !.at = "got", !.got = o.sclust]
             ELSE [op EXCEPT !.at = "chain"]
    /\ UNCHANGED <<type, fat, bitmap, free_clst, last_clst, entry, obj, holds, faults>>

At(o, c) == [o EXCEPT !.clust = c, !.sclust = IF @ = 0 THEN c ELSE @]

WriteGot ==
    LET f == op.file
        o == obj[f]
    IN  /\ op.call = "write" /\ op.at = "got"
        /\ CASE op.got = 0 -> op' = Idle /\ obj' = [obj EXCEPT ![f].modified = TRUE]
             [] op.got = 1 -> op' = Idle /\ obj' = [obj EXCEPT ![f].err = TRUE]
             [] OTHER -> /\ obj' = [obj EXCEPT ![f] = Moved(At(o, op.got), PartLength(o))]
                         /\ op' = [op EXCEPT !.at = "loop", !.n = @ - PartLength(o), !.got = 0]
        /\ UNCHANGED <<type, fat, bitmap, free_clst, last_clst, entry, holds, faults>>

WriteRest ==
    LET f == op.file
        o == obj[f]
    IN  /\ op.call = "write" /\ op.at = "loop"
        /\ IF op.n = 0 THEN op' = Idle /\ obj' = [obj EXCEPT ![f].modified = TRUE]
           ELSE /\ ~OnBoundary(o)
                /\ obj' = [obj EXCEPT ![f] = Moved(o, PartLength(o))]
                /\ op' = [op EXCEPT !.n = @ - PartLength(o)]
        /\ UNCHANGED <<type, fat, bitmap, free_clst, last_clst, entry, holds, faults>>

\* Some of a part's data cannot be written: ABORT, where the cluster has been
\* taken and the position has moved so far, with FA_MODIFIED as it was.
WriteFails ==
    LET f == op.file
        o == obj[f]
        y == IF op.at = "got" THEN At(o, op.got) ELSE o
    IN  /\ op.call = "write"
        /\ \/ op.at = "got" /\ op.got > 1
           \/ op.at = "loop" /\ op.n > 0 /\ ~OnBoundary(o)
        /\ \E w \in 0 .. PartLength(o) - 1 :
             obj' = [obj EXCEPT ![f] = [Moved(y, w) EXCEPT !.err = TRUE]]
        /\ op' = Idle /\ Fails
        /\ UNCHANGED <<type, fat, bitmap, free_clst, last_clst, entry, holds>>

(***************************************************************************)
(* f_read, of files opened with FA_READ, whatever else.                     *)
(***************************************************************************)
ReadBegin(f, n) ==
    LET remain == obj[f].objsize - obj[f].fptr IN
    /\ Usable(f)
    /\ op' = Doing("read", f, "loop", IF n > remain THEN remain ELSE n)
    /\ UNCHANGED <<type, fat, bitmap, free_clst, last_clst, entry, obj, holds, faults>>

\* A turn of the loop; a cluster that is none aborts the call.
ReadPart ==
    LET f == op.file
        o == obj[f]
        clst == IF ~OnBoundary(o) THEN o.clust ELSE IF o.fptr = 0 THEN o.sclust ELSE GetFat(o, o.clust)
    IN  /\ op.call = "read"
        /\ IF op.n > 0 /\ clst \in Cluster
           THEN /\ obj' = [obj EXCEPT ![f].clust = clst, ![f].fptr = @ + PartLength(o)]
                /\ op' = [op EXCEPT !.n = @ - PartLength(o)]
           ELSE obj' = [obj EXCEPT ![f].err = op.n > 0] /\ op' = Idle
        /\ UNCHANGED <<type, fat, bitmap, free_clst, last_clst, entry, holds, faults>>

ReadFails ==
    /\ op.call = "read" /\ op.n > 0
    /\ obj' = [obj EXCEPT ![op.file].err = TRUE] /\ op' = Idle /\ Fails
    /\ UNCHANGED <<type, fat, bitmap, free_clst, last_clst, entry, holds>>

(***************************************************************************)
(* f_lseek                                                                 *)
(***************************************************************************)
Filled(o) == [o EXCEPT !.n_frag = 0]

SeekBegin(f, ofs) ==
    LET o == Filled(obj[f])
        n == IF ofs > o.objsize /\ ~o.write THEN o.objsize ELSE ofs
        top == ((o.fptr - 1) \div ClusterSize) * ClusterSize
    IN  /\ Usable(f)
        /\ fat' = IF type = "exFAT" THEN FillLast(fat, obj[f].n_frag, o.clust, EOC) ELSE fat
        /\ \/ /\ n = 0
              /\ obj' = [obj EXCEPT ![f] = [o EXCEPT !.fptr = 0]] /\ op' = Idle
           \/ /\ n > 0 /\ o.fptr > 0 /\ (n - 1) \div ClusterSize >= (o.fptr - 1) \div ClusterSize
              /\ obj' = [obj EXCEPT ![f] = [o EXCEPT !.fptr = top]]
              /\ op' = Doing("seek", f, "loop", n - top)
           \/ /\ n > 0 /\ ~(o.fptr > 0 /\ (n - 1) \div ClusterSize >= (o.fptr - 1) \div ClusterSize)
              /\ obj' = [obj EXCEPT ![f] = [o EXCEPT !.fptr = 0, !.clust = o.sclust]]
              /\ op' = Doing("seek", f, IF o.sclust = 0 THEN "chain" ELSE "loop", n)
        /\ UNCHANGED <<type, bitmap, free_clst, last_clst, entry, holds, faults>>

Extended(o) == IF o.fptr > o.objsize THEN [o EXCEPT !.objsize = o.fptr, !.modified = TRUE] ELSE o

\* The cluster following loop; in write mode create_chain stretches the file.
SeekLoop ==
    LET f == op.file
        o == obj[f]
        further == [o EXCEPT !.fptr = @ + ClusterSize]
        next == GetFat(o, o.clust)
    IN  /\ op.call = "seek" /\ op.at = "loop"
        /\ \/ /\ op.n <= ClusterSize
              /\ obj' = [obj EXCEPT ![f] = Extended([o EXCEPT !.fptr = @ + op.n])]
              /\ op' = Idle
           \/ /\ op.n > ClusterSize /\ o.write
              /\ obj' = [obj EXCEPT ![f] = Extended(further)]
              /\ op' = [op EXCEPT !.n = @ - ClusterSize, !.at = "chain"]
           \/ /\ op.n > ClusterSize /\ ~o.write
              /\ IF next \in Cluster
                 THEN /\ obj' = [obj EXCEPT ![f] = [further EXCEPT !.clust = next]]
                      /\ op' = [op EXCEPT !.n = @ - ClusterSize]
                 ELSE obj' = [obj EXCEPT ![f] = [further EXCEPT !.err = TRUE]] /\ op' = Idle
        /\ UNCHANGED <<type, fat, bitmap, free_clst, last_clst, entry, holds, faults>>

\* "Clip file size in case of disk full".
SeekGot ==
    LET f == op.file
        o == obj[f]
    IN  /\ op.call = "seek" /\ op.at = "got"
        /\ CASE op.got = 0 -> op' = Idle /\ obj' = [obj EXCEPT ![f] = Extended(o)]
             [] op.got = 1 -> op' = Idle /\ obj' = [obj EXCEPT ![f].err = TRUE]
             [] OTHER -> /\ op' = [op EXCEPT !.at = "loop", !.got = 0]
                         /\ obj' = [obj EXCEPT ![f] = At(o, op.got)]
        /\ UNCHANGED <<type, fat, bitmap, free_clst, last_clst, entry, holds, faults>>

SeekFails ==
    LET f == op.file
        o == obj[f]
    IN  /\ op.call = "seek" /\ op.at = "loop"
        /\ obj' = [obj EXCEPT ![f] = [o EXCEPT !.err = TRUE]] /\ op' = Idle /\ Fails
        /\ UNCHANGED <<type, fat, bitmap, free_clst, last_clst, entry, holds>>

(***************************************************************************)
(* f_truncate                                                              *)
(***************************************************************************)
Shortened(o) == [o EXCEPT !.objsize = o.fptr, !.modified = TRUE]

Truncate(f) ==
    LET o == obj[f]
        ncl == GetFat(o, o.clust)
    IN  /\ Usable(f) /\ o.write /\ o.fptr < o.objsize
        /\ \/ /\ o.fptr = 0
              /\ op' = Removing("truncate", f, o.sclust, 0) /\ UNCHANGED obj
           \/ /\ o.fptr > 0 /\ ncl \in Cluster
              /\ op' = Removing("truncate", f, ncl, o.clust) /\ UNCHANGED obj
           \/ /\ o.fptr > 0 /\ ncl \notin Cluster
              /\ obj' = [obj EXCEPT ![f] = [Shortened(o) EXCEPT !.err = (ncl = 1)]]
              /\ UNCHANGED op
        /\ UNCHANGED <<type, fat, bitmap, free_clst, last_clst, entry, holds, faults>>

TruncateFails(f) ==
    LET o == obj[f] IN
    /\ Usable(f) /\ o.write /\ o.fptr > 0 /\ o.fptr < o.objsize
    /\ obj' = [obj EXCEPT ![f] = [Shortened(o) EXCEPT !.err = TRUE]] /\ Fails
    /\ UNCHANGED <<type, fat, bitmap, free_clst, last_clst, entry, op, holds>>

(***************************************************************************)
(* f_sync, and f_close, which is f_sync and the end of the object.          *)
(***************************************************************************)
Synced(o) == [o EXCEPT !.stat = IF o.stat = 3 THEN 0 ELSE @, !.n_frag = 0, !.modified = FALSE]

\* A chain no entry leads to when its file is closed is lost.
Unheld(f, e) == IF e.sclust = 0 THEN Forget(f, 0) ELSE UNCHANGED holds

Sync(f, isClose) ==
    LET o == obj[f]
        s == Synced(o)
    IN  /\ op = Idle /\ o.open /\ (isClose \/ o.modified)
        /\ IF o.modified
           THEN /\ entry' = [entry EXCEPT ![f] = Entry(o.sclust, o.objsize, s.stat)]
                /\ fat' = IF type = "exFAT" THEN FillLast(FillFirst(fat, o), o.n_frag, o.clust, EOC) ELSE fat
           ELSE UNCHANGED <<entry, fat>>
        /\ obj' = [obj EXCEPT ![f] = IF isClose THEN Closed ELSE s]
        /\ IF isClose THEN Unheld(f, entry'[f]) ELSE UNCHANGED holds
        /\ UNCHANGED <<type, bitmap, free_clst, last_clst, op, faults>>

\* It fails before the entry is changed, or in sync_fs after that; the file
\* stays open.
SyncFails(f) ==
    LET o == obj[f] IN
    /\ op = Idle /\ o.open /\ o.modified
    /\ \/ UNCHANGED <<entry, obj>>
       \/ /\ entry' = [entry EXCEPT ![f] = Entry(o.sclust, o.objsize, o.stat)]
          /\ obj' = [obj EXCEPT ![f].modified = FALSE]
    /\ Fails
    /\ UNCHANGED <<type, fat, bitmap, free_clst, last_clst, op, holds>>

\* f_getfree counts when the count is not known.
GetFree ==
    /\ op = Idle /\ free_clst > Total
    /\ free_clst' = Cardinality(FreeClusters)
    /\ UNCHANGED <<type, fat, bitmap, last_clst, entry, obj, op, holds, faults>>

Chain == ChainFollows \/ ChainIsFull \/ ChainGrows \/ ChainFails
Remove == Cut \/ FreeOne \/ RemoveEnds \/ RemoveFails
Loop ==
    \/ Chain \/ Remove
    \/ AppendLoop \/ AppendFails
    \/ WriteCluster \/ WriteGot \/ WriteRest \/ WriteFails
    \/ ReadPart \/ ReadFails
    \/ SeekLoop \/ SeekGot \/ SeekFails

Call ==
    \/ \E f \in File :
         \/ OpenNew(f) \/ Sync(f, TRUE) \/ SyncFails(f)
         \/ "openRead" \in Uses[f] /\ OpenOld(f, FALSE)
         \/ "open" \in Uses[f] /\ OpenOld(f, TRUE)
         \/ "append" \in Uses[f] /\ OpenAppend(f)
         \/ "overwrite" \in Uses[f] /\ Overwrite(f)
         \/ "unlink" \in Uses[f] /\ Unlink(f)
         \/ "write" \in Uses[f] /\ \E n \in Lengths : WriteBegin(f, n)
         \/ "read" \in Uses[f] /\ \E n \in Lengths : ReadBegin(f, n)
         \/ "seek" \in Uses[f] /\ \E ofs \in {i \in Offsets : i <= MaxSize[f]} : SeekBegin(f, ofs)
         \/ "truncate" \in Uses[f] /\ (Truncate(f) \/ TruncateFails(f))
         \/ "sync" \in Uses[f] /\ Sync(f, FALSE)
    \/ GetFree

Next == Call \/ Loop

Spec == Init /\ [][Next]_vars /\ WF_vars(Loop)

(***************************************************************************)
(* Properties                                                              *)
(***************************************************************************)
TypeOK ==
    /\ type \in Types
    /\ fat \in [Cluster -> Link] /\ bitmap \subseteq Cluster
    /\ free_clst \in 0..Unknown /\ last_clst \in 0..LastCluster
    /\ entry \in [File -> [there : BOOLEAN, sclust : Cluster \cup {0}, size : Nat, stat : {0, 2}]]
    /\ obj \in [File -> [open : BOOLEAN, write : BOOLEAN, modified : BOOLEAN, err : BOOLEAN,
                         sclust : Cluster \cup {0}, objsize : Nat, stat : {0, 2, 3},
                         n_cont : Nat, n_frag : Nat, fptr : Nat, clust : Cluster \cup {0}]]
    /\ op \in [call : {"none", "append", "write", "read", "seek", "truncate", "overwrite", "unlink"},
               file : File \cup {None}, at : {"loop", "chain", "got", "cut", "free", "freed"},
               n : Nat, got : 0..LastCluster, clst : 0..EOC, pclst : Cluster \cup {0},
               scl : 0..EOC, ecl : 0..EOC]
    /\ holds \in [Cluster -> {Nothing} \cup [file : File, part : Nat \ {0}]]
    /\ faults \in 0..MaxFaults

\* The object get_fat is called with for a file: its own, or the one its entry gives.
ObjectOf(f) == IF obj[f].open THEN obj[f] ELSE Object(entry[f], FALSE, FALSE, FALSE)
HeldBy(f, k) == {c \in Cluster : holds[c] = Part(f, k)}

\* Each part of a file's data is in one cluster, in use and of this file alone; the
\* file object, or the closed file's entry, leads to the first, and get_fat from
\* each to the one with the next part, and from the last nowhere.
LinksFollowData ==
    op = Idle =>
      \A f \in File :
        LET o == ObjectOf(f) IN
        /\ o.sclust # 0 => HeldBy(f, 1) = {o.sclust}
        /\ o.sclust = 0 => HeldBy(f, 1) = {}
        /\ \A c \in Cluster : IsOf(c, f) =>
             LET next == HeldBy(f, holds[c].part + 1) IN
             /\ c \in InUse /\ HeldBy(f, holds[c].part) = {c}
             /\ o.n_frag = 0 => IF next = {} THEN GetFat(o, c) = EOC ELSE next = {GetFat(o, c)}

\* The file pointer's cluster is the one that has the data before it, every part of
\* the size has one, and so no call meets an internal error (ff.c:4085, 4656).
PositionsHaveClusters ==
    op = Idle => \A f \in File :
      LET o == ObjectOf(f) IN
      /\ (o.open /\ o.fptr > 0 /\ ~o.err) => holds[o.clust] = Part(f, (o.fptr - 1) \div ClusterSize + 1)
      /\ faults = 0 => ~o.err
      /\ \A k \in 1 .. (o.objsize + ClusterSize - 1) \div ClusterSize : HeldBy(f, k) # {}

\* The count of free clusters never says the volume is full when it is not, and
\* is exact as long as no access has failed.
FreeCountHonest ==
    (op = Idle /\ free_clst <= Total) =>
        /\ free_clst >= Cardinality(FreeClusters)
        /\ faults = 0 => free_clst = Cardinality(FreeClusters)

\* Without a failed access every cluster in use has some file's data.
NothingLost == (op = Idle /\ faults = 0) => \A c \in InUse : holds[c] # Nothing

\* What is in use and what is counted as free is what the files leave: no access
\* that works loses a cluster or its count (ff.c:1435, 1572, 1580).
ClusterAccounts == TypeOK /\ FreeCountHonest /\ NothingLost

\* The clusters with data of f.
Of(h, f) == {c \in Cluster : h[c].file = f}

Apart(f) ==
    \A g \in File \ {f} :
        /\ entry'[g] = entry[g] /\ obj'[g] = obj[g]
        /\ Of(holds', g) = Of(holds, g)
        /\ \A c \in Of(holds, g) : holds'[c] = holds[c] /\ fat'[c] = fat[c]

\* No step writes to the entry, the object, the clusters or the links of more than one
\* file: a cluster that a chain takes is nobody's, and one that is freed no longer
\* anybody's (put_fat at ff.c:1362, 1385, 1421, 1432, 1572).
FilesApart == [][\E f \in File \cup {None} : Apart(f)]_vars

\* Every call returns: no chain leads in a circle and no loop waits for a cluster.
CallsEnd == op # Idle ~> op = Idle
=============================================================================
