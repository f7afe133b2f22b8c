---------------------------- MODULE SectorCache ----------------------------
(***************************************************************************)
(* The write-back sector cache one FAT drive is read and written through:  *)
(* ffcache.cpp, and the disk_* functions of diskio.c that FatFs calls.     *)
(*                                                                         *)
(* FatFs makes one request at a time.  A request is one action per sector, *)
(* because a sector that finds no free slot evicts another one, and what   *)
(* the raw device is asked to write then depends on the sectors before.    *)
(*                                                                         *)
(* A sectorCache is a slot 1..CacheSize of sectorsBuffer, the fields of    *)
(* which are functions on the slots.  A sector's 512 bytes are one value.  *)
(***************************************************************************)
EXTENDS Integers, FiniteSets, SequencesExt

CONSTANTS NumSectors,  \* of the drive
          CacheSize,   \* fatCacheSizes[pdrv]
          MaxFlush,    \* the 512 of cache_getFlushableRange
          MaxRequest,  \* the longest request FatFs makes, in sectors
          Values,      \* what a sector can hold
          Garbage,     \* what memory nobody has written holds
          IOFaults     \* may the raw device fail?

ASSUME SectorCacheAssumption ==
  /\ NumSectors \in Nat \ {0}
  /\ CacheSize \in Nat \ {0}
  /\ MaxFlush \in Nat \ {0}
  /\ MaxRequest \in Nat \ {0}
  /\ Garbage \notin Values
  /\ IOFaults \in BOOLEAN

LBAs  == 0..(NumSectors - 1)
Slots == 1..CacheSize

NoSector == NumSectors   \* the sector index no request has
NoSlot   == 0            \* &emptySector, where activeCacheWindow starts

VARIABLES
  disk,                     \* what the raw device holds
  failed,                   \* history: a raw transfer may have failed
  fatMounted, initialized,
  freeSectors, lruSectors,  \* sequences of slots; slots leave a list in front
  cachedSectors,            \* sector -> slot
  sectorIdx, dirty, buffer, \* slot -> its fields
  activeCacheWindow,
  pc, op, first, count,     \* the request being served
  i, f, last, data,         \* its loop variables; inputBuff or alignedBuffer
  out, answer,              \* outputBuff; the last answer to a one-sector request
  res                       \* the last request's DRESULT

lists   == <<freeSectors, lruSectors, cachedSectors>>
slots   == <<sectorIdx, dirty, buffer>>
mount   == <<fatMounted, initialized>>
request == <<op, first, count>>
vars == <<disk, failed, mount, lists, slots, activeCacheWindow, pc, request,
          i, f, last, data, out, answer, res>>

Cached(lba) == lba \in DOMAIN cachedSectors

\* What a read of the sector would return: the drive as FatFs sees it.
Contents ==
  [lba \in LBAs |-> IF Cached(lba) THEN buffer[cachedSectors[lba]] ELSE disk[lba]]

-----------------------------------------------------------------------------
(* Flushing and replacing a slot.                                            *)

Dirty(lba) == Cached(lba) /\ dirty[cachedSectors[lba]]

MaxRun == IF MaxFlush < CacheSize THEN MaxFlush ELSE CacheSize

\* cache_getFlushableRange: how many dirty sectors follow each other from lba.
FlushableRange(lba) ==
  CHOOSE n \in 0..MaxRun :
    /\ \A k \in 0..(n - 1) : Dirty(lba + k)
    /\ n = MaxRun \/ ~Dirty(lba + n)

\* The sectors cache_flushSectorRange(slot) writes.
Flushed(slot) ==
  IF dirty[slot]
  THEN LET lba == sectorIdx[slot] IN lba..(lba + FlushableRange(lba) - 1)
  ELSE {}

\* A step with raw transfers, and what may come of each.
Transfer == failed' \in IF IOFaults THEN {failed, TRUE} ELSE {failed}
Faults   == IF failed' THEN {FALSE, TRUE} ELSE {FALSE}

\* Mutant: a run is written with a count of one.
RawWrite_One(lbas) ==
  disk' = [lba \in LBAs |-> IF lba \in lbas /\ lba - 1 \notin lbas
                            THEN buffer[cachedSectors[lba]] ELSE disk[lba]]

\* The raw write: if it fails nobody is told.
RawWrite(lbas) ==
  \E fault \in Faults :
    disk' = [lba \in LBAs |-> IF lba \in lbas /\ ~fault THEN buffer[cachedSectors[lba]]
                             ELSE disk[lba]]

\* Mutant: what was flushed stays dirty.
Cleaned_StaysDirty(lbas) == dirty

Cleaned(lbas) ==
  [s \in Slots |-> dirty[s] /\ \A lba \in lbas : s # cachedSectors[lba]]

\* cache_makeMRU: splice the slot to the end of the list.
ToBack(seq, slot) ==
  LET at == CHOOSE k \in 1..Len(seq) : seq[k] = slot IN
  [k \in 1..Len(seq) |-> IF k < at THEN seq[k]
                         ELSE IF k < Len(seq) THEN seq[k + 1] ELSE slot]

MakeMRU(slot) == lruSectors' = ToBack(lruSectors, slot)

\* Mutant: the sector whose slot is taken stays in the map.
Without_Kept(lba) == cachedSectors

Without(lba) == [k \in DOMAIN cachedSectors \ {lba} |-> cachedSectors[k]]
WithSlot(map, lba, slot) ==
  [k \in DOMAIN map \cup {lba} |-> IF k = lba THEN slot ELSE map[k]]

\* The slot the next sector that is not cached will get.
NextSlot == IF freeSectors # <<>> THEN freeSectors[Len(freeSectors)]
            ELSE Head(lruSectors)

TakeFree(lba, d) ==
  /\ freeSectors # <<>>
  /\ freeSectors' = SubSeq(freeSectors, 1, Len(freeSectors) - 1)
  /\ lruSectors' = Append(lruSectors, NextSlot)
  /\ cachedSectors' = WithSlot(cachedSectors, lba, NextSlot)
  /\ dirty' = [dirty EXCEPT ![NextSlot] = d]
  /\ UNCHANGED disk

TakeOldest(lba, d) ==
  /\ freeSectors = <<>>
  /\ RawWrite(Flushed(NextSlot))
  /\ dirty' = [Cleaned(Flushed(NextSlot)) EXCEPT ![NextSlot] = d]
  /\ cachedSectors' = WithSlot(Without(sectorIdx[NextSlot]), lba, NextSlot)
  /\ MakeMRU(NextSlot)
  /\ UNCHANGED freeSectors

\* cache_getNewUncachedSector, and what its caller puts into the slot.
NewSector(lba, value, d) ==
  /\ TakeFree(lba, d) \/ TakeOldest(lba, d)
  /\ sectorIdx' = [sectorIdx EXCEPT ![NextSlot] = lba]
  /\ buffer' = [buffer EXCEPT ![NextSlot] = value]

-----------------------------------------------------------------------------
(* disk_read, disk_write and ffcache_getSector.                              *)

NoData == [k \in {} |-> Garbage]

Begin(kind, lba, n, next) ==
  /\ pc = "idle"
  /\ fatMounted
  /\ n <= NumSectors - lba
  /\ op' = kind /\ first' = lba /\ count' = n
  /\ pc' = next
  /\ UNCHANGED <<disk, failed, mount, lists, slots, activeCacheWindow, i, f, last, answer, res>>

BeginRead ==
  \E lba \in LBAs, n \in 1..MaxRequest :
    /\ Begin("read", lba, n, "read")
    /\ out' = [k \in 0..(n - 1) |-> Garbage]
    /\ data' = NoData

\* The sector is cached.
ReadHit ==
  /\ pc = "read" /\ i < count /\ Cached(first + i)
  /\ LET slot == cachedSectors[first + i] IN
       /\ out' = [out EXCEPT ![i] = buffer[slot]]
       /\ MakeMRU(slot)
  /\ i' = i + 1
  /\ UNCHANGED <<disk, failed, mount, freeSectors, cachedSectors, slots, activeCacheWindow,
                 pc, request, f, last, data, answer, res>>

\* cache_getUncachedSectorCount
UncachedEnd ==
  CHOOSE k \in (i + 1)..count :
    /\ \A j \in i..(k - 1) : ~Cached(first + j)
    /\ k = count \/ Cached(first + k)

\* It is not: all the remaining sectors are read at once, of which those up to
\* the next cached one will be used.
ReadMiss ==
  /\ pc = "read" /\ i < count /\ ~Cached(first + i)
  /\ Transfer
  /\ \E fault \in Faults :
       data' = [k \in i..(count - 1) |-> IF fault THEN Garbage ELSE disk[first + k]]
  /\ f' = i
  /\ last' = UncachedEnd
  /\ pc' = "fill"
  /\ UNCHANGED <<disk, mount, lists, slots, activeCacheWindow, request, i, out, answer, res>>

\* One of them is put into the cache, and into the output: always at i.
Fill ==
  /\ pc = "fill" /\ f < last
  /\ Transfer
  /\ NewSector(first + f, data[f], FALSE)
  /\ out' = [out EXCEPT ![i] = data[f]]
  /\ f' = f + 1
  /\ UNCHANGED <<mount, activeCacheWindow, pc, request, i, last, data, answer, res>>

FillEnd ==
  /\ pc = "fill" /\ f = last
  /\ i' = last
  /\ pc' = "read"
  /\ UNCHANGED <<disk, failed, mount, lists, slots, activeCacheWindow, request, f, last, data,
                 out, answer, res>>

End(kind) ==
  /\ pc = kind /\ i = count
  /\ res' = "RES_OK"
  /\ pc' = "idle"
  /\ first' = 0 /\ count' = 0 /\ i' = 0 /\ f' = 0 /\ last' = 0
  /\ data' = NoData /\ out' = NoData
  /\ UNCHANGED <<disk, failed, mount, lists, slots, activeCacheWindow, op>>

EndRead ==
  /\ End("read")
  /\ answer' = IF count = 1 THEN <<first, out[0]>> ELSE answer

BeginWrite ==
  \E lba \in LBAs, n \in 1..MaxRequest :
    /\ Begin("write", lba, n, "write")
    /\ data' \in [0..(n - 1) -> Values]
    /\ out' = NoData

\* Mutant: a sector written in the cache is not marked dirty.
WriteHit_Clean ==
  /\ Cached(first + i)
  /\ buffer' = [buffer EXCEPT ![cachedSectors[first + i]] = data[i]]
  /\ UNCHANGED <<disk, failed, lists, sectorIdx, dirty>>

\* A cached sector keeps its place in the LRU list.
WriteHit ==
  /\ Cached(first + i)
  /\ LET slot == cachedSectors[first + i] IN
       /\ buffer' = [buffer EXCEPT ![slot] = data[i]]
       /\ dirty' = [dirty EXCEPT ![slot] = TRUE]
  /\ UNCHANGED <<disk, failed, lists, sectorIdx>>

WriteMiss ==
  /\ ~Cached(first + i)
  /\ Transfer
  /\ NewSector(first + i, data[i], TRUE)

WriteSector ==
  /\ pc = "write" /\ i < count
  /\ WriteHit \/ WriteMiss
  /\ i' = i + 1
  /\ UNCHANGED <<mount, activeCacheWindow, pc, request, f, last, data, out, answer, res>>

EndWrite == End("write") /\ UNCHANGED answer

\* dir_scan copies the buffer it gets and never writes to it.
Got(lba, value) ==
  /\ answer' = <<lba, value>>
  /\ op' = "getSector"
  /\ res' = "RES_OK"
  /\ UNCHANGED <<mount, pc, first, count, i, f, last, data, out>>

Showing(lba) == activeCacheWindow # NoSlot /\ sectorIdx[activeCacheWindow] = lba

\* ffcache_getSector of a cached sector, which the window may already show.
GetCached(lba) ==
  /\ Showing(lba) \/ Cached(lba)
  /\ LET slot == IF Showing(lba) THEN activeCacheWindow ELSE cachedSectors[lba] IN
       /\ MakeMRU(slot)
       /\ activeCacheWindow' = slot
       /\ dirty' = [dirty EXCEPT ![slot] = TRUE]
       /\ Got(lba, buffer[slot])
  /\ UNCHANGED <<disk, failed, freeSectors, cachedSectors, sectorIdx, buffer>>

\* If the raw read fails, the slot keeps what it held for another sector.
GetUncached(lba) ==
  /\ ~Showing(lba) /\ ~Cached(lba)
  /\ Transfer
  /\ \E fault \in Faults :
       LET value == IF fault THEN buffer[NextSlot] ELSE disk[lba] IN
       /\ NewSector(lba, value, TRUE)
       /\ Got(lba, value)
  /\ activeCacheWindow' = NextSlot

GetSector ==
  /\ pc = "idle" /\ fatMounted
  /\ \E lba \in LBAs : GetCached(lba) \/ GetUncached(lba)

-----------------------------------------------------------------------------
(* disk_ioctl, disk_initialize, disk_shutdown.                               *)

\* CTRL_SYNC and CTRL_FORCE_SYNC: the flush is commented out.
Sync ==
  /\ pc = "idle" /\ fatMounted
  /\ op' = "sync"
  /\ res' = "RES_OK"
  /\ UNCHANGED <<disk, failed, mount, lists, slots, activeCacheWindow, pc, first, count,
                 i, f, last, data, out, answer>>

NotReady ==
  /\ pc = "idle" /\ ~fatMounted
  /\ op' \in {"read", "write", "sync"}
  /\ res' = "RES_NOTRDY"
  /\ UNCHANGED <<disk, failed, mount, lists, slots, activeCacheWindow, pc, first, count,
                 i, f, last, data, out, answer>>

\* ffcache_initialize refuses to run twice and nobody asks what it returned,
\* then wiiu_mountDrive opens the raw device, or does not.
Initialize ==
  /\ pc = "idle" /\ ~fatMounted
  /\ fatMounted' \in BOOLEAN
  /\ IF initialized
     THEN UNCHANGED <<initialized, lists, slots>>
     ELSE /\ initialized' = TRUE
          /\ freeSectors' = [s \in Slots |-> s]
          /\ UNCHANGED <<lruSectors, cachedSectors, slots>>
  /\ UNCHANGED <<disk, failed, activeCacheWindow, pc, request, i, f, last, data, out, answer,
                 res>>

\* disk_shutdown, of a drive that may not have been mounted: first
\* ffcache_flushSectors, which empties the LRU list ...
BeginShutdown ==
  /\ pc = "idle" /\ initialized
  /\ pc' = "flush"
  /\ UNCHANGED <<disk, failed, mount, lists, slots, activeCacheWindow, request, i, f, last, data,
                 out, answer, res>>

FlushOldest ==
  /\ pc = "flush" /\ lruSectors # <<>>
  /\ Transfer
  /\ LET slot == Head(lruSectors) IN
       /\ RawWrite(Flushed(slot))
       /\ dirty' = Cleaned(Flushed(slot))
       /\ cachedSectors' = Without(sectorIdx[slot])
       /\ freeSectors' = Append(freeSectors, slot)
  /\ lruSectors' = Tail(lruSectors)
  /\ UNCHANGED <<mount, sectorIdx, buffer, activeCacheWindow, pc, request, i, f, last,
                 data, out, answer, res>>

\* ... then the slots are freed, and the raw device is closed.
EndShutdown ==
  /\ pc = "flush" /\ lruSectors = <<>>
  /\ freeSectors' = <<>>
  /\ initialized' = FALSE /\ fatMounted' = FALSE
  /\ pc' = "down"
  /\ UNCHANGED <<disk, failed, lruSectors, cachedSectors, slots, activeCacheWindow, request,
                 i, f, last, data, out, answer, res>>

-----------------------------------------------------------------------------
Init ==
  /\ disk \in [LBAs -> Values] /\ failed = FALSE
  /\ fatMounted = FALSE /\ initialized = FALSE
  /\ freeSectors = <<>> /\ lruSectors = <<>>
  /\ cachedSectors = NoData
  /\ sectorIdx = [s \in Slots |-> NoSector]
  /\ dirty = [s \in Slots |-> FALSE]
  /\ buffer = [s \in Slots |-> Garbage]
  /\ activeCacheWindow = NoSlot
  /\ pc = "idle" /\ op = "none" /\ first = 0 /\ count = 0
  /\ i = 0 /\ f = 0 /\ last = 0
  /\ data = NoData /\ out = NoData
  /\ answer = <<>>
  /\ res = "RES_OK"

Next ==
  \/ BeginRead \/ ReadHit \/ ReadMiss \/ Fill \/ FillEnd \/ EndRead
  \/ BeginWrite \/ WriteSector \/ EndWrite
  \/ GetSector \/ Sync \/ NotReady
  \/ Initialize \/ BeginShutdown \/ FlushOldest \/ EndShutdown

Spec == Init /\ [][Next]_vars

-----------------------------------------------------------------------------
\* The types.  Both lists together never hold more entries than there are slots,
\* and garbage a failed read has left in a slot may reach the disk.
TypeOK ==
  /\ disk \in [LBAs -> Values \cup {Garbage}] /\ failed \in BOOLEAN
  /\ fatMounted \in BOOLEAN /\ initialized \in BOOLEAN
  /\ freeSectors \in Seq(Slots) /\ lruSectors \in Seq(Slots)
  /\ Len(freeSectors) + Len(lruSectors) <= CacheSize
  /\ DOMAIN cachedSectors \subseteq LBAs
  /\ \A lba \in DOMAIN cachedSectors : cachedSectors[lba] \in Slots
  /\ sectorIdx \in [Slots -> LBAs \cup {NoSector}]
  /\ dirty \in [Slots -> BOOLEAN]
  /\ buffer \in [Slots -> Values \cup {Garbage}]
  /\ activeCacheWindow \in Slots \cup {NoSlot}
  /\ pc \in {"idle", "read", "fill", "write", "flush", "down"}
  /\ op \in {"none", "read", "write", "getSector", "sync"}
  /\ first \in LBAs /\ count \in 0..MaxRequest
  /\ first + count <= NumSectors
  /\ i \in 0..count /\ f \in 0..count /\ last \in 0..count
  /\ DOMAIN data \subseteq 0..(count - 1) /\ DOMAIN out \subseteq 0..(count - 1)
  /\ \A k \in DOMAIN data : data[k] \in Values \cup {Garbage}
  /\ \A k \in DOMAIN out : out[k] \in Values \cup {Garbage}
  /\ answer \in {<<>>} \cup (LBAs \X (Values \cup {Garbage}))
  /\ res \in {"RES_OK", "RES_NOTRDY"}

\* No slot is lost, none is in both lists or twice in one: sectors move between
\* freeSectors and lruSectors in five places of ffcache.cpp.
SlotsPartitioned ==
  initialized =>
    /\ ToSet(freeSectors) \cup ToSet(lruSectors) = Slots
    /\ ToSet(freeSectors) \cap ToSet(lruSectors) = {}
    /\ Cardinality(ToSet(freeSectors)) = Len(freeSectors)
    /\ Cardinality(ToSet(lruSectors)) = Len(lruSectors)

\* cachedSectors and the sectorIdx of the slots in use are each other's inverse,
\* so no sector has two copies and no slot is found under an old name.
Indexed ==
  /\ \A lba \in DOMAIN cachedSectors :
       cachedSectors[lba] \in ToSet(lruSectors) /\ sectorIdx[cachedSectors[lba]] = lba
  /\ \A slot \in ToSet(lruSectors) :
       Cached(sectorIdx[slot]) /\ cachedSectors[sectorIdx[slot]] = slot

\* "[ffcache] There shouldn't be a zero here?!": a slot that is dirty, in use or
\* not, is found under its sector, so cache_flushSectorRange never gives up.
NoZeroFlush == \A s \in Slots : dirty[s] => FlushableRange(sectorIdx[s]) # 0

\* activeCacheWindow is kept across requests that evict, yet until the shutdown
\* it is a slot in use: with Indexed, the one a search would find.
WindowIsCached ==
  (activeCacheWindow # NoSlot /\ pc \notin {"flush", "down"})
    => activeCacheWindow \in ToSet(lruSectors)

\* The lists, the map, the window and the slots agree with each other, through
\* failing transfers, failing mounts and the shutdown.
CacheIsConsistent == TypeOK /\ SlotsPartitioned /\ Indexed /\ WindowIsCached

CleanSlots ==
  \A lba \in DOMAIN cachedSectors :
    ~dirty[cachedSectors[lba]] => disk[lba] = buffer[cachedSectors[lba]]

\* Until a raw transfer fails, a slot that is not dirty, and will be replaced without
\* a write, holds what the disk holds; a run flushed for one sector marks its
\* neighbours clean as well.
CleanIsOnDisk == failed \/ CleanSlots

Store == INSTANCE SectorStore WITH contents <- Contents, answer <- answer, failed <- failed

\* As far as requests for one sector go, the drive with the cache is the block
\* device diskio.h describes, whatever longer requests come between them, until a
\* raw transfer fails.
IsStore == Store!Spec

\* A read of several sectors returns what each of them holds.
ReadsReturnContents ==
  (pc = "read" /\ i = count) => \A k \in 0..(count - 1) : out[k] = Contents[first + k]

\* CTRL_SYNC answers RES_OK when the disk holds every write made before it:
\* diskio.h, "Complete pending write process".
SyncCompletesWrites ==
  (pc = "idle" /\ op = "sync" /\ res = "RES_OK") => disk = Contents
=============================================================================
