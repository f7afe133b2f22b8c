--------------------------- MODULE SectorCacheMC ---------------------------
(***************************************************************************)
(* SectorCache for TLC.  The values are interchangeable.  The view leaves  *)
(* out what neither a later step nor a property of its run reads: `op`,    *)
(* `res` and the old `answer`; and, once a transfer has failed, what the   *)
(* sectors hold, which no guard reads and no property speaks of any more.  *)
(*                                                                         *)
(* No step depends on the number of a slot either, so a state is told from *)
(* another by what the slots of each list hold, in the list's order, and   *)
(* by the place at which a sector is found.                                *)
(***************************************************************************)
EXTENDS SectorCache, TLC

Symmetry == Permutations(Values)

HeldBy(slot) == IF failed THEN Garbage ELSE buffer[slot]

SlotsOf(list) ==
  [k \in 1..Len(list) |-> <<sectorIdx[list[k]], dirty[list[k]], HeldBy(list[k]),
                            activeCacheWindow = list[k]>>]

PlaceOf(lba) == {k \in 1..Len(lruSectors) : lruSectors[k] = cachedSectors[lba]}

SlotsByPlace ==
  <<failed, mount, SlotsOf(freeSectors), SlotsOf(lruSectors),
    [lba \in DOMAIN cachedSectors |-> PlaceOf(lba)],
    pc, first, count, i, f, last, IF failed THEN <<>> ELSE <<disk, data, out>>>>
=============================================================================
