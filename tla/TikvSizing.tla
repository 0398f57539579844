------------------------------ MODULE TikvSizing ------------------------------
(***************************************************************************)
(* The TiKV settings the provider adds to a user's configuration             *)
(* (tikv_sizing.go): on a small memory limit TiKV's caches are sized from     *)
(* what its runtime leaves, on a small volume TiKV reserves less disk.        *)
(*                                                                           *)
(* Memory limits and volumes are in KiB, settings in MiB as the file has      *)
(* them. What the code computes from bytes is the same: the reserve is whole  *)
(* MiB, and rounding a limit down to KiB first changes no whole number of     *)
(* MiB. A limit or volume that is not given is 0.                             *)
(***************************************************************************)
EXTENDS Integers

Mib == 1024
Gib == 1024 * Mib

RuntimeReserve == 2560 * Mib
MinMemory == 4 * Gib
MemorySizingThreshold == 8 * Gib
ReserveSpaceThreshold == 100 * Gib

SizesMemory(limit) == limit >= MinMemory /\ limit < MemorySizingThreshold
SizesDisk(volume) == volume # 0 /\ volume < ReserveSpaceThreshold

(* Mutant: the caches are sized from the whole limit.                         *)
RemainderOfAll(limit) == limit \div Mib
Remainder(limit) == (limit - RuntimeReserve) \div Mib

BlockCache(limit) == (Remainder(limit) * 45) \div 100
WriteBufferLimit(limit) == (Remainder(limit) * 15) \div 100
UsageLimit(limit) == RuntimeReserve \div Mib + (Remainder(limit) * 75) \div 100

TiKVOwn == [cache |-> 0, buffers |-> 0, usage |-> 0]

(* A user who sets one of the memory settings sets all of them (tikvMemoryKeys). *)
MemoryConfig(user, limit) ==
    IF SizesMemory(limit) /\ "memory" \notin user
    THEN [cache |-> BlockCache(limit), buffers |-> WriteBufferLimit(limit), usage |-> UsageLimit(limit)]
    ELSE TiKVOwn

(* user: which of the settings the user's own configuration has.              *)
TikvConfig(user, limit, volume) ==
    [memory |-> MemoryConfig(user, limit),
     smallReserve |-> SizesDisk(volume) /\ "reserve-space" \notin user]

(* What the memory settings are for: TiKV, full caches and runtime included,  *)
(* stays below the limit TiKV itself enforces, and that below the pod's.       *)
Fits(memory, limit) ==
    memory = TiKVOwn \/
    /\ memory.cache > 0 /\ memory.buffers > 0
    /\ (memory.cache + memory.buffers) * Mib + RuntimeReserve <= memory.usage * Mib
    /\ memory.usage * Mib < limit
=============================================================================
