-------------------------- MODULE InstanceSyncProofs --------------------------
(***************************************************************************)
(* Proofs about InstanceSync, for any set of specs and any edits, failures   *)
(* and rollouts. What validation concluded from the groups must survive the   *)
(* pass that rewrites them one by one, so the invariant keeps the verdict: the *)
(* spec last let through stays acceptable to the groups as they become it.    *)
(***************************************************************************)
EXTENDS InstanceSync, TLAPS

-----------------------------------------------------------------------------
(* What the settings of TikvSizing promise for every memory limit.            *)

(* Whatever the limit, the settings the provider adds leave TiKV's runtime its *)
(* memory next to full caches, and the pod a margin (tikvConfig).             *)
THEOREM SizedMemoryFits ==
    ASSUME NEW limit \in Nat, NEW user
    PROVE Fits(MemoryConfig(user, limit), limit)
<1>1. CASE ~(SizesMemory(limit) /\ "memory" \notin user)
    BY <1>1 DEF Fits, MemoryConfig
<1>2. CASE SizesMemory(limit) /\ "memory" \notin user
    <2> DEFINE rest == Remainder(limit)
    <2>1. rest \in Int /\ rest >= 1536 /\ rest * Mib <= limit - RuntimeReserve
        BY <1>2 DEF SizesMemory, Remainder, RuntimeReserve, MinMemory, MemorySizingThreshold, Mib, Gib
    <2>2. BlockCache(limit) > 0 /\ WriteBufferLimit(limit) > 0
        BY <2>1 DEF BlockCache, WriteBufferLimit
    <2>3. /\ 100 * BlockCache(limit) <= rest * 45
          /\ 100 * WriteBufferLimit(limit) <= rest * 15
          /\ rest * 75 < 100 * (UsageLimit(limit) - 2560) + 100
          /\ 100 * (UsageLimit(limit) - 2560) <= rest * 75
          /\ BlockCache(limit) \in Int /\ WriteBufferLimit(limit) \in Int /\ UsageLimit(limit) \in Int
        BY <2>1 DEF BlockCache, WriteBufferLimit, UsageLimit, RuntimeReserve, Mib
    <2>4. BlockCache(limit) + WriteBufferLimit(limit) + 2560 <= UsageLimit(limit)
        BY <2>1, <2>3
    <2>5. UsageLimit(limit) - 2560 < rest
        BY <2>1, <2>3
    <2>6. QED
        BY <1>2, <2>1, <2>2, <2>3, <2>4, <2>5
        DEF Fits, MemoryConfig, RuntimeReserve, Mib
<1>3. QED BY <1>1, <1>2

(* A larger limit never gets smaller settings as long as the provider sizes    *)
(* them: adding memory cannot shrink a cache (tikvConfig, below the            *)
(* threshold).                                                                *)
THEOREM SizingIsMonotone ==
    ASSUME NEW a \in Nat, NEW b \in Nat, a <= b, SizesMemory(a), SizesMemory(b)
    PROVE /\ BlockCache(a) <= BlockCache(b)
          /\ WriteBufferLimit(a) <= WriteBufferLimit(b)
          /\ UsageLimit(a) <= UsageLimit(b)
<1>1. Remainder(a) \in Int /\ Remainder(b) \in Int /\ Remainder(a) <= Remainder(b)
    BY DEF Remainder, RuntimeReserve, Mib
<1>2. QED BY <1>1 DEF BlockCache, WriteBufferLimit, UsageLimit, RuntimeReserve, Mib

(* From the threshold on TiKV's own block cache of 45% leaves room for its     *)
(* runtime, as the comment of tikvMemorySizingThreshold has it.               *)
THEOREM OwnCacheLeavesRoom ==
    ASSUME NEW limit \in Nat, limit >= MemorySizingThreshold
    PROVE (limit * 45) \div 100 + RuntimeReserve < limit
BY DEF MemorySizingThreshold, RuntimeReserve, Mib, Gib

-----------------------------------------------------------------------------
(* What the passes keep.                                                      *)

(* A pass works for the spec last let through.                                *)
PassOfSynced == pass.at # 0 => synced = {pass.spec}

(* The groups do not rule out the spec last let through.                      *)
VerdictHolds == ~misjudged => \A s \in synced : ValidateTiDB(s, group)

(* No member is ahead of its group.                                           *)
MembersFollow == ~misjudged => \A c \in Components : Running(c) => member[c].ver <= group[c].told.ver

(* Members only run in groups that exist.                                     *)
MembersInGroups == \A c \in Components : Running(c) => group[c].there

(* Unless the copies were edited, everyone agrees on them.                     *)
CopiesAgree ==
    ~edited =>
        /\ \A s \in synced : s.copies = spec.copies
        /\ group["pd"].there => group["pd"].told.copies = spec.copies
        /\ kept # 0 => kept = spec.copies

(* TiKV only shrinks to what the spec's copies need.                           *)
ScaleInFits ==
    ~misjudged /\ ~edited /\ Running("tikv") /\ group["tikv"].told.stores < member["tikv"].stores
        => group["tikv"].told.stores >= spec.copies

SyncInv ==
    /\ TypeOK /\ PassOfSynced /\ VerdictHolds /\ MembersFollow /\ MembersInGroups
    /\ CopiesAgree /\ ScaleInFits /\ ConfigFitsMemory

LEMMA Names ==
    /\ "pd" \in Components /\ "tikv" \in Components /\ Core \subseteq Components
    /\ Stateful \subseteq Components /\ Core \cap Optional = {}
BY DEF Components, Core, Optional, Stateful

LEMMA StepsLen == Len(Steps) = 6
BY DEF Steps

LEMMA ConfigTyped ==
    ASSUME NEW user, NEW limit \in Nat, NEW volume \in Nat
    PROVE TikvConfig(user, limit, volume)
              \in [memory : [cache : Int, buffers : Int, usage : Int], smallReserve : BOOLEAN]
<1>1. /\ BlockCache(limit) \in Int /\ WriteBufferLimit(limit) \in Int /\ UsageLimit(limit) \in Int
  BY DEF BlockCache, WriteBufferLimit, UsageLimit, Remainder, RuntimeReserve, Mib
<1>2. MemoryConfig(user, limit) \in [cache : Int, buffers : Int, usage : Int]
  BY <1>1 DEF MemoryConfig, TiKVOwn
<1>3. QED
  BY <1>2 DEF TikvConfig, SizesDisk

LEMMA ToldTyped ==
    ASSUME NEW c \in Components, NEW s \in UserSpec, NEW wait \in BOOLEAN
    PROVE Told(c, s, wait) \in Orders
<1>1. /\ s.ver[c] \in Nat /\ s.stores \in Nat /\ s.copies \in Nat /\ s.limit \in Nat
      /\ c \in Stateful => s.size[c] \in Nat
  BY DEF UserSpec
<1>2. TikvConfig({}, 0, 0) \in [memory : [cache : Int, buffers : Int, usage : Int], smallReserve : BOOLEAN]
  BY ConfigTyped
<1>3. c = "tikv" => TikvConfig(s.user, s.limit, s.size[c])
                      \in [memory : [cache : Int, buffers : Int, usage : Int], smallReserve : BOOLEAN]
  BY <1>1, ConfigTyped DEF Stateful
<1>4. QED
  BY <1>1, <1>2, <1>3 DEF Told, Orders

LEMMA NoGroupTyped == NoGroup \in [there : BOOLEAN, going : BOOLEAN, told : Orders]
<1>1. TikvConfig({}, 0, 0) \in [memory : [cache : Int, buffers : Int, usage : Int], smallReserve : BOOLEAN]
  BY ConfigTyped
<1>2. QED
  BY <1>1 DEF NoGroup, NoOrder, Orders

(* What the groups are told is what validation looks at.                      *)
LEMMA ToldFields ==
    ASSUME NEW c \in Components, NEW s \in UserSpec, NEW wait \in BOOLEAN
    PROVE /\ Told(c, s, wait).ver = s.ver[c]
          /\ c = "tikv" => Told(c, s, wait).stores = s.stores /\ Told(c, s, wait).limit = s.limit
          /\ c = "pd" => Told(c, s, wait).copies = s.copies
          /\ c \in Stateful => Told(c, s, wait).size = s.size[c]
BY DEF Told

LEMMA ToldFits ==
    ASSUME NEW s \in UserSpec, NEW wait \in BOOLEAN
    PROVE Fits(Told("tikv", s, wait).config.memory, Told("tikv", s, wait).limit)
<1>1. s.limit \in Nat
  BY DEF UserSpec
<1>2. Fits(MemoryConfig(s.user, s.limit), s.limit)
  BY <1>1, SizedMemoryFits
<1>3. Told("tikv", s, wait).config.memory = MemoryConfig(s.user, s.limit) /\ Told("tikv", s, wait).limit = s.limit
  BY DEF Told, TikvConfig
<1>4. QED
  BY <1>2, <1>3

LEMMA SyncInvInit == Init => SyncInv
<1> SUFFICES ASSUME Init PROVE SyncInv
    OBVIOUS
<1>1. scenario \in Scenarios /\ spec \in UserSpec
  BY ScenarioAssumption DEF Init
<1>2. \A c \in Components : Told(c, spec, FALSE) \in Orders
  BY <1>1, ToldTyped
<1>3. group \in Groups
  BY <1>2, NoGroupTyped DEF Init, Groups, Group
<1>4. /\ \A c \in Components :
           group[c] = IF scenario.legacy /\ c \in Core \cup spec.on THEN Group(Told(c, spec, FALSE)) ELSE NoGroup
      /\ \A c \in Components :
           member[c] = IF group[c].there THEN [ver |-> spec.ver[c], stores |-> group[c].told.stores] ELSE NoMembers
  BY DEF Init
<1>5. \A c \in Components :
        /\ ~group[c].going
        /\ group[c].there => group[c].told = Told(c, spec, FALSE)
  <2> SUFFICES ASSUME NEW c \in Components
               PROVE ~group[c].going /\ (group[c].there => group[c].told = Told(c, spec, FALSE))
    OBVIOUS
  <2>1. CASE scenario.legacy /\ c \in Core \cup spec.on
    <3>1. group[c] = Group(Told(c, spec, FALSE))
      BY <1>4, <2>1
    <3>2. QED
      BY <3>1 DEF Group
  <2>2. CASE ~(scenario.legacy /\ c \in Core \cup spec.on)
    <3>1. group[c] = NoGroup
      BY <1>4, <2>2
    <3>2. QED
      BY <3>1 DEF NoGroup
  <2>3. QED
    BY <2>1, <2>2
<1>6. member \in [Components -> [ver : Nat, stores : Nat]] /\ kept \in Nat
  <2>1. \A c \in Components : spec.ver[c] \in Nat /\ group[c].told.stores \in Nat
    BY <1>1, <1>3 DEF UserSpec, Groups, Orders
  <2>2. kept \in Nat
    BY <1>1 DEF Init, UserSpec
  <2>3. QED
    BY <2>1, <2>2 DEF Init, NoMembers
<1>7. TypeOK
  BY <1>1, <1>3, <1>5, <1>6 DEF Init, TypeOK, NoPass, Core, Optional, Components
<1>8. PassOfSynced /\ VerdictHolds
  BY DEF Init, NoPass, PassOfSynced, VerdictHolds
<1>9. \A c \in Components : Running(c) => group[c].there /\ member[c].ver = spec.ver[c]
  <2> SUFFICES ASSUME NEW c \in Components, Running(c)
               PROVE group[c].there /\ member[c].ver = spec.ver[c]
    OBVIOUS
  <2>1. CASE group[c].there
    <3>1. member[c] = [ver |-> spec.ver[c], stores |-> group[c].told.stores]
      BY <1>4, <2>1
    <3>2. QED
      BY <2>1, <3>1
  <2>2. CASE ~group[c].there
    <3>1. member[c] = NoMembers
      BY <1>4, <2>2
    <3>2. QED
      BY <3>1 DEF Running, NoMembers
  <2>3. QED
    BY <2>1, <2>2
<1>10. MembersFollow /\ MembersInGroups
  <2>1. ASSUME NEW c \in Components, Running(c) PROVE member[c].ver = group[c].told.ver
    <3>1. group[c].told = Told(c, spec, FALSE) /\ member[c].ver = spec.ver[c]
      BY <1>5, <1>9, <2>1
    <3>2. Told(c, spec, FALSE).ver = spec.ver[c]
      BY <1>1, ToldFields
    <3>3. QED
      BY <3>1, <3>2
  <2>2. \A c \in Components : member[c].ver \in Nat
    BY <1>6
  <2>3. QED
    BY <1>9, <2>1, <2>2 DEF MembersFollow, MembersInGroups
<1>11. CopiesAgree
  <2>1. Told("pd", spec, FALSE).copies = spec.copies
    BY <1>1, Names, ToldFields
  <2>2. group["pd"].there => group["pd"].told.copies = spec.copies
    BY <1>5, <2>1, Names
  <2>3. (kept # 0 => kept = spec.copies) /\ synced = {}
    BY DEF Init
  <2>4. QED
    BY <2>2, <2>3 DEF CopiesAgree
<1>12. ScaleInFits
  <2>1. Running("tikv") => member["tikv"].stores = group["tikv"].told.stores
    <3> SUFFICES ASSUME Running("tikv") PROVE member["tikv"].stores = group["tikv"].told.stores
      OBVIOUS
    <3>1. group["tikv"].there
      BY <1>9, Names
    <3>2. member["tikv"] = [ver |-> spec.ver["tikv"], stores |-> group["tikv"].told.stores]
      BY <1>4, <3>1, Names
    <3>3. QED
      BY <3>2
  <2>2. group["tikv"].told.stores \in Nat
    BY <1>3 DEF Groups, Orders, Components, Core
  <2>3. QED
    BY <2>1, <2>2 DEF ScaleInFits
<1>13. ConfigFitsMemory
  BY <1>1, <1>5, ToldFits DEF ConfigFitsMemory, Components, Core
<1>14. QED
  BY <1>7, <1>8, <1>10, <1>11, <1>12, <1>13 DEF SyncInv

(* Validation only grows milder as groups become what the spec asks for, or go. *)
LEMMA VerdictCarries ==
    ASSUME NEW s \in UserSpec, NEW g, NEW h, ValidateTiDB(s, g), g["tikv"].there => h["tikv"].there,
           \A c \in Components : h[c].there =>
               \/ g[c].there /\ h[c].told = g[c].told
               \/ \E wait \in BOOLEAN : h[c].told = Told(c, s, wait)
    PROVE  ValidateTiDB(s, h)
<1>1. ASSUME NEW c \in Components, h[c].there, g[c].there => s.ver[c] >= g[c].told.ver
      PROVE s.ver[c] >= h[c].told.ver
  <2>1. CASE g[c].there /\ h[c].told = g[c].told
    BY <1>1, <2>1
  <2>2. ASSUME NEW wait \in BOOLEAN, h[c].told = Told(c, s, wait) PROVE s.ver[c] >= h[c].told.ver
    <3>1. s.ver[c] \in Nat
      BY DEF UserSpec
    <3>2. QED
      BY <2>2, <3>1, ToldFields
  <2>3. QED
    BY <1>1, <2>1, <2>2
<1>2. CheckNoDowngrade(s, h)
  BY <1>1, Names DEF ValidateTiDB, CheckNoDowngrade, Targets, Components, Optional
<1>3. ValidateTiKVScaleIn(s, h) /\ ValidateTiKVMemory(s, h)
  <2>1. CASE h["tikv"].there /\ g["tikv"].there /\ h["tikv"].told = g["tikv"].told
    BY <2>1 DEF ValidateTiDB, ValidateTiKVScaleIn, ValidateTiKVMemory
  <2>2. ASSUME NEW wait \in BOOLEAN, h["tikv"].there, h["tikv"].told = Told("tikv", s, wait)
        PROVE ValidateTiKVScaleIn(s, h) /\ ValidateTiKVMemory(s, h)
    <3>1. s.stores \in Nat
      BY DEF UserSpec
    <3>2. h["tikv"].told.stores = s.stores /\ h["tikv"].told.limit = s.limit
      BY <2>2, ToldFields, Names
    <3>3. QED
      BY <2>2, <3>1, <3>2 DEF ValidateTiKVScaleIn, ValidateTiKVMemory
  <2>3. CASE ~h["tikv"].there
    <3>1. s.limit = 0 \/ s.limit >= MinMemory \/ g["tikv"].there
      BY DEF ValidateTiDB, ValidateTiKVMemory
    <3>2. QED
      BY <2>3, <3>1 DEF ValidateTiKVScaleIn, ValidateTiKVMemory
  <2>4. QED
    BY <2>1, <2>2, <2>3, Names
<1>4. ValidateStorage(s, h)
  <2> SUFFICES ASSUME NEW c \in Stateful \ (Optional \ s.on), h[c].there
               PROVE s.size[c] >= h[c].told.size
    BY DEF ValidateStorage
  <2>1. CASE g[c].there /\ h[c].told = g[c].told
    BY <2>1 DEF ValidateTiDB, ValidateStorage
  <2>2. ASSUME NEW wait \in BOOLEAN, h[c].told = Told(c, s, wait) PROVE s.size[c] >= h[c].told.size
    <3>1. s.size[c] \in Nat
      BY DEF UserSpec
    <3>2. QED
      BY <2>2, <3>1, ToldFields, Names
  <2>3. QED
    BY <2>1, <2>2, Names
<1>5. QED
  BY <1>2, <1>3, <1>4 DEF ValidateTiDB

(* The verdict of the next state, where only the groups change.                *)
LEMMA VerdictAfter ==
    ASSUME NEW s, scenario' = scenario
    PROVE  ValidateTiDB(s, group)' <=> ValidateTiDB(s, group')
BY DEF ValidateTiDB, CheckUpgradeOrder, CheckNoDowngrade, ValidateTiKVScaleIn, ValidateTiKVMemory,
       ValidateMonitoring, ValidateStorage, Targets

(* A pass begins with a spec the groups do not rule out, or is a misjudgement.  *)
LEMMA StartKeeps == SyncInv /\ StartPass => SyncInv'
<1> SUFFICES ASSUME SyncInv, StartPass PROVE SyncInv'
    OBVIOUS
<1> USE DEF SyncInv
<1>1. /\ UNCHANGED <<scenario, spec, group, member, kept, scrape, seen, edited>>
      /\ pass' = [at |-> 1, spec |-> spec] /\ synced' = {spec} /\ queued' = FALSE
      /\ misjudged' = (misjudged \/ ~ValidateTiDB(spec, group))
  BY DEF StartPass, cluster
<1>2. TypeOK'
  <2>1. misjudged' \in BOOLEAN
    BY <1>1
  <2>2. pass' \in [at : 1..Len(Steps), spec : UserSpec] /\ synced' \subseteq UserSpec
    BY <1>1, StepsLen DEF TypeOK
  <2>3. QED
    BY <1>1, <2>1, <2>2 DEF TypeOK
<1>3. PassOfSynced'
  BY <1>1 DEF PassOfSynced
<1>4. VerdictHolds'
  <2>1. ValidateTiDB(spec, group)' <=> ValidateTiDB(spec, group)
    BY <1>1 DEF ValidateTiDB, CheckUpgradeOrder, CheckNoDowngrade, ValidateTiKVScaleIn, ValidateTiKVMemory,
              ValidateMonitoring, ValidateStorage, Targets
  <2>2. QED
    BY <1>1 DEF VerdictHolds, ValidateTiDB, CheckUpgradeOrder, CheckNoDowngrade, ValidateTiKVScaleIn,
              ValidateTiKVMemory, ValidateMonitoring, ValidateStorage, Targets
<1>5. MembersFollow' /\ MembersInGroups' /\ ConfigFitsMemory'
  BY <1>1 DEF MembersFollow, MembersInGroups, ConfigFitsMemory, Running
<1>6. CopiesAgree' /\ ScaleInFits'
  BY <1>1 DEF CopiesAgree, ScaleInFits, Running
<1>7. QED
  BY <1>2, <1>3, <1>4, <1>5, <1>6

(* What a pass tells a group is never behind what the group was told.          *)
LEMMA ToldOnward ==
    ASSUME SyncInv, ~misjudged, pass.at # 0, NEW c \in Components, c \in Core \cup pass.spec.on,
           group[c].there, NEW wait \in BOOLEAN
    PROVE  /\ Told(c, pass.spec, wait).ver >= group[c].told.ver
           /\ c \in Stateful => Told(c, pass.spec, wait).size >= group[c].told.size
<1>1. pass.spec \in UserSpec /\ ValidateTiDB(pass.spec, group)
  BY DEF SyncInv, TypeOK, PassOfSynced, VerdictHolds, NoPass
<1>2. pass.spec.ver[c] >= group[c].told.ver
  BY <1>1 DEF ValidateTiDB, CheckNoDowngrade, Targets, Components, Optional
<1>3. c \in Stateful => pass.spec.size[c] >= group[c].told.size
  BY <1>1 DEF ValidateTiDB, ValidateStorage, Optional, Core
<1>4. QED
  BY <1>1, <1>2, <1>3, ToldFields

LEMMA SyncGroupEffect ==
    ASSUME SyncInv, NEW c \in Components, SyncGroup(c)
    PROVE  /\ \A b \in Components \ {c} : group'[b] = group[b]
           /\ group' \in Groups /\ \A b \in Core : ~group'[b].going
           /\ \A b \in Components : group[b].there => group'[b].there
           /\ pass.at # 0 /\ pass.spec \in UserSpec /\ synced = {pass.spec}
           /\ \/ group'[c].there = group[c].there /\ group'[c].told = group[c].told
              \/ /\ c \in Core \cup pass.spec.on
                 /\ \E wait \in BOOLEAN : group'[c].told = Told(c, pass.spec, wait)
<1>1. pass.at # 0
  BY DEF SyncGroup, At
<1>2. pass.spec \in UserSpec /\ synced = {pass.spec} /\ group \in Groups /\ \A b \in Core : ~group[b].going
  BY <1>1 DEF SyncInv, TypeOK, PassOfSynced, NoPass
<1>3. (c = "pd" /\ Wait) \in BOOLEAN
  <2>1. seen \in Groups
    BY DEF SyncInv, TypeOK
  <2>2. QED
    OBVIOUS
<1>4. CASE Apply(c) /\ c \in Core \cup pass.spec.on
  <2>1. PICK wait \in BOOLEAN : group' = [group EXCEPT ![c] = [there |-> TRUE, going |-> group[c].going, told |-> Told(c, pass.spec, wait)]]
    BY <1>3, <1>4 DEF Apply
  <2>2. Told(c, pass.spec, wait) \in Orders
    BY <1>2, ToldTyped
  <2>3. group'[c] = [there |-> TRUE, going |-> group[c].going, told |-> Told(c, pass.spec, wait)]
    BY <1>2, <2>1 DEF Groups
  <2>4. group' \in Groups
    BY <1>2, <2>1, <2>2 DEF Groups
  <2>5. \A b \in Components \ {c} : group'[b] = group[b]
    BY <1>2, <2>1 DEF Groups
  <2>6. \A b \in Core : ~group'[b].going
    BY <1>2, <2>3, <2>5, Names
  <2>7. \A b \in Components : group[b].there => group'[b].there
    BY <2>3, <2>5
  <2>8. \E w \in BOOLEAN : group'[c].told = Told(c, pass.spec, w)
    BY <2>3
  <2>9. QED
    BY <1>1, <1>2, <1>4, <2>4, <2>5, <2>6, <2>7, <2>8
<1>5. CASE c \in Optional /\ group[c].there /\ group' = [group EXCEPT ![c].going = TRUE]
  <2>1. group'[c] = [group[c] EXCEPT !.going = TRUE] /\ \A b \in Components \ {c} : group'[b] = group[b]
    BY <1>2, <1>5 DEF Groups
  <2>2. group' \in Groups
    BY <1>2, <1>5 DEF Groups
  <2>3. \A b \in Core : ~group'[b].going
    BY <1>2, <1>5, <2>1, Names
  <2>4. group'[c].there = group[c].there /\ group'[c].told = group[c].told
    BY <1>2, <2>1 DEF Groups
  <2>5. QED
    BY <1>1, <1>2, <2>1, <2>2, <2>3, <2>4
<1>6. CASE group' = group
  BY <1>1, <1>2, <1>6
<1>7. QED
  BY <1>4, <1>5, <1>6 DEF SyncGroup, ApplyCore, SyncOptional

LEMMA SyncGroupKeeps ==
    ASSUME SyncInv, NEW c \in Components, SyncGroup(c)
    PROVE  SyncInv'
<1> USE SyncGroupEffect
<1>1. /\ UNCHANGED <<scenario, spec, member, kept, scrape, seen, queued, synced, edited, misjudged>>
      /\ pass' = IF pass.at = Len(Steps) THEN NoPass ELSE [pass EXCEPT !.at = @ + 1]
  BY DEF SyncGroup, NextStep
<1>2. pass' = NoPass \/ (pass' \in [at : 1..Len(Steps), spec : UserSpec] /\ pass'.spec = pass.spec)
  <2>1. pass \in [at : 1..6, spec : UserSpec]
    BY StepsLen DEF SyncInv, TypeOK, NoPass
  <2>2. QED
    BY <1>1, <2>1, StepsLen
<1>3. TypeOK'
  BY <1>1, <1>2 DEF SyncInv, TypeOK
<1>4. PassOfSynced'
  BY <1>1, <1>2 DEF PassOfSynced, NoPass
<1>5. VerdictHolds'
  <2> SUFFICES ASSUME ~misjudged, NEW s \in synced' PROVE ValidateTiDB(s, group)'
    BY <1>1 DEF VerdictHolds
  <2>1. s = pass.spec /\ ValidateTiDB(s, group)
    BY <1>1 DEF SyncInv, VerdictHolds
  <2>2. \A b \in Components : group'[b].there =>
          \/ group[b].there /\ group'[b].told = group[b].told
          \/ \E wait \in BOOLEAN : group'[b].told = Told(b, s, wait)
    BY <2>1
  <2>3. ValidateTiDB(s, group')
    BY <2>1, <2>2, VerdictCarries, Names
  <2>4. QED
    BY <1>1, <2>3, VerdictAfter
<1>6. MembersInGroups'
  BY <1>1 DEF SyncInv, MembersInGroups, Running
<1>7. MembersFollow'
  <2> SUFFICES ASSUME ~misjudged, NEW b \in Components, Running(b)
               PROVE member[b].ver <= group'[b].told.ver
    BY <1>1 DEF MembersFollow, Running
  <2>1. group[b].there /\ member[b].ver <= group[b].told.ver
    BY DEF SyncInv, MembersFollow, MembersInGroups
  <2>2. CASE group'[b].told = group[b].told
    BY <2>1, <2>2
  <2>3. CASE group'[b].told # group[b].told
    <3>1. b = c
      BY <2>3
    <3>2. PICK wait \in BOOLEAN : c \in Core \cup pass.spec.on /\ group'[b].told = Told(b, pass.spec, wait)
      BY <2>3, <3>1
    <3>3. group'[b].told.ver >= group[b].told.ver
      BY <2>1, <3>1, <3>2, ToldOnward
    <3>4. group'[b].told.ver \in Nat /\ group[b].told.ver \in Nat /\ member[b].ver \in Nat
      BY DEF SyncInv, TypeOK, Groups, Orders
    <3>5. QED
      BY <2>1, <3>3, <3>4
  <2>4. QED
    BY <2>2, <2>3
<1>8. CopiesAgree'
  <2> SUFFICES ASSUME ~edited, group'["pd"].there PROVE group'["pd"].told.copies = spec.copies
    BY <1>1 DEF SyncInv, CopiesAgree
  <2>1. pass.spec.copies = spec.copies
    BY DEF SyncInv, CopiesAgree
  <2>2. CASE group["pd"].there /\ group'["pd"].told = group["pd"].told
    BY <2>2 DEF SyncInv, CopiesAgree
  <2>3. ASSUME NEW wait \in BOOLEAN, group'["pd"].told = Told("pd", pass.spec, wait)
        PROVE group'["pd"].told.copies = spec.copies
    BY <2>1, <2>3, ToldFields, Names
  <2>4. QED
    BY <2>2, <2>3, Names
<1>9. ScaleInFits'
  <2> SUFFICES ASSUME ~misjudged, ~edited, Running("tikv"), group'["tikv"].told.stores < member["tikv"].stores
               PROVE group'["tikv"].told.stores >= spec.copies
    BY <1>1 DEF ScaleInFits, Running
  <2>1. /\ group["tikv"].there
        /\ group["tikv"].told.stores < member["tikv"].stores => group["tikv"].told.stores >= spec.copies
    BY Names DEF SyncInv, MembersInGroups, ScaleInFits
  <2>2. CASE group'["tikv"].told = group["tikv"].told
    BY <2>1, <2>2
  <2>3. ASSUME NEW wait \in BOOLEAN, group'["tikv"].told = Told("tikv", pass.spec, wait)
        PROVE group'["tikv"].told.stores >= spec.copies
    <3>1. group'["tikv"].told.stores = pass.spec.stores
      BY <2>3, ToldFields, Names
    <3>2. pass.spec.copies = spec.copies /\ ValidateTiDB(pass.spec, group)
      BY DEF SyncInv, CopiesAgree, VerdictHolds
    <3>3. pass.spec.stores >= group["tikv"].told.stores \/ pass.spec.stores >= spec.copies
      BY <2>1, <3>2 DEF ValidateTiDB, ValidateTiKVScaleIn
    <3>4. /\ pass.spec.stores \in Nat /\ spec.copies \in Nat
          /\ group["tikv"].told.stores \in Nat /\ member["tikv"].stores \in Nat
      BY Names DEF SyncInv, TypeOK, UserSpec, Groups, Orders
    <3>5. QED
      BY <2>1, <3>1, <3>3, <3>4
  <2>4. QED
    BY <2>2, <2>3, Names
<1>10. ConfigFitsMemory'
  <2>1. ASSUME NEW wait \in BOOLEAN, group'["tikv"].told = Told("tikv", pass.spec, wait)
        PROVE Fits(group'["tikv"].told.config.memory, group'["tikv"].told.limit)
    BY <2>1, ToldFits
  <2>2. CASE group'["tikv"].there = group["tikv"].there /\ group'["tikv"].told = group["tikv"].told
    BY <2>2 DEF SyncInv, ConfigFitsMemory
  <2>3. QED
    BY <2>1, <2>2, Names DEF ConfigFitsMemory
<1>11. QED
  BY <1>3, <1>4, <1>5, <1>6, <1>7, <1>8, <1>9, <1>10 DEF SyncInv

(* The cache and the rest of the pass change nothing the invariant speaks of.   *)
LEMMA QuietStepsKeep ==
    ASSUME SyncInv, RejectSpec \/ SyncMonitoring \/ FailPass \/ SeeGroups \/ SeeMembers
    PROVE  SyncInv'
<1> DEFINE onward == pass' = [pass EXCEPT !.at = @ + 1] /\ pass.at # 0 /\ pass.at # Len(Steps)
<1>1. /\ UNCHANGED <<scenario, spec, group, member, kept, synced, edited, misjudged>>
      /\ seen' = seen \/ seen' = group
      /\ queued' = queued \/ queued' = TRUE \/ queued' = FALSE
      /\ scrape' = scrape \/ (pass.at # 0 /\ scrape' = pass.spec.scrape)
      /\ pass' = pass \/ pass' = NoPass \/ onward
  <2>1. CASE RejectSpec
    BY <2>1 DEF RejectSpec, cluster
  <2>2. CASE SyncMonitoring
    BY <2>2 DEF SyncMonitoring, NextStep, At
  <2>3. CASE FailPass
    BY <2>3 DEF FailPass, cluster
  <2>4. CASE SeeGroups \/ SeeMembers
    BY <2>4 DEF SeeGroups, SeeMembers, QueuedByEvent, cluster
  <2>5. QED
    BY <2>1, <2>2, <2>3, <2>4
<1>2. pass = NoPass \/ (pass \in [at : 1..6, spec : UserSpec] /\ pass.spec.scrape \in BOOLEAN)
  BY StepsLen DEF SyncInv, TypeOK, UserSpec
<1>3. pass' = NoPass \/ (pass' \in [at : 1..Len(Steps), spec : UserSpec] /\ pass.at # 0 /\ pass'.spec = pass.spec)
  <2>1. CASE onward
    BY <1>2, <2>1, StepsLen DEF NoPass
  <2>2. CASE pass' = pass
    BY <1>2, <2>2, StepsLen
  <2>3. QED
    BY <1>1, <2>1, <2>2
<1>4. TypeOK'
  <2>1. scrape' \in BOOLEAN
    BY <1>1, <1>2 DEF SyncInv, TypeOK, NoPass
  <2>2. QED
    BY <1>1, <1>3, <2>1 DEF SyncInv, TypeOK
<1>5. PassOfSynced'
  BY <1>1, <1>3 DEF SyncInv, PassOfSynced, NoPass
<1>6. VerdictHolds'
  <2>1. \A s : ValidateTiDB(s, group)' <=> ValidateTiDB(s, group')
    BY <1>1, VerdictAfter
  <2>2. QED
    BY <1>1, <2>1 DEF SyncInv, VerdictHolds
<1>7. QED
  BY <1>1, <1>4, <1>5, <1>6
  DEF SyncInv, MembersFollow, MembersInGroups, CopiesAgree, ScaleInFits, ConfigFitsMemory, Running

LEMMA EditKeeps ==
    ASSUME SyncInv, EditSpec
    PROVE  SyncInv'
<1>1. /\ UNCHANGED <<scenario, group, member, kept, scrape, seen, pass, synced, misjudged>>
      /\ spec' \in UserSpec /\ queued' = TRUE
      /\ edited' \in BOOLEAN
      /\ ~edited' => ~edited /\ spec'.copies = spec.copies
  BY ScenarioAssumption DEF SyncInv, TypeOK, EditSpec, cluster
<1>2. TypeOK' /\ PassOfSynced' /\ MembersFollow' /\ MembersInGroups' /\ ConfigFitsMemory'
  BY <1>1 DEF SyncInv, TypeOK, PassOfSynced, MembersFollow, MembersInGroups, ConfigFitsMemory, Running
<1>3. VerdictHolds'
  <2>1. \A s : ValidateTiDB(s, group)' <=> ValidateTiDB(s, group')
    BY <1>1, VerdictAfter
  <2>2. QED
    BY <1>1, <2>1 DEF SyncInv, VerdictHolds
<1>4. CopiesAgree' /\ ScaleInFits'
  BY <1>1 DEF SyncInv, CopiesAgree, ScaleInFits, Running
<1>5. QED
  BY <1>2, <1>3, <1>4 DEF SyncInv

(* The part of the invariant only a rollout of the members can disturb.         *)
LEMMA MembersKeep ==
    ASSUME SyncInv, Operator, group' = group, member' \in [Components -> [ver : Nat, stores : Nat]],
           kept' = kept \/ (group["pd"].there /\ kept' = group["pd"].told.copies),
           \A c \in Components : member'[c].ver # 0 => group[c].there,
           ~misjudged => \A c \in Components : member'[c].ver # 0 => member'[c].ver <= group[c].told.ver,
           member'["tikv"].ver # 0 /\ group["tikv"].told.stores < member'["tikv"].stores
             => /\ member["tikv"].ver # 0
                /\ group["tikv"].told.stores < member["tikv"].stores
    PROVE  SyncInv'
<1>1. UNCHANGED <<scenario, spec, group, scrape, seen, queued, pass, synced, edited, misjudged>>
  BY DEF Operator
<1>2. kept' \in Nat
  BY Names DEF SyncInv, TypeOK, Groups, Orders
<1>3. TypeOK' /\ PassOfSynced'
  BY <1>1, <1>2 DEF SyncInv, TypeOK, PassOfSynced
<1>4. VerdictHolds'
  <2>1. \A s : ValidateTiDB(s, group)' <=> ValidateTiDB(s, group')
    BY <1>1, VerdictAfter
  <2>2. QED
    BY <1>1, <2>1 DEF SyncInv, VerdictHolds
<1>5. MembersFollow' /\ MembersInGroups'
  BY <1>1 DEF MembersFollow, MembersInGroups, Running
<1>6. CopiesAgree' /\ ScaleInFits' /\ ConfigFitsMemory'
  BY <1>1 DEF SyncInv, CopiesAgree, ScaleInFits, ConfigFitsMemory, Running
<1>7. QED
  BY <1>3, <1>4, <1>5, <1>6 DEF SyncInv

LEMMA OperatorKeeps ==
    ASSUME SyncInv, Operator
    PROVE  SyncInv'
<1>1. /\ group \in Groups /\ member \in [Components -> [ver : Nat, stores : Nat]]
      /\ \A c \in Core : ~group[c].going
      /\ \A c \in Components : member[c].ver # 0 => group[c].there
      /\ ~misjudged => \A c \in Components : member[c].ver # 0 => member[c].ver <= group[c].told.ver
  BY DEF SyncInv, TypeOK, MembersFollow, MembersInGroups, Running
<1>2. CASE ScaleTiKV
  <2>1. /\ group' = group /\ kept' = kept
        /\ \A c \in Components : member'[c].ver = member[c].ver
        /\ member' \in [Components -> [ver : Nat, stores : Nat]]
        /\ group["tikv"].told.stores < member'["tikv"].stores => group["tikv"].told.stores < member["tikv"].stores
    <3> DEFINE n == IF member["tikv"].stores < group["tikv"].told.stores
                    THEN member["tikv"].stores + 1 ELSE member["tikv"].stores - 1
    <3>1. group["tikv"].told.stores \in Nat /\ member["tikv"].stores \in Nat
      BY <1>1, Names DEF Groups, Orders
    <3>2. n \in Nat /\ (group["tikv"].told.stores < n => group["tikv"].told.stores < member["tikv"].stores)
      BY <1>2, <3>1 DEF ScaleTiKV
    <3>3. member' = [member EXCEPT !["tikv"].stores = n] /\ group' = group /\ kept' = kept
      BY <1>2 DEF ScaleTiKV
    <3> HIDE DEF n
    <3>4. QED
      BY <1>1, <3>2, <3>3, Names
  <2>2. QED
    BY <1>1, <1>2, <2>1, MembersKeep, Names DEF ScaleTiKV, Running
<1>3. ASSUME NEW c \in Components, StartMembers(c) PROVE SyncInv'
  <2>1. /\ group' = group /\ group[c].there /\ member[c].ver = 0
        /\ member' = [member EXCEPT ![c] = [ver |-> group[c].told.ver, stores |-> group[c].told.stores]]
        /\ kept' = kept \/ (group["pd"].there /\ kept' = group["pd"].told.copies)
    BY <1>3 DEF StartMembers, Running
  <2>2. group[c].told.ver \in Nat /\ group[c].told.stores \in Nat
    BY <1>1 DEF Groups, Orders
  <2>3. /\ member' \in [Components -> [ver : Nat, stores : Nat]]
        /\ member'[c].ver = group[c].told.ver /\ member'[c].stores = group[c].told.stores
        /\ \A b \in Components \ {c} : member'[b] = member[b]
    BY <1>1, <2>1, <2>2
  <2>4. QED
    BY <1>1, <2>1, <2>2, <2>3, MembersKeep, Names
<1>4. ASSUME NEW c \in Components, RollVersion(c) PROVE SyncInv'
  <2>1. /\ group' = group /\ kept' = kept /\ group[c].there /\ member[c].ver # 0
        /\ member' = [member EXCEPT ![c].ver = group[c].told.ver]
    BY <1>4 DEF RollVersion, Running
  <2>2. group[c].told.ver \in Nat
    BY <1>1 DEF Groups, Orders
  <2>3. /\ member' \in [Components -> [ver : Nat, stores : Nat]]
        /\ member'[c].ver = group[c].told.ver /\ member'[c].stores = member[c].stores
        /\ \A b \in Components \ {c} : member'[b] = member[b]
    BY <1>1, <2>1, <2>2
  <2>4. QED
    BY <1>1, <2>1, <2>2, <2>3, MembersKeep, Names
<1>5. ASSUME NEW c \in Components, RemoveGroup(c) PROVE SyncInv'
  <2>1. /\ c \notin Core /\ kept' = kept
        /\ group' = [group EXCEPT ![c] = NoGroup] /\ member' = [member EXCEPT ![c] = NoMembers]
        /\ UNCHANGED <<scenario, spec, scrape, seen, queued, pass, synced, edited, misjudged>>
    BY <1>1, <1>5 DEF RemoveGroup, Operator
  <2>2. /\ ~group'[c].there /\ ~group'[c].going /\ member'[c].ver = 0
        /\ \A b \in Components \ {c} : group'[b] = group[b] /\ member'[b] = member[b]
        /\ group' \in Groups /\ member' \in [Components -> [ver : Nat, stores : Nat]]
    <3>1. group'[c] = NoGroup /\ member'[c] = NoMembers
      BY <1>1, <2>1 DEF Groups
    <3>2. group' \in Groups /\ member' \in [Components -> [ver : Nat, stores : Nat]]
      BY <1>1, <2>1, NoGroupTyped DEF Groups, NoMembers
    <3>3. QED
      BY <1>1, <2>1, <3>1, <3>2 DEF Groups, NoGroup, NoMembers
  <2>3. c # "pd" /\ c # "tikv" /\ \A b \in Core : group'[b] = group[b]
    BY <2>1, <2>2, Names DEF Core
  <2>4. TypeOK' /\ PassOfSynced'
    BY <2>1, <2>2, <2>3 DEF SyncInv, TypeOK, PassOfSynced
  <2>5. VerdictHolds'
    <3> SUFFICES ASSUME ~misjudged, NEW s \in synced PROVE ValidateTiDB(s, group)'
      BY <2>1 DEF VerdictHolds
    <3>1. s \in UserSpec /\ ValidateTiDB(s, group)
      BY DEF SyncInv, TypeOK, VerdictHolds
    <3>2. \A b \in Components : group'[b].there => group[b].there /\ group'[b].told = group[b].told
      BY <2>2
    <3>3. ValidateTiDB(s, group')
      BY <2>2, <2>3, <3>1, <3>2, VerdictCarries, Names
    <3>4. QED
      BY <2>1, <3>3, VerdictAfter
  <2>6. MembersFollow' /\ MembersInGroups'
    BY <2>1, <2>2 DEF SyncInv, MembersFollow, MembersInGroups, Running
  <2>7. CopiesAgree' /\ ScaleInFits' /\ ConfigFitsMemory'
    BY <2>1, <2>2, <2>3, Names DEF SyncInv, CopiesAgree, ScaleInFits, ConfigFitsMemory, Running
  <2>8. QED
    BY <2>4, <2>5, <2>6, <2>7 DEF SyncInv
<1>6. QED
  BY <1>2, <1>3, <1>4, <1>5 DEF Operator

LEMMA StutterKeeps == SyncInv /\ UNCHANGED vars => SyncInv'
<1> SUFFICES ASSUME SyncInv, UNCHANGED vars PROVE SyncInv'
    OBVIOUS
<1>1. UNCHANGED <<scenario, spec, group, member, kept, scrape, seen, queued, pass, synced, edited, misjudged>>
  BY DEF vars
<1>2. \A s : ValidateTiDB(s, group)' <=> ValidateTiDB(s, group')
  BY <1>1, VerdictAfter
<1>3. VerdictHolds'
  BY <1>1, <1>2 DEF SyncInv, VerdictHolds
<1>4. QED
  BY <1>1, <1>3 DEF SyncInv, TypeOK, PassOfSynced, MembersFollow, MembersInGroups, CopiesAgree, ScaleInFits,
      ConfigFitsMemory, Running

LEMMA SyncInvNext == SyncInv /\ [Next]_vars => SyncInv'
BY StartKeeps, SyncGroupKeeps, QuietStepsKeep, EditKeeps, OperatorKeeps, StutterKeeps
DEF Next, Reconcile

LEMMA SyncInvHolds == Spec => []SyncInv
<1>1. Init => SyncInv
  BY SyncInvInit
<1>2. SyncInv /\ [Next]_vars => SyncInv'
  BY SyncInvNext
<1>3. QED
  BY <1>1, <1>2, PTL DEF Spec

-----------------------------------------------------------------------------

(* Every state has its type: no core group is ever being deleted by a pass.     *)
THEOREM SyncTypeCorrect == Spec => []TypeOK
<1>1. SyncInv => TypeOK
  BY DEF SyncInv
<1>2. QED
  BY <1>1, SyncInvHolds, PTL

(* For any set of specs: a spec that validation let through is not refused       *)
(* later, however far its pass got (ValidateTiDB).                             *)
THEOREM AcceptedSpecsStayAcceptable == Spec => []AcceptedIsStable
<1>1. SyncInv => AcceptedIsStable
  BY DEF SyncInv, VerdictHolds, AcceptedIsStable
<1>2. QED
  BY <1>1, SyncInvHolds, PTL

(* For any set of specs: while max-replicas is not edited, PD lets every         *)
(* scale-in finish that validation let through (validateTiKVScaleIn).          *)
THEOREM ScaleInFinishes == Spec => []NoStuckScaleIn
<1>1. SyncInv => NoStuckScaleIn
  <2> SUFFICES ASSUME SyncInv, ~misjudged, ~edited, Running("tikv"),
                      group["tikv"].told.stores < member["tikv"].stores
               PROVE group["tikv"].told.stores >= kept
    BY DEF NoStuckScaleIn, ScaleInIsPossible
  <2>1. group["tikv"].told.stores >= spec.copies
    BY DEF SyncInv, ScaleInFits
  <2>2. kept = 0 \/ kept = spec.copies
    BY DEF SyncInv, CopiesAgree
  <2>3. group["tikv"].told.stores \in Nat
    BY Names DEF SyncInv, TypeOK, Groups, Orders
  <2>4. QED
    BY <2>1, <2>2, <2>3
<1>2. QED
  BY <1>1, SyncInvHolds, PTL

(* For any set of specs: the memory settings a group is told always leave TiKV's *)
(* runtime its memory (tikvConfig).                                           *)
THEOREM ToldConfigFits == Spec => []ConfigFitsMemory
<1>1. SyncInv => ConfigFitsMemory
  BY DEF SyncInv
<1>2. QED
  BY <1>1, SyncInvHolds, PTL

(* For any set of specs: no step takes data to an older version or a smaller     *)
(* volume (checkNoDowngrade, checkNoShrink).                                  *)
THEOREM NoDataGoesBack == Spec => DataNeverGoesBack
<1> DEFINE onward(c) ==
        /\ group[c].there /\ group'[c].there =>
              /\ group'[c].told.ver >= group[c].told.ver
              /\ c \in Stateful => group'[c].told.size >= group[c].told.size
        /\ Running(c) /\ Running(c)' => member'[c].ver >= member[c].ver
<1>1. ASSUME SyncInv, [Next]_vars, ~misjudged', NEW c \in Components
      PROVE onward(c)
  <2>1. /\ group[c].told.ver \in Nat /\ group[c].told.size \in Nat /\ member[c].ver \in Nat
        /\ group \in Groups /\ member \in [Components -> [ver : Nat, stores : Nat]]
    BY <1>1 DEF SyncInv, TypeOK, Groups, Orders
  <2>2. ~misjudged
    BY <1>1 DEF Next, Reconcile, StartPass, RejectSpec, SyncGroup, SyncMonitoring, FailPass, SeeGroups, SeeMembers,
             EditSpec, Operator, vars
  <2>3. CASE group' = group /\ member' = member
    BY <2>1, <2>3 DEF Running
  <2>4. ASSUME NEW b \in Components, SyncGroup(b) PROVE onward(c)
    <3>1. member' = member
      BY <2>4 DEF SyncGroup
    <3>2. CASE c # b
      <4>1. group'[c] = group[c]
        BY <1>1, <2>4, <3>2, SyncGroupEffect
      <4>2. QED
        BY <2>1, <3>1, <4>1 DEF Running
    <3>3. CASE c = b /\ group'[c].told = group[c].told
      BY <2>1, <3>1, <3>3 DEF Running
    <3>4. CASE c = b /\ group'[c].told # group[c].told
      <4>1. PICK wait \in BOOLEAN : /\ pass.at # 0 /\ c \in Core \cup pass.spec.on
                                    /\ group'[c].told = Told(c, pass.spec, wait)
        BY <1>1, <2>4, <3>4, SyncGroupEffect
      <4>2. group[c].there => /\ group'[c].told.ver >= group[c].told.ver
                              /\ c \in Stateful => group'[c].told.size >= group[c].told.size
        BY <1>1, <2>2, <4>1, ToldOnward
      <4>3. QED
        BY <2>1, <3>1, <4>2 DEF Running
    <3>5. QED
      BY <3>2, <3>3, <3>4
  <2>5. CASE Operator
    <3>1. CASE ScaleTiKV
      <4>1. group' = group /\ member'[c].ver = member[c].ver
        BY <2>1, <3>1 DEF ScaleTiKV
      <4>2. QED
        BY <2>1, <4>1 DEF Running
    <3>2. ASSUME NEW b \in Components, StartMembers(b) \/ RemoveGroup(b) PROVE onward(c)
      <4>1. CASE c # b
        BY <2>1, <3>2, <4>1 DEF StartMembers, RemoveGroup, Running, Groups
      <4>2. CASE c = b /\ StartMembers(b)
        BY <2>1, <4>2 DEF StartMembers, Running
      <4>3. CASE c = b /\ RemoveGroup(b)
        <5>1. group'[c] = NoGroup /\ member'[c] = NoMembers
          BY <2>1, <4>3 DEF RemoveGroup, Groups
        <5>2. QED
          BY <5>1 DEF NoGroup, NoMembers, Running
      <4>4. QED
        BY <3>2, <4>1, <4>2, <4>3
    <3>3. ASSUME NEW b \in Components, RollVersion(b) PROVE onward(c)
      <4>1. group' = group /\ member' = [member EXCEPT ![b].ver = group[b].told.ver]
        BY <3>3 DEF RollVersion
      <4>2. c # b => member'[c] = member[c]
        BY <2>1, <4>1
      <4>3. Running(c) => member[c].ver <= group[c].told.ver
        BY <1>1, <2>2 DEF SyncInv, MembersFollow
      <4>4. c = b => member'[c].ver = group[c].told.ver
        BY <2>1, <4>1
      <4>5. QED
        BY <2>1, <4>1, <4>2, <4>3, <4>4 DEF Running
    <3>4. QED
      BY <2>5, <3>1, <3>2, <3>3 DEF Operator
  <2>6. QED
    BY <1>1, <2>3, <2>4, <2>5
    DEF Next, Reconcile, StartPass, RejectSpec, SyncMonitoring, FailPass, SeeGroups, SeeMembers, EditSpec, vars, cluster
<1>2. SyncInv /\ [Next]_vars => [~misjudged' => \A c \in Components : onward(c)]_vars
  BY <1>1
<1>3. QED
  BY <1>2, SyncInvHolds, PTL DEF Spec, DataNeverGoesBack

(* What the cache shows of the DNS wait is true of the PD group, and a group it   *)
(* does not show yet is a new one, which waits.                               *)
WaitKnown ==
    /\ \A c \in Components : c # "pd" => group[c].told.wait = FALSE
    /\ seen["pd"].there => group["pd"].there /\ seen["pd"].told.wait = group["pd"].told.wait
    /\ ~seen["pd"].there /\ group["pd"].there => group["pd"].told.wait = TRUE

LEMMA ApplyTells ==
    ASSUME SyncInv, NEW c \in Components, c \in Core \cup pass.spec.on, SyncGroup(c)
    PROVE  \E wait \in BOOLEAN :
             /\ wait <=> c = "pd" /\ Wait
             /\ group' = [group EXCEPT ![c] = [there |-> TRUE, going |-> group[c].going, told |-> Told(c, pass.spec, wait)]]
             /\ group'[c].there = TRUE /\ group'[c].told = Told(c, pass.spec, wait)
<1>1. Apply(c) /\ group \in Groups
  BY DEF SyncInv, TypeOK, SyncGroup, ApplyCore, SyncOptional, Core, Optional
<1>2. PICK wait \in BOOLEAN :
        /\ wait = (c = "pd" /\ Wait)
        /\ group' = [group EXCEPT ![c] = [there |-> TRUE, going |-> group[c].going, told |-> Told(c, pass.spec, wait)]]
  BY <1>1 DEF Apply
<1>3. group'[c] = [there |-> TRUE, going |-> group[c].going, told |-> Told(c, pass.spec, wait)]
  BY <1>1, <1>2 DEF Groups
<1>4. group'[c].there = TRUE /\ group'[c].told = Told(c, pass.spec, wait)
  BY <1>3
<1>5. QED
  BY <1>2, <1>4

LEMMA ToldWait ==
    ASSUME NEW c, NEW s, NEW w PROVE Told(c, s, w).wait = w
BY DEF Told

LEMMA WaitKnownHolds == Spec => []WaitKnown
<1>1. Init => WaitKnown
  <2> SUFFICES ASSUME Init PROVE WaitKnown
    OBVIOUS
  <2>1. seen = group
    BY DEF Init
  <2>2. ASSUME NEW c \in Components PROVE group[c].told.wait = FALSE
    <3>1. CASE scenario.legacy /\ c \in Core \cup spec.on
      <4>1. group[c] = Group(Told(c, spec, FALSE))
        BY <3>1 DEF Init
      <4>2. group[c].told = Told(c, spec, FALSE)
        BY <4>1 DEF Group
      <4>3. Told(c, spec, FALSE).wait = FALSE
        BY DEF Told
      <4>4. QED
        BY <4>2, <4>3
    <3>2. CASE ~(scenario.legacy /\ c \in Core \cup spec.on)
      <4>1. group[c] = NoGroup
        BY <3>2 DEF Init
      <4>2. QED
        BY <4>1 DEF NoGroup, NoOrder
    <3>3. QED
      BY <3>1, <3>2
  <2>3. QED
    BY <2>1, <2>2, Names DEF WaitKnown
<1>2. SyncInv /\ WaitKnown /\ [Next]_vars => WaitKnown'
  <2> SUFFICES ASSUME SyncInv, WaitKnown, [Next]_vars PROVE WaitKnown'
    OBVIOUS
  <2>1. CASE group' = group /\ (seen' = seen \/ seen' = group)
    BY <2>1 DEF WaitKnown
  <2>2. ASSUME NEW c \in Components, SyncGroup(c) PROVE WaitKnown'
    <3>1. seen' = seen /\ (\A b \in Components \ {c} : group'[b] = group[b]) /\ (group["pd"].there => group'["pd"].there)
      BY <2>2, SyncGroupEffect, Names DEF SyncGroup
    <3>2. CASE group'[c].told = group[c].told /\ (c = "pd" => group'[c].there = group[c].there)
      <4>1. \A b \in Components : group'[b].told = group[b].told
        BY <3>1, <3>2
      <4>2. group'["pd"].there = group["pd"].there
        BY <3>1, <3>2, Names
      <4>3. QED
        BY <3>1, <4>1, <4>2, Names DEF WaitKnown
    <3>3. CASE c \in Core \cup pass.spec.on
      <4>1. PICK w \in BOOLEAN : /\ w <=> c = "pd" /\ Wait
                                /\ group'[c].there = TRUE /\ group'[c].told = Told(c, pass.spec, w)
        BY <2>2, <3>3, ApplyTells
      <4>2. c = "pd" => group'[c].told.wait = w /\ (w <=> Wait)
        BY <4>1, ToldWait
      <4>3. c # "pd" => group'[c].told.wait = FALSE
        BY <4>1, ToldWait
      <4>4. CASE c # "pd"
        BY <3>1, <4>3, <4>4, Names DEF WaitKnown
      <4>5. CASE c = "pd"
        <5>1. seen["pd"].there => (Wait <=> group["pd"].told.wait) /\ group["pd"].told.wait \in BOOLEAN
          <6>1. seen \in Groups
            BY DEF SyncInv, TypeOK
          <6>2. seen["pd"].told.wait \in BOOLEAN
            BY <6>1, Names DEF Groups, Orders
          <6>3. QED
            BY <6>2 DEF WaitKnown, Wait
        <5>2. seen["pd"].there => group'["pd"].told.wait = seen["pd"].told.wait
          BY <4>1, <4>2, <4>5, <5>1 DEF WaitKnown
        <5>3. ~seen["pd"].there => group'["pd"].told.wait = TRUE
          BY <4>1, <4>2, <4>5 DEF Wait
        <5>4. QED
          BY <3>1, <4>1, <4>5, <5>2, <5>3 DEF WaitKnown
      <4>6. QED
        BY <4>4, <4>5
    <3>4. QED
      BY <2>2, <3>2, <3>3, SyncGroupEffect, Names DEF Core
  <2>3. ASSUME NEW c \in Components, RemoveGroup(c), Operator PROVE WaitKnown'
    <3>1. /\ c \notin Core /\ seen' = seen
          /\ group' = [group EXCEPT ![c] = NoGroup] /\ group \in Groups
      BY <2>3 DEF SyncInv, TypeOK, RemoveGroup, Operator
    <3>2. c # "pd" /\ group'[c] = NoGroup /\ \A b \in Components \ {c} : group'[b] = group[b]
      BY <3>1 DEF Groups, Core
    <3>3. group'[c].told.wait = FALSE
      BY <3>2 DEF NoGroup, NoOrder
    <3>4. QED
      BY <3>1, <3>2, <3>3, Names DEF WaitKnown
  <2>4. QED
    BY <2>1, <2>2, <2>3
    DEF Next, Reconcile, StartPass, RejectSpec, SyncMonitoring, FailPass, SeeGroups, SeeMembers, EditSpec, Operator,
        ScaleTiKV, StartMembers, RollVersion, vars, cluster
<1>3. QED
  BY <1>1, <1>2, SyncInvHolds, PTL DEF Spec

(* For any set of specs: a pass over a settled cluster changes nothing, whatever *)
(* it read, and no rollout begins (addPDDNSWait, SyncTiDB).                     *)
THEOREM SettledClustersStay == Spec => SettledStays
<1>1. ASSUME SyncInv, WaitKnown, [Next]_vars, Settled, spec' = spec, pass.at # 0, pass.spec = spec
      PROVE cluster' = cluster
  <2>1. /\ group \in Groups /\ spec \in UserSpec
        /\ \A c \in Components : spec.ver[c] \in Nat \ {0}
    BY <1>1 DEF SyncInv, TypeOK, UserSpec
  <2>2. ASSUME NEW c \in Components, c \in Core \cup spec.on
        PROVE /\ group[c].there /\ ~group[c].going /\ Running(c)
              /\ member[c].ver = group[c].told.ver /\ member[c].stores = group[c].told.stores
              /\ \E wait \in BOOLEAN : group[c].told = Told(c, spec, wait)
    <3>1. PICK wait \in BOOLEAN : group[c].told = Told(c, spec, wait)
      BY <1>1, <2>2 DEF Settled
    <3>2. group[c].told.ver = spec.ver[c]
      BY <2>1, <3>1, ToldFields
    <3>3. member[c] = [ver |-> group[c].told.ver, stores |-> group[c].told.stores]
      BY <1>1, <2>2 DEF Settled
    <3>4. Running(c)
      BY <2>1, <3>2, <3>3 DEF Running
    <3>5. QED
      BY <1>1, <2>2, <3>1, <3>3, <3>4 DEF Settled
  <2>3. \A c \in Components : c \notin Core \cup spec.on => ~group[c].there
    BY <1>1 DEF Settled, Components
  <2>4. ASSUME NEW c \in Components, SyncGroup(c) PROVE cluster' = cluster
    <3>1. CASE c \in Core \cup spec.on
      <4>1. PICK w \in BOOLEAN :
              /\ w <=> c = "pd" /\ Wait
              /\ group' = [group EXCEPT ![c] = [there |-> TRUE, going |-> group[c].going, told |-> Told(c, spec, w)]]
        BY <1>1, <2>4, <3>1, ApplyTells
      <4>2. PICK wait \in BOOLEAN : group[c].told = Told(c, spec, wait)
        BY <2>2, <3>1
      <4>3. group[c].told.wait = wait
        BY <4>2, ToldWait
      <4>4. wait = w
        <5>1. CASE c # "pd"
          BY <1>1, <4>1, <4>3, <5>1 DEF WaitKnown
        <5>2. CASE c = "pd"
          <6>1. seen["pd"].there => seen["pd"].told.wait = wait
            BY <1>1, <4>3, <5>2 DEF WaitKnown
          <6>2. ~seen["pd"].there => wait = TRUE
            BY <1>1, <2>2, <3>1, <4>3, <5>2 DEF WaitKnown
          <6>3. QED
            BY <4>1, <4>2, <5>2, <6>1, <6>2 DEF Wait
        <5>3. QED
          BY <5>1, <5>2
      <4>5. group[c].there = TRUE /\ group[c] \in [there : BOOLEAN, going : BOOLEAN, told : Orders]
        BY <2>1, <2>2, <3>1 DEF Groups
      <4>6. group[c] = [there |-> TRUE, going |-> group[c].going, told |-> group[c].told]
        BY <4>5
      <4>7. group' = group
        BY <2>1, <4>1, <4>2, <4>4, <4>6 DEF Groups
      <4>8. QED
        BY <2>4, <4>7 DEF SyncGroup, cluster
    <3>2. CASE c \notin Core \cup spec.on
      BY <1>1, <2>3, <2>4, <3>2 DEF SyncGroup, ApplyCore, SyncOptional, cluster
    <3>3. QED
      BY <3>1, <3>2
  <2>5. ~Operator
    <3>1. ~ScaleTiKV
      BY <2>2, Names DEF ScaleTiKV, Core
    <3>2. ASSUME NEW c \in Components PROVE ~StartMembers(c) /\ ~RollVersion(c) /\ ~RemoveGroup(c)
      BY <2>2, <2>3 DEF StartMembers, RollVersion, RemoveGroup
    <3>3. QED
      BY <3>1, <3>2 DEF Operator
  <2>6. CASE SyncMonitoring
    BY <1>1, <2>6 DEF SyncMonitoring, Settled, cluster
  <2>7. QED
    BY <1>1, <2>4, <2>5, <2>6
    DEF Next, Reconcile, StartPass, RejectSpec, FailPass, SeeGroups, SeeMembers, EditSpec, vars, cluster
<1>2. SyncInv /\ WaitKnown /\ [Next]_vars
        => [Settled /\ spec' = spec /\ pass.at # 0 => pass.spec # spec \/ cluster' = cluster]_vars
  BY <1>1
<1>3. QED
  BY <1>2, SyncInvHolds, WaitKnownHolds, PTL DEF Spec, SettledStays
=============================================================================
