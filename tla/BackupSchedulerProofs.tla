------------------------- MODULE BackupSchedulerProofs -------------------------
(***************************************************************************)
(* BackupScheduler implements ScheduledRuns, for any schedules, deadline and  *)
(* retention. A pass decides on a list it read earlier, so the invariant says  *)
(* how the list may lag: only one worker creates Backups, so a run that is in  *)
(* progress was so in the list until its schedule has been visited; and a slot *)
(* whose Backup is gone lies behind a later slot or its deadline, which is why *)
(* a Backup that retention deleted does not fire again. The later parts show    *)
(* that a scheduler that rests has forgotten nothing, and that retention deletes *)
(* only what it may: the successes it counted on its list are still there.      *)
(***************************************************************************)
EXTENDS BackupScheduler, FiniteSetTheorems, TLAPS

(* What the pass has still to look at.                                        *)
Unvisited(id) == id[1] > pass.i \/ (id[1] = pass.i /\ pass.at = "fire")

(* A list as of time t holds Backups of slots that fired, created since.       *)
AsOf(list, t) ==
    \A id \in Ids : list[id].state # "none" =>
        id \in fired /\ list[id].created >= id[2] /\ list[id].created <= t

(* Later Backups of a schedule are of later slots.                            *)
InOrder(list) ==
    \A a, b \in Ids :
        /\ a[1] = b[1] /\ list[a].state # "none" /\ list[b].state # "none"
        /\ list[a].created > list[b].created
        => a[2] > b[2]

(* The slot can no longer be the one due.                                     *)
Passed(id, t) ==
    \/ \E s \in spec.cron[id[1]] : s > id[2] /\ s <= t
    \/ id[2] < t - Deadline

Gone(b) == b.state = "none" \/ b.deleting

ListsAreTrue ==
    /\ AsOf(backups, now) /\ InOrder(backups) /\ \A id \in fired : id[2] <= now
    /\ pass.at # "idle" =>
        /\ pass.now <= now /\ AsOf(pass.list, pass.now) /\ InOrder(pass.list)
        /\ \A id \in fired : id[2] <= pass.now

(* A run in progress was so when the pass read the list, unless it is new.     *)
RunsAreSeen ==
    pass.at # "idle" => \A id \in Ids : Running(backups[id]) =>
        ~Finished(pass.list[id]) /\ (Unvisited(id) => Running(pass.list[id]))

(* Only a slot that has passed is without its Backup.                         *)
GoneHavePassed ==
    ~spec.deletes =>
        /\ \A id \in fired : Gone(backups[id]) => Passed(id, now)
        /\ pass.at # "idle" =>
             \A id \in fired : Unvisited(id) /\ pass.list[id].state = "none" => Passed(id, pass.now)

SchedulerInv == TypeOK /\ ListsAreTrue /\ RunsAreSeen /\ GoneHavePassed

-----------------------------------------------------------------------------
LEMMA OfScenario ==
    ASSUME spec \in Scenarios
    PROVE  /\ Len(spec.cron) \in Nat /\ Schedules = 1..Len(spec.cron) /\ Schedules \subseteq Positions
           /\ \A i \in Schedules : /\ spec.cron[i] \subseteq Times
                                   /\ spec.retention[i] \in RetentionTypes
                                   /\ spec.retention[i].type = "time" => spec.retention[i].n >= Deadline
           /\ spec.until \in Times /\ spec.deletes \in BOOLEAN /\ End \in Nat /\ End \notin Schedules
<1>1. /\ spec.cron \in Seq(SUBSET Times) /\ spec.retention \in Seq(RetentionTypes)
      /\ Len(spec.cron) = Len(spec.retention) /\ spec.until \in Times /\ spec.deletes \in BOOLEAN
  BY ScenarioAssumption
<1>2. Schedules = 1..Len(spec.cron) /\ Schedules = DOMAIN spec.retention /\ Len(spec.cron) \in Nat
  BY <1>1 DEF Schedules
<1>3. Schedules \subseteq Positions
  BY DEF Schedules, Positions
<1>4. ASSUME NEW i \in Schedules
      PROVE  /\ spec.cron[i] \subseteq Times /\ spec.retention[i] \in RetentionTypes
             /\ spec.retention[i].type = "time" => spec.retention[i].n >= Deadline
  <2>1. spec.cron[i] \in SUBSET Times /\ spec.retention[i] \in RetentionTypes
    BY <1>1, <1>2
  <2>2. QED
    BY <2>1, <1>2, RetentionAssumption
<1>5. QED
  BY <1>1, <1>2, <1>3, <1>4 DEF End

LEMMA OfIds ==
    ASSUME spec \in Scenarios, NEW id \in Ids
    PROVE  /\ id[1] \in Schedules /\ id[1] \in Nat /\ id[2] \in Times /\ id[2] \in Nat
           /\ id[2] \in spec.cron[id[1]] /\ id = <<id[1], id[2]>> /\ id \in Positions \X Times
<1>1. id \in Schedules \X Times /\ id[2] \in spec.cron[id[1]]
  BY DEF Ids
<1>2. QED
  BY <1>1, OfScenario, TimeAssumption DEF Times

(* The state is in its ranges at the start, and everything else holds idly.    *)
LEMMA SchedulerStarts == Init => SchedulerInv
<1> SUFFICES ASSUME Init PROVE SchedulerInv
  OBVIOUS
<1>1. spec \in Scenarios /\ now \in Times /\ 0 \in Times /\ End \in Nat
  BY OfScenario, TimeAssumption DEF Init, Times
<1>2. NoBackup \in Backup /\ ~Running(NoBackup) /\ Never \in Nat
  BY <1>1, TimeAssumption DEF NoBackup, Backup, Running, Never
<1>3. TypeOK
  BY <1>1, <1>2 DEF Init, TypeOK, Idle, NoBackup
<1>4. ListsAreTrue /\ RunsAreSeen /\ GoneHavePassed
  BY <1>1 DEF Init, Idle, ListsAreTrue, RunsAreSeen, GoneHavePassed, AsOf, InOrder, NoBackup
<1>5. QED
  BY <1>3, <1>4 DEF SchedulerInv

(* A slot due is the latest in time: a passed one is not due.                  *)
LEMMA DueHasNotPassed ==
    ASSUME spec \in Scenarios, NEW i \in Schedules, NEW t \in Times, NEW s \in LatestSlot(i, t)
    PROVE  /\ <<i, s>> \in Ids /\ s \in Times /\ s <= t /\ ~Passed(<<i, s>>, t)
           /\ \A r \in spec.cron[i] : r <= t => r <= s
<1>1. spec.cron[i] \subseteq Times
  BY OfScenario
<1>2. s \in spec.cron[i] /\ s \in Times /\ s >= t - Deadline /\ s <= t
  BY <1>1 DEF LatestSlot, SlotsInTime
<1>3. ASSUME NEW r \in spec.cron[i], r <= t
      PROVE  r <= s
  <2>1. r \in Int /\ s \in Int /\ t \in Int /\ Deadline \in Int
    BY <1>1, <1>2, TimeAssumption DEF Times
  <2>2. CASE r >= t - Deadline
    BY <1>3, <2>2 DEF LatestSlot, SlotsInTime
  <2>3. CASE ~(r >= t - Deadline)
    BY <1>2, <2>1, <2>3
  <2>4. QED
    BY <2>2, <2>3
<1>4. <<i, s>> \in Ids
  BY <1>2 DEF Ids
<1>5. ~Passed(<<i, s>>, t)
  BY <1>1, <1>2, <1>3, TimeAssumption DEF Passed, Times
<1>6. QED
  BY <1>2, <1>3, <1>4, <1>5

(* Retention only expires finished Backups of slots that have passed.          *)
LEMMA ExpiredHavePassed ==
    ASSUME spec \in Scenarios, NEW i \in Schedules, NEW t \in Times, NEW list \in [Ids -> Backup],
           AsOf(list, t), InOrder(list), \A f \in fired : f[2] <= t,
           NEW id \in ExpiredBackups(list, i, t)
    PROVE  id \in Ids /\ id[1] = i /\ Finished(list[id]) /\ Passed(id, t)
<1>1. id \in Ids /\ id[1] = i /\ Finished(list[id])
  BY DEF ExpiredBackups, FinishedOf
<1>2. list[id] \in Backup /\ list[id].state # "none" /\ list[id].created \in Times
  BY <1>1 DEF Finished, Backup
<1>3. id[2] \in Times /\ id[2] <= list[id].created
  BY <1>1, <1>2, OfIds DEF AsOf, Times
<1>4. CASE spec.retention[i].type = "count"
  <2>1. Cardinality({g \in Good(list, i) : Newer(list, g, id)}) >= spec.retention[i].n
        /\ spec.retention[i].n \in Nat \ {0}
    BY <1>4, OfScenario DEF ExpiredBackups, RetentionTypes
  <2>2. {g \in Good(list, i) : Newer(list, g, id)} # {}
    BY <2>1, FS_EmptySet
  <2>3. PICK g \in Good(list, i) : Newer(list, g, id)
    BY <2>2
  <2>4. g \in Ids /\ g[1] = i /\ list[g].state # "none"
    BY DEF Good, FinishedOf, Finished
  <2>5. g[2] > id[2]
    BY <1>1, <1>2, <2>3, <2>4 DEF Newer, InOrder
  <2>6. g[2] <= t /\ g[2] \in spec.cron[i]
    BY <2>4, OfIds DEF AsOf
  <2>7. QED
    BY <1>1, <2>5, <2>6 DEF Passed
<1>5. CASE spec.retention[i].type # "count"
  <2>1. spec.retention[i].type = "time" /\ spec.retention[i].n >= Deadline /\ spec.retention[i].n \in Nat
    BY <1>5, OfScenario DEF RetentionTypes
  <2>2. list[id].created < t - spec.retention[i].n
    BY <1>5 DEF ExpiredBackups
  <2>3. id[2] < t - Deadline
    BY <1>2, <1>3, <2>1, <2>2, TimeAssumption DEF Times
  <2>4. QED
    BY <1>1, <2>3 DEF Passed
<1>6. QED
  BY <1>1, <1>4, <1>5

LEMMA SameScenario ==
    ASSUME spec' = spec
    PROVE  /\ Ids' = Ids /\ Schedules' = Schedules /\ End' = End /\ Positions' = Positions
           /\ \A id, t : Passed(id, t)' <=> Passed(id, t)
BY DEF Ids, Schedules, End, Passed, Positions

(* Ticks, timers, edits and phases leave the runs alone.                      *)
LEMMA FrameKeepsInv ==
    ASSUME SchedulerInv, UNCHANGED <<spec, now, backups, fired, pass>>, TypeOK'
    PROVE  SchedulerInv'
<1>1. UNCHANGED <<Ids, Schedules, End>> /\ \A id, t : Passed(id, t)' <=> Passed(id, t)
  BY SameScenario
<1>2. ListsAreTrue' /\ RunsAreSeen' /\ GoneHavePassed'
  BY <1>1 DEF SchedulerInv, ListsAreTrue, RunsAreSeen, GoneHavePassed, AsOf, InOrder, Unvisited, Passed
<1>3. QED
  BY <1>2 DEF SchedulerInv

LEMMA TickKeepsInv ==
    ASSUME SchedulerInv, Tick
    PROVE  SchedulerInv'
<1>1. UNCHANGED <<Ids, Schedules, End, spec, backups, fired, late, pass>>
  BY SameScenario DEF Tick
<1>2. now \in Nat /\ now' \in Times /\ now < now' /\ TypeOK
  BY OfScenario, TimeAssumption DEF SchedulerInv, TypeOK, Tick, Times
<1>3. TypeOK'
  BY <1>1, <1>2 DEF TypeOK, Tick
<1>4. \A id \in Ids : id[2] \in Nat /\ backups[id].created \in Nat
  BY <1>2, OfIds DEF TypeOK, Backup, Times
<1>5. ListsAreTrue'
  BY <1>1, <1>2, <1>4 DEF SchedulerInv, ListsAreTrue, AsOf, InOrder, TypeOK, Times
<1>6. RunsAreSeen'
  BY <1>1 DEF SchedulerInv, RunsAreSeen, Unvisited
<1>7. \A id \in Ids : Passed(id, now) => Passed(id, now)'
  <2>1. ASSUME NEW id \in Ids
        PROVE  Passed(id, now) => Passed(id, now')
    <3>1. \A s \in spec.cron[id[1]] : s \in Nat
      BY <1>2, OfIds, OfScenario DEF TypeOK, Times
    <3>2. QED
      BY <1>2, <1>4, <3>1, TimeAssumption DEF Passed, Times
  <2>2. QED
    BY <1>1, <2>1 DEF Passed
<1>8. GoneHavePassed'
  <2>1. pass.now' = pass.now /\ \A id : Passed(id, pass.now)' <=> Passed(id, pass.now)
    BY <1>1 DEF Passed
  <2>2. fired \subseteq Ids
    BY <1>2 DEF TypeOK
  <2>3. QED
    BY <1>1, <1>7, <2>1, <2>2 DEF SchedulerInv, GoneHavePassed, Unvisited
<1>9. QED
  BY <1>3, <1>5, <1>6, <1>8 DEF SchedulerInv

-----------------------------------------------------------------------------
(* The pass.                                                                 *)

LEMMA FollowingTyped ==
    ASSUME spec \in Scenarios, NEW i \in Nat, NEW on \in SUBSET Schedules, NEW j \in Following(i, on)
    PROVE  j \in 0..End /\ j > i
BY OfScenario DEF Following, End

LEMMA StartKeepsInv ==
    ASSUME SchedulerInv, StartPass
    PROVE  SchedulerInv'
<1>1. UNCHANGED <<Ids, Schedules, End, spec, now, backups, fired, late>> /\ TypeOK
  BY SameScenario DEF StartPass, SchedulerInv
<1>2. PICK first \in Following(0, enabled) :
        pass' = [at |-> "fire", i |-> first, now |-> now, enabled |-> enabled,
                 serving |-> serving, list |-> backups, wake |-> Never]
  BY DEF StartPass
<1>3. first \in 0..End /\ Never \in 0..Never /\ now \in Nat
  BY <1>1, FollowingTyped, TimeAssumption DEF TypeOK, Never, Times
<1>4. TypeOK'
  BY <1>1, <1>2, <1>3 DEF TypeOK, StartPass
<1>5. ListsAreTrue'
  BY <1>1, <1>2, <1>3 DEF SchedulerInv, ListsAreTrue, AsOf, InOrder
<1>6. RunsAreSeen'
  BY <1>1, <1>2 DEF RunsAreSeen, Running, Finished
<1>7. GoneHavePassed'
  BY <1>1, <1>2 DEF SchedulerInv, GoneHavePassed, Gone, Passed
<1>8. QED
  BY <1>4, <1>5, <1>6, <1>7 DEF SchedulerInv

LEMMA NextSlotTyped ==
    ASSUME spec \in Scenarios, NEW i \in Schedules, NEW t, NEW s \in NextSlot(i, t)
    PROVE  s \in 0..Never
BY OfScenario, TimeAssumption DEF NextSlot, Never, Times

LEMMA LookKeepsInv ==
    ASSUME SchedulerInv, NEW i \in Schedules, NothingDue(i) \/ HoldSlot(i)
    PROVE  SchedulerInv'
<1>1. UNCHANGED <<Ids, Schedules, End, spec, now, backups, fired, enabled, serving, queued, timer, late>> /\ TypeOK
  BY SameScenario DEF NothingDue, HoldSlot, SchedulerInv
<1>2. PICK next \in NextSlot(i, pass.now) : Visited(next) \/ Visited(Earliest(next, pass.now + 1))
  BY DEF NothingDue, HoldSlot
<1>3. next \in 0..Never /\ pass.now + 1 \in 0..Never /\ pass.wake \in 0..Never /\ pass.at = "fire" /\ pass.i = i
  BY <1>1, NextSlotTyped, TimeAssumption DEF TypeOK, Times, Never, NothingDue, HoldSlot, Firing
<1>4. PICK w \in 0..Never : pass' = [pass EXCEPT !.at = "prune", !.wake = w]
  BY <1>2, <1>3 DEF Visited, Earliest
<1>5. TypeOK'
  BY <1>1, <1>4 DEF TypeOK
<1>6. pass'.at = "prune" /\ UNCHANGED <<pass.i, pass.now, pass.list>>
  BY <1>1, <1>4 DEF TypeOK
<1>7. ListsAreTrue'
  BY <1>1, <1>3, <1>6 DEF SchedulerInv, ListsAreTrue, AsOf, InOrder
<1>8. RunsAreSeen' /\ GoneHavePassed'
  BY <1>1, <1>3, <1>6 DEF SchedulerInv, RunsAreSeen, GoneHavePassed, Unvisited, Passed
<1>9. QED
  BY <1>5, <1>7, <1>8 DEF SchedulerInv

LEMMA RestKeepsInv ==
    ASSUME SchedulerInv, EndPass \/ Restart
    PROVE  SchedulerInv'
<1>1. UNCHANGED <<Ids, Schedules, End, spec, now, backups, fired, enabled, serving>> /\ TypeOK /\ pass' = Idle
  BY SameScenario DEF EndPass, Restart, SchedulerInv
<1>2. NoBackup \in Backup /\ Never \in 0..Never /\ 0 \in Times /\ 0 \in 0..End
  BY <1>1, OfScenario, TimeAssumption DEF NoBackup, Backup, Never, Times, TypeOK
<1>3. timer' \in 0..Never /\ late' \in Times /\ queued' \in BOOLEAN
  <2>1. CASE EndPass
    <3>1. late' = now - pass.now /\ pass.now <= now /\ pass.now \in Times /\ now \in Times
      BY <1>1, <2>1 DEF EndPass, SchedulerInv, ListsAreTrue, TypeOK
    <3>2. Delayed(pass.wake) \in Int /\ timer \in 0..Never /\ Never \in Int /\ queued' = queued
      BY <1>1, <2>1, <3>1, TimeAssumption DEF EndPass, Delayed, Earliest, TypeOK, Times, Never
    <3>3. Delayed(pass.wake) >= 0
      <4>1. CASE pass.wake = Never
        BY <4>1, TimeAssumption DEF Delayed, Never
      <4>2. CASE pass.wake # Never
        <5>1. now + (pass.wake - pass.now) >= 0 /\ Never >= 0
          BY <1>1, <3>1, <4>2, TimeAssumption DEF TypeOK, Times, Never
        <5>2. QED
          BY <4>2, <5>1 DEF Delayed, Earliest
      <4>3. QED
        BY <4>1, <4>2
    <3>4. QED
      BY <1>1, <2>1, <3>1, <3>2, <3>3, TimeAssumption DEF EndPass, Earliest, TypeOK, Times
  <2>2. CASE Restart
    BY <1>1, <1>2, <2>2 DEF Restart, TypeOK
  <2>3. QED
    BY <2>1, <2>2
<1>4. TypeOK'
  BY <1>1, <1>2, <1>3 DEF TypeOK, Idle
<1>5. ListsAreTrue' /\ RunsAreSeen' /\ GoneHavePassed'
  BY <1>1 DEF SchedulerInv, Idle, ListsAreTrue, RunsAreSeen, GoneHavePassed, AsOf, InOrder, Passed
<1>6. QED
  BY <1>4, <1>5 DEF SchedulerInv

LEMMA FireKeepsInv ==
    ASSUME SchedulerInv, NEW i \in Schedules, FireDueSlot(i)
    PROVE  SchedulerInv'
<1>1. /\ UNCHANGED <<Ids, Schedules, End, spec, now, enabled, serving, timer, late>> /\ TypeOK
      /\ pass.at = "fire" /\ pass.i = i /\ ~InProgressBackup(pass.list, i)
  BY SameScenario DEF FireDueSlot, SchedulerInv, Firing, Held
<1>2. PICK s \in Due(i) :
        /\ backups' = IF backups[<<i, s>>].state # "none" THEN backups
                      ELSE [backups EXCEPT ![<<i, s>>] =
                              [state |-> "running", deleting |-> FALSE, created |-> now]]
        /\ fired' = fired \cup {<<i, s>>} /\ queued' = (queued \/ backups' # backups)
  BY DEF FireDueSlot
<1> DEFINE id == <<i, s>>
<1>3. /\ s \in LatestSlot(i, pass.now) /\ pass.list[id].state = "none"
      /\ pass.now \in Times /\ pass.now <= now /\ now \in Times
  BY <1>1, <1>2 DEF Due, TypeOK, SchedulerInv, ListsAreTrue
<1>4. /\ id \in Ids /\ s \in Times /\ s <= pass.now /\ ~Passed(id, pass.now)
      /\ \A r \in spec.cron[i] : r <= pass.now => r <= s
  BY <1>1, <1>3, DueHasNotPassed DEF TypeOK
<1>5. s <= now /\ now \in Nat /\ s \in Nat
  BY <1>3, <1>4, TimeAssumption DEF Times
<1>6. PICK w \in 0..Never : pass' = [pass EXCEPT !.at = "prune", !.wake = w]
  <2>1. PICK next \in NextSlot(i, pass.now) : Visited(next)
    BY DEF FireDueSlot
  <2>2. next \in 0..Never /\ pass.wake \in 0..Never
    BY <1>1, <2>1, NextSlotTyped DEF TypeOK
  <2>3. QED
    BY <2>1, <2>2 DEF Visited, Earliest
<1>7. pass'.at = "prune" /\ UNCHANGED <<pass.i, pass.now, pass.list>>
  BY <1>1, <1>6 DEF TypeOK
<1>8. /\ backups' \in [Ids -> Backup]
      /\ \A b \in Ids : b # id => backups'[b] = backups[b]
      /\ backups'[id].state # "none"
      /\ backups[id].state = "none" =>
           backups'[id] = [state |-> "running", deleting |-> FALSE, created |-> now]
      /\ backups[id].state # "none" => backups'[id] = backups[id]
  BY <1>1, <1>2, <1>3, <1>4 DEF TypeOK, Backup
<1>9. \A b \in Ids : backups[b].state # "none" => b \in fired /\ backups[b].created >= b[2]
  BY <1>1 DEF TypeOK
<1>10. TypeOK'
  <2>1. \A b \in Ids : backups'[b].state # "none" => b \in fired' /\ backups'[b].created >= b[2]
    BY <1>2, <1>5, <1>8, <1>9
  <2>2. pass' \in [at : {"idle", "fire", "prune"}, i : 0..End, now : Times, enabled : SUBSET Schedules,
                   serving : BOOLEAN, list : [Ids -> Backup], wake : 0..Never]
    BY <1>1, <1>6 DEF TypeOK
  <2>3. fired' \subseteq Ids /\ queued' \in BOOLEAN
    BY <1>1, <1>2, <1>4 DEF TypeOK
  <2>4. QED
    BY <1>1, <1>8, <2>1, <2>2, <2>3 DEF TypeOK
<1>11. ListsAreTrue'
  <2>1. \A b \in Ids : backups[b].state # "none" => backups[b].created <= now /\ b[2] <= pass.now
    BY <1>1, <1>9 DEF SchedulerInv, ListsAreTrue, AsOf
  <2>2. AsOf(backups, now)'
    BY <1>1, <1>2, <1>5, <1>8, <1>9, <2>1 DEF AsOf
  <2>3. InOrder(backups)'
    <3>1. ASSUME NEW b \in Ids, b[1] = i, backups[b].state # "none", b # id
          PROVE  b[2] < s
      <4>1. b[2] \in spec.cron[i] /\ b = <<b[1], b[2]>> /\ b[2] \in Nat
        BY <1>1, <3>1, OfIds DEF TypeOK
      <4>2. b[2] <= s /\ b[2] # s
        BY <1>4, <2>1, <3>1, <4>1
      <4>3. QED
        BY <1>5, <4>1, <4>2
    <3>2. ASSUME NEW a \in Ids, NEW b \in Ids, a[1] = b[1], backups'[a].state # "none",
                 backups'[b].state # "none", backups'[a].created > backups'[b].created
          PROVE  a[2] > b[2]
      <4>1. CASE backups[id].state # "none" \/ (a # id /\ b # id)
        BY <1>8, <3>2, <4>1 DEF SchedulerInv, ListsAreTrue, InOrder
      <4>2. CASE backups[id].state = "none" /\ a = id /\ b # id
        BY <1>5, <1>8, <3>1, <3>2, <4>2, <1>1, OfIds DEF TypeOK
      <4>3. CASE backups[id].state = "none" /\ b = id /\ a # id
        <5>1. backups'[b].created = now /\ backups'[a].created <= now /\ backups[a].created \in Nat
          BY <1>1, <1>8, <2>1, <3>2, <4>3 DEF TypeOK, Backup, Times
        <5>2. QED
          BY <1>5, <1>8, <3>2, <4>3, <5>1
      <4>4. CASE a = id /\ b = id
        <5>1. backups'[id].created \in Nat
          BY <1>4, <1>8 DEF Backup, Times
        <5>2. QED
          BY <3>2, <4>4, <5>1
      <4>5. QED
        BY <4>1, <4>2, <4>3, <4>4
    <3>3. QED
      BY <1>1, <3>2 DEF InOrder
  <2>4. AsOf(pass.list, pass.now)' /\ InOrder(pass.list)'
    BY <1>1, <1>2, <1>7 DEF SchedulerInv, ListsAreTrue, AsOf, InOrder
  <2>5. QED
    BY <1>1, <1>2, <1>3, <1>4, <1>5, <1>7, <2>2, <2>3, <2>4 DEF SchedulerInv, ListsAreTrue
<1>12. RunsAreSeen'
  <2>1. ~Finished(pass.list[id]) /\ ~(id[1] > i)
    BY <1>3, OfScenario, <1>1 DEF Finished, TypeOK
  <2>2. QED
    BY <1>1, <1>7, <1>8, <2>1 DEF SchedulerInv, RunsAreSeen, Unvisited
<1>13. GoneHavePassed'
  <2>1. ~Gone(backups'[id]) \/ backups'[id] = backups[id]
    BY <1>8 DEF Gone
  <2>2. backups[id].state # "none" => id \in fired
    BY <1>4, <1>9
  <2>3. \A b : (Passed(b, now)' <=> Passed(b, now)) /\ (Passed(b, pass.now)' <=> Passed(b, pass.now))
    BY <1>1, <1>7 DEF Passed
  <2>4. \A b \in fired' : Unvisited(b)' => Unvisited(b) /\ b # id
    BY <1>1, <1>7, OfScenario DEF Unvisited, TypeOK
  <2>5. fired \subseteq Ids
    BY <1>1 DEF TypeOK
  <2>6. ~spec.deletes => \A b \in fired' : Gone(backups'[b]) => Passed(b, now)
    BY <1>2, <1>8, <2>1, <2>2, <2>5 DEF SchedulerInv, GoneHavePassed, Gone
  <2>7. ~spec.deletes => \A b \in fired' : Unvisited(b)' /\ pass.list[b].state = "none" => Passed(b, pass.now)
    BY <1>1, <1>2, <2>4 DEF SchedulerInv, GoneHavePassed
  <2>8. QED
    BY <1>1, <1>7, <2>3, <2>6, <2>7 DEF GoneHavePassed
<1>14. QED
  BY <1>10, <1>11, <1>12, <1>13 DEF SchedulerInv

-----------------------------------------------------------------------------
(* Steps that finish, delete or remove Backups and fire none.                 *)

FewerRuns ==
    /\ UNCHANGED <<spec, now, fired>> /\ backups' \in [Ids -> Backup]
    /\ \A id \in Ids :
        /\ backups'[id].state # "none" =>
             backups[id].state # "none" /\ backups'[id].created = backups[id].created
        /\ Running(backups'[id]) => Running(backups[id])
        /\ ~spec.deletes /\ id \in fired /\ Gone(backups'[id]) => Gone(backups[id]) \/ Passed(id, now)

SamePass ==
    pass'.at # "idle" =>
        /\ pass.at # "idle" /\ pass'.now = pass.now /\ pass'.list = pass.list
        /\ \A id \in Ids : Unvisited(id)' => Unvisited(id)

LEMMA FewerKeepsInv ==
    ASSUME SchedulerInv, FewerRuns, SamePass, UNCHANGED <<enabled, serving>>,
           queued' \in BOOLEAN, timer' \in 0..Never, late' \in Times,
           pass' \in [at : {"idle", "fire", "prune"}, i : 0..End, now : Times, enabled : SUBSET Schedules,
                      serving : BOOLEAN, list : [Ids -> Backup], wake : 0..Never]
    PROVE  SchedulerInv'
<1>1. UNCHANGED <<Ids, Schedules, End, spec, now, fired, enabled, serving>> /\ TypeOK
  BY SameScenario DEF FewerRuns, SchedulerInv
<1>2. \A id \in Ids : backups'[id].state # "none" =>
          backups[id].state # "none" /\ backups'[id].created = backups[id].created
  BY DEF FewerRuns
<1>3. TypeOK'
  BY <1>1, <1>2 DEF TypeOK, FewerRuns
<1>4. ListsAreTrue'
  <2>1. AsOf(backups, now)' /\ InOrder(backups)'
    BY <1>1, <1>2 DEF SchedulerInv, ListsAreTrue, AsOf, InOrder
  <2>2. pass'.at # "idle" => AsOf(pass.list, pass.now)' /\ InOrder(pass.list)'
    BY <1>1 DEF SchedulerInv, ListsAreTrue, AsOf, InOrder, SamePass
  <2>3. QED
    BY <1>1, <2>1, <2>2 DEF SchedulerInv, ListsAreTrue, SamePass
<1>5. RunsAreSeen'
  BY <1>1 DEF SchedulerInv, RunsAreSeen, SamePass, FewerRuns
<1>6. GoneHavePassed'
  <2>1. /\ \A b : Passed(b, now)' <=> Passed(b, now)
        /\ pass'.at # "idle" => \A b : Passed(b, pass.now)' <=> Passed(b, pass.now)
    BY <1>1 DEF Passed, SamePass
  <2>2. fired \subseteq Ids
    BY <1>1 DEF TypeOK
  <2>3. ~spec.deletes => \A b \in fired : Gone(backups'[b]) => Passed(b, now)
    BY <2>2 DEF SchedulerInv, GoneHavePassed, FewerRuns
  <2>4. ~spec.deletes /\ pass'.at # "idle" =>
          \A b \in fired : Unvisited(b)' /\ pass'.list[b].state = "none" => Passed(b, pass.now)
    BY <2>2 DEF SchedulerInv, GoneHavePassed, SamePass
  <2>5. QED
    BY <1>1, <2>1, <2>3, <2>4 DEF GoneHavePassed
<1>7. QED
  BY <1>3, <1>4, <1>5, <1>6 DEF SchedulerInv

LEMMA Marking ==
    ASSUME TypeOK, NEW ids, backups' = MarkDeleted(ids)
    PROVE  /\ backups' \in [Ids -> Backup]
           /\ \A id \in Ids : /\ backups'[id].state = backups[id].state
                              /\ backups'[id].created = backups[id].created
                              /\ id \notin ids => backups'[id] = backups[id]
                              /\ ~backups'[id].deleting => ~backups[id].deleting
                              /\ id \in ids => Gone(backups'[id])
<1>1. ASSUME NEW id \in Ids
      PROVE  /\ [backups[id] EXCEPT !.deleting = TRUE] \in Backup
             /\ [backups[id] EXCEPT !.deleting = TRUE].state = backups[id].state
             /\ [backups[id] EXCEPT !.deleting = TRUE].created = backups[id].created
             /\ [backups[id] EXCEPT !.deleting = TRUE].deleting
  BY DEF TypeOK, Backup
<1>2. backups \in [Ids -> Backup]
  BY DEF TypeOK
<1>3. QED
  BY <1>1, <1>2 DEF MarkDeleted, Gone

(* What a pass deletes was finished in its list and has passed.                *)
LEMMA PrunePasses ==
    ASSUME SchedulerInv, pass.at = "prune", pass.i \in Schedules,
           NEW ids \in SUBSET ExpiredBackups(pass.list, pass.i, pass.now)
    PROVE  \A id \in ids : id \in Ids /\ ~Running(backups[id]) /\ Passed(id, now)
<1>1. /\ pass.now \in Times /\ pass.list \in [Ids -> Backup] /\ now \in Times /\ pass.now <= now
      /\ AsOf(pass.list, pass.now) /\ InOrder(pass.list) /\ (\A f \in fired : f[2] <= pass.now)
      /\ spec \in Scenarios
  BY DEF SchedulerInv, TypeOK, ListsAreTrue
<1>2. ASSUME NEW id \in ids
      PROVE  id \in Ids /\ ~Running(backups[id]) /\ Passed(id, now)
  <2>1. id \in Ids /\ Finished(pass.list[id]) /\ Passed(id, pass.now)
    BY <1>1, <1>2, ExpiredHavePassed
  <2>2. ~Running(backups[id])
    BY <2>1 DEF SchedulerInv, RunsAreSeen
  <2>3. \A s \in spec.cron[id[1]] : s \in Nat
    BY <1>1, <2>1, OfIds, OfScenario DEF Times
  <2>4. id[2] \in Nat
    BY <1>1, <2>1, OfIds
  <2>5. Passed(id, now)
    BY <1>1, <2>1, <2>3, <2>4, TimeAssumption DEF Passed, Times
  <2>6. QED
    BY <2>1, <2>2, <2>5
<1>3. QED
  BY <1>2

LEMMA MarkingFewer ==
    ASSUME TypeOK, NEW ids, backups' = MarkDeleted(ids), UNCHANGED <<spec, now, fired>>,
           spec.deletes \/ \A id \in ids : id \in Ids => Passed(id, now)
    PROVE  FewerRuns
BY Marking DEF FewerRuns, Running, Gone

LEMMA PruneKeepsInv ==
    ASSUME SchedulerInv, NEW i \in Schedules, ApplyRetention(i)
    PROVE  SchedulerInv'
<1>1. TypeOK /\ pass.at = "prune" /\ pass.i = i /\ spec \in Scenarios /\ i \in Nat
  BY OfScenario DEF ApplyRetention, SchedulerInv, TypeOK
<1>2. PICK next \in Following(i, pass.enabled) : pass' = [pass EXCEPT !.at = "fire", !.i = next]
  BY DEF ApplyRetention
<1>3. next \in 0..End /\ next > i
  BY <1>1, <1>2, FollowingTyped DEF TypeOK
<1>4. FewerRuns
  BY <1>1, PrunePasses, MarkingFewer DEF ApplyRetention
<1>5. pass' \in [at : {"idle", "fire", "prune"}, i : 0..End, now : Times, enabled : SUBSET Schedules,
                 serving : BOOLEAN, list : [Ids -> Backup], wake : 0..Never]
      /\ pass'.at = "fire" /\ pass'.i = next /\ pass'.now = pass.now /\ pass'.list = pass.list
  BY <1>1, <1>2, <1>3 DEF TypeOK
<1>6. SamePass
  <2>1. \A id \in Ids : id[1] \in Nat
    BY <1>1, OfIds
  <2>2. ASSUME NEW id \in Ids, Unvisited(id)'
        PROVE  Unvisited(id)
    BY <1>1, <1>3, <1>5, <2>1, <2>2, OfScenario DEF Unvisited
  <2>3. QED
    BY <1>1, <1>5, <2>2 DEF SamePass
<1>7. queued' \in BOOLEAN /\ timer' \in 0..Never /\ late' \in Times /\ UNCHANGED <<enabled, serving>>
  BY <1>1 DEF ApplyRetention, TypeOK
<1>8. QED
  BY <1>4, <1>5, <1>6, <1>7, FewerKeepsInv

LEMMA FailKeepsInv ==
    ASSUME SchedulerInv, FailPass
    PROVE  SchedulerInv' /\ FewerRuns /\ \A id \in Ids : Running(backups[id]) => backups'[id] = backups[id]
<1>1. TypeOK /\ pass.i \in Schedules /\ spec \in Scenarios /\ pass' = Idle /\ UNCHANGED <<spec, now, fired>>
  BY DEF FailPass, SchedulerInv, TypeOK
<1>2. PICK some \in SUBSET IF pass.at = "fire" THEN {}
                           ELSE ExpiredBackups(pass.list, pass.i, pass.now) :
        backups' = MarkDeleted(some)
  BY DEF FailPass
<1>3. \A id \in some : id \in Ids /\ ~Running(backups[id]) /\ Passed(id, now)
  <2>1. CASE pass.at = "fire"
    BY <1>2, <2>1
  <2>2. CASE pass.at = "prune"
    BY <1>1, <1>2, <2>2, PrunePasses
  <2>3. QED
    BY <2>1, <2>2 DEF FailPass
<1>4. FewerRuns
  BY <1>1, <1>2, <1>3, MarkingFewer
<1>5. \A id \in Ids : Running(backups[id]) => backups'[id] = backups[id]
  BY <1>1, <1>2, <1>3, Marking
<1>6. SamePass /\ pass' \in [at : {"idle", "fire", "prune"}, i : 0..End, now : Times,
            enabled : SUBSET Schedules, serving : BOOLEAN, list : [Ids -> Backup], wake : 0..Never]
  <2>1. NoBackup \in Backup /\ Never \in 0..Never /\ 0 \in Times /\ 0 \in 0..End
    BY <1>1, OfScenario, TimeAssumption DEF NoBackup, Backup, Never, Times
  <2>2. QED
    BY <1>1, <2>1 DEF SamePass, Idle
<1>7. queued' \in BOOLEAN /\ timer' \in 0..Never /\ late' \in Times /\ UNCHANGED <<enabled, serving>>
  BY <1>1 DEF FailPass, TypeOK
<1>8. SchedulerInv'
  BY <1>4, <1>6, <1>7, FewerKeepsInv
<1>9. QED
  BY <1>4, <1>5, <1>8

LEMMA OthersKeepInv ==
    ASSUME SchedulerInv, NEW id \in Ids, FinishBackup(id) \/ DeleteBackup(id) \/ RemoveBackup(id)
    PROVE  SchedulerInv' /\ FewerRuns
<1>1. TypeOK /\ spec \in Scenarios /\ UNCHANGED <<spec, now, fired, enabled, serving, timer, late, pass>>
  BY DEF FinishBackup, DeleteBackup, RemoveBackup, SchedulerInv, TypeOK
<1>2. SamePass /\ queued' \in BOOLEAN
  BY <1>1 DEF SamePass, Unvisited, FinishBackup, DeleteBackup, RemoveBackup, QueuedByBackup
<1>3. FewerRuns
  <2>1. CASE FinishBackup(id)
    <3>1. PICK result \in {"succeeded", "failed"} : backups' = [backups EXCEPT ![id].state = result]
      BY <2>1 DEF FinishBackup
    <3>2. backups[id].state = "running" /\ backups[id] \in Backup /\ backups \in [Ids -> Backup]
      BY <1>1, <2>1 DEF FinishBackup, TypeOK
    <3>3. /\ backups' \in [Ids -> Backup] /\ \A b \in Ids : b # id => backups'[b] = backups[b]
          /\ backups'[id].state = result /\ backups'[id].created = backups[id].created
          /\ backups'[id].deleting = backups[id].deleting
      BY <3>1, <3>2 DEF Backup
    <3>4. QED
      BY <1>1, <3>2, <3>3 DEF FewerRuns, Running, Gone
  <2>2. CASE DeleteBackup(id)
    BY <1>1, <2>2, MarkingFewer DEF DeleteBackup
  <2>3. CASE RemoveBackup(id)
    <3>1. NoBackup \in Backup /\ NoBackup.state = "none"
      BY TimeAssumption DEF NoBackup, Backup, Times
    <3>2. /\ backups' \in [Ids -> Backup] /\ backups'[id] = NoBackup /\ backups[id].deleting
          /\ \A b \in Ids : b # id => backups'[b] = backups[b]
      BY <1>1, <2>3, <3>1 DEF RemoveBackup, TypeOK
    <3>3. QED
      BY <1>1, <3>1, <3>2 DEF FewerRuns, Running, Gone
  <2>4. QED
    BY <2>1, <2>2, <2>3
<1>4. QED
  BY <1>1, <1>2, <1>3, FewerKeepsInv DEF TypeOK

LEMMA SchedulerSteps == SchedulerInv /\ [Next]_vars => SchedulerInv'
<1> SUFFICES ASSUME SchedulerInv, [Next]_vars PROVE SchedulerInv'
  OBVIOUS
<1>1. TypeOK /\ spec \in Scenarios
  BY DEF SchedulerInv, TypeOK
<1>2. CASE UNCHANGED vars
  <2>1. UNCHANGED <<Ids, Schedules, End>>
    BY <1>2, SameScenario DEF vars
  <2>2. TypeOK'
    BY <1>1, <1>2, <2>1 DEF TypeOK, vars
  <2>3. QED
    BY <1>2, <2>2, FrameKeepsInv DEF vars
<1>3. CASE Reconcile
  BY <1>3, StartKeepsInv, RestKeepsInv, LookKeepsInv, FireKeepsInv, PruneKeepsInv
     DEF Reconcile, LookForSlot
<1>4. CASE FailPass \/ Restart
  BY <1>4, FailKeepsInv, RestKeepsInv
<1>5. CASE TimerFires \/ InstanceChangesPhase \/ \E i \in Schedules : ToggleSchedule(i)
  <2>1. UNCHANGED <<spec, now, backups, fired, late, pass>>
    BY <1>5 DEF TimerFires, InstanceChangesPhase, ToggleSchedule
  <2>2. UNCHANGED <<Ids, Schedules, End>> /\ Never \in 0..Never
    BY <2>1, SameScenario, TimeAssumption DEF Never
  <2>3. TypeOK'
    BY <1>1, <1>5, <2>1, <2>2 DEF TypeOK, TimerFires, InstanceChangesPhase, ToggleSchedule
  <2>4. QED
    BY <2>1, <2>3, FrameKeepsInv
<1>6. CASE Tick \/ \E id \in Ids : FinishBackup(id) \/ DeleteBackup(id) \/ RemoveBackup(id)
  BY <1>6, TickKeepsInv, OthersKeepInv
<1>7. QED
  BY <1>2, <1>3, <1>4, <1>5, <1>6 DEF Next, Environment

(* The invariant the theorems below rest on.                                  *)
THEOREM SchedulerIsSound == Spec => []SchedulerInv
BY SchedulerStarts, SchedulerSteps, PTL DEF Spec

(* Every variable stays in its range, and a Backup is never older than the    *)
(* slot it is named after.                                                   *)
THEOREM SchedulerTypeCorrect == Spec => []TypeOK
BY SchedulerIsSound, PTL DEF SchedulerInv

-----------------------------------------------------------------------------
(* The refinement.                                                           *)

LEMMA RunsStart == Init => Runs!Init
<1> SUFFICES ASSUME Init PROVE Runs!Init
  OBVIOUS
<1>1. spec \in Scenarios /\ now = 0 /\ fired = {} /\ \A id \in Ids : backups[id] = NoBackup
  BY DEF Init
<1>2. spec.deletes \in BOOLEAN
  BY <1>1, OfScenario
<1>3. QED
  BY <1>1, <1>2 DEF Runs!Init, NoBackup, Running

(* A slot is taken, or a run in progress, exactly as before.                   *)
LEMMA SameRuns ==
    ASSUME UNCHANGED <<spec, now, fired>>,
           \A id \in Ids : /\ backups'[id].state = "none" <=> backups[id].state = "none"
                           /\ Running(backups'[id]) <=> Running(backups[id])
    PROVE  UNCHANGED Runs!vars
BY SameScenario DEF Runs!vars

LEMMA FireStarts ==
    ASSUME SchedulerInv, NEW i \in Schedules, FireDueSlot(i)
    PROVE  [Runs!Next]_(Runs!vars)
<1>1. /\ UNCHANGED <<Ids, spec, now>> /\ TypeOK /\ spec \in Scenarios
      /\ pass.at = "fire" /\ pass.i = i /\ ~InProgressBackup(pass.list, i)
  BY SameScenario DEF FireDueSlot, SchedulerInv, Firing, Held, TypeOK
<1>2. PICK s \in Due(i) :
        /\ backups' = IF backups[<<i, s>>].state # "none" THEN backups
                      ELSE [backups EXCEPT ![<<i, s>>] =
                              [state |-> "running", deleting |-> FALSE, created |-> now]]
        /\ fired' = fired \cup {<<i, s>>}
  BY DEF FireDueSlot
<1> DEFINE id == <<i, s>>
<1>3. /\ s \in LatestSlot(i, pass.now) /\ pass.list[id].state = "none"
      /\ pass.now \in Times /\ pass.now <= now /\ now \in Times
  BY <1>1, <1>2 DEF Due, TypeOK, SchedulerInv, ListsAreTrue
<1>4. id \in Ids /\ s \in Times /\ s <= pass.now /\ ~Passed(id, pass.now)
  BY <1>1, <1>3, DueHasNotPassed
<1>5. CASE backups[id].state # "none"
  <2>1. backups' = backups /\ fired' = fired
    BY <1>1, <1>2, <1>4, <1>5 DEF TypeOK
  <2>2. QED
    BY <1>1, <2>1, SameRuns
<1>6. CASE backups[id].state = "none"
  <2>1. /\ backups \in [Ids -> Backup]
        /\ backups' = [backups EXCEPT ![id] = [state |-> "running", deleting |-> FALSE, created |-> now]]
    BY <1>1, <1>2, <1>6 DEF TypeOK
  <2>2. /\ \A b \in Ids : b # id => backups'[b] = backups[b]
        /\ backups'[id].state # "none" /\ Running(backups'[id])
    BY <1>4, <2>1 DEF Running
  <2>3. id[2] <= now /\ id[1] = i /\ id \in Positions \X Times
    BY <1>1, <1>3, <1>4, OfIds DEF Times
  <2>4. \A b \in Ids : Running(backups[b]) => b[1] # i
    <3>1. ASSUME NEW b \in Ids, Running(backups[b]), b[1] = i
          PROVE  FALSE
      <4>1. Running(pass.list[b])
        BY <1>1, <3>1 DEF SchedulerInv, RunsAreSeen, Unvisited
      <4>2. QED
        BY <1>1, <3>1, <4>1 DEF InProgressBackup
    <3>2. QED
      BY <3>1
  <2>5. ~spec.deletes => id \notin fired
    <3>1. Unvisited(id)
      BY <1>1 DEF Unvisited
    <3>2. QED
      BY <1>1, <1>3, <1>4, <3>1 DEF SchedulerInv, GoneHavePassed
  <2>6. Runs!Start(id)
    BY <1>1, <1>2, <1>4, <1>6, <2>2, <2>3, <2>4, <2>5 DEF Runs!Start
  <2>7. QED
    BY <2>3, <2>6 DEF Runs!Next
<1>7. QED
  BY <1>5, <1>6

LEMMA PruneStarts ==
    ASSUME SchedulerInv, NEW i \in Schedules, ApplyRetention(i)
    PROVE  UNCHANGED Runs!vars
<1>1. /\ TypeOK /\ pass.at = "prune" /\ pass.i = i /\ UNCHANGED <<spec, now, fired>>
      /\ backups' = MarkDeleted(ExpiredBackups(pass.list, pass.i, pass.now))
  BY DEF ApplyRetention, SchedulerInv
<1>2. \A id \in ExpiredBackups(pass.list, pass.i, pass.now) : ~Running(backups[id])
  BY <1>1, PrunePasses
<1>3. QED
  BY <1>1, <1>2, Marking, SameRuns DEF Running

LEMMA FailStops ==
    ASSUME SchedulerInv, FailPass
    PROVE  UNCHANGED Runs!vars
<1>1. TypeOK /\ UNCHANGED <<spec, now, fired>> /\ \E ids : backups' = MarkDeleted(ids)
  BY DEF FailPass, SchedulerInv
<1>2. FewerRuns /\ \A id \in Ids : Running(backups[id]) => backups'[id] = backups[id]
  BY FailKeepsInv
<1>3. \A id \in Ids : backups'[id].state = backups[id].state
  BY <1>1, Marking
<1>4. QED
  BY <1>1, <1>2, <1>3, SameRuns DEF FewerRuns

LEMMA OthersFinish ==
    ASSUME SchedulerInv, NEW id \in Ids, FinishBackup(id) \/ DeleteBackup(id) \/ RemoveBackup(id)
    PROVE  [Runs!Next]_(Runs!vars)
<1>1. /\ TypeOK /\ spec \in Scenarios /\ UNCHANGED <<Ids, spec, now, fired>>
      /\ backups \in [Ids -> Backup] /\ backups[id] \in Backup /\ id \in Positions \X Times
  BY OfIds, SameScenario DEF FinishBackup, DeleteBackup, RemoveBackup, SchedulerInv, TypeOK
<1>2. CASE FinishBackup(id) \/ DeleteBackup(id)
  <2>1. /\ \A b \in Ids : b # id => backups'[b] = backups[b]
        /\ backups[id].state # "none" /\ backups'[id].state # "none" /\ ~Running(backups'[id])
    <3>1. CASE FinishBackup(id)
      BY <1>1, <3>1 DEF FinishBackup, Backup, Running
    <3>2. CASE DeleteBackup(id)
      <4>1. backups' = MarkDeleted({id}) /\ backups[id].state # "none"
        BY <3>2 DEF DeleteBackup
      <4>2. QED
        BY <1>1, <4>1, Marking DEF Gone, Running
    <3>3. QED
      BY <1>2, <3>1, <3>2
  <2>2. CASE Running(backups[id])
    <3>1. Runs!Finish(id)
      BY <1>1, <2>1, <2>2 DEF Runs!Finish
    <3>2. QED
      BY <1>1, <3>1 DEF Runs!Next
  <2>3. CASE ~Running(backups[id])
    BY <1>1, <2>1, <2>3, SameRuns
  <2>4. QED
    BY <2>2, <2>3
<1>3. CASE RemoveBackup(id)
  <2>1. /\ \A b \in Ids : b # id => backups'[b] = backups[b]
        /\ backups'[id].state = "none" /\ ~Running(backups'[id]) /\ ~Running(backups[id])
    BY <1>1, <1>3 DEF RemoveBackup, NoBackup, Running
  <2>2. CASE spec.deletes /\ backups[id].state # "none"
    <3>1. Runs!Forget(id)
      BY <1>1, <2>1, <2>2 DEF Runs!Forget
    <3>2. QED
      BY <1>1, <3>1 DEF Runs!Next
  <2>3. CASE ~spec.deletes
    BY <1>1, <2>1, <2>3, SameScenario DEF Runs!vars
  <2>4. CASE backups[id].state = "none"
    BY <1>1, <2>1, <2>4, SameRuns
  <2>5. QED
    BY <2>2, <2>3, <2>4, <1>1, OfScenario
<1>4. QED
  BY <1>2, <1>3

LEMMA RunsStep == SchedulerInv /\ [Next]_vars => [Runs!Next]_(Runs!vars)
<1> SUFFICES ASSUME SchedulerInv, [Next]_vars PROVE [Runs!Next]_(Runs!vars)
  OBVIOUS
<1>1. \/ UNCHANGED <<spec, now, backups, fired>> \/ Tick \/ FailPass
      \/ \E i \in Schedules : FireDueSlot(i) \/ ApplyRetention(i)
      \/ \E id \in Ids : FinishBackup(id) \/ DeleteBackup(id) \/ RemoveBackup(id)
  BY DEF Next, Reconcile, Environment, LookForSlot, StartPass, EndPass, NothingDue, HoldSlot, Restart,
         TimerFires, InstanceChangesPhase, ToggleSchedule, vars
<1>2. CASE UNCHANGED <<spec, now, backups, fired>>
  BY <1>2, SameRuns
<1>3. CASE Tick
  <2>1. now' = now + 1 /\ UNCHANGED <<spec, backups, fired>> /\ UNCHANGED Ids
    BY <1>3, SameScenario DEF Tick
  <2>2. Runs!Tick
    BY <2>1 DEF Runs!Tick
  <2>3. QED
    BY <2>2 DEF Runs!Next
<1>4. QED
  BY <1>1, <1>2, <1>3, FailStops, FireStarts, PruneStarts, OthersFinish

(* The scheduler implements ScheduledRuns: however late the list a pass decides *)
(* on, no two runs of a schedule are in progress at once, none starts before    *)
(* its slot, and a slot fires once unless somebody else deletes its Backup.     *)
THEOREM SchedulerImplementsRuns == Spec => ImplementsScheduledRuns
<1>1. Spec => Runs!Init /\ [][Runs!Next]_(Runs!vars)
  BY RunsStart, RunsStep, SchedulerIsSound, PTL DEF Spec
<1>2. QED
  BY <1>1 DEF ImplementsScheduledRuns, Runs!Spec
-----------------------------------------------------------------------------
(* Nothing is forgotten: what a pass found stays true until something queues   *)
(* the Instance, and the timer is no later for the next slot than the last pass  *)
(* took.                                                                     *)

SlotHandled(i, t) ==
    serving /\ ~InProgressBackup(backups, i) => \A s \in LatestSlot(i, t) : <<i, s>> \in fired
WakesFor(i, t, wake) == \A s \in spec.cron[i] : s > t => wake <= s
Kept(i) == spec.retention[i].type = "count" => ExpiredBackups(backups, i, now) = {}

(* A pass nothing queued the Instance again during still sees what is there, and *)
(* has looked after every schedule before the one it is at.                    *)
PassRemembers ==
    pass.at # "idle" =>
        /\ pass.i # 0
        /\ ~queued =>
            /\ serving = pass.serving /\ enabled = pass.enabled /\ backups = pass.list
            /\ \A i \in enabled :
                /\ i < pass.i \/ (i = pass.i /\ pass.at = "prune") =>
                      SlotHandled(i, pass.now) /\ WakesFor(i, pass.now, pass.wake)
                /\ i < pass.i => Kept(i)

(* Between passes all schedules were looked after at some time, and the timer    *)
(* knows their slots since.                                                   *)
RestRemembers ==
    pass.at = "idle" /\ ~queued =>
        \E t \in 0..now : \A i \in enabled : SlotHandled(i, t) /\ WakesFor(i, t, timer - late) /\ Kept(i)

MemoryInv == PassRemembers /\ RestRemembers

(* Retention by count does not look at the clock.                             *)
LEMMA CountIgnoresTime ==
    ASSUME NEW i, spec.retention[i].type = "count", NEW list, NEW t, NEW u
    PROVE  ExpiredBackups(list, i, t) = ExpiredBackups(list, i, u)
BY DEF ExpiredBackups

MemoryStays ==
    /\ \A i, t : SlotHandled(i, t)' <=> SlotHandled(i, t)
    /\ \A i, t, w : WakesFor(i, t, w)' <=> WakesFor(i, t, w)
    /\ \A i : Kept(i)' <=> Kept(i)

LEMMA SameMemory ==
    ASSUME UNCHANGED <<spec, serving, backups, fired>>
    PROVE  MemoryStays
<1>1. UNCHANGED <<Ids, Schedules>>
  BY SameScenario
<1>2. \A i, t : (SlotHandled(i, t)' <=> SlotHandled(i, t))
  BY <1>1 DEF SlotHandled, InProgressBackup, LatestSlot, SlotsInTime
<1>3. \A i, t, w : WakesFor(i, t, w)' <=> WakesFor(i, t, w)
  BY DEF WakesFor
<1>4. ASSUME NEW i PROVE Kept(i)' <=> Kept(i)
  <2>1. CASE spec.retention[i].type = "count"
    <3>1. ExpiredBackups(backups, i, now)' = ExpiredBackups(backups, i, now')
      BY <1>1 DEF ExpiredBackups, FinishedOf, Good, Newer
    <3>2. QED
      BY <2>1, <3>1, CountIgnoresTime DEF Kept
  <2>2. CASE spec.retention[i].type # "count"
    BY <2>2 DEF Kept
  <2>3. QED
    BY <2>1, <2>2
<1>5. QED
  BY <1>2, <1>3, <1>4 DEF MemoryStays

(* Whatever queues the Instance leaves nothing to remember.                     *)
LEMMA QueuedRemembers ==
    ASSUME MemoryInv, queued', pass' = Idle \/ (pass'.i # 0)
    PROVE  MemoryInv'
BY DEF MemoryInv, PassRemembers, RestRemembers, Idle

LEMMA StartRemembers ==
    ASSUME SchedulerInv, StartPass
    PROVE  MemoryInv'
<1>1. TypeOK /\ UNCHANGED <<spec, now, enabled, serving, backups, fired, timer, late>> /\ spec \in Scenarios
  BY DEF StartPass, SchedulerInv, TypeOK
<1>2. PICK first \in Following(0, enabled) :
        pass' = [at |-> "fire", i |-> first, now |-> now, enabled |-> enabled,
                 serving |-> serving, list |-> backups, wake |-> Never]
  BY DEF StartPass
<1>3. first \in Nat /\ first > 0 /\ \A k \in enabled : k > 0 => first <= k
  BY <1>1, <1>2, FollowingTyped, OfScenario DEF TypeOK, Following
<1>4. \A k \in enabled : k \in Nat \ {0} /\ ~(k < first)
  BY <1>1, <1>3, OfScenario DEF TypeOK
<1>5. QED
  BY <1>1, <1>2, <1>3, <1>4 DEF MemoryInv, PassRemembers, RestRemembers

LEMMA LookRemembers ==
    ASSUME SchedulerInv, MemoryInv, NEW i \in Schedules, NothingDue(i) \/ HoldSlot(i)
    PROVE  MemoryInv'
<1>1. /\ UNCHANGED <<spec, now, enabled, serving, backups, fired, queued, timer>> /\ TypeOK
      /\ spec \in Scenarios /\ pass.at = "fire" /\ pass.i = i
  BY DEF NothingDue, HoldSlot, SchedulerInv, TypeOK, Firing
<1>2. PICK next \in NextSlot(i, pass.now) :
        Visited(next) \/ Visited(Earliest(next, pass.now + 1))
  BY DEF NothingDue, HoldSlot
<1>3. /\ next \in Int /\ pass.now \in Int /\ pass.wake \in Int
      /\ \A s \in spec.cron[i] : s \in Int
  BY <1>1, <1>2, NextSlotTyped, OfScenario, TimeAssumption DEF TypeOK, Times, Never
<1>4. PICK w \in Int : w <= next /\ w <= pass.wake /\ pass' = [pass EXCEPT !.at = "prune", !.wake = w]
  <2>1. PICK v \in Int : v <= next /\ Visited(v)
    <3>1. CASE Visited(next)
      BY <1>3, <3>1
    <3>2. CASE Visited(Earliest(next, pass.now + 1))
      <4>1. Earliest(next, pass.now + 1) \in Int /\ Earliest(next, pass.now + 1) <= next
        BY <1>3 DEF Earliest
      <4>2. QED
        BY <3>2, <4>1
    <3>3. QED
      BY <1>2, <3>1, <3>2
  <2>2. Earliest(pass.wake, v) \in Int /\ Earliest(pass.wake, v) <= v /\ Earliest(pass.wake, v) <= pass.wake
    BY <1>3, <2>1 DEF Earliest
  <2>3. Earliest(pass.wake, v) <= next
    BY <1>3, <2>1, <2>2
  <2>4. QED
    BY <2>1, <2>2, <2>3 DEF Visited
<1>5. /\ pass'.at = "prune" /\ pass'.wake = w
      /\ UNCHANGED <<pass.i, pass.now, pass.list, pass.enabled, pass.serving>>
  BY <1>1, <1>4 DEF TypeOK
<1>6. WakesFor(i, pass.now, w)
  BY <1>2, <1>3, <1>4 DEF WakesFor, NextSlot
<1>7. ASSUME ~queued
      PROVE  SlotHandled(i, pass.now)
  <2>1. backups = pass.list /\ serving = pass.serving
    BY <1>1, <1>7 DEF MemoryInv, PassRemembers
  <2>2. CASE Held(i)
    BY <2>1, <2>2 DEF Held, SlotHandled
  <2>3. CASE Due(i) = {}
    <3>1. ASSUME NEW s \in LatestSlot(i, pass.now) PROVE <<i, s>> \in fired
      <4>1. <<i, s>> \in Ids
        BY <1>1, DueHasNotPassed DEF TypeOK
      <4>2. QED
        BY <1>1, <2>1, <2>3, <3>1, <4>1 DEF Due, TypeOK
    <3>2. QED
      BY <3>1 DEF SlotHandled
  <2>4. QED
    BY <2>2, <2>3 DEF NothingDue, HoldSlot
<1>8. ASSUME ~queued, NEW k \in enabled, k < i
      PROVE  SlotHandled(k, pass.now) /\ WakesFor(k, pass.now, w) /\ Kept(k)
  <2>1. SlotHandled(k, pass.now) /\ WakesFor(k, pass.now, pass.wake) /\ Kept(k)
    BY <1>1, <1>8 DEF MemoryInv, PassRemembers
  <2>2. \A s \in spec.cron[k] : s \in Int
    BY <1>1, <1>8, OfScenario, TimeAssumption DEF TypeOK, Times
  <2>3. QED
    BY <1>3, <1>4, <2>1, <2>2 DEF WakesFor
<1>9. PassRemembers'
  <2>1. pass.i # 0
    BY <1>1, OfScenario
  <2>2. MemoryStays
    BY <1>1, SameMemory
  <2>3. ASSUME ~queued PROVE enabled = pass.enabled /\ serving = pass.serving /\ backups = pass.list
    BY <1>1, <2>3 DEF MemoryInv, PassRemembers
  <2>4. QED
    BY <1>1, <1>5, <1>6, <1>7, <1>8, <2>1, <2>2, <2>3 DEF PassRemembers, MemoryStays
<1>10. QED
  BY <1>5, <1>9 DEF MemoryInv, RestRemembers

(* A run that fires changes the Backups, which queues the Instance.             *)
LEMMA FireRemembers ==
    ASSUME SchedulerInv, MemoryInv, NEW i \in Schedules, FireDueSlot(i)
    PROVE  MemoryInv'
<1>1. TypeOK /\ pass.at = "fire" /\ pass.i = i /\ pass.i # 0 /\ spec \in Scenarios
  BY DEF FireDueSlot, SchedulerInv, TypeOK, Firing, MemoryInv, PassRemembers
<1>2. PICK s \in Due(i) :
        /\ backups' = IF backups[<<i, s>>].state # "none" THEN backups
                      ELSE [backups EXCEPT ![<<i, s>>] =
                              [state |-> "running", deleting |-> FALSE, created |-> now]]
        /\ queued' = (queued \/ backups' # backups)
  BY DEF FireDueSlot
<1>3. <<i, s>> \in Ids /\ pass.list[<<i, s>>].state = "none"
  BY <1>1, <1>2, DueHasNotPassed DEF Due, TypeOK
<1>4. queued'
  <2>1. CASE queued
    BY <1>2, <2>1
  <2>2. CASE ~queued
    <3>1. backups[<<i, s>>].state = "none"
      BY <1>1, <1>3, <2>2 DEF MemoryInv, PassRemembers
    <3>2. backups'[<<i, s>>].state = "running"
      BY <1>1, <1>2, <1>3, <3>1 DEF TypeOK
    <3>3. QED
      BY <1>2, <3>1, <3>2
  <2>3. QED
    BY <2>1, <2>2
<1>5. pass'.i = pass.i
  BY <1>1 DEF FireDueSlot, Visited, TypeOK
<1>6. QED
  BY <1>1, <1>4, <1>5, QueuedRemembers

(* Retention that deletes something queues the Instance too.                   *)
LEMMA PruneRemembers ==
    ASSUME SchedulerInv, MemoryInv, NEW i \in Schedules, ApplyRetention(i)
    PROVE  MemoryInv'
<1>1. /\ UNCHANGED <<spec, now, enabled, serving, fired, timer>> /\ TypeOK
      /\ spec \in Scenarios /\ pass.at = "prune" /\ pass.i = i /\ i \in Nat
      /\ backups' = MarkDeleted(ExpiredBackups(pass.list, i, pass.now))
      /\ queued' = (queued \/ backups' # backups)
  BY OfScenario DEF ApplyRetention, SchedulerInv, TypeOK
<1>2. PICK next \in Following(i, pass.enabled) : pass' = [pass EXCEPT !.at = "fire", !.i = next]
  BY DEF ApplyRetention
<1>3. /\ next \in Nat /\ next > i /\ \A k \in pass.enabled : k > i => next <= k
      /\ pass.enabled \subseteq Nat
  BY <1>1, <1>2, FollowingTyped, OfScenario DEF TypeOK, Following
<1>4. /\ pass'.at = "fire" /\ pass'.i = next
      /\ UNCHANGED <<pass.now, pass.list, pass.enabled, pass.serving, pass.wake>>
  BY <1>1, <1>2 DEF TypeOK
<1>5. CASE queued'
  BY <1>1, <1>3, <1>4, <1>5, QueuedRemembers
<1>6. CASE ~queued'
  <2>1. /\ ~queued /\ backups' = backups /\ serving = pass.serving /\ enabled = pass.enabled
        /\ backups = pass.list
    BY <1>1, <1>6 DEF MemoryInv, PassRemembers
  <2>2. ExpiredBackups(backups, i, pass.now) = {}
    <3>1. ASSUME NEW id \in ExpiredBackups(backups, i, pass.now) PROVE FALSE
      <4>1. id \in Ids /\ Finished(backups[id]) /\ ~backups[id].deleting
        BY DEF ExpiredBackups, FinishedOf
      <4>2. Gone(backups'[id])
        BY <1>1, <2>1, <4>1, Marking
      <4>3. QED
        BY <2>1, <4>1, <4>2 DEF Gone, Finished
    <3>2. QED
      BY <3>1
  <2>3. Kept(i)
    BY <2>2, CountIgnoresTime DEF Kept
  <2>4. ASSUME NEW k \in enabled, k < next
        PROVE  SlotHandled(k, pass.now) /\ WakesFor(k, pass.now, pass.wake) /\ Kept(k)
    <3>1. k < i \/ k = i
      BY <1>3, <2>1, <2>4, <1>1
    <3>2. QED
      BY <1>1, <2>1, <2>3, <3>1 DEF MemoryInv, PassRemembers
  <2>5. MemoryStays
    BY <1>1, <2>1, SameMemory
  <2>6. PassRemembers'
    BY <1>1, <1>3, <1>4, <2>1, <2>4, <2>5 DEF PassRemembers, MemoryStays
  <2>7. QED
    BY <1>4, <2>6 DEF MemoryInv, RestRemembers
<1>7. QED
  BY <1>5, <1>6

LEMMA EndRemembers ==
    ASSUME SchedulerInv, MemoryInv, EndPass
    PROVE  MemoryInv'
<1>1. /\ UNCHANGED <<spec, now, enabled, serving, backups, fired, queued>> /\ TypeOK
      /\ spec \in Scenarios /\ pass.at = "fire" /\ pass.i \notin Schedules
      /\ timer' = Earliest(timer, Delayed(pass.wake)) /\ late' = now - pass.now /\ pass' = Idle
  BY DEF EndPass, SchedulerInv, TypeOK
<1>2. /\ timer' - late' <= pass.wake /\ timer' \in Int /\ late' \in Int /\ pass.wake \in Int
      /\ pass.now \in 0..now
  <2>1. timer \in Int /\ pass.wake \in Int /\ Never \in Int
    BY <1>1, TimeAssumption DEF TypeOK, Never
  <2>2. pass.now \in Nat /\ pass.now <= now /\ now \in Nat
    BY <1>1, TimeAssumption DEF SchedulerInv, ListsAreTrue, TypeOK, Times
  <2>3. Delayed(pass.wake) \in Int /\ Delayed(pass.wake) - late' <= pass.wake
    BY <1>1, <2>1, <2>2 DEF Delayed, Earliest
  <2>4. QED
    BY <1>1, <2>1, <2>2, <2>3 DEF Earliest
<1>3. ASSUME ~queued, NEW k \in enabled
      PROVE  SlotHandled(k, pass.now) /\ WakesFor(k, pass.now, timer' - late') /\ Kept(k)
  <2>1. pass.i # 0 /\ pass.i \in 0..(Len(spec.cron) + 1) /\ Schedules = 1..Len(spec.cron) /\ k \in Schedules
        /\ Len(spec.cron) \in Nat
    BY <1>1, <1>3, OfScenario DEF TypeOK, End, MemoryInv, PassRemembers
  <2>2. k < pass.i
    BY <1>1, <2>1
  <2>3. SlotHandled(k, pass.now) /\ WakesFor(k, pass.now, pass.wake) /\ Kept(k)
    BY <1>1, <1>3, <2>2 DEF MemoryInv, PassRemembers
  <2>4. \A s \in spec.cron[k] : s \in Int
    BY <1>1, <2>1, OfScenario, TimeAssumption DEF Times
  <2>5. QED
    BY <1>2, <2>3, <2>4 DEF WakesFor
<1>4. MemoryStays
  BY <1>1, SameMemory
<1>5. RestRemembers'
  BY <1>1, <1>2, <1>3, <1>4 DEF RestRemembers, MemoryStays
<1>6. QED
  BY <1>1, <1>5 DEF MemoryInv, PassRemembers, Idle

LEMMA TickRemembers ==
    ASSUME SchedulerInv, MemoryInv, Tick \/ UNCHANGED vars
    PROVE  MemoryInv'
<1>1. UNCHANGED <<spec, enabled, serving, backups, fired, queued, timer, late, pass>> /\ TypeOK
  BY DEF Tick, vars, SchedulerInv
<1>2. now \in Nat /\ now' \in Nat /\ now <= now'
  BY <1>1, TimeAssumption DEF Tick, vars, TypeOK, Times
<1>3. MemoryStays
  BY <1>1, SameMemory
<1>4. PassRemembers'
  BY <1>1, <1>3 DEF MemoryInv, PassRemembers, MemoryStays
<1>5. RestRemembers'
  BY <1>1, <1>2, <1>3 DEF MemoryInv, RestRemembers, MemoryStays
<1>6. QED
  BY <1>4, <1>5 DEF MemoryInv

LEMMA MemorySteps == SchedulerInv /\ MemoryInv /\ [Next]_vars => MemoryInv'
<1> SUFFICES ASSUME SchedulerInv, MemoryInv, [Next]_vars PROVE MemoryInv'
  OBVIOUS
<1>1. CASE Reconcile
  BY <1>1, StartRemembers, LookRemembers, FireRemembers, PruneRemembers, EndRemembers
     DEF Reconcile, LookForSlot
<1>2. CASE Tick \/ UNCHANGED vars
  BY <1>2, TickRemembers
<1>3. CASE FailPass \/ Restart
  BY <1>3, QueuedRemembers DEF FailPass, Restart
<1>4. CASE \/ TimerFires \/ InstanceChangesPhase \/ \E i \in Schedules : ToggleSchedule(i)
           \/ \E id \in Ids : FinishBackup(id) \/ DeleteBackup(id) \/ RemoveBackup(id)
  <2>1. queued' /\ pass' = pass
    BY <1>4 DEF TimerFires, InstanceChangesPhase, ToggleSchedule, FinishBackup, DeleteBackup, RemoveBackup,
                QueuedByBackup
  <2>2. QED
    BY <2>1 DEF MemoryInv, PassRemembers, RestRemembers
<1>5. QED
  BY <1>1, <1>2, <1>3, <1>4 DEF Next, Environment

(* Once the timer is ahead, a slot that came since all were looked after is not  *)
(* older than the delay of the timer.                                        *)
LEMMA RestForgetsNothing ==
    ASSUME SchedulerInv, MemoryInv
    PROVE  NothingIsForgotten
<1> SUFFICES ASSUME Resting, NEW i \in enabled
             PROVE  ~SlotForgotten(i) /\ Kept(i)
  BY DEF NothingIsForgotten, Kept
<1>1. TypeOK /\ spec \in Scenarios /\ i \in Schedules
  BY DEF SchedulerInv, TypeOK
<1>2. PICK t \in 0..now : SlotHandled(i, t) /\ WakesFor(i, t, timer - late) /\ Kept(i)
  BY DEF MemoryInv, RestRemembers, Resting
<1>3. /\ now \in Nat /\ timer \in Nat /\ now < timer /\ t \in Nat /\ t <= now /\ Deadline \in Nat
      /\ late \in Nat
      /\ spec.cron[i] \subseteq Nat
  BY <1>1, <1>2, OfScenario, TimeAssumption DEF TypeOK, Times, Never, Resting
<1>4. ASSUME NEW s \in LatestSlot(i, now), s + late <= now PROVE s \in LatestSlot(i, t)
  <2>1. s \in spec.cron[i] /\ s >= now - Deadline /\ s <= now
    BY DEF LatestSlot, SlotsInTime
  <2>2. s <= t
    BY <1>2, <1>3, <1>4, <2>1 DEF WakesFor
  <2>3. ASSUME NEW r \in SlotsInTime(i, t) PROVE r <= s
    <3>1. r \in spec.cron[i] /\ r <= now
      BY <1>3 DEF SlotsInTime
    <3>2. CASE r >= now - Deadline
      BY <3>1, <3>2 DEF LatestSlot, SlotsInTime
    <3>3. CASE ~(r >= now - Deadline)
      BY <1>3, <2>1, <3>1, <3>3
    <3>4. QED
      BY <3>2, <3>3
  <2>4. s \in SlotsInTime(i, t)
    BY <1>3, <2>1, <2>2 DEF SlotsInTime
  <2>5. QED
    BY <2>3, <2>4 DEF LatestSlot
<1>5. QED
  BY <1>2, <1>4 DEF SlotForgotten, SlotHandled

(* When the scheduler rests until its timer, no enabled schedule has a slot that  *)
(* has been due for longer than the last pass took and never fired, nor a Backup its retention by count would delete:  *)
(* no change of the Instance or a Backup, no run's end, error, restart or earlier  *)
(* wake time is missed (Reconcile's RequeueAfter, instanceForScheduledBackup).     *)
THEOREM NothingForgotten == Spec => []NothingIsForgotten
<1>1. Init => MemoryInv
  BY DEF Init, MemoryInv, PassRemembers, RestRemembers, Idle
<1>2. Spec => []MemoryInv
  BY <1>1, MemorySteps, SchedulerIsSound, PTL DEF Spec
<1>3. QED
  BY <1>2, RestForgetsNothing, SchedulerIsSound, PTL

-----------------------------------------------------------------------------
(* Retention keeps what it promises, on however old a list.                    *)

(* With nobody else deleting, what the list has as finished is there as it was,  *)
(* until the pass has pruned its schedule.                                     *)
ListKept ==
    pass.at # "idle" /\ ~spec.deletes =>
        \A id \in Ids : id[1] >= pass.i /\ Finished(pass.list[id]) /\ ~pass.list[id].deleting
                        => backups[id] = pass.list[id]

LEMMA GreatestExists ==
    ASSUME NEW m \in Nat, NEW S \in SUBSET (0..m), S # {}
    PROVE  \E x \in S : \A y \in S : y <= x
<1> DEFINE D == {k \in 0..m : \E s \in S : k <= s}
           next == [k \in D |-> k + 1]
<1>1. IsFiniteSet(D) /\ 0 \in D /\ D \subseteq Nat
  <2>1. IsFiniteSet(0..m) /\ D \in SUBSET (0..m)
    BY FS_Interval
  <2>2. IsFiniteSet(D)
    BY <2>1, FS_Subset
  <2>3. PICK s \in S : TRUE
    OBVIOUS
  <2>4. 0 \in D
    BY <2>3
  <2>5. QED
    BY <2>2, <2>4
<1>2. ASSUME \A k \in D : k + 1 \in D PROVE FALSE
  <2>1. next \in Injection(D, D)
    BY <1>1, <1>2 DEF Injection, IsInjective
  <2>2. next \in Surjection(D, D)
    BY <1>1, <2>1, FS_Injection
  <2>3. PICK k \in D : next[k] = 0
    BY <1>1, <2>2 DEF Surjection
  <2>4. QED
    BY <1>1, <2>3
<1>3. PICK k \in D : k + 1 \notin D
  BY <1>2
<1>4. PICK s \in S : k <= s
  OBVIOUS
<1>5. ASSUME NEW y \in S PROVE y <= k
  <2>1. CASE k + 1 <= y
    BY <1>3, <2>1
  <2>2. CASE ~(k + 1 <= y)
    BY <2>2
  <2>3. QED
    BY <2>1, <2>2
<1>6. s = k
  BY <1>4, <1>5
<1>7. QED
  BY <1>4, <1>5, <1>6

(* Of Backups of one schedule there is a newest one.                           *)
LEMMA NewestExists ==
    ASSUME spec \in Scenarios, NEW list \in [Ids -> Backup], NEW i \in Schedules,
           NEW S \in SUBSET {id \in Ids : id[1] = i}, S # {}
    PROVE  \E g \in S : \A h \in S : h = g \/ Newer(list, g, h)
<1>1. \A id \in S : /\ list[id].created \in 0..MaxTime /\ id[2] \in 0..MaxTime
                    /\ id = <<i, id[2]>>
  BY OfIds DEF Backup, Times
<1> DEFINE times == {list[id].created : id \in S}
<1>2. PICK t \in times : \A u \in times : u <= t
  <2>1. times \in SUBSET (0..MaxTime) /\ times # {}
    BY <1>1
  <2>2. QED
    BY <2>1, GreatestExists, TimeAssumption
<1> DEFINE slots == {id[2] : id \in {id \in S : list[id].created = t}}
<1>3. PICK s \in slots : \A r \in slots : r <= s
  <2>1. slots \in SUBSET (0..MaxTime) /\ slots # {}
    BY <1>1
  <2>2. QED
    BY <2>1, GreatestExists, TimeAssumption
<1>4. PICK g \in S : list[g].created = t /\ g[2] = s
  OBVIOUS
<1>5. ASSUME NEW h \in S, h # g PROVE Newer(list, g, h)
  <2>1. list[h].created <= t /\ list[h].created \in Nat /\ t \in Nat
    BY <1>1, <1>2, <1>4
  <2>2. CASE list[h].created = t
    <3>1. h[2] <= s /\ h[2] # s /\ h[2] \in Nat /\ s \in Nat
      BY <1>1, <1>3, <1>4, <1>5, <2>2
    <3>2. QED
      BY <1>4, <2>2, <3>1 DEF Newer
  <2>3. CASE list[h].created # t
    BY <1>4, <2>1, <2>3 DEF Newer
  <2>4. QED
    BY <2>2, <2>3
<1>6. QED
  BY <1>5

LEMMA NewerIsStrict ==
    ASSUME spec \in Scenarios, NEW list \in [Ids -> Backup], NEW a \in Ids, NEW b \in Ids, Newer(list, a, b)
    PROVE  a # b /\ ~Newer(list, b, a)
BY OfIds, TimeAssumption DEF Newer, Backup, Times

LEMMA FinitelyMany ==
    ASSUME spec \in Scenarios, NEW i \in Schedules, NEW S \in SUBSET {id \in Ids : id[1] = i}
    PROVE  IsFiniteSet(S) /\ Cardinality(S) \in Nat
<1> DEFINE slot == [id \in S |-> id[2]]
<1>1. slot \in Injection(S, 0..MaxTime)
  BY OfIds DEF Injection, IsInjective, Times
<1>2. IsFiniteSet(0..MaxTime)
  BY FS_Interval, TimeAssumption
<1>3. IsFiniteSet(S)
  BY <1>1, <1>2, FS_Injection
<1>4. QED
  BY <1>3, FS_CardinalityType

LEMMA MinOfTwo ==
    ASSUME NEW a \in Int, NEW b \in Int
    PROVE  Min({a, b}) \in Int /\ Min({a, b}) <= a /\ Min({a, b}) <= b
<1>1. \E x \in {a, b} : \A y \in {a, b} : x <= y
  <2>1. CASE a <= b
    BY <2>1
  <2>2. CASE b <= a
    BY <2>2
  <2>3. QED
    BY <2>1, <2>2
<1>2. QED
  BY <1>1 DEF Min

(* The newest success of a list is not expired, and where count retention       *)
(* expires one, it leaves the N before it (expiredBackups).                     *)
LEMMA RetentionSpares ==
    ASSUME spec \in Scenarios, NEW list \in [Ids -> Backup], NEW i \in Schedules, NEW t,
           NEW some \in SUBSET ExpiredBackups(list, i, t)
    PROVE  /\ \A b \in some \cap Good(list, i) : \E g \in Good(list, i) : Newer(list, g, b)
           /\ spec.retention[i].type = "count" /\ some \cap Good(list, i) # {} =>
                 \E K \in SUBSET (Good(list, i) \ some) : Cardinality(K) >= spec.retention[i].n
<1>1. /\ Good(list, i) \subseteq {id \in Ids : id[1] = i}
      /\ \A b \in Good(list, i) : list[b].state = "succeeded"
      /\ spec.retention[i] \in RetentionTypes /\ spec.retention[i].n \in Nat \ {0}
  BY OfScenario DEF Good, FinishedOf, RetentionTypes
<1>2. ASSUME NEW b \in some \cap Good(list, i)
      PROVE  \E g \in Good(list, i) : Newer(list, g, b)
  <2>1. CASE spec.retention[i].type = "count"
    <3>1. Cardinality({g \in Good(list, i) : Newer(list, g, b)}) >= spec.retention[i].n
      BY <2>1 DEF ExpiredBackups
    <3>2. {g \in Good(list, i) : Newer(list, g, b)} # {}
      BY <1>1, <3>1, FS_EmptySet
    <3>3. QED
      BY <3>2
  <2>2. CASE spec.retention[i].type # "count"
    BY <1>1, <2>2 DEF ExpiredBackups
  <2>3. QED
    BY <2>1, <2>2
<1>3. ASSUME spec.retention[i].type = "count", some \cap Good(list, i) # {}
      PROVE  \E K \in SUBSET (Good(list, i) \ some) : Cardinality(K) >= spec.retention[i].n
  <2>1. PICK b \in some \cap Good(list, i) :
          \A h \in some \cap Good(list, i) : h = b \/ Newer(list, b, h)
    BY <1>1, <1>3, NewestExists
  <2> DEFINE K == {g \in Good(list, i) : Newer(list, g, b)}
  <2>2. Cardinality(K) >= spec.retention[i].n
    BY <1>3 DEF ExpiredBackups
  <2>3. ASSUME NEW g \in K PROVE g \notin some
    BY <1>1, <2>1, <2>3, NewerIsStrict
  <2>4. QED
    BY <2>2, <2>3
<1>4. QED
  BY <1>2, <1>3

(* The step deletes some of what a list, read at t, has as expired, and what it   *)
(* has as finished is still there.                                            *)
Deletes(some, list, i, t) ==
    /\ list \in [Ids -> Backup] /\ i \in Schedules /\ some \in SUBSET ExpiredBackups(list, i, t)
    /\ \A id \in Ids : id[1] = i /\ Finished(list[id]) /\ ~list[id].deleting => backups[id] = list[id]
    /\ \A id \in Ids : id \notin some /\ Finished(backups[id]) /\ ~backups[id].deleting
                        => backups'[id] = backups[id]

LEMMA DeletingKeepsGood ==
    ASSUME SchedulerInv, NEW list, NEW i, NEW t, NEW some, Deletes(some, list, i, t), UNCHANGED spec,
           NEW k \in Schedules, Good(backups, k) # {}
    PROVE  /\ \E g \in Good(backups, k) :
                 g \in Good(backups', k) /\ \A h \in Good(backups, k) : h = g \/ Newer(backups, g, h)
           /\ spec.retention[k].type = "count" =>
                 Cardinality(Good(backups', k)) >= Min({spec.retention[k].n, Cardinality(Good(backups, k))})
<1>1. /\ spec \in Scenarios /\ backups \in [Ids -> Backup] /\ Ids' = Ids
      /\ \A j \in Schedules : spec.retention[j] \in RetentionTypes
  BY SameScenario, OfScenario DEF SchedulerInv, TypeOK
<1> USE DEF Deletes
<1>2. /\ Good(list, i) \subseteq {id \in Ids : id[1] = i} /\ some \subseteq {id \in Ids : id[1] = i}
      /\ Good(backups, k) \subseteq {id \in Ids : id[1] = k}
      /\ Good(backups', k) \subseteq {id \in Ids : id[1] = k}
  BY <1>1 DEF Good, FinishedOf, ExpiredBackups
<1>3. Good(list, i) \subseteq Good(backups, i)
  BY DEF Good, FinishedOf
<1>4. \A g \in Good(list, i), h \in Good(list, i) : Newer(list, g, h) => Newer(backups, g, h)
  BY DEF Good, FinishedOf, Newer
<1>5. Good(backups, k) \ some \subseteq Good(backups', k)
  BY <1>1 DEF Good, FinishedOf
<1>6. some \cap Good(backups, i) = some \cap Good(list, i)
  BY DEF Good, FinishedOf, ExpiredBackups
<1>7. PICK g \in Good(backups, k) : \A h \in Good(backups, k) : h = g \/ Newer(backups, g, h)
  BY <1>1, <1>2, NewestExists
<1>8. g \notin some
  <2>1. SUFFICES ASSUME g \in some PROVE FALSE
    OBVIOUS
  <2>2. k = i
    BY <1>2, <2>1
  <2>3. PICK h \in Good(list, i) : Newer(list, h, g)
    BY <1>1, <1>6, <2>1, <2>2, RetentionSpares
  <2>4. h \in Good(backups, k) /\ Newer(backups, h, g)
    BY <1>3, <1>4, <1>6, <2>1, <2>2, <2>3
  <2>5. QED
    BY <1>1, <1>2, <1>7, <2>4, NewerIsStrict
<1>9. ASSUME spec.retention[k].type = "count"
      PROVE  Cardinality(Good(backups', k)) >= Min({spec.retention[k].n, Cardinality(Good(backups, k))})
  <2> DEFINE before == Cardinality(Good(backups, k))
             after == Cardinality(Good(backups', k))
             n == spec.retention[k].n
  <2>1. before \in Nat /\ after \in Nat /\ n \in Nat
    BY <1>1, <1>2, FinitelyMany DEF RetentionTypes
  <2>2. Min({n, before}) \in Int /\ Min({n, before}) <= n /\ Min({n, before}) <= before
    <3>1. n \in Int /\ before \in Int
      BY <2>1
    <3> HIDE DEF before, n
    <3>2. QED
      BY <3>1, MinOfTwo
  <2>3. CASE some \cap Good(backups, k) = {}
    <3>1. Good(backups, k) \in SUBSET Good(backups', k)
      BY <1>5, <2>3
    <3>2. before <= after
      BY <1>1, <1>2, <3>1, FinitelyMany, FS_Subset
    <3>3. QED
      BY <2>1, <2>2, <3>2
  <2>4. CASE some \cap Good(backups, k) # {}
    <3>1. k = i
      BY <1>2, <2>4
    <3>2. PICK K \in SUBSET (Good(list, i) \ some) : Cardinality(K) >= n
      BY <1>1, <1>6, <1>9, <2>4, <3>1, RetentionSpares
    <3>3. K \in SUBSET Good(backups', k)
      BY <1>3, <1>5, <3>1, <3>2
    <3>4. Cardinality(K) <= after /\ Cardinality(K) \in Nat
      BY <1>1, <1>2, <3>3, FinitelyMany, FS_Subset, FS_CardinalityType
    <3>5. QED
      BY <2>1, <2>2, <3>2, <3>4
  <2>5. QED
    BY <2>3, <2>4
<1>10. QED
  BY <1>5, <1>7, <1>8, <1>9

LEMMA ListStaysKept == SchedulerInv /\ ListKept /\ [Next]_vars => ListKept'
<1> SUFFICES ASSUME SchedulerInv, ListKept, [Next]_vars, pass'.at # "idle", ~spec.deletes, spec' = spec,
                    NEW id \in Ids, id[1] >= pass'.i, Finished(pass'.list[id]), ~pass'.list[id].deleting
             PROVE  backups'[id] = pass'.list[id]
  <2>1. [Next]_vars => spec' = spec /\ Ids' = Ids
    BY SameScenario
       DEF Next, Reconcile, LookForSlot, StartPass, EndPass, NothingDue, HoldSlot, FireDueSlot, ApplyRetention,
           FailPass, Environment, Tick, TimerFires, InstanceChangesPhase, ToggleSchedule, FinishBackup,
           DeleteBackup, RemoveBackup, Restart, vars
  <2>2. QED
    BY <2>1 DEF ListKept
<1>1. TypeOK /\ spec \in Scenarios /\ backups \in [Ids -> Backup] /\ id[1] \in Nat
  BY OfIds DEF SchedulerInv, TypeOK
<1>2. CASE StartPass
  BY <1>2 DEF StartPass
<1>3. ASSUME NEW i \in Schedules, LookForSlot(i)
      PROVE  backups'[id] = pass'.list[id]
  <2>1. pass.at # "idle" /\ UNCHANGED <<pass.i, pass.list>>
    BY <1>1, <1>3 DEF LookForSlot, NothingDue, HoldSlot, FireDueSlot, Firing, Visited, TypeOK
  <2>2. backups[id] = pass.list[id] /\ Finished(backups[id])
    BY <2>1 DEF ListKept
  <2>3. backups'[id] = backups[id]
    <3>1. CASE FireDueSlot(i)
      <4>1. PICK s \in Due(i) :
              backups' = IF backups[<<i, s>>].state # "none" THEN backups
                         ELSE [backups EXCEPT ![<<i, s>>] =
                                 [state |-> "running", deleting |-> FALSE, created |-> now]]
        BY <3>1 DEF FireDueSlot
      <4>2. CASE <<i, s>> = id
        BY <2>2, <4>1, <4>2 DEF Finished
      <4>3. CASE <<i, s>> # id
        BY <1>1, <4>1, <4>3
      <4>4. QED
        BY <4>2, <4>3
    <3>2. CASE NothingDue(i) \/ HoldSlot(i)
      BY <3>2 DEF NothingDue, HoldSlot
    <3>3. QED
      BY <1>3, <3>1, <3>2 DEF LookForSlot
  <2>4. QED
    BY <2>1, <2>2, <2>3
<1>4. ASSUME NEW i \in Schedules, ApplyRetention(i)
      PROVE  backups'[id] = pass'.list[id]
  <2>1. PICK next \in Following(i, pass.enabled) : pass' = [pass EXCEPT !.at = "fire", !.i = next]
    BY <1>4 DEF ApplyRetention
  <2>2. pass.at # "idle" /\ pass'.i = next /\ pass'.list = pass.list /\ pass.i = i
    BY <1>1, <1>4, <2>1 DEF ApplyRetention, TypeOK
  <2>3. i \in Nat /\ next \in Nat /\ next > i
    BY <1>1, <2>1, FollowingTyped, OfScenario DEF TypeOK
  <2>4. id[1] > i
    BY <1>1, <2>2, <2>3
  <2>5. backups[id] = pass.list[id]
    BY <1>1, <2>2, <2>3, <2>4 DEF ListKept
  <2>6. id \notin ExpiredBackups(pass.list, i, pass.now)
    BY <2>3, <2>4 DEF ExpiredBackups, FinishedOf
  <2>7. QED
    BY <1>4, <2>2, <2>5, <2>6 DEF ApplyRetention, MarkDeleted
<1>5. CASE UNCHANGED <<backups, pass>>
  BY <1>5 DEF ListKept
<1>6. CASE EndPass \/ FailPass \/ Restart
  BY <1>6 DEF EndPass, FailPass, Restart, Idle
<1>7. ASSUME NEW b \in Ids, FinishBackup(b) \/ RemoveBackup(b)
      PROVE  backups'[id] = pass'.list[id]
  <2>1. pass' = pass
    BY <1>7 DEF FinishBackup, RemoveBackup
  <2>2. backups[id] = pass.list[id] /\ Finished(backups[id]) /\ ~backups[id].deleting
    BY <2>1 DEF ListKept
  <2>3. b # id
    BY <1>7, <2>2 DEF FinishBackup, RemoveBackup, Finished
  <2>4. QED
    BY <1>1, <1>7, <2>1, <2>2, <2>3 DEF FinishBackup, RemoveBackup
<1>8. QED
  <2>1. CASE Reconcile
    BY <1>2, <1>3, <1>4, <1>6, <2>1 DEF Reconcile
  <2>2. CASE Environment
    BY <1>5, <1>7, <2>2
       DEF Environment, Tick, TimerFires, InstanceChangesPhase, ToggleSchedule, DeleteBackup
  <2>3. QED
    BY <1>5, <1>6, <2>1, <2>2 DEF Next, vars

KeepsGood ==
    ~spec.deletes => \A i \in Schedules : Good(backups, i) # {} =>
        /\ \E g \in Good(backups, i) :
              g \in Good(backups', i) /\ \A h \in Good(backups, i) : h = g \/ Newer(backups, g, h)
        /\ spec.retention[i].type = "count" =>
              Cardinality(Good(backups', i)) >= Min({spec.retention[i].n, Cardinality(Good(backups, i))})

(* A step of a pass that prunes, or fails while it does.                        *)
LEMMA PruneKeepsGood ==
    ASSUME SchedulerInv, ListKept, pass.at = "prune", pass.i \in Schedules, UNCHANGED spec,
           NEW some \in SUBSET ExpiredBackups(pass.list, pass.i, pass.now), backups' = MarkDeleted(some)
    PROVE  KeepsGood
<1> SUFFICES ASSUME ~spec.deletes, NEW k \in Schedules, Good(backups, k) # {}
             PROVE  /\ \E g \in Good(backups, k) :
                          g \in Good(backups', k) /\ \A h \in Good(backups, k) : h = g \/ Newer(backups, g, h)
                    /\ spec.retention[k].type = "count" =>
                          Cardinality(Good(backups', k)) >= Min({spec.retention[k].n, Cardinality(Good(backups, k))})
  BY DEF KeepsGood
<1>1. pass.list \in [Ids -> Backup] /\ spec \in Scenarios
  BY DEF SchedulerInv, TypeOK
<1>2. ASSUME NEW id \in Ids, id[1] = pass.i, Finished(pass.list[id]), ~pass.list[id].deleting
      PROVE  backups[id] = pass.list[id]
  BY <1>1, <1>2, OfScenario DEF ListKept
<1>3. \A id \in Ids : id \notin some /\ Finished(backups[id]) /\ ~backups[id].deleting
                         => backups'[id] = backups[id]
  BY DEF MarkDeleted
<1>4. Deletes(some, pass.list, pass.i, pass.now)
  BY <1>1, <1>2, <1>3 DEF Deletes
<1>5. QED
  BY <1>4, DeletingKeepsGood

(* Any other step leaves what is finished as it was.                            *)
LEMMA OthersKeepGood ==
    ASSUME SchedulerInv, UNCHANGED spec,
           ~spec.deletes => \A id \in Ids : Finished(backups[id]) /\ ~backups[id].deleting
                                              => backups'[id] = backups[id]
    PROVE  KeepsGood
<1> SUFFICES ASSUME ~spec.deletes, NEW k \in Schedules, Good(backups, k) # {}
             PROVE  /\ \E g \in Good(backups, k) :
                          g \in Good(backups', k) /\ \A h \in Good(backups, k) : h = g \/ Newer(backups, g, h)
                    /\ spec.retention[k].type = "count" =>
                          Cardinality(Good(backups', k)) >= Min({spec.retention[k].n, Cardinality(Good(backups, k))})
  BY DEF KeepsGood
<1>1. Deletes({}, backups, k, now)
  BY DEF Deletes, SchedulerInv, TypeOK
<1>2. QED
  BY <1>1, DeletingKeepsGood

LEMMA StepsKeepGood == SchedulerInv /\ ListKept /\ [Next]_vars => KeepsGood
<1> SUFFICES ASSUME SchedulerInv, ListKept, [Next]_vars PROVE KeepsGood
  OBVIOUS
<1>1. TypeOK /\ backups \in [Ids -> Backup]
  BY DEF SchedulerInv, TypeOK
<1>2. CASE UNCHANGED <<spec, backups>>
  BY <1>2, OthersKeepGood
<1>3. CASE \E i \in Schedules : ApplyRetention(i)
  BY <1>3, PruneKeepsGood DEF ApplyRetention
<1>4. CASE FailPass
  <2>1. PICK some \in SUBSET IF pass.at = "fire" THEN {}
                             ELSE ExpiredBackups(pass.list, pass.i, pass.now) :
          backups' = MarkDeleted(some)
    BY <1>4 DEF FailPass
  <2>2. CASE pass.at = "fire"
    <3>1. some = {}
      BY <2>1, <2>2
    <3>2. \A id \in Ids : backups'[id] = backups[id]
      BY <2>1, <3>1 DEF MarkDeleted
    <3>3. QED
      BY <1>4, <3>2, OthersKeepGood DEF FailPass
  <2>3. CASE pass.at = "prune"
    BY <1>4, <2>1, <2>3, PruneKeepsGood DEF FailPass
  <2>4. QED
    BY <1>4, <2>2, <2>3 DEF FailPass
<1>5. ASSUME NEW i \in Schedules, FireDueSlot(i)
      PROVE  KeepsGood
  <2>1. PICK s \in Due(i) :
          backups' = IF backups[<<i, s>>].state # "none" THEN backups
                     ELSE [backups EXCEPT ![<<i, s>>] =
                             [state |-> "running", deleting |-> FALSE, created |-> now]]
    BY <1>5 DEF FireDueSlot
  <2>2. ASSUME NEW id \in Ids, Finished(backups[id])
        PROVE  backups'[id] = backups[id]
    <3>1. CASE <<i, s>> = id
      BY <2>1, <2>2, <3>1 DEF Finished
    <3>2. CASE <<i, s>> # id
      BY <1>1, <2>1, <3>2
    <3>3. QED
      BY <3>1, <3>2
  <2>3. QED
    BY <1>5, <2>2, OthersKeepGood DEF FireDueSlot
<1>6. ASSUME NEW b \in Ids, FinishBackup(b) \/ DeleteBackup(b) \/ RemoveBackup(b)
      PROVE  KeepsGood
  <2>1. ASSUME ~spec.deletes, NEW id \in Ids, Finished(backups[id]), ~backups[id].deleting
        PROVE  backups'[id] = backups[id]
    <3>1. b # id /\ ~DeleteBackup(b)
      BY <1>6, <2>1 DEF FinishBackup, DeleteBackup, RemoveBackup, Finished
    <3>2. QED
      BY <1>1, <1>6, <3>1 DEF FinishBackup, RemoveBackup
  <2>2. QED
    BY <1>6, <2>1, OthersKeepGood DEF FinishBackup, DeleteBackup, RemoveBackup
<1>7. QED
  <2>1. CASE Reconcile
    BY <1>2, <1>3, <1>5, <2>1 DEF Reconcile, LookForSlot, StartPass, EndPass, NothingDue, HoldSlot
  <2>2. CASE Environment \/ Restart
    BY <1>2, <1>6, <2>2
       DEF Environment, Tick, TimerFires, InstanceChangesPhase, ToggleSchedule, Restart
  <2>3. QED
    BY <1>2, <1>4, <2>1, <2>2 DEF Next, vars

(* With nobody else deleting Backups, the newest success of a schedule is never  *)
(* deleted, and retention by count N leaves N of them, however much changed since *)
(* the pass read the list it decides on, and wherever a failing call stops it     *)
(* (expiredBackups, pruneSchedule).                                           *)
THEOREM RetentionIsKept == Spec => RetentionKeepsGood
<1>1. Init => ListKept
  BY DEF Init, ListKept, Idle
<1>2. SchedulerInv /\ ListKept /\ [Next]_vars => KeepsGood
  BY StepsKeepGood
<1>3. Spec => [][KeepsGood]_vars
  BY <1>1, <1>2, ListStaysKept, SchedulerIsSound, PTL DEF Spec
<1>4. [][KeepsGood]_vars => RetentionKeepsGood
  BY PTL DEF KeepsGood, RetentionKeepsGood
<1>5. QED
  BY <1>3, <1>4
=============================================================================
