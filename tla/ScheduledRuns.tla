----------------------------- MODULE ScheduledRuns -----------------------------
(***************************************************************************)
(* What scheduled backups promise (backup_schedule.go): a run starts at or     *)
(* after its slot, never beside another run of its schedule, and once. Only    *)
(* where the Backups are shared with somebody who deletes them may a slot whose *)
(* Backup is gone be taken again. BackupScheduler implements this.             *)
(***************************************************************************)
EXTENDS Naturals

CONSTANTS Slots  \* pairs of a schedule and a time

VARIABLES
    clock,
    shared,  \* whether others delete Backups
    taken,   \* the slots whose run was started
    active   \* the runs in progress

vars == <<clock, shared, taken, active>>

Init == clock = 0 /\ shared \in BOOLEAN /\ taken = {} /\ active = {}

Tick == clock' = clock + 1 /\ UNCHANGED <<shared, taken, active>>

Start(slot) ==
    /\ slot \notin taken /\ slot[2] <= clock
    /\ \A other \in active : other[1] # slot[1]
    /\ taken' = taken \cup {slot} /\ active' = active \cup {slot}
    /\ UNCHANGED <<clock, shared>>

(* The run ends, or its Backup is deleted.                                    *)
Finish(slot) ==
    /\ slot \in active /\ active' = active \ {slot}
    /\ UNCHANGED <<clock, shared, taken>>

Forget(slot) ==
    /\ shared /\ slot \in taken \ active /\ taken' = taken \ {slot}
    /\ UNCHANGED <<clock, shared, active>>

Next == Tick \/ \E slot \in Slots : Start(slot) \/ Finish(slot) \/ Forget(slot)

Spec == Init /\ [][Next]_vars
=============================================================================
