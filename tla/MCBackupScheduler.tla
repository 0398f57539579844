--------------------------- MODULE MCBackupScheduler ---------------------------
(* Finite instances of BackupScheduler.                                       *)
EXTENDS BackupScheduler

KeepOne == [type |-> "count", n |-> 1]
KeepRecent == [type |-> "time", n |-> 1]

(* One schedule with slots for retention to bite, one with retention by age,  *)
(* one whose Backups others delete, and two of which the first wakes later.   *)
Counted == [cron |-> <<{0, 1, 2}>>, retention |-> <<KeepOne>>, editable |-> {1}, deletes |-> FALSE, until |-> 2]
Aged == [cron |-> <<{0, 1, 3}>>, retention |-> <<KeepRecent>>, editable |-> {}, deletes |-> FALSE, until |-> 3]
Meddled == [cron |-> <<{0, 1}>>, retention |-> <<KeepOne>>, editable |-> {}, deletes |-> TRUE, until |-> 2]
Two == [cron |-> <<{1}, {0}>>, retention |-> <<KeepOne, KeepRecent>>, editable |-> {}, deletes |-> FALSE, until |-> 2]

AllScenarios == {Counted, Aged, Meddled, Two}
=============================================================================
