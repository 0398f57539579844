----------------------------- MODULE MCLogBackup -----------------------------
(* A finite instance of LogBackup.                                           *)
EXTENDS LogBackup

CONSTANT R1

(* With current reads a restore comes beside a log backup BR refuses it for; with *)
(* stale ones the Instance has its seed only.                                 *)
Current == [lags |-> FALSE, beside |-> FALSE, asked |-> {R1}]
Stale == [lags |-> TRUE, beside |-> TRUE, asked |-> {}]

MCRestores == {Seed, R1}
MCScenarios == {Current, Stale}
=============================================================================
