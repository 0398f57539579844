--------------------------- MODULE RestorablePoints ---------------------------
(***************************************************************************)
(* What point-in-time recovery promises a user (pitr.go): the dates on offer   *)
(* only become more while the log and the full backups are kept, a Restore of   *)
(* one of them is not refused, and the latest point is not earlier than the     *)
(* latest one offered when it was asked for. PITRWindow implements this.       *)
(***************************************************************************)
EXTENDS Integers

CONSTANTS
    Backups, Restores,
    Times,   \* points of time, natural numbers
    Dates,   \* those that may be asked for
    Latest   \* asks for the latest point

VARIABLES
    logging,  \* whether a log is written
    kept,     \* the full backups there are
    offered,  \* the dates a user may count on
    asked     \* each Restore: its date, what it owes, the point it was started to, if any

vars == <<logging, kept, offered, asked>>

Unasked == [status |-> "none", date |-> Latest, owed |-> {}, points |-> {}]

Init ==
    /\ logging = FALSE /\ kept = {} /\ offered = {}
    /\ asked = [r \in Restores |-> Unasked]

Gain ==
    /\ logging => logging'
    /\ kept \subseteq kept' /\ kept' \subseteq Backups
    /\ UNCHANGED <<offered, asked>>

(* Only what is deleted takes an offer back, and what it promised.             *)
Lose ==
    /\ \/ logging /\ ~logging' /\ kept' = kept
       \/ logging' = logging /\ \E b \in kept : kept' = kept \ {b}
    /\ offered' = {}
    /\ asked' = [r \in Restores |-> [asked[r] EXCEPT !.owed = {}]]

Offer ==
    /\ logging /\ kept # {}
    /\ \E more \in SUBSET Dates : offered' = offered \cup more
    /\ UNCHANGED <<logging, kept, asked>>

Newest(S) == {d \in S : \A e \in S : e <= d}

Ask(r, d) ==
    /\ asked[r].status = "none"
    /\ asked' = [asked EXCEPT ![r] =
           [status |-> "pending", date |-> d, points |-> {},
            owed |-> IF d = Latest THEN Newest(offered) ELSE offered \cap {d}]]
    /\ UNCHANGED <<logging, kept, offered>>

Start(r, p) ==
    /\ asked[r].status = "pending" /\ asked[r].points = {}
    /\ asked[r].date # Latest => p = asked[r].date
    /\ \A d \in asked[r].owed : d <= p
    /\ asked' = [asked EXCEPT ![r].points = {p}]
    /\ UNCHANGED <<logging, kept, offered>>

(* A date that is not owed; one that was started may still be given up.         *)
Refuse(r) ==
    /\ asked[r].status = "pending" /\ asked[r].date # Latest /\ asked[r].owed = {}
    /\ asked' = [asked EXCEPT ![r].status = "failed"]
    /\ UNCHANGED <<logging, kept, offered>>

Next ==
    \/ Gain \/ Lose \/ Offer
    \/ \E r \in Restores :
         \/ \E d \in Dates \cup {Latest} : Ask(r, d)
         \/ \E p \in Times : Start(r, p)
         \/ Refuse(r)

Spec == Init /\ [][Next]_vars
=============================================================================
