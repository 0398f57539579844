------------------------- MODULE InstanceStatusProofs -------------------------
(***************************************************************************)
(* Proofs about InstanceStatus. The phase is derived from a sync that lies in *)
(* the past, so the invariant says what that sync still knows by the time the *)
(* status is written: a data source that was done stays done, and the groups   *)
(* it applied are there.                                                     *)
(***************************************************************************)
EXTENDS InstanceStatus, TLAPS

(* What a synced reconcile knows.                                            *)
SyncKnows ==
    pass # "idle" => ClusterExists /\ (ds = "done" => restore = "succeeded")

(* A cluster that serves has its groups.                                     *)
ServingExists == phase \in {"Ready", "Updating"} => ClusterExists

StatusInv == TypeOK /\ SyncKnows /\ ReadyMeansRestored /\ ServingExists

LEMMA StatusInvInit == Init => StatusInv
BY StatusAssumption DEF Init, StatusInv, TypeOK, SyncKnows, ReadyMeansRestored, ServingExists,
   Groups, ClusterExists

(* Groups go only when nobody wants them, and the core ones are wanted.       *)
LEMMA GroupsStay ==
    ASSUME TypeOK, NEW g \in Groups, Operator(g), ClusterExists
    PROVE  ClusterExists'
BY StatusAssumption DEF TypeOK, Operator, RollGroup, GroupAdvances, RemoveGroup, GetStuck, Recover,
   ClusterExists, Groups

LEMMA StatusInvNext == StatusInv /\ [Next]_vars => StatusInv'
<1> SUFFICES ASSUME StatusInv, [Next]_vars PROVE StatusInv'
    OBVIOUS
<1> USE DEF StatusInv
<1>1. CASE Sync
  <2>1. TypeOK'
    BY <1>1, StatusAssumption DEF TypeOK, Sync, DataSourceStatus, Groups
  <2>2. SyncKnows'
    BY <1>1, StatusAssumption DEF TypeOK, SyncKnows, Sync, DataSourceStatus, ClusterExists, Groups
  <2>3. ReadyMeansRestored' /\ ServingExists'
    BY <1>1, StatusAssumption
       DEF TypeOK, ReadyMeansRestored, ServingExists, Sync, ClusterExists, Groups
  <2>4. QED
    BY <2>1, <2>2, <2>3
<1>2. CASE Status
  <2>1. NextPhase \in {"Restoring", "Provisioning", "Failed", "Ready", "Updating"}
    BY DEF NextPhase
  <2>2. TypeOK' /\ SyncKnows'
    BY <1>2, <2>1 DEF TypeOK, SyncKnows, Status
  <2>3. NextPhase \in {"Ready", "Updating"} => ClusterExists /\ ds \notin {"waiting", "restoring"}
    BY DEF NextPhase
  <2>4. ReadyMeansRestored'
    BY <1>2, <2>3 DEF TypeOK, SyncKnows, ReadyMeansRestored, Status
  <2>5. ServingExists'
    BY <1>2, <2>3 DEF ServingExists, Status, ClusterExists
  <2>6. QED
    BY <2>2, <2>4, <2>5
<1>9. CASE MissGroup
  BY <1>9 DEF TypeOK, SyncKnows, ReadyMeansRestored, ServingExists, MissGroup, ClusterExists
<1>3. CASE AbortPass
  BY <1>3 DEF TypeOK, SyncKnows, ReadyMeansRestored, ServingExists, AbortPass, ClusterExists
<1>4. CASE RestoreSucceeds
  BY <1>4 DEF TypeOK, SyncKnows, ReadyMeansRestored, ServingExists, RestoreSucceeds, ClusterExists
<1>5. CASE \E g \in Groups : ToggleGroup(g)
  BY <1>5, StatusAssumption DEF TypeOK, SyncKnows, ReadyMeansRestored, ServingExists, ToggleGroup,
     ClusterExists, Groups
<1>6. CASE \E g \in Groups : Operator(g)
  <2>1. PICK g \in Groups : Operator(g)
    BY <1>6
  <2>2. TypeOK'
    BY <2>1 DEF TypeOK, Operator, RollGroup, GroupAdvances, RemoveGroup, GetStuck, Recover
  <2>3. UNCHANGED <<pass, ds, restore, phase>>
    BY <2>1 DEF Operator, RollGroup, GroupAdvances, RemoveGroup, GetStuck, Recover
  <2>4. QED
    BY <2>1, <2>2, <2>3, GroupsStay DEF SyncKnows, ReadyMeansRestored, ServingExists
<1>7. CASE UNCHANGED vars
  BY <1>7 DEF vars, TypeOK, SyncKnows, ReadyMeansRestored, ServingExists, ClusterExists
<1>8. QED
  BY <1>1, <1>2, <1>3, <1>4, <1>5, <1>6, <1>7, <1>9 DEF Next

LEMMA StatusInvariant == Spec => []StatusInv
<1>1. Init => StatusInv
  BY StatusInvInit
<1>2. StatusInv /\ [Next]_vars => StatusInv'
  BY StatusInvNext
<1>3. QED
  BY <1>1, <1>2, PTL DEF Spec

(* An Instance never serves before its initial data is there, whatever groups  *)
(* it has and however they change between a sync and its status (StatusTiDB).  *)
THEOREM SeededBeforeServing == Spec => []ReadyMeansRestored
<1>1. StatusInv => ReadyMeansRestored
  BY DEF StatusInv
<1>2. QED
  BY <1>1, StatusInvariant, PTL

(* The variables stay in their ranges, for every set of groups.               *)
THEOREM StatusTypeCorrect == Spec => []TypeOK
<1>1. StatusInv => TypeOK
  BY DEF StatusInv
<1>2. QED
  BY <1>1, StatusInvariant, PTL

(* No rollout, no group that is added or removed, and no read that misses an   *)
(* optional group sets a serving Instance back to Provisioning: only a core    *)
(* group that could not be read does (StatusTiDB, evaluateStatus).            *)
THEOREM UpdatesAreUpdates == Spec => UpdatesStayUpdates
<1>1. StatusInv /\ [Next]_vars
        => [(phase \in {"Ready", "Updating"} /\ phase' = "Provisioning") => pass = "blind"]_phase
  <2> SUFFICES ASSUME StatusInv, [Next]_vars, phase' # phase, phase \in {"Ready", "Updating"},
                      phase' = "Provisioning"
               PROVE  pass = "blind"
      OBVIOUS
  <2>1. Status
    BY DEF Next, vars, Sync, MissGroup, AbortPass, RestoreSucceeds, ToggleGroup, Operator,
       RollGroup, GroupAdvances, RemoveGroup, GetStuck, Recover
  <2>2. ClusterExists
    BY DEF StatusInv, ServingExists
  <2>3. QED
    BY <2>1, <2>2 DEF Status, NextPhase
<1>2. QED
  BY <1>1, StatusInvariant, PTL DEF Spec, UpdatesStayUpdates
=============================================================================
