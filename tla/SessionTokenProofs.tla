-------------------------- MODULE SessionTokenProofs --------------------------
(***************************************************************************)
(* Proofs about SessionToken, for any number of TiDB instances and any         *)
(* failures, with reads of the Cluster that are up to date. A pass decides on  *)
(* the gates before it writes them, so the invariant carries what it saw to     *)
(* the write: that the instances were ready cannot be undone meanwhile,        *)
(* because they only inherit gates the Cluster has.                           *)
(***************************************************************************)
EXTENDS SessionToken, TLAPS

(* Every object exists only below one that does.                              *)
Owned ==
    /\ pass.at \in {"leaf", "group"} => cluster.exists
    /\ group.exists => cluster.exists
    /\ \A i \in Tidbs : tidb[i].exists => group.exists
    /\ ~cluster.exists => cluster.gates = {}

(* Gates travel from the Cluster to the group to the instances.               *)
Inherited ==
    /\ group.gates \subseteq cluster.gates
    /\ \A i \in Tidbs : tidb[i].gates \subseteq cluster.gates /\ (~tidb[i].exists => tidb[i].gates = {})

InstancesReady ==
    /\ group.exists => FM \in group.gates
    /\ \A i \in Tidbs : tidb[i].exists => FM \in tidb[i].gates

(* What a pass that is about to write an existing Cluster knows.              *)
PassKnows ==
    pass.at = "cluster" /\ cluster.exists =>
        /\ cluster.gates \subseteq pass.gates
        /\ CRDAccepts(cluster.gates, pass.gates)
        /\ SS \in pass.gates \ cluster.gates => FM \in cluster.gates /\ secret /\ InstancesReady

SecretReady == (group.exists \/ pass.at = "group") /\ SS \in cluster.gates => secret

SigningInv ==
    TypeOK /\ Owned /\ Inherited /\ PassKnows /\ SecretReady /\ NoVolumeAddedInPlace

(* The gates and the records the actions build.                               *)
LEMMA GateFacts ==
    /\ FM # SS /\ Gates \in GateSets /\ {} \in GateSets /\ {FM} \in GateSets
    /\ \A g \in GateSets : SS \in g => FM \in g
    /\ \A g \in GateSets : g \subseteq Gates
BY DEF FM, SS, Gates, GateSets

LEMMA ObjectFacts ==
    /\ NoObject \in Object /\ NoObject.exists = FALSE /\ NoObject.gates = {}
    /\ \A g \in GateSets : With(g) \in Object /\ With(g).exists = TRUE /\ With(g).gates = g
BY GateFacts DEF NoObject, Object, With

LEMMA NewGates == \A proxy \in BOOLEAN : NewClusterGates(proxy) \in GateSets
BY GateFacts DEF NewClusterGates

(* The next step of an existing Cluster only adds, one gate at a time, and     *)
(* SessionTokenSigning only when everything is ready for it.                  *)
LEMMA ExistingGates ==
    ASSUME NEW proxy \in BOOLEAN, NEW gates \in GateSets
    PROVE  /\ ExistingClusterGates(proxy, gates) \in GateSets
           /\ gates \subseteq ExistingClusterGates(proxy, gates)
           /\ CRDAccepts(gates, ExistingClusterGates(proxy, gates))
           /\ SS \in ExistingClusterGates(proxy, gates) \ gates =>
                FM \in gates /\ ReadyForSessionTokenSigning
<1> DEFINE new == ExistingClusterGates(proxy, gates)
<1>1. new \subseteq Gates /\ gates \subseteq new
  BY GateFacts DEF ExistingClusterGates
<1>2. SS \in new \ gates => FM \in gates /\ ReadyForSessionTokenSigning
  BY GateFacts DEF ExistingClusterGates
<1>3. SS \in new => FM \in new
  BY <1>1, <1>2, GateFacts
<1>4. new \in GateSets
  BY <1>1, <1>3, GateFacts DEF GateSets, Gates
<1>5. FM \in gates \/ new = gates \/ new = gates \cup {FM}
  BY <1>1, <1>2, GateFacts DEF Gates
<1>6. QED
  BY <1>1, <1>2, <1>4, <1>5 DEF CRDAccepts

LEMMA SigningInvInit == Init => SigningInv
<1> SUFFICES ASSUME Init PROVE SigningInv
    OBVIOUS
<1>1. TypeOK
  BY GateFacts, ObjectFacts DEF Init, TypeOK, NoGroup, Idle
<1>2. Owned /\ Inherited /\ PassKnows /\ SecretReady /\ NoVolumeAddedInPlace
  BY ObjectFacts DEF Init, Owned, Inherited, PassKnows, SecretReady, NoVolumeAddedInPlace,
     NoGroup, Idle
<1>3. QED
  BY <1>1, <1>2 DEF SigningInv

(* TiDB Operator's steps disturb none of what the provider knows.             *)
LEMMA OperatorKeeps ==
    ASSUME ~lags, SigningInv, Operator
    PROVE  SigningInv'
<1> USE DEF SigningInv
<1>1. UNCHANGED <<tiproxy, cluster, secret, pass>> /\ seen' = cluster' /\ lags' = lags
  BY DEF Operator, SyncGroupFeatures, AddInstance, UpdateInstance, RemoveInstance, CacheStays
<1>2. CASE SyncGroupFeatures
  <2>1. /\ UNCHANGED tidb /\ group.exists /\ group'.exists
        /\ group'.gates = cluster.gates /\ group'.wait = group.wait
        /\ group' \in [exists : BOOLEAN, gates : GateSets, wait : BOOLEAN]
    BY <1>2 DEF SyncGroupFeatures, TypeOK, Object
  <2>2. TypeOK'
    BY <1>1, <2>1 DEF TypeOK
  <2>3. Owned' /\ Inherited' /\ SecretReady' /\ NoVolumeAddedInPlace'
    BY <1>1, <2>1 DEF Owned, Inherited, SecretReady, NoVolumeAddedInPlace
  <2>4. PassKnows'
    BY <1>1, <2>1 DEF PassKnows, InstancesReady
  <2>5. QED
    BY <2>2, <2>3, <2>4
<1>3. ASSUME NEW i \in Tidbs, AddInstance(i) \/ UpdateInstance(i)
      PROVE  SigningInv'
  <2>1. /\ UNCHANGED group /\ group.exists /\ group.gates = cluster.gates
        /\ tidb' = [tidb EXCEPT ![i] = With(group.gates)]
    BY <1>3 DEF AddInstance, UpdateInstance, CaughtUp
  <2>2. group.gates \in GateSets
    BY DEF TypeOK
  <2>3. /\ tidb' \in [Tidbs -> Object]
        /\ tidb'[i].exists /\ tidb'[i].gates = cluster.gates
        /\ \A j \in Tidbs \ {i} : tidb'[j] = tidb[j]
    BY <2>1, <2>2, ObjectFacts DEF TypeOK
  <2>4. TypeOK'
    BY <1>1, <2>1, <2>3 DEF TypeOK
  <2>5. Owned' /\ Inherited' /\ SecretReady'
    BY <1>1, <2>1, <2>3 DEF Owned, Inherited, SecretReady
  <2>6. NoVolumeAddedInPlace'
    BY <1>1, <2>1, <2>2, <2>3, GateFacts DEF NoVolumeAddedInPlace
  <2>7. PassKnows'
    BY <1>1, <2>1, <2>3 DEF PassKnows, InstancesReady
  <2>8. QED
    BY <2>4, <2>5, <2>6, <2>7
<1>4. ASSUME NEW i \in Tidbs, RemoveInstance(i)
      PROVE  SigningInv'
  <2>1. /\ UNCHANGED group
        /\ tidb' \in [Tidbs -> Object] /\ ~tidb'[i].exists /\ tidb'[i].gates = {}
        /\ \A j \in Tidbs \ {i} : tidb'[j] = tidb[j]
    BY <1>4, ObjectFacts DEF RemoveInstance, TypeOK
  <2>2. TypeOK'
    BY <1>1, <2>1 DEF TypeOK
  <2>3. Owned' /\ Inherited' /\ SecretReady' /\ NoVolumeAddedInPlace'
    BY <1>1, <2>1 DEF Owned, Inherited, SecretReady, NoVolumeAddedInPlace
  <2>4. PassKnows'
    BY <1>1, <2>1 DEF PassKnows, InstancesReady
  <2>5. QED
    BY <2>2, <2>3, <2>4
<1>5. QED
  BY <1>2, <1>3, <1>4 DEF Operator

LEMMA StartPassKeeps ==
    ASSUME ~lags, SigningInv, StartPass
    PROVE  SigningInv'
<1> USE DEF SigningInv
<1>1. /\ UNCHANGED <<tiproxy, cluster, secret, group, tidb>> /\ seen' = cluster' /\ lags' = lags
      /\ pass'.at = "cluster" /\ pass'.tiproxy = tiproxy
      /\ pass'.had = (SS \in cluster.gates)
      /\ pass'.gates = IF cluster.exists THEN ExistingClusterGates(tiproxy, cluster.gates)
                       ELSE NewClusterGates(tiproxy)
      /\ pass' = [at |-> pass'.at, tiproxy |-> pass'.tiproxy, had |-> pass'.had, gates |-> pass'.gates]
  BY DEF StartPass, CacheStays, View
<1>2. tiproxy \in BOOLEAN /\ cluster.gates \in GateSets
  BY DEF TypeOK, Object
<1>3. pass'.gates \in GateSets
  BY <1>1, <1>2, NewGates, ExistingGates
<1>4. TypeOK'
  <2>1. (SS \in cluster.gates) \in BOOLEAN
    OBVIOUS
  <2>2. pass' \in [at : {"idle", "cluster", "leaf", "group", "done"},
                   tiproxy : BOOLEAN, gates : GateSets, had : BOOLEAN]
    BY <2>1, <1>1, <1>2, <1>3
  <2>3. QED
    BY <1>1, <2>2 DEF TypeOK
<1>5. ReadyForSessionTokenSigning => secret /\ InstancesReady
  BY DEF ReadyForSessionTokenSigning, InstancesReady, Owned
<1>6. PassKnows'
  BY <1>1, <1>2, <1>5, ExistingGates DEF PassKnows, InstancesReady
<1>7. Owned' /\ Inherited' /\ SecretReady' /\ NoVolumeAddedInPlace'
  BY <1>1 DEF Owned, Inherited, SecretReady, NoVolumeAddedInPlace
<1>8. QED
  BY <1>4, <1>6, <1>7

LEMMA ApplyClusterKeeps ==
    ASSUME ~lags, SigningInv, ApplyCluster
    PROVE  SigningInv'
<1> USE DEF SigningInv
<1>1. /\ UNCHANGED <<tiproxy, secret, group, tidb>> /\ seen' = cluster' /\ lags' = lags
      /\ pass.at = "cluster" /\ cluster' = With(pass.gates) /\ pass' = [pass EXCEPT !.at = "leaf"]
  BY DEF ApplyCluster, CacheStays
<1>2. /\ pass.gates \in GateSets /\ cluster' \in Object
      /\ cluster'.exists /\ cluster'.gates = pass.gates
  BY <1>1, ObjectFacts DEF TypeOK
<1>3. pass'.at = "leaf" /\ pass' \in [at : {"idle", "cluster", "leaf", "group", "done"},
                                       tiproxy : BOOLEAN, gates : GateSets, had : BOOLEAN]
  BY <1>1 DEF TypeOK
<1>4. TypeOK'
  BY <1>1, <1>2, <1>3 DEF TypeOK
<1>5. cluster.gates \subseteq cluster'.gates
  BY <1>1, <1>2 DEF PassKnows, Owned
<1>6. Owned' /\ Inherited' /\ PassKnows'
  BY <1>1, <1>2, <1>3, <1>5 DEF Owned, Inherited, PassKnows
<1>7. SecretReady'
  BY <1>1, <1>2, <1>3 DEF SecretReady, PassKnows, Owned
<1>8. NoVolumeAddedInPlace'
  BY <1>1, <1>2 DEF NoVolumeAddedInPlace, PassKnows, InstancesReady, Owned
<1>9. QED
  BY <1>4, <1>6, <1>7, <1>8

LEMMA EnsureSecretKeeps ==
    ASSUME ~lags, SigningInv, EnsureSigningSecret
    PROVE  SigningInv'
<1> USE DEF SigningInv
<1>1. /\ UNCHANGED <<tiproxy, cluster, group, tidb>> /\ seen' = cluster' /\ lags' = lags
      /\ pass.at = "leaf" /\ cluster.exists /\ pass' = [pass EXCEPT !.at = "group"]
      /\ secret' = (secret \/ pass.tiproxy \/ SS \in cluster.gates)
  BY DEF EnsureSigningSecret, CacheStays, View, UsesSessionTokenSigning
<1>2. pass'.at = "group" /\ pass' \in [at : {"idle", "cluster", "leaf", "group", "done"},
                                        tiproxy : BOOLEAN, gates : GateSets, had : BOOLEAN]
  BY <1>1 DEF TypeOK
<1>3. secret' \in BOOLEAN /\ (secret => secret') /\ (SS \in cluster.gates => secret')
  BY <1>1 DEF TypeOK
<1>4. TypeOK'
  BY <1>1, <1>2, <1>3 DEF TypeOK
<1>5. Owned' /\ Inherited' /\ PassKnows' /\ SecretReady' /\ NoVolumeAddedInPlace'
  BY <1>1, <1>2, <1>3 DEF Owned, Inherited, PassKnows, SecretReady, NoVolumeAddedInPlace
<1>6. QED
  BY <1>4, <1>5

LEMMA ApplyGroupKeeps ==
    ASSUME ~lags, SigningInv, ApplyTiDBGroup
    PROVE  SigningInv'
<1> USE DEF SigningInv
<1>1. /\ UNCHANGED <<tiproxy, cluster, secret, tidb>> /\ seen' = cluster' /\ lags' = lags
      /\ pass.at = "group" /\ pass' = [pass EXCEPT !.at = "done"]
      /\ group' = [exists |-> TRUE, gates |-> group.gates, wait |-> Waits]
  BY DEF ApplyTiDBGroup, CacheStays
<1>2. pass'.at = "done" /\ pass' \in [at : {"idle", "cluster", "leaf", "group", "done"},
                                       tiproxy : BOOLEAN, gates : GateSets, had : BOOLEAN]
  BY <1>1 DEF TypeOK
<1>3. Waits \in BOOLEAN
  BY DEF Waits, TypeOK
<1>4. /\ group'.exists /\ group'.gates = group.gates
      /\ group' \in [exists : BOOLEAN, gates : GateSets, wait : BOOLEAN]
  BY <1>1, <1>3 DEF TypeOK
<1>5. TypeOK'
  BY <1>1, <1>2, <1>4 DEF TypeOK
<1>6. Owned' /\ Inherited' /\ PassKnows' /\ SecretReady' /\ NoVolumeAddedInPlace'
  BY <1>1, <1>2, <1>4 DEF Owned, Inherited, PassKnows, SecretReady, NoVolumeAddedInPlace
<1>7. QED
  BY <1>5, <1>6

LEMMA LagsStay == [Next]_vars => lags' = lags
BY DEF Next, Sync, Operator, ToggleTiProxy, StartPass, AbortPass, ApplyCluster, RejectedApply,
   EnsureSigningSecret, OwnerNotSeen, ApplyTiDBGroup, SyncGroupFeatures, AddInstance,
   UpdateInstance, RemoveInstance, RefreshCache, CacheStays, vars

LEMMA SigningInvNext == ~lags /\ SigningInv /\ [Next]_vars => SigningInv'
<1> SUFFICES ASSUME ~lags, SigningInv, [Next]_vars PROVE SigningInv'
    OBVIOUS
<1>1. CASE ToggleTiProxy \/ RefreshCache \/ UNCHANGED vars
  <2>1. UNCHANGED <<cluster, secret, group, tidb, pass, lags>> /\ tiproxy' \in BOOLEAN /\ seen' \in Object
    BY <1>1 DEF ToggleTiProxy, RefreshCache, CacheStays, vars, SigningInv, TypeOK
  <2>2. QED
    BY <2>1 DEF SigningInv, TypeOK, Owned, Inherited, PassKnows, InstancesReady, SecretReady,
       NoVolumeAddedInPlace
<1>2. CASE AbortPass \/ RejectedApply \/ OwnerNotSeen
  <2>1. UNCHANGED <<tiproxy, cluster, secret, group, tidb>> /\ pass' = Idle /\ seen' = cluster' /\ lags' = lags
    BY <1>2 DEF AbortPass, RejectedApply, OwnerNotSeen, CacheStays
  <2>2. pass'.at = "idle" /\ pass' \in [at : {"idle", "cluster", "leaf", "group", "done"},
                                         tiproxy : BOOLEAN, gates : GateSets, had : BOOLEAN]
    BY <2>1, GateFacts DEF Idle
  <2>3. QED
    BY <2>1, <2>2 DEF SigningInv, TypeOK, Owned, Inherited, PassKnows, SecretReady,
       NoVolumeAddedInPlace
<1>3. QED
  BY <1>1, <1>2, OperatorKeeps, StartPassKeeps, ApplyClusterKeeps, EnsureSecretKeeps,
     ApplyGroupKeeps DEF Next, Sync

LEMMA SigningInvariant == Spec => [](~lags => SigningInv)
<1>1. Init => (~lags => SigningInv)
  BY SigningInvInit
<1>2. (~lags => SigningInv) /\ [Next]_vars => (~lags => SigningInv)'
  BY SigningInvNext, LagsStay
<1>3. QED
  BY <1>1, <1>2, PTL DEF Spec

(* The signing volume is never added to a running pod.                        *)
THEOREM VolumesByReplacement == Spec => []NoVolumeAddedInPlace
<1>1. (~lags => SigningInv) => NoVolumeAddedInPlace
  BY DEF SigningInv, NoVolumeAddedInPlace
<1>2. QED
  BY <1>1, SigningInvariant, PTL

(* No instance signs without the Secret it mounts.                            *)
THEOREM SecretsBeforePods == Spec => []MountedSecretExists
<1>1. (~lags => SigningInv) => MountedSecretExists
  <2> SUFFICES ASSUME SigningInv, ~lags, NEW i \in Tidbs, SS \in tidb[i].gates PROVE secret
      BY DEF MountedSecretExists
  <2>1. SS \in cluster.gates /\ tidb[i].exists
    BY DEF SigningInv, Inherited
  <2>2. QED
    BY <2>1 DEF SigningInv, Owned, SecretReady
<1>2. QED
  BY <1>1, SigningInvariant, PTL

(* The API server accepts every change of the gates.                          *)
THEOREM GateChangesAccepted == Spec => []NeverRejected
<1>1. (~lags => SigningInv) => NeverRejected
  BY DEF SigningInv, PassKnows, NeverRejected, Acceptable
<1>2. QED
  BY <1>1, SigningInvariant, PTL

(* No gate is ever taken away.                                               *)
THEOREM GatesAreKept == Spec => GatesStay
<1>1. (~lags => SigningInv) /\ [Next]_vars => [~lags => cluster.gates \subseteq cluster'.gates]_cluster
  <2> SUFFICES ASSUME SigningInv, ~lags, [Next]_vars, cluster' # cluster
               PROVE  cluster.gates \subseteq cluster'.gates
      OBVIOUS
  <2>1. ApplyCluster
    BY DEF Next, vars, ToggleTiProxy, Sync, StartPass, AbortPass, RejectedApply,
       EnsureSigningSecret, OwnerNotSeen, ApplyTiDBGroup, Operator, SyncGroupFeatures,
       AddInstance, UpdateInstance, RemoveInstance, RefreshCache
  <2>2. cluster'.gates = pass.gates /\ pass.at = "cluster"
    BY <2>1, ObjectFacts DEF ApplyCluster, SigningInv, TypeOK
  <2>3. QED
    BY <2>2 DEF SigningInv, PassKnows, Owned
<1>2. QED
  BY <1>1, SigningInvariant, PTL DEF Spec, GatesStay

(* Every variable keeps its type, with stale reads of the Cluster too.         *)
THEOREM SigningTypeCorrect == Spec => []TypeOK
<1> DEFINE PassType == [at : {"idle", "cluster", "leaf", "group", "done"},
                        tiproxy : BOOLEAN, gates : GateSets, had : BOOLEAN]
           GroupType == [exists : BOOLEAN, gates : GateSets, wait : BOOLEAN]
<1>1. Init => TypeOK
  BY SigningInvInit DEF SigningInv
<1>2. ASSUME TypeOK, [Next]_vars PROVE TypeOK'
  <2>1. /\ {tiproxy, secret, lags} \subseteq BOOLEAN /\ cluster \in Object /\ seen \in Object
        /\ View \in Object /\ View.gates \in GateSets /\ cluster.gates \in GateSets
        /\ group \in GroupType /\ tidb \in [Tidbs -> Object] /\ pass \in PassType /\ Idle \in PassType
    BY <1>2, GateFacts DEF TypeOK, View, Object, Idle
  <2>2. cluster' \in Object => seen' \in Object /\ lags' \in BOOLEAN
    BY <1>2, <2>1 DEF Next, Sync, Operator, ToggleTiProxy, StartPass, AbortPass, ApplyCluster,
       RejectedApply, EnsureSigningSecret, OwnerNotSeen, ApplyTiDBGroup, SyncGroupFeatures, AddInstance,
       UpdateInstance, RemoveInstance, RefreshCache, CacheStays, vars
  <2>3. CASE StartPass
    <3>1. IF View.exists THEN ExistingClusterGates(tiproxy, View.gates) \in GateSets
          ELSE NewClusterGates(tiproxy) \in GateSets
      BY <2>1, ExistingGates, NewGates
    <3>2. (SS \in View.gates) \in BOOLEAN
      OBVIOUS
    <3>3. pass' \in PassType
      BY <2>1, <2>3, <3>1, <3>2 DEF StartPass
    <3>4. QED
      BY <2>1, <2>2, <2>3, <3>3 DEF StartPass, TypeOK
  <2>4. CASE ApplyCluster
    <3>1. cluster' \in Object /\ pass' \in PassType
      BY <2>1, <2>4, ObjectFacts DEF ApplyCluster
    <3>2. QED
      BY <2>1, <2>2, <2>4, <3>1 DEF ApplyCluster, TypeOK
  <2>5. CASE EnsureSigningSecret
    <3>1. secret' \in BOOLEAN /\ pass' \in PassType
      BY <2>1, <2>5 DEF EnsureSigningSecret, UsesSessionTokenSigning
    <3>2. QED
      BY <2>1, <2>2, <2>5, <3>1 DEF EnsureSigningSecret, TypeOK
  <2>6. CASE ApplyTiDBGroup
    <3>1. Waits \in BOOLEAN
      BY <2>1 DEF Waits
    <3>2. group' \in GroupType /\ pass' \in PassType
      BY <2>1, <2>6, <3>1 DEF ApplyTiDBGroup
    <3>3. QED
      BY <2>1, <2>2, <2>6, <3>2 DEF ApplyTiDBGroup, TypeOK
  <2>7. CASE AbortPass \/ RejectedApply \/ OwnerNotSeen \/ ToggleTiProxy \/ RefreshCache \/ UNCHANGED vars
    <3>1. pass' \in {pass, Idle} /\ tiproxy' \in BOOLEAN /\ UNCHANGED <<cluster, secret, group, tidb>>
      BY <2>1, <2>7 DEF AbortPass, RejectedApply, OwnerNotSeen, ToggleTiProxy, RefreshCache, vars
    <3>2. QED
      BY <2>1, <2>2, <3>1 DEF TypeOK
  <2>8. CASE SyncGroupFeatures
    <3>1. group' \in GroupType
      BY <2>1, <2>8 DEF SyncGroupFeatures
    <3>2. QED
      BY <2>1, <2>2, <2>8, <3>1 DEF SyncGroupFeatures, TypeOK
  <2>9. ASSUME NEW i \in Tidbs, AddInstance(i) \/ UpdateInstance(i) \/ RemoveInstance(i) PROVE TypeOK'
    <3>1. \E new \in Object : tidb' = [tidb EXCEPT ![i] = new]
      BY <2>1, <2>9, ObjectFacts DEF AddInstance, UpdateInstance, RemoveInstance
    <3>2. UNCHANGED <<tiproxy, cluster, secret, group, pass>>
      BY <2>9 DEF AddInstance, UpdateInstance, RemoveInstance
    <3>3. QED
      BY <2>1, <2>2, <3>1, <3>2 DEF TypeOK
  <2>10. QED
    BY <1>2, <2>3, <2>4, <2>5, <2>6, <2>7, <2>8, <2>9 DEF Next, Sync, Operator
<1>3. QED
  BY <1>1, <1>2, PTL DEF Spec
=============================================================================
