----------------------------- MODULE SessionToken -----------------------------
(***************************************************************************)
(* Turning on session token signing for TiProxy (session_token.go, and the   *)
(* part of SyncTiDB and buildCluster in sync.go that drives it). The Cluster *)
(* CRD freezes feature gates until FeatureModification is on, and a TiDB      *)
(* instance without FeatureModification cannot take a new volume, so the     *)
(* provider steps: FeatureModification, wait for every TiDB instance, then    *)
(* SessionTokenSigning. The signing Secret must be there before a pod mounts  *)
(* it, and TiDB's graceful shutdown wait should ride on the same roll.        *)
(*                                                                           *)
(* A Sync pass reads the Cluster, applies it, issues the signing Secret and   *)
(* applies the TiDB group; it may fail after each of them, while the user     *)
(* toggles TiProxy and TiDB Operator passes features on to the instances.     *)
(***************************************************************************)
EXTENDS FiniteSets

CONSTANT Tidbs  \* names a TiDB instance may have

VARIABLES
    tiproxy,  \* enabledTiProxy(.spec.components)
    cluster,  \* the Cluster: whether it exists, and its feature gates
    seen,     \* the Cluster as the informer cache last showed it
    secret,   \* whether the session token signing Secret exists
    group,    \* the TiDB group: its features and whether its config waits
    tidb,     \* each TiDB instance: whether it exists, and its features
    pass,     \* the Sync pass
    lags      \* whether reads of the Cluster may be stale; it never changes

vars == <<tiproxy, cluster, seen, secret, group, tidb, pass, lags>>

FM == "FeatureModification"
SS == "SessionTokenSigning"
Gates == {FM, SS}

(* SessionTokenSigning never stands without FeatureModification.              *)
GateSets == {{}, {FM}, Gates}

Object == [exists : BOOLEAN, gates : GateSets]
NoObject == [exists |-> FALSE, gates |-> {}]
With(g) == [exists |-> TRUE, gates |-> g]
NoGroup == [exists |-> FALSE, gates |-> {}, wait |-> FALSE]

(* at: before "cluster", "leaf" and "group" are written; "done" once all are. *)
(* gates is the Cluster as the pass applies it, had whether the Cluster had   *)
(* SessionTokenSigning before the pass.                                      *)
Idle == [at |-> "idle", tiproxy |-> FALSE, gates |-> {}, had |-> FALSE]

Init ==
    /\ tiproxy \in BOOLEAN
    /\ cluster = NoObject /\ seen = NoObject /\ secret = FALSE
    /\ group = NoGroup /\ tidb = [i \in Tidbs |-> NoObject] /\ pass = Idle
    /\ lags \in BOOLEAN

View == IF lags THEN seen ELSE cluster
CacheStays == seen' = (IF lags THEN seen ELSE cluster') /\ UNCHANGED lags

ToggleTiProxy ==
    /\ tiproxy' = ~tiproxy
    /\ UNCHANGED <<cluster, secret, group, tidb, pass>> /\ CacheStays

-----------------------------------------------------------------------------
(* Mutant: only the group is asked, not its instances.                        *)
ReadyByGroup == secret /\ (group.exists => FM \in group.gates)

ReadyForSessionTokenSigning ==
    /\ secret
    /\ group.exists =>
         /\ FM \in group.gates
         /\ \A i \in Tidbs : tidb[i].exists => FM \in tidb[i].gates

NewClusterGates(proxy) == IF proxy THEN Gates ELSE {}

(* Mutants: the gates follow TiProxy; both gates are asked for at once.       *)
GatesFollowTiProxy(proxy, gates) ==
    IF ~proxy THEN {}
    ELSE {FM} \cup IF FM \in gates /\ ReadyForSessionTokenSigning THEN {SS} ELSE {}
BothGatesAtOnce(proxy, gates) ==
    {g \in Gates : g \in gates \/ (proxy /\ ReadyForSessionTokenSigning)}

(* What the Cluster has stays; FeatureModification comes with TiProxy,        *)
(* SessionTokenSigning a pass or more later.                                 *)
ExistingClusterGates(proxy, gates) ==
    {g \in Gates :
        \/ g \in gates
        \/ proxy /\ g = FM
        \/ proxy /\ g = SS /\ FM \in gates /\ ReadyForSessionTokenSigning}

StartPass ==
    /\ pass.at \in {"idle", "done"}
    /\ pass' = [at |-> "cluster", tiproxy |-> tiproxy, had |-> SS \in View.gates,
                gates |-> IF View.exists THEN ExistingClusterGates(tiproxy, View.gates)
                          ELSE NewClusterGates(tiproxy)]
    /\ UNCHANGED <<tiproxy, cluster, secret, group, tidb>> /\ CacheStays

AbortPass ==
    /\ pass.at \in {"cluster", "leaf", "group"}
    /\ pass' = Idle
    /\ UNCHANGED <<tiproxy, cluster, secret, group, tidb>> /\ CacheStays

(* The CRD takes new gates only beside FeatureModification, which may be      *)
(* added on its own.                                                         *)
CRDAccepts(old, new) == new = old \/ FM \in old \/ new = old \cup {FM}

Acceptable == cluster.exists => CRDAccepts(cluster.gates, pass.gates)

ApplyCluster ==
    /\ pass.at = "cluster" /\ Acceptable
    /\ cluster' = With(pass.gates)
    /\ pass' = [pass EXCEPT !.at = "leaf"]
    /\ UNCHANGED <<tiproxy, secret, group, tidb>> /\ CacheStays

RejectedApply ==
    /\ pass.at = "cluster" /\ ~Acceptable
    /\ pass' = Idle
    /\ UNCHANGED <<tiproxy, cluster, secret, group, tidb>> /\ CacheStays

(* Mutants: only a Cluster that already signs gets the Secret; only TiProxy   *)
(* does.                                                                     *)
UsedByCluster == SS \in View.gates
UsedByTiProxy == pass.tiproxy

(* usesSessionTokenSigning, on the Cluster re-read from the cache.            *)
UsesSessionTokenSigning == pass.tiproxy \/ SS \in View.gates

EnsureSigningSecret ==
    /\ pass.at = "leaf" /\ View.exists
    /\ secret' = (secret \/ UsesSessionTokenSigning)
    /\ pass' = [pass EXCEPT !.at = "group"]
    /\ UNCHANGED <<tiproxy, cluster, group, tidb>> /\ CacheStays

(* The re-read of the Cluster fails while the cache does not show it.         *)
OwnerNotSeen ==
    /\ pass.at = "leaf" /\ ~View.exists
    /\ pass' = Idle
    /\ UNCHANGED <<tiproxy, cluster, secret, group, tidb>> /\ CacheStays

(* addTiDBGracefulWait.                                                      *)
Waits == SS \in pass.gates /\ (pass.had => (~group.exists \/ group.wait))

ApplyTiDBGroup ==
    /\ pass.at = "group"
    /\ group' = [exists |-> TRUE, gates |-> group.gates, wait |-> Waits]
    /\ pass' = [pass EXCEPT !.at = "done"]
    /\ UNCHANGED <<tiproxy, cluster, secret, tidb>> /\ CacheStays

-----------------------------------------------------------------------------
(* TiDB Operator: it passes the Cluster's gates on to the group, and holds    *)
(* the group's instances until they have arrived.                            *)

SyncGroupFeatures ==
    /\ group.exists /\ group.gates # cluster.gates
    /\ group' = [group EXCEPT !.gates = cluster.gates]
    /\ UNCHANGED <<tiproxy, cluster, secret, tidb, pass>> /\ CacheStays

CaughtUp == group.exists /\ group.gates = cluster.gates

AddInstance(i) ==
    /\ CaughtUp /\ ~tidb[i].exists
    /\ tidb' = [tidb EXCEPT ![i] = With(group.gates)]
    /\ UNCHANGED <<tiproxy, cluster, secret, group, pass>> /\ CacheStays

(* In place for FeatureModification, by a new pod for the signing volume.     *)
UpdateInstance(i) ==
    /\ CaughtUp /\ tidb[i].exists /\ tidb[i].gates # group.gates
    /\ tidb' = [tidb EXCEPT ![i] = With(group.gates)]
    /\ UNCHANGED <<tiproxy, cluster, secret, group, pass>> /\ CacheStays

RemoveInstance(i) ==
    /\ tidb[i].exists
    /\ tidb' = [tidb EXCEPT ![i] = NoObject]
    /\ UNCHANGED <<tiproxy, cluster, secret, group, pass>> /\ CacheStays

RefreshCache ==
    /\ seen # cluster /\ seen' = cluster
    /\ UNCHANGED <<tiproxy, cluster, secret, group, tidb, pass, lags>>

-----------------------------------------------------------------------------
Sync == StartPass \/ AbortPass \/ ApplyCluster \/ RejectedApply \/ EnsureSigningSecret
        \/ OwnerNotSeen \/ ApplyTiDBGroup

Operator == SyncGroupFeatures
            \/ \E i \in Tidbs : AddInstance(i) \/ UpdateInstance(i) \/ RemoveInstance(i)

Next == ToggleTiProxy \/ Sync \/ Operator \/ RefreshCache

Spec == Init /\ [][Next]_vars

(* Passes keep being requeued; one that fails is tried again, so its writes   *)
(* need strong fairness. The operator keeps reconciling.                      *)
Fairness ==
    /\ WF_vars(StartPass) /\ WF_vars(RejectedApply \/ OwnerNotSeen)
    /\ SF_vars(ApplyCluster) /\ SF_vars(EnsureSigningSecret) /\ SF_vars(ApplyTiDBGroup)
    /\ WF_vars(SyncGroupFeatures) /\ \A i \in Tidbs : SF_vars(UpdateInstance(i))
    /\ WF_vars(RefreshCache)

FairSpec == Spec /\ Fairness

-----------------------------------------------------------------------------
(* Properties. Those that start with ~lags need reads that are up to date.     *)

(* Every variable stays in its range, and no object signs without being able   *)
(* to change its gates.                                                      *)
TypeOK ==
    /\ {tiproxy, secret, lags} \subseteq BOOLEAN
    /\ cluster \in Object /\ seen \in Object
    /\ group \in [exists : BOOLEAN, gates : GateSets, wait : BOOLEAN]
    /\ tidb \in [Tidbs -> Object]
    /\ pass \in [at : {"idle", "cluster", "leaf", "group", "done"},
                 tiproxy : BOOLEAN, gates : GateSets, had : BOOLEAN]

(* The signing volume is never added to a running TiDB pod: when              *)
(* SessionTokenSigning is on, every TiDB instance already carries             *)
(* FeatureModification and is replaced instead                                *)
(* (readyForSessionTokenSigning).                                            *)
NoVolumeAddedInPlace ==
    ~lags /\ SS \in cluster.gates => \A i \in Tidbs : tidb[i].exists => FM \in tidb[i].gates

(* No TiDB instance is told to mount a signing Secret that does not exist     *)
(* (ensureTLSSecrets runs before the TiDB group is applied).                  *)
MountedSecretExists == \A i \in Tidbs : ~lags /\ SS \in tidb[i].gates => secret

(* The provider never asks the API server for a gate change that the CRD      *)
(* freezes, which would fail every later pass too                             *)
(* (existingClusterSessionTokenSigning).                                     *)
NeverRejected == ~lags /\ pass.at = "cluster" => Acceptable

(* The gates stay once set, also when TiProxy is turned off: taking one away  *)
(* would roll TiDB again (session_token.go:35).                               *)
GatesStay == [][~lags => cluster.gates \subseteq cluster'.gates]_cluster

(* A pass that got through leaves a signing cluster's TiDB with the graceful  *)
(* shutdown wait ("along with SessionTokenSigning the provider sets           *)
(* graceful-wait-before-shutdown", README.md:443).                           *)
SigningBringsWait ==
    ~lags /\ pass.at = "done" /\ SS \in cluster.gates => group.wait

(* While TiProxy stays on, every TiDB instance ends up signing with the       *)
(* shared certificate, however the passes failed before.                      *)
EverySessionCanMove ==
    \A i \in Tidbs :
        <>[](tiproxy /\ tidb[i].exists) => <>(SS \in tidb[i].gates)
=============================================================================
