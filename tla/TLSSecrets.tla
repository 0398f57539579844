------------------------------- MODULE TLSSecrets -------------------------------
(***************************************************************************)
(* The Secrets with the CA and the certificates of an Instance (tls.go,      *)
(* tls_certmanager.go). A pass applies the Cluster, reads it back, makes sure  *)
(* of the CA, issues what is missing, one Secret after the other, and applies  *)
(* the TiDB group; it may fail anywhere. It reads Secrets and the Cluster from  *)
(* caches that lag behind, and finds the Secrets of an earlier Instance of the  *)
(* same name, which garbage collection takes away in its own time. With        *)
(* cert-manager it applies Certificates and adopts the Secrets they turn into.  *)
(*                                                                           *)
(* A Cluster is named by its Instance, a Certificate by the Cluster that owns   *)
(* it. Certificates, and the Secret an adoption patches, are read as they are;  *)
(* cert-manager's CRDs are there. An issuer of the user's, which needs no CA    *)
(* Secret, is left out, and so is the gate that keeps the signing Secret in     *)
(* use without TiProxy (SessionToken).                                        *)
(***************************************************************************)
EXTENDS Integers, FiniteSets

CONSTANTS
    Scenarios  \* for each behaviour: the settings users may ask for, of the first Instance of the
               \* name (settings) and of those after it (next), how many of these there are
               \* (instances), whether the CA is lost (losesCA)

(* In the order of tlsLeaves, the signing leaf last.                           *)
Leaves == {"cluster", "server", "proxy", "session"}
Rank == [cluster |-> 1, server |-> 2, proxy |-> 3, session |-> 4]
First(leaves) == CHOOSE n \in leaves : \A m \in leaves : Rank[n] <= Rank[m]

Names == Leaves \cup {"ca"}

(* tls.cluster, tls.client, who issues, and whether TiProxy is on.              *)
Settings == [cluster : BOOLEAN, client : BOOLEAN, by : {"provider", "cert-manager"}, proxy : BOOLEAN]

NoSettings == [cluster |-> FALSE, client |-> FALSE, by |-> "provider", proxy |-> FALSE]

ASSUME ScenarioAssumption ==
    \A s \in Scenarios :
        /\ s.settings # {} /\ s.settings \subseteq Settings /\ s.next # {} /\ s.next \subseteq Settings
        /\ s.instances \in Nat \ {0} /\ s.losesCA \in BOOLEAN

VARIABLES
    scenario,
    settings,
    instance, \* the Instances there were, this one included
    cluster,  \* the Cluster: its UID (0: none), tlsCluster and the source it is annotated with
    tidb,     \* the TiDB group: whether it serves MySQL over TLS
    cert,     \* the owner of the Certificate of a name, 0: none
    secret,   \* the Secrets
    seen,     \* Cluster, TiDB group and Secrets as the caches show them
    pass,     \* the pass: its step, settings and owner, its CA, and what it has still to issue
    reported, \* whether a pass reported the CA as missing
    strayed,  \* whether a pass judged too early built on settings validation refuses by then
    dropped   \* whether a pass built without TLS on a Cluster with cert-manager's

vars == <<scenario, settings, instance, cluster, tidb, cert, secret, seen, pass, reported, strayed, dropped>>

NoCluster == [uid |-> 0, tls |-> FALSE, source |-> "none"]

(* A number no Secret and no pass uses names a new CA.                          *)
CAs == 1..(2 * Cardinality(Names) + 2)

(* by: who wrote it; ctl: the Cluster that controls it; cert: the owner of the   *)
(* Certificate that owns it; ca: the CA it holds or is signed by.               *)
NoSecret == [by |-> "none", ctl |-> 0, cert |-> 0, ca |-> 0]
IsThere(s) == s.by # "none"

Idle == [at |-> "idle", settings |-> NoSettings, owner |-> 0, ca |-> 0, todo |-> {}]

Init ==
    /\ scenario \in Scenarios /\ settings \in scenario.settings /\ instance = 1
    /\ cluster = NoCluster /\ tidb = "none" /\ cert = [n \in Names |-> 0]
    /\ secret = [n \in Names |-> NoSecret]
    /\ seen = [cluster |-> cluster, tidb |-> tidb, secret |-> secret]
    /\ pass = Idle /\ reported = FALSE /\ strayed = FALSE /\ dropped = FALSE

-----------------------------------------------------------------------------
(* Validation.                                                               *)

HasTLS(s) == s.cluster \/ s.client
TLSSource(s) == IF HasTLS(s) THEN s.by ELSE "none"

(* Mutant: a Cluster without an annotation has only its own TLS.                *)
SourceOfCluster(c, s) ==
    IF c.source # "none" THEN c.source ELSE IF c.tls THEN "provider" ELSE "none"
CurrentTLSSource(c, s) ==
    IF c.source # "none" THEN c.source ELSE IF c.tls \/ s.client THEN "provider" ELSE "none"

SameSource(c, s) ==
    \/ "none" \in {TLSSource(s), CurrentTLSSource(c, s)}
    \/ TLSSource(s) = CurrentTLSSource(c, s)

ValidateTLS(s, c, t) ==
    /\ s.by = "cert-manager" => HasTLS(s)
    /\ c.uid # 0 => s.cluster = c.tls /\ SameSource(c, s)
    /\ t # "none" => s.client = (t = "tls")

-----------------------------------------------------------------------------
(* The pass.                                                                 *)

StartPass ==
    /\ pass.at = "idle" /\ ValidateTLS(settings, seen.cluster, seen.tidb)
    /\ pass' = [Idle EXCEPT !.at = "cluster", !.settings = settings]
    /\ UNCHANGED <<scenario, settings, instance, cluster, tidb, cert, secret, seen, reported, strayed, dropped>>

(* A failing call, a conflict, a wait, or a restart.                           *)
Fail == pass' = Idle

AbortPass ==
    /\ pass.at # "idle" /\ Fail
    /\ UNCHANGED <<scenario, settings, instance, cluster, tidb, cert, secret, seen, reported, strayed, dropped>>

(* buildCluster echoes what the Cluster it sees has; the API server refuses     *)
(* another tlsCluster.                                                        *)
BuiltCluster ==
    IF seen.cluster.uid # 0 THEN [seen.cluster EXCEPT !.uid = instance]
    ELSE [uid |-> instance, tls |-> pass.settings.cluster, source |-> TLSSource(pass.settings)]

(* Refused by validation once it sees the Cluster, too late for this pass: another *)
(* source, or cert-manager with another tlsCluster.                           *)
Strays(c, s) == ~SameSource(c, s) \/ (s.by = "cert-manager" /\ s.cluster # c.tls)

(* Refused only where the Cluster has tlsCluster or the TiDB group is seen to      *)
(* serve TLS: settings without TLS name no source to compare.                  *)
Drops(c, s) == c.source = "cert-manager" /\ ~HasTLS(s)

ApplyCluster ==
    /\ pass.at = "cluster"
    /\ cluster.uid # 0 => cluster.tls = BuiltCluster.tls
    /\ cluster' = BuiltCluster
    /\ strayed' = (strayed \/ Strays(cluster', pass.settings))
    /\ dropped' = (dropped \/ Drops(cluster', pass.settings))
    /\ pass' = [pass EXCEPT !.at = "owner"]
    /\ UNCHANGED <<scenario, settings, instance, tidb, cert, secret, seen, reported>>

(* tlsLeaves and the signing leaf.                                             *)
Wanted(s, n) ==
    \/ n = "cluster" /\ s.cluster
    \/ n = "server" /\ s.client
    \/ n = "proxy" /\ HasTLS(s) /\ s.proxy
    \/ n = "session" /\ s.proxy
WantedLeaves(s) == {n \in Leaves : Wanted(s, n)}

ReadOwner ==
    /\ pass.at = "owner"
    /\ LET todo == WantedLeaves(pass.settings) IN
       IF seen.cluster.uid = 0 THEN Fail
       ELSE pass' = [pass EXCEPT !.at = IF todo = {} THEN "leaves" ELSE "ca",
                                 !.owner = seen.cluster.uid, !.todo = todo]
    /\ UNCHANGED <<scenario, settings, instance, cluster, tidb, cert, secret, seen, reported, strayed, dropped>>

(* currentSecret: a Secret another Cluster controls is deleted, and waited for. *)
(* Mutant: every Secret there is taken for one of this Cluster.                 *)
ForeignNever(n) == FALSE
Foreign(n) == seen.secret[n].ctl \notin {0, pass.owner}
Current(n) == IsThere(seen.secret[n]) /\ ~Foreign(n)

DeleteForeign(n) ==
    /\ Foreign(n) /\ Fail
    /\ secret' = [secret EXCEPT ![n] = NoSecret]

(* createOwnedByCluster never overwrites. Mutant: it does.                      *)
CreateAnyway(n) == TRUE
CanCreate(n) == ~IsThere(secret[n])

Issued(ca) == [by |-> "provider", ctl |-> pass.owner, cert |-> 0, ca |-> ca]

NewCA ==
    CHOOSE ca \in CAs : \A n \in Names : ca \notin {secret[n].ca, seen.secret[n].ca}

(* ensureCA. Mutant: the certificates already issued are not looked at.         *)
NoLeafLooked(todo) == {}
LeavesLeft(todo) == {n \in todo : IsThere(seen.secret[n])}

ReadCA ==
    /\ Current("ca")
    /\ IF seen.secret["ca"].by = "provider"
       THEN pass' = [pass EXCEPT !.at = "leaves", !.ca = seen.secret["ca"].ca]
       ELSE Fail
    /\ UNCHANGED <<secret, reported>>

(* The first certificate in its way decides.                                   *)
ReportMissingCA ==
    /\ ~IsThere(seen.secret["ca"]) /\ LeavesLeft(pass.todo) # {}
    /\ Current(First(LeavesLeft(pass.todo)))
    /\ Fail /\ reported' = TRUE
    /\ UNCHANGED secret

GenerateCA ==
    /\ ~IsThere(seen.secret["ca"]) /\ LeavesLeft(pass.todo) = {}
    /\ IF CanCreate("ca")
       THEN /\ secret' = [secret EXCEPT !["ca"] = Issued(NewCA)]
            /\ pass' = [pass EXCEPT !.at = "leaves", !.ca = NewCA]
       ELSE Fail /\ UNCHANGED secret
    /\ UNCHANGED reported

ForeignBeforeCA ==
    /\ \/ DeleteForeign("ca")
       \/ /\ ~IsThere(seen.secret["ca"]) /\ LeavesLeft(pass.todo) # {}
          /\ DeleteForeign(First(LeavesLeft(pass.todo)))
    /\ UNCHANGED reported

ByProvider == pass.settings.by = "provider"

EnsureCA ==
    /\ pass.at = "ca" /\ ByProvider
    /\ ReadCA \/ ReportMissingCA \/ GenerateCA \/ ForeignBeforeCA
    /\ UNCHANGED <<scenario, settings, instance, cluster, tidb, cert, seen, strayed, dropped>>

Done(n) == pass' = [pass EXCEPT !.todo = @ \ {n}]
AtLeaf(n) == pass.at = "leaves" /\ pass.todo # {} /\ n = First(pass.todo)

EnsureLeaf(n) ==
    /\ AtLeaf(n) /\ ByProvider
    /\ \/ DeleteForeign(n)
       \/ Current(n) /\ Done(n) /\ UNCHANGED secret
       \/ ~IsThere(seen.secret[n]) /\ CanCreate(n) /\ Done(n)
          /\ secret' = [secret EXCEPT ![n] = Issued(pass.ca)]
       \/ ~IsThere(seen.secret[n]) /\ ~CanCreate(n) /\ Fail /\ UNCHANGED secret
    /\ UNCHANGED <<scenario, settings, instance, cluster, tidb, cert, seen, reported, strayed, dropped>>

(* applyOwnedByCluster of a Certificate, refused while it has another           *)
(* controller, and adoptSecret.                                               *)
ApplyCertificate(n) ==
    /\ cert[n] \in {0, pass.owner}
    /\ cert' = [cert EXCEPT ![n] = pass.owner]
    /\ secret' = IF IsThere(secret[n]) /\ IsThere(seen.secret[n]) /\ seen.secret[n].cert # pass.owner
                 THEN [secret EXCEPT ![n].cert = pass.owner] ELSE secret
    /\ UNCHANGED <<scenario, settings, instance, cluster, tidb, seen, reported, strayed, dropped>>

EnsureIssuer ==
    /\ pass.at = "ca" /\ ~ByProvider
    /\ ApplyCertificate("ca")
    /\ pass' = [pass EXCEPT !.at = "leaves"]

EnsureCertificate(n) ==
    /\ AtLeaf(n) /\ ~ByProvider
    /\ ApplyCertificate(n) /\ Done(n)

ApplyTiDBGroup ==
    /\ pass.at = "leaves" /\ pass.todo = {}
    /\ tidb' = IF pass.settings.client THEN "tls" ELSE "plain"
    /\ pass' = Idle
    /\ UNCHANGED <<scenario, settings, instance, cluster, cert, secret, seen, reported, strayed, dropped>>

-----------------------------------------------------------------------------
(* Caches and garbage collection.                                             *)

SeeCluster ==
    /\ <<seen.cluster, seen.tidb>> # <<cluster, tidb>>
    /\ seen' = [seen EXCEPT !.cluster = cluster, !.tidb = tidb]
    /\ UNCHANGED <<scenario, settings, instance, cluster, tidb, cert, secret, pass, reported, strayed, dropped>>

SeeSecrets ==
    /\ seen.secret # secret
    /\ seen' = [seen EXCEPT !.secret = secret]
    /\ UNCHANGED <<scenario, settings, instance, cluster, tidb, cert, secret, pass, reported, strayed, dropped>>

Alive(owner, now) == owner # 0 /\ owner = now

CollectSecret(n) ==
    /\ secret[n].ctl # 0 \/ secret[n].cert # 0
    /\ ~Alive(secret[n].ctl, cluster.uid) /\ ~Alive(secret[n].cert, cert[n])
    /\ secret' = [secret EXCEPT ![n] = NoSecret]
    /\ UNCHANGED <<scenario, settings, instance, cluster, tidb, cert, seen, pass, reported, strayed, dropped>>

CollectCertificate(n) ==
    /\ cert[n] # 0 /\ ~Alive(cert[n], cluster.uid)
    /\ cert' = [cert EXCEPT ![n] = 0]
    /\ UNCHANGED <<scenario, settings, instance, cluster, tidb, secret, seen, pass, reported, strayed, dropped>>

(* cert-manager; it signs a certificate once there is the CA Secret. What it     *)
(* does with a Secret that is there already is left out.                       *)
CertManagerIssues(n) ==
    /\ cert[n] # 0 /\ ~IsThere(secret[n])
    /\ \E ca \in CAs :
          /\ IF n = "ca" THEN ca = NewCA
             ELSE secret["ca"].by = "cert-manager" /\ ca = secret["ca"].ca
          /\ secret' = [secret EXCEPT ![n] = [by |-> "cert-manager", ctl |-> 0, cert |-> 0, ca |-> ca]]
    /\ UNCHANGED <<scenario, settings, instance, cluster, tidb, cert, seen, pass, reported, strayed, dropped>>

-----------------------------------------------------------------------------
(* Users.                                                                    *)

AskedFor(i) == IF i = 1 THEN scenario.settings ELSE scenario.next

EditSettings ==
    /\ settings' \in AskedFor(instance) \ {settings}
    /\ UNCHANGED <<scenario, instance, cluster, tidb, cert, secret, seen, pass, reported, strayed, dropped>>

(* Cleanup has let the Instance go; the next one has the name and its own        *)
(* settings.                                                                 *)
Recreate ==
    /\ instance < scenario.instances /\ cluster.uid # 0 /\ pass.at = "idle"
    /\ instance' = instance + 1 /\ settings' \in AskedFor(instance')
    /\ cluster' = NoCluster /\ tidb' = "none"
    /\ reported' = FALSE /\ strayed' = FALSE /\ dropped' = FALSE
    /\ UNCHANGED <<scenario, cert, secret, seen, pass>>

Mine(n) == cluster.uid # 0 /\ secret[n].ctl = cluster.uid /\ secret[n].by = "provider"

(* The CA Secret of a running Instance is lost. What the provider reports then   *)
(* asks users to restore it, or to delete the certificates: all of them go.      *)
LoseCA ==
    /\ scenario.losesCA /\ Mine("ca") /\ tidb # "none" /\ seen.secret = secret
    /\ HasTLS(settings) /\ \A n \in Leaves : Wanted(settings, n) => Mine(n)
    /\ secret' = [secret EXCEPT !["ca"] = NoSecret] /\ reported' = FALSE
    /\ UNCHANGED <<scenario, settings, instance, cluster, tidb, cert, seen, pass, strayed, dropped>>

RestoreCA ==
    /\ reported /\ ~IsThere(secret["ca"])
    /\ \E n \in Leaves : Mine(n) /\ secret' = [secret EXCEPT !["ca"] = secret[n]]
    /\ reported' = FALSE
    /\ UNCHANGED <<scenario, settings, instance, cluster, tidb, cert, seen, pass, strayed, dropped>>

DeleteLeaves ==
    /\ reported /\ ~IsThere(secret["ca"])
    /\ secret' = [n \in Names |-> NoSecret] /\ reported' = FALSE
    /\ UNCHANGED <<scenario, settings, instance, cluster, tidb, cert, seen, pass, strayed, dropped>>

-----------------------------------------------------------------------------
SecureCA == EnsureCA \/ EnsureIssuer
IssueLeaf(n) == EnsureLeaf(n) \/ EnsureCertificate(n)

Reconcile ==
    \/ StartPass \/ ApplyCluster \/ ReadOwner \/ SecureCA \/ ApplyTiDBGroup
    \/ \E n \in Leaves : IssueLeaf(n)

CollectCertificates == \E n \in Names : CollectCertificate(n)
CertManager == \E n \in Names : CertManagerIssues(n)

Kubernetes ==
    \/ SeeCluster \/ SeeSecrets \/ CollectCertificates \/ CertManager
    \/ \E n \in Names : CollectSecret(n)

User == EditSettings \/ Recreate \/ LoseCA \/ RestoreCA \/ DeleteLeaves

Next == Reconcile \/ AbortPass \/ Kubernetes \/ User

Spec == Init /\ [][Next]_vars

(* Passes go on being made, and do not fail for ever. Garbage collection of the  *)
(* Secrets is not counted on: the provider deletes those in its way.            *)
Fairness ==
    /\ WF_vars(StartPass) /\ WF_vars(ApplyTiDBGroup) /\ WF_vars(SeeCluster) /\ WF_vars(SeeSecrets)
    /\ WF_vars(CollectCertificates) /\ WF_vars(CertManager)
    /\ SF_vars(ApplyCluster) /\ SF_vars(ReadOwner) /\ SF_vars(SecureCA)
    /\ \A n \in Leaves : SF_vars(IssueLeaf(n))

FairSpec == Spec /\ Fairness

-----------------------------------------------------------------------------
(* Properties.                                                               *)

Clusters == [uid : Nat, tls : BOOLEAN, source : {"none", "provider", "cert-manager"}]
TiDBGroups == {"none", "plain", "tls"}
Secrets ==
    [Names -> [by : {"none", "provider", "cert-manager"}, ctl : Nat, cert : Nat, ca : CAs \cup {0}]]

(* Every variable stays in its range; in particular a Secret is either there    *)
(* and has a CA, or has nothing.                                              *)
TypeOK ==
    /\ scenario \in Scenarios /\ settings \in Settings /\ instance \in Nat \ {0}
    /\ cluster \in Clusters /\ tidb \in TiDBGroups /\ cert \in [Names -> Nat]
    /\ secret \in Secrets /\ \A n \in Names : IsThere(secret[n]) <=> secret[n].ca # 0
    /\ seen \in [cluster : Clusters, tidb : TiDBGroups, secret : Secrets]
    /\ pass \in [at : {"idle", "cluster", "owner", "ca", "leaves"}, settings : Settings, owner : Nat,
                 ca : CAs \cup {0}, todo : SUBSET Leaves]
    /\ reported \in BOOLEAN /\ strayed \in BOOLEAN /\ dropped \in BOOLEAN

(* All certificates the provider issued for the Cluster's TLS are signed by one  *)
(* CA, the one in the CA Secret: whatever pass wrote which Secret, on however    *)
(* old a read, with the Secrets of an earlier Instance around, and after a lost   *)
(* CA (ensureCA, ensureTLSSecrets, currentSecret).                            *)
OneCA == \A m, n \in Names \ {"session"} : Mine(m) /\ Mine(n) => secret[m].ca = secret[n].ca

(* No pass takes away, replaces or reissues a Secret of the Cluster it works     *)
(* for: "certificates are issued once" (ensureTLSSecrets), although              *)
(* currentSecret deletes by name what an old read shows.                       *)
IssuedOnce ==
    [][pass' # pass /\ cluster' = cluster =>
          \A n \in Names : Mine(n) => Mine(n)' /\ secret'[n].ca = secret[n].ca]_vars

(* The provider issues nothing beside cert-manager's Certificates, whatever      *)
(* edits are made between passes and however old the reads they build on, but    *)
(* for two kinds of edits: those made while the caches do not show the Cluster   *)
(* yet (strayed), and turning TLS off before the TiDB group is there (dropped,   *)
(* validateTLS). A Cluster without annotation counts as the provider's as soon   *)
(* as it has TLS (currentTLSSource).                                          *)
TwoSources == \E m, n \in Names : Mine(n) /\ cert[m] # 0 /\ cert[m] = cluster.uid
OneSource == strayed \/ dropped \/ ~TwoSources

Needed(s, n) ==
    IF s.by = "provider" THEN Mine(n) ELSE cluster.uid # 0 /\ cert[n] = cluster.uid /\ IsThere(secret[n])

(* Nothing can be issued: the CA is lost, or a Secret without owner is in the way. *)
Hopeless ==
    \/ ~IsThere(secret["ca"]) /\ \E n \in Leaves : Mine(n)
    \/ \E n \in Names : secret[n].by = "cert-manager" /\ settings.by = "provider"
    \/ strayed \/ dropped

(* Once users stop editing, the certificates that the settings ask for are        *)
(* issued, if the settings are accepted: the remains of an earlier Instance do    *)
(* not keep the passes waiting for ever, nor do old reads.                      *)
EditsEnd == <>[][settings' = settings]_settings
CertificatesAreIssued ==
    EditsEnd => []<>(\/ ~ValidateTLS(settings, cluster, tidb) \/ Hopeless
                   \/ \A n \in Leaves : Wanted(settings, n) => Needed(settings, n))
=============================================================================
