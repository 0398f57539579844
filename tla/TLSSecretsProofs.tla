--------------------------- MODULE TLSSecretsProofs ---------------------------
(***************************************************************************)
(* Proofs about TLSSecrets, for any settings users ask for and any number of   *)
(* Instances of one name. What a pass reads may be old; it is never wrong about *)
(* its own Cluster's Secrets in the direction that hurts. Two facts carry that: *)
(* nothing belongs to a Cluster before the cache shows that Cluster (TouchedInv), *)
(* and a Secret of the Cluster replaced nothing the cache still shows (SeenInv).  *)
(* A third carries a lost CA: a certificate that every pass looks at is there     *)
(* and shown (AnchorInv), so none makes a new CA before users removed it.       *)
(***************************************************************************)
EXTENDS TLSSecrets, FiniteSetTheorems, TLAPS

(* A pass of the provider that has a CA and certificates to issue.              *)
LeafWork == pass.at = "leaves" /\ pass.todo # {} /\ ByProvider
Ours(n) == secret[n].ctl = instance

PassInv ==
    /\ pass.at \in {"ca", "leaves"} => pass.owner # 0
    /\ pass.at = "ca" => pass.todo # {}
    /\ LeafWork => pass.ca # 0
    /\ pass.at # "idle" /\ ~ByProvider => HasTLS(pass.settings)

(* A Secret has a controller if the provider wrote it.                         *)
WrittenInv ==
    \A n \in Names :
        /\ secret[n].by = "provider" <=> secret[n].ctl # 0
        /\ seen.secret[n].by = "provider" <=> seen.secret[n].ctl # 0
        /\ IsThere(seen.secret[n]) <=> seen.secret[n].ca # 0

(* Nothing is of an Instance to come.                                         *)
AgeInv ==
    /\ cluster.uid \in {0, instance} /\ seen.cluster.uid <= instance /\ pass.owner <= instance
    /\ seen.cluster.uid = instance => seen.cluster = cluster
    /\ \A n \in Names :
          secret[n].ctl <= instance /\ seen.secret[n].ctl <= instance /\ cert[n] <= instance

(* Until the cache shows the Cluster, nothing belongs to it.                    *)
TouchedInv ==
    seen.cluster.uid # instance =>
        /\ pass.owner # instance
        /\ \A n \in Names :
              ~Ours(n) /\ seen.secret[n].ctl # instance /\ cert[n] # instance

(* A pass that took the Cluster of an earlier Instance for its own does so       *)
(* before there is any Secret of this one.                                     *)
OwnerInv ==
    pass.at \in {"ca", "leaves"} /\ pass.owner # instance =>
        \A n \in Names : ~Ours(n) /\ seen.secret[n].ctl # instance

(* No Secret of the Cluster is shown as another's, and the other way round.       *)
SeenInv ==
    \A n \in Names :
        /\ Ours(n) => seen.secret[n].ctl \in {0, instance}
        /\ seen.secret[n].ctl = instance => secret[n].ctl \in {0, instance}

(* Once there was a CA, no earlier one is in sight, lost or not.                 *)
CAInv ==
    (LeafWork /\ pass.owner = instance) \/ (\E n \in Names : Ours(n))
        => secret["ca"].ctl \in {0, instance} /\ seen.secret["ca"].ctl \in {0, instance}

(* As long as the CA is not lost, certificates go with the CA they are signed by. *)
KeptInv ==
    ~scenario.losesCA =>
        /\ LeafWork /\ pass.owner = instance => Ours("ca") /\ pass.ca = secret["ca"].ca
        /\ \A n \in Names :
              /\ Ours(n) => Ours("ca") /\ secret[n].ca = secret["ca"].ca
              /\ seen.secret[n].ctl = instance => Ours(n) /\ secret[n].ca = seen.secret[n].ca

(* What is issued is of the Cluster's source.                                  *)
SourceInv ==
    ~strayed /\ ~dropped =>
        /\ pass.at \in {"owner", "ca", "leaves"} => (ByProvider <=> cluster.source # "cert-manager")
        /\ \A n \in Names :
              /\ Ours(n) => cluster.source # "cert-manager"
              /\ cert[n] = instance => cluster.source = "cert-manager"

SecretsInv ==
    /\ TypeOK /\ PassInv /\ WrittenInv /\ AgeInv /\ TouchedInv /\ OwnerInv
    /\ SeenInv /\ CAInv /\ KeptInv /\ SourceInv

-----------------------------------------------------------------------------
LEMMA NameFacts == "ca" \in Names /\ Leaves \subseteq Names /\ "ca" \notin Leaves
BY DEF Names, Leaves

LEMMA NamesFinite == IsFiniteSet(Names) /\ Cardinality(Names) \in Nat
<1> DEFINE A == {"cluster"}
           B == A \cup {"server"}
           C == B \cup {"proxy"}
           D == C \cup {"session"}
<1>1. IsFiniteSet(A)
  BY FS_Singleton
<1>2. IsFiniteSet(B)
  BY <1>1, FS_AddElement
<1>3. IsFiniteSet(C)
  BY <1>2, FS_AddElement
<1>4. IsFiniteSet(D \cup {"ca"})
  BY <1>3, FS_AddElement
<1>5. Names = D \cup {"ca"}
  BY DEF Names, Leaves
<1>6. QED
  BY <1>4, <1>5, FS_CardinalityType

(* There are more names for a CA than are in use.                              *)
LEMMA NewCAIsOne == NewCA \in CAs
<1> DEFINE f == [n \in Names |-> secret[n].ca]
           g == [n \in Names |-> seen.secret[n].ca]
           F == {f[n] : n \in Names}
           G == {g[n] : n \in Names}
           c == Cardinality(Names)
<1>1. f \in Surjection(Names, F) /\ g \in Surjection(Names, G)
  BY DEF Surjection
<1>2. IsFiniteSet(F) /\ Cardinality(F) <= c /\ IsFiniteSet(G) /\ Cardinality(G) <= c
  <2> HIDE DEF F, G, f, g
  <2>1. QED
    BY <1>1, NamesFinite, FS_Surjection
<1>3. Cardinality(F) \in Nat /\ Cardinality(G) \in Nat /\ Cardinality(F \cap G) \in Nat /\ c \in Nat
  <2> HIDE DEF F, G
  <2>1. IsFiniteSet(F \cap G)
    BY <1>2, FS_Subset
  <2>2. QED
    BY <1>2, <2>1, NamesFinite, FS_CardinalityType
<1>4. IsFiniteSet(F \cup G) /\ Cardinality(F \cup G) <= 2 * c
  <2> HIDE DEF F, G, c
  <2>1. Cardinality(F \cup G) = Cardinality(F) + Cardinality(G) - Cardinality(F \cap G)
    BY <1>2, FS_Union
  <2>2. IsFiniteSet(F \cup G)
    BY <1>2, FS_Union
  <2>3. QED
    BY <1>2, <1>3, <2>1, <2>2
<1>5. Cardinality(CAs) = 2 * c + 2
  <2>1. Cardinality(1..(2 * c + 2)) = IF 1 > 2 * c + 2 THEN 0 ELSE (2 * c + 2) - 1 + 1
    <3> HIDE DEF c
    <3>1. 2 * c + 2 \in Int
      BY <1>3
    <3>2. QED
      BY <3>1, FS_Interval
  <2>2. QED
    BY <1>3, <2>1 DEF CAs
<1>6. ~(CAs \subseteq F \cup G)
  <2> HIDE DEF F, G, c
  <2>1. SUFFICES ASSUME CAs \subseteq F \cup G PROVE FALSE
    OBVIOUS
  <2>2. Cardinality(CAs) <= Cardinality(F \cup G)
    BY <1>4, <2>1, FS_Subset
  <2>3. Cardinality(F \cup G) \in Nat
    BY <1>4, FS_CardinalityType
  <2>4. QED
    BY <1>3, <1>4, <1>5, <2>2, <2>3
<1>7. \E ca \in CAs : \A n \in Names : ca \notin {secret[n].ca, seen.secret[n].ca}
  BY <1>6
<1>8. QED
  BY <1>7 DEF NewCA

LEMMA IdleTyped ==
    Idle \in [at : {"idle", "cluster", "owner", "ca", "leaves"}, settings : Settings, owner : Nat,
              ca : CAs \cup {0}, todo : SUBSET Leaves]
BY DEF Idle, NoSettings, Settings

LEMMA InitKeeps == Init => SecretsInv
<1> SUFFICES ASSUME Init PROVE SecretsInv
    OBVIOUS
<1>1. /\ scenario \in Scenarios /\ scenario.settings \subseteq Settings /\ settings \in Settings
  BY ScenarioAssumption DEF Init
<1>2. /\ cluster = NoCluster /\ instance = 1 /\ cert = [n \in Names |-> 0] /\ pass = Idle
      /\ secret = [n \in Names |-> NoSecret]
      /\ seen = [cluster |-> NoCluster, tidb |-> "none", secret |-> secret]
      /\ tidb = "none" /\ reported = FALSE /\ strayed = FALSE /\ dropped = FALSE
  BY DEF Init
<1>3. NoSecret \in [by : {"none", "provider", "cert-manager"}, ctl : Nat, cert : Nat, ca : CAs \cup {0}]
  BY DEF NoSecret
<1>4. secret \in Secrets /\ NoCluster \in Clusters /\ NoSettings \in Settings
  <2> HIDE DEF NoSecret
  <2>1. QED
    BY <1>2, <1>3 DEF Secrets, NoCluster, Clusters, NoSettings, Settings
<1>5. TypeOK
  <2>1. \A n \in Names : IsThere(secret[n]) <=> secret[n].ca # 0
    BY <1>2 DEF NoSecret, IsThere
  <2>2. seen \in [cluster : Clusters, tidb : TiDBGroups, secret : Secrets] /\ tidb \in TiDBGroups
    BY <1>2, <1>4 DEF TiDBGroups
  <2>3. cert \in [Names -> Nat]
    BY <1>2
  <2>4. instance \in Nat \ {0} /\ cluster \in Clusters
    BY <1>2, <1>4
  <2>5. reported \in BOOLEAN /\ strayed \in BOOLEAN /\ dropped \in BOOLEAN
    BY <1>2
  <2>6. pass \in [at : {"idle", "cluster", "owner", "ca", "leaves"}, settings : Settings, owner : Nat,
                 ca : CAs \cup {0}, todo : SUBSET Leaves]
    BY <1>2, IdleTyped
  <2>7. QED
    BY <1>1, <1>4, <2>1, <2>2, <2>3, <2>4, <2>5, <2>6 DEF TypeOK
<1>6. QED
  BY <1>2, <1>5, NameFacts
  DEF SecretsInv, PassInv, WrittenInv, AgeInv, TouchedInv, OwnerInv, SeenInv, CAInv, KeptInv, SourceInv,
      Ours, LeafWork, Idle, NoSecret, NoCluster, IsThere
-----------------------------------------------------------------------------
(* A pass that ends, well or not.                                              *)
LEMMA EndKeeps ==
    ASSUME SecretsInv, pass' = Idle, tidb' \in TiDBGroups, reported' \in BOOLEAN,
           UNCHANGED <<scenario, settings, instance, cluster, cert, secret, seen, strayed, dropped>>
    PROVE  SecretsInv'
<1>1. TypeOK'
  <2> HIDE DEF Idle
  <2>1. QED
    BY IdleTyped DEF SecretsInv, TypeOK
<1>2. pass'.at = "idle" /\ pass'.owner = 0 /\ instance \in Nat /\ instance > 0
  BY DEF Idle, SecretsInv, TypeOK
<1>3. ~LeafWork' /\ \A n \in Names : Ours(n)' <=> Ours(n)
  BY <1>2 DEF LeafWork, Ours
<1>4. PassInv' /\ OwnerInv'
  BY <1>2, <1>3 DEF PassInv, OwnerInv
<1>5. WrittenInv' /\ AgeInv' /\ TouchedInv' /\ SeenInv'
  BY <1>2, <1>3 DEF SecretsInv, WrittenInv, AgeInv, TouchedInv, SeenInv, IsThere
<1>6. CAInv' /\ KeptInv' /\ SourceInv'
  BY <1>2, <1>3, NameFacts DEF SecretsInv, CAInv, KeptInv, SourceInv
<1>7. QED
  BY <1>1, <1>4, <1>5, <1>6 DEF SecretsInv

LEMMA StartKeeps == SecretsInv /\ StartPass => SecretsInv'
<1> SUFFICES ASSUME SecretsInv, StartPass PROVE SecretsInv'
    OBVIOUS
<1>1. /\ UNCHANGED <<scenario, settings, instance, cluster, tidb, cert, secret, seen, reported, strayed, dropped>>
      /\ pass' = [Idle EXCEPT !.at = "cluster", !.settings = settings]
      /\ settings.by = "cert-manager" => HasTLS(settings)
      /\ settings \in Settings /\ instance \in Nat /\ instance > 0
  BY DEF SecretsInv, TypeOK, StartPass, ValidateTLS
<1>2. /\ pass'.at = "cluster" /\ pass'.owner = 0 /\ pass'.settings = settings
      /\ pass' \in [at : {"idle", "cluster", "owner", "ca", "leaves"}, settings : Settings, owner : Nat,
                    ca : CAs \cup {0}, todo : SUBSET Leaves]
  <2>1. /\ Idle.at = "idle" /\ Idle.owner = 0 
        /\ Idle = [at |-> Idle.at, settings |-> Idle.settings, owner |-> Idle.owner, ca |-> Idle.ca,
                   todo |-> Idle.todo]
    BY DEF Idle
  <2> HIDE DEF Idle
  <2>2. QED
    BY <1>1, <2>1, IdleTyped
<1>3. TypeOK'
  BY <1>1, <1>2 DEF SecretsInv, TypeOK
<1>4. ~LeafWork' /\ \A n \in Names : Ours(n)' <=> Ours(n)
  BY <1>1, <1>2 DEF LeafWork, Ours
<1>5. PassInv' /\ OwnerInv'
  <2>1. settings.by # "provider" => HasTLS(settings)
    BY <1>1 DEF Settings
  <2>2. QED
    BY <1>1, <1>2, <1>4, <2>1 DEF PassInv, OwnerInv, ByProvider, HasTLS
<1>6. WrittenInv' /\ AgeInv' /\ TouchedInv' /\ SeenInv'
  BY <1>1, <1>2, <1>4 DEF SecretsInv, WrittenInv, AgeInv, TouchedInv, SeenInv, IsThere
<1>7. CAInv' /\ KeptInv' /\ SourceInv'
  BY <1>1, <1>2, <1>4, NameFacts DEF SecretsInv, CAInv, KeptInv, SourceInv
<1>8. QED
  BY <1>3, <1>5, <1>6, <1>7 DEF SecretsInv

(* A pass that neither strays nor drops TLS applies its own source.             *)
LEMMA SourceAgrees ==
    ASSUME NEW c \in Clusters, NEW s \in Settings, ~Strays(c, s), ~Drops(c, s),
           s.by # "provider" => HasTLS(s)
    PROVE  s.by = "provider" <=> c.source # "cert-manager"
BY DEF Strays, Drops, SameSource, TLSSource, CurrentTLSSource, HasTLS, Clusters, Settings

LEMMA ApplyKeeps == SecretsInv /\ ApplyCluster => SecretsInv'
<1> SUFFICES ASSUME SecretsInv, ApplyCluster PROVE SecretsInv'
    OBVIOUS
<1>1. /\ UNCHANGED <<scenario, settings, instance, tidb, cert, secret, seen, reported>>
      /\ pass.at = "cluster" /\ pass' = [pass EXCEPT !.at = "owner"] /\ cluster' = BuiltCluster
      /\ strayed' = (strayed \/ Strays(cluster', pass.settings))
      /\ dropped' = (dropped \/ Drops(cluster', pass.settings))
      /\ TypeOK /\ instance \in Nat /\ instance > 0
  BY DEF SecretsInv, TypeOK, ApplyCluster
<1>2. cluster' \in Clusters /\ cluster'.uid = instance
  BY <1>1 DEF TypeOK, BuiltCluster, Clusters, TLSSource, Settings
<1>3. seen.cluster.uid = instance => cluster' = cluster
  BY <1>1 DEF BuiltCluster, SecretsInv, AgeInv, TypeOK, Clusters
<1>4. pass'.at = "owner" /\ pass'.owner = pass.owner /\ pass'.settings = pass.settings
  BY <1>1 DEF TypeOK
<1>5. TypeOK'
  <2>1. strayed' \in BOOLEAN /\ dropped' \in BOOLEAN
    BY <1>1 DEF TypeOK, Strays, Drops
  <2>2. QED
    BY <1>1, <1>2, <2>1 DEF TypeOK
<1>6. ~LeafWork' /\ ~LeafWork /\ \A n \in Names : Ours(n)' <=> Ours(n)
  BY <1>1, <1>4 DEF LeafWork, Ours
<1>7. PassInv' /\ WrittenInv' /\ AgeInv' /\ TouchedInv' /\ OwnerInv' /\ SeenInv'
  BY <1>1, <1>2, <1>3, <1>4, <1>6
  DEF SecretsInv, PassInv, WrittenInv, AgeInv, TouchedInv, OwnerInv, SeenInv, Ours, IsThere, ByProvider
<1>8. CAInv' /\ KeptInv'
  BY <1>1, <1>6, NameFacts DEF SecretsInv, CAInv, KeptInv
<1>9. SourceInv'
  <2> SUFFICES ASSUME ~strayed', ~dropped'
                               PROVE  /\ ByProvider' <=> cluster'.source # "cert-manager"
                                      /\ \A n \in Names :
                                            /\ Ours(n) => cluster'.source # "cert-manager"
                                            /\ cert[n] = instance => cluster'.source = "cert-manager"
    BY <1>1, <1>6 DEF SourceInv
  <2>1. ByProvider' <=> cluster'.source # "cert-manager"
    BY <1>1, <1>2, <1>4, SourceAgrees DEF SecretsInv, PassInv, TypeOK, ByProvider
  <2>2. ASSUME NEW n \in Names, Ours(n) \/ cert[n] = instance PROVE cluster' = cluster
    BY <1>3, <2>2 DEF SecretsInv, TouchedInv
  <2>3. QED
    BY <1>1, <2>1, <2>2 DEF SecretsInv, SourceInv
<1>10. QED
  BY <1>5, <1>7, <1>8, <1>9 DEF SecretsInv

LEMMA ReadKeeps == SecretsInv /\ ReadOwner => SecretsInv'
<1> SUFFICES ASSUME SecretsInv, ReadOwner PROVE SecretsInv'
    OBVIOUS
<1>1. /\ UNCHANGED <<scenario, settings, instance, cluster, tidb, cert, secret, seen, reported, strayed, dropped>>
      /\ pass.at = "owner" /\ TypeOK /\ instance \in Nat /\ instance > 0
  BY DEF SecretsInv, TypeOK, ReadOwner
<1>2. CASE seen.cluster.uid = 0
  BY <1>1, <1>2, EndKeeps DEF ReadOwner, Fail, TypeOK
<1>3. CASE seen.cluster.uid # 0
  <2> DEFINE todo == WantedLeaves(pass.settings)
             at == IF todo = {} THEN "leaves" ELSE "ca"
  <2>1. pass' = [pass EXCEPT !.at = at, !.owner = seen.cluster.uid, !.todo = todo]
    BY <1>3 DEF ReadOwner
  <2>2. todo \subseteq Leaves /\ seen.cluster.uid \in Nat /\ seen.cluster.uid <= instance
    BY <1>1 DEF WantedLeaves, SecretsInv, AgeInv, TypeOK, Clusters
  <2>3. /\ pass'.at = at /\ pass'.owner = seen.cluster.uid /\ pass'.settings = pass.settings
        /\ pass'.todo = todo /\ at \in {"ca", "leaves"} /\ (at = "ca" <=> todo # {})
    BY <1>1, <2>1 DEF TypeOK
  <2>4. TypeOK'
    BY <1>1, <2>1, <2>2 DEF TypeOK
  <2>5. ~LeafWork' /\ ~LeafWork /\ \A n \in Names : Ours(n)' <=> Ours(n)
    BY <1>1, <2>3 DEF LeafWork, Ours
  <2> HIDE DEF todo, at
  <2>6. PassInv' /\ WrittenInv' /\ AgeInv' /\ TouchedInv' /\ OwnerInv' /\ SeenInv'
    BY <1>1, <1>3, <2>2, <2>3, <2>5
    DEF SecretsInv, PassInv, WrittenInv, AgeInv, TouchedInv, OwnerInv, SeenInv, Ours, IsThere, ByProvider
  <2>7. CAInv' /\ KeptInv' /\ SourceInv'
    BY <1>1, <2>3, <2>5, NameFacts DEF SecretsInv, CAInv, KeptInv, SourceInv, ByProvider
  <2>8. QED
    BY <2>4, <2>6, <2>7 DEF SecretsInv
<1>4. QED
  BY <1>2, <1>3

-----------------------------------------------------------------------------
(* Secrets written and taken away.                                            *)
SecretType == [by : {"none", "provider", "cert-manager"}, ctl : Nat, cert : Nat, ca : CAs \cup {0}]
PassType ==
    [at : {"idle", "cluster", "owner", "ca", "leaves"}, settings : Settings, owner : Nat,
     ca : CAs \cup {0}, todo : SUBSET Leaves]

LEMMA NoSecretTyped ==
    NoSecret \in SecretType /\ NoSecret.ctl = 0 /\ NoSecret.ca = 0 /\ NoSecret.by = "none" /\ ~IsThere(NoSecret)
BY DEF NoSecret, SecretType, IsThere

LEMMA DeleteKeeps ==
    ASSUME SecretsInv, NEW n \in Names, secret' = [secret EXCEPT ![n] = NoSecret],
           pass' = pass \/ pass' = Idle, reported' \in BOOLEAN, ~scenario.losesCA => ~Ours(n),
           UNCHANGED <<scenario, settings, instance, cluster, tidb, cert, seen, strayed, dropped>>
    PROVE  SecretsInv'
<1>1. TypeOK /\ instance \in Nat /\ instance > 0 /\ pass \in PassType
  BY DEF SecretsInv, TypeOK, PassType
<1>2. /\ secret'[n] = NoSecret
      /\ \A m \in Names : m # n => secret'[m] = secret[m]
  BY <1>1 DEF TypeOK, Secrets
<1>3. \A m \in Names : Ours(m)' => Ours(m) /\ m # n /\ secret'[m] = secret[m]
  BY <1>1, <1>2, NoSecretTyped DEF Ours
<1>4. pass' \in PassType /\ (pass' # pass => pass'.at = "idle" /\ pass'.owner = 0)
  BY <1>1, IdleTyped DEF Idle, PassType
<1>5. TypeOK'
  <2>1. secret' \in Secrets
    BY <1>1, NoSecretTyped DEF TypeOK, Secrets, SecretType
  <2>2. \A m \in Names : IsThere(secret'[m]) <=> secret'[m].ca # 0
    <3>1. ASSUME NEW m \in Names, m # n PROVE IsThere(secret'[m]) <=> secret'[m].ca # 0
      BY <1>1, <1>2, <3>1 DEF TypeOK, IsThere
    <3>2. QED
      BY <1>2, <3>1, NoSecretTyped
  <2>3. QED
    BY <1>1, <1>4, <2>1, <2>2 DEF TypeOK, PassType, IsThere
<1>6. LeafWork' => LeafWork /\ pass' = pass
  BY <1>4 DEF LeafWork, ByProvider
<1>7. PassInv' /\ AgeInv' /\ TouchedInv' /\ OwnerInv'
  <2>1. PassInv'
    BY <1>4, <1>6 DEF SecretsInv, PassInv, ByProvider
  <2>2. \A m \in Names : secret'[m].ctl = secret[m].ctl \/ secret'[m].ctl = 0
    BY <1>2, NoSecretTyped
  <2>3. pass'.owner = pass.owner \/ pass'.owner = 0
    BY <1>4
  <2>4. AgeInv'
    BY <1>1, <2>2, <2>3 DEF SecretsInv, AgeInv
  <2>5. TouchedInv' /\ OwnerInv'
    BY <1>1, <1>3, <1>4, <2>3 DEF SecretsInv, TouchedInv, OwnerInv
  <2>6. QED
    BY <2>1, <2>4, <2>5
<1>8. WrittenInv'
  BY <1>2, NoSecretTyped DEF SecretsInv, WrittenInv, IsThere
<1>9. SeenInv' /\ CAInv' /\ SourceInv'
  BY <1>1, <1>2, <1>3, <1>4, <1>6, NoSecretTyped, NameFacts
  DEF SecretsInv, SeenInv, CAInv, SourceInv, ByProvider
<1>10. KeptInv'
  <2> SUFFICES ASSUME ~scenario.losesCA
               PROVE /\ LeafWork' /\ pass'.owner = instance => Ours("ca")' /\ pass'.ca = secret'["ca"].ca
                     /\ \A m \in Names :
                           /\ Ours(m)' => Ours("ca")' /\ secret'[m].ca = secret'["ca"].ca
                           /\ seen.secret[m].ctl = instance => Ours(m)' /\ secret'[m].ca = seen.secret[m].ca
    BY DEF KeptInv
  <2>1. \A m \in Names : Ours(m) => m # n /\ secret'[m] = secret[m] /\ Ours(m)'
    BY <1>2 DEF Ours
  <2>2. QED
    BY <1>3, <1>6, <2>1, NameFacts DEF SecretsInv, KeptInv
<1>11. QED
  BY <1>5, <1>7, <1>8, <1>9, <1>10 DEF SecretsInv

(* Pass and CA after GenerateCA or one certificate issued. A Secret is created    *)
(* where neither the API server nor the cache has one.                         *)
LEMMA CreateKeeps ==
    ASSUME SecretsInv, NEW n \in Names, NEW ca \in CAs, ByProvider,
           ~IsThere(secret[n]), ~IsThere(seen.secret[n]), secret' = [secret EXCEPT ![n] = Issued(ca)],
           pass' \in PassType, pass'.at = "leaves", pass'.owner = pass.owner, pass'.settings = pass.settings,
           pass'.ca = ca, pass.at \in {"ca", "leaves"},
           (pass.at = "ca" /\ n = "ca") \/ (LeafWork /\ n # "ca" /\ ca = pass.ca),
           UNCHANGED <<scenario, settings, instance, cluster, tidb, cert, seen, reported, strayed, dropped>>
    PROVE  SecretsInv'
<1>1. /\ TypeOK /\ instance \in Nat /\ instance > 0 /\ pass \in PassType
      /\ pass.owner # 0 /\ pass.owner \in Nat /\ pass.owner <= instance
  BY DEF SecretsInv, TypeOK, PassType, PassInv, AgeInv
<1>2. /\ Issued(ca) \in SecretType /\ Issued(ca).ctl = pass.owner /\ Issued(ca).ca = ca
      /\ Issued(ca).by = "provider" /\ ca # 0
  BY <1>1 DEF Issued, SecretType, CAs
<1>3. /\ secret'[n] = Issued(ca)
      /\ \A m \in Names : m # n => secret'[m] = secret[m]
  BY <1>1 DEF TypeOK, Secrets
<1>4. secret[n].ctl = 0 /\ seen.secret[n].ctl = 0
  BY DEF SecretsInv, WrittenInv, IsThere
<1>5. /\ Ours(n)' <=> pass.owner = instance
      /\ ~Ours(n) /\ seen.secret[n].ctl # instance
      /\ \A m \in Names : m # n => (Ours(m)' <=> Ours(m))
  BY <1>1, <1>2, <1>3, <1>4 DEF Ours
<1>6. TypeOK'
  <2>1. secret' \in Secrets
    BY <1>1, <1>2 DEF TypeOK, Secrets, SecretType
  <2>2. \A m \in Names : IsThere(secret'[m]) <=> secret'[m].ca # 0
    <3>1. ASSUME NEW m \in Names, m # n PROVE IsThere(secret'[m]) <=> secret'[m].ca # 0
      BY <1>1, <1>3, <3>1 DEF TypeOK, IsThere
    <3>2. QED
      BY <1>2, <1>3, <3>1 DEF IsThere
  <2>3. QED
    BY <1>1, <2>1, <2>2 DEF TypeOK, PassType, IsThere
<1>7. PassInv' /\ OwnerInv'
  BY <1>1, <1>2, <1>3, <1>5 DEF SecretsInv, PassInv, OwnerInv, LeafWork, ByProvider
<1>8. WrittenInv' /\ AgeInv'
  BY <1>1, <1>2, <1>3 DEF SecretsInv, WrittenInv, AgeInv, IsThere
<1>9. TouchedInv' /\ SeenInv'
  BY <1>1, <1>4, <1>5, <1>3, <1>2 DEF SecretsInv, TouchedInv, SeenInv
<1>10. CAInv'
  <2>1. CASE pass.owner = instance
    <3>1. CASE n = "ca"
      BY <1>1, <1>2, <1>3, <1>4, <2>1, <3>1 DEF CAInv
    <3>2. CASE n # "ca"
      BY <1>3, <2>1, <3>2, NameFacts DEF SecretsInv, CAInv
    <3>3. QED
      BY <3>1, <3>2
  <2>2. CASE pass.owner # instance
    BY <1>5, <2>2 DEF SecretsInv, CAInv, OwnerInv
  <2>3. QED
    BY <2>1, <2>2
<1>11. SourceInv'
  BY <1>5, <1>3 DEF SecretsInv, SourceInv, ByProvider
<1>12. KeptInv'
  <2> SUFFICES ASSUME ~scenario.losesCA
               PROVE /\ LeafWork' /\ pass'.owner = instance => Ours("ca")' /\ pass'.ca = secret'["ca"].ca
                     /\ \A m \in Names :
                           /\ Ours(m)' => Ours("ca")' /\ secret'[m].ca = secret'["ca"].ca
                           /\ seen.secret[m].ctl = instance => Ours(m)' /\ secret'[m].ca = seen.secret[m].ca
    BY DEF KeptInv
  <2>1. \A m \in Names : seen.secret[m].ctl = instance => Ours(m)' /\ secret'[m].ca = seen.secret[m].ca
    BY <1>3, <1>5 DEF SecretsInv, KeptInv
  <2>2. CASE pass.owner # instance
    BY <1>5, <2>1, <2>2 DEF SecretsInv, OwnerInv
  <2>3. CASE pass.owner = instance /\ n = "ca"
    <3>1. \A m \in Names : ~Ours(m)
      BY <1>5, <2>3 DEF SecretsInv, KeptInv
    <3>2. QED
      BY <1>2, <1>3, <1>5, <2>1, <2>3, <3>1
  <2>4. CASE pass.owner = instance /\ n # "ca"
    <3>1. LeafWork /\ ca = pass.ca /\ Ours("ca") /\ pass.ca = secret["ca"].ca
      BY <2>4 DEF SecretsInv, KeptInv
    <3>2. Ours("ca")' /\ secret'["ca"].ca = ca
      BY <1>3, <1>5, <2>4, <3>1, NameFacts
    <3>3. \A m \in Names : Ours(m)' => secret'[m].ca = ca
      BY <1>2, <1>3, <1>5, <3>1 DEF SecretsInv, KeptInv
    <3>4. QED
      BY <2>1, <3>2, <3>3
  <2>5. QED
    BY <2>2, <2>3, <2>4
<1>13. QED
  BY <1>6, <1>7, <1>8, <1>9, <1>10, <1>11, <1>12 DEF SecretsInv

(* The pass goes on: it reads the CA, or finds a certificate issued.             *)
LEMMA GoOnKeeps ==
    ASSUME SecretsInv, ByProvider, pass' \in PassType, pass'.at = "leaves", pass'.owner = pass.owner,
           pass'.settings = pass.settings, pass.at \in {"ca", "leaves"},
           \/ LeafWork /\ pass'.ca = pass.ca
           \/ /\ seen.secret["ca"].ctl = pass.owner /\ IsThere(seen.secret["ca"])
              /\ pass'.ca = seen.secret["ca"].ca,
           UNCHANGED <<scenario, settings, instance, cluster, tidb, cert, secret, seen, reported, strayed, dropped>>
    PROVE  SecretsInv'
<1>1. TypeOK /\ instance \in Nat /\ instance > 0 /\ pass.owner # 0
  BY DEF SecretsInv, TypeOK, PassInv
<1>2. \A m \in Names : Ours(m)' <=> Ours(m)
  BY DEF Ours
<1>3. TypeOK'
  BY <1>1 DEF TypeOK, PassType, IsThere
<1>4. PassInv'
  BY <1>1, NameFacts DEF SecretsInv, PassInv, LeafWork, ByProvider, WrittenInv
<1>5. WrittenInv' /\ AgeInv' /\ TouchedInv' /\ OwnerInv' /\ SeenInv' /\ SourceInv'
  BY <1>2
  DEF SecretsInv, WrittenInv, AgeInv, TouchedInv, OwnerInv, SeenInv, SourceInv, ByProvider, IsThere, LeafWork
<1>6. CAInv'
  <2>1. CASE LeafWork
    BY <1>2, <2>1 DEF SecretsInv, CAInv
  <2>2. CASE seen.secret["ca"].ctl = pass.owner
    BY <1>2, <2>2, NameFacts DEF SecretsInv, CAInv, SeenInv
  <2>3. QED
    BY <2>1, <2>2
<1>7. KeptInv'
  BY <1>2, NameFacts DEF SecretsInv, KeptInv
<1>8. QED
  BY <1>3, <1>4, <1>5, <1>6, <1>7 DEF SecretsInv

-----------------------------------------------------------------------------
(* The certificate next in order is one of those left.                         *)
LEMMA FirstIsOne ==
    ASSUME NEW S \in SUBSET Leaves, S # {}
    PROVE  First(S) \in S
<1>1. /\ Rank["cluster"] = 1 /\ Rank["server"] = 2 /\ Rank["proxy"] = 3 /\ Rank["session"] = 4
  BY DEF Rank
<1>2. \E n \in S : \A m \in S : Rank[n] <= Rank[m]
  <2> HIDE DEF Rank
  <2>1. CASE "cluster" \in S
    BY <1>1, <2>1 DEF Leaves
  <2>2. CASE "cluster" \notin S /\ "server" \in S
    BY <1>1, <2>2 DEF Leaves
  <2>3. CASE "cluster" \notin S /\ "server" \notin S /\ "proxy" \in S
    BY <1>1, <2>3 DEF Leaves
  <2>4. CASE S = {"session"}
    BY <1>1, <2>4
  <2>5. QED
    BY <2>1, <2>2, <2>3, <2>4 DEF Leaves
<1>3. QED
  BY <1>2 DEF First

LEMMA ForeignIsNotOurs ==
    ASSUME SecretsInv, pass.at \in {"ca", "leaves"}, NEW n \in Names, Foreign(n)
    PROVE  ~Ours(n)
BY DEF SecretsInv, OwnerInv, SeenInv, Foreign

LEMMA ForeignKeeps ==
    ASSUME SecretsInv, pass.at \in {"ca", "leaves"}, NEW n \in Names, DeleteForeign(n), reported' \in BOOLEAN,
           UNCHANGED <<scenario, settings, instance, cluster, tidb, cert, seen, strayed, dropped>>
    PROVE  SecretsInv'
<1>1. Foreign(n) /\ pass' = Idle /\ secret' = [secret EXCEPT ![n] = NoSecret]
  BY DEF DeleteForeign, Fail
<1>2. ~Ours(n)
  BY <1>1, ForeignIsNotOurs
<1>3. QED
  BY <1>1, <1>2, DeleteKeeps

LEMMA SecureKeeps == SecretsInv /\ EnsureCA => SecretsInv'
<1> SUFFICES ASSUME SecretsInv, EnsureCA PROVE SecretsInv'
    OBVIOUS
<1>1. /\ UNCHANGED <<scenario, settings, instance, cluster, tidb, cert, seen, strayed, dropped>>
      /\ pass.at = "ca" /\ ByProvider /\ "ca" \in Names /\ tidb' \in TiDBGroups /\ reported \in BOOLEAN
      /\ pass \in PassType /\ pass.todo # {} /\ pass.todo \subseteq Leaves
  BY NameFacts DEF SecretsInv, TypeOK, EnsureCA, PassType, PassInv
<1>2. CASE ReadCA
  <2>1. CASE seen.secret["ca"].by = "provider"
    <3>1. pass' = [pass EXCEPT !.at = "leaves", !.ca = seen.secret["ca"].ca]
      BY <1>2, <2>1 DEF ReadCA
    <3>2. seen.secret["ca"].ca \in CAs \cup {0}
      BY <1>1 DEF SecretsInv, TypeOK, Secrets
    <3>3. /\ pass' \in PassType /\ pass'.at = "leaves" /\ pass'.owner = pass.owner
          /\ pass'.settings = pass.settings /\ pass'.ca = seen.secret["ca"].ca
      BY <1>1, <3>1, <3>2 DEF PassType
    <3>4. seen.secret["ca"].ctl = pass.owner /\ IsThere(seen.secret["ca"])
      BY <1>1, <1>2, <2>1 DEF ReadCA, Current, Foreign, SecretsInv, WrittenInv
    <3>5. UNCHANGED <<secret, reported>>
      BY <1>2 DEF ReadCA
    <3>6. QED
      BY <1>1, <3>3, <3>4, <3>5, GoOnKeeps
  <2>2. CASE seen.secret["ca"].by # "provider"
    BY <1>1, <1>2, <2>2, EndKeeps DEF ReadCA, Fail
  <2>3. QED
    BY <2>1, <2>2
<1>3. CASE ReportMissingCA
  BY <1>1, <1>3, EndKeeps DEF ReportMissingCA, Fail
<1>4. CASE GenerateCA
  <2>1. CASE CanCreate("ca")
    <3>1. /\ ~IsThere(seen.secret["ca"]) /\ ~IsThere(secret["ca"])
          /\ secret' = [secret EXCEPT !["ca"] = Issued(NewCA)]
          /\ pass' = [pass EXCEPT !.at = "leaves", !.ca = NewCA] /\ UNCHANGED reported
      BY <1>4, <2>1 DEF GenerateCA, CanCreate
    <3>2. /\ pass' \in PassType /\ pass'.at = "leaves" /\ pass'.owner = pass.owner
          /\ pass'.settings = pass.settings /\ pass'.ca = NewCA
      BY <1>1, <3>1, NewCAIsOne DEF PassType
    <3>3. QED
      BY <1>1, <3>1, <3>2, NewCAIsOne, CreateKeeps
  <2>2. CASE ~CanCreate("ca")
    BY <1>1, <1>4, <2>2, EndKeeps DEF GenerateCA, Fail
  <2>3. QED
    BY <2>1, <2>2
<1>5. CASE ForeignBeforeCA
  <2>1. PICK n \in Names : DeleteForeign(n)
    <3>1. CASE DeleteForeign("ca")
      BY <1>1, <3>1
    <3>2. CASE LeavesLeft(pass.todo) # {} /\ DeleteForeign(First(LeavesLeft(pass.todo)))
      <4>1. LeavesLeft(pass.todo) \subseteq Leaves
        BY <1>1 DEF LeavesLeft
      <4>2. First(LeavesLeft(pass.todo)) \in Names
        BY <3>2, <4>1, FirstIsOne, NameFacts
      <4>3. QED
        BY <3>2, <4>2
    <3>3. QED
      BY <1>5, <3>1, <3>2 DEF ForeignBeforeCA
  <2>2. reported' \in BOOLEAN
    BY <1>1, <1>5 DEF ForeignBeforeCA
  <2>3. QED
    BY <1>1, <2>1, <2>2, ForeignKeeps
<1>6. QED
  BY <1>2, <1>3, <1>4, <1>5 DEF EnsureCA

LEMMA LeafKeeps == ASSUME NEW n \in Leaves, SecretsInv, EnsureLeaf(n) PROVE SecretsInv'
<1>1. /\ UNCHANGED <<scenario, settings, instance, cluster, tidb, cert, seen, reported, strayed, dropped>>
      /\ pass.at = "leaves" /\ LeafWork /\ ByProvider /\ n \in Names /\ n # "ca" /\ tidb' \in TiDBGroups
      /\ reported \in BOOLEAN /\ reported' \in BOOLEAN /\ pass \in PassType /\ pass.ca \in CAs
  BY NameFacts DEF SecretsInv, TypeOK, EnsureLeaf, AtLeaf, PassType, PassInv, LeafWork
<1>2. CASE DeleteForeign(n)
  BY <1>1, <1>2, ForeignKeeps
<1>3. Done(n) => /\ pass' \in PassType /\ pass'.at = "leaves" /\ pass'.owner = pass.owner
                 /\ pass'.settings = pass.settings /\ pass'.ca = pass.ca
  BY <1>1 DEF Done, PassType
<1>4. CASE Current(n) /\ Done(n) /\ UNCHANGED secret
  BY <1>1, <1>3, <1>4, GoOnKeeps
<1>5. CASE /\ ~IsThere(seen.secret[n]) /\ CanCreate(n) /\ Done(n)
           /\ secret' = [secret EXCEPT ![n] = Issued(pass.ca)]
  BY <1>1, <1>3, <1>5, CreateKeeps DEF CanCreate
<1>6. CASE ~IsThere(seen.secret[n]) /\ ~CanCreate(n) /\ Fail /\ UNCHANGED secret
  BY <1>1, <1>6, EndKeeps DEF Fail
<1>7. QED
  BY <1>2, <1>4, <1>5, <1>6 DEF EnsureLeaf

(* cert-manager's part writes Certificates and marks Secrets as theirs; whose     *)
(* Secret it is and what it holds stay.                                        *)
LEMMA CertificateKeeps ==
    ASSUME SecretsInv, NEW n \in Names, ApplyCertificate(n), ~ByProvider, pass.at \in {"ca", "leaves"},
           pass' \in PassType, pass'.at = "leaves", pass'.owner = pass.owner, pass'.settings = pass.settings
    PROVE  SecretsInv'
<1>1. /\ UNCHANGED <<scenario, settings, instance, cluster, tidb, seen, reported, strayed, dropped>>
      /\ cert' = [cert EXCEPT ![n] = pass.owner] /\ TypeOK /\ instance \in Nat /\ instance > 0
      /\ pass.owner \in Nat /\ pass.owner <= instance /\ pass.owner # 0
  BY DEF SecretsInv, TypeOK, ApplyCertificate, PassInv, AgeInv
<1>2. cert' \in [Names -> Nat] /\ \A m \in Names : cert'[m] = IF m = n THEN pass.owner ELSE cert[m]
  BY <1>1 DEF TypeOK
<1>3. /\ secret' \in Secrets
      /\ \A m \in Names : /\ secret'[m].ctl = secret[m].ctl /\ secret'[m].ca = secret[m].ca
                          /\ secret'[m].by = secret[m].by
  <2>1. CASE secret' = secret
    BY <1>1, <2>1 DEF TypeOK
  <2>2. CASE secret' = [secret EXCEPT ![n].cert = pass.owner]
    <3>1. secret[n] \in SecretType
      BY <1>1 DEF TypeOK, Secrets, SecretType
    <3>2. /\ [secret[n] EXCEPT !.cert = pass.owner] \in SecretType
          /\ [secret[n] EXCEPT !.cert = pass.owner].ctl = secret[n].ctl
          /\ [secret[n] EXCEPT !.cert = pass.owner].ca = secret[n].ca
          /\ [secret[n] EXCEPT !.cert = pass.owner].by = secret[n].by
      BY <1>1, <3>1 DEF SecretType
    <3> DEFINE new == [secret[n] EXCEPT !.cert = pass.owner]
    <3>3. secret' = [secret EXCEPT ![n] = new]
      BY <2>2
    <3>4. secret \in [Names -> SecretType]
      BY <1>1 DEF TypeOK, Secrets, SecretType
    <3> HIDE DEF new
    <3>5. secret' \in [Names -> SecretType]
      BY <3>2, <3>3, <3>4 DEF new
    <3>6. \A m \in Names : secret'[m] = IF m = n THEN new ELSE secret[m]
      BY <3>3, <3>4
    <3>7. QED
      BY <3>2, <3>5, <3>6 DEF new, Secrets, SecretType
  <2>3. QED
    BY <2>1, <2>2 DEF ApplyCertificate
<1>4. \A m \in Names : Ours(m)' <=> Ours(m)
  BY <1>1, <1>3 DEF Ours
<1>5. ~LeafWork' /\ ~LeafWork
  BY DEF LeafWork, ByProvider
<1>6. TypeOK'
  BY <1>1, <1>2, <1>3 DEF TypeOK, PassType, IsThere
<1>7. PassInv' /\ OwnerInv' /\ WrittenInv' /\ SeenInv'
  BY <1>1, <1>3, <1>4, <1>5
  DEF SecretsInv, PassInv, OwnerInv, WrittenInv, SeenInv, ByProvider, IsThere
<1>8. AgeInv' /\ TouchedInv'
  BY <1>1, <1>2, <1>3, <1>4 DEF SecretsInv, AgeInv, TouchedInv
<1>9. CAInv' /\ KeptInv'
  BY <1>1, <1>3, <1>4, <1>5, NameFacts DEF SecretsInv, CAInv, KeptInv
<1>10. SourceInv'
  BY <1>1, <1>2, <1>4 DEF SecretsInv, SourceInv, ByProvider
<1>11. QED
  BY <1>6, <1>7, <1>8, <1>9, <1>10 DEF SecretsInv

LEMMA IssuerKeeps == SecretsInv /\ EnsureIssuer => SecretsInv'
<1> SUFFICES ASSUME SecretsInv, EnsureIssuer PROVE SecretsInv'
    OBVIOUS
<1>1. pass.at = "ca" /\ ~ByProvider /\ ApplyCertificate("ca") /\ pass' = [pass EXCEPT !.at = "leaves"]
      /\ pass \in PassType
  BY DEF EnsureIssuer, SecretsInv, TypeOK, PassType
<1>2. /\ pass' \in PassType /\ pass'.at = "leaves" /\ pass'.owner = pass.owner
      /\ pass'.settings = pass.settings
  BY <1>1 DEF PassType
<1>3. QED
  BY <1>1, <1>2, CertificateKeeps, NameFacts

LEMMA ManagedLeafKeeps == ASSUME NEW n \in Leaves, SecretsInv, EnsureCertificate(n) PROVE SecretsInv'
<1>1. /\ pass.at = "leaves" /\ ~ByProvider /\ ApplyCertificate(n) /\ pass' = [pass EXCEPT !.todo = @ \ {n}]
      /\ pass \in PassType
  BY DEF EnsureCertificate, AtLeaf, Done, SecretsInv, TypeOK, PassType
<1>2. /\ pass' \in PassType /\ pass'.at = "leaves" /\ pass'.owner = pass.owner
      /\ pass'.settings = pass.settings
  BY <1>1 DEF PassType
<1>3. QED
  BY <1>1, <1>2, CertificateKeeps, NameFacts

-----------------------------------------------------------------------------
(* Kubernetes and users.                                                      *)
LEMMA SeeClusterKeeps == SecretsInv /\ SeeCluster => SecretsInv'
<1> SUFFICES ASSUME SecretsInv, SeeCluster PROVE SecretsInv'
    OBVIOUS
<1>1. /\ UNCHANGED <<scenario, settings, instance, cluster, tidb, cert, secret, pass, reported, strayed, dropped>>
      /\ seen' = [seen EXCEPT !.cluster = cluster, !.tidb = tidb] /\ TypeOK /\ instance \in Nat /\ instance > 0
  BY DEF SecretsInv, TypeOK, SeeCluster
<1>2. /\ seen'.cluster = cluster /\ seen'.secret = seen.secret
      /\ seen' \in [cluster : Clusters, tidb : TiDBGroups, secret : Secrets]
  BY <1>1 DEF TypeOK
<1>3. TypeOK'
  BY <1>1, <1>2 DEF TypeOK
<1>4. /\ LeafWork' <=> LeafWork
      /\ \A n \in Names : Ours(n)' <=> Ours(n)
  BY <1>1 DEF LeafWork, Ours, ByProvider
<1>5. AgeInv' /\ TouchedInv'
  BY <1>1, <1>2, <1>4 DEF SecretsInv, AgeInv, TouchedInv, TypeOK, Clusters
<1>6. PassInv' /\ WrittenInv' /\ OwnerInv' /\ SeenInv'
  BY <1>1, <1>2, <1>4 DEF SecretsInv, PassInv, WrittenInv, OwnerInv, SeenInv, ByProvider, IsThere
<1>7. CAInv' /\ KeptInv' /\ SourceInv'
  BY <1>1, <1>2, <1>4, NameFacts DEF SecretsInv, CAInv, KeptInv, SourceInv, ByProvider
<1>8. QED
  BY <1>3, <1>5, <1>6, <1>7 DEF SecretsInv

LEMMA SeeSecretsKeeps == SecretsInv /\ SeeSecrets => SecretsInv'
<1> SUFFICES ASSUME SecretsInv, SeeSecrets PROVE SecretsInv'
    OBVIOUS
<1>1. /\ UNCHANGED <<scenario, settings, instance, cluster, tidb, cert, secret, pass, reported, strayed, dropped>>
      /\ seen' = [seen EXCEPT !.secret = secret] /\ TypeOK
  BY DEF SecretsInv, TypeOK, SeeSecrets
<1>2. /\ seen'.cluster = seen.cluster /\ seen'.secret = secret
      /\ seen' \in [cluster : Clusters, tidb : TiDBGroups, secret : Secrets]
  BY <1>1 DEF TypeOK
<1>3. TypeOK'
  BY <1>1, <1>2 DEF TypeOK
<1>4. /\ LeafWork' <=> LeafWork
      /\ \A n \in Names : Ours(n)' <=> Ours(n)
  BY <1>1 DEF LeafWork, Ours, ByProvider
<1>5. PassInv' /\ WrittenInv'
  BY <1>1, <1>2, <1>4 DEF SecretsInv, PassInv, WrittenInv, ByProvider, IsThere, TypeOK
<1>6. AgeInv' /\ TouchedInv' /\ OwnerInv' /\ SeenInv'
  BY <1>1, <1>2, <1>4 DEF SecretsInv, AgeInv, TouchedInv, OwnerInv, SeenInv, Ours
<1>7. CAInv' /\ KeptInv' /\ SourceInv'
  BY <1>1, <1>2, <1>4, NameFacts DEF SecretsInv, CAInv, KeptInv, SourceInv, ByProvider, Ours
<1>8. QED
  BY <1>3, <1>5, <1>6, <1>7 DEF SecretsInv

(* A Secret the provider wrote for the Cluster is not garbage: cluster is there.  *)
LEMMA CollectKeeps == ASSUME NEW n \in Names, SecretsInv, CollectSecret(n) PROVE SecretsInv'
<1>1. /\ UNCHANGED <<scenario, settings, instance, cluster, tidb, cert, seen, pass, reported, strayed, dropped>>
      /\ secret' = [secret EXCEPT ![n] = NoSecret] /\ reported' \in BOOLEAN /\ instance # 0
  BY DEF SecretsInv, TypeOK, CollectSecret
<1>2. Ours(n) => cluster.uid = instance
  BY DEF SecretsInv, TouchedInv, AgeInv
<1>3. ~Ours(n)
  BY <1>1, <1>2 DEF CollectSecret, Alive, Ours
<1>4. QED
  BY <1>1, <1>3, DeleteKeeps

LEMMA CollectCertificateKeeps == ASSUME NEW n \in Names, SecretsInv, CollectCertificate(n) PROVE SecretsInv'
<1>1. /\ UNCHANGED <<scenario, settings, instance, cluster, tidb, secret, seen, pass, reported, strayed, dropped>>
      /\ cert' = [cert EXCEPT ![n] = 0] /\ TypeOK /\ instance \in Nat /\ instance > 0
  BY DEF SecretsInv, TypeOK, CollectCertificate
<1>2. cert' \in [Names -> Nat] /\ \A m \in Names : cert'[m] = cert[m] \/ cert'[m] = 0
  BY <1>1 DEF TypeOK
<1>3. TypeOK'
  BY <1>1, <1>2 DEF TypeOK, IsThere
<1>4. /\ LeafWork' <=> LeafWork
      /\ \A m \in Names : Ours(m)' <=> Ours(m)
  BY <1>1 DEF LeafWork, Ours, ByProvider
<1>5. PassInv' /\ WrittenInv' /\ OwnerInv' /\ SeenInv'
  BY <1>1, <1>4 DEF SecretsInv, PassInv, WrittenInv, OwnerInv, SeenInv, ByProvider, IsThere
<1>6. AgeInv' /\ TouchedInv'
  BY <1>1, <1>2, <1>4 DEF SecretsInv, AgeInv, TouchedInv
<1>7. CAInv' /\ KeptInv' /\ SourceInv'
  BY <1>1, <1>2, <1>4, NameFacts DEF SecretsInv, CAInv, KeptInv, SourceInv, ByProvider
<1>8. QED
  BY <1>3, <1>5, <1>6, <1>7 DEF SecretsInv

LEMMA ManagerKeeps == ASSUME NEW n \in Names, SecretsInv, CertManagerIssues(n) PROVE SecretsInv'
<1>1. PICK ca \in CAs :
         secret' = [secret EXCEPT ![n] = [by |-> "cert-manager", ctl |-> 0, cert |-> 0, ca |-> ca]]
  BY DEF CertManagerIssues
<1> DEFINE new == [by |-> "cert-manager", ctl |-> 0, cert |-> 0, ca |-> ca]
<1>2. new \in SecretType /\ new.by = "cert-manager" /\ new.ctl = 0 /\ new.ca = ca /\ ca # 0 /\ IsThere(new)
  BY DEF SecretType, CAs, IsThere
<1>3. /\ UNCHANGED <<scenario, settings, instance, cluster, tidb, cert, seen, pass, reported, strayed, dropped>>
      /\ TypeOK /\ instance \in Nat /\ instance > 0 /\ secret \in [Names -> SecretType] /\ ~IsThere(secret[n])
  BY DEF SecretsInv, TypeOK, CertManagerIssues, Secrets, SecretType
<1> HIDE DEF new
<1>4. secret' \in [Names -> SecretType] /\ \A m \in Names : secret'[m] = IF m = n THEN new ELSE secret[m]
  BY <1>1, <1>2, <1>3 DEF new
<1>5. secret[n].ctl = 0
  BY <1>3 DEF SecretsInv, WrittenInv, IsThere
<1>6. /\ LeafWork' <=> LeafWork
      /\ \A m \in Names : Ours(m)' <=> Ours(m)
      /\ \A m \in Names : secret'[m].ctl = secret[m].ctl
  BY <1>2, <1>3, <1>4, <1>5 DEF LeafWork, Ours, ByProvider
<1>7. TypeOK'
  <2>1. \A m \in Names : IsThere(secret'[m]) <=> secret'[m].ca # 0
    BY <1>2, <1>3, <1>4 DEF TypeOK, IsThere
  <2>2. QED
    BY <1>3, <1>4, <2>1 DEF TypeOK, Secrets, SecretType, IsThere
<1>8. WrittenInv'
  BY <1>2, <1>3, <1>4 DEF SecretsInv, WrittenInv, IsThere
<1>9. PassInv' /\ AgeInv' /\ TouchedInv' /\ OwnerInv' /\ SeenInv'
  BY <1>3, <1>6 DEF SecretsInv, PassInv, AgeInv, TouchedInv, OwnerInv, SeenInv, ByProvider
<1>10. CAInv' /\ SourceInv'
  BY <1>3, <1>6, NameFacts DEF SecretsInv, CAInv, SourceInv, ByProvider
<1>11. \A m \in Names : Ours(m) => secret'[m] = secret[m]
  BY <1>3, <1>4, <1>5 DEF Ours
<1>12. KeptInv'
  BY <1>3, <1>6, <1>11, NameFacts DEF SecretsInv, KeptInv
<1>13. QED
  BY <1>7, <1>8, <1>9, <1>10, <1>12 DEF SecretsInv

LEMMA AskedIsSettings == ASSUME NEW s \in Scenarios PROVE s.settings \subseteq Settings /\ s.next \subseteq Settings
BY ScenarioAssumption

LEMMA EditKeeps == SecretsInv /\ EditSettings => SecretsInv'
<1> SUFFICES ASSUME SecretsInv, EditSettings PROVE SecretsInv'
    OBVIOUS
<1>1. /\ UNCHANGED <<scenario, instance, cluster, tidb, cert, secret, seen, pass, reported, strayed, dropped>>
      /\ settings' \in Settings
  BY AskedIsSettings DEF SecretsInv, TypeOK, EditSettings, AskedFor
<1>2. TypeOK'
  BY <1>1 DEF SecretsInv, TypeOK, IsThere
<1>3. /\ LeafWork' <=> LeafWork
      /\ \A n \in Names : Ours(n)' <=> Ours(n)
  BY <1>1 DEF LeafWork, Ours, ByProvider
<1>4. PassInv' /\ WrittenInv' /\ AgeInv' /\ TouchedInv' /\ OwnerInv' /\ SeenInv'
  BY <1>1, <1>3
  DEF SecretsInv, PassInv, WrittenInv, AgeInv, TouchedInv, OwnerInv, SeenInv, ByProvider, IsThere
<1>5. CAInv' /\ KeptInv' /\ SourceInv'
  BY <1>1, <1>3, NameFacts DEF SecretsInv, CAInv, KeptInv, SourceInv, ByProvider
<1>6. QED
  BY <1>2, <1>4, <1>5 DEF SecretsInv

(* Nothing there is of the next Instance.                                      *)
LEMMA RecreateKeeps == SecretsInv /\ Recreate => SecretsInv'
<1> SUFFICES ASSUME SecretsInv, Recreate PROVE SecretsInv'
    OBVIOUS
<1>1. /\ UNCHANGED <<scenario, cert, secret, seen, pass>> /\ TypeOK
      /\ instance' = instance + 1 /\ cluster' = NoCluster /\ tidb' = "none"
      /\ reported' = FALSE /\ strayed' = FALSE /\ dropped' = FALSE /\ pass.at = "idle" /\ instance \in Nat /\ instance > 0
      /\ settings' \in Settings
  BY AskedIsSettings DEF SecretsInv, TypeOK, Recreate, AskedFor
<1>2. NoCluster \in Clusters /\ NoCluster.uid = 0
  BY DEF NoCluster, Clusters
<1>3. TypeOK'
  <2>1. reported' \in BOOLEAN /\ strayed' \in BOOLEAN /\ dropped' \in BOOLEAN
    BY <1>1
  <2>2. instance' \in Nat \ {0} /\ cluster' \in Clusters /\ tidb' \in TiDBGroups
    BY <1>1, <1>2 DEF TiDBGroups
  <2>3. QED
    BY <1>1, <2>1, <2>2 DEF TypeOK, IsThere
<1>4. /\ seen.cluster.uid \in Nat /\ pass.owner \in Nat
      /\ \A n \in Names : secret[n].ctl \in Nat /\ seen.secret[n].ctl \in Nat /\ cert[n] \in Nat
  BY <1>1 DEF TypeOK, Clusters, Secrets
<1>5. /\ seen.cluster.uid < instance' /\ pass.owner < instance'
      /\ \A n \in Names : secret[n].ctl < instance' /\ seen.secret[n].ctl < instance' /\ cert[n] < instance'
  BY <1>1, <1>4 DEF SecretsInv, AgeInv
<1>6. ~LeafWork' /\ \A n \in Names : ~Ours(n)'
  BY <1>1, <1>4, <1>5 DEF LeafWork, Ours
<1>7. PassInv' /\ WrittenInv' /\ OwnerInv'
  BY <1>1, <1>6 DEF SecretsInv, PassInv, WrittenInv, OwnerInv, IsThere
<1>8. AgeInv' /\ TouchedInv'
  BY <1>1, <1>2, <1>4, <1>5, <1>6 DEF AgeInv, TouchedInv
<1>9. SeenInv' /\ CAInv' /\ KeptInv' /\ SourceInv'
  BY <1>1, <1>4, <1>5, <1>6 DEF SeenInv, CAInv, KeptInv, SourceInv
<1>10. QED
  BY <1>3, <1>7, <1>8, <1>9 DEF SecretsInv

LEMMA LoseKeeps == SecretsInv /\ LoseCA => SecretsInv'
<1> SUFFICES ASSUME SecretsInv, LoseCA PROVE SecretsInv'
    OBVIOUS
<1>1. /\ UNCHANGED <<scenario, settings, instance, cluster, tidb, cert, seen, pass, strayed, dropped>>
      /\ secret' = [secret EXCEPT !["ca"] = NoSecret] /\ scenario.losesCA
  BY DEF LoseCA
<1>2. reported' \in BOOLEAN
  BY DEF LoseCA
<1>3. QED
  BY <1>1, <1>2, DeleteKeeps, NameFacts

LEMMA MineIsOurs == ASSUME SecretsInv, NEW n \in Names PROVE Mine(n) <=> Ours(n)
<1>1. Ours(n) => cluster.uid = instance /\ secret[n].by = "provider" /\ cluster.uid # 0
  BY DEF SecretsInv, TouchedInv, AgeInv, WrittenInv, Ours, TypeOK
<1>2. Mine(n) => cluster.uid = instance
  BY DEF Mine, SecretsInv, AgeInv
<1>3. QED
  BY <1>1, <1>2 DEF Mine, Ours

(* A CA is put back from a certificate of the Cluster, which says it was lost.    *)
LEMMA RestoreKeeps == SecretsInv /\ RestoreCA => SecretsInv'
<1> SUFFICES ASSUME SecretsInv, RestoreCA PROVE SecretsInv'
    OBVIOUS
<1>1. PICK k \in Leaves : Mine(k) /\ secret' = [secret EXCEPT !["ca"] = secret[k]]
  BY DEF RestoreCA
<1>2. /\ UNCHANGED <<scenario, settings, instance, cluster, tidb, cert, seen, pass, strayed, dropped>>
      /\ TypeOK /\ instance \in Nat /\ instance > 0 /\ k \in Names /\ "ca" \in Names /\ ~IsThere(secret["ca"])
      /\ secret \in [Names -> SecretType]
  BY NameFacts DEF SecretsInv, TypeOK, RestoreCA, Secrets, SecretType
<1>3. reported' \in BOOLEAN
  BY DEF RestoreCA
<1>4. Ours(k) /\ ~Ours("ca") /\ secret["ca"].ctl = 0
  BY <1>1, <1>2, MineIsOurs DEF SecretsInv, WrittenInv, IsThere, Ours
<1>5. scenario.losesCA
  BY <1>2, <1>4 DEF SecretsInv, KeptInv, TypeOK
<1>6. /\ secret' \in [Names -> SecretType]
      /\ \A m \in Names : secret'[m] = IF m = "ca" THEN secret[k] ELSE secret[m]
  BY <1>1, <1>2
<1>7. /\ LeafWork' <=> LeafWork
      /\ \A m \in Names : Ours(m)' <=> (Ours(m) \/ m = "ca")
  BY <1>2, <1>4, <1>6 DEF LeafWork, Ours, ByProvider
<1>8. TypeOK'
  <2>1. \A m \in Names : IsThere(secret'[m]) <=> secret'[m].ca # 0
    BY <1>2, <1>6 DEF TypeOK, IsThere
  <2>2. QED
    BY <1>2, <1>3, <1>6, <2>1 DEF TypeOK, Secrets, SecretType, IsThere
<1>9. PassInv' /\ WrittenInv' /\ AgeInv'
  BY <1>2, <1>6, <1>7 DEF SecretsInv, PassInv, WrittenInv, AgeInv, ByProvider, IsThere
<1>10. TouchedInv' /\ OwnerInv'
  BY <1>2, <1>4, <1>7 DEF SecretsInv, TouchedInv, OwnerInv
<1>11. seen.secret["ca"].ctl \in {0, instance} /\ secret'["ca"].ctl = instance
  BY <1>2, <1>4, <1>6 DEF SecretsInv, CAInv, Ours
<1>12. SeenInv' /\ CAInv'
  BY <1>2, <1>6, <1>7, <1>11 DEF SecretsInv, SeenInv, CAInv
<1>13. KeptInv' /\ SourceInv'
  BY <1>2, <1>4, <1>5, <1>7 DEF SecretsInv, KeptInv, SourceInv, ByProvider
<1>14. QED
  BY <1>8, <1>9, <1>10, <1>12, <1>13 DEF SecretsInv

LEMMA ClearKeeps == SecretsInv /\ DeleteLeaves => SecretsInv'
<1> SUFFICES ASSUME SecretsInv, DeleteLeaves PROVE SecretsInv'
    OBVIOUS
<1>1. /\ UNCHANGED <<scenario, settings, instance, cluster, tidb, cert, seen, pass, strayed, dropped>>
      /\ secret' = [n \in Names |-> NoSecret] /\ TypeOK /\ instance \in Nat /\ instance > 0
      /\ ~IsThere(secret["ca"])
  BY DEF SecretsInv, TypeOK, DeleteLeaves
<1>2. reported' \in BOOLEAN
  BY DEF DeleteLeaves
<1>3. \A n \in Names : secret'[n] = NoSecret
  BY <1>1
<1>4. secret' \in [Names -> SecretType]
  <2> HIDE DEF NoSecret
  <2>1. QED
    BY <1>1, NoSecretTyped
<1>5. /\ LeafWork' <=> LeafWork
      /\ \A n \in Names : ~Ours(n)' /\ secret'[n].ctl = 0
  BY <1>1, <1>3, NoSecretTyped DEF LeafWork, Ours, ByProvider
<1>6. TypeOK'
  <2>1. \A n \in Names : IsThere(secret'[n]) <=> secret'[n].ca # 0
    BY <1>3, NoSecretTyped
  <2>2. QED
    BY <1>1, <1>2, <1>4, <2>1 DEF TypeOK, Secrets, SecretType, IsThere
<1>7. WrittenInv'
  BY <1>1, <1>3, NoSecretTyped DEF SecretsInv, WrittenInv, IsThere
<1>8. PassInv' /\ AgeInv' /\ TouchedInv' /\ OwnerInv' /\ SeenInv'
  BY <1>1, <1>5 DEF SecretsInv, PassInv, AgeInv, TouchedInv, OwnerInv, SeenInv, ByProvider
<1>9. CAInv' /\ SourceInv'
  BY <1>1, <1>5, NameFacts DEF SecretsInv, CAInv, SourceInv, ByProvider
<1>10. KeptInv'
  <2>1. ~Ours("ca")
    BY <1>1, NameFacts DEF SecretsInv, WrittenInv, IsThere, Ours
  <2>2. QED
    BY <1>1, <1>5, <2>1, NameFacts DEF SecretsInv, KeptInv
<1>11. QED
  BY <1>6, <1>7, <1>8, <1>9, <1>10 DEF SecretsInv

-----------------------------------------------------------------------------
LEMMA NextKeeps == SecretsInv /\ [Next]_vars => SecretsInv'
<1> SUFFICES ASSUME SecretsInv, [Next]_vars PROVE SecretsInv'
    OBVIOUS
<1>1. CASE Reconcile
  <2>1. CASE ApplyTiDBGroup
    <3>1. /\ UNCHANGED <<scenario, settings, instance, cluster, cert, secret, seen, reported, strayed, dropped>>
          /\ pass' = Idle /\ tidb' \in TiDBGroups /\ reported \in BOOLEAN
      BY <2>1 DEF ApplyTiDBGroup, TiDBGroups, SecretsInv, TypeOK
    <3>2. QED
      BY <3>1, EndKeeps
  <2>2. ASSUME NEW n \in Leaves, IssueLeaf(n) PROVE SecretsInv'
    BY <2>2, LeafKeeps, ManagedLeafKeeps DEF IssueLeaf
  <2>3. QED
    BY <1>1, <2>1, <2>2, StartKeeps, ApplyKeeps, ReadKeeps, SecureKeeps, IssuerKeeps DEF Reconcile, SecureCA
<1>2. CASE AbortPass
  <2>1. /\ UNCHANGED <<scenario, settings, instance, cluster, tidb, cert, secret, seen, reported, strayed, dropped>>
        /\ pass' = Idle /\ tidb \in TiDBGroups /\ reported \in BOOLEAN
    BY <1>2 DEF AbortPass, Fail, SecretsInv, TypeOK
  <2>2. QED
    BY <2>1, EndKeeps
<1>3. CASE Kubernetes
  BY <1>3, SeeClusterKeeps, SeeSecretsKeeps, CollectKeeps, CollectCertificateKeeps, ManagerKeeps
  DEF Kubernetes, CollectCertificates, CertManager
<1>4. CASE User
  BY <1>4, EditKeeps, RecreateKeeps, LoseKeeps, RestoreKeeps, ClearKeeps DEF User
<1>5. CASE UNCHANGED vars
  <2>1. /\ LeafWork' <=> LeafWork
        /\ \A n \in Names : Ours(n)' <=> Ours(n)
    BY <1>5 DEF vars, LeafWork, Ours, ByProvider
  <2>2. TypeOK' /\ PassInv' /\ WrittenInv' /\ AgeInv'
    BY <1>5, <2>1 DEF vars, SecretsInv, TypeOK, PassInv, WrittenInv, AgeInv, ByProvider, IsThere
  <2>3. TouchedInv' /\ OwnerInv' /\ SeenInv' /\ CAInv' /\ KeptInv' /\ SourceInv'
    BY <1>5, <2>1, NameFacts
    DEF vars, SecretsInv, TouchedInv, OwnerInv, SeenInv, CAInv, KeptInv, SourceInv, ByProvider
  <2>4. QED
    BY <2>2, <2>3 DEF SecretsInv
<1>6. QED
  BY <1>1, <1>2, <1>3, <1>4, <1>5 DEF Next

(* The invariant, and with it the types: a CA the provider makes is a new one       *)
(* (newCertAuthority), and a pass that issues certificates has one (ensureCA).     *)
THEOREM SecretsInvHolds == Spec => []SecretsInv
BY InitKeeps, NextKeeps, PTL DEF Spec

THEOREM SecretsTypeCorrect == Spec => []TypeOK
<1>1. SecretsInv => TypeOK
  BY DEF SecretsInv
<1>2. QED
  BY <1>1, SecretsInvHolds, PTL

(* As long as nobody loses the CA, the provider's certificates of a Cluster are    *)
(* signed by the CA in its Secret, whatever the caches show and whatever an earlier *)
(* Instance of the name left (ensureCA, ensureTLSSecrets, currentSecret).         *)
THEOREM OneCAWhileKept == Spec => [](~scenario.losesCA => OneCA)
<1>1. SecretsInv => (~scenario.losesCA => OneCA)
  <2> SUFFICES ASSUME SecretsInv, ~scenario.losesCA, NEW m \in Names \ {"session"},
                      NEW n \in Names \ {"session"}, Mine(m), Mine(n)
               PROVE  secret[m].ca = secret[n].ca
    BY DEF OneCA
  <2>1. Ours(m) /\ Ours(n)
    BY MineIsOurs
  <2>2. QED
    BY <2>1 DEF SecretsInv, KeptInv
<1>2. QED
  BY <1>1, SecretsInvHolds, PTL

(* The provider issues nothing beside cert-manager's Certificates, for any         *)
(* settings, edits, failures and ages of the caches, unless a pass built on        *)
(* settings judged before the Cluster was seen, or without the TLS its Cluster has *)
(* from cert-manager (validateTLS, currentTLSSource).                            *)
THEOREM OneSourceHolds == Spec => []OneSource
<1>1. SecretsInv => OneSource
  <2> SUFFICES ASSUME SecretsInv, ~strayed, ~dropped, NEW m \in Names, NEW n \in Names, Mine(n),
                      cert[m] = cluster.uid
               PROVE  FALSE
    BY DEF OneSource, TwoSources
  <2>1. Ours(n) /\ cluster.uid = instance
    BY MineIsOurs DEF Mine, SecretsInv, AgeInv
  <2>2. QED
    BY <2>1 DEF SecretsInv, SourceInv
<1>2. QED
  BY <1>1, SecretsInvHolds, PTL

(* A pass never deletes, replaces or reissues a Secret of the Cluster it is there    *)
(* for, a lost CA and old reads included (ensureTLSSecrets, currentSecret).        *)
THEOREM IssuedOnceHolds == Spec => IssuedOnce
<1>1. SecretsInv /\ SecretsInv' /\ [Next]_vars
        => [pass' # pass /\ cluster' = cluster =>
              \A n \in Names : Mine(n) => Mine(n)' /\ secret'[n].ca = secret[n].ca]_vars
  <2> SUFFICES ASSUME SecretsInv, SecretsInv', Next, pass' # pass, cluster' = cluster, NEW n \in Names, Mine(n)
               PROVE  Mine(n)' /\ secret'[n].ca = secret[n].ca
    BY DEF vars
  <2>1. Ours(n) /\ IsThere(secret[n]) /\ secret \in [Names -> SecretType]
    BY MineIsOurs DEF SecretsInv, TypeOK, Secrets, SecretType, Mine, IsThere
  <2>2. SUFFICES /\ secret'[n].ca = secret[n].ca /\ secret'[n].ctl = secret[n].ctl
                 /\ secret'[n].by = secret[n].by
    BY DEF Mine
  <2>3. CASE secret' = secret
    BY <2>3
  <2>4. ASSUME NEW m, DeleteForeign(m), pass.at \in {"ca", "leaves"}
        PROVE  secret'[n] = secret[n]
    <3>1. n # m
      BY <2>1, <2>4, ForeignIsNotOurs DEF DeleteForeign
    <3>2. QED
      BY <2>1, <2>4, <3>1 DEF DeleteForeign
  <2>5. ASSUME NEW m, NEW new, ~IsThere(secret[m]), secret' = [secret EXCEPT ![m] = new]
        PROVE  secret'[n] = secret[n]
    BY <2>1, <2>5
  <2>6. ASSUME NEW m, ApplyCertificate(m)
        PROVE  /\ secret'[n].ca = secret[n].ca /\ secret'[n].ctl = secret[n].ctl
               /\ secret'[n].by = secret[n].by
    <3>1. CASE secret' = secret
      BY <3>1
    <3>2. CASE secret' = [secret EXCEPT ![m].cert = pass.owner] /\ m # n
      BY <2>1, <3>2
    <3>3. CASE secret' = [secret EXCEPT ![m].cert = pass.owner] /\ m = n
      <4>1. secret'[n] = [secret[n] EXCEPT !.cert = pass.owner] /\ secret[n] \in SecretType
        BY <2>1, <3>3
      <4>2. QED
        BY <4>1 DEF SecretType
    <3>4. QED
      BY <2>6, <3>1, <3>2, <3>3 DEF ApplyCertificate
  <2>7. CASE EnsureCA
    <3>1. CASE ReadCA \/ ReportMissingCA
      BY <2>3, <3>1 DEF ReadCA, ReportMissingCA
    <3>2. CASE GenerateCA
      BY <2>3, <2>5, <3>2 DEF GenerateCA, CanCreate
    <3>3. CASE ForeignBeforeCA
      BY <2>4, <2>7, <3>3 DEF ForeignBeforeCA, EnsureCA
    <3>4. QED
      BY <2>7, <3>1, <3>2, <3>3 DEF EnsureCA
  <2>8. ASSUME NEW m \in Leaves, EnsureLeaf(m)
        PROVE  secret'[n] = secret[n]
    <3>1. CASE DeleteForeign(m)
      BY <2>4, <2>8, <3>1 DEF EnsureLeaf, AtLeaf
    <3>2. CASE secret' = secret
      BY <3>2
    <3>3. CASE CanCreate(m) /\ secret' = [secret EXCEPT ![m] = Issued(pass.ca)]
      BY <2>5, <3>3 DEF CanCreate
    <3>4. QED
      BY <2>8, <3>1, <3>2, <3>3 DEF EnsureLeaf
  <2>9. CASE Reconcile
    BY <2>3, <2>6, <2>7, <2>8, <2>9
    DEF Reconcile, StartPass, ApplyCluster, ReadOwner, SecureCA, EnsureIssuer, ApplyTiDBGroup, IssueLeaf,
        EnsureCertificate
  <2>10. CASE AbortPass
    BY <2>3, <2>10 DEF AbortPass
  <2>11. ~Kubernetes /\ ~User
    BY DEF Kubernetes, SeeCluster, SeeSecrets, CollectCertificates, CollectCertificate, CertManager,
       CertManagerIssues, CollectSecret, User, EditSettings, Recreate, LoseCA, RestoreCA, DeleteLeaves
  <2>12. QED
    BY <2>9, <2>10, <2>11 DEF Next
<1>2. QED
  BY <1>1, SecretsInvHolds, PTL DEF Spec, IssuedOnce
-----------------------------------------------------------------------------
(* The CA is lost.                                                           *)

OwnWork == LeafWork /\ pass.owner = instance
CAShown == seen.secret["ca"].ctl = instance

(* A certificate that all settings users move between ask for. validateTLS       *)
(* refuses to turn tls.cluster or tls.client once the caches show the Cluster    *)
(* and the TiDB group.                                                       *)
Common(asked) == {n \in Leaves : \A s \in asked : Wanted(s, n)}
Anchored(asked) == (\E s \in asked : HasTLS(s)) => Common(asked) # {}
Settled == Anchored(scenario.settings) /\ Anchored(scenario.next)

AskedInv ==
    /\ settings \in AskedFor(instance)
    /\ pass.at # "idle" => pass.settings \in AskedFor(instance)
    /\ pass.at = "ca" => pass.todo = WantedLeaves(pass.settings)

(* While users act on the report, no pass holds the lost CA or may still read it. *)
ReportInv == reported /\ ~Ours("ca") => ~CAShown /\ ~OwnWork

(* While the CA of a Cluster is lost, a certificate that every pass looks at is   *)
(* there, and shown.                                                         *)
AnchorInv ==
    Settled /\ ~Ours("ca") /\ (OwnWork \/ CAShown \/ \E n \in Names : Ours(n)) =>
        \E n \in Common(AskedFor(instance)) : Ours(n) /\ IsThere(seen.secret[n])

(* What is issued, what a pass is about to issue and what the cache shows is of   *)
(* one CA.                                                                   *)
OneInv ==
    Settled => \A n \in Names : Ours(n) =>
        /\ \A m \in Names : Ours(m) => secret[m].ca = secret[n].ca
        /\ OwnWork => pass.ca = secret[n].ca
        /\ CAShown => seen.secret["ca"].ca = secret[n].ca

LossInv == AskedInv /\ ReportInv /\ AnchorInv /\ OneInv

LEMMA AskedSteps == SecretsInv /\ AskedInv /\ [Next]_vars => AskedInv'
<1> SUFFICES ASSUME SecretsInv, AskedInv, [Next]_vars PROVE AskedInv'
  OBVIOUS
<1>1. pass \in PassType /\ Idle.at = "idle" /\ scenario' = scenario
  BY DEF SecretsInv, TypeOK, PassType, Idle, Next, Reconcile, StartPass, ApplyCluster, ReadOwner, SecureCA,
         EnsureCA, EnsureIssuer, ApplyCertificate, ApplyTiDBGroup, IssueLeaf, EnsureLeaf, EnsureCertificate,
         AbortPass, Kubernetes, SeeCluster, SeeSecrets, CollectCertificates, CollectCertificate, CertManager,
         CertManagerIssues, CollectSecret, User, EditSettings, Recreate, LoseCA, RestoreCA, DeleteLeaves, vars
<1>2. \A i : AskedFor(i)' = AskedFor(i)
  BY <1>1 DEF AskedFor
<1>3. ASSUME UNCHANGED <<settings, instance>>,
             \/ pass'.at = "idle" \/ pass' = pass
             \/ pass'.at # "ca" /\ pass'.settings = pass.settings /\ pass.at # "idle"
      PROVE  AskedInv'
  BY <1>2, <1>3 DEF AskedInv, WantedLeaves
<1>4. CASE StartPass
  <2>1. pass'.at = "cluster" /\ pass'.settings = settings
    BY <1>4 DEF StartPass, Idle
  <2>2. QED
    BY <1>2, <1>4, <2>1 DEF AskedInv, StartPass
<1>5. CASE ReadOwner
  <2>1. CASE pass' = Idle
    BY <1>1, <1>3, <1>5, <2>1 DEF ReadOwner
  <2>2. CASE pass' # Idle
    <3>1. pass'.settings = pass.settings /\ pass'.todo = WantedLeaves(pass.settings) /\ pass.at = "owner"
      BY <1>1, <1>5, <2>2 DEF ReadOwner, Fail, PassType
    <3>2. QED
      BY <1>2, <1>5, <3>1 DEF AskedInv, ReadOwner
  <2>3. QED
    BY <2>1, <2>2
<1>6. CASE ApplyCluster \/ EnsureCA \/ EnsureIssuer \/ (\E n \in Leaves : IssueLeaf(n)) \/ ApplyTiDBGroup
           \/ AbortPass
  <2>1. UNCHANGED <<settings, instance>> /\ pass.at # "idle"
    BY <1>6 DEF ApplyCluster, EnsureCA, EnsureIssuer, ApplyCertificate, IssueLeaf, EnsureLeaf,
                EnsureCertificate, AtLeaf, ApplyTiDBGroup, AbortPass
  <2>2. pass'.at = "idle" \/ (pass'.at # "ca" /\ pass'.settings = pass.settings)
    <3> USE DEF PassType
    <3>1. CASE ApplyCluster \/ EnsureIssuer \/ ApplyTiDBGroup \/ AbortPass
      BY <1>1, <3>1 DEF ApplyCluster, EnsureIssuer, ApplyTiDBGroup, AbortPass, Fail
    <3>2. CASE EnsureCA
      BY <1>1, <3>2
         DEF EnsureCA, ReadCA, ReportMissingCA, GenerateCA, ForeignBeforeCA, DeleteForeign, Fail
    <3>3. CASE \E n \in Leaves : IssueLeaf(n)
      BY <1>1, <3>3 DEF IssueLeaf, EnsureLeaf, EnsureCertificate, AtLeaf, Done, DeleteForeign, Fail
    <3>4. QED
      BY <1>6, <3>1, <3>2, <3>3
  <2>3. QED
    BY <1>3, <2>1, <2>2
<1>7. CASE Kubernetes \/ LoseCA \/ RestoreCA \/ DeleteLeaves \/ UNCHANGED vars
  BY <1>3, <1>7
  DEF Kubernetes, SeeCluster, SeeSecrets, CollectCertificates, CollectCertificate, CertManager,
      CertManagerIssues, CollectSecret, LoseCA, RestoreCA, DeleteLeaves, vars
<1>8. CASE EditSettings
  BY <1>2, <1>8 DEF EditSettings, AskedInv, WantedLeaves
<1>9. CASE Recreate
  BY <1>1, <1>2, <1>9 DEF Recreate, AskedInv, AskedFor
<1>10. QED
  BY <1>4, <1>5, <1>6, <1>7, <1>8, <1>9 DEF Next, Reconcile, SecureCA, User

SameOurs == \A n \in Names : /\ Ours(n)' <=> Ours(n)
                             /\ Ours(n) => secret'[n].ca = secret[n].ca

(* Nothing is issued or lost for the Cluster, and no pass gets to issue.          *)
LEMMA SameKeepsLoss ==
    ASSUME LossInv, AskedInv', SameOurs, UNCHANGED <<scenario, instance>>, seen'.secret = seen.secret,
           reported' => reported, OwnWork' => OwnWork /\ pass'.ca = pass.ca
    PROVE  LossInv'
<1>1. /\ CAShown' <=> CAShown
      /\ Settled' <=> Settled
      /\ Common(AskedFor(instance))' = Common(AskedFor(instance))
  BY DEF CAShown, Settled, Anchored, Common, AskedFor
<1>2. ReportInv'
  BY <1>1, NameFacts DEF LossInv, ReportInv, SameOurs
<1>3. AnchorInv'
  <2>1. Common(AskedFor(instance)) \subseteq Names
    BY NameFacts DEF Common
  <2>2. QED
    BY <1>1, <2>1, NameFacts DEF LossInv, AnchorInv, SameOurs, IsThere
<1>4. OneInv'
  BY <1>1 DEF LossInv, OneInv, SameOurs
<1>5. QED
  BY <1>2, <1>3, <1>4 DEF LossInv

(* A Secret that is not of the Cluster is taken away.                          *)
LEMMA OthersTaken ==
    ASSUME SecretsInv, NEW n \in Names, ~Ours(n), secret' = [secret EXCEPT ![n] = NoSecret], UNCHANGED instance
    PROVE  SameOurs
<1>1. secret \in [Names -> SecretType] /\ instance # 0
  BY DEF SecretsInv, TypeOK, Secrets, SecretType
<1>2. QED
  BY <1>1, NoSecretTyped DEF SameOurs, Ours

(* The pass reads the CA it sees.                                             *)
LEMMA ReadKeepsLoss ==
    ASSUME SecretsInv, LossInv, AskedInv', SameOurs, UNCHANGED <<scenario, instance, seen, reported>>,
           pass'.owner = pass.owner, seen.secret["ca"].ctl = pass.owner, pass'.ca = seen.secret["ca"].ca
    PROVE  LossInv'
<1>1. /\ CAShown' <=> CAShown
      /\ Settled' <=> Settled
      /\ Common(AskedFor(instance))' = Common(AskedFor(instance))
      /\ OwnWork' => CAShown
  BY DEF CAShown, Settled, Anchored, Common, AskedFor, OwnWork
<1>2. ReportInv'
  BY <1>1, NameFacts DEF LossInv, ReportInv, SameOurs
<1>3. AnchorInv'
  <2>1. Common(AskedFor(instance)) \subseteq Names
    BY NameFacts DEF Common
  <2>2. QED
    BY <1>1, <2>1, NameFacts DEF LossInv, AnchorInv, SameOurs, IsThere
<1>4. OneInv'
  BY <1>1 DEF LossInv, OneInv, SameOurs
<1>5. QED
  BY <1>2, <1>3, <1>4 DEF LossInv

(* A new CA is only made while nothing of an earlier one is left.               *)
LEMMA GenerateKeepsLoss ==
    ASSUME SecretsInv, LossInv, AskedInv', pass.at = "ca", ByProvider, GenerateCA, CanCreate("ca"),
           UNCHANGED <<scenario, settings, instance, seen>>
    PROVE  LossInv'
<1>1. /\ secret' = [secret EXCEPT !["ca"] = Issued(NewCA)] /\ UNCHANGED reported
      /\ pass' = [pass EXCEPT !.at = "leaves", !.ca = NewCA] /\ ~IsThere(secret["ca"])
      /\ ~IsThere(seen.secret["ca"]) /\ LeavesLeft(pass.todo) = {}
      /\ secret \in [Names -> SecretType] /\ pass \in PassType
      /\ instance \in Nat /\ instance > 0 /\ "ca" \in Names
  BY NameFacts DEF GenerateCA, CanCreate, SecretsInv, TypeOK, Secrets, SecretType, PassType
<1>2. /\ secret'["ca"].ctl = pass.owner /\ secret'["ca"].ca = NewCA
      /\ \A n \in Names : n # "ca" => secret'[n] = secret[n]
      /\ pass'.owner = pass.owner /\ pass'.ca = NewCA
  BY <1>1 DEF Issued, PassType
<1>3. ~Ours("ca") /\ ~CAShown
  BY <1>1 DEF SecretsInv, WrittenInv, IsThere, Ours, CAShown
<1>4. CASE pass.owner # instance
  <2>1. SameOurs /\ ~OwnWork'
    BY <1>1, <1>2, <1>3, <1>4 DEF SameOurs, Ours, OwnWork
  <2>2. QED
    BY <1>1, <2>1, SameKeepsLoss
<1>5. CASE pass.owner = instance
  <2>1. ASSUME Settled, NEW n \in Names, Ours(n)
        PROVE  FALSE
    <3>1. PICK k \in Common(AskedFor(instance)) : IsThere(seen.secret[k])
      BY <1>3, <2>1 DEF LossInv, AnchorInv
    <3>2. k \in pass.todo
      BY DEF LossInv, AskedInv, WantedLeaves, Common
    <3>3. QED
      BY <1>1, <3>1, <3>2 DEF LeavesLeft
  <2>2. /\ Ours("ca")' /\ ~CAShown'
        /\ \A n \in Names : Ours(n)' /\ n # "ca" => Ours(n)
        /\ Settled' <=> Settled
    BY <1>2, <1>3, <1>5 DEF Ours, CAShown, Settled, Anchored, Common
  <2>3. ReportInv' /\ AnchorInv'
    BY <2>2 DEF ReportInv, AnchorInv
  <2>4. OneInv'
    BY <1>2, <2>1, <2>2 DEF OneInv
  <2>5. QED
    BY <2>3, <2>4 DEF LossInv
<1>6. QED
  BY <1>4, <1>5

(* A certificate is issued with the CA the others are of.                       *)
LEMMA IssueKeepsLoss ==
    ASSUME SecretsInv, LossInv, AskedInv', NEW n \in Leaves, LeafWork, ~IsThere(secret[n]), Done(n),
           secret' = [secret EXCEPT ![n] = Issued(pass.ca)],
           UNCHANGED <<scenario, settings, instance, seen, reported>>
    PROVE  LossInv'
<1>1. /\ secret \in [Names -> SecretType] /\ pass \in PassType /\ n \in Names /\ n # "ca" /\ "ca" \in Names
      /\ instance \in Nat /\ instance > 0
  BY NameFacts DEF SecretsInv, TypeOK, Secrets, SecretType, PassType
<1>2. /\ secret'[n].ctl = pass.owner /\ secret'[n].ca = pass.ca
      /\ \A m \in Names : m # n => secret'[m] = secret[m]
      /\ pass'.owner = pass.owner /\ pass'.ca = pass.ca
  BY <1>1 DEF Issued, PassType, Done
<1>3. ~Ours(n)
  BY <1>1 DEF SecretsInv, WrittenInv, IsThere, Ours
<1>4. CASE pass.owner # instance
  <2>1. SameOurs /\ ~OwnWork'
    BY <1>1, <1>2, <1>3, <1>4 DEF SameOurs, Ours, OwnWork
  <2>2. QED
    BY <2>1, SameKeepsLoss
<1>5. CASE pass.owner = instance
  <2>1. OwnWork /\ Ours(n)' /\ \A m \in Names : m # n => (Ours(m)' <=> Ours(m))
    BY <1>2, <1>5 DEF OwnWork, Ours
  <2>2. /\ CAShown' <=> CAShown
        /\ Settled' <=> Settled
        /\ Common(AskedFor(instance))' = Common(AskedFor(instance))
        /\ Common(AskedFor(instance)) \subseteq Names
    BY NameFacts DEF CAShown, Settled, Anchored, Common, AskedFor
  <2>3. ReportInv'
    BY <1>1, <2>1, <2>2 DEF LossInv, ReportInv
  <2>4. AnchorInv'
    BY <1>1, <1>3, <2>1, <2>2 DEF LossInv, AnchorInv, IsThere
  <2>5. ASSUME Settled
        PROVE  \E k \in Names : Ours(k) /\ k # n
    BY <1>1, <1>3, <2>1, <2>2, <2>5 DEF LossInv, AnchorInv
  <2>6. ASSUME Settled, NEW m \in Names, Ours(m)'
        PROVE  /\ secret'[m].ca = pass.ca
               /\ CAShown => seen.secret["ca"].ca = pass.ca
    BY <1>2, <1>3, <2>1, <2>5, <2>6 DEF LossInv, OneInv
  <2>7. OneInv'
    BY <1>2, <2>2, <2>6 DEF OneInv
  <2>8. QED
    BY <2>3, <2>4, <2>7 DEF LossInv
<1>6. QED
  BY <1>4, <1>5

LEMMA SecureKeepsLoss == SecretsInv /\ LossInv /\ AskedInv' /\ EnsureCA => LossInv'
<1> SUFFICES ASSUME SecretsInv, LossInv, AskedInv', EnsureCA PROVE LossInv'
  OBVIOUS
<1>1. /\ UNCHANGED <<scenario, settings, instance, seen>> /\ pass.at = "ca" /\ ByProvider /\ pass \in PassType
  BY DEF EnsureCA, SecretsInv, TypeOK, PassType
<1>2. pass' = Idle => ~OwnWork'
  BY DEF Idle, OwnWork, LeafWork
<1>3. secret' = secret => SameOurs
  BY <1>1 DEF SameOurs, Ours
<1>4. CASE ReadCA
  <2>1. UNCHANGED <<secret, reported>>
    BY <1>4 DEF ReadCA
  <2>2. CASE seen.secret["ca"].by = "provider"
    <3>1. pass' = [pass EXCEPT !.at = "leaves", !.ca = seen.secret["ca"].ca]
      BY <1>4, <2>2 DEF ReadCA
    <3>2. pass'.owner = pass.owner /\ pass'.ca = seen.secret["ca"].ca
      BY <1>1, <3>1 DEF PassType
    <3>3. seen.secret["ca"].ctl = pass.owner
      BY <1>4, <2>2, NameFacts DEF ReadCA, Current, Foreign, SecretsInv, WrittenInv
    <3>4. QED
      BY <1>1, <1>3, <2>1, <3>2, <3>3, ReadKeepsLoss
  <2>3. CASE seen.secret["ca"].by # "provider"
    BY <1>1, <1>2, <1>3, <1>4, <2>1, <2>3, SameKeepsLoss DEF ReadCA, Fail
  <2>4. QED
    BY <2>2, <2>3
<1>5. CASE ReportMissingCA
  <2>1. secret' = secret /\ pass' = Idle /\ ~IsThere(seen.secret["ca"])
    BY <1>5 DEF ReportMissingCA, Fail
  <2>2. ~CAShown /\ ~CAShown' /\ ~OwnWork'
    BY <1>1, <1>2, <2>1, NameFacts DEF CAShown, SecretsInv, WrittenInv, IsThere, TypeOK
  <2>3. ReportInv'
    BY <2>2 DEF ReportInv
  <2>4. AnchorInv' /\ OneInv'
    <3>1. /\ Settled' <=> Settled
          /\ Common(AskedFor(instance))' = Common(AskedFor(instance))
          /\ Common(AskedFor(instance)) \subseteq Names
      BY <1>1, NameFacts DEF Settled, Anchored, Common, AskedFor
    <3>2. QED
      BY <1>1, <1>3, <2>1, <2>2, <3>1, NameFacts DEF LossInv, AnchorInv, OneInv, SameOurs, IsThere
  <2>5. QED
    BY <2>3, <2>4 DEF LossInv
<1>6. CASE GenerateCA
  <2>1. CASE CanCreate("ca")
    BY <1>1, <1>6, <2>1, GenerateKeepsLoss
  <2>2. CASE ~CanCreate("ca")
    BY <1>1, <1>2, <1>3, <1>6, <2>2, SameKeepsLoss DEF GenerateCA, Fail
  <2>3. QED
    BY <2>1, <2>2
<1>7. CASE ForeignBeforeCA
  <2>1. PICK n \in Names : DeleteForeign(n)
    <3>1. CASE LeavesLeft(pass.todo) # {} /\ DeleteForeign(First(LeavesLeft(pass.todo)))
      <4>1. LeavesLeft(pass.todo) \in SUBSET Leaves
        BY <1>1 DEF LeavesLeft, PassType
      <4>2. First(LeavesLeft(pass.todo)) \in Names
        BY <3>1, <4>1, FirstIsOne, NameFacts
      <4>3. QED
        BY <3>1, <4>2
    <3>2. QED
      BY <1>7, <3>1, NameFacts DEF ForeignBeforeCA
  <2>2. ~Ours(n) /\ pass' = Idle /\ secret' = [secret EXCEPT ![n] = NoSecret] /\ UNCHANGED reported
    BY <1>1, <1>7, <2>1, ForeignIsNotOurs DEF DeleteForeign, Fail, ForeignBeforeCA
  <2>3. QED
    BY <1>1, <1>2, <2>2, OthersTaken, SameKeepsLoss
<1>8. QED
  BY <1>4, <1>5, <1>6, <1>7 DEF EnsureCA

LEMMA LeafKeepsLoss ==
    ASSUME NEW n \in Leaves, SecretsInv, LossInv, AskedInv', EnsureLeaf(n)
    PROVE  LossInv'
<1>1. /\ UNCHANGED <<scenario, settings, instance, seen, reported>> /\ LeafWork /\ n \in Names
      /\ pass \in PassType /\ pass.at = "leaves"
  BY NameFacts DEF EnsureLeaf, AtLeaf, LeafWork, SecretsInv, TypeOK, PassType
<1>2. pass' = Idle => ~OwnWork'
  BY DEF Idle, OwnWork, LeafWork
<1>3. secret' = secret => SameOurs
  BY <1>1 DEF SameOurs, Ours
<1>4. Done(n) /\ OwnWork' => OwnWork /\ pass'.ca = pass.ca
  BY <1>1 DEF Done, OwnWork, PassType
<1>5. CASE DeleteForeign(n)
  <2>1. ~Ours(n) /\ pass' = Idle /\ secret' = [secret EXCEPT ![n] = NoSecret]
    BY <1>1, <1>5, ForeignIsNotOurs DEF DeleteForeign, Fail
  <2>2. QED
    BY <1>1, <1>2, <2>1, OthersTaken, SameKeepsLoss
<1>6. CASE Done(n) /\ ~IsThere(secret[n]) /\ secret' = [secret EXCEPT ![n] = Issued(pass.ca)]
  BY <1>1, <1>6, IssueKeepsLoss
<1>7. CASE secret' = secret /\ (Done(n) \/ Fail)
  BY <1>1, <1>2, <1>3, <1>4, <1>7, SameKeepsLoss DEF Fail
<1>8. QED
  BY <1>5, <1>6, <1>7 DEF EnsureLeaf, CanCreate

(* cert-manager does not touch what is of the Cluster.                          *)
LEMMA CertificateKeepsLoss ==
    ASSUME SecretsInv, LossInv, AskedInv', NEW n \in Names, ApplyCertificate(n), ~ByProvider,
           pass'.settings = pass.settings
    PROVE  LossInv'
<1>1. secret \in [Names -> SecretType]
  BY DEF SecretsInv, TypeOK, Secrets, SecretType
<1>2. ASSUME NEW m \in Names PROVE secret'[m].ctl = secret[m].ctl /\ secret'[m].ca = secret[m].ca
  <2>1. CASE secret' = secret
    BY <2>1
  <2>2. CASE secret' = [secret EXCEPT ![n].cert = pass.owner]
    <3>1. CASE m = n
      <4>1. secret'[m] = [secret[m] EXCEPT !.cert = pass.owner] /\ secret[m] \in SecretType
        BY <1>1, <2>2, <3>1
      <4>2. QED
        BY <4>1 DEF SecretType
    <3>2. CASE m # n
      BY <1>1, <2>2, <3>2
    <3>3. QED
      BY <3>1, <3>2
  <2>3. QED
    BY <2>1, <2>2 DEF ApplyCertificate
<1>3. SameOurs /\ ~OwnWork'
  BY <1>2 DEF SameOurs, Ours, OwnWork, LeafWork, ByProvider, ApplyCertificate
<1>4. QED
  BY <1>3, SameKeepsLoss DEF ApplyCertificate

LEMMA ManagerKeepsLoss ==
    ASSUME SecretsInv, LossInv, AskedInv', NEW n \in Names, CertManagerIssues(n)
    PROVE  LossInv'
<1>1. PICK ca \in CAs :
         secret' = [secret EXCEPT ![n] = [by |-> "cert-manager", ctl |-> 0, cert |-> 0, ca |-> ca]]
  BY DEF CertManagerIssues
<1>2. /\ UNCHANGED <<scenario, settings, instance, seen, pass, reported>> /\ ~IsThere(secret[n])
      /\ secret \in [Names -> SecretType] /\ instance \in Nat /\ instance > 0
  BY DEF CertManagerIssues, SecretsInv, TypeOK, Secrets, SecretType
<1>3. secret[n].ctl = 0 /\ secret'[n].ctl = 0 /\ \A m \in Names : m # n => secret'[m] = secret[m]
  BY <1>1, <1>2 DEF SecretsInv, WrittenInv, IsThere
<1>4. SameOurs /\ (OwnWork' <=> OwnWork)
  BY <1>2, <1>3 DEF SameOurs, Ours, OwnWork, LeafWork, ByProvider
<1>5. QED
  BY <1>2, <1>4, SameKeepsLoss

LEMMA SeeKeepsLoss == SecretsInv /\ LossInv /\ AskedInv' /\ SeeSecrets => LossInv'
<1> SUFFICES ASSUME SecretsInv, LossInv, AskedInv', SeeSecrets PROVE LossInv'
  OBVIOUS
<1>1. UNCHANGED <<scenario, settings, instance, secret, pass, reported>> /\ seen'.secret = secret
  BY DEF SeeSecrets, SecretsInv, TypeOK
<1>2. /\ \A n : Ours(n)' <=> Ours(n)
      /\ CAShown' <=> Ours("ca")
      /\ OwnWork' <=> OwnWork
      /\ Settled' <=> Settled
      /\ Common(AskedFor(instance))' = Common(AskedFor(instance))
      /\ Common(AskedFor(instance)) \subseteq Names /\ "ca" \in Names
  BY <1>1, NameFacts
     DEF Ours, CAShown, OwnWork, LeafWork, ByProvider, Settled, Anchored, Common, AskedFor
<1>3. \A n \in Names : Ours(n) => IsThere(secret[n])
  BY DEF SecretsInv, TypeOK, WrittenInv, Ours, IsThere
<1>4. ReportInv'
  BY <1>1, <1>2 DEF LossInv, ReportInv
<1>5. AnchorInv'
  <2>1. \A n \in Names : IsThere(seen.secret[n])' <=> IsThere(secret[n])
    BY <1>1 DEF IsThere
  <2>2. QED
    BY <1>1, <1>2, <1>3, <2>1 DEF LossInv, AnchorInv
<1>6. OneInv'
  BY <1>1, <1>2 DEF LossInv, OneInv
<1>7. QED
  BY <1>4, <1>5, <1>6 DEF LossInv

(* All certificates the settings ask for are there, and shown.                  *)
LEMMA LoseKeepsLoss == SecretsInv /\ LossInv /\ AskedInv' /\ LoseCA => LossInv'
<1> SUFFICES ASSUME SecretsInv, LossInv, AskedInv', LoseCA PROVE LossInv'
  OBVIOUS
<1>1. /\ UNCHANGED <<scenario, settings, instance, seen, pass>> /\ reported' = FALSE
      /\ secret' = [secret EXCEPT !["ca"] = NoSecret] /\ seen.secret = secret
      /\ HasTLS(settings) /\ \A n \in Leaves : Wanted(settings, n) => Mine(n)
      /\ secret \in [Names -> SecretType]
  BY DEF LoseCA, SecretsInv, TypeOK, Secrets, SecretType
<1>2. /\ \A n \in Names : n # "ca" => secret'[n] = secret[n] /\ (Ours(n)' <=> Ours(n))
      /\ CAShown' <=> CAShown
      /\ OwnWork' <=> OwnWork
      /\ Settled' <=> Settled
      /\ Common(AskedFor(instance))' = Common(AskedFor(instance))
  BY <1>1 DEF Ours, CAShown, OwnWork, LeafWork, ByProvider, Settled, Anchored, Common, AskedFor
<1>3. ~Ours("ca")'
  BY <1>1, NoSecretTyped, NameFacts DEF Ours, SecretsInv, TypeOK
<1>4. ReportInv'
  BY <1>1 DEF ReportInv
<1>5. AnchorInv'
  <2> SUFFICES ASSUME Settled
               PROVE  \E n \in Common(AskedFor(instance)) : Ours(n)' /\ IsThere(seen'.secret[n])
    BY <1>2 DEF AnchorInv
  <2>1. settings \in AskedFor(instance) /\ Anchored(AskedFor(instance))
    BY DEF LossInv, AskedInv, Settled, AskedFor
  <2>2. PICK n \in Common(AskedFor(instance)) : TRUE
    BY <1>1, <2>1 DEF Anchored
  <2>3. Mine(n) /\ n \in Names /\ n # "ca"
    BY <1>1, <2>1, <2>2, NameFacts DEF Common
  <2>4. Ours(n) /\ IsThere(secret[n])
    BY <2>3, MineIsOurs DEF Mine, IsThere
  <2>5. QED
    BY <1>1, <1>2, <2>2, <2>3, <2>4
<1>6. OneInv'
  BY <1>1, <1>2, <1>3 DEF LossInv, OneInv
<1>7. QED
  BY <1>4, <1>5, <1>6 DEF LossInv

LEMMA RestoreKeepsLoss == SecretsInv /\ LossInv /\ AskedInv' /\ RestoreCA => LossInv'
<1> SUFFICES ASSUME SecretsInv, LossInv, AskedInv', RestoreCA PROVE LossInv'
  OBVIOUS
<1>1. PICK k \in Leaves : Mine(k) /\ secret' = [secret EXCEPT !["ca"] = secret[k]]
  BY DEF RestoreCA
<1>2. /\ UNCHANGED <<scenario, settings, instance, seen, pass>> /\ reported' = FALSE
      /\ k \in Names /\ Ours(k) /\ "ca" \in Names /\ secret \in [Names -> SecretType]
  BY <1>1, NameFacts, MineIsOurs DEF RestoreCA, SecretsInv, TypeOK, Secrets, SecretType
<1>3. /\ \A n \in Names : n # "ca" => secret'[n] = secret[n] /\ (Ours(n)' <=> Ours(n))
      /\ secret'["ca"] = secret[k] /\ Ours("ca")'
      /\ CAShown' <=> CAShown
      /\ OwnWork' <=> OwnWork
      /\ Settled' <=> Settled
  BY <1>1, <1>2 DEF Ours, CAShown, OwnWork, LeafWork, ByProvider, Settled, Anchored, Common
<1>4. ReportInv' /\ AnchorInv'
  BY <1>2, <1>3 DEF ReportInv, AnchorInv
<1>5. OneInv'
  <2> SUFFICES ASSUME Settled, NEW n \in Names, Ours(n)'
               PROVE  /\ \A m \in Names : Ours(m)' => secret'[m].ca = secret'[n].ca
                      /\ OwnWork => pass.ca = secret'[n].ca
                      /\ CAShown => seen.secret["ca"].ca = secret'[n].ca
    BY <1>2, <1>3 DEF OneInv
  <2>1. ASSUME NEW m \in Names, Ours(m)' PROVE secret'[m].ca = secret[k].ca
    BY <1>2, <1>3, <2>1 DEF LossInv, OneInv
  <2>2. QED
    BY <1>2, <2>1 DEF LossInv, OneInv
<1>6. QED
  BY <1>4, <1>5 DEF LossInv

(* Without Secrets, and without a pass that has the CA, a new one may be made.    *)
LEMMA ClearKeepsLoss == SecretsInv /\ LossInv /\ AskedInv' /\ DeleteLeaves => LossInv'
<1> SUFFICES ASSUME SecretsInv, LossInv, AskedInv', DeleteLeaves PROVE LossInv'
  OBVIOUS
<1>1. /\ UNCHANGED <<scenario, settings, instance, seen, pass>> /\ reported' = FALSE /\ reported
      /\ secret' = [n \in Names |-> NoSecret] /\ ~IsThere(secret["ca"]) /\ instance # 0
  BY DEF DeleteLeaves, SecretsInv, TypeOK
<1>2. ~Ours("ca")
  BY <1>1, NameFacts DEF SecretsInv, WrittenInv, IsThere, Ours
<1>3. \A n \in Names : ~Ours(n)'
  BY <1>1, NoSecretTyped DEF Ours
<1>4. ~CAShown' /\ ~OwnWork'
  BY <1>1, <1>2 DEF LossInv, ReportInv, CAShown, OwnWork, LeafWork, ByProvider
<1>5. QED
  BY <1>1, <1>3, <1>4 DEF LossInv, ReportInv, AnchorInv, OneInv

LEMMA RecreateKeepsLoss == SecretsInv /\ LossInv /\ AskedInv' /\ Recreate => LossInv'
<1> SUFFICES ASSUME SecretsInv, LossInv, AskedInv', Recreate PROVE LossInv'
  OBVIOUS
<1>1. /\ UNCHANGED <<secret, seen, pass>> /\ instance' = instance + 1 /\ pass.at = "idle"
      /\ reported' = FALSE /\ "ca" \in Names
      /\ \A n \in Names : secret[n].ctl <= instance /\ seen.secret[n].ctl <= instance
      /\ \A n \in Names : secret[n].ctl \in Nat /\ seen.secret[n].ctl \in Nat
      /\ instance \in Nat
  BY NameFacts DEF Recreate, SecretsInv, AgeInv, TypeOK, Secrets
<1>2. \A n \in Names : secret[n].ctl # instance + 1 /\ seen.secret[n].ctl # instance + 1
  BY <1>1
<1>3. ~CAShown' /\ ~OwnWork' /\ \A n \in Names : ~Ours(n)'
  BY <1>1, <1>2 DEF CAShown, OwnWork, LeafWork, Ours
<1>4. QED
  BY <1>1, <1>3 DEF LossInv, ReportInv, AnchorInv, OneInv

LEMMA LossSteps == SecretsInv /\ LossInv /\ [Next]_vars => LossInv'
<1> SUFFICES ASSUME SecretsInv, LossInv, [Next]_vars PROVE LossInv'
  OBVIOUS
<1>1. AskedInv'
  BY AskedSteps DEF LossInv
<1>2. CASE StartPass \/ ApplyCluster \/ ReadOwner \/ ApplyTiDBGroup \/ AbortPass
  <2>1. UNCHANGED <<scenario, instance, secret, seen, reported>> /\ pass \in PassType
    BY <1>2 DEF StartPass, ApplyCluster, ReadOwner, ApplyTiDBGroup, AbortPass, SecretsInv, TypeOK, PassType
  <2>2. ~LeafWork'
    <3>1. CASE StartPass \/ ApplyCluster
      <4>1. pass'.at = "cluster" \/ pass'.at = "owner"
        <5>1. CASE StartPass
          BY <5>1 DEF StartPass, Idle
        <5>2. CASE ApplyCluster
          BY <2>1, <5>2 DEF ApplyCluster, PassType
        <5>3. QED
          BY <3>1, <5>1, <5>2
      <4>2. QED
        BY <4>1 DEF LeafWork
    <3>2. CASE ReadOwner /\ pass' # Idle
      <4> DEFINE todo == WantedLeaves(pass.settings)
      <4>1. pass' = [pass EXCEPT !.at = IF todo = {} THEN "leaves" ELSE "ca",
                                 !.owner = seen.cluster.uid, !.todo = todo]
        BY <3>2 DEF ReadOwner, Fail
      <4> HIDE DEF todo
      <4>2. pass'.at = (IF todo = {} THEN "leaves" ELSE "ca") /\ pass'.todo = todo
        BY <2>1, <4>1 DEF PassType
      <4>3. QED
        BY <4>2 DEF LeafWork
    <3>3. CASE pass' = Idle
      BY <3>3 DEF LeafWork, Idle
    <3>4. ApplyTiDBGroup \/ AbortPass => pass' = Idle
      BY DEF ApplyTiDBGroup, AbortPass, Fail
    <3>5. QED
      BY <1>2, <3>1, <3>2, <3>3, <3>4
  <2>3. SameOurs
    BY <2>1 DEF SameOurs, Ours
  <2>4. QED
    BY <1>1, <2>1, <2>2, <2>3, SameKeepsLoss DEF OwnWork
<1>3. CASE EnsureIssuer \/ \E n \in Leaves : EnsureCertificate(n)
  <2>1. /\ pass'.settings = pass.settings /\ ~ByProvider
        /\ \E n \in Names : ApplyCertificate(n)
    BY <1>3, NameFacts DEF EnsureIssuer, EnsureCertificate, Done, SecretsInv, TypeOK
  <2>2. QED
    BY <1>1, <2>1, CertificateKeepsLoss
<1>4. CASE EnsureCA \/ \E n \in Leaves : EnsureLeaf(n)
  BY <1>1, <1>4, SecureKeepsLoss, LeafKeepsLoss
<1>5. CASE SeeCluster \/ CollectCertificates \/ EditSettings \/ UNCHANGED vars
  <2>1. UNCHANGED <<scenario, instance, secret, pass, reported>> /\ seen'.secret = seen.secret
    BY <1>5
    DEF SeeCluster, CollectCertificates, CollectCertificate, EditSettings, vars, SecretsInv, TypeOK
  <2>2. SameOurs /\ (OwnWork' <=> OwnWork)
    BY <2>1 DEF SameOurs, Ours, OwnWork, LeafWork, ByProvider
  <2>3. QED
    BY <1>1, <2>1, <2>2, SameKeepsLoss
<1>6. ASSUME NEW n \in Names, CollectSecret(n)
      PROVE  LossInv'
  <2>1. UNCHANGED <<scenario, instance, seen, pass, reported>> /\ secret' = [secret EXCEPT ![n] = NoSecret]
    BY <1>6 DEF CollectSecret
  <2>2. ~Ours(n)
    BY <1>6 DEF CollectSecret, Alive, Ours, SecretsInv, TouchedInv, AgeInv, TypeOK
  <2>3. SameOurs /\ (OwnWork' <=> OwnWork)
    BY <2>1, <2>2, OthersTaken DEF OwnWork, LeafWork, ByProvider
  <2>4. QED
    BY <1>1, <2>1, <2>3, SameKeepsLoss
<1>7. CASE SeeSecrets \/ CertManager
  BY <1>1, <1>7, SeeKeepsLoss, ManagerKeepsLoss DEF CertManager
<1>8. CASE LoseCA \/ RestoreCA \/ DeleteLeaves \/ Recreate
  BY <1>1, <1>8, LoseKeepsLoss, RestoreKeepsLoss, ClearKeepsLoss, RecreateKeepsLoss
<1>9. QED
  BY <1>2, <1>3, <1>4, <1>5, <1>6, <1>7, <1>8 DEF Next, Reconcile, SecureCA, IssueLeaf, Kubernetes, User

LEMMA LossStarts == Init => LossInv
<1> SUFFICES ASSUME Init PROVE LossInv
  OBVIOUS
<1>1. /\ instance = 1 /\ settings \in scenario.settings /\ pass.at = "idle" /\ reported = FALSE
      /\ \A n \in Names : secret[n].ctl = 0 /\ seen.secret[n].ctl = 0
  BY DEF Init, Idle, NoSecret
<1>2. ~CAShown /\ ~OwnWork /\ \A n \in Names : ~Ours(n)
  BY <1>1, NameFacts DEF CAShown, OwnWork, LeafWork, Ours
<1>3. QED
  BY <1>1, <1>2 DEF LossInv, AskedInv, ReportInv, AnchorInv, OneInv, AskedFor

(* The provider's certificates of a Cluster are signed by the CA in its Secret,    *)
(* also when the CA was lost and put back, or made anew once users deleted all of  *)
(* them: if users move between settings that share a certificate, a pass always   *)
(* finds one that tells it there was a CA (ensureCA's look at the leaves).         *)
THEOREM OneCAThoughLost == Spec => []((scenario.losesCA => Settled) => OneCA)
<1>1. SecretsInv /\ LossInv => ((scenario.losesCA => Settled) => OneCA)
  <2> SUFFICES ASSUME SecretsInv, LossInv, scenario.losesCA => Settled,
                      NEW m \in Names \ {"session"}, NEW n \in Names \ {"session"}, Mine(m), Mine(n)
               PROVE  secret[m].ca = secret[n].ca
    BY DEF OneCA
  <2>1. Ours(m) /\ Ours(n)
    BY MineIsOurs
  <2>2. CASE Settled
    BY <2>1, <2>2 DEF LossInv, OneInv
  <2>3. CASE ~scenario.losesCA
    BY <2>1, <2>3 DEF SecretsInv, KeptInv
  <2>4. QED
    BY <2>2, <2>3
<1>2. Spec => []LossInv
  BY LossStarts, LossSteps, SecretsInvHolds, PTL DEF Spec
<1>3. QED
  BY <1>1, <1>2, SecretsInvHolds, PTL
=============================================================================
