-------------------------- MODULE RootPasswordProofs --------------------------
(***************************************************************************)
(* The connection Secret is right once nothing is on its way to it, and the     *)
(* backups taken meanwhile recorded what they hold, for any number of backups,   *)
(* restores and orders of their reconciles. While restores wait to be adopted     *)
(* the Secret is behind; the invariant says by how much: unless something is in    *)
(* doubt, root's password is the one of a restore that leads, newer than what the  *)
(* Secret has and than every other restore.                                    *)
(***************************************************************************)
EXTENDS RootPassword, FiniteSetTheorems, TLAPS

BackupType ==
    [state : {"none", "recording", "running", "done", "deleted"}, data : Maybe, recorded : Maybe,
     stirred : BOOLEAN]
RestoreType ==
    [br : {"none", "running", "applied", "complete", "failed"},
     status : {"active", "succeeded", "unknown", "failed"},
     from : Backups \cup Foreign \cup {None}, data : Maybe, sure : BOOLEAN, at : Nat]

(* Before TiDB bootstraps, the ConfigMap and the pass have the Secret's password. *)
BootstrapInv ==
    /\ pass.at # "idle" => pass.pw # None
    /\ pass.at = "secret" => secret.pw = None
    /\ pass.at = "hook" => secret.pw # None
    /\ hook # None => secret.pw # None
    /\ root # None => hook # None
    /\ root = None =>
         /\ hook \in {None, secret.pw} /\ ~altered
         /\ pass.at = "hook" => pass.pw = secret.pw
         /\ \A r \in Restores : restores[r].br \notin {"applied", "complete"}

BackupsInv ==
    \A b \in Backups \cup Foreign :
        /\ b \notin Backups => backups[b].state \in {"done", "deleted"}
        /\ b \notin Backups /\ backups[b].state = "done" =>
             backups[b].data = Theirs /\ backups[b].recorded \in {Theirs, None}
        /\ backups[b].state = "done" => backups[b].data # None
        /\ backups[b].state = "deleted" => backups[b].recorded = None

(* A backup nothing stirred recorded the password root has until it ends.       *)
RecordsInv ==
    \A b \in Backups \cup Foreign : ~backups[b].stirred =>
        /\ Unfinished(b) =>
             /\ backups[b].recorded # None => backups[b].recorded = IF root = None THEN secret.pw ELSE root
             /\ backups[b].data # None => backups[b].data = root
        /\ backups[b].state = "none" => backups[b].data = None /\ backups[b].recorded = None
        /\ backups[b].state = "done" /\ backups[b].recorded # None => backups[b].recorded = backups[b].data

RestoresInv ==
    \A r \in Restores :
        /\ restores[r].br # "complete" => restores[r].at = 0 /\ restores[r].status \in {"active", "failed"}
        /\ restores[r].br = "none" => restores[r].status = "active"
        /\ restores[r].br # "none" =>
             /\ restores[r].from \in Backups \cup Foreign /\ restores[r].data # None
             /\ backups[restores[r].from].state \in {"done", "deleted"}
             /\ backups[restores[r].from].state = "done" =>
                  /\ restores[r].data = backups[restores[r].from].data
                  /\ restores[r].sure = Sure(restores[r].from)
        /\ restores[r].status = "succeeded" => restores[r].at <= secret.at
        /\ restores[r].status = "unknown" =>
             restores[r].from \notin Backups /\ backups[restores[r].from].recorded = None

(* What the pass of a completed restore has read still holds.                  *)
AdoptInv ==
    adopt.at # "idle" =>
        /\ adopt.r \in Restores /\ restores[adopt.r].br = "complete" /\ restores[adopt.r].status # "failed"
        /\ adopt.at \in {"source", "current", "apply"} => restores[adopt.r].status # "unknown"
        /\ adopt.at = "source" => backups[restores[adopt.r].from].recorded = None
        /\ adopt.at \in {"current", "apply"} => adopt.pw # None
        /\ adopt.at \in {"current", "apply", "report"} /\ backups[restores[adopt.r].from].recorded # None
             => adopt.pw = backups[restores[adopt.r].from].recorded
        /\ adopt.at = "apply" => restores[adopt.r].at > secret.at
        /\ adopt.at = "report" =>
             IF adopt.pw # None THEN restores[adopt.r].at <= secret.at
             ELSE restores[adopt.r].from \notin Backups /\ backups[restores[adopt.r].from].recorded = None

(* The Secret's completion time is one of a restore.                           *)
TimesInv == secret.at = 0 \/ \E r \in Restores : restores[r].at = secret.at

(* While a user changes the password, no restore is on its way.                *)
AlteredInv == doubts = {} /\ altered => root = Mine /\ ~SomePending

Leads(r) ==
    /\ Pending(r) /\ restores[r].data = root /\ restores[r].sure
    /\ backups[restores[r].from].state = "done"
    /\ \A s \in Restores \ {r} :
         restores[s].br # "applied" /\ (restores[r].br = "complete" => restores[s].at < restores[r].at)

SecretFollows ==
    doubts = {} /\ root # None /\ ~altered =>
        (secret.pw = root /\ ~SomePending) \/ \E r \in Restores : Leads(r)

PasswordInv ==
    /\ TypeOK /\ BootstrapInv /\ BackupsInv /\ RecordsInv /\ RestoresInv /\ AdoptInv /\ TimesInv
    /\ AlteredInv /\ SecretFollows

-----------------------------------------------------------------------------
(* A finite set of numbers with 0 has one whose successor it has not.          *)
LEMMA EndsSomewhere ==
    ASSUME NEW D, IsFiniteSet(D), D \subseteq Nat, 0 \in D
    PROVE  \E n \in D : n + 1 \notin D
<1> SUFFICES ASSUME \A n \in D : n + 1 \in D PROVE FALSE
    OBVIOUS
<1> DEFINE next == [n \in D |-> n + 1]
<1>1. next \in Injection(D, D)
  BY DEF Injection, IsInjective
<1>2. next \in Surjection(D, D)
  BY <1>1, FS_Injection
<1>3. PICK n \in D : next[n] = 0
  BY <1>2 DEF Surjection
<1>4. QED
  BY <1>3

(* The latest of finitely many times.                                         *)
LEMMA LatestExists ==
    ASSUME NEW S, IsFiniteSet(S), NEW f \in [S -> Nat], S # {}
    PROVE  \E r \in S : \A s \in S : f[s] <= f[r]
<1> DEFINE upTo == [s \in S |-> 0..f[s]]
           D == UNION {0..f[s] : s \in S}
<1>1. upTo \in Surjection(S, {0..f[s] : s \in S})
  BY DEF Surjection
<1>2. IsFiniteSet({0..f[s] : s \in S})
  BY <1>1, FS_Surjection
<1>3. \A T \in {0..f[s] : s \in S} : IsFiniteSet(T)
  BY FS_Interval
<1>4. IsFiniteSet(D)
  BY <1>2, <1>3, FS_UNION
<1>5. D \subseteq Nat /\ 0 \in D
  OBVIOUS
<1>6. PICK n \in D : n + 1 \notin D
  BY <1>4, <1>5, EndsSomewhere
<1>7. PICK r \in S : n \in 0..f[r]
  BY <1>6
<1>8. \A s \in S : f[s] <= n
  BY <1>5, <1>6
<1>9. QED
  BY <1>7, <1>8

-----------------------------------------------------------------------------
LEMMA Names ==
    /\ None \notin Passwords /\ Theirs \in Passwords /\ Mine \in Passwords /\ Generated \subseteq Passwords
    /\ Maybe = Passwords \cup {None}
BY PasswordsAssumption DEF None, Passwords, Theirs, Mine, Maybe

LEMMA Types ==
    TypeOK <=>
    /\ root \in Maybe /\ hook \in Maybe /\ altered \in BOOLEAN
    /\ secret \in [pw : Maybe, at : Nat]
    /\ pass \in [at : {"idle", "secret", "hook"}, pw : Maybe]
    /\ backups \in [Backups \cup Foreign -> BackupType]
    /\ restores \in [Restores -> RestoreType]
    /\ adopt \in [at : {"idle", "recorded", "source", "current", "apply", "report"},
                  r : Restores \cup {None}, pw : Maybe]
    /\ doubts \in SUBSET Reasons
BY DEF TypeOK, BackupType, RestoreType

LEMMA PasswordInvInit == Init => PasswordInv
<1> SUFFICES ASSUME Init PROVE PasswordInv
    OBVIOUS
<1>0. ASSUME NEW b \in Backups \cup Foreign
      PROVE  /\ b \in Backups => /\ backups[b].state = "none" /\ backups[b].data = None
                                 /\ backups[b].recorded = None
             /\ b \notin Backups => /\ backups[b].state = "done" /\ backups[b].data = Theirs
                                    /\ backups[b].recorded \in {Theirs, None}
             /\ backups[b] \in BackupType
  <2>1. CASE b \in Backups
    <3>1. backups[b] = NoBackup
      BY <2>1 DEF Init
    <3>2. NoBackup \in BackupType
      BY Names DEF NoBackup, BackupType
    <3>3. QED
      BY <2>1, <3>1, <3>2 DEF NoBackup
  <2>2. CASE b \notin Backups
    <3>1. backups[b] \in [state : {"done"}, data : {Theirs}, recorded : {Theirs, None}, stirred : {FALSE}]
      BY <2>2 DEF Init
    <3>2. QED
      BY <2>2, <3>1, Names DEF BackupType
  <2>3. QED
    BY <2>1, <2>2
<1>1. TypeOK
  <2>1. \A r \in Restores : restores[r] \in RestoreType
    BY Names DEF Init, NoRestore, RestoreType
  <2>2. QED
    BY <1>0, <2>1, Names, Types DEF Init, NoSecret, Idle, NoAdoption
<1>2. BootstrapInv
  BY DEF Init, BootstrapInv, NoSecret, Idle, NoRestore
<1>3. BackupsInv
  BY <1>0, Names DEF BackupsInv
<1>4. RecordsInv
  BY <1>0, Names DEF RecordsInv, Unfinished
<1>5. RestoresInv
  BY DEF Init, RestoresInv, NoRestore
<1>6. AdoptInv /\ TimesInv /\ AlteredInv /\ SecretFollows
  BY DEF Init, AdoptInv, NoAdoption, TimesInv, NoSecret, AlteredInv, SecretFollows
<1>7. QED
  BY <1>1, <1>2, <1>3, <1>4, <1>5, <1>6 DEF PasswordInv

-----------------------------------------------------------------------------
(* What holds of unchanged restores and Secret.                                *)
LEMMA PendingStays ==
    ASSUME UNCHANGED <<secret, restores>>
    PROVE  (SomePending' <=> SomePending) /\ \A r : Pending(r)' <=> Pending(r)
BY DEF SomePending, Pending

(* A pass that leaves TiDB and the Secret alone.                               *)
LEMMA PassKeeps ==
    ASSUME PasswordInv, UNCHANGED <<root, secret, altered, backups, restores, adopt, doubts>>, BootstrapInv',
           pass' \in [at : {"idle", "secret", "hook"}, pw : Maybe], hook' \in Maybe
    PROVE  PasswordInv'
<1>1. TypeOK' /\ BackupsInv' /\ RestoresInv' /\ TimesInv'
  BY DEF PasswordInv, TypeOK, BackupsInv, RestoresInv, TimesInv, Sure
<1>2. RecordsInv' /\ AdoptInv'
  BY DEF PasswordInv, RecordsInv, AdoptInv, Unfinished
<1>3. AlteredInv' /\ SecretFollows'
  BY PendingStays DEF PasswordInv, AlteredInv, SecretFollows, Leads
<1>4. QED
  BY <1>1, <1>2, <1>3 DEF PasswordInv

LEMMA EnsureKeeps == PasswordInv /\ EnsureRootPassword => PasswordInv'
<1> SUFFICES ASSUME PasswordInv, EnsureRootPassword PROVE PasswordInv'
    OBVIOUS
<1>1. TypeOK /\ BootstrapInv /\ UNCHANGED <<root, secret, hook, altered, backups, restores, adopt, doubts>>
  BY DEF PasswordInv, EnsureRootPassword
<1>2. CASE Generates
  <2>1. PICK p \in Generated : pass' = [at |-> "secret", pw |-> p]
    BY <1>2 DEF EnsureRootPassword
  <2>2. BootstrapInv'
    BY <1>1, <1>2, <2>1, Names DEF BootstrapInv, Generates
  <2>3. QED
    BY <1>1, <2>1, <2>2, Names, PassKeeps DEF TypeOK
<1>3. CASE ~Generates
  <2>1. pass' = [at |-> "hook", pw |-> secret.pw]
    BY <1>3 DEF EnsureRootPassword
  <2>2. BootstrapInv'
    BY <1>1, <1>3, <2>1 DEF BootstrapInv, Generates
  <2>3. QED
    BY <1>1, <2>1, <2>2, PassKeeps DEF TypeOK
<1>4. QED
  BY <1>2, <1>3

LEMMA HookKeeps == PasswordInv /\ (WriteBootstrapSQL \/ AbortPass) => PasswordInv'
<1> SUFFICES ASSUME PasswordInv, WriteBootstrapSQL \/ AbortPass PROVE PasswordInv'
    OBVIOUS
<1>1. /\ TypeOK /\ BootstrapInv /\ UNCHANGED <<root, secret, altered, backups, restores, adopt, doubts>>
      /\ pass' = Idle
  BY DEF PasswordInv, WriteBootstrapSQL, AbortPass
<1>2. CASE WriteBootstrapSQL
  <2>1. hook' = pass.pw /\ pass.at = "hook"
    BY <1>2 DEF WriteBootstrapSQL
  <2>2. root = None => pass.pw = secret.pw /\ secret.pw # None
    BY <1>1, <2>1 DEF BootstrapInv
  <2>3. pass.pw # None
    BY <1>1, <2>1 DEF BootstrapInv
  <2>4. BootstrapInv'
    BY <1>1, <2>1, <2>2, <2>3 DEF BootstrapInv, Idle
  <2>5. QED
    BY <1>1, <2>1, <2>4, Names, PassKeeps DEF TypeOK, Idle
<1>3. CASE AbortPass
  <2>1. hook' = hook
    BY <1>3 DEF AbortPass
  <2>2. BootstrapInv'
    BY <1>1, <2>1 DEF BootstrapInv, Idle
  <2>3. QED
    BY <1>1, <2>1, <2>2, Names, PassKeeps DEF TypeOK, Idle
<1>4. QED
  BY <1>2, <1>3

(* Before TiDB has a password there is nothing to follow.                      *)
LEMMA StoreKeeps == PasswordInv /\ StorePassword => PasswordInv'
<1> SUFFICES ASSUME PasswordInv, StorePassword PROVE PasswordInv'
    OBVIOUS
<1>1. /\ TypeOK /\ BootstrapInv /\ UNCHANGED <<root, hook, altered, backups, restores, adopt, doubts>>
      /\ pass.at = "secret" /\ secret' = [pw |-> pass.pw, at |-> 0] /\ pass' = [pass EXCEPT !.at = "hook"]
  BY DEF PasswordInv, StorePassword
<1>2. root = None /\ pass.pw # None /\ hook = None /\ secret.pw = None
  BY <1>1 DEF BootstrapInv
<1>3. TypeOK'
  BY <1>1 DEF TypeOK
<1>4. /\ secret'.pw = pass.pw /\ secret'.at = 0 /\ pass'.at = "hook" /\ pass'.pw = pass.pw
  BY <1>1 DEF TypeOK
<1>5. BootstrapInv'
  BY <1>1, <1>2, <1>4 DEF BootstrapInv
<1>6. BackupsInv' /\ RecordsInv'
  BY <1>1, <1>2 DEF PasswordInv, BackupsInv, RecordsInv, Unfinished
<1>7. \A r \in Restores : restores[r].br # "complete"
  BY <1>1, <1>2 DEF BootstrapInv
<1>8. RestoresInv'
  BY <1>1, <1>7 DEF PasswordInv, RestoresInv, Sure
<1>9. AdoptInv'
  BY <1>1, <1>7 DEF PasswordInv, AdoptInv
<1>10. TimesInv' /\ AlteredInv' /\ SecretFollows'
  BY <1>1, <1>2, <1>4 DEF TimesInv, AlteredInv, SecretFollows, BootstrapInv
<1>11. QED
  BY <1>3, <1>5, <1>6, <1>8, <1>9, <1>10 DEF PasswordInv

LEMMA BootstrapKeeps == PasswordInv /\ Bootstrap => PasswordInv'
<1> SUFFICES ASSUME PasswordInv, Bootstrap PROVE PasswordInv'
    OBVIOUS
<1>1. /\ TypeOK /\ BootstrapInv /\ UNCHANGED <<secret, hook, pass, altered, backups, restores, adopt, doubts>>
      /\ root = None /\ hook # None /\ root' = hook
  BY DEF PasswordInv, Bootstrap
<1>2. root' = secret.pw /\ ~altered /\ \A r \in Restores : restores[r].br \notin {"applied", "complete"}
  BY <1>1 DEF BootstrapInv
<1>3. TypeOK' /\ BootstrapInv' /\ AlteredInv'
  BY <1>1, <1>2 DEF TypeOK, BootstrapInv, AlteredInv
<1>4. BackupsInv' /\ RestoresInv' /\ TimesInv' /\ AdoptInv'
  BY <1>1 DEF PasswordInv, BackupsInv, RestoresInv, TimesInv, AdoptInv, Sure
<1>5. SecretFollows'
  BY <1>1, <1>2 DEF SecretFollows, SomePending, Pending
<1>6. RecordsInv'
  BY <1>1, <1>2 DEF PasswordInv, RecordsInv, Unfinished
<1>7. QED
  BY <1>3, <1>4, <1>5, <1>6 DEF PasswordInv

(* Root's password changes under the backups being taken: they are stirred.     *)
LEMMA StirringKeeps ==
    ASSUME TypeOK, BackupsInv, RecordsInv, backups' = Stirred
    PROVE  /\ backups' \in [Backups \cup Foreign -> BackupType] /\ BackupsInv' /\ RecordsInv'
           /\ \A b \in Backups \cup Foreign :
                /\ backups'[b].state = backups[b].state /\ backups'[b].data = backups[b].data
                /\ backups'[b].recorded = backups[b].recorded
                /\ backups[b].state \in {"done", "deleted"} => Sure(b)' = Sure(b)
<1>1. DOMAIN backups = Backups \cup Foreign /\ \A b \in Backups \cup Foreign : backups[b] \in BackupType
  BY Types
<1>2. ASSUME NEW b \in Backups \cup Foreign
      PROVE  /\ backups'[b] = IF Unfinished(b) THEN [backups[b] EXCEPT !.stirred = TRUE] ELSE backups[b]
             /\ backups'[b] \in BackupType
             /\ backups'[b].state = backups[b].state /\ backups'[b].data = backups[b].data
             /\ backups'[b].recorded = backups[b].recorded
             /\ backups'[b].stirred = (Unfinished(b) \/ backups[b].stirred)
  <2>1. backups'[b] = IF Unfinished(b) THEN [backups[b] EXCEPT !.stirred = TRUE] ELSE backups[b]
    BY <1>1 DEF Stirred
  <2>2. QED
    BY <1>1, <2>1 DEF BackupType
<1>3. backups' \in [Backups \cup Foreign -> BackupType]
  <2>1. backups' = [b \in Backups \cup Foreign |->
                      IF Unfinished(b) THEN [backups[b] EXCEPT !.stirred = TRUE] ELSE backups[b]]
    BY <1>1 DEF Stirred
  <2>2. \A b \in Backups \cup Foreign :
            (IF Unfinished(b) THEN [backups[b] EXCEPT !.stirred = TRUE] ELSE backups[b]) \in BackupType
    BY <1>1 DEF BackupType
  <2>3. QED
    BY <2>1, <2>2
<1>4. BackupsInv'
  BY <1>2 DEF BackupsInv
<1>5. RecordsInv'
  BY <1>2 DEF RecordsInv, Unfinished
<1>6. ASSUME NEW b \in Backups \cup Foreign, backups[b].state \in {"done", "deleted"}
      PROVE  Sure(b)' = Sure(b)
  BY <1>2, <1>6 DEF Sure, Unfinished
<1>7. QED
  BY <1>2, <1>3, <1>4, <1>5, <1>6

LEMMA AlterKeeps == PasswordInv /\ AlterUser => PasswordInv'
<1> SUFFICES ASSUME PasswordInv, AlterUser PROVE PasswordInv'
    OBVIOUS
<1>1. /\ TypeOK /\ BootstrapInv /\ UNCHANGED <<secret, hook, pass, restores, adopt>>
      /\ root # None /\ root' = Mine /\ altered' = TRUE /\ backups' = Stirred
      /\ doubts' = IF SomePending THEN doubts \cup {"mixed"} ELSE {}
  BY DEF PasswordInv, AlterUser
<1>2. /\ backups' \in [Backups \cup Foreign -> BackupType] /\ BackupsInv' /\ RecordsInv'
      /\ \A b \in Backups \cup Foreign :
           /\ backups'[b].state = backups[b].state /\ backups'[b].data = backups[b].data
           /\ backups'[b].recorded = backups[b].recorded
           /\ backups[b].state \in {"done", "deleted"} => Sure(b)' = Sure(b)
  BY <1>1, StirringKeeps DEF PasswordInv
<1>3. TypeOK'
  BY <1>1, <1>2, Names DEF TypeOK, BackupType, RestoreType, Reasons
<1>4. BootstrapInv' /\ TimesInv' /\ SecretFollows'
  BY <1>1, Names DEF PasswordInv, BootstrapInv, TimesInv, SecretFollows
<1>5. AlteredInv'
  BY <1>1, PendingStays DEF AlteredInv
<1>6. RestoresInv'
  BY <1>1, <1>2 DEF PasswordInv, RestoresInv
<1>7. AdoptInv'
  BY <1>1, <1>2 DEF PasswordInv, AdoptInv, RestoresInv
<1>8. QED
  BY <1>2, <1>3, <1>4, <1>5, <1>6, <1>7 DEF PasswordInv

LEMMA UpdateKeeps == PasswordInv /\ UpdateSecret => PasswordInv'
<1> SUFFICES ASSUME PasswordInv, UpdateSecret PROVE PasswordInv'
    OBVIOUS
<1>1. /\ TypeOK /\ BootstrapInv /\ UNCHANGED <<root, hook, pass, backups, restores, adopt, doubts>>
      /\ altered /\ altered' = FALSE /\ secret' = [secret EXCEPT !.pw = Mine]
  BY DEF PasswordInv, UpdateSecret
<1>2. secret'.at = secret.at /\ secret'.pw = Mine /\ TypeOK' /\ root # None
  BY <1>1, Names DEF TypeOK, BootstrapInv
<1>3. BootstrapInv' /\ AlteredInv'
  BY <1>1, <1>2, Names DEF BootstrapInv, AlteredInv
<1>4. BackupsInv' /\ RecordsInv' /\ RestoresInv' /\ TimesInv' /\ AdoptInv'
  BY <1>1, <1>2 DEF PasswordInv, BackupsInv, RecordsInv, RestoresInv, TimesInv, AdoptInv, Unfinished, Sure
<1>5. SomePending' <=> SomePending
  BY <1>1, <1>2 DEF SomePending, Pending
<1>6. SecretFollows'
  BY <1>1, <1>2, <1>5 DEF PasswordInv, SecretFollows, AlteredInv
<1>7. QED
  BY <1>2, <1>3, <1>4, <1>6 DEF PasswordInv

-----------------------------------------------------------------------------
(* A step of a backup being taken, which no restore knows yet.                 *)
LEMMA BackupKeeps ==
    ASSUME PasswordInv, NEW b \in Backups, NEW v \in BackupType,
           backups[b].state \in {"none", "recording", "running"},
           backups' = [backups EXCEPT ![b] = v],
           UNCHANGED <<root, secret, hook, pass, altered, restores, adopt, doubts>>,
           v.state \in {"recording", "running", "done"},
           v.state = "done" => v.data # None,
           ~v.stirred /\ v.state # "done" =>
             /\ v.recorded # None => v.recorded = IF root = None THEN secret.pw ELSE root
             /\ v.data # None => v.data = root,
           ~v.stirred /\ v.state = "done" /\ v.recorded # None => v.recorded = v.data
    PROVE  PasswordInv'
<1>1. TypeOK /\ DOMAIN backups = Backups \cup Foreign
  BY Types DEF PasswordInv
<1>2. backups'[b] = v /\ \A c \in (Backups \cup Foreign) \ {b} : backups'[c] = backups[c]
  BY <1>1
<1>3. TypeOK'
  BY <1>1 DEF TypeOK, BackupType
<1>4. BackupsInv'
  BY <1>2 DEF PasswordInv, BackupsInv
<1>5. RecordsInv'
  <2> SUFFICES ASSUME NEW c \in Backups \cup Foreign, ~backups'[c].stirred
               PROVE  /\ Unfinished(c)' =>
                           /\ backups'[c].recorded # None =>
                                backups'[c].recorded = IF root = None THEN secret.pw ELSE root
                           /\ backups'[c].data # None => backups'[c].data = root
                      /\ backups'[c].state = "none" => backups'[c].data = None /\ backups'[c].recorded = None
                      /\ backups'[c].state = "done" /\ backups'[c].recorded # None =>
                           backups'[c].recorded = backups'[c].data
      BY DEF RecordsInv
  <2>1. CASE c = b
    BY <1>2, <2>1 DEF Unfinished
  <2>2. CASE c # b
    BY <1>2, <2>2 DEF PasswordInv, RecordsInv, Unfinished
  <2>3. QED
    BY <2>1, <2>2
<1>6. ASSUME NEW r \in Restores, restores[r].br # "none"
      PROVE  backups'[restores[r].from] = backups[restores[r].from]
  BY <1>2, <1>6 DEF PasswordInv, RestoresInv
<1>7. RestoresInv'
  <2>1. ASSUME NEW r \in Restores, restores[r].status = "unknown" PROVE restores[r].br # "none"
    BY <2>1 DEF PasswordInv, RestoresInv
  <2>2. QED
    BY <1>6, <2>1 DEF PasswordInv, RestoresInv, Sure
<1>8. AdoptInv'
  BY <1>6 DEF PasswordInv, AdoptInv
<1>9. BootstrapInv' /\ TimesInv' /\ AlteredInv'
  BY PendingStays DEF PasswordInv, BootstrapInv, TimesInv, AlteredInv
<1>10. SecretFollows'
  <2>1. ASSUME NEW r \in Restores, Leads(r) PROVE Leads(r)'
    <3>1. restores[r].br # "none"
      BY <2>1 DEF Leads, Pending
    <3>2. QED
      BY <1>6, <2>1, <3>1, PendingStays DEF Leads
  <2>2. QED
    BY <2>1, PendingStays DEF PasswordInv, SecretFollows
<1>11. QED
  BY <1>3, <1>4, <1>5, <1>7, <1>8, <1>9, <1>10 DEF PasswordInv

(* What is recorded for sure is what TiDB has, or will bootstrap with.          *)
LEMMA RecordKeeps == ASSUME PasswordInv, NEW b \in Backups, RecordPassword(b) PROVE PasswordInv'
<1> DEFINE old == backups[b]
           v == [old EXCEPT !.state = IF @ = "none" THEN "recording" ELSE @, !.recorded = Recorded,
                            !.stirred = @ \/ Changing]
<1>1. /\ TypeOK /\ old \in BackupType /\ old.state \in {"none", "running"} /\ backups' = [backups EXCEPT ![b] = v]
      /\ UNCHANGED <<root, secret, hook, pass, altered, restores, adopt, doubts>>
  <2>1. TypeOK /\ backups \in [Backups \cup Foreign -> BackupType]
    BY Types DEF PasswordInv
  <2>2. QED
    BY <2>1 DEF RecordPassword
<1>2. /\ v.state \in {"recording", "running"} /\ v.recorded = secret.pw /\ v.data = old.data
      /\ v.stirred = (old.stirred \/ Changing) /\ v \in BackupType
  <2>1. secret.pw \in Maybe
    BY <1>1 DEF TypeOK
  <2>2. (old.stirred \/ Changing) \in BOOLEAN
    BY <1>1 DEF BackupType, Changing
  <2>3. QED
    BY <1>1, <2>1, <2>2 DEF BackupType, Recorded
<1>3. ASSUME ~v.stirred
      PROVE  /\ v.recorded = IF root = None THEN secret.pw ELSE root
             /\ v.data # None => v.data = root
  <2>1. ~old.stirred /\ ~altered /\ ~SomePending /\ doubts = {}
    BY <1>2, <1>3 DEF Changing
  <2>2. root # None => secret.pw = root
    BY <2>1 DEF PasswordInv, SecretFollows, Leads, SomePending
  <2>3. old.data # None => old.data = root
    BY <1>1, <2>1 DEF PasswordInv, RecordsInv, Unfinished
  <2>4. QED
    BY <1>2, <2>2, <2>3
<1>4. QED
  <2> HIDE DEF v, old
  <2>1. backups[b].state \in {"none", "recording", "running"}
    BY <1>1 DEF old
  <2>2. QED
    BY <1>1, <1>2, <1>3, <2>1, BackupKeeps

LEMMA TakeKeeps ==
    ASSUME PasswordInv, NEW b \in Backups, CreateBRBackup(b) \/ TakeSnapshot(b) \/ FinishBackup(b)
    PROVE  PasswordInv'
<1> DEFINE old == backups[b]
<1>1. TypeOK /\ old \in BackupType /\ root \in Maybe
  BY Types DEF PasswordInv
<1>2. /\ Unfinished(b) /\ ~old.stirred =>
           /\ old.recorded # None => old.recorded = IF root = None THEN secret.pw ELSE root
           /\ old.data # None => old.data = root
      /\ old.state = "none" /\ ~old.stirred => old.data = None /\ old.recorded = None
  BY DEF PasswordInv, RecordsInv
<1>3. ASSUME NEW v \in BackupType, backups' = [backups EXCEPT ![b] = v],
             UNCHANGED <<root, secret, hook, pass, altered, restores, adopt, doubts>>,
             old.state \in {"none", "recording", "running"}, v.state \in {"running", "done"},
             v.state = "done" => v.data # None,
             v.stirred = old.stirred, v.recorded = old.recorded,
             v.data = old.data \/ v.data = root
      PROVE  PasswordInv'
  <2>1. ~v.stirred => /\ v.recorded # None => v.recorded = IF root = None THEN secret.pw ELSE root
                      /\ v.data # None => v.data = root
    BY <1>2, <1>3 DEF Unfinished
  <2>2. ~v.stirred /\ v.state = "done" /\ v.recorded # None => v.recorded = v.data
    BY <1>3, <2>1
  <2>3. backups[b].state \in {"none", "recording", "running"} /\ v.state \in {"recording", "running", "done"}
    BY <1>3
  <2> HIDE DEF old
  <2>4. QED
    BY <1>3, <2>1, <2>2, <2>3, BackupKeeps
<1>4. CASE CreateBRBackup(b)
  <2> DEFINE v == [old EXCEPT !.state = "running"]
  <2>1. v \in BackupType /\ v.state = "running" /\ v.stirred = old.stirred /\ v.recorded = old.recorded
        /\ v.data = old.data
    BY <1>1 DEF BackupType
  <2>2. backups' = [backups EXCEPT ![b] = v] /\ old.state \in {"none", "recording"}
        /\ UNCHANGED <<root, secret, hook, pass, altered, restores, adopt, doubts>>
    BY <1>4 DEF CreateBRBackup
  <2> HIDE DEF v
  <2>3. QED
    BY <1>3, <2>1, <2>2
<1>5. CASE TakeSnapshot(b)
  <2> DEFINE v == [old EXCEPT !.data = root]
  <2>1. backups' = [backups EXCEPT ![b] = v] /\ old.state = "running"
        /\ UNCHANGED <<root, secret, hook, pass, altered, restores, adopt, doubts>>
    BY <1>5 DEF TakeSnapshot
  <2>2. v \in BackupType /\ v.state = "running" /\ v.stirred = old.stirred /\ v.recorded = old.recorded
        /\ v.data = root
    BY <1>1, <2>1 DEF BackupType
  <2> HIDE DEF v
  <2>3. QED
    BY <1>3, <2>1, <2>2
<1>6. CASE FinishBackup(b)
  <2> DEFINE v == [old EXCEPT !.state = "done"]
  <2>1. backups' = [backups EXCEPT ![b] = v] /\ old.state = "running" /\ old.data # None
        /\ UNCHANGED <<root, secret, hook, pass, altered, restores, adopt, doubts>>
    BY <1>6 DEF FinishBackup
  <2>2. v \in BackupType /\ v.state = "done" /\ v.stirred = old.stirred /\ v.recorded = old.recorded
        /\ v.data = old.data
    BY <1>1 DEF BackupType
  <2> HIDE DEF v
  <2>3. QED
    BY <1>3, <2>1, <2>2
<1>7. QED
  BY <1>4, <1>5, <1>6

(* The recorded password goes with its Backup, perhaps before it is adopted.    *)
LEMMA DeleteKeeps == ASSUME PasswordInv, NEW b \in Backups \cup Foreign, DeleteBackup(b) PROVE PasswordInv'
<1> DEFINE v == [NoBackup EXCEPT !.state = "deleted"]
<1>1. /\ TypeOK /\ DOMAIN backups = Backups \cup Foreign /\ backups[b].state = "done"
      /\ backups' = [backups EXCEPT ![b] = v]
      /\ UNCHANGED <<root, secret, hook, pass, altered, restores, adopt>>
      /\ doubts' = IF \E r \in Restores : Pending(r) /\ restores[r].from = b
                   THEN doubts \cup {"lost"} ELSE doubts
  BY Types DEF PasswordInv, DeleteBackup
<1>2. v \in BackupType /\ v.state = "deleted" /\ v.data = None /\ v.recorded = None
  BY Names DEF NoBackup, BackupType
<1> HIDE DEF v
<1>3. backups'[b] = v /\ \A c \in (Backups \cup Foreign) \ {b} : backups'[c] = backups[c]
  BY <1>1
<1>4. TypeOK'
  BY <1>1, <1>2 DEF TypeOK, BackupType, Reasons
<1>5. BackupsInv' /\ RecordsInv'
  BY <1>1, <1>2, <1>3 DEF PasswordInv, BackupsInv, RecordsInv, Unfinished
<1>6. RestoresInv'
  <2>1. ASSUME NEW r \in Restores, restores[r].status = "unknown" PROVE restores[r].br # "none"
    BY <2>1 DEF PasswordInv, RestoresInv
  <2>2. QED
    BY <1>1, <1>2, <1>3, <2>1 DEF PasswordInv, RestoresInv, Sure
<1>7. AdoptInv'
  <2>1. adopt.at # "idle" => restores[adopt.r].from \in Backups \cup Foreign
    BY DEF PasswordInv, AdoptInv, RestoresInv
  <2>2. QED
    BY <1>1, <1>2, <1>3, <2>1 DEF PasswordInv, AdoptInv
<1>8. BootstrapInv' /\ TimesInv' /\ AlteredInv'
  BY <1>1, PendingStays DEF PasswordInv, BootstrapInv, TimesInv, AlteredInv
<1>9. SecretFollows'
  <2>1. ASSUME NEW r \in Restores, Leads(r), doubts' = {} PROVE Leads(r)'
    <3>1. restores[r].br # "none" /\ restores[r].from # b
      BY <1>1, <2>1 DEF Leads, Pending
    <3>2. backups'[restores[r].from] = backups[restores[r].from]
      BY <1>3, <3>1 DEF PasswordInv, RestoresInv
    <3>3. QED
      BY <1>1, <2>1, <3>2, PendingStays DEF Leads
  <2>2. QED
    BY <1>1, <2>1, PendingStays DEF PasswordInv, SecretFollows
<1>10. QED
  BY <1>4, <1>5, <1>6, <1>7, <1>8, <1>9 DEF PasswordInv

-----------------------------------------------------------------------------
(* A step of one restore that BR has not completed, while root keeps its        *)
(* password, or of one that can no longer lead.                               *)
LEMMA RestoreKeeps ==
    ASSUME PasswordInv, NEW r \in Restores, NEW v \in RestoreType,
           restores' = [restores EXCEPT ![r] = v],
           UNCHANGED <<root, secret, hook, pass, altered, backups, adopt>>,
           doubts' \in SUBSET Reasons, doubts \subseteq doubts',
           adopt.at = "idle" \/ restores[r].br # "complete",
           v.at = restores[r].at, v.br # "none", v.br \in {"applied", "complete"} => v.br = restores[r].br,
           v.br # "complete" => v.at = 0 /\ v.status \in {"active", "failed"},
           v.status \in {"succeeded", "unknown"} => v.status = restores[r].status,
           v.status = "active" => restores[r].status = "active",
           /\ v.from \in Backups \cup Foreign /\ v.data # None
           /\ backups[v.from].state \in {"done", "deleted"}
           /\ backups[v.from].state = "done" => v.data = backups[v.from].data /\ v.sure = Sure(v.from),
           restores[r].br = "none" \/ v.from = restores[r].from,
           doubts' = {} => ~Leads(r)
    PROVE  PasswordInv'
<1>1. TypeOK /\ DOMAIN restores = Restores
  BY Types DEF PasswordInv
<1>2. restores'[r] = v /\ \A s \in Restores \ {r} : restores'[s] = restores[s]
  BY <1>1
<1>3. TypeOK'
  BY <1>1 DEF TypeOK, RestoreType
<1>4. BootstrapInv' /\ TimesInv'
  BY <1>2 DEF PasswordInv, BootstrapInv, TimesInv
<1>5. BackupsInv' /\ RecordsInv'
  BY DEF PasswordInv, BackupsInv, RecordsInv, Unfinished
<1>6. RestoresInv'
  BY <1>2 DEF PasswordInv, RestoresInv, Sure
<1>7. AdoptInv'
  BY <1>2 DEF PasswordInv, AdoptInv
<1>8. Pending(r)' => Pending(r)
  BY <1>2 DEF Pending
<1>9. \A s \in Restores \ {r} : Pending(s)' <=> Pending(s)
  BY <1>2 DEF Pending
<1>10. AlteredInv'
  BY <1>8, <1>9 DEF PasswordInv, AlteredInv, SomePending
<1>11. SecretFollows'
  <2>1. ASSUME NEW s \in Restores, Leads(s), doubts' = {} PROVE Leads(s)'
    <3>1. s # r /\ Pending(s)
      BY <2>1 DEF Leads
    <3>2. Pending(s)' /\ restores'[s] = restores[s]
      BY <1>2, <1>9, <3>1
    <3>3. v.br # "applied"
      BY <2>1, <3>1 DEF Leads
    <3>4. QED
      BY <1>2, <2>1, <3>2, <3>3 DEF Leads
  <2>2. doubts' = {} => doubts = {}
    OBVIOUS
  <2>3. SomePending' => SomePending
    BY <1>8, <1>9 DEF SomePending
  <2>4. QED
    BY <2>1, <2>2, <2>3 DEF PasswordInv, SecretFollows
<1>12. QED
  BY <1>3, <1>4, <1>5, <1>6, <1>7, <1>10, <1>11 DEF PasswordInv

LEMMA StartKeeps ==
    ASSUME PasswordInv, NEW r \in Restores, NEW b \in Backups \cup Foreign, StartRestore(r, b)
    PROVE  PasswordInv'
<1> DEFINE v == [NoRestore EXCEPT !.br = "running", !.from = b, !.data = backups[b].data, !.sure = Sure(b)]
<1>1. /\ restores[r].br = "none" /\ backups[b].state = "done" /\ restores' = [restores EXCEPT ![r] = v]
      /\ UNCHANGED <<root, secret, hook, pass, altered, backups, adopt, doubts>>
  BY DEF StartRestore
<1>2. TypeOK /\ backups[b] \in BackupType
  BY Types DEF PasswordInv
<1>3. /\ v \in RestoreType /\ v.br = "running" /\ v.status = "active" /\ v.at = 0 /\ v.from = b
      /\ v.data = backups[b].data /\ v.sure = Sure(b)
  BY <1>2 DEF NoRestore, RestoreType, BackupType, Sure
<1>4. restores[r].status = "active" /\ restores[r].at = 0 /\ backups[b].data # None
  BY <1>1 DEF PasswordInv, RestoresInv, BackupsInv
<1>5. ~Leads(r) /\ doubts \in SUBSET Reasons
  BY <1>1, <1>2 DEF Leads, Pending, TypeOK
<1> HIDE DEF v
<1>6. QED
  BY <1>1, <1>3, <1>4, <1>5, RestoreKeeps

LEMMA FailKeeps ==
    ASSUME PasswordInv, NEW r \in Restores, FailRestore(r) \/ LoseSource(r)
    PROVE  PasswordInv'
<1>1. TypeOK /\ restores[r] \in RestoreType /\ doubts \in SUBSET Reasons
  BY Types DEF PasswordInv
<1>2. restores[r].br # "none" /\ UNCHANGED <<root, secret, hook, pass, altered, backups, adopt>>
  BY DEF FailRestore, LoseSource
<1>3. /\ restores[r].from \in Backups \cup Foreign /\ restores[r].data # None
      /\ backups[restores[r].from].state \in {"done", "deleted"}
      /\ backups[restores[r].from].state = "done" =>
           restores[r].data = backups[restores[r].from].data /\ restores[r].sure = Sure(restores[r].from)
      /\ restores[r].br # "complete" => restores[r].at = 0
  BY <1>2 DEF PasswordInv, RestoresInv
<1>4. CASE FailRestore(r)
  <2> DEFINE v == [restores[r] EXCEPT !.br = "failed", !.status = "failed"]
  <2>1. /\ v \in RestoreType /\ v.br = "failed" /\ v.status = "failed" /\ v.at = restores[r].at
        /\ v.from = restores[r].from /\ v.data = restores[r].data /\ v.sure = restores[r].sure
    BY <1>1 DEF RestoreType
  <2>2. /\ restores' = [restores EXCEPT ![r] = v] /\ restores[r].br \in {"running", "applied"}
        /\ doubts' = IF restores[r].br = "applied" THEN doubts \cup {"failed"} ELSE doubts
    BY <1>4 DEF FailRestore
  <2>3. /\ doubts' \in SUBSET Reasons /\ doubts \subseteq doubts'
        /\ doubts' = {} => ~Leads(r)
    BY <1>1, <2>2 DEF Reasons, Leads, Pending
  <2> HIDE DEF v
  <2>4. QED
    BY <1>2, <1>3, <2>1, <2>2, <2>3, RestoreKeeps
<1>5. CASE LoseSource(r)
  <2> DEFINE v == [restores[r] EXCEPT !.status = "failed"]
  <2>1. /\ v \in RestoreType /\ v.br = restores[r].br /\ v.status = "failed" /\ v.at = restores[r].at
        /\ v.from = restores[r].from /\ v.data = restores[r].data /\ v.sure = restores[r].sure
    BY <1>1 DEF RestoreType
  <2>2. restores' = [restores EXCEPT ![r] = v] /\ adopt.at = "idle" /\ doubts' = doubts
    BY <1>5 DEF LoseSource
  <2>3. ~Leads(r)
    BY <1>5 DEF LoseSource, Leads
  <2> HIDE DEF v
  <2>4. QED
    BY <1>1, <1>2, <1>3, <2>1, <2>2, <2>3, RestoreKeeps
<1>6. QED
  BY <1>4, <1>5

(* The restore that replaces the users leads, if nothing is in doubt.          *)
LEMMA UsersKeep == ASSUME PasswordInv, NEW r \in Restores, RestoreUsers(r) PROVE PasswordInv'
<1> DEFINE b == restores[r].from
           v == [restores[r] EXCEPT !.br = "applied"]
<1>1. /\ TypeOK /\ DOMAIN restores = Restores /\ restores[r] \in RestoreType /\ doubts \in SUBSET Reasons
      /\ \A s \in Restores : restores[s] \in RestoreType
  BY Types DEF PasswordInv
<1>2. /\ restores[r].br = "running" /\ root # None /\ root' = restores[r].data /\ backups' = Stirred
      /\ restores' = [restores EXCEPT ![r] = v]
      /\ UNCHANGED <<secret, hook, pass, altered, adopt>>
  BY DEF RestoreUsers
<1>3. /\ doubts' \in SUBSET Reasons
      /\ doubts' = {} => /\ restores[r].status # "failed" /\ backups[b].state # "deleted" /\ restores[r].sure
                         /\ ~altered /\ \A s \in Restores : restores[s].br # "applied"
  <2>1. doubts' = {d \in {"lost", "backup", "mixed", "order"} :
                    \/ d = "lost" /\ (restores[r].status = "failed" \/ backups[b].state = "deleted")
                    \/ d = "backup" /\ ~restores[r].sure
                    \/ d = "mixed" /\ altered
                    \/ d = "order" /\ \E s \in Restores : restores[s].br = "applied"}
    BY DEF RestoreUsers
  <2>2. doubts' \in SUBSET Reasons
    BY <2>1 DEF Reasons
  <2>3. /\ restores[r].status = "failed" \/ backups[b].state = "deleted" => "lost" \in doubts'
        /\ ~restores[r].sure => "backup" \in doubts'
        /\ altered => "mixed" \in doubts'
        /\ (\E s \in Restores : restores[s].br = "applied") => "order" \in doubts'
    BY <2>1
  <2>4. QED
    BY <2>2, <2>3
<1>4. /\ restores[r].at = 0 /\ restores[r].status \in {"active", "failed"}
      /\ b \in Backups \cup Foreign /\ restores[r].data # None /\ backups[b].state \in {"done", "deleted"}
  BY <1>2 DEF PasswordInv, RestoresInv
<1>5. /\ v \in RestoreType /\ v.br = "applied" /\ v.status = restores[r].status /\ v.at = 0 /\ v.from = b
      /\ v.data = restores[r].data /\ v.sure = restores[r].sure
  BY <1>1, <1>4 DEF RestoreType
<1> HIDE DEF v
<1>6. restores'[r] = v /\ \A s \in Restores \ {r} : restores'[s] = restores[s]
  BY <1>1, <1>2
<1>7. /\ backups' \in [Backups \cup Foreign -> BackupType] /\ BackupsInv' /\ RecordsInv'
      /\ \A c \in Backups \cup Foreign :
           /\ backups'[c].state = backups[c].state /\ backups'[c].data = backups[c].data
           /\ backups'[c].recorded = backups[c].recorded
           /\ backups[c].state \in {"done", "deleted"} => Sure(c)' = Sure(c)
  BY <1>1, <1>2, StirringKeeps DEF PasswordInv
<1>8. TypeOK'
  <2>1. root' \in Maybe
    BY <1>1, <1>2 DEF RestoreType
  <2>2. QED
    BY <1>1, <1>2, <1>3, <1>5, <1>7, <2>1 DEF TypeOK, BackupType, RestoreType
<1>9. BootstrapInv' /\ TimesInv'
  <2>1. root' # None
    BY <1>2, <1>4
  <2>2. QED
    BY <1>2, <1>4, <1>5, <1>6, <2>1 DEF PasswordInv, BootstrapInv, TimesInv
<1>10. RestoresInv'
  <2>1. ASSUME NEW s \in Restores, s # r, restores[s].br # "none"
        PROVE  /\ restores[s].from \in Backups \cup Foreign
               /\ backups[restores[s].from].state \in {"done", "deleted"}
    BY <2>1 DEF PasswordInv, RestoresInv
  <2>2. ASSUME NEW s \in Restores, restores[s].status = "unknown" PROVE restores[s].br # "none"
    BY <2>2 DEF PasswordInv, RestoresInv
  <2>3. v.sure = restores[r].sure /\ (backups[b].state = "done" => v.data = backups[b].data /\ v.sure = Sure(b))
    BY <1>2, <1>5 DEF PasswordInv, RestoresInv
  <2>4. QED
    BY <1>2, <1>4, <1>5, <1>6, <1>7, <2>1, <2>2, <2>3 DEF PasswordInv, RestoresInv
<1>11. AdoptInv'
  <2>1. adopt.at # "idle" => adopt.r # r /\ restores[adopt.r].from \in Backups \cup Foreign
    BY <1>2 DEF PasswordInv, AdoptInv, RestoresInv
  <2>2. QED
    BY <1>2, <1>6, <1>7, <2>1 DEF PasswordInv, AdoptInv
<1>12. AlteredInv' /\ SecretFollows'
  <2> SUFFICES ASSUME doubts' = {} PROVE ~altered' /\ Leads(r)'
      BY DEF AlteredInv, SecretFollows
  <2>1. backups'[b].state = "done" /\ restores'[r].status = "active"
    BY <1>3, <1>4, <1>5, <1>6, <1>7
  <2>2. QED
    BY <1>2, <1>3, <1>5, <1>6, <2>1 DEF Leads, Pending
<1>13. QED
  BY <1>7, <1>8, <1>9, <1>10, <1>11, <1>12 DEF PasswordInv

(* No restore completed later than the latest.                                *)
LEMMA LatestIsLast ==
    ASSUME TypeOK, Restores # {}
    PROVE  Latest \in Nat /\ \A s \in Restores : restores[s].at <= Latest
<1> DEFINE f == [s \in Restores |-> restores[s].at]
           S == {restores[s].at : s \in Restores}
<1>1. f \in [Restores -> Nat]
  BY Types DEF RestoreType
<1>2. PICK r \in Restores : \A s \in Restores : f[s] <= f[r]
  BY <1>1, LatestExists, RestoresAssumption
<1>3. \E x \in S : \A y \in S : x >= y
  BY <1>1, <1>2
<1>4. Latest \in S /\ \A y \in S : Latest >= y
  BY <1>3 DEF Latest, Max
<1>5. QED
  BY <1>1, <1>4

(* A restore that leads is the last to complete, or one of two in a second.     *)
LEMMA CompleteKeeps == ASSUME PasswordInv, NEW r \in Restores, CompleteRestore(r) PROVE PasswordInv'
<1>1. /\ TypeOK /\ DOMAIN restores = Restores /\ restores[r] \in RestoreType /\ doubts \in SUBSET Reasons
      /\ \A s \in Restores : restores[s] \in RestoreType
  BY Types DEF PasswordInv
<1>2. PICK at \in {Latest, Latest + 1} \ {0} :
        /\ restores' = [restores EXCEPT ![r] = [restores[r] EXCEPT !.br = "complete", !.at = at]]
        /\ doubts' = IF at = Latest THEN doubts \cup {"order"} ELSE doubts
  BY DEF CompleteRestore
<1>3. restores[r].br = "applied" /\ UNCHANGED <<root, secret, hook, pass, altered, backups, adopt>>
  BY DEF CompleteRestore
<1>4. Latest \in Nat /\ \A s \in Restores : restores[s].at <= Latest
  BY <1>1, LatestIsLast
<1> DEFINE v == [restores[r] EXCEPT !.br = "complete", !.at = at]
<1>5. /\ v \in RestoreType /\ v.br = "complete" /\ v.status = restores[r].status /\ v.at = at
      /\ v.from = restores[r].from /\ v.data = restores[r].data /\ v.sure = restores[r].sure
  <2>1. at \in Nat
    BY <1>2, <1>4
  <2>2. QED
    BY <1>1, <2>1 DEF RestoreType
<1>6. restores' = [restores EXCEPT ![r] = v]
  BY <1>2
<1> HIDE DEF v
<1>7. restores'[r] = v /\ \A s \in Restores \ {r} : restores'[s] = restores[s]
  BY <1>1, <1>6
<1>8. restores[r].at = 0 /\ restores[r].status \in {"active", "failed"}
  BY <1>3 DEF PasswordInv, RestoresInv
<1>9. TypeOK'
  BY <1>1, <1>2, <1>3, <1>5, <1>6 DEF TypeOK, RestoreType, Reasons
<1>10. BackupsInv' /\ RecordsInv'
  BY <1>3 DEF PasswordInv, BackupsInv, RecordsInv, Unfinished
<1>11. BootstrapInv' /\ TimesInv'
  BY <1>3, <1>7, <1>8 DEF PasswordInv, BootstrapInv, TimesInv
<1>12. RestoresInv'
  BY <1>3, <1>5, <1>7, <1>8 DEF PasswordInv, RestoresInv, Sure
<1>13. AdoptInv'
  <2>1. adopt.at # "idle" => adopt.r # r
    BY <1>3 DEF PasswordInv, AdoptInv
  <2>2. QED
    BY <1>3, <1>7, <2>1 DEF PasswordInv, AdoptInv
<1>14. SomePending' => SomePending
  <2>1. Pending(r)' => Pending(r)
    BY <1>3, <1>5, <1>7 DEF Pending
  <2>2. \A s \in Restores \ {r} : Pending(s)' => Pending(s)
    BY <1>3, <1>7 DEF Pending
  <2>3. QED
    BY <2>1, <2>2 DEF SomePending
<1>15. AlteredInv'
  BY <1>2, <1>3, <1>14 DEF PasswordInv, AlteredInv
<1>16. SecretFollows'
  <2> SUFFICES ASSUME doubts' = {}, root # None, ~altered
               PROVE  (secret.pw = root /\ ~SomePending)' \/ \E s \in Restores : Leads(s)'
      BY <1>3 DEF SecretFollows
  <2>1. doubts = {} /\ at = Latest + 1
    BY <1>2
  <2>2. CASE secret.pw = root /\ ~SomePending
    BY <1>3, <1>14, <2>2
  <2>3. ASSUME NEW x \in Restores, Leads(x) PROVE Leads(r)'
    <3>1. x = r
      BY <1>3, <2>3 DEF Leads
    <3>2. \A s \in Restores \ {r} : restores'[s].br # "applied" /\ restores'[s].at < at
      BY <1>1, <1>4, <1>7, <2>1, <2>3, <3>1 DEF Leads, RestoreType
    <3>3. at > secret.at
      BY <1>1, <1>4, <2>1 DEF PasswordInv, TimesInv, TypeOK
    <3>4. QED
      BY <1>3, <1>5, <1>7, <2>3, <3>1, <3>2, <3>3 DEF Leads, Pending
  <2>4. QED
    BY <2>1, <2>2, <2>3 DEF PasswordInv, SecretFollows
<1>17. QED
  BY <1>9, <1>10, <1>11, <1>12, <1>13, <1>15, <1>16 DEF PasswordInv

-----------------------------------------------------------------------------
(* The steps of an adoption that only read.                                   *)
LEMMA ReadKeeps ==
    ASSUME PasswordInv, UNCHANGED <<root, secret, hook, pass, altered, backups, restores, doubts>>,
           adopt' \in [at : {"idle", "recorded", "source", "current", "apply", "report"},
                       r : Restores \cup {None}, pw : Maybe],
           AdoptInv'
    PROVE  PasswordInv'
<1>1. TypeOK' /\ BootstrapInv' /\ BackupsInv' /\ TimesInv'
  BY DEF PasswordInv, TypeOK, BootstrapInv, BackupsInv, TimesInv
<1>2. RecordsInv' /\ RestoresInv'
  BY DEF PasswordInv, RecordsInv, RestoresInv, Unfinished, Sure
<1>3. AlteredInv' /\ SecretFollows'
  BY PendingStays DEF PasswordInv, AlteredInv, SecretFollows, Leads
<1>4. QED
  BY <1>1, <1>2, <1>3 DEF PasswordInv

(* TiDB and the Secret have a password once a restore is completed.            *)
LEMMA CompletedHasPassword ==
    ASSUME PasswordInv, NEW r \in Restores, restores[r].br = "complete"
    PROVE  root # None /\ secret.pw # None
BY DEF PasswordInv, BootstrapInv

LEMMA AdoptingKeeps ==
    ASSUME PasswordInv, ReadRecorded \/ ReadSource \/ ReadCurrent \/ AbortAdoption
           \/ \E r \in Restores : StartAdoption(r)
    PROVE  PasswordInv'
<1>1. /\ adopt \in [at : {"idle", "recorded", "source", "current", "apply", "report"},
                    r : Restores \cup {None}, pw : Maybe]
      /\ secret.pw \in Maybe /\ secret.at \in Nat
      /\ \A b \in Backups \cup Foreign : backups[b].recorded \in Maybe
      /\ \A s \in Restores : restores[s].at \in Nat
  BY Types DEF PasswordInv, BackupType, RestoreType
<1>2. UNCHANGED <<root, secret, hook, pass, altered, backups, restores, doubts>>
  BY DEF ReadRecorded, ReadSource, ReadCurrent, AbortAdoption, StartAdoption
<1> DEFINE b == restores[adopt.r].from
<1>3. adopt.at # "idle" =>
        /\ adopt.r \in Restores /\ restores[adopt.r].br = "complete" /\ restores[adopt.r].status # "failed"
        /\ b \in Backups \cup Foreign
        /\ restores[adopt.r].status = "unknown" => b \notin Backups /\ backups[b].recorded = None
  BY DEF PasswordInv, AdoptInv, RestoresInv
<1>4. CASE ReadRecorded
  <2> DEFINE pw == backups[b].recorded
             at == IF pw # None THEN "current" ELSE IF b \in Backups THEN "source" ELSE "report"
  <2>1. adopt.at = "recorded" /\ adopt' = [adopt EXCEPT !.pw = pw, !.at = at]
    BY <1>4 DEF ReadRecorded
  <2>2. adopt'.r = adopt.r /\ adopt'.pw = pw /\ adopt'.at = at
    BY <1>1, <2>1
  <2>3. AdoptInv'
    BY <1>2, <1>3, <2>1, <2>2 DEF AdoptInv
  <2>4. QED
    BY <1>1, <1>2, <1>3, <2>1, <2>3, ReadKeeps
<1>5. CASE ReadSource
  <2>1. adopt.at = "source" /\ adopt' = [adopt EXCEPT !.pw = secret.pw, !.at = "current"]
    BY <1>5 DEF ReadSource
  <2>2. adopt'.r = adopt.r /\ adopt'.pw = secret.pw /\ adopt'.at = "current"
    BY <1>1, <2>1
  <2>3. secret.pw # None /\ restores[adopt.r].status # "unknown" /\ backups[b].recorded = None
    BY <1>3, <2>1, CompletedHasPassword DEF PasswordInv, AdoptInv
  <2>4. AdoptInv'
    BY <1>2, <1>3, <2>1, <2>2, <2>3 DEF AdoptInv
  <2>5. QED
    BY <1>1, <1>2, <2>1, <2>4, ReadKeeps
<1>6. CASE ReadCurrent
  <2> DEFINE at == IF Superseded(adopt.r) THEN "report" ELSE "apply"
  <2>1. adopt.at = "current" /\ adopt' = [adopt EXCEPT !.at = at]
    BY <1>6 DEF ReadCurrent
  <2>2. adopt'.r = adopt.r /\ adopt'.pw = adopt.pw /\ adopt'.at = at
    BY <1>1, <2>1
  <2>3. AdoptInv'
    BY <1>1, <1>2, <1>3, <2>1, <2>2 DEF PasswordInv, AdoptInv, Superseded
  <2>4. QED
    BY <1>1, <1>2, <2>1, <2>3, ReadKeeps
<1>7. CASE AbortAdoption
  <2>1. adopt' = NoAdoption
    BY <1>7 DEF AbortAdoption
  <2>2. AdoptInv'
    BY <2>1 DEF AdoptInv, NoAdoption
  <2>3. QED
    BY <1>2, <2>1, <2>2, Names, ReadKeeps DEF NoAdoption
<1>8. ASSUME NEW r \in Restores, StartAdoption(r) PROVE PasswordInv'
  <2>1. /\ restores[r].br = "complete" /\ restores[r].status # "failed"
        /\ adopt' = [at |-> "recorded", r |-> r, pw |-> None]
    BY <1>8 DEF StartAdoption
  <2>2. AdoptInv'
    BY <1>2, <2>1 DEF AdoptInv
  <2>3. QED
    BY <1>2, <2>1, <2>2, Names, ReadKeeps
<1>9. QED
  BY <1>4, <1>5, <1>6, <1>7, <1>8

(* The Secret gets the password of the restore that leads, or waits for it.     *)
LEMMA ApplyKeeps == PasswordInv /\ ApplyPassword => PasswordInv'
<1> SUFFICES ASSUME PasswordInv, ApplyPassword PROVE PasswordInv'
    OBVIOUS
<1> DEFINE s == adopt.r
           b == restores[s].from
<1>1. /\ TypeOK /\ adopt.at = "apply" /\ secret' = [pw |-> adopt.pw, at |-> restores[s].at]
      /\ adopt' = [adopt EXCEPT !.at = "report"]
      /\ UNCHANGED <<root, hook, pass, altered, backups, restores, doubts>>
  BY DEF PasswordInv, ApplyPassword
<1>2. /\ s \in Restores /\ restores[s].br = "complete" /\ restores[s].status \notin {"failed", "unknown"}
      /\ adopt.pw # None /\ restores[s].at > secret.at
      /\ backups[b].recorded # None => adopt.pw = backups[b].recorded
  BY <1>1 DEF PasswordInv, AdoptInv
<1>3. /\ adopt'.r = s /\ adopt'.pw = adopt.pw /\ adopt'.at = "report"
      /\ secret'.pw = adopt.pw /\ secret'.at = restores[s].at
      /\ restores[s].at \in Nat /\ secret.at \in Nat /\ restores[s] \in RestoreType
      /\ \A x \in Restores : restores[x].at \in Nat
  BY <1>1, <1>2, Types DEF RestoreType
<1>4. root # None /\ secret.pw # None
  BY <1>2, CompletedHasPassword
<1>5. Pending(s)
  BY <1>2, <1>3 DEF PasswordInv, RestoresInv, Pending, RestoreType
<1>6. TypeOK'
  BY <1>1, <1>3 DEF TypeOK
<1>7. BootstrapInv' /\ TimesInv'
  BY <1>1, <1>2, <1>3, <1>4 DEF PasswordInv, BootstrapInv, TimesInv
<1>8. BackupsInv' /\ RecordsInv'
  BY <1>1, <1>4 DEF PasswordInv, BackupsInv, RecordsInv, Unfinished
<1>9. RestoresInv'
  BY <1>1, <1>2, <1>3 DEF PasswordInv, RestoresInv, Sure
<1>10. AdoptInv'
  BY <1>1, <1>2, <1>3 DEF AdoptInv
<1>11. AlteredInv'
  BY <1>1, <1>2, <1>5 DEF PasswordInv, AlteredInv, SomePending
<1>12. SecretFollows'
  <2> SUFFICES ASSUME doubts = {}, ~altered
               PROVE  (secret.pw = root /\ ~SomePending)' \/ \E r \in Restores : Leads(r)'
      BY <1>1 DEF SecretFollows
  <2>1. PICK r \in Restores : Leads(r)
    BY <1>2, <1>4, <1>5 DEF PasswordInv, SecretFollows, SomePending
  <2>2. CASE r = s
    <3>1. backups[b].state = "done" /\ restores[s].data = root /\ restores[s].sure
      BY <2>1, <2>2 DEF Leads
    <3>2. /\ b \in Backups \cup Foreign /\ backups[b].data = root
          /\ backups[b].recorded # None /\ ~backups[b].stirred
      BY <1>2, <3>1 DEF PasswordInv, RestoresInv, Sure
    <3>3. adopt.pw = root
      BY <1>2, <3>1, <3>2 DEF PasswordInv, RecordsInv
    <3>4. ~SomePending'
      BY <1>1, <1>2, <1>3, <2>1, <2>2 DEF Leads, SomePending, Pending
    <3>5. QED
      BY <1>1, <1>3, <3>3, <3>4
  <2>3. CASE r # s
    <3>1. Pending(r)'
      BY <1>1, <1>2, <1>3, <2>1, <2>3 DEF Leads, Pending
    <3>2. QED
      BY <1>1, <2>1, <3>1 DEF Leads
  <2>4. QED
    BY <2>2, <2>3
<1>13. QED
  BY <1>6, <1>7, <1>8, <1>9, <1>10, <1>11, <1>12 DEF PasswordInv

(* The Restore that leads is not reported before its password is applied.       *)
LEMMA ReportKeeps == PasswordInv /\ ReportRestore => PasswordInv'
<1> SUFFICES ASSUME PasswordInv, ReportRestore PROVE PasswordInv'
    OBVIOUS
<1>0. PICK s \in Restores : s = adopt.r
  BY DEF PasswordInv, AdoptInv, ReportRestore
<1> DEFINE b == restores[s].from
           v == [restores[s] EXCEPT !.status = IF adopt.pw = None THEN "unknown" ELSE "succeeded"]
<1>1. /\ TypeOK /\ adopt.at = "report" /\ restores' = [restores EXCEPT ![s] = v] /\ adopt' = NoAdoption
      /\ UNCHANGED <<root, secret, hook, pass, altered, backups, doubts>>
  BY <1>0 DEF PasswordInv, ReportRestore
<1>2. /\ s \in Restores /\ restores[s].br = "complete" /\ restores[s].status # "failed"
      /\ IF adopt.pw # None THEN restores[s].at <= secret.at
         ELSE b \notin Backups /\ backups[b].recorded = None
  BY <1>0, <1>1 DEF PasswordInv, AdoptInv
<1>3. /\ DOMAIN restores = Restores /\ restores[s] \in RestoreType
      /\ restores[s].at \in Nat /\ secret.at \in Nat
  BY <1>1, <1>2, Types DEF RestoreType
<1>4. /\ v \in RestoreType /\ v.br = "complete" /\ v.at = restores[s].at /\ v.from = b
      /\ v.data = restores[s].data /\ v.sure = restores[s].sure
      /\ v.status = IF adopt.pw = None THEN "unknown" ELSE "succeeded"
  BY <1>2, <1>3 DEF RestoreType
<1> HIDE DEF v
<1>5. restores'[s] = v /\ \A x \in Restores \ {s} : restores'[x] = restores[x]
  BY <1>1, <1>2, <1>3
<1>6. TypeOK'
  BY <1>1, <1>4, Names DEF TypeOK, RestoreType, NoAdoption
<1>7. BootstrapInv' /\ TimesInv'
  BY <1>1, <1>2, <1>4, <1>5 DEF PasswordInv, BootstrapInv, TimesInv
<1>8. BackupsInv' /\ RecordsInv'
  BY <1>1 DEF PasswordInv, BackupsInv, RecordsInv, Unfinished
<1>9. RestoresInv'
  BY <1>1, <1>2, <1>4, <1>5 DEF PasswordInv, RestoresInv, Sure
<1>10. AdoptInv'
  BY <1>1 DEF AdoptInv, NoAdoption
<1>11. ~Pending(s)' /\ \A x \in Restores \ {s} : Pending(x)' <=> Pending(x)
  BY <1>1, <1>4, <1>5 DEF Pending
<1>12. AlteredInv'
  BY <1>1, <1>11 DEF PasswordInv, AlteredInv, SomePending
<1>13. ~Leads(s)
  <2>1. SUFFICES ASSUME Leads(s) PROVE FALSE
    OBVIOUS
  <2>2. restores[s].at > secret.at /\ restores[s].sure /\ backups[b].state = "done"
    BY <1>2, <2>1 DEF Leads, Pending
  <2>3. backups[b].recorded = None
    BY <1>2, <1>3, <2>2
  <2>4. backups[b].recorded # None
    BY <1>2, <2>2 DEF PasswordInv, RestoresInv, Sure
  <2>5. QED
    BY <2>3, <2>4
<1>14. ASSUME NEW r \in Restores, Leads(r) PROVE Leads(r)'
  <2>1. r # s /\ Pending(r)
    BY <1>13, <1>14 DEF Leads
  <2>2. Pending(r)' /\ restores'[r] = restores[r]
    BY <1>5, <1>11, <2>1
  <2>3. QED
    BY <1>1, <1>4, <1>5, <1>14, <2>2 DEF Leads
<1>15. SecretFollows'
  <2>1. SomePending' => SomePending
    BY <1>11 DEF SomePending
  <2>2. QED
    BY <1>1, <1>14, <2>1 DEF PasswordInv, SecretFollows
<1>16. QED
  BY <1>6, <1>7, <1>8, <1>9, <1>10, <1>12, <1>15 DEF PasswordInv

-----------------------------------------------------------------------------
LEMMA SyncKeeps == PasswordInv /\ (SyncTiDB \/ Bootstrap \/ User \/ Adopting) => PasswordInv'
BY EnsureKeeps, StoreKeeps, HookKeeps, BootstrapKeeps, AlterKeeps, UpdateKeeps, AdoptingKeeps, ApplyKeeps,
   ReportKeeps DEF SyncTiDB, User, Adopting

LEMMA PasswordInvNext == PasswordInv /\ [Next]_vars => PasswordInv'
<1> SUFFICES ASSUME PasswordInv, [Next]_vars PROVE PasswordInv'
    OBVIOUS
<1>1. CASE SyncTiDB \/ Bootstrap \/ User \/ Adopting
  BY <1>1, SyncKeeps
<1>2. ASSUME NEW b \in Backups, Backing(b) PROVE PasswordInv'
  BY <1>2, RecordKeeps, TakeKeeps DEF Backing
<1>3. ASSUME NEW b \in Backups \cup Foreign, DeleteBackup(b) PROVE PasswordInv'
  BY <1>3, DeleteKeeps
<1>4. ASSUME NEW r \in Restores, Restoring(r) PROVE PasswordInv'
  BY <1>4, UsersKeep, CompleteKeeps, FailKeeps, AdoptingKeeps, StartKeeps DEF Restoring
<1>5. CASE UNCHANGED vars
  <2>1. AdoptInv' /\ TypeOK'
    BY <1>5 DEF vars, PasswordInv, AdoptInv, TypeOK
  <2>2. QED
    BY <1>5, <2>1, ReadKeeps DEF vars, TypeOK
<1>6. QED
  BY <1>1, <1>2, <1>3, <1>4, <1>5 DEF Next

(* The inductive invariant: the Secret has root's password, or a restore that     *)
(* leads will bring it (SyncTiDB, SyncBackup and SyncRestore).                 *)
THEOREM PasswordIsTracked == Spec => []PasswordInv
BY PasswordInvInit, PasswordInvNext, PTL DEF Spec

(* Type correctness, for any number of backups and restores.                    *)
THEOREM PasswordTypeCorrect == Spec => []TypeOK
<1>1. PasswordInv => TypeOK
  BY DEF PasswordInv
<1>2. QED
  BY <1>1, PasswordIsTracked, PTL

(* ConnectionWorks: once no change is on its way and none is in doubt the        *)
(* connection Secret holds the password TiDB has (adoptRestoredRootPassword).    *)
THEOREM ConnectionSecretWorks == Spec => []ConnectionWorks
<1>1. PasswordInv => ConnectionWorks
  BY DEF PasswordInv, SecretFollows, ConnectionWorks, Settled, SomePending, Leads
<1>2. QED
  BY <1>1, PasswordIsTracked, PTL

(* QuietBackupsRemember: a backup recorded what its snapshot holds if the        *)
(* password was not changing meanwhile (recordBackupRootPassword).             *)
THEOREM QuietBackupsRecordRight == Spec => []QuietBackupsRemember
<1>1. PasswordInv => QuietBackupsRemember
  BY DEF PasswordInv, RecordsInv, QuietBackupsRemember
<1>2. QED
  BY <1>1, PasswordIsTracked, PTL

(* What can change the Secret.                                               *)
LEMMA SecretWriters ==
    ASSUME Next, secret' # secret PROVE StorePassword \/ UpdateSecret \/ ApplyPassword
BY DEF Next, SyncTiDB, EnsureRootPassword, StorePassword, WriteBootstrapSQL, AbortPass, Bootstrap, User, AlterUser,
       UpdateSecret, Adopting, ReadRecorded, ReadSource, ReadCurrent, ApplyPassword, ReportRestore, AbortAdoption,
       Backing, RecordPassword, CreateBRBackup, TakeSnapshot, FinishBackup, DeleteBackup, Restoring, RestoreUsers,
       CompleteRestore, FailRestore, LoseSource, StartAdoption, StartRestore

(* NewestRestoreWins: a restore that completed before the one the Secret follows   *)
(* does not overwrite it (adoptRestoredRootPassword).                          *)
THEOREM NewestRestoreKept == Spec => NewestRestoreWins
<1>1. PasswordInv /\ [Next]_vars => [secret'.at > 0 => secret'.at >= secret.at]_secret
  <2> SUFFICES ASSUME PasswordInv, Next, secret' # secret, secret'.at > 0 PROVE secret'.at >= secret.at
      BY DEF vars
  <2>1. TypeOK /\ (StorePassword \/ UpdateSecret \/ ApplyPassword)
    BY SecretWriters DEF PasswordInv
  <2>2. CASE StorePassword
    BY <2>2 DEF StorePassword
  <2>3. CASE UpdateSecret
    BY <2>1, <2>3 DEF UpdateSecret, TypeOK
  <2>4. CASE ApplyPassword
    <3>1. restores[adopt.r].at > secret.at /\ adopt.r \in Restores
      BY <2>4 DEF PasswordInv, AdoptInv, ApplyPassword
    <3>2. restores[adopt.r].at \in Nat
      BY <3>1, <2>1, Types DEF RestoreType
    <3>3. QED
      BY <2>1, <2>4, <3>1, <3>2 DEF ApplyPassword, TypeOK
  <2>5. QED
    BY <2>1, <2>2, <2>3, <2>4
<1>2. QED
  BY <1>1, PasswordIsTracked, PTL DEF Spec, NewestRestoreWins

(* UserPasswordStays: a restore adopted before, or older than one that was, does   *)
(* not overwrite the password the user set when it is reconciled again.         *)
THEOREM UserPasswordKept == Spec => UserPasswordStays
<1>1. PasswordInv /\ [Next]_vars => [Settled /\ secret.pw = Mine => secret'.pw = Mine]_secret
  <2> SUFFICES ASSUME PasswordInv, Next, secret' # secret, Settled, secret.pw = Mine PROVE secret'.pw = Mine
      BY DEF vars
  <2>1. TypeOK /\ (StorePassword \/ UpdateSecret \/ ApplyPassword)
    BY SecretWriters DEF PasswordInv
  <2>2. CASE StorePassword
    BY <2>2, Names DEF StorePassword, PasswordInv, BootstrapInv
  <2>3. CASE UpdateSecret
    BY <2>1, <2>3 DEF UpdateSecret, TypeOK
  <2>4. CASE ApplyPassword
    <3>1. /\ adopt.r \in Restores /\ restores[adopt.r].at > secret.at /\ restores[adopt.r].br = "complete"
          /\ restores[adopt.r].status \notin {"failed", "unknown"}
      BY <2>4 DEF PasswordInv, AdoptInv, ApplyPassword
    <3>2. restores[adopt.r] \in RestoreType /\ secret.at \in Nat
      BY <3>1, <2>1, Types
    <3>3. Pending(adopt.r)
      BY <3>1, <3>2 DEF PasswordInv, RestoresInv, Pending, RestoreType
    <3>4. QED
      BY <3>1, <3>3 DEF Settled, SomePending
  <2>5. QED
    BY <2>1, <2>2, <2>3, <2>4
<1>2. QED
  BY <1>1, PasswordIsTracked, PTL DEF Spec, UserPasswordStays
=============================================================================
