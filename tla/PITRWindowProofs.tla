--------------------------- MODULE PITRWindowProofs ---------------------------
(***************************************************************************)
(* What the published window promises is kept, for any number of backups and   *)
(* restores and any clock. A publication and a restore decide on a log they    *)
(* read earlier, so the invariant ties what was read to the log: as long as     *)
(* nothing was deleted, a read is a log that only went on since. The last part  *)
(* shows that PITRWindow implements RestorablePoints.                          *)
(***************************************************************************)
EXTENDS PITRWindow, FiniteSetTheorems, TLAPS

(* Published times are whole seconds.                                        *)
LEMMA Quotient ==
    ASSUME NEW k \in Nat \ {0}, NEW t \in Nat
    PROVE  /\ t = k * (t \div k) + (t % k) /\ t % k \in 0..(k - 1) /\ t \div k \in Nat
BY Z3

LEMMA Multiples ==
    ASSUME NEW k \in Nat \ {0}, NEW p \in Nat, NEW q \in Nat
    PROVE  /\ p < q => k * p + k <= k * q
           /\ p <= q => k * p <= k * q
BY Z3

LEMMA SecondIsEarlier == \A t \in Nat : Second(t) \in Nat /\ Second(t) <= t
BY Quotient, ClockAssumption DEF Second

LEMMA SecondsKeepOrder == \A s, t \in Nat : s <= t => Second(s) <= Second(t)
<1> SUFFICES ASSUME NEW s \in Nat, NEW t \in Nat, s <= t PROVE Second(s) <= Second(t)
    OBVIOUS
<1> DEFINE k == TicksPerSecond
           p == s \div k
           q == t \div k
<1>1. k \in Nat \ {0}
  BY ClockAssumption
<1>2. /\ s = k * p + (s % k) /\ s % k \in 0..(k - 1) /\ p \in Nat
      /\ t = k * q + (t % k) /\ t % k \in 0..(k - 1) /\ q \in Nat
  BY <1>1, Quotient
<1>3. k * p \in Nat /\ k * q \in Nat
  BY <1>1, <1>2
<1>4. p <= q
  <2>1. SUFFICES ASSUME q < p PROVE FALSE
    BY <1>2
  <2>2. k * q + k <= k * p
    BY <1>1, <1>2, <2>1, Multiples
  <2>3. QED
    BY <1>1, <1>2, <1>3, <2>2
<1>5. k * p <= k * q
  BY <1>1, <1>2, <1>4, Multiples
<1>6. QED
  BY <1>1, <1>2, <1>3, <1>5 DEF Second

(* A second that is later than the second of a time is later than the time.     *)
LEMMA LaterSecond ==
    \A t, d \in Nat : d % TicksPerSecond = 0 /\ Second(t) < d => t < d
<1> SUFFICES ASSUME NEW t \in Nat, NEW d \in Nat, d % TicksPerSecond = 0, Second(t) < d PROVE t < d
    OBVIOUS
<1> DEFINE k == TicksPerSecond
           p == t \div k
           q == d \div k
<1>1. k \in Nat \ {0}
  BY ClockAssumption
<1>2. /\ t = k * p + (t % k) /\ t % k \in 0..(k - 1) /\ p \in Nat
      /\ d = k * q + (d % k) /\ q \in Nat
  BY <1>1, Quotient
<1>3. k * p \in Nat /\ k * q \in Nat
  BY <1>1, <1>2
<1>4. p < q
  <2>1. SUFFICES ASSUME q <= p PROVE FALSE
    BY <1>2
  <2>2. k * q <= k * p
    BY <1>1, <1>2, <2>1, Multiples
  <2>3. QED
    BY <1>1, <1>2, <1>3, <2>2 DEF Second
<1>5. k * p + k <= k * q
  BY <1>1, <1>2, <1>4, Multiples
<1>6. QED
  BY <1>1, <1>2, <1>3, <1>5

-----------------------------------------------------------------------------
(* The oldest base.                                                          *)

(* A finite set of numbers with 0 has one whose successor it has not.          *)
LEMMA EndsSomewhere ==
    ASSUME NEW D, IsFiniteSet(D), D \subseteq Nat, 0 \in D
    PROVE  \E n \in D : n + 1 \notin D
<1> SUFFICES ASSUME \A n \in D : n + 1 \in D PROVE FALSE
    OBVIOUS
<1> DEFINE next == [n \in D |-> n + 1]
<1>1. next \in Injection(D, D)
  BY DEF Injection, IsInjective
<1>2. next \in Surjection(D, D)
  BY <1>1, FS_Injection
<1>3. PICK n \in D : next[n] = 0
  BY <1>2 DEF Surjection
<1>4. QED
  BY <1>3

LEMMA LeastExists ==
    ASSUME NEW n \in Nat, NEW S, S \subseteq 0..n, S # {}
    PROVE  Min(S) \in S /\ \A x \in S : Min(S) <= x
<1> DEFINE D == {k \in 0..n : \A x \in S : k <= x}
<1>1. IsFiniteSet(D)
  <2>1. IsFiniteSet(0..n)
    BY FS_Interval
  <2>2. D \subseteq 0..n
    OBVIOUS
  <2>3. QED
    BY <2>1, <2>2, FS_Subset
<1>2. D \subseteq Nat /\ 0 \in D
  OBVIOUS
<1>3. PICK k \in D : k + 1 \notin D
  BY <1>1, <1>2, EndsSomewhere
<1>4. k \in 0..n /\ \A x \in S : k <= x
  OBVIOUS
<1>5. k \in S
  <2>1. SUFFICES ASSUME k \notin S PROVE FALSE
    OBVIOUS
  <2>2. \A x \in S : k + 1 <= x
    BY <1>4, <2>1
  <2>3. PICK x \in S : x \in 0..n
    OBVIOUS
  <2>4. k + 1 \in 0..n
    BY <1>4, <2>2, <2>3
  <2>5. QED
    BY <1>3, <2>2, <2>4
<1>6. QED
  BY <1>4, <1>5 DEF Min

LEMMA OldestBaseExists ==
    ASSUME TypeOK, NEW start \in Nat, Bases(start) # {}
    PROVE  /\ OldestBase(start) \in 0..now
           /\ \E b \in Bases(start) : OldestBase(start) = backups[b].ts
           /\ \A b \in Bases(start) : OldestBase(start) <= backups[b].ts
<1> DEFINE S == {backups[b].ts : b \in Bases(start)}
<1>1. S \subseteq 0..now /\ S # {} /\ now \in Nat
  <2>1. \A b \in Bases(start) : backups[b].ts \in 0..now
    BY DEF TypeOK, Bases
  <2>2. QED
    BY <2>1, ClockAssumption DEF TypeOK, Times
<1>2. Min(S) \in S /\ \A x \in S : Min(S) <= x
  BY <1>1, LeastExists
<1>3. QED
  BY <1>1, <1>2 DEF OldestBase

-----------------------------------------------------------------------------
(* Types.                                                                    *)

RestoreType ==
    [status : {"none", "pending", "failed"}, date : Seconds \cup {Latest},
     promise : {"none", "edge", "inside"}, upto : 0..now, valid : BOOLEAN, read : Reads,
     pick : Picks, br : Picks, shown : BOOLEAN]

LEMMA Clock == TypeOK => now \in Nat /\ Seconds \subseteq Nat /\ Latest \notin Nat
BY ClockAssumption DEF TypeOK, Times, Seconds, Latest

(* One Restore changes and nothing else.                                      *)
Others == UNCHANGED <<now, log, backups, window, reading>>

LEMMA OneRestore ==
    ASSUME TypeOK, Others, NEW r \in Restores, NEW new \in RestoreType,
           restores' = [restores EXCEPT ![r] = new]
    PROVE  /\ TypeOK' /\ restores'[r] = new
           /\ \A s \in Restores : s # r => restores'[s] = restores[s]
BY DEF TypeOK, Others, RestoreType, Reads, Picks

LEMMA TypeOfRestore == TypeOK => \A r \in Restores : restores[r] \in RestoreType
BY DEF TypeOK, RestoreType

LEMMA LogTypes ==
    TypeOK /\ (StartLog \/ AdvanceLog \/ (\E b \in Backups : StartBackup(b) \/ EndBackup(b))) => TypeOK'
<1> SUFFICES ASSUME TypeOK, StartLog \/ AdvanceLog \/ (\E b \in Backups : StartBackup(b) \/ EndBackup(b))
             PROVE  TypeOK'
    OBVIOUS
<1>0. now \in Nat
  BY Clock
<1>1. CASE StartLog
  BY <1>0, <1>1 DEF TypeOK, StartLog, Reads, Picks
<1>2. CASE AdvanceLog
  <2>1. PICK t \in (log.checkpoint + 1)..now : log' = [log EXCEPT !.checkpoint = t]
    BY <1>2 DEF AdvanceLog
  <2>2. log.checkpoint \in Nat /\ log.start <= log.checkpoint /\ t \in 0..now
    BY <1>0, <2>1 DEF TypeOK
  <2>3. UNCHANGED <<now, backups, window, reading, restores>>
    BY <1>2 DEF AdvanceLog
  <2>4. log' \in [running : BOOLEAN, start : 0..now, checkpoint : 0..now] /\ log'.start <= log'.checkpoint
    BY <1>0, <2>1, <2>2 DEF TypeOK
  <2>5. QED
    BY <2>3, <2>4 DEF TypeOK, Reads, Picks
<1>3. ASSUME NEW b \in Backups, StartBackup(b) \/ EndBackup(b) PROVE TypeOK'
  <2>1. UNCHANGED <<now, log, window, reading, restores>>
    BY <1>3 DEF StartBackup, EndBackup
  <2>2. \E new \in [state : {"none", "running", "complete", "gone"}, ts : 0..now] :
           backups' = [backups EXCEPT ![b] = new]
    BY <1>0, <1>3 DEF StartBackup, EndBackup, Backup, TypeOK
  <2>3. QED
    BY <2>1, <2>2 DEF TypeOK, Reads, Picks
<1>4. QED
  BY <1>1, <1>2, <1>3

LEMMA TickTypes == TypeOK /\ Tick => TypeOK'
<1> SUFFICES ASSUME TypeOK, Tick PROVE TypeOK'
    OBVIOUS
<1>1. now' \in Times /\ 0..now \subseteq 0..now' /\ UNCHANGED <<log, backups, window, reading, restores>>
  BY ClockAssumption DEF TypeOK, Tick, Times
<1>2. Reads \subseteq Reads' /\ Picks \subseteq Picks'
  BY <1>1 DEF Reads, Picks
<1>3. QED
  BY <1>1, <1>2 DEF TypeOK

LEMMA WindowTypes == TypeOK /\ (OpenWindow \/ PublishWindow) => TypeOK'
<1> SUFFICES ASSUME TypeOK, OpenWindow \/ PublishWindow PROVE TypeOK'
    OBVIOUS
<1> DEFINE new == [open |-> TRUE, from |-> Second(OldestBase(reading.start)),
                   to |-> Second(reading.checkpoint)]
<1>0. now \in Nat /\ NoWindow \in [open : BOOLEAN, from : 0..now, to : 0..now] /\ NoRead \in Reads
      /\ NoWindow.from <= NoWindow.to
  BY Clock DEF NoWindow, NoRead, Reads
<1>1. UNCHANGED <<now, log, backups, restores>>
  BY DEF OpenWindow, PublishWindow
<1>2. reading' \in Reads
  <2>1. Read(log) \in Reads
    BY <1>0 DEF TypeOK, Read, Reads
  <2>2. reading' \in {reading, Read(log), NoRead}
    BY DEF OpenWindow, PublishWindow
  <2>3. QED
    BY <1>0, <2>1, <2>2 DEF TypeOK
<1>3. window' \in {window, NoWindow} \/
      (ReachesBase(reading.start, reading.checkpoint) /\ window' = new)
  BY DEF OpenWindow, PublishWindow
<1>4. ASSUME ReachesBase(reading.start, reading.checkpoint)
      PROVE  new \in [open : BOOLEAN, from : 0..now, to : 0..now] /\ new.from <= new.to
  <2>1. reading.start \in Nat /\ reading.checkpoint \in 0..now
    BY <1>0 DEF TypeOK, Reads
  <2>2. OldestBase(reading.start) \in 0..now /\ OldestBase(reading.start) <= reading.checkpoint
    BY <1>4, <2>1, OldestBaseExists DEF ReachesBase
  <2>3. Second(OldestBase(reading.start)) \in 0..now /\ Second(reading.checkpoint) \in 0..now
    BY <1>0, <2>1, <2>2, SecondIsEarlier
  <2>4. Second(OldestBase(reading.start)) <= Second(reading.checkpoint)
    BY <1>0, <2>1, <2>2, SecondsKeepOrder
  <2>5. QED
    BY <2>3, <2>4
<1> HIDE DEF new
<1>5. window' \in [open : BOOLEAN, from : 0..now, to : 0..now] /\ window'.from <= window'.to
  BY <1>0, <1>3, <1>4 DEF TypeOK
<1>6. QED
  BY <1>1, <1>2, <1>5 DEF TypeOK, Reads, Picks

LEMMA DeleteTypes == TypeOK /\ (StopLog \/ \E b \in Backups : RemoveBackup(b)) => TypeOK'
<1> SUFFICES ASSUME TypeOK, StopLog \/ \E b \in Backups : RemoveBackup(b) PROVE TypeOK'
    OBVIOUS
<1>0. /\ NoWindow \in [open : BOOLEAN, from : 0..now, to : 0..now] /\ NoWindow.from <= NoWindow.to
      /\ NoRead \in Reads
      /\ NoLog \in [running : BOOLEAN, start : 0..now, checkpoint : 0..now] /\ NoLog.start <= NoLog.checkpoint
      /\ Backup("gone", 0) \in [state : {"none", "running", "complete", "gone"}, ts : 0..now]
  BY Clock DEF NoWindow, NoRead, Reads, NoLog, Backup
<1>1. Invalidate /\ now' = now
  BY DEF StopLog, RemoveBackup
<1>2. /\ window' \in [open : BOOLEAN, from : 0..now, to : 0..now] /\ window'.from <= window'.to
      /\ reading' \in Reads
  BY <1>0, <1>1 DEF Invalidate
<1>3. restores' \in [Restores -> RestoreType]
  <2>1. 0 \in 0..now
    BY Clock
  <2>2. \A r \in Restores :
          [restores[r] EXCEPT !.promise = "none", !.upto = 0, !.valid = FALSE] \in RestoreType
    BY <2>1, TypeOfRestore DEF RestoreType
  <2>3. QED
    BY <1>1, <2>2 DEF Invalidate
<1>4. /\ log' \in [running : BOOLEAN, start : 0..now, checkpoint : 0..now] /\ log'.start <= log'.checkpoint
      /\ backups' \in [Backups -> [state : {"none", "running", "complete", "gone"}, ts : 0..now]]
  BY <1>0 DEF StopLog, RemoveBackup, TypeOK
<1>5. QED
  BY <1>1, <1>2, <1>3, <1>4 DEF TypeOK, RestoreType, Reads, Picks

-----------------------------------------------------------------------------
(* The invariant.                                                            *)

Base(b) == log.running /\ backups[b].state = "complete" /\ backups[b].ts >= log.start

(* A log as it was read, and which only went on since.                          *)
Fresh(l) == log.running /\ l.start = log.start /\ l.checkpoint <= log.checkpoint

Covered(p) ==
    p.base \in Backups /\ Base(p.base) /\ backups[p.base].ts <= p.target /\ p.target <= log.checkpoint

(* The window goes from a base to a checkpoint, and what is being published     *)
(* next is not older.                                                        *)
WindowInv ==
    window.open =>
        /\ log.running
        /\ \E b \in Backups, c \in 0..log.checkpoint :
             /\ Base(b) /\ backups[b].ts <= c
             /\ window.from = Second(backups[b].ts) /\ window.to = Second(c)
             /\ reading.on => c <= reading.checkpoint

ReadingInv == reading.on => Fresh(reading)

(* A restore of a date inside the window has a base, and reads the log that     *)
(* the window was of.                                                        *)
RestoreInv(x) ==
    /\ x.valid => /\ x.read.on => Fresh(x.read)
                  /\ x.pick # NoPick => Covered(x.pick)
                  /\ x.br # NoPick => Covered(x.br)
    /\ x.promise = "inside" => /\ x.read.on => Fresh(x.read)
                               /\ \E b \in Backups : Base(b) /\ backups[b].ts < x.date
    /\ x.status = "none" => x.promise = "none" /\ ~x.read.on
    /\ x.status = "failed" => x.promise # "inside"

RestoresInv == \A r \in Restores : RestoreInv(restores[r])

PITRInv == TypeOK /\ WindowInv /\ ReadingInv /\ RestoresInv

LEMMA PITRInvInit == Init => PITRInv
<1> SUFFICES ASSUME Init PROVE PITRInv
    OBVIOUS
<1>1. 0 \in 0..now /\ now \in Times /\ -1 \in Seconds \cup {Latest}
  BY ClockAssumption DEF Init, Times, Latest
<1>2. /\ NoLog \in [running : BOOLEAN, start : 0..now, checkpoint : 0..now] /\ NoLog.start <= NoLog.checkpoint
      /\ NoWindow \in [open : BOOLEAN, from : 0..now, to : 0..now] /\ NoWindow.from <= NoWindow.to
      /\ NoRead \in Reads /\ NoPick \in Picks
      /\ Backup("none", 0) \in [state : {"none", "running", "complete", "gone"}, ts : 0..now]
  BY <1>1 DEF NoLog, NoWindow, NoRead, Reads, NoPick, Picks, Backup
<1>3. NoRestore \in RestoreType /\ NoRestore.status = "none" /\ NoRestore.promise = "none"
      /\ ~NoRestore.valid /\ ~NoRestore.read.on
  BY <1>1, <1>2 DEF NoRestore, RestoreType, NoRead
<1>4. TypeOK
  BY <1>1, <1>2, <1>3 DEF Init, TypeOK, RestoreType
<1>5. WindowInv /\ ReadingInv
  BY DEF Init, WindowInv, ReadingInv, NoWindow, NoRead
<1>6. RestoresInv
  BY <1>3 DEF Init, RestoresInv, RestoreInv
<1>7. QED
  BY <1>4, <1>5, <1>6 DEF PITRInv

-----------------------------------------------------------------------------
(* Nothing is deleted.                                                       *)

LogGoesOn ==
    /\ log.running => log'.running /\ log'.start = log.start /\ log'.checkpoint >= log.checkpoint
    /\ \A b \in Backups : backups[b].state = "complete" => backups'[b] = backups[b]

LEMMA GrowthKeeps ==
    ASSUME PITRInv, TypeOK', LogGoesOn, UNCHANGED restores
    PROVE  RestoresInv'
<1>1. /\ log.checkpoint \in Nat /\ log'.checkpoint \in Nat
      /\ \A b \in Backups : backups[b].ts \in Nat
      /\ \A r \in Restores : restores[r] \in RestoreType /\ restores[r].read.checkpoint \in Nat
                             /\ restores[r].pick.target \in Nat /\ restores[r].br.target \in Nat
  BY Clock, TypeOfRestore DEF PITRInv, TypeOK, RestoreType, Reads, Picks
<1>2. log.running => log'.running /\ log'.start = log.start /\ log'.checkpoint >= log.checkpoint
  BY DEF LogGoesOn
<1>3. \A b \in Backups : Base(b) => backups'[b] = backups[b] /\ Base(b)'
  BY <1>2 DEF LogGoesOn, Base
<1>4. SUFFICES ASSUME NEW r \in Restores PROVE RestoreInv(restores[r])'
  BY DEF RestoresInv
<1>5. restores'[r] = restores[r] /\ RestoreInv(restores[r])
  BY DEF PITRInv, RestoresInv
<1>6. /\ Fresh(restores[r].read) => Fresh(restores[r].read)'
      /\ Covered(restores[r].pick) => Covered(restores[r].pick)'
      /\ Covered(restores[r].br) => Covered(restores[r].br)'
  <2>1. Fresh(restores[r].read) => Fresh(restores[r].read)'
    BY <1>1, <1>2, <1>5 DEF Fresh
  <2>2. Covered(restores[r].pick) => Covered(restores[r].pick)'
    BY <1>1, <1>2, <1>3, <1>5 DEF Covered, Base
  <2>3. Covered(restores[r].br) => Covered(restores[r].br)'
    BY <1>1, <1>2, <1>3, <1>5 DEF Covered, Base
  <2>4. QED
    BY <2>1, <2>2, <2>3
<1>7. (\E b \in Backups : Base(b) /\ backups[b].ts < restores[r].date) =>
          (\E b \in Backups : Base(b) /\ backups[b].ts < restores[r].date)'
  BY <1>3, <1>5
<1>8. QED
  BY <1>5, <1>6, <1>7 DEF RestoreInv

LEMMA LogOnlyGrows ==
    TypeOK /\ (Tick \/ StartLog \/ AdvanceLog \/ (\E b \in Backups : StartBackup(b) \/ EndBackup(b)))
        => LogGoesOn
<1>1. TypeOK /\ (Tick \/ StartLog) => LogGoesOn
  BY DEF LogGoesOn, Tick, StartLog, TypeOK
<1>2. TypeOK /\ AdvanceLog => LogGoesOn
  BY Clock DEF LogGoesOn, AdvanceLog, TypeOK
<1>3. TypeOK /\ (\E b \in Backups : StartBackup(b) \/ EndBackup(b)) => LogGoesOn
  BY DEF LogGoesOn, StartBackup, EndBackup, TypeOK
<1>4. QED
  BY <1>1, <1>2, <1>3

LEMMA LogKeeps ==
    PITRInv /\ (Tick \/ StartLog \/ AdvanceLog \/ (\E b \in Backups : StartBackup(b) \/ EndBackup(b)))
        => PITRInv'
<1> SUFFICES ASSUME PITRInv,
                    Tick \/ StartLog \/ AdvanceLog \/ (\E b \in Backups : StartBackup(b) \/ EndBackup(b))
             PROVE  PITRInv'
    OBVIOUS
<1>1. TypeOK /\ TypeOK'
  BY LogTypes, TickTypes DEF PITRInv
<1>2. UNCHANGED <<window, reading, restores>>
  BY DEF Tick, StartLog, AdvanceLog, StartBackup, EndBackup
<1>3. LogGoesOn
  BY <1>1, LogOnlyGrows
<1>4. log.checkpoint \in Nat /\ log'.checkpoint \in Nat /\ reading.checkpoint \in Nat
  BY <1>1, Clock DEF TypeOK, Reads
<1>5. RestoresInv'
  BY <1>1, <1>2, <1>3, GrowthKeeps
<1>6. ReadingInv'
  BY <1>2, <1>3, <1>4 DEF PITRInv, ReadingInv, LogGoesOn, Fresh
<1>7. WindowInv'
  <2> SUFFICES ASSUME window.open PROVE WindowInv'
      BY <1>2 DEF WindowInv
  <2>1. PICK b \in Backups, c \in 0..log.checkpoint :
          /\ Base(b) /\ backups[b].ts <= c
          /\ window.from = Second(backups[b].ts) /\ window.to = Second(c)
          /\ reading.on => c <= reading.checkpoint
    BY DEF PITRInv, WindowInv
  <2>2. log'.running /\ c \in 0..log'.checkpoint /\ backups'[b] = backups[b] /\ Base(b)'
    BY <1>3, <1>4, <2>1 DEF LogGoesOn, Base
  <2>3. QED
    BY <1>2, <2>1, <2>2 DEF WindowInv
<1>8. QED
  BY <1>1, <1>5, <1>6, <1>7 DEF PITRInv

LEMMA OpenWindowKeeps == PITRInv /\ OpenWindow => PITRInv'
<1> SUFFICES ASSUME PITRInv, OpenWindow PROVE PITRInv'
    OBVIOUS
<1>1. TypeOK /\ TypeOK' /\ UNCHANGED <<now, log, backups, restores>>
  BY WindowTypes DEF PITRInv, OpenWindow
<1>2. RestoresInv'
  BY <1>1, GrowthKeeps DEF LogGoesOn, TypeOK, PITRInv
<1>3. log.checkpoint \in Nat
  BY <1>1, Clock DEF TypeOK
<1>4. CASE Streams
  <2>1. /\ reading' = Read(log) /\ window' = window /\ log.running
        /\ reading'.start = log.start /\ reading'.checkpoint = log.checkpoint
    BY <1>4 DEF OpenWindow, Read, Streams
  <2>2. ReadingInv'
    BY <1>1, <1>3, <2>1 DEF ReadingInv, Fresh
  <2>3. WindowInv'
    BY <1>1, <1>3, <2>1 DEF PITRInv, WindowInv, Base
  <2>4. QED
    BY <1>1, <1>2, <2>2, <2>3 DEF PITRInv
<1>5. CASE ~Streams
  BY <1>1, <1>2, <1>5 DEF OpenWindow, NoWindow, PITRInv, WindowInv, ReadingInv, Fresh
<1>6. QED
  BY <1>4, <1>5

(* What is published goes from a base to the checkpoint that was read.         *)
LEMMA PublishedWindow ==
    ASSUME PITRInv, PublishWindow, ReachesBase(reading.start, reading.checkpoint)
    PROVE  /\ log.running /\ reading.start = log.start /\ reading.checkpoint \in 0..log.checkpoint
           /\ \E b \in Backups :
                /\ Base(b) /\ backups[b].ts <= reading.checkpoint
                /\ \A a \in Backups : Base(a) => backups[b].ts <= backups[a].ts
                /\ window'.from = Second(backups[b].ts) /\ window'.to = Second(reading.checkpoint)
                /\ window'.open
<1>1. TypeOK /\ Fresh(reading) /\ reading.start \in Nat /\ reading.checkpoint \in Nat
  BY Clock DEF PITRInv, PublishWindow, ReadingInv, TypeOK, Reads
<1>2. log.running /\ reading.start = log.start /\ reading.checkpoint \in 0..log.checkpoint
  BY <1>1 DEF Fresh, TypeOK
<1>3. \A a \in Backups : a \in Bases(reading.start) <=> Base(a)
  BY <1>2 DEF Bases, Base
<1>4. Bases(reading.start) \subseteq Backups
  BY DEF Bases
<1>5. PICK b \in Bases(reading.start) : OldestBase(reading.start) = backups[b].ts
  BY <1>1, OldestBaseExists DEF ReachesBase
<1>6. /\ backups[b].ts <= reading.checkpoint
      /\ \A a \in Bases(reading.start) : backups[b].ts <= backups[a].ts
  BY <1>1, <1>5, OldestBaseExists DEF ReachesBase
<1>7. window' = [open |-> TRUE, from |-> Second(backups[b].ts), to |-> Second(reading.checkpoint)]
  BY <1>5 DEF PublishWindow
<1>8. QED
  BY <1>2, <1>3, <1>4, <1>5, <1>6, <1>7

LEMMA PublishWindowKeeps == PITRInv /\ PublishWindow => PITRInv'
<1> SUFFICES ASSUME PITRInv, PublishWindow PROVE PITRInv'
    OBVIOUS
<1>1. TypeOK /\ TypeOK' /\ UNCHANGED <<now, log, backups, restores>> /\ ~reading'.on
  BY WindowTypes DEF PITRInv, PublishWindow, NoRead
<1>2. RestoresInv' /\ ReadingInv'
  BY <1>1, GrowthKeeps DEF LogGoesOn, TypeOK, PITRInv, ReadingInv
<1>3. CASE ReachesBase(reading.start, reading.checkpoint)
  BY <1>1, <1>2, <1>3, PublishedWindow DEF PITRInv, WindowInv, Base
<1>4. CASE ~ReachesBase(reading.start, reading.checkpoint)
  BY <1>1, <1>2, <1>4 DEF PITRInv, PublishWindow, NoWindow, WindowInv
<1>5. QED
  BY <1>3, <1>4

-----------------------------------------------------------------------------
(* Something is deleted: nothing is promised any more.                        *)
LEMMA DeleteKeeps == PITRInv /\ (StopLog \/ \E b \in Backups : RemoveBackup(b)) => PITRInv'
<1> SUFFICES ASSUME PITRInv, StopLog \/ \E b \in Backups : RemoveBackup(b) PROVE PITRInv'
    OBVIOUS
<1>1. TypeOK /\ TypeOK' /\ Invalidate
  BY DeleteTypes DEF PITRInv, StopLog, RemoveBackup
<1>2. WindowInv' /\ ReadingInv'
  BY <1>1 DEF Invalidate, WindowInv, ReadingInv, NoWindow, NoRead
<1>3. \A r \in Restores :
        /\ restores'[r].promise = "none" /\ ~restores'[r].valid
        /\ restores'[r].status = restores[r].status /\ restores'[r].read = restores[r].read
  BY <1>1, TypeOfRestore DEF Invalidate, RestoreType
<1>4. RestoresInv'
  BY <1>3 DEF PITRInv, RestoresInv, RestoreInv
<1>5. QED
  BY <1>1, <1>2, <1>4 DEF PITRInv

-----------------------------------------------------------------------------
(* The restores.                                                             *)

(* A step of one Restore only has to keep what is said of it.                   *)
LEMMA RestoreStep ==
    ASSUME PITRInv, Others, NEW r \in Restores, NEW new \in RestoreType, RestoreInv(new),
           restores' = [restores EXCEPT ![r] = new]
    PROVE  PITRInv'
<1>1. /\ TypeOK' /\ restores'[r] = new
      /\ \A s \in Restores : s # r => restores'[s] = restores[s]
  BY OneRestore DEF PITRInv
<1>2. WindowInv' /\ ReadingInv'
  BY DEF PITRInv, Others, WindowInv, ReadingInv, Base, Fresh
<1>3. ASSUME NEW s \in Restores PROVE RestoreInv(restores[s])'
  <2>1. RestoreInv(restores'[s])
    BY <1>1 DEF PITRInv, RestoresInv
  <2>2. QED
    BY <2>1 DEF RestoreInv, Fresh, Covered, Base, Others
<1>4. QED
  BY <1>1, <1>2, <1>3 DEF PITRInv, RestoresInv

LEMMA RequestKeeps ==
    \A r \in Restores, d \in Seconds \cup {Latest} : PITRInv /\ RequestRestore(r, d) => PITRInv'
<1> SUFFICES ASSUME NEW r \in Restores, NEW d \in Seconds \cup {Latest}, PITRInv, RequestRestore(r, d)
             PROVE  PITRInv'
    OBVIOUS
<1> DEFINE new == [restores[r] EXCEPT !.status = "pending", !.date = d, !.promise = Promise(d),
                                      !.upto = PromisedEnd(d)]
<1>0. PromisedEnd(d) \in 0..now
  BY Clock DEF PromisedEnd, PITRInv, TypeOK
<1>1. /\ TypeOK /\ Others /\ RestoreInv(restores[r]) /\ restores[r] \in RestoreType
      /\ restores[r].status = "none" /\ restores' = [restores EXCEPT ![r] = new]
  BY TypeOfRestore DEF PITRInv, RestoresInv, RequestRestore, Others, TypeOK
<1>2. /\ new.status = "pending" /\ new.date = d /\ new.promise = Promise(d) /\ new \in RestoreType
      /\ new.read = restores[r].read /\ new.pick = restores[r].pick /\ new.br = restores[r].br
      /\ new.valid = restores[r].valid
  BY <1>0, <1>1 DEF RestoreType, Promise
<1> HIDE DEF new
<1>3. ASSUME Promise(d) = "inside" PROVE \E b \in Backups : Base(b) /\ backups[b].ts < d
  <2>1. window.open /\ d \in window.from..window.to /\ d # window.from
    BY <1>3 DEF Promise
  <2>2. PICK b \in Backups : Base(b) /\ window.from = Second(backups[b].ts)
    BY <2>1 DEF PITRInv, WindowInv
  <2>3. backups[b].ts \in Nat /\ window.from \in Nat /\ window.to \in Nat
    BY <1>1, Clock DEF TypeOK
  <2>4. d \in Nat /\ window.from < d
    BY <2>1, <2>3
  <2>5. d % TicksPerSecond = 0
    BY <2>4, Clock, <1>1 DEF Seconds
  <2>6. QED
    BY <2>2, <2>3, <2>4, <2>5, LaterSecond
<1>4. RestoreInv(new)
  BY <1>1, <1>2, <1>3 DEF RestoreInv
<1>5. QED
  BY <1>1, <1>2, <1>4, RestoreStep

LEMMA OpenStreamKeeps == \A r \in Restores : PITRInv /\ OpenStream(r) => PITRInv'
<1> SUFFICES ASSUME NEW r \in Restores, PITRInv, OpenStream(r) PROVE PITRInv'
    OBVIOUS
<1> DEFINE new == [restores[r] EXCEPT !.read = Read(log),
                                      !.valid = (restores[r].br = NoPick \/ restores[r].valid)]
<1>1. /\ TypeOK /\ Others /\ RestoreInv(restores[r]) /\ restores[r] \in RestoreType
      /\ restores[r].status = "pending" /\ restores[r].pick = NoPick /\ log.running
      /\ restores' = [restores EXCEPT ![r] = new]
  BY TypeOfRestore DEF PITRInv, RestoresInv, OpenStream, Starting, Streams, Others, TypeOK
<1>2. Read(log) \in Reads /\ Fresh(Read(log))
  BY <1>1, Clock DEF Read, Reads, Fresh, TypeOK
<1>3. /\ new.status = "pending" /\ new.date = restores[r].date /\ new.promise = restores[r].promise
      /\ new.read = Read(log) /\ new.pick = NoPick /\ new.br = restores[r].br
      /\ new.valid <=> (restores[r].br = NoPick \/ restores[r].valid)
  BY <1>1 DEF RestoreType
<1>4. new \in RestoreType
  <2>1. (restores[r].br = NoPick \/ restores[r].valid) \in BOOLEAN
    OBVIOUS
  <2>2. QED
    BY <1>1, <1>2, <2>1 DEF RestoreType
<1> HIDE DEF new
<1>5. RestoreInv(new)
  BY <1>1, <1>2, <1>3 DEF RestoreInv
<1>6. QED
  BY <1>1, <1>4, <1>5, RestoreStep

(* The point is one the log that was read has reached.                         *)
LEMMA TargetReached ==
    ASSUME TypeOK, NEW r \in Restores, ReachedTarget(r)
    PROVE  Target(r) \in 0..now /\ Target(r) <= restores[r].read.checkpoint
<1>1. restores[r].read.checkpoint \in 0..now /\ now \in Nat /\ restores[r].date \in Nat \cup {Latest}
  BY Clock, TypeOfRestore DEF RestoreType, Reads
<1>2. QED
  BY <1>1 DEF Target, ReachedTarget

(* A pass finds a base for a date that was promised.                           *)
LEMMA PromisedHasCandidate ==
    ASSUME TypeOK, NEW r \in Restores, RestoreInv(restores[r]), restores[r].read.on,
           restores[r].promise = "inside", restores[r].date # Latest
    PROVE  Candidates(r) # {}
<1>1. Fresh(restores[r].read)
  BY DEF RestoreInv
<1>2. PICK b \in Backups : Base(b) /\ backups[b].ts < restores[r].date
  BY DEF RestoreInv
<1>3. backups[b].ts \in Nat /\ restores[r].date \in Nat
  BY Clock, TypeOfRestore DEF TypeOK, RestoreType
<1>4. b \in Candidates(r)
  BY <1>1, <1>2, <1>3 DEF Candidates, Bases, Base, Fresh, Target
<1>5. QED
  BY <1>4

LEMMA PickBaseKeeps == \A r \in Restores : PITRInv /\ PickBase(r) => PITRInv'
<1> SUFFICES ASSUME NEW r \in Restores, PITRInv, PickBase(r) PROVE PITRInv'
    OBVIOUS
<1> DEFINE old == restores[r]
           waits == [old EXCEPT !.read = NoRead]
           fails == [old EXCEPT !.read = NoRead, !.status = "failed"]
           picks(b) == [old EXCEPT !.read = NoRead, !.pick = [base |-> b, target |-> Target(r)]]
<1>1. /\ TypeOK /\ Others /\ RestoreInv(old) /\ old \in RestoreType /\ old.status = "pending" /\ old.read.on
      /\ NoRead \in Reads /\ ~NoRead.on
  BY TypeOfRestore, Clock DEF PITRInv, RestoresInv, PickBase, Starting, Others, NoRead, Reads
<1>2. \/ restores' = [restores EXCEPT ![r] = waits]
      \/ /\ Candidates(r) = {} /\ old.date # Latest
         /\ restores' = [restores EXCEPT ![r] = fails]
      \/ /\ ReachedTarget(r)
         /\ \E b \in Candidates(r) : restores' = [restores EXCEPT ![r] = picks(b)]
  BY <1>1 DEF PickBase, TypeOK
<1>3. CASE restores' = [restores EXCEPT ![r] = waits]
  <2>1. /\ waits \in RestoreType /\ ~waits.read.on
        /\ waits.status = old.status /\ waits.date = old.date /\ waits.promise = old.promise
        /\ waits.pick = old.pick /\ waits.br = old.br /\ waits.valid = old.valid
    BY <1>1 DEF RestoreType
  <2> HIDE DEF waits
  <2>2. RestoreInv(waits)
    BY <1>1, <2>1 DEF RestoreInv
  <2>3. QED
    BY <1>1, <1>3, <2>1, <2>2, RestoreStep
<1>4. CASE Candidates(r) = {} /\ old.date # Latest /\ restores' = [restores EXCEPT ![r] = fails]
  <2>1. old.promise # "inside"
    BY <1>1, <1>4, PromisedHasCandidate
  <2>2. /\ fails \in RestoreType /\ ~fails.read.on
        /\ fails.status = "failed" /\ fails.date = old.date /\ fails.promise = old.promise
        /\ fails.pick = old.pick /\ fails.br = old.br /\ fails.valid = old.valid
    BY <1>1 DEF RestoreType
  <2> HIDE DEF fails
  <2>3. RestoreInv(fails)
    BY <1>1, <2>1, <2>2 DEF RestoreInv
  <2>4. QED
    BY <1>1, <1>4, <2>2, <2>3, RestoreStep
<1>5. ASSUME ReachedTarget(r), NEW b \in Candidates(r), restores' = [restores EXCEPT ![r] = picks(b)]
      PROVE  PITRInv'
  <2> DEFINE p == [base |-> b, target |-> Target(r)]
             new == picks(b)
  <2>0. old.read.checkpoint \in Nat
    BY <1>1, Clock DEF RestoreType, Reads
  <2>1. /\ b \in Backups /\ backups[b].state = "complete" /\ backups[b].ts >= old.read.start
        /\ backups[b].ts <= Target(r)
    BY DEF Candidates, Bases
  <2>2. Target(r) \in 0..now /\ Target(r) <= old.read.checkpoint
    BY <1>1, <1>5, <2>0, TargetReached
  <2>3. p \in Picks /\ p.base = b /\ p.target = Target(r)
    BY <2>1, <2>2 DEF Picks
  <2> HIDE DEF p
  <2>4. /\ new \in RestoreType /\ ~new.read.on /\ new.pick = p
        /\ new.status = old.status /\ new.date = old.date /\ new.promise = old.promise
        /\ new.br = old.br /\ new.valid = old.valid
    BY <1>1, <2>3 DEF RestoreType, p
  <2> HIDE DEF new
  <2>5. Fresh(old.read) => Covered(p)
    <3>1. log.checkpoint \in Nat
      BY <1>1, Clock DEF TypeOK
    <3>2. QED
      BY <1>1, <2>0, <2>1, <2>2, <2>3, <3>1 DEF Covered, Fresh, Base
  <2>6. RestoreInv(new)
    BY <1>1, <2>4, <2>5 DEF RestoreInv
  <2>7. restores' = [restores EXCEPT ![r] = new]
    BY <1>5 DEF new
  <2>8. QED
    BY <1>1, <2>4, <2>6, <2>7, RestoreStep
<1>6. QED
  BY <1>2, <1>3, <1>4, <1>5

LEMMA PassKeeps ==
    \A r \in Restores : PITRInv /\ (CreateBRRestore(r) \/ AbortPass(r) \/ FindBRRestore(r)) => PITRInv'
<1> SUFFICES ASSUME NEW r \in Restores, PITRInv, CreateBRRestore(r) \/ AbortPass(r) \/ FindBRRestore(r)
             PROVE  PITRInv'
    OBVIOUS
<1> DEFINE old == restores[r]
           created == [old EXCEPT !.br = CreatedBRRestore(r), !.pick = NoPick]
           aborted == [old EXCEPT !.read = NoRead, !.pick = NoPick]
           found == [old EXCEPT !.shown = TRUE]
<1>1. /\ TypeOK /\ Others /\ RestoreInv(old) /\ old \in RestoreType
      /\ NoRead \in Reads /\ ~NoRead.on /\ NoPick \in Picks
  BY TypeOfRestore, Clock
  DEF PITRInv, RestoresInv, CreateBRRestore, AbortPass, FindBRRestore, Others, NoRead, Reads, NoPick, Picks
<1>2. CASE CreateBRRestore(r)
  <2>1. /\ created \in RestoreType /\ created.pick = NoPick
        /\ created.br = IF old.br = NoPick THEN old.pick ELSE old.br
        /\ created.status = old.status /\ created.date = old.date /\ created.promise = old.promise
        /\ created.valid = old.valid /\ created.read = old.read
    BY <1>1 DEF RestoreType, CreatedBRRestore
  <2>2. restores' = [restores EXCEPT ![r] = created]
    BY <1>1, <1>2 DEF CreateBRRestore, TypeOK
  <2> HIDE DEF created
  <2>3. RestoreInv(created)
    BY <1>1, <2>1 DEF RestoreInv
  <2>4. QED
    BY <1>1, <2>1, <2>2, <2>3, RestoreStep
<1>3. CASE AbortPass(r)
  <2>1. /\ aborted \in RestoreType /\ aborted.pick = NoPick /\ ~aborted.read.on
        /\ aborted.br = old.br /\ aborted.valid = old.valid
        /\ aborted.status = old.status /\ aborted.date = old.date /\ aborted.promise = old.promise
    BY <1>1 DEF RestoreType
  <2>2. restores' = [restores EXCEPT ![r] = aborted]
    BY <1>1, <1>3 DEF AbortPass, TypeOK
  <2> HIDE DEF aborted
  <2>3. RestoreInv(aborted)
    BY <1>1, <2>1 DEF RestoreInv
  <2>4. QED
    BY <1>1, <2>1, <2>2, <2>3, RestoreStep
<1>4. CASE FindBRRestore(r)
  <2>1. /\ found \in RestoreType /\ found.pick = old.pick /\ found.read = old.read
        /\ found.br = old.br /\ found.valid = old.valid
        /\ found.status = old.status /\ found.date = old.date /\ found.promise = old.promise
    BY <1>1 DEF RestoreType
  <2>2. restores' = [restores EXCEPT ![r] = found]
    BY <1>1, <1>4 DEF FindBRRestore, TypeOK
  <2> HIDE DEF found
  <2>3. RestoreInv(found)
    BY <1>1, <2>1 DEF RestoreInv
  <2>4. QED
    BY <1>1, <2>1, <2>2, <2>3, RestoreStep
<1>5. QED
  BY <1>2, <1>3, <1>4

-----------------------------------------------------------------------------
LEMMA PITRInvKept == PITRInv /\ [Next]_vars => PITRInv'
<1>1. PITRInv /\ UNCHANGED vars => PITRInv'
  <2> SUFFICES ASSUME PITRInv, UNCHANGED vars PROVE PITRInv'
      OBVIOUS
  <2>1. TypeOK'
    BY DEF PITRInv, vars, TypeOK, Reads, Picks
  <2>2. RestoresInv'
    BY <2>1, GrowthKeeps DEF LogGoesOn, PITRInv, TypeOK, vars
  <2>3. QED
    BY <2>1, <2>2 DEF PITRInv, vars, WindowInv, ReadingInv, Fresh, Base
<1>2. QED
  BY <1>1, LogKeeps, OpenWindowKeeps, PublishWindowKeeps, DeleteKeeps, RequestKeeps, OpenStreamKeeps,
     PickBaseKeeps, PassKeeps DEF Next

THEOREM PITRInvariant == Spec => []PITRInv
BY PITRInvInit, PITRInvKept, PTL DEF Spec

(* Every variable keeps its type.                                             *)
THEOREM WindowTypeCorrect == Spec => []TypeOK
BY PITRInvariant, PTL DEF PITRInv

(* A date the window promised is not refused.                                 *)
THEOREM PromisesAreKept == Spec => []WindowIsHonoured
<1>1. PITRInv => WindowIsHonoured
  BY DEF PITRInv, RestoresInv, RestoreInv, WindowIsHonoured
<1>2. QED
  BY <1>1, PITRInvariant, PTL

(* BR gets a base and a point that the log covers.                             *)
THEOREM RestoresAreCovered == Spec => []RestoreIsCovered
<1>1. PITRInv => RestoreIsCovered
  <2> SUFFICES ASSUME PITRInv, NEW r \in Restores, restores[r].br # NoPick, restores[r].valid
               PROVE  /\ backups[restores[r].br.base].ts \in log.start..restores[r].br.target
                      /\ restores[r].br.target \in log.start..log.checkpoint
      BY DEF RestoreIsCovered
  <2>1. Covered(restores[r].br)
    BY DEF PITRInv, RestoresInv, RestoreInv
  <2>2. /\ log.start \in Nat /\ log.checkpoint \in Nat /\ restores[r].br.target \in Nat
        /\ \A b \in Backups : backups[b].ts \in Nat
    BY Clock, TypeOfRestore DEF PITRInv, TypeOK, RestoreType, Picks
  <2>3. QED
    BY <2>1, <2>2 DEF Covered, Base
<1>2. QED
  BY <1>1, PITRInvariant, PTL

(* What is published next spans what was published before.                     *)
LEMMA PublishGrows ==
    ASSUME PITRInv, PublishWindow, window.open
    PROVE  /\ ReachesBase(reading.start, reading.checkpoint)
           /\ window'.open /\ window'.from <= window.from /\ window'.to >= window.to
<1>1. PICK b \in Backups, c \in 0..log.checkpoint :
        /\ log.running /\ Base(b) /\ backups[b].ts <= c
        /\ window.from = Second(backups[b].ts) /\ window.to = Second(c)
        /\ reading.on => c <= reading.checkpoint
  BY DEF PITRInv, WindowInv
<1>2. /\ log.checkpoint \in Nat /\ reading.checkpoint \in Nat
      /\ \A a \in Backups : backups[a].ts \in Nat
  BY Clock DEF PITRInv, TypeOK, Reads
<1>3. /\ reading.on /\ Fresh(reading) /\ b \in Bases(reading.start)
      /\ reading.start \in Nat /\ c <= reading.checkpoint
  BY <1>1, Clock DEF PublishWindow, PITRInv, ReadingInv, Fresh, Bases, Base, TypeOK, Reads
<1>4. ReachesBase(reading.start, reading.checkpoint)
  <2>1. OldestBase(reading.start) \in Nat /\ OldestBase(reading.start) <= backups[b].ts
    BY <1>3, OldestBaseExists, Clock DEF PITRInv
  <2>2. QED
    BY <1>1, <1>2, <1>3, <2>1 DEF ReachesBase
<1>5. PICK a \in Backups :
        /\ \A d \in Backups : Base(d) => backups[a].ts <= backups[d].ts
        /\ window'.from = Second(backups[a].ts) /\ window'.to = Second(reading.checkpoint)
        /\ window'.open
  BY <1>4, PublishedWindow
<1>6. Second(backups[a].ts) <= Second(backups[b].ts) /\ Second(c) <= Second(reading.checkpoint)
  BY <1>1, <1>2, <1>3, <1>5, SecondsKeepOrder
<1>7. Second(c) \in Nat /\ Second(reading.checkpoint) \in Nat
  BY <1>1, <1>2, SecondIsEarlier
<1>8. QED
  BY <1>1, <1>4, <1>5, <1>6, <1>7

(* As long as nothing is deleted, the window only grows.                       *)
THEOREM WindowGrows == Spec => WindowOnlyGrows
<1>1. PITRInv /\ [Next]_vars =>
        [window.open /\ UNCHANGED <<log, backups>> =>
            window'.open /\ window'.from <= window.from /\ window'.to >= window.to]_window
  <2> SUFFICES ASSUME PITRInv, [Next]_vars, window.open, UNCHANGED <<log, backups>>, window' # window
               PROVE  window'.open /\ window'.from <= window.from /\ window'.to >= window.to
      OBVIOUS
  <2>1. log.running
    BY DEF PITRInv, WindowInv
  <2>2. ~StopLog /\ \A a \in Backups : ~RemoveBackup(a)
    <3>1. ~StopLog
      BY <2>1 DEF StopLog, NoLog
    <3>2. ASSUME NEW a \in Backups, RemoveBackup(a) PROVE FALSE
      BY <3>2 DEF RemoveBackup, Backup, PITRInv, TypeOK
    <3>3. QED
      BY <3>1, <3>2
  <2>3. PublishWindow
    BY <2>1, <2>2 DEF Next, vars, OpenWindow, Streams, Tick, StartLog, AdvanceLog, StartBackup, EndBackup,
       OpenStream, PickBase, CreateBRRestore, AbortPass, FindBRRestore, RequestRestore
  <2>4. QED
    BY <2>3, PublishGrows
<1>2. QED
  BY <1>1, PITRInvariant, PTL DEF Spec, WindowOnlyGrows

(* A restore's point and base never change.                                   *)
THEOREM PointIsChosenOnce == Spec => ChosenOnce
<1>1. PITRInv /\ [Next]_vars =>
        [\A r \in Restores : restores[r].br # NoPick => restores'[r].br = restores[r].br]_restores
  <2> SUFFICES ASSUME PITRInv, [Next]_vars, NEW r \in Restores, restores[r].br # NoPick
               PROVE  restores'[r].br = restores[r].br
      OBVIOUS
  <2>1. TypeOK
    BY DEF PITRInv
  <2>2. CASE StopLog \/ \E b \in Backups : RemoveBackup(b)
    <3>1. Invalidate
      BY <2>2 DEF StopLog, RemoveBackup
    <3>2. QED
      BY <2>1, <3>1, TypeOfRestore DEF Invalidate, RestoreType
  <2>3. ASSUME NEW s \in Restores,
               \/ OpenStream(s) \/ PickBase(s) \/ CreateBRRestore(s) \/ AbortPass(s) \/ FindBRRestore(s)
               \/ \E d \in Seconds \cup {Latest} : RequestRestore(s, d)
        PROVE  restores'[r].br = restores[r].br
    <3>1. CASE s = r
      <4>1. restores[r] \in RestoreType /\ DOMAIN restores = Restores
        BY <2>1, TypeOfRestore DEF TypeOK
      <4>2. CASE CreateBRRestore(r)
        BY <4>1, <4>2 DEF CreateBRRestore, CreatedBRRestore, RestoreType
      <4>3. CASE PickBase(r)
        <5>1. \E new : restores' = [restores EXCEPT ![r] = new] /\ new.br = restores[r].br
          BY <4>1, <4>3 DEF PickBase, RestoreType
        <5>2. QED
          BY <4>1, <5>1
      <4>4. CASE OpenStream(r) \/ AbortPass(r) \/ FindBRRestore(r)
        BY <4>1, <4>4 DEF OpenStream, AbortPass, FindBRRestore, RestoreType
      <4>5. CASE \E d \in Seconds \cup {Latest} : RequestRestore(r, d)
        BY <4>1, <4>5 DEF RequestRestore, RestoreType
      <4>6. QED
        BY <2>3, <3>1, <4>2, <4>3, <4>4, <4>5
    <3>2. CASE s # r
      BY <2>1, <2>3, <3>2
      DEF OpenStream, PickBase, CreateBRRestore, AbortPass, FindBRRestore, RequestRestore, TypeOK
    <3>3. QED
      BY <3>1, <3>2
  <2>4. QED
    BY <2>2, <2>3 DEF Next, vars, OpenWindow, PublishWindow, Tick, StartLog, AdvanceLog, StartBackup, EndBackup
<1>2. QED
  BY <1>1, PITRInvariant, PTL DEF Spec, ChosenOnce

-----------------------------------------------------------------------------
(* PITRWindow implements RestorablePoints. What a Restore of the latest point   *)
(* owes is behind the log it reads and the point it picks; one of the first      *)
(* second of the window fails because its base is later within that second.     *)

BaseWithin(d) == \E b \in Backups : Base(b) /\ Second(backups[b].ts) = d
BaseAfter(d) == \E b \in Backups : Base(b) /\ Second(backups[b].ts) = d /\ backups[b].ts > d

EdgeInv(x) ==
    x.promise = "edge" =>
        /\ x.date # Latest /\ BaseWithin(x.date)
        /\ x.read.on => Fresh(x.read)
        /\ x.status = "failed" => BaseAfter(x.date)

OwedInv(x) ==
    /\ EdgeInv(x)
    /\ x.status = "none" => x.br = NoPick
    /\ x.read.on => x.status = "pending" /\ x.pick = NoPick
    /\ x.pick # NoPick =>
         /\ x.status = "pending" /\ x.upto <= x.pick.target
         /\ x.date # Latest => x.pick.target = x.date
    /\ x.upto > 0 =>
         /\ x.date = Latest /\ log.running /\ x.upto <= log.checkpoint
         /\ x.read.on => x.upto <= x.read.checkpoint

RestoresOwe == \A r \in Restores : OwedInv(restores[r])

PointsInv == PITRInv /\ RestoresOwe

LEMMA PointsInvInit == Init => PointsInv
<1> SUFFICES ASSUME Init PROVE RestoresOwe
    BY PITRInvInit DEF PointsInv
<1>1. /\ ~NoRestore.read.on /\ NoRestore.pick = NoPick /\ NoRestore.upto = 0
      /\ NoRestore.br = NoPick /\ NoRestore.promise = "none"
  BY DEF NoRestore, NoRead
<1>2. QED
  BY <1>1 DEF Init, RestoresOwe, OwedInv, EdgeInv

(* The log goes on, or what it promised is forgotten.                          *)
LEMMA OthersOwe ==
    ASSUME PointsInv, TypeOK', LogGoesOn, UNCHANGED restores
    PROVE  RestoresOwe'
<1>1. /\ log.checkpoint \in Nat /\ log'.checkpoint \in Nat
      /\ \A r \in Restores : restores[r].upto \in Nat
  BY Clock, TypeOfRestore DEF PointsInv, PITRInv, TypeOK, RestoreType
<1>2. SUFFICES ASSUME NEW r \in Restores PROVE OwedInv(restores[r])'
  BY DEF RestoresOwe
<1>3. restores'[r] = restores[r] /\ OwedInv(restores[r])
  BY DEF PointsInv, RestoresOwe
<1>4. EdgeInv(restores[r])'
  <2>1. \A b \in Backups : Base(b) => backups'[b] = backups[b] /\ Base(b)'
    BY DEF LogGoesOn, Base
  <2>2. \A d : (BaseWithin(d) => BaseWithin(d)') /\ (BaseAfter(d) => BaseAfter(d)')
    BY <2>1 DEF BaseWithin, BaseAfter, Second
  <2>3. restores[r].read.checkpoint \in Nat
    BY Clock, TypeOfRestore DEF PointsInv, PITRInv, RestoreType, Reads
  <2>4. Fresh(restores[r].read) => Fresh(restores[r].read)'
    BY <1>1, <1>3, <2>3 DEF Fresh, LogGoesOn
  <2>5. EdgeInv(restores[r])
    BY <1>3 DEF OwedInv
  <2>6. QED
    BY <1>3, <2>2, <2>4, <2>5 DEF EdgeInv
<1>5. QED
  BY <1>1, <1>3, <1>4 DEF OwedInv, LogGoesOn

LEMMA DeletesOwe == PointsInv /\ (StopLog \/ \E b \in Backups : RemoveBackup(b)) => RestoresOwe'
<1> SUFFICES ASSUME PointsInv, StopLog \/ \E b \in Backups : RemoveBackup(b), NEW r \in Restores
             PROVE  OwedInv(restores[r])'
    BY DEF RestoresOwe
<1> DEFINE new == [restores[r] EXCEPT !.promise = "none", !.upto = 0, !.valid = FALSE]
<1>1. restores'[r] = new
  BY DEF StopLog, RemoveBackup, Invalidate
<1>2. restores[r] \in RestoreType /\ OwedInv(restores[r])
  BY TypeOfRestore DEF PointsInv, PITRInv, RestoresOwe
<1>3. /\ new.upto = 0 /\ new.read = restores[r].read /\ new.pick = restores[r].pick
      /\ new.status = restores[r].status /\ new.date = restores[r].date
      /\ new.br = restores[r].br /\ new.promise = "none"
  BY <1>2 DEF RestoreType
<1>4. restores[r].pick.target \in Nat /\ restores[r].upto \in Nat
  BY <1>2, Clock DEF RestoreType, Picks, PointsInv, PITRInv
<1> HIDE DEF new
<1>5. QED
  BY <1>1, <1>2, <1>3, <1>4 DEF OwedInv, EdgeInv

(* What a user sees of a Restore.                                             *)
Askeds == [r \in Restores |-> Asked(restores[r])]

LEMMA AskedIsRecord ==
    \A x : Asked(x) = [status |-> x.status, date |-> x.date, owed |-> Asked(x).owed, points |-> Asked(x).points]
BY DEF Asked

(* A step of one Restore only.                                               *)
Becomes(r, new) == Others /\ new \in RestoreType /\ restores' = [restores EXCEPT ![r] = new]

LEMMA StepsOwe ==
    ASSUME PointsInv, NEW r \in Restores, NEW new, Becomes(r, new), OwedInv(new)
    PROVE  RestoresOwe'
<1>1. /\ restores'[r] = new /\ log' = log /\ backups' = backups
      /\ \A s \in Restores : s # r => restores'[s] = restores[s]
  BY OneRestore DEF PointsInv, PITRInv, Becomes, Others
<1>2. ASSUME NEW s \in Restores PROVE OwedInv(restores[s])'
  <2>1. OwedInv(restores'[s])
    BY <1>1 DEF PointsInv, RestoresOwe
  <2>2. QED
    BY <1>1, <2>1 DEF OwedInv, EdgeInv, BaseWithin, BaseAfter, Base, Fresh
<1>3. QED
  BY <1>2 DEF RestoresOwe

LEMMA StepsShow ==
    ASSUME PointsInv, NEW r \in Restores, NEW new, Becomes(r, new)
    PROVE  Askeds' = [Askeds EXCEPT ![r] = Asked(new)]
<1>1. /\ restores'[r] = new
      /\ \A s \in Restores : s # r => restores'[s] = restores[s]
  BY OneRestore DEF PointsInv, PITRInv, Becomes
<1>2. \A s \in Restores : Asked(restores[s])' = IF s = r THEN Asked(new) ELSE Asked(restores[s])
  BY <1>1 DEF Asked
<1>3. QED
  BY <1>2 DEF Askeds

(* A pass begins, gives up, or finds what is there: nobody sees it.            *)
LEMMA QuietSteps ==
    ASSUME PointsInv, NEW r \in Restores, OpenStream(r) \/ AbortPass(r) \/ FindBRRestore(r)
    PROVE  \E new : Becomes(r, new) /\ OwedInv(new) /\ Asked(new) = Asked(restores[r])
<1> DEFINE old == restores[r]
           opened == [old EXCEPT !.read = Read(log), !.valid = (old.br = NoPick \/ old.valid)]
           aborted == [old EXCEPT !.read = NoRead, !.pick = NoPick]
           found == [old EXCEPT !.shown = TRUE]
<1>1. /\ TypeOK /\ Others /\ old \in RestoreType /\ OwedInv(old)
      /\ Read(log) \in Reads /\ Read(log).checkpoint = log.checkpoint
      /\ NoRead \in Reads /\ ~NoRead.on /\ NoPick \in Picks
  BY TypeOfRestore, Clock DEF PointsInv, PITRInv, TypeOK, RestoresOwe, OpenStream, AbortPass, FindBRRestore,
     Others, Read, NoRead, Reads, NoPick, Picks
<1>2. CASE OpenStream(r)
  <2>1. /\ opened.status = old.status /\ opened.date = old.date /\ opened.promise = old.promise
        /\ opened.upto = old.upto /\ opened.pick = old.pick /\ opened.br = old.br
        /\ opened.read = Read(log)
    BY <1>1 DEF RestoreType
  <2>2. (old.br = NoPick \/ old.valid) \in BOOLEAN
    OBVIOUS
  <2>3. opened \in RestoreType
    BY <1>1, <2>2 DEF RestoreType
  <2>4. restores' = [restores EXCEPT ![r] = opened]
    BY <1>1, <1>2 DEF OpenStream, TypeOK
  <2>5. old.status = "pending" /\ old.pick = NoPick /\ Fresh(Read(log))
    <3>1. log.checkpoint \in Nat
      BY <1>1, Clock DEF TypeOK
    <3>2. QED
      BY <1>2, <3>1 DEF OpenStream, Starting, Streams, Fresh, Read
  <2> HIDE DEF opened
  <2>6. OwedInv(opened) /\ Asked(opened) = Asked(old)
    BY <1>1, <2>1, <2>5 DEF OwedInv, EdgeInv, Asked
  <2>7. QED
    BY <1>1, <2>3, <2>4, <2>6 DEF Becomes
<1>3. CASE AbortPass(r)
  <2>1. /\ aborted.status = old.status /\ aborted.date = old.date /\ aborted.promise = old.promise
        /\ aborted.upto = old.upto /\ aborted.pick = NoPick /\ aborted.br = old.br
        /\ ~aborted.read.on /\ aborted \in RestoreType
    BY <1>1 DEF RestoreType
  <2>2. restores' = [restores EXCEPT ![r] = aborted]
    BY <1>1, <1>3 DEF AbortPass, TypeOK
  <2> HIDE DEF aborted
  <2>3. OwedInv(aborted) /\ Asked(aborted) = Asked(old)
    BY <1>1, <2>1 DEF OwedInv, EdgeInv, Asked
  <2>4. QED
    BY <1>1, <2>1, <2>2, <2>3 DEF Becomes
<1>4. CASE FindBRRestore(r)
  <2>1. /\ found.status = old.status /\ found.date = old.date /\ found.promise = old.promise
        /\ found.upto = old.upto /\ found.pick = old.pick /\ found.br = old.br
        /\ found.read = old.read /\ found \in RestoreType
    BY <1>1 DEF RestoreType
  <2>2. restores' = [restores EXCEPT ![r] = found]
    BY <1>1, <1>4 DEF FindBRRestore, TypeOK
  <2> HIDE DEF found
  <2>3. OwedInv(found) /\ Asked(found) = Asked(old)
    BY <1>1, <2>1 DEF OwedInv, EdgeInv, Asked
  <2>4. QED
    BY <1>1, <2>1, <2>2, <2>3 DEF Becomes
<1>5. QED
  BY <1>2, <1>3, <1>4

(* A pass decides: it waits or picks, which nobody sees, or it refuses.         *)
LEMMA PickSteps ==
    ASSUME PointsInv, NEW r \in Restores, PickBase(r)
    PROVE  \E new : /\ Becomes(r, new) /\ OwedInv(new)
                    /\ \/ Asked(new) = Asked(restores[r])
                       \/ /\ restores[r].status = "pending" /\ restores[r].date # Latest
                          /\ Asked(restores[r]).owed = {}
                          /\ Asked(new) = [Asked(restores[r]) EXCEPT !.status = "failed"]
<1> DEFINE old == restores[r]
           waits == [old EXCEPT !.read = NoRead]
           fails == [old EXCEPT !.read = NoRead, !.status = "failed"]
           picks(b) == [old EXCEPT !.read = NoRead, !.pick = [base |-> b, target |-> Target(r)]]
<1>1. /\ TypeOK /\ Others /\ old \in RestoreType /\ OwedInv(old) /\ RestoreInv(old)
      /\ old.status = "pending" /\ old.read.on /\ old.pick = NoPick
      /\ NoRead \in Reads /\ ~NoRead.on
  BY TypeOfRestore, Clock DEF PointsInv, PITRInv, RestoresInv, RestoresOwe, PickBase, Starting, Others,
     NoRead, Reads, OwedInv
<1>2. \/ restores' = [restores EXCEPT ![r] = waits]
      \/ /\ Candidates(r) = {} /\ old.date # Latest
         /\ restores' = [restores EXCEPT ![r] = fails]
      \/ /\ ReachedTarget(r)
         /\ \E b \in Candidates(r) : restores' = [restores EXCEPT ![r] = picks(b)]
  BY <1>1 DEF PickBase, TypeOK
<1>3. CASE restores' = [restores EXCEPT ![r] = waits]
  <2>1. /\ waits \in RestoreType /\ ~waits.read.on /\ waits.upto = old.upto
        /\ waits.status = old.status /\ waits.date = old.date /\ waits.promise = old.promise
        /\ waits.pick = old.pick /\ waits.br = old.br
    BY <1>1 DEF RestoreType
  <2> HIDE DEF waits
  <2>2. OwedInv(waits) /\ Asked(waits) = Asked(old)
    BY <1>1, <2>1 DEF OwedInv, EdgeInv, Asked
  <2>3. QED
    BY <1>1, <1>3, <2>1, <2>2 DEF Becomes
<1>4. CASE Candidates(r) = {} /\ old.date # Latest /\ restores' = [restores EXCEPT ![r] = fails]
  <2>1. old.promise # "inside"
    BY <1>1, <1>4, PromisedHasCandidate
  <2>2. /\ fails \in RestoreType /\ ~fails.read.on /\ fails.upto = old.upto
        /\ fails.status = "failed" /\ fails.date = old.date /\ fails.promise = old.promise
        /\ fails.pick = old.pick /\ fails.br = old.br
    BY <1>1 DEF RestoreType
  <2> HIDE DEF fails
  <2>3. old.upto \in Nat /\ ~(old.upto > 0)
    BY <1>1, <1>4, Clock DEF RestoreType, OwedInv
  <2>4. Asked(old).owed = {}
    BY <2>1, <2>3 DEF Asked
  <2>5. EdgeInv(fails)
    <3> SUFFICES ASSUME old.promise = "edge"
                 PROVE  old.date # Latest /\ BaseWithin(old.date) /\ BaseAfter(old.date)
        BY <2>2 DEF EdgeInv
    <3>1. old.date # Latest /\ BaseWithin(old.date) /\ Fresh(old.read)
      BY <1>1 DEF OwedInv, EdgeInv
    <3>2. PICK b \in Backups : Base(b) /\ Second(backups[b].ts) = old.date
      BY <3>1 DEF BaseWithin
    <3>3. backups[b].ts \in Nat /\ old.date \in Nat
      BY <1>1, <1>4, Clock DEF TypeOK, RestoreType
    <3>4. b \notin Candidates(r)
      BY <1>4
    <3>5. ~(backups[b].ts <= old.date)
      BY <1>4, <3>1, <3>2, <3>4 DEF Candidates, Bases, Base, Fresh, Target
    <3>6. QED
      BY <3>1, <3>2, <3>3, <3>5 DEF BaseAfter
  <2>6. OwedInv(fails)
    BY <1>1, <2>2, <2>3, <2>5 DEF OwedInv
  <2>7. Asked(fails) = [Asked(old) EXCEPT !.status = "failed"]
    BY <2>2 DEF Asked
  <2>8. QED
    BY <1>1, <1>4, <2>2, <2>4, <2>6, <2>7 DEF Becomes
<1>5. ASSUME ReachedTarget(r), NEW b \in Candidates(r), restores' = [restores EXCEPT ![r] = picks(b)]
      PROVE  \E new : Becomes(r, new) /\ OwedInv(new) /\ Asked(new) = Asked(old)
  <2> DEFINE p == [base |-> b, target |-> Target(r)]
             new == picks(b)
  <2>1. Target(r) \in 0..now /\ Target(r) <= old.read.checkpoint /\ b \in Backups
    BY <1>1, <1>5, TargetReached DEF Candidates, Bases
  <2>2. p \in Picks /\ p.target = Target(r)
    BY <2>1 DEF Picks
  <2> HIDE DEF p
  <2>3. /\ new \in RestoreType /\ ~new.read.on /\ new.pick = p /\ new.upto = old.upto
        /\ new.status = old.status /\ new.date = old.date /\ new.promise = old.promise
        /\ new.br = old.br
    BY <1>1, <2>2 DEF RestoreType, p
  <2>4. restores' = [restores EXCEPT ![r] = new]
    BY <1>5
  <2> HIDE DEF new
  <2>5. old.upto <= Target(r) /\ (old.date # Latest => Target(r) = old.date)
    <3>1. old.upto \in Nat /\ Target(r) \in Nat /\ old.read.checkpoint \in Nat
      BY <1>1, <2>1, Clock DEF RestoreType, Reads
    <3>2. old.upto > 0 => old.date = Latest /\ old.upto <= old.read.checkpoint
      BY <1>1 DEF OwedInv
    <3>3. old.date = Latest => Target(r) = old.read.checkpoint
      BY DEF Target
    <3>4. QED
      BY <3>1, <3>2, <3>3 DEF Target
  <2>6. OwedInv(new) /\ Asked(new) = Asked(old)
    BY <1>1, <2>2, <2>3, <2>5 DEF OwedInv, EdgeInv, Asked
  <2>7. QED
    BY <1>1, <2>3, <2>4, <2>6 DEF Becomes
<1>6. QED
  BY <1>2, <1>3, <1>4, <1>5

(* The BR Restore is created, unless the cache hid the one there is.           *)
LEMMA CreateSteps ==
    ASSUME PointsInv, NEW r \in Restores, CreateBRRestore(r)
    PROVE  \E new : /\ Becomes(r, new) /\ OwedInv(new)
                    /\ \/ Asked(new) = Asked(restores[r])
                       \/ /\ restores[r].status = "pending" /\ restores[r].br = NoPick
                          /\ restores[r].pick.target \in Times
                          /\ restores[r].upto <= restores[r].pick.target
                          /\ restores[r].date # Latest => restores[r].pick.target = restores[r].date
                          /\ Asked(new) = [Asked(restores[r]) EXCEPT !.points = {restores[r].pick.target}]
<1> DEFINE old == restores[r]
           new == [old EXCEPT !.br = CreatedBRRestore(r), !.pick = NoPick]
<1>1. /\ TypeOK /\ Others /\ old \in RestoreType /\ OwedInv(old) /\ old.pick # NoPick /\ NoPick \in Picks
  BY TypeOfRestore, Clock DEF PointsInv, PITRInv, RestoresOwe, CreateBRRestore, Others, NoPick, Picks
<1>2. /\ new \in RestoreType /\ new.pick = NoPick
      /\ new.br = IF old.br = NoPick THEN old.pick ELSE old.br
      /\ new.status = old.status /\ new.date = old.date /\ new.promise = old.promise
      /\ new.upto = old.upto /\ new.read = old.read
  BY <1>1 DEF RestoreType, CreatedBRRestore
<1>3. restores' = [restores EXCEPT ![r] = new]
  BY <1>1 DEF CreateBRRestore, TypeOK
<1> HIDE DEF new
<1>4. Becomes(r, new) /\ OwedInv(new)
  BY <1>1, <1>2, <1>3 DEF Becomes, OwedInv, EdgeInv
<1>5. CASE old.br = NoPick
  <2>1. old.pick.target \in Times
    BY <1>1, ClockAssumption DEF RestoreType, Picks, TypeOK, Times
  <2>2. Asked(new) = [Asked(old) EXCEPT !.points = {old.pick.target}]
    BY <1>1, <1>2, <1>5 DEF Asked
  <2>3. QED
    BY <1>1, <1>4, <1>5, <2>1, <2>2 DEF OwedInv
<1>6. CASE old.br # NoPick
  BY <1>2, <1>4, <1>6 DEF Asked
<1>7. QED
  BY <1>5, <1>6

(* The seconds of a window.                                                  *)
LEMMA SecondIsWhole == \A t \in Nat : Second(t) % TicksPerSecond = 0
<1> SUFFICES ASSUME NEW t \in Nat PROVE Second(t) % TicksPerSecond = 0
    OBVIOUS
<1> DEFINE k == TicksPerSecond
           q == t \div k
           s == k * q
           p == s \div k
<1>1. k \in Nat \ {0}
  BY ClockAssumption
<1>2. t = k * q + (t % k) /\ t % k \in 0..(k - 1) /\ q \in Nat
  BY <1>1, Quotient
<1>3. s \in Nat /\ Second(t) = s
  BY <1>1, <1>2 DEF Second
<1>4. s = k * p + (s % k) /\ s % k \in 0..(k - 1) /\ p \in Nat
  BY <1>1, <1>3, Quotient
<1>5. k * p \in Nat
  BY <1>1, <1>4
<1>6. ~(p < q)
  <2>1. p < q => k * p + k <= k * q
    BY <1>1, <1>2, <1>4, Multiples
  <2>2. QED
    BY <1>1, <1>3, <1>4, <1>5, <2>1
<1>7. k * q <= k * p
  BY <1>1, <1>2, <1>4, <1>6, Multiples
<1>8. QED
  BY <1>1, <1>3, <1>4, <1>5, <1>7

(* The end of the window is the latest date on offer, if there is one.         *)
LEMMA EndIsNewest ==
    ASSUME PITRInv
    PROVE  Points!Newest(Offered) = IF PromisedEnd(Latest) > 0 THEN {PromisedEnd(Latest)} ELSE {}
<1>1. /\ window.from \in Nat /\ window.to \in Nat /\ window.to \in Times
      /\ \A d \in Seconds : d \in Nat
  BY Clock, ClockAssumption DEF PITRInv, TypeOK, Times
<1>2. CASE window.open /\ window.from < window.to
  <2>1. window.to \in Seconds
    <3>1. PICK c \in 0..log.checkpoint : window.to = Second(c)
      BY <1>2 DEF PITRInv, WindowInv
    <3>2. c \in Nat
      BY Clock DEF PITRInv, TypeOK
    <3>3. QED
      BY <1>1, <3>1, <3>2, SecondIsWhole DEF Seconds
  <2>2. window.to \in Offered /\ \A d \in Offered : d <= window.to /\ d \in Nat
    BY <1>1, <1>2, <2>1 DEF Offered
  <2>3. Points!Newest(Offered) = {window.to}
    BY <1>1, <2>2 DEF Points!Newest
  <2>4. PromisedEnd(Latest) = window.to /\ window.to > 0
    BY <1>1, <1>2 DEF PromisedEnd
  <2>5. QED
    BY <2>3, <2>4
<1>3. CASE ~(window.open /\ window.from < window.to)
  <2>1. Offered = {}
    BY <1>1, <1>3 DEF Offered
  <2>2. PromisedEnd(Latest) = 0
    BY <1>3 DEF PromisedEnd
  <2>3. QED
    BY <2>1, <2>2 DEF Points!Newest
<1>4. QED
  BY <1>2, <1>3

LEMMA RequestSteps ==
    ASSUME PointsInv, NEW r \in Restores, NEW d \in Seconds \cup {Latest}, RequestRestore(r, d)
    PROVE  \E new : /\ Becomes(r, new) /\ OwedInv(new) /\ restores[r].status = "none"
                    /\ Asked(new) = [status |-> "pending", date |-> d, points |-> {},
                          owed |-> IF d = Latest THEN Points!Newest(Offered) ELSE Offered \cap {d}]
<1> DEFINE old == restores[r]
           new == [old EXCEPT !.status = "pending", !.date = d, !.promise = Promise(d),
                              !.upto = PromisedEnd(d)]
<1>1. /\ TypeOK /\ Others /\ old \in RestoreType /\ OwedInv(old) /\ old.status = "none"
      /\ PromisedEnd(d) \in 0..now /\ ~old.read.on /\ old.pick = NoPick
  BY TypeOfRestore, Clock DEF PointsInv, PITRInv, RestoresOwe, RequestRestore, Others, OwedInv,
     PromisedEnd, TypeOK
<1>2. /\ new \in RestoreType /\ new.status = "pending" /\ new.date = d /\ new.promise = Promise(d)
      /\ new.upto = PromisedEnd(d) /\ new.read = old.read /\ new.pick = old.pick /\ new.br = old.br
  BY <1>1 DEF RestoreType, Promise
<1>3. restores' = [restores EXCEPT ![r] = new]
  BY <1>1 DEF RequestRestore, TypeOK
<1> HIDE DEF new
<1>4. PromisedEnd(d) > 0 => d = Latest /\ log.running /\ PromisedEnd(d) <= log.checkpoint
  <2> SUFFICES ASSUME PromisedEnd(d) > 0
               PROVE  d = Latest /\ log.running /\ PromisedEnd(d) <= log.checkpoint
      OBVIOUS
  <2>1. d = Latest /\ window.open /\ PromisedEnd(d) = window.to
    BY DEF PromisedEnd
  <2>2. PICK c \in 0..log.checkpoint : log.running /\ window.to = Second(c)
    BY <2>1 DEF PointsInv, PITRInv, WindowInv
  <2>3. c \in Nat /\ c <= log.checkpoint /\ log.checkpoint \in Nat
    BY <1>1, Clock DEF TypeOK
  <2>4. Second(c) \in Nat /\ Second(c) <= c
    BY <2>3, SecondIsEarlier
  <2>5. QED
    BY <2>1, <2>2, <2>3, <2>4
<1>5. OwedInv(new)
  <2>1. Promise(d) = "edge" => d # Latest /\ BaseWithin(d)
    <3> SUFFICES ASSUME Promise(d) = "edge" PROVE d # Latest /\ BaseWithin(d)
        OBVIOUS
    <3>1. window.open /\ d = window.from
      BY DEF Promise
    <3>2. window.from \in Nat
      BY <1>1, Clock DEF TypeOK
    <3>3. QED
      BY <3>1, <3>2 DEF PointsInv, PITRInv, WindowInv, BaseWithin, Latest
  <2>2. EdgeInv(new)
    BY <1>1, <1>2, <2>1 DEF EdgeInv
  <2>3. QED
    BY <1>1, <1>2, <1>4, <2>2 DEF OwedInv
<1>6. Asked(new).owed = IF d = Latest THEN Points!Newest(Offered) ELSE Offered \cap {d}
  <2>1. window.from \in Nat /\ window.to \in Nat
    BY <1>1, Clock DEF TypeOK
  <2>2. CASE d = Latest
    <3>1. Promise(d) = "none"
      BY <2>1, <2>2 DEF Promise, Latest
    <3>2. QED
      BY <1>2, <2>2, <3>1, EndIsNewest DEF PointsInv, Asked
  <2>3. CASE d # Latest
    <3>1. d \in Nat /\ d \in Seconds
      BY <1>1, <2>3, Clock
    <3>2. PromisedEnd(d) = 0
      BY <2>3 DEF PromisedEnd
    <3>3. Promise(d) = "inside" <=> d \in Offered
      BY <2>1, <3>1 DEF Promise, Offered
    <3>4. QED
      BY <1>2, <2>3, <3>2, <3>3 DEF Asked
  <2>4. QED
    BY <2>2, <2>3
<1>7. Asked(new) = [status |-> "pending", date |-> d, points |-> {}, owed |-> Asked(new).owed]
  <2>1. Asked(new).points = {}
    BY <1>1, <1>2 DEF OwedInv, Asked
  <2>2. QED
    BY <1>2, <2>1, AskedIsRecord
<1>8. QED
  BY <1>1, <1>2, <1>3, <1>5, <1>6, <1>7 DEF Becomes

LEMMA PointsInvSteps == PointsInv /\ [Next]_vars => PointsInv'
<1> SUFFICES ASSUME PointsInv, [Next]_vars PROVE PointsInv'
    OBVIOUS
<1>1. PITRInv /\ PITRInv' /\ TypeOK /\ TypeOK'
  BY PITRInvKept DEF PointsInv, PITRInv
<1>2. CASE StopLog \/ \E b \in Backups : RemoveBackup(b)
  BY <1>1, <1>2, DeletesOwe DEF PointsInv
<1>3. CASE UNCHANGED vars \/ OpenWindow \/ PublishWindow
  BY <1>1, <1>3, OthersOwe DEF PointsInv, LogGoesOn, TypeOK, vars, OpenWindow, PublishWindow
<1>4. CASE Tick \/ StartLog \/ AdvanceLog \/ \E b \in Backups : StartBackup(b) \/ EndBackup(b)
  <2>1. LogGoesOn
    BY <1>1, <1>4, LogOnlyGrows
  <2>2. UNCHANGED restores
    BY <1>4 DEF Tick, StartLog, AdvanceLog, StartBackup, EndBackup
  <2>3. QED
    BY <1>1, <2>1, <2>2, OthersOwe DEF PointsInv
<1>5. ASSUME NEW r \in Restores,
             \/ OpenStream(r) \/ PickBase(r) \/ CreateBRRestore(r) \/ AbortPass(r) \/ FindBRRestore(r)
             \/ \E d \in Seconds \cup {Latest} : RequestRestore(r, d)
      PROVE  PointsInv'
  <2>1. \E new : Becomes(r, new) /\ OwedInv(new)
    BY <1>5, QuietSteps, PickSteps, CreateSteps, RequestSteps
  <2>2. QED
    BY <1>1, <2>1, StepsOwe DEF PointsInv
<1>6. QED
  BY <1>2, <1>3, <1>4, <1>5 DEF Next

LEMMA PointsStart == Init => Points!Init
<1> SUFFICES ASSUME Init PROVE Points!Init
    OBVIOUS
<1>1. /\ NoLog.running = FALSE /\ Offered = {} /\ \A b \in Backups : backups[b].state # "complete"
  BY DEF Init, NoLog, Offered, NoWindow, Backup
<1>2. Asked(NoRestore) = Points!Unasked
  BY DEF Asked, NoRestore, Points!Unasked
<1>3. [r \in Restores |-> Asked(restores[r])] = [r \in Restores |-> Points!Unasked]
  BY <1>2 DEF Init
<1>4. QED
  BY <1>1, <1>3 DEF Init, Points!Init

Kept == {b \in Backups : backups[b].state = "complete"}

(* The log, the Backups and the window change.                                *)
LEMMA SourcesStep ==
    ASSUME PointsInv,
           \/ Tick \/ StartLog \/ AdvanceLog \/ \E b \in Backups : StartBackup(b) \/ EndBackup(b)
    PROVE  Points!Gain
<1>1. TypeOK /\ LogGoesOn
  BY LogOnlyGrows DEF PointsInv, PITRInv
<1>2. UNCHANGED <<window, restores>>
  BY DEF Tick, StartLog, AdvanceLog, StartBackup, EndBackup
<1>3. Offered' = Offered /\ Askeds' = Askeds
  BY <1>2 DEF Offered, Askeds, Asked
<1>4. (log.running => log'.running) /\ Kept \subseteq Kept' /\ Kept' \subseteq Backups
  BY <1>1 DEF LogGoesOn, Kept
<1>5. QED
  BY <1>3, <1>4 DEF Points!Gain, Kept, Askeds

LEMMA DeleteStep ==
    ASSUME PointsInv, StopLog \/ \E b \in Backups : RemoveBackup(b)
    PROVE  Points!Lose
<1>1. TypeOK /\ Invalidate
  BY DEF PointsInv, PITRInv, StopLog, RemoveBackup
<1>2. Offered' = {}
  BY <1>1 DEF Invalidate, Offered, NoWindow
<1>3. Askeds' = [r \in Restores |-> [Askeds[r] EXCEPT !.owed = {}]]
  <2>1. ASSUME NEW r \in Restores PROVE Asked(restores[r])' = [Asked(restores[r]) EXCEPT !.owed = {}]
    <3> DEFINE new == [restores[r] EXCEPT !.promise = "none", !.upto = 0, !.valid = FALSE]
    <3>1. restores'[r] = new /\ restores[r] \in RestoreType
      BY <1>1, TypeOfRestore DEF Invalidate
    <3>2. /\ new.status = restores[r].status /\ new.date = restores[r].date /\ new.br = restores[r].br
          /\ new.promise = "none" /\ new.upto = 0
      BY <3>1 DEF RestoreType
    <3> HIDE DEF new
    <3>3. /\ Asked(new).owed = {} /\ Asked(new).points = Asked(restores[r]).points
      BY <3>2 DEF Asked
    <3>4. Asked(new) = [Asked(restores[r]) EXCEPT !.owed = {}]
      BY <3>2, <3>3, AskedIsRecord
    <3>5. Asked(restores[r])' = Asked(new)
      BY <3>1 DEF Asked
    <3>6. QED
      BY <3>4, <3>5
  <2>2. QED
    BY <2>1 DEF Askeds
<1>4. \/ log.running /\ ~log'.running /\ Kept' = Kept
      \/ log'.running = log.running /\ \E b \in Kept : Kept' = Kept \ {b}
  <2>1. CASE StopLog
    BY <2>1 DEF StopLog, NoLog, Kept
  <2>2. ASSUME NEW b \in Backups, RemoveBackup(b) PROVE log' = log /\ b \in Kept /\ Kept' = Kept \ {b}
    BY <1>1, <2>2 DEF RemoveBackup, Backup, Kept, TypeOK
  <2>3. QED
    BY <2>1, <2>2
<1>5. QED
  BY <1>2, <1>3, <1>4 DEF Points!Lose, Kept, Askeds

LEMMA SameView ==
    ASSUME log'.running = log.running, UNCHANGED backups, Offered' = Offered, Askeds' = Askeds
    PROVE  UNCHANGED Points!vars
BY DEF Points!vars, Askeds

LEMMA WindowStep ==
    ASSUME PointsInv, OpenWindow \/ PublishWindow
    PROVE  [Points!Next]_(Points!vars)
<1>1. PITRInv /\ UNCHANGED <<log, backups, restores>> /\ Askeds' = Askeds
  BY DEF PointsInv, OpenWindow, PublishWindow, Askeds, Asked
<1>2. CASE ~PublishWindow \/ ~ReachesBase(reading.start, reading.checkpoint)
  <2>1. Offered' = Offered
    <3>1. CASE window.open
      BY <1>1, <1>2, <3>1, PublishGrows DEF OpenWindow, Streams, PITRInv, WindowInv, Offered
    <3>2. CASE ~window.open
      BY <1>2, <3>2 DEF OpenWindow, PublishWindow, NoWindow, Offered
    <3>3. QED
      BY <3>1, <3>2
  <2>2. QED
    BY <1>1, <2>1, SameView
<1>3. CASE PublishWindow /\ ReachesBase(reading.start, reading.checkpoint)
  <2>1. Offered \subseteq Offered' /\ Offered' \subseteq Seconds
    <3>1. CASE window.open
      <4>1. window'.open /\ window'.from <= window.from /\ window'.to >= window.to
        BY <1>1, <1>3, <3>1, PublishGrows
      <4>2. TypeOK' /\ TypeOK
        BY <1>1, <1>3, WindowTypes DEF PITRInv
      <4>3. /\ window.from \in Nat /\ window.to \in Nat /\ window'.from \in Nat /\ window'.to \in Nat
            /\ \A d \in Seconds : d \in Nat
        BY <1>1, <4>2, Clock DEF TypeOK, PublishWindow
      <4>4. QED
        BY <3>1, <4>1, <4>3 DEF Offered
    <3>2. CASE ~window.open
      BY <3>2 DEF Offered
    <3>3. QED
      BY <3>1, <3>2
  <2>2. log.running /\ Kept # {}
    <3>1. PICK b \in Backups : log.running /\ Base(b)
      BY <1>1, <1>3, PublishedWindow
    <3>2. QED
      BY <3>1 DEF Kept, Base
  <2>3. Offered' = Offered \cup Offered' /\ Offered' \in SUBSET Seconds
    BY <2>1
  <2>4. Points!Offer
    BY <1>1, <2>2, <2>3 DEF Points!Offer, Kept, Askeds
  <2>5. QED
    BY <2>4 DEF Points!Next
<1>4. QED
  BY <1>2, <1>3

(* Only dates are promised.                                                   *)
LEMMA PromisedDates ==
    ASSUME PITRInv, NEW r \in Restores, restores[r].promise = "inside"
    PROVE  restores[r].date # Latest
<1>1. PICK b \in Backups : backups[b].ts < restores[r].date
  BY DEF PITRInv, RestoresInv, RestoreInv
<1>2. backups[b].ts \in Nat
  BY Clock DEF PITRInv, TypeOK
<1>3. QED
  BY <1>1, <1>2 DEF Latest

(* A Restore takes a step: it is asked for, started, refused, or nobody sees it. *)
LEMMA RestoreStepShows ==
    ASSUME PointsInv, NEW r \in Restores, NEW new, Becomes(r, new)
    PROVE  /\ log' = log /\ backups' = backups /\ Offered' = Offered
           /\ Askeds' = [Askeds EXCEPT ![r] = Asked(new)] /\ Askeds[r] = Asked(restores[r])
           /\ Asked(new) = Asked(restores[r]) => UNCHANGED Points!vars
<1>1. log' = log /\ backups' = backups /\ Offered' = Offered
  BY DEF Becomes, Others, Offered
<1>2. Askeds' = [Askeds EXCEPT ![r] = Asked(new)] /\ Askeds[r] = Asked(restores[r])
  BY StepsShow DEF Askeds
<1>3. Asked(new) = Asked(restores[r]) => Askeds' = Askeds
  BY <1>2 DEF Askeds
<1>4. QED
  BY <1>1, <1>2, <1>3, SameView

LEMMA RestoreSteps ==
    ASSUME PointsInv, NEW r \in Restores,
           \/ OpenStream(r) \/ PickBase(r) \/ CreateBRRestore(r) \/ AbortPass(r) \/ FindBRRestore(r)
           \/ \E d \in Seconds \cup {Latest} : RequestRestore(r, d)
    PROVE  [Points!Next]_(Points!vars)
<1>1. ASSUME NEW new, Becomes(r, new), Asked(new) = Asked(restores[r]) PROVE UNCHANGED Points!vars
  BY <1>1, RestoreStepShows
<1>2. CASE OpenStream(r) \/ AbortPass(r) \/ FindBRRestore(r)
  BY <1>1, <1>2, QuietSteps
<1>3. CASE PickBase(r)
  <2>1. PICK new :
          /\ Becomes(r, new)
          /\ \/ Asked(new) = Asked(restores[r])
             \/ /\ restores[r].status = "pending" /\ restores[r].date # Latest
                /\ Asked(restores[r]).owed = {}
                /\ Asked(new) = [Asked(restores[r]) EXCEPT !.status = "failed"]
    BY <1>3, PickSteps
  <2>2. CASE Asked(new) = Asked(restores[r])
    BY <1>1, <2>1, <2>2
  <2>3. CASE Asked(new) # Asked(restores[r])
    <3>1. /\ restores[r].status = "pending" /\ restores[r].date # Latest
          /\ Asked(restores[r]).owed = {}
          /\ Asked(new) = [Asked(restores[r]) EXCEPT !.status = "failed"]
      BY <2>1, <2>3
    <3>2. Askeds[r] = Asked(restores[r]) /\ Asked(restores[r]).status = restores[r].status
          /\ Asked(restores[r]).date = restores[r].date
      BY DEF Askeds, Asked
    <3>3. Askeds' = [Askeds EXCEPT ![r].status = "failed"]
      BY <2>1, <3>1, <3>2, RestoreStepShows
    <3>4. Points!Refuse(r)
      BY <2>1, <3>1, <3>2, <3>3, RestoreStepShows DEF Points!Refuse, Askeds
    <3>5. QED
      BY <3>4 DEF Points!Next
  <2>4. QED
    BY <2>2, <2>3
<1>4. CASE CreateBRRestore(r)
  <2> DEFINE p == restores[r].pick.target
  <2>1. PICK new :
          /\ Becomes(r, new)
          /\ \/ Asked(new) = Asked(restores[r])
             \/ /\ restores[r].status = "pending" /\ restores[r].br = NoPick
                /\ p \in Times /\ restores[r].upto <= p
                /\ restores[r].date # Latest => p = restores[r].date
                /\ Asked(new) = [Asked(restores[r]) EXCEPT !.points = {p}]
    BY <1>4, CreateSteps
  <2>2. CASE Asked(new) = Asked(restores[r])
    BY <1>1, <2>1, <2>2
  <2>3. CASE Asked(new) # Asked(restores[r])
    <3>1. /\ restores[r].status = "pending" /\ restores[r].br = NoPick
          /\ p \in Times /\ restores[r].upto <= p
          /\ restores[r].date # Latest => p = restores[r].date
          /\ Asked(new) = [Asked(restores[r]) EXCEPT !.points = {p}]
      BY <2>1, <2>3
    <3>2. /\ Askeds[r] = Asked(restores[r]) /\ Asked(restores[r]).status = restores[r].status
          /\ Asked(restores[r]).date = restores[r].date /\ Asked(restores[r]).points = {}
      BY <3>1 DEF Askeds, Asked
    <3>3. \A d \in Asked(restores[r]).owed : d <= p
      <4>1. restores[r].promise = "inside" => restores[r].date # Latest
        BY PromisedDates DEF PointsInv
      <4>2. p \in Nat
        BY <3>1, ClockAssumption DEF Times
      <4>3. QED
        BY <3>1, <4>1, <4>2 DEF Asked
    <3>4. Askeds' = [Askeds EXCEPT ![r].points = {p}]
      BY <2>1, <3>1, <3>2, RestoreStepShows
    <3> HIDE DEF p
    <3>5. Points!Start(r, p)
      BY <2>1, <3>1, <3>2, <3>3, <3>4, RestoreStepShows DEF Points!Start, Askeds
    <3>6. QED
      BY <3>1, <3>5 DEF Points!Next
  <2>4. QED
    BY <2>2, <2>3
<1>5. ASSUME NEW d \in Seconds \cup {Latest}, RequestRestore(r, d) PROVE [Points!Next]_(Points!vars)
  <2> DEFINE owes == IF d = Latest THEN Points!Newest(Offered) ELSE Offered \cap {d}
  <2>1. PICK new :
          /\ Becomes(r, new) /\ restores[r].status = "none"
          /\ Asked(new) = [status |-> "pending", date |-> d, points |-> {}, owed |-> owes]
    BY <1>5, RequestSteps
  <2>2. Askeds[r] = Asked(restores[r]) /\ Asked(restores[r]).status = restores[r].status
    BY DEF Askeds, Asked
  <2> HIDE DEF owes
  <2>3. Askeds' = [Askeds EXCEPT ![r] = [status |-> "pending", date |-> d, points |-> {}, owed |-> owes]]
    BY <2>1, <2>2, RestoreStepShows
  <2>4. Points!Ask(r, d)
    BY <2>1, <2>2, <2>3, RestoreStepShows DEF Points!Ask, Askeds, owes
  <2>5. QED
    BY <2>4 DEF Points!Next
<1>6. QED
  BY <1>2, <1>3, <1>4, <1>5

LEMMA PointsStep == PointsInv /\ [Next]_vars => [Points!Next]_(Points!vars)
<1> SUFFICES ASSUME PointsInv, [Next]_vars PROVE [Points!Next]_(Points!vars)
    OBVIOUS
<1>1. CASE UNCHANGED vars
  BY <1>1, SameView DEF vars, Offered, Askeds, Asked
<1>2. CASE StopLog \/ \E b \in Backups : RemoveBackup(b)
  BY <1>2, DeleteStep DEF Points!Next
<1>3. CASE Tick \/ StartLog \/ AdvanceLog \/ \E b \in Backups : StartBackup(b) \/ EndBackup(b)
  BY <1>3, SourcesStep DEF Points!Next
<1>4. QED
  BY <1>1, <1>2, <1>3, WindowStep, RestoreSteps DEF Next

(* The provider implements RestorablePoints: in every order of publications,     *)
(* passes and deletions, what was offered when a Restore was asked for is not     *)
(* refused, is the point it is started to, and is taken back by deletions only.   *)
THEOREM WindowImplementsPoints == Spec => ImplementsRestorablePoints
<1>1. Spec => []PointsInv
  BY PointsInvInit, PointsInvSteps, PTL DEF Spec
<1>2. Spec => Points!Init /\ [][Points!Next]_(Points!vars)
  BY <1>1, PointsStart, PointsStep, PTL DEF Spec
<1>3. QED
  BY <1>2 DEF ImplementsRestorablePoints, Points!Spec

-----------------------------------------------------------------------------
(* What the whole window is worth.                                           *)

FailedPromise(r) == restores[r].status = "failed" /\ restores[r].promise # "none"

LEMMA PointsInvariant == Spec => []PointsInv
BY PointsInvInit, PointsInvSteps, PTL DEF Spec

(* A restore of a promised date fails for one reason only: the window was       *)
(* published to start in the second of a base whose snapshot lies after the      *)
(* date, within that second (tsTime and pitrWindow round down, pitr.go:324-345). *)
THEOREM EdgeIsRounding ==
    Spec => [](\A r \in Restores : FailedPromise(r) => BaseAfter(restores[r].date))
<1>1. PointsInv => \A r \in Restores : FailedPromise(r) => BaseAfter(restores[r].date)
  <2> SUFFICES ASSUME PointsInv, NEW r \in Restores, FailedPromise(r)
               PROVE  BaseAfter(restores[r].date)
      OBVIOUS
  <2>1. restores[r].promise \in {"none", "edge", "inside"}
    BY DEF PointsInv, PITRInv, TypeOK
  <2>2. restores[r].promise # "inside"
    BY DEF FailedPromise, PointsInv, PITRInv, RestoresInv, RestoreInv
  <2>3. EdgeInv(restores[r])
    BY DEF PointsInv, RestoresOwe, OwedInv
  <2>4. QED
    BY <2>1, <2>2, <2>3 DEF FailedPromise, EdgeInv
<1>2. QED
  BY <1>1, PointsInvariant, PTL
=============================================================================
