---------------------------- MODULE XpRewardsProofs ----------------------------
(***************************************************************************)
(* The XP queue, with its wallets, levels and notifications, is a reward   *)
(* queue too; what earn() makes of a wallet and of the level table is      *)
(* followed from the read to the commit, and from there to the             *)
(* notification.                                                           *)
(***************************************************************************)
EXTENDS XpRewards, RewardProcessorProofs

USE XpAssumption, NullAssumption

(* The order level: "DESC" of the level query finds the highest level.     *)
LEMMA Highest ==
    ASSUME NEW S \in SUBSET Levels, S # {}
    PROVE  Max(S) \in S /\ \A l \in S : l <= Max(S)
<1> DEFINE Above == {n \in Nat : \A l \in S : l <= n}
<1>1. MaxLevel \in Above /\ Above \in SUBSET Nat
  BY DEF Levels
<1>2. PICK n \in Above : \A k \in Above : n <= k
  BY <1>1, Least
<1>3. n \in Nat /\ \A l \in S : l <= n /\ l \in Nat /\ l >= 1
  BY <1>2 DEF Levels
<1>4. n \in S
  <2> SUFFICES ASSUME n \notin S PROVE FALSE
    OBVIOUS
  <2>1. \A l \in S : l <= n - 1
    BY <1>3
  <2>2. n - 1 \in Nat
    BY <1>3
  <2>3. n - 1 \in Above
    BY <2>1, <2>2
  <2> QED
    BY <1>2, <1>3, <2>3
<1>5. \A l \in S : n >= l
  BY <1>3
<1>6. Max(S) \in S /\ \A l \in S : Max(S) >= l
  BY <1>4, <1>5, Zenon DEF Max
<1>7. Max(S) \in Levels /\ \A l \in S : l \in Levels
  BY <1>6
<1> QED
  BY <1>6, <1>7 DEF Levels

Table == levels \in [Levels -> LevelRows \cup {None}]

LEMMA Reached ==
    ASSUME Table, NEW xp \in Nat
    PROVE  /\ ReachedLevels(xp) \in SUBSET Levels
           /\ \A more \in Nat : xp <= more => ReachedLevels(xp) \subseteq ReachedLevels(more)
<1>1. \A l \in Levels : IsActive(l) => levels[l].threshold \in Nat
  BY DEF Table, IsActive, LevelRows
<1> QED
  BY <1>1 DEF ReachedLevels

(* A payment leaves a level or raises it to the highest one reached.       *)
LEMMA LevelRises ==
    ASSUME Table, NEW old \in Levels, NEW xp \in Nat
    PROVE  /\ LevelAfter(old, xp) \in Levels /\ LevelAfter(old, xp) >= old
           /\ \A l \in ReachedLevels(xp) : l <= LevelAfter(old, xp)
           /\ LevelAfter(old, xp) = old \/ LevelAfter(old, xp) \in ReachedLevels(xp)
<1>1. ReachedLevels(xp) \in SUBSET Levels
  BY Reached
<1> DEFINE R == ReachedLevels(xp)
<1> HIDE DEF R
<1>2. CASE \E l \in R : l > old
  <2>1. LevelAfter(old, xp) = Max(R)
    BY <1>2 DEF LevelAfter, R
  <2>2. R \in SUBSET Levels /\ R # {}
    BY <1>1, <1>2 DEF R
  <2>3. Max(R) \in R /\ \A l \in R : l <= Max(R)
    BY <2>2, Highest
  <2> QED
    BY <1>2, <2>1, <2>2, <2>3 DEF R, Levels
<1>3. CASE ~ \E l \in R : l > old
  <2>1. LevelAfter(old, xp) = old
    BY <1>3 DEF LevelAfter, R
  <2> QED
    BY <1>1, <1>3, <2>1 DEF R, Levels
<1> QED
  BY <1>2, <1>3

(* Payment by payment or all at once: the same level.                      *)
LEMMA LevelsCompose ==
    ASSUME Table, NEW old \in Levels, NEW xp \in Nat, NEW more \in Nat, xp <= more
    PROVE  LevelAfter(LevelAfter(old, xp), more) = LevelAfter(old, more)
<1> DEFINE a == LevelAfter(old, xp)
           b == LevelAfter(a, more)
           c == LevelAfter(old, more)
<1>1. /\ a \in Levels /\ a >= old /\ \A l \in ReachedLevels(xp) : l <= a
      /\ a = old \/ a \in ReachedLevels(xp)
  BY LevelRises
<1>2. /\ c \in Levels /\ c >= old /\ \A l \in ReachedLevels(more) : l <= c
      /\ c = old \/ c \in ReachedLevels(more)
  BY LevelRises
<1> HIDE DEF a, c
<1>3. /\ b \in Levels /\ b >= a /\ \A l \in ReachedLevels(more) : l <= b
      /\ b = a \/ b \in ReachedLevels(more)
  BY <1>1, LevelRises
<1> HIDE DEF b
<1>4. a = old \/ a \in ReachedLevels(more)
  BY <1>1, Reached
<1>5. b <= c
  BY <1>1, <1>2, <1>3, <1>4 DEF Levels
<1>6. c <= b
  BY <1>1, <1>2, <1>3 DEF Levels
<1>7. b = c
  BY <1>2, <1>3, <1>5, <1>6 DEF Levels
<1> QED
  BY <1>7 DEF a, b, c

(* The level above the one a payment ends in has not been reached.         *)
LEMMA XpRemains ==
    ASSUME Table, NEW old \in Levels, NEW xp \in Nat, IsActive(LevelAfter(old, xp) + 1)
    PROVE  RemainingXp(LevelAfter(old, xp), xp) > 0
<1> DEFINE a == LevelAfter(old, xp)
<1>1. a \in Levels /\ \A l \in ReachedLevels(xp) : l <= a
  BY LevelRises
<1> HIDE DEF a
<1>2. IsActive(a + 1)
  BY DEF a
<1>3. a + 1 \in Levels /\ levels[a + 1].threshold \in Nat
  BY <1>2 DEF IsActive, Table, LevelRows
<1>4. a + 1 \notin ReachedLevels(xp)
  BY <1>1 DEF Levels
<1>5. levels[a + 1].threshold > xp
  BY <1>2, <1>3, <1>4 DEF ReachedLevels
<1>6. RemainingXp(a, xp) > 0
  BY <1>2, <1>3, <1>5 DEF RemainingXp
<1> QED
  BY <1>6 DEF a

-------------------------------------------------------------------------------
WalletOf(m) == IF wallet[m] = None THEN NewWallet ELSE wallet[m]

(* What an open earn() has read: unless it makes the wallet itself, the    *)
(* wallet exists and will go on existing.                                  *)
Loaded(m, s) == s \in Snapshots /\ (s.fresh \/ wallet[m] # None)

(* What it has made of it: only a higher level is reported, and while      *)
(* nobody edits the table, the level and the rest are those of the table.  *)
Computed(s) ==
    /\ s.new.xp = s.old.xp + s.amount
    /\ s.new.level >= s.old.level
    /\ s.gained = IF s.new.level > s.old.level THEN s.new.level ELSE None
    /\ levelEdits = 0 => /\ s.new.level = LevelAfter(s.old.level, s.new.xp)
                         /\ s.new.toNext = RemainingXp(s.new.level, s.new.xp)

XpInv ==
    /\ TypeOK /\ TypeInv
    /\ pc = "commit" => Loaded(EventMember[job], snap)
    /\ pc = "notify" => gained \in Levels
    /\ \A r \in EarnRequests : call[r] # None => Loaded(call[r].member, call[r].snap)

LEMMA SnapshotType ==
    ASSUME NEW s \in Snapshots
    PROVE  /\ s.old \in Wallets /\ s.new \in Wallets /\ s.amount \in Amounts /\ s.amount \in Nat
           /\ s.old.xp \in Nat /\ s.old.level \in Levels /\ s.old.toNext \in Int
           /\ s.new.xp \in Nat /\ s.new.level \in Levels /\ s.new.toNext \in Int
           /\ s.gained \in Levels \cup {None} /\ s.fresh \in BOOLEAN
BY ProcessorAssumption DEF Snapshots, Wallets

LEMMA WalletType ==
    ASSUME TypeOK, NEW m \in Members
    PROVE  /\ WalletOf(m) \in Wallets
           /\ WalletOf(m).xp = TotalXp(m) /\ WalletOf(m).level = CurrentLevel(m)
           /\ TotalXp(m) \in Nat /\ CurrentLevel(m) \in Levels
<1>1. NewWallet \in Wallets /\ NewWallet.xp = 0 /\ NewWallet.level = 1
  BY DEF NewWallet, Wallets, Levels
<1>2. wallet[m] \in Wallets \/ wallet[m] = None
  BY DEF TypeOK
<1>3. \A w \in Wallets : w.xp \in Nat /\ w.level \in Levels
  BY DEF Wallets
<1> QED
  BY <1>1, <1>2, <1>3 DEF WalletOf, TotalXp, CurrentLevel

(* What earn() reads and computes.                                         *)
LEMMA ReadByEarn ==
    ASSUME TypeOK, NEW m \in Members, NEW n \in Amounts
    PROVE  LET s == ReadForEarn(m, n)
           IN  /\ Loaded(m, s) /\ Computed(s)
               /\ s.old = WalletOf(m) /\ s.amount = n
<1> DEFINE old   == WalletOf(m)
           xp    == old.xp + n
           level == LevelAfter(old.level, xp)
           next  == RemainingXp(level, xp)
<1>1. old \in Wallets /\ old.xp \in Nat /\ old.level \in Levels
  BY WalletType DEF Wallets
<1>2. ReadForEarn(m, n) =
        [old    |-> old,
         new    |-> [xp |-> xp, level |-> level, toNext |-> next],
         gained |-> IF level > old.level THEN level ELSE None,
         fresh  |-> wallet[m] = None,
         amount |-> n]
  BY DEF ReadForEarn, WalletOf
<1> HIDE DEF old
<1>3. xp \in Nat /\ n \in Nat
  BY <1>1, ProcessorAssumption
<1> HIDE DEF xp
<1>4. Table
  BY DEF TypeOK, Table
<1>5. level \in Levels /\ level >= old.level
  BY <1>1, <1>3, <1>4, LevelRises
<1>6. next \in Int
  <2> HIDE DEF level
  <2>1. IsActive(level + 1) => levels[level + 1].threshold \in Nat
    BY <1>4 DEF IsActive, Table, LevelRows
  <2> QED
    BY <1>3, <2>1 DEF RemainingXp
<1> HIDE DEF level, next
<1> DEFINE new == [xp |-> xp, level |-> level, toNext |-> next]
           up  == IF level > old.level THEN level ELSE None
           fr  == wallet[m] = None
           s   == [old |-> old, new |-> new, gained |-> up, fresh |-> fr, amount |-> n]
<1>7. /\ new \in Wallets
      /\ new.xp = xp /\ new.level = level /\ new.toNext = next
  BY <1>3, <1>5, <1>6 DEF Wallets
<1>8. up \in Levels \cup {None} /\ fr \in BOOLEAN
  BY <1>5
<1> HIDE DEF new, up, fr
<1>9. s \in Snapshots
  BY <1>1, <1>7, <1>8 DEF Snapshots
<1>10. /\ s.old = old /\ s.new = new /\ s.gained = up /\ s.fresh = fr /\ s.amount = n
  OBVIOUS
<1> HIDE DEF s
<1>11. Loaded(m, s)
  BY <1>9, <1>10 DEF Loaded, fr
<1>12. Computed(s)
  BY <1>5, <1>7, <1>10 DEF Computed, up, xp, level, next
<1>13. s = ReadForEarn(m, n)
  BY <1>2 DEF s, new, up, fr
<1> QED
  BY <1>10, <1>11, <1>12, <1>13 DEF old

(* save(wallet): each column is the new one or the one that was there, and *)
(* of a wallet nobody touched meanwhile every column is the new one.       *)
LEMMA Saved ==
    ASSUME NEW m \in Members, NEW s, Loaded(m, s), TypeOK, CanCommit(m, s),
           NEW row \in SavedWallets(m, s)
    PROVE  /\ row \in Wallets
           /\ row.xp = s.new.xp \/ row.xp = TotalXp(m)
           /\ s.old = WalletOf(m) => row = s.new
<1>1. s \in Snapshots /\ s.new \in Wallets /\ s.old \in Wallets /\ s.fresh \in BOOLEAN
  BY SnapshotType DEF Loaded
<1>2. CASE s.fresh
  <2>1. row = s.new
    BY <1>2 DEF SavedWallets
  <2> QED
    BY <1>1, <2>1
<1>3. CASE ~s.fresh
  <2>1. wallet[m] \in Wallets /\ wallet[m] # None
    BY <1>3 DEF Loaded, TypeOK
  <2>2. PICK seen \in {s.old, wallet[m]} :
            row = [column \in DOMAIN s.new |-> IF s.new[column] # seen[column]
                                               THEN s.new[column] ELSE wallet[m][column]]
    BY <1>3 DEF SavedWallets
  <2>3. DOMAIN s.new = {"xp", "level", "toNext"}
    BY <1>1 DEF Wallets
  <2>4. /\ row.xp     = IF s.new.xp # seen.xp THEN s.new.xp ELSE wallet[m].xp
        /\ row.level  = IF s.new.level # seen.level THEN s.new.level ELSE wallet[m].level
        /\ row.toNext = IF s.new.toNext # seen.toNext THEN s.new.toNext ELSE wallet[m].toNext
        /\ row = [xp |-> row.xp, level |-> row.level, toNext |-> row.toNext]
    BY <2>2, <2>3
  <2>5. /\ row.xp \in {s.new.xp, wallet[m].xp} /\ row.level \in {s.new.level, wallet[m].level}
        /\ row.toNext \in {s.new.toNext, wallet[m].toNext}
    BY <2>4
  <2>6. row \in Wallets
    BY <1>1, <2>1, <2>4, <2>5 DEF Wallets
  <2>7. ASSUME s.old = WalletOf(m) PROVE row = s.new
    <3>1. seen = wallet[m]
      BY <2>1, <2>2, <2>7 DEF WalletOf
    <3>2. row.xp = s.new.xp /\ row.level = s.new.level /\ row.toNext = s.new.toNext
      BY <2>4, <3>1
    <3>3. s.new = [xp |-> s.new.xp, level |-> s.new.level, toNext |-> s.new.toNext]
      BY <1>1 DEF Wallets
    <3> QED
      BY <2>4, <3>2, <3>3
  <2> QED
    BY <2>1, <2>5, <2>6, <2>7 DEF TotalXp
<1> QED
  BY <1>1, <1>2, <1>3

-------------------------------------------------------------------------------
LEMMA XpInit == Init => XpInv
BY TypeInit DEF Init, XpInv, TypeInv, TypeOK, ProcessorInit

(* Every step around the XP wallets is a step of the reward queue or       *)
(* leaves it alone.                                                        *)
LEMMA StepProcessor == XpInv /\ [Next]_vars => [ProcessorNext]_processorVars
<1> SUFFICES ASSUME XpInv, [Next]_vars PROVE [ProcessorNext]_processorVars
  OBVIOUS
<1>1. CASE WorkerReads \/ WorkerThrows \/ WorkerRefused \/ WorkerNotifies \/ ProcessCrash
  BY <1>1 DEF WorkerReads, WorkerThrows, WorkerRefused, WorkerNotifies, ProcessCrash,
              ProcessorNext
<1>2. CASE WorkerCommits
  BY <1>2, SnapshotType DEF WorkerCommits, ProcessorNext, XpInv, Loaded
<1>3. CASE WorkerMarks
  BY <1>3 DEF WorkerMarks, ProcessorNext
<1>4. CASE WorkerSteps
  BY <1>4 DEF WorkerSteps, ProcessorNext
<1>5. ASSUME NEW e \in Events, TakeJob(e) \/ RequeueJob(e) PROVE ProcessorNext
  BY <1>5 DEF TakeJob, RequeueJob, ProcessorNext
<1>6. CASE Surroundings
  BY <1>6 DEF Surroundings, ProcessorNext, XpInv, TypeInv, ProcessorTypeOK
<1>7. ASSUME NEW r \in EarnRequests, RequestCommits(r) PROVE ProcessorNext
  <2>1. call[r] \in Calls /\ call[r].snap \in Snapshots
    BY <1>7 DEF RequestCommits, XpInv, TypeOK, Calls
  <2>2. call[r].snap.amount \in Amounts
    BY <2>1, SnapshotType
  <2> QED
    BY <1>7, <2>1, <2>2 DEF RequestCommits, ProcessorNext, Calls
<1> QED
  BY <1>1, <1>2, <1>3, <1>4, <1>5, <1>6, <1>7
     DEF Next, vars, RequestReads, RequestFails, OpenWallet, EditLevel

(* The two commits of earn(), by the worker and by a request.              *)
Commits(m, s) ==
    /\ m \in Members /\ Loaded(m, s) /\ CanCommit(m, s)
    /\ \E row \in SavedWallets(m, s) : wallet' = [wallet EXCEPT ![m] = row]
    /\ \A k : Earned(k)' = Earned(k) + (IF k = m THEN s.amount ELSE 0)

LEMMA WorkerCredits ==
    ASSUME XpInv, WorkerCommits
    PROVE  Commits(EventMember[job], snap)
<1>1. /\ pc = "commit" /\ Loaded(EventMember[job], snap) /\ job \in Events /\ cur \in Tickets
      /\ CommitEarn(snap.amount)
  BY DEF WorkerCommits, XpInv, TypeInv, WorkerTypeOK
<1>2. ledger' = Append(ledger, Row(EventMember[job], cur.policy, job, snap.amount, "queue", cur.once))
  BY <1>1 DEF CommitEarn
<1>3. /\ EventMember[job] \in Members /\ cur.policy \in Policies \cup {None} /\ job \in Refs
      /\ snap.amount \in Amounts /\ cur.once \in BOOLEAN
  BY <1>1, SnapshotType, ProcessorAssumption DEF Tickets, Refs, Loaded
<1> QED
  BY <1>1, <1>2, <1>3, EarnedPaid DEF Commits, WorkerCommits, XpInv

LEMMA RequestCredits ==
    ASSUME XpInv, NEW r \in EarnRequests, RequestCommits(r)
    PROVE  Commits(call[r].member, call[r].snap)
<1> DEFINE c == call[r]
<1>1. /\ c \in Calls /\ ManualEarn(c.member, c.policy, c.ref, c.snap.amount)
      /\ Loaded(c.member, c.snap)
  BY DEF RequestCommits, XpInv, TypeOK
<1>2. ledger' = Append(ledger, Row(c.member, c.policy, c.ref, c.snap.amount, "http", FALSE))
  BY <1>1 DEF ManualEarn
<1>3. /\ c.member \in Members /\ c.policy \in Policies \cup {None} /\ c.ref \in Refs
      /\ c.snap \in Snapshots
  BY <1>1 DEF Calls
<1>4. c.snap.amount \in Amounts
  BY <1>3, SnapshotType
<1>5. \A k : Earned(k)' = Earned(k) + (IF k = c.member THEN c.snap.amount ELSE 0)
  <2> HIDE DEF c
  <2> QED
    BY <1>2, <1>3, <1>4, EarnedPaid DEF XpInv
<1> QED
  BY <1>1, <1>3, <1>5 DEF Commits, RequestCommits

(* The steps that write no wallet.                                         *)
LEMMA WalletWrites ==
    ASSUME [Next]_vars
    PROVE  \/ WorkerCommits
           \/ \E r \in EarnRequests : RequestCommits(r)
           \/ \E m \in Members : OpenWallet(m)
           \/ wallet' = wallet
BY DEF Next, vars, xpVars, WorkerReads, WorkerMarks, WorkerNotifies, WorkerThrows, WorkerRefused,
   WorkerSteps, ProcessCrash, Surroundings, TakeJob, RequeueJob, RequestFails, RequestReads, EditLevel

(* A wallet once there stays.                                              *)
LEMMA WalletStep ==
    ASSUME XpInv, [Next]_vars
    PROVE  /\ wallet' \in [Members -> Wallets \cup {None}]
           /\ \A m \in Members : wallet[m] # None => wallet'[m] # None
<1>1. ASSUME NEW m, NEW s, Commits(m, s)
      PROVE  \E row \in Wallets : m \in Members /\ wallet' = [wallet EXCEPT ![m] = row]
  BY <1>1, Saved DEF Commits, XpInv
<1>2. ASSUME NEW m \in Members, OpenWallet(m)
      PROVE  \E row \in Wallets : m \in Members /\ wallet' = [wallet EXCEPT ![m] = row]
  <2>1. NewWallet \in Wallets
    BY DEF NewWallet, Wallets, Levels
  <2> QED
    BY <1>2, <2>1 DEF OpenWallet
<1>3. \/ wallet' = wallet
      \/ \E m \in Members, row \in Wallets : wallet' = [wallet EXCEPT ![m] = row]
  BY <1>1, <1>2, WalletWrites, WorkerCredits, RequestCredits
<1> QED
  BY <1>3 DEF XpInv, TypeOK

LEMMA XpStep == XpInv /\ [Next]_vars => XpInv'
<1> SUFFICES ASSUME XpInv, [Next]_vars PROVE XpInv'
  OBVIOUS
<1>1. TypeInv' /\ ProcessorTypeOK'
  BY StepProcessor, TypeStep DEF XpInv, TypeInv
<1>2. /\ wallet' \in [Members -> Wallets \cup {None}]
      /\ \A m \in Members : wallet[m] # None => wallet'[m] # None
  BY WalletStep
<1>3. /\ pc # "idle" => EventMember[job] \in Members
      /\ \A r \in EarnRequests : call[r] # None => call[r].member \in Members
  BY ProcessorAssumption DEF XpInv, TypeInv, WorkerTypeOK, TypeOK, Calls
<1>4. ASSUME NEW r \in EarnRequests, call'[r] # None, call'[r] = call[r]
      PROVE  Loaded(call[r].member, call[r].snap)'
  BY <1>2, <1>3, <1>4 DEF XpInv, Loaded
<1>5. ASSUME UNCHANGED <<pc, job, snap>>, pc = "commit" PROVE Loaded(EventMember[job], snap)'
  BY <1>2, <1>3, <1>5 DEF XpInv, Loaded
<1> USE DEF XpInv, TypeOK, xpVars
<1>6. CASE WorkerReads
  <2>1. cur.amount \in Amounts /\ EventMember[job] \in Members
    BY <1>6, ProcessorAssumption DEF WorkerReads, BeginEarn, Tickets, TypeInv, WorkerTypeOK
  <2>2. Loaded(EventMember[job], snap')
    BY <1>6, <2>1, ReadByEarn DEF WorkerReads
  <2>3. Loaded(EventMember[job], snap)' /\ snap' \in Snapshots
    BY <1>6, <2>2 DEF WorkerReads, BeginEarn, Loaded
  <2> QED
    BY <1>1, <1>2, <1>4, <1>6, <2>3 DEF WorkerReads, BeginEarn
<1>7. CASE WorkerCommits
  <2>1. snap.gained \in Levels \cup {None}
    BY <1>7, SnapshotType DEF WorkerCommits, Loaded
  <2> QED
    BY <1>1, <1>2, <1>4, <1>7, <2>1 DEF WorkerCommits, CommitEarn
<1>8. CASE WorkerMarks
  BY <1>1, <1>2, <1>4, <1>8 DEF WorkerMarks, MarkDone
<1>9. CASE WorkerNotifies
  <2>1. <<EventMember[job], gained>> \in Members \X Levels
    BY <1>3, <1>9 DEF WorkerNotifies, Notify
  <2>2. levelUps' \in Seq(Members \X Levels)
    BY <1>9, <2>1 DEF WorkerNotifies
  <2> QED
    BY <1>1, <1>2, <1>4, <1>9, <2>2 DEF WorkerNotifies, Notify
<1>10. CASE WorkerThrows \/ WorkerRefused
  BY <1>1, <1>2, <1>4, <1>10 DEF WorkerThrows, WorkerRefused, Throw, WorkerIdles
<1>11. CASE WorkerSteps
  BY <1>1, <1>2, <1>4, <1>11 DEF WorkerSteps, Load, Finish, WorkerIdles, Skip, Select
<1>12. CASE ProcessCrash
  BY <1>1, <1>2, <1>12 DEF ProcessCrash, Crash, WorkerIdles
<1>13. CASE Surroundings
  BY <1>1, <1>2, <1>4, <1>5, <1>13
     DEF Surroundings, Enqueue, Drop, Expire, UpdatePolicy, UpdateActionType, workerVars
<1>14. ASSUME NEW e \in Events, TakeJob(e) \/ RequeueJob(e) PROVE XpInv'
  BY <1>1, <1>2, <1>4, <1>5, <1>14 DEF TakeJob, RequeueJob, Take, Requeue, workerVars
<1>15. ASSUME NEW r \in EarnRequests, RequestCommits(r) PROVE XpInv'
  BY <1>1, <1>2, <1>4, <1>5, <1>15 DEF RequestCommits, ManualEarn, workerVars
<1>16. ASSUME NEW r \in EarnRequests, RequestFails(r) PROVE XpInv'
  BY <1>1, <1>2, <1>4, <1>5, <1>16 DEF RequestFails, processorVars, workerVars
<1>17. ASSUME NEW r \in EarnRequests, NEW m \in Members, NEW p \in Policies \cup {None},
              NEW ref \in Refs, NEW n \in Amounts, RequestReads(r, m, p, ref, n)
       PROVE  XpInv'
  <2> DEFINE s == ReadForEarn(m, n)
             c == [member |-> m, policy |-> p, ref |-> ref, snap |-> s]
  <2>1. Loaded(m, s)
    BY ReadByEarn
  <2>2. wallet' = wallet /\ call' = [call EXCEPT ![r] = c]
    BY <1>17 DEF RequestReads
  <2> HIDE DEF s
  <2>3. c \in Calls /\ c.member = m /\ c.snap = s
    BY <2>1 DEF Calls, Loaded
  <2> HIDE DEF c
  <2>4. Loaded(c.member, c.snap) /\ UNCHANGED wallet
    BY <2>1, <2>2, <2>3
  <2>5. \A q \in EarnRequests : call'[q] = IF q = r THEN c ELSE call[q]
    BY <2>2
  <2>6. \A q \in EarnRequests : call'[q] # None => Loaded(call[q].member, call[q].snap)'
    BY <1>4, <2>4, <2>5 DEF Loaded
  <2> QED
    BY <1>1, <1>2, <1>5, <1>17, <2>2, <2>3, <2>6 DEF RequestReads, processorVars, workerVars
<1>18. ASSUME NEW m \in Members, OpenWallet(m) PROVE XpInv'
  BY <1>1, <1>2, <1>4, <1>5, <1>18 DEF OpenWallet, processorVars, workerVars
<1>19. ASSUME NEW l \in Levels, NEW row \in LevelRows \ {levels[l]}, EditLevel(l, row) PROVE XpInv'
  BY <1>1, <1>2, <1>4, <1>5, <1>19 DEF EditLevel, processorVars, workerVars
<1>20. CASE UNCHANGED vars
  BY <1>1, <1>2, <1>4, <1>5, <1>20 DEF vars, processorVars, workerVars
<1> QED
  BY <1>6, <1>7, <1>8, <1>9, <1>10, <1>11, <1>12, <1>13, <1>14, <1>15, <1>16, <1>17, <1>18,
     <1>19, <1>20 DEF Next

(* All variables of the XP queue keep their types: no wallet leaves its    *)
(* columns' ranges, no reported level the table's.                         *)
THEOREM XpTypes == Spec => []TypeOK
<1>1. XpInv => TypeOK
  BY DEF XpInv
<1> QED
  BY <1>1, XpInit, XpStep, PTL DEF Spec

(* The XP queue with everything around it implements the reward queue.     *)
THEOREM XpRefinesProcessor == Spec => ProcessorSpec
<1>1. Init => ProcessorInit
  BY DEF Init
<1> QED
  BY <1>1, XpInit, XpStep, StepProcessor, PTL DEF Spec, ProcessorSpec

(* XP is paid at most once per policy and event, and at most once per      *)
(* member under a one-time policy (docs/db-spec.md, xp_earning_policies).  *)
THEOREM XpPaidAtMostOnce == Spec => []NoDoublePay
BY XpRefinesProcessor, PaidAtMostOnce, PTL

(* A completed XP job left nothing unpaid, and no dedup key vouches for XP *)
(* that was not paid.                                                      *)
THEOREM XpPaidWhenCompleted == Spec => [](RedisOnlyIfPaid /\ CompletedMeansPaid)
BY XpRefinesProcessor, RedisHonest, CompletedJobsPaid, PTL

-------------------------------------------------------------------------------
(* The snapshot that is open after a step was open before it, or is what   *)
(* earn() reads in this one.                                               *)
LEMMA WorkerOpens ==
    ASSUME XpInv, [Next]_vars, pc' = "commit"
    PROVE  \/ UNCHANGED <<pc, job, snap>>
           \/ /\ UNCHANGED <<job, wallet, levels, levelEdits>>
              /\ EventMember[job] \in Members
              /\ \E n \in Amounts : snap' = ReadForEarn(EventMember[job], n)
<1>1. CASE WorkerReads
  BY <1>1, ProcessorAssumption
     DEF WorkerReads, BeginEarn, Tickets, XpInv, TypeInv, WorkerTypeOK
<1>2. CASE WorkerCommits \/ WorkerThrows \/ WorkerRefused \/ ProcessCrash
  BY <1>2 DEF WorkerCommits, CommitEarn, WorkerThrows, WorkerRefused, ProcessCrash, Throw, Crash,
              WorkerIdles
<1>3. CASE WorkerMarks \/ WorkerNotifies
  BY <1>3 DEF WorkerMarks, MarkDone, WorkerNotifies, Notify
<1>4. CASE WorkerSteps
  BY <1>4 DEF WorkerSteps, Load, Finish, WorkerIdles, Skip, Select
<1>5. CASE Surroundings
  BY <1>5 DEF Surroundings, Enqueue, Drop, Expire, UpdatePolicy, UpdateActionType, workerVars, xpVars
<1>6. ASSUME NEW e \in Events, TakeJob(e) \/ RequeueJob(e)
      PROVE  UNCHANGED <<pc, job, snap>>
  BY <1>6 DEF TakeJob, RequeueJob, Take, Requeue, workerVars, xpVars
<1>7. ASSUME NEW r \in EarnRequests,
             \/ RequestCommits(r) \/ RequestFails(r)
             \/ \E m \in Members, p \in Policies \cup {None}, ref \in Refs, n \in Amounts :
                    RequestReads(r, m, p, ref, n)
      PROVE  UNCHANGED <<pc, job, snap>>
  BY <1>7 DEF RequestCommits, RequestFails, RequestReads, ManualEarn, processorVars, workerVars
<1>8. CASE \/ \E m \in Members : OpenWallet(m)
           \/ \E l \in Levels : \E row \in LevelRows \ {levels[l]} : EditLevel(l, row)
           \/ UNCHANGED vars
  BY <1>8 DEF OpenWallet, EditLevel, vars, processorVars, workerVars, xpVars
<1> QED
  BY <1>1, <1>2, <1>3, <1>4, <1>5, <1>6, <1>7, <1>8 DEF Next

LEMMA RequestOpens ==
    ASSUME XpInv, [Next]_vars, NEW r \in EarnRequests, call'[r] # None
    PROVE  \/ call'[r] = call[r]
           \/ /\ r \in used' /\ call'[r].member \in Members
              /\ \E n \in Amounts : call'[r].snap = ReadForEarn(call'[r].member, n)
<1> USE DEF XpInv, TypeOK
<1>1. ASSUME NEW q \in EarnRequests, NEW m \in Members, NEW p \in Policies \cup {None},
             NEW ref \in Refs, NEW n \in Amounts, RequestReads(q, m, p, ref, n)
      PROVE  \/ call'[r] = call[r]
             \/ /\ r \in used' /\ call'[r].member \in Members
                /\ \E k \in Amounts : call'[r].snap = ReadForEarn(call'[r].member, k)
  <2>1. q = r => call'[r] = [member |-> m, policy |-> p, ref |-> ref, snap |-> ReadForEarn(m, n)]
    BY <1>1 DEF RequestReads
  <2>2. q = r => call'[r].member = m /\ call'[r].snap = ReadForEarn(m, n)
    BY <2>1
  <2> QED
    BY <1>1, <2>2 DEF RequestReads
<1>2. ASSUME NEW q \in EarnRequests, RequestCommits(q) \/ RequestFails(q)
      PROVE  call'[r] = call[r]
  BY <1>2 DEF RequestCommits, RequestFails
<1>3. CASE ProcessCrash
  BY <1>3 DEF ProcessCrash
<1> QED
  BY <1>1, <1>2, <1>3 DEF Next, vars, xpVars, WorkerReads, WorkerCommits, WorkerMarks, WorkerNotifies,
     WorkerThrows, WorkerRefused, WorkerSteps, Surroundings, TakeJob, RequeueJob, OpenWallet, EditLevel

LEMMA UsedStays ==
    ASSUME [Next]_vars
    PROVE  used \subseteq used'
BY DEF Next, vars, xpVars, WorkerReads, WorkerCommits, WorkerMarks, WorkerNotifies, WorkerThrows,
   WorkerRefused, WorkerSteps, ProcessCrash, Surroundings, TakeJob, RequeueJob, OpenWallet,
   EditLevel, RequestCommits, RequestFails, RequestReads

(* What an open earn() goes by was never more than the member's            *)
(* transactions, and these only grow.                                      *)
Open(m, s) == s.new.xp = s.old.xp + s.amount /\ s.old.xp <= Earned(m)

Credible ==
    /\ \A m \in Members : TotalXp(m) <= Earned(m)
    /\ pc = "commit" => Open(EventMember[job], snap)
    /\ \A r \in EarnRequests : call[r] # None => Open(call[r].member, call[r].snap)

LEMMA CredibleStep == XpInv /\ Credible /\ [Next]_vars => Credible'
<1> SUFFICES ASSUME XpInv, Credible, [Next]_vars PROVE Credible'
  OBVIOUS
<1>1. \A m : /\ Earned(m) \in Nat /\ Earned(m)' \in Nat /\ Earned(m) <= Earned(m)'
             /\ EarnedIn(ledger', m) = Earned(m)'
  BY EarnedStep, StepProcessor DEF XpInv, Earned
<1>2. \A m : /\ Earned(m) \in Nat /\ EarnedIn(ledger', m) \in Nat
             /\ Earned(m) <= EarnedIn(ledger', m)
  BY <1>1
<1>3. \A m \in Members : TotalXp(m) \in Nat /\ WalletOf(m).xp = TotalXp(m)
  BY WalletType DEF XpInv
<1>4. ASSUME NEW k \in Members PROVE TotalXp(k)' <= Earned(k)'
  <2>0. TotalXp(k) <= Earned(k)
    BY DEF Credible
  <2>1. ASSUME NEW m, NEW s, Commits(m, s), Open(m, s) PROVE TotalXp(k)' <= Earned(k)'
    <3>1. PICK row \in SavedWallets(m, s) : wallet' = [wallet EXCEPT ![m] = row]
      BY <2>1 DEF Commits
    <3>2. row \in Wallets /\ (row.xp = s.new.xp \/ row.xp = TotalXp(m))
      BY <2>1, <3>1, Saved DEF Commits, XpInv
    <3>3. s.amount \in Nat /\ s.old.xp \in Nat
      BY <2>1, SnapshotType DEF Commits, Loaded
    <3>4. Earned(k)' = Earned(k) + (IF k = m THEN s.amount ELSE 0)
      BY <2>1 DEF Commits
    <3>5. CASE k = m
      <4>1. TotalXp(k)' = row.xp
        BY <3>1, <3>2, <3>5 DEF TotalXp, XpInv, TypeOK
      <4> QED
        BY <1>1, <1>3, <2>0, <2>1, <3>2, <3>3, <3>4, <3>5, <4>1 DEF Open
    <3>6. CASE k # m
      <4>1. TotalXp(k)' = TotalXp(k)
        BY <3>1, <3>6 DEF TotalXp, XpInv, TypeOK
      <4> QED
        BY <1>1, <1>3, <2>0, <4>1
    <3> QED
      BY <3>5, <3>6
  <2>2. CASE WorkerCommits
    BY <2>1, <2>2, WorkerCredits DEF Credible, WorkerCommits
  <2>3. ASSUME NEW r \in EarnRequests, RequestCommits(r) PROVE TotalXp(k)' <= Earned(k)'
    BY <2>1, <2>3, RequestCredits DEF Credible, RequestCommits
  <2>4. ASSUME NEW m \in Members, OpenWallet(m) PROVE TotalXp(k)' <= Earned(k)'
    <3>1. TotalXp(k)' = TotalXp(k) \/ TotalXp(k)' = 0
      BY <2>4 DEF OpenWallet, NewWallet, TotalXp, XpInv, TypeOK
    <3> QED
      BY <1>1, <1>3, <2>0, <3>1
  <2>5. CASE wallet' = wallet
    <3>1. TotalXp(k)' = TotalXp(k)
      BY <2>5 DEF TotalXp
    <3> QED
      BY <1>1, <1>3, <2>0, <3>1
  <2> QED
    BY <2>2, <2>3, <2>4, <2>5, WalletWrites
<1>5. ASSUME NEW m \in Members, NEW n \in Amounts, NEW s, s = ReadForEarn(m, n)
      PROVE  s.new.xp = s.old.xp + s.amount /\ s.old.xp <= EarnedIn(ledger', m)
  <2>1. Computed(s) /\ s.old = WalletOf(m)
    BY <1>5, ReadByEarn DEF XpInv
  <2>2. s.old.xp = TotalXp(m) /\ TotalXp(m) <= Earned(m)
    BY <1>3, <2>1 DEF Credible
  <2> QED
    BY <1>2, <1>3, <2>1, <2>2 DEF Computed
<1>6. ASSUME NEW m, NEW s, s \in Snapshots, Open(m, s)
      PROVE  s.new.xp = s.old.xp + s.amount /\ s.old.xp <= EarnedIn(ledger', m)
  <2>1. s.old.xp \in Nat
    BY <1>6, SnapshotType
  <2> QED
    BY <1>2, <1>6, <2>1 DEF Open
<1>7. ASSUME pc' = "commit" PROVE Open(EventMember[job], snap)'
  <2>1. CASE UNCHANGED <<pc, job, snap>>
    <3>1. snap \in Snapshots /\ Open(EventMember[job], snap)
      BY <1>7, <2>1 DEF XpInv, Loaded, Credible
    <3> QED
      BY <1>6, <2>1, <3>1 DEF Open, Earned
  <2>2. CASE /\ UNCHANGED <<job, wallet, levels, levelEdits>> /\ EventMember[job] \in Members
             /\ \E n \in Amounts : snap' = ReadForEarn(EventMember[job], n)
    BY <1>5, <2>2 DEF Open, Earned
  <2> QED
    BY <1>7, <2>1, <2>2, WorkerOpens
<1>8. ASSUME NEW r \in EarnRequests, call'[r] # None PROVE Open(call[r].member, call[r].snap)'
  <2>1. CASE call'[r] = call[r]
    <3>1. call[r].snap \in Snapshots /\ Open(call[r].member, call[r].snap)
      BY <1>8, <2>1 DEF XpInv, Loaded, Credible
    <3> QED
      BY <1>6, <2>1, <3>1 DEF Open, Earned
  <2>2. CASE /\ call'[r].member \in Members
             /\ \E n \in Amounts : call'[r].snap = ReadForEarn(call'[r].member, n)
    BY <1>5, <2>2 DEF Open, Earned
  <2> QED
    BY <1>8, <2>1, <2>2, RequestOpens
<1> QED
  BY <1>4, <1>7, <1>8 DEF Credible

(* No interleaving of the worker with requests, and no column-wise save,   *)
(* makes a wallet show more XP than the member's transactions.             *)
THEOREM XpNeverInvented == Spec => []XpNeverOverCredited
<1>1. Init => Credible
  <2>1. ASSUME Init PROVE \A m : Earned(m) = 0
    BY <2>1, EarnedEmpty DEF Init, ProcessorInit, Earned
  <2> QED
    BY <2>1 DEF Init, ProcessorInit, Credible, TotalXp
<1>2. XpInv /\ Credible => XpNeverOverCredited
  BY DEF XpInv, Credible, XpNeverOverCredited
<1> QED
  BY <1>1, <1>2, XpInit, XpStep, CredibleStep, PTL DEF Spec

-------------------------------------------------------------------------------
(* While only the queue pays: the worker goes by the wallet as it is, so   *)
(* that the wallet, its level and the announcements move together.         *)
Pending ==
    pc = "commit" => snap.old = WalletOf(EventMember[job]) /\ Computed(snap)

Announcing ==
    pc \in {"mark", "notify"} /\ gained # None =>
        /\ gained <= CurrentLevel(EventMember[job])
        /\ \A i \in DOMAIN levelUps :
               levelUps[i][1] = EventMember[job] => levelUps[i][2] < gained

Undisturbed ==
    /\ \A r \in EarnRequests : call[r] # None => r \in used
    /\ QueueOnly => /\ Pending /\ Announcing
                    /\ \A m \in Members : TotalXp(m) = 0 => CurrentLevel(m) = 1
    /\ XpMatchesLedger /\ LevelReflectsXp /\ AnnouncementsRise

(* What a step of the queue makes of a wallet.                             *)
Paying(m) ==
    /\ WorkerCommits /\ m = EventMember[job]
    /\ snap \in Snapshots /\ snap.old = WalletOf(m) /\ Computed(snap)
    /\ wallet'[m] = snap.new
    /\ TotalXp(m)' = TotalXp(m) + snap.amount /\ Earned(m)' = Earned(m) + snap.amount
    /\ CurrentLevel(m)' = snap.new.level

Resting(m) ==
    /\ TotalXp(m)' = TotalXp(m) /\ CurrentLevel(m)' = CurrentLevel(m) /\ Earned(m)' = Earned(m)
    /\ WalletOf(m)' = WalletOf(m)

LEMMA QuietWallets ==
    ASSUME XpInv, Undisturbed, [Next]_vars, QueueOnly, NEW k \in Members
    PROVE  Resting(k) \/ Paying(k)
<1>1. \A r \in EarnRequests : ~RequestCommits(r)
  BY DEF RequestCommits, Undisturbed, QueueOnly
<1>2. CASE WorkerCommits
  <2> DEFINE m == EventMember[job]
  <2>1. /\ m \in Members /\ Loaded(m, snap) /\ CanCommit(m, snap)
        /\ \E row \in SavedWallets(m, snap) : wallet' = [wallet EXCEPT ![m] = row]
        /\ \A j : Earned(j)' = Earned(j) + (IF j = m THEN snap.amount ELSE 0)
    BY <1>2, WorkerCredits DEF Commits
  <2>2. snap.old = WalletOf(m) /\ Computed(snap)
    BY <1>2 DEF Undisturbed, Pending, WorkerCommits
  <2> HIDE DEF m
  <2>3. wallet' = [wallet EXCEPT ![m] = snap.new]
    BY <2>1, <2>2, Saved DEF XpInv
  <2>4. snap.new \in Wallets /\ snap.new # None /\ snap.amount \in Nat /\ snap \in Snapshots
    BY <2>1, SnapshotType DEF Loaded
  <2>5. CASE k = m
    <3>1. wallet'[k] = snap.new /\ TotalXp(k)' = snap.new.xp /\ CurrentLevel(k)' = snap.new.level
      BY <2>3, <2>4, <2>5 DEF TotalXp, CurrentLevel, XpInv, TypeOK
    <3>2. snap.new.xp = TotalXp(k) + snap.amount
      BY <2>2, <2>5, WalletType DEF Computed, XpInv
    <3> QED
      BY <1>2, <2>1, <2>2, <2>4, <2>5, <3>1, <3>2 DEF Paying, m
  <2>6. CASE k # m
    <3>1. wallet'[k] = wallet[k]
      BY <2>3, <2>6 DEF XpInv, TypeOK
    <3>2. Earned(k)' = Earned(k) + 0 /\ Earned(k) \in Nat
      BY <2>1, <2>6, EarnedStep, StepProcessor DEF XpInv
    <3> QED
      BY <3>1, <3>2 DEF Resting, TotalXp, CurrentLevel, WalletOf, NewWallet
  <2> QED
    BY <2>5, <2>6
<1>3. ASSUME ~WorkerCommits PROVE Earned(k)' = Earned(k)
  <2>1. ledger' = ledger
    BY <1>1, <1>3 DEF Next, vars, processorVars, WorkerReads, BeginEarn, WorkerMarks, WorkerNotifies,
       WorkerThrows, WorkerRefused, Throw, WorkerSteps, Load, Finish, MarkDone, Notify, Skip, Select,
       ProcessCrash, Crash, Surroundings, Enqueue, Drop, Expire, UpdatePolicy, UpdateActionType,
       TakeJob, Take, RequeueJob, Requeue, OpenWallet, RequestFails, RequestReads, EditLevel
  <2> QED
    BY <2>1 DEF Earned
<1>4. ASSUME ~WorkerCommits, NEW m \in Members, OpenWallet(m) PROVE Resting(k)
  <2>1. wallet[m] = None /\ wallet' = [wallet EXCEPT ![m] = NewWallet]
    BY <1>4 DEF OpenWallet
  <2>2. NewWallet # None /\ NewWallet.xp = 0 /\ NewWallet.level = 1
    BY DEF NewWallet, Wallets, Levels
  <2>3. wallet'[k] = IF k = m THEN NewWallet ELSE wallet[k]
    BY <2>1 DEF XpInv, TypeOK
  <2>4. WalletOf(k)' = WalletOf(k)
    BY <2>1, <2>3 DEF WalletOf, NewWallet
  <2>5. TotalXp(k)' = TotalXp(k) /\ CurrentLevel(k)' = CurrentLevel(k)
    BY <2>1, <2>2, <2>3 DEF TotalXp, CurrentLevel
  <2> QED
    BY <1>3, <1>4, <2>4, <2>5 DEF Resting
<1>5. ASSUME ~WorkerCommits, wallet' = wallet PROVE Resting(k)
  BY <1>3, <1>5 DEF Resting, TotalXp, CurrentLevel, WalletOf, NewWallet
<1> QED
  BY <1>1, <1>2, <1>4, <1>5, WalletWrites

(* So no level falls.                                                      *)
LEMMA LevelsRise ==
    ASSUME XpInv, Undisturbed, [Next]_vars, QueueOnly, NEW k \in Members
    PROVE  /\ CurrentLevel(k) \in Levels /\ CurrentLevel(k)' \in Levels
           /\ CurrentLevel(k) <= CurrentLevel(k)'
<1>1. CurrentLevel(k) \in Levels /\ WalletOf(k).level = CurrentLevel(k)
  BY WalletType DEF XpInv
<1>2. CASE Resting(k)
  BY <1>1, <1>2 DEF Resting, Levels
<1>3. CASE Paying(k)
  <2>1. snap.new.level \in Levels /\ snap.new.level >= CurrentLevel(k)
    BY <1>1, <1>3, SnapshotType DEF Paying, Computed
  <2> QED
    BY <1>1, <1>3, <2>1 DEF Paying, Levels
<1> QED
  BY <1>2, <1>3, QuietWallets

(* The level table stays while nobody edits it.                            *)
LEMMA TableStays ==
    ASSUME XpInv, [Next]_vars, levelEdits' = 0
    PROVE  levelEdits = 0 /\ levels' = levels
<1>1. levelEdits \in Nat
  BY DEF XpInv, TypeOK
<1>2. \/ UNCHANGED <<levels, levelEdits>>
      \/ levelEdits' = levelEdits + 1
  BY DEF Next, vars, xpVars, WorkerReads, WorkerCommits, WorkerMarks, WorkerNotifies, WorkerThrows,
     WorkerRefused, WorkerSteps, ProcessCrash, Surroundings, TakeJob, RequeueJob, OpenWallet,
     EditLevel, RequestCommits, RequestFails, RequestReads
<1> QED
  BY <1>1, <1>2

LEMMA ComputedStays ==
    ASSUME XpInv, [Next]_vars, NEW s, Computed(s), snap' = s
    PROVE  Computed(snap)'
<1>1. levelEdits' = 0 => levelEdits = 0 /\ levels' = levels
  BY TableStays
<1> QED
  BY <1>1 DEF Computed, LevelAfter, ReachedLevels, RemainingXp, IsActive

LEMMA PendingStep ==
    ASSUME XpInv, Undisturbed, [Next]_vars, QueueOnly
    PROVE  Pending'
<1> SUFFICES ASSUME pc' = "commit"
             PROVE  (snap.old = WalletOf(EventMember[job]) /\ Computed(snap))'
  BY DEF Pending
<1>1. CASE UNCHANGED <<pc, job, snap>>
  <2>1. PICK m \in Members : m = EventMember[job]
    BY <1>1, ProcessorAssumption DEF XpInv, TypeInv, WorkerTypeOK
  <2>2. snap.old = WalletOf(m) /\ Computed(snap)
    BY <1>1, <2>1 DEF Undisturbed, Pending
  <2>3. ~Paying(m)
    BY <1>1 DEF Paying, WorkerCommits, CommitEarn
  <2>4. WalletOf(m)' = WalletOf(m)
    BY <2>3, QuietWallets DEF Resting
  <2>5. Computed(snap)'
    BY <1>1, <2>2, ComputedStays
  <2> QED
    BY <1>1, <2>1, <2>2, <2>4, <2>5 DEF WalletOf
<1>2. ASSUME UNCHANGED <<job, wallet, levels, levelEdits>>, EventMember[job] \in Members,
             NEW n \in Amounts, snap' = ReadForEarn(EventMember[job], n)
      PROVE  (snap.old = WalletOf(EventMember[job]) /\ Computed(snap))'
  <2>1. PICK m \in Members : m = EventMember[job]
    BY <1>2
  <2>2. Computed(ReadForEarn(m, n)) /\ ReadForEarn(m, n).old = WalletOf(m)
    BY ReadByEarn DEF XpInv
  <2>3. Computed(snap)'
    BY <1>2, <2>1, <2>2, ComputedStays
  <2>4. snap'.old = WalletOf(m)
    BY <1>2, <2>1, <2>2
  <2> QED
    BY <1>2, <2>1, <2>3, <2>4 DEF WalletOf
<1> QED
  BY <1>1, <1>2, WorkerOpens

(* The places between the commit and the announcement.                     *)
LEMMA Announces ==
    ASSUME XpInv, [Next]_vars, QueueOnly, \A r \in EarnRequests : call[r] # None => r \in used
    PROVE  /\ pc' \in {"mark", "notify"} =>
                 WorkerCommits \/ (pc \in {"mark", "notify"} /\ UNCHANGED <<job, gained>>)
           /\ WorkerNotifies \/ levelUps' = levelUps
           /\ WorkerCommits => UNCHANGED <<job, levelUps>>
<1>1. \A r \in EarnRequests : ~RequestCommits(r)
  BY DEF RequestCommits, QueueOnly
<1>2. CASE WorkerReads \/ WorkerCommits \/ WorkerThrows \/ WorkerRefused \/ ProcessCrash
  BY <1>2 DEF WorkerReads, BeginEarn, WorkerCommits, CommitEarn, WorkerThrows, WorkerRefused,
              ProcessCrash, Throw, Crash, WorkerIdles
<1>3. CASE WorkerMarks \/ WorkerNotifies
  BY <1>3 DEF WorkerMarks, MarkDone, WorkerNotifies, Notify, WorkerCommits, CommitEarn, xpVars
<1>4. ASSUME WorkerSteps
      PROVE  pc' \notin {"mark", "notify"} /\ levelUps' = levelUps
  BY <1>4 DEF WorkerSteps, Load, Finish, WorkerIdles, Skip, Select, xpVars
<1>5. ASSUME Surroundings
      PROVE  UNCHANGED <<pc, job, gained, levelUps>>
  BY <1>5 DEF Surroundings, Enqueue, Drop, Expire, UpdatePolicy, UpdateActionType, workerVars, xpVars
<1>6. ASSUME NEW e \in Events, TakeJob(e) \/ RequeueJob(e)
      PROVE  /\ levelUps' = levelUps
             /\ pc' \in {"mark", "notify"} => pc \in {"mark", "notify"} /\ UNCHANGED <<job, gained>>
  BY <1>6 DEF TakeJob, RequeueJob, Take, Requeue, workerVars, xpVars
<1>7. ASSUME \/ \E r \in EarnRequests :
                    \/ RequestFails(r)
                    \/ \E m \in Members, p \in Policies \cup {None}, ref \in Refs, n \in Amounts :
                           RequestReads(r, m, p, ref, n)
             \/ \E m \in Members : OpenWallet(m)
             \/ \E l \in Levels : \E row \in LevelRows \ {levels[l]} : EditLevel(l, row)
             \/ UNCHANGED vars
      PROVE  UNCHANGED <<pc, job, gained, levelUps>>
  BY <1>7 DEF RequestFails, RequestReads, OpenWallet, EditLevel, vars, processorVars, workerVars, xpVars
<1>8. WorkerCommits => UNCHANGED <<job, levelUps>>
  BY DEF WorkerCommits, CommitEarn
<1> QED
  BY <1>1, <1>2, <1>3, <1>4, <1>5, <1>6, <1>7, <1>8 DEF Next

LEMMA AnnouncingStep ==
    ASSUME XpInv, Undisturbed, [Next]_vars, QueueOnly
    PROVE  Announcing' /\ (QueueOnly' => AnnouncementsRise')
<1>1. /\ levelUps \in Seq(Members \X Levels) /\ gained \in Levels \cup {None}
      /\ \A i \in DOMAIN levelUps : levelUps[i][1] \in Members /\ levelUps[i][2] \in Levels
  BY DEF XpInv, TypeOK
<1>2. /\ \A i \in DOMAIN levelUps : levelUps[i][2] <= CurrentLevel(levelUps[i][1])
      /\ \A i, j \in DOMAIN levelUps :
             i < j /\ levelUps[i][1] = levelUps[j][1] => levelUps[i][2] < levelUps[j][2]
  BY DEF Undisturbed, AnnouncementsRise
<1>3. ASSUME NEW k \in Members, NEW l \in Levels, l <= CurrentLevel(k) PROVE l <= CurrentLevel(k)'
  BY <1>3, LevelsRise DEF Levels
<1>4. \A k \in Members : \A i \in DOMAIN levelUps :
          levelUps[i][1] = k => levelUps[i][2] <= CurrentLevel(k)'
  BY <1>1, <1>2, <1>3
<1>5. \/ WorkerNotifies \/ levelUps' = levelUps
  BY Announces DEF Undisturbed
<1>6. Announcing'
  <2> SUFFICES ASSUME pc' \in {"mark", "notify"}, gained' # None
               PROVE  /\ gained' <= CurrentLevel(EventMember[job])'
                      /\ \A i \in DOMAIN levelUps' :
                             levelUps'[i][1] = EventMember[job'] => levelUps'[i][2] < gained'
    BY DEF Announcing
  <2>1. ~WorkerNotifies /\ levelUps' = levelUps
    BY <1>5 DEF WorkerNotifies, Notify
  <2>2. CASE WorkerCommits
    <3>1. PICK m \in Members : m = EventMember[job]
      BY <2>2, WorkerCredits DEF Commits
    <3>2. job' = job /\ gained' = snap.gained /\ pc' # pc
      BY <2>2 DEF WorkerCommits, CommitEarn
    <3>3. /\ snap \in Snapshots /\ snap.old = WalletOf(m) /\ Computed(snap)
          /\ CurrentLevel(m)' = snap.new.level
      <4>1. Paying(m) \/ (Resting(m) /\ snap.old = WalletOf(m) /\ Computed(snap))
        BY <2>2, <3>1, QuietWallets DEF Undisturbed, Pending, WorkerCommits
      <4>2. CASE Resting(m) /\ ~Paying(m)
        <5>1. Earned(m)' = Earned(m) + snap.amount /\ Earned(m)' = Earned(m)
          BY <2>2, <3>1, <4>2, WorkerCredits DEF Commits, Resting
        <5>2. snap \in Snapshots /\ snap.amount \in Nat \ {0} /\ Earned(m) \in Nat
          BY <2>2, SnapshotType, ProcessorAssumption, EarnedStep, StepProcessor
             DEF XpInv, Loaded, WorkerCommits
        <5> QED
          BY <5>1, <5>2
      <4> QED
        BY <4>1, <4>2 DEF Paying
    <3>4. snap.gained = snap.new.level /\ snap.new.level > CurrentLevel(m)
      BY <3>2, <3>3, WalletType DEF Computed, XpInv
    <3>5. snap.new.level \in Levels /\ CurrentLevel(m) \in Levels
      BY <3>3, SnapshotType, WalletType DEF XpInv
    <3>6. gained' <= CurrentLevel(m)'
      BY <3>2, <3>3, <3>4, <3>5 DEF Levels
    <3>7. \A i \in DOMAIN levelUps : levelUps[i][1] = m => levelUps[i][2] < gained'
      BY <1>1, <1>2, <3>2, <3>4, <3>5 DEF Levels
    <3> QED
      BY <2>1, <3>1, <3>2, <3>6, <3>7 DEF CurrentLevel
  <2>3. CASE pc \in {"mark", "notify"} /\ UNCHANGED <<job, gained>>
    <3>1. PICK m \in Members : m = EventMember[job]
      BY <2>3, ProcessorAssumption DEF XpInv, TypeInv, WorkerTypeOK
    <3>2. /\ gained <= CurrentLevel(m) /\ gained \in Levels
          /\ \A i \in DOMAIN levelUps : levelUps[i][1] = m => levelUps[i][2] < gained
      BY <1>1, <2>3, <3>1 DEF Undisturbed, Announcing
    <3>3. gained <= CurrentLevel(m)'
      BY <1>3, <3>2
    <3> QED
      BY <2>1, <2>3, <3>1, <3>2, <3>3 DEF CurrentLevel
  <2> QED
    BY <2>2, <2>3, Announces DEF Undisturbed
<1>7. AnnouncementsRise'
  <2> SUFFICES /\ \A i \in DOMAIN levelUps' : \A k \in Members :
                      levelUps'[i][1] = k => levelUps'[i][2] <= CurrentLevel(k)'
               /\ \A i, j \in DOMAIN levelUps' :
                      i < j /\ levelUps'[i][1] = levelUps'[j][1] => levelUps'[i][2] < levelUps'[j][2]
    <3>1. levelUps' \in Seq(Members \X Levels)
      BY XpStep DEF XpInv, TypeOK
    <3>2. \A i \in DOMAIN levelUps' : levelUps'[i][1] \in Members
      BY <3>1
    <3> QED
      BY <3>2 DEF AnnouncementsRise, CurrentLevel
  <2>1. CASE levelUps' = levelUps
    BY <1>2, <1>4, <2>1
  <2>2. CASE WorkerNotifies
    <3>1. PICK m \in Members : m = EventMember[job]
      BY <2>2, ProcessorAssumption DEF WorkerNotifies, Notify, XpInv, TypeInv, WorkerTypeOK
    <3>2. levelUps' = Append(levelUps, <<m, gained>>) /\ pc = "notify" /\ gained \in Levels
      BY <2>2, <3>1 DEF WorkerNotifies, Notify, XpInv
    <3>3. /\ gained <= CurrentLevel(m)
          /\ \A i \in DOMAIN levelUps : levelUps[i][1] = m => levelUps[i][2] < gained
      BY <3>1, <3>2 DEF Undisturbed, Announcing, Levels
    <3>4. gained <= CurrentLevel(m)'
      BY <1>3, <3>2, <3>3
    <3>5. /\ DOMAIN levelUps = 1 .. Len(levelUps) /\ Len(levelUps) \in Nat
          /\ DOMAIN levelUps' = 1 .. Len(levelUps) + 1
          /\ \A i \in DOMAIN levelUps : levelUps'[i] = levelUps[i]
          /\ levelUps'[Len(levelUps) + 1] = <<m, gained>>
      BY <1>1, <3>2
    <3>6. \A i \in DOMAIN levelUps' :
              i \in DOMAIN levelUps \/ i = Len(levelUps) + 1
      BY <3>5
    <3>7. \A i \in DOMAIN levelUps : i < Len(levelUps) + 1 /\ ~(Len(levelUps) + 1 < i)
      BY <3>5
    <3> HIDE <3>2
    <3>8. <<m, gained>>[1] = m /\ <<m, gained>>[2] = gained /\ ~(Len(levelUps) + 1 < Len(levelUps) + 1)
      BY <3>5
    <3>9. \A i \in DOMAIN levelUps' : \A k \in Members :
                levelUps'[i][1] = k => levelUps'[i][2] <= CurrentLevel(k)'
      BY <1>4, <3>4, <3>5, <3>6, <3>8
    <3>10. \A i, j \in DOMAIN levelUps' :
                i < j /\ levelUps'[i][1] = levelUps'[j][1] => levelUps'[i][2] < levelUps'[j][2]
      BY <1>2, <3>3, <3>5, <3>6, <3>7, <3>8
    <3> QED
      BY <3>9, <3>10
  <2> QED
    BY <1>5, <2>1, <2>2
<1> QED
  BY <1>6, <1>7

(* Payment by payment, the wallet stays the sum, and its level the table's.*)
LEMMA SumStep ==
    ASSUME XpInv, Undisturbed, [Next]_vars, QueueOnly, NEW k \in Members
    PROVE  /\ TotalXp(k)' = Earned(k)'
           /\ TotalXp(k)' = 0 => CurrentLevel(k)' = 1
<1>1. /\ TotalXp(k) = Earned(k) /\ TotalXp(k) \in Nat
      /\ TotalXp(k) = 0 => CurrentLevel(k) = 1
  BY WalletType DEF Undisturbed, XpMatchesLedger, XpInv
<1>2. CASE Resting(k)
  BY <1>1, <1>2 DEF Resting
<1>3. CASE Paying(k)
  <2>1. snap.amount \in Nat \ {0}
    BY <1>3, SnapshotType, ProcessorAssumption DEF Paying
  <2> QED
    BY <1>1, <1>3, <2>1 DEF Paying
<1> QED
  BY <1>2, <1>3, QuietWallets

LEMMA LevelStep ==
    ASSUME XpInv, Undisturbed, [Next]_vars, QueueOnly
    PROVE  LevelReflectsXp'
<1> SUFFICES ASSUME levelEdits' = 0, NEW k \in Members, TotalXp(k)' > 0
             PROVE  (/\ CurrentLevel(k) = LevelAfter(1, TotalXp(k))
                     /\ IsActive(CurrentLevel(k) + 1) => wallet[k].toNext > 0)'
  BY DEF LevelReflectsXp
<1>1. levelEdits = 0 /\ levels' = levels
  BY TableStays
<1>2. /\ TotalXp(k) \in Nat /\ CurrentLevel(k) \in Levels /\ 1 \in Levels
      /\ WalletOf(k).xp = TotalXp(k) /\ WalletOf(k).level = CurrentLevel(k)
  BY WalletType DEF XpInv, Levels
<1>3. Table
  BY DEF XpInv, TypeOK, Table
<1>4. TotalXp(k) > 0 => /\ CurrentLevel(k) = LevelAfter(1, TotalXp(k))
                        /\ IsActive(CurrentLevel(k) + 1) => wallet[k].toNext > 0
  BY <1>1 DEF Undisturbed, LevelReflectsXp
<1>5. ASSUME NEW x, x = TotalXp(k)', NEW l, l = CurrentLevel(k)',
             l = LevelAfter(1, x), IsActive(l + 1) => wallet'[k].toNext > 0
      PROVE  (/\ CurrentLevel(k) = LevelAfter(1, TotalXp(k))
              /\ IsActive(CurrentLevel(k) + 1) => wallet[k].toNext > 0)'
  BY <1>1, <1>5 DEF LevelAfter, ReachedLevels, IsActive
<1>6. CASE Resting(k)
  <2>1. TotalXp(k) > 0 /\ wallet[k] # None
    BY <1>6 DEF Resting, TotalXp
  <2>2. wallet'[k] # None
    BY <2>1, WalletStep
  <2>3. wallet'[k] = wallet[k]
    BY <1>6, <2>1, <2>2 DEF Resting, WalletOf
  <2> QED
    BY <1>4, <1>5, <1>6, <2>1, <2>3 DEF Resting
<1>7. CASE Paying(k)
  <2>1. /\ snap.new.xp = snap.old.xp + snap.amount /\ snap.amount \in Nat
        /\ snap.new.level = LevelAfter(snap.old.level, snap.new.xp)
        /\ snap.new.toNext = RemainingXp(snap.new.level, snap.new.xp)
        /\ snap.new.xp \in Nat /\ snap.new.level \in Levels
    BY <1>1, <1>7, SnapshotType DEF Paying, Computed
  <2> DEFINE x == snap.new.xp
             l == snap.new.level
  <2>2. /\ x \in Nat /\ TotalXp(k) <= x /\ l = LevelAfter(CurrentLevel(k), x)
        /\ x = TotalXp(k)' /\ l = CurrentLevel(k)' /\ wallet'[k].toNext = RemainingXp(l, x)
    BY <1>2, <1>7, <2>1 DEF Paying
  <2> HIDE DEF x, l
  <2>3. l = LevelAfter(1, x)
    <3>1. CASE TotalXp(k) > 0
      BY <1>2, <1>3, <1>4, <2>2, <3>1, LevelsCompose
    <3>2. CASE TotalXp(k) = 0
      BY <2>2, <3>2 DEF Undisturbed
    <3> QED
      BY <1>2, <3>1, <3>2
  <2>4. IsActive(l + 1) => RemainingXp(l, x) > 0
    BY <1>2, <1>3, <2>2, XpRemains
  <2> QED
    BY <1>5, <2>2, <2>3, <2>4
<1> QED
  BY <1>6, <1>7, QuietWallets

LEMMA UndisturbedStep == XpInv /\ Undisturbed /\ [Next]_vars => Undisturbed'
<1> SUFFICES ASSUME XpInv, Undisturbed, [Next]_vars PROVE Undisturbed'
  OBVIOUS
<1>1. QueueOnly' => QueueOnly
  BY UsedStays DEF QueueOnly
<1>2. \A r \in EarnRequests : call'[r] # None => r \in used'
  BY RequestOpens, UsedStays DEF Undisturbed
<1>3. CASE QueueOnly'
  <2>1. Pending' /\ Announcing' /\ AnnouncementsRise' /\ LevelReflectsXp'
    BY <1>1, <1>3, PendingStep, AnnouncingStep, LevelStep
  <2>2. \A k \in Members : /\ TotalXp(k)' = Earned(k)'
                           /\ TotalXp(k)' = 0 => CurrentLevel(k)' = 1
    BY <1>1, <1>3, SumStep
  <2> QED
    BY <1>2, <2>1, <2>2 DEF Undisturbed, XpMatchesLedger
<1>4. CASE ~QueueOnly'
  BY <1>2, <1>4 DEF Undisturbed, XpMatchesLedger, LevelReflectsXp, AnnouncementsRise
<1> QED
  BY <1>3, <1>4

LEMMA UndisturbedInit == Init => Undisturbed
<1> SUFFICES ASSUME Init PROVE Undisturbed
  OBVIOUS
<1>1. \A m : Earned(m) = 0
  BY EarnedEmpty DEF Init, ProcessorInit, Earned
<1>2. \A m \in Members : TotalXp(m) = 0 /\ CurrentLevel(m) = 1
  BY DEF Init, TotalXp, CurrentLevel
<1> QED
  BY <1>1, <1>2 DEF Init, ProcessorInit, Undisturbed, Pending, Announcing, XpMatchesLedger,
                    LevelReflectsXp, AnnouncementsRise

(* While only the queue pays, every wallet is the sum of the member's XP   *)
(* transactions (docs/db-spec.md:715), whatever fails, is retried or       *)
(* crashes between the read and the commit.                                *)
THEOREM XpIsTheSum == Spec => []XpMatchesLedger
<1>1. Undisturbed => XpMatchesLedger
  BY DEF Undisturbed
<1> QED
  BY <1>1, XpInit, XpStep, UndisturbedInit, UndisturbedStep, PTL DEF Spec

(* ... its level is the one the level table has for that sum, however the  *)
(* sum was made up, and the next level is still ahead.                     *)
THEOREM LevelIsTheTables == Spec => []LevelReflectsXp
<1>1. Undisturbed => LevelReflectsXp
  BY DEF Undisturbed
<1> QED
  BY <1>1, XpInit, XpStep, UndisturbedInit, UndisturbedStep, PTL DEF Spec

(* ... no step takes a level back, whatever becomes of the level table.    *)
THEOREM LevelsNeverFall == Spec => LevelNeverFalls
<1>1. XpInv /\ Undisturbed /\ [Next]_vars
        => [QueueOnly => \A m \in Members : CurrentLevel(m)' >= CurrentLevel(m)]_wallet
  <2> SUFFICES ASSUME XpInv, Undisturbed, [Next]_vars, QueueOnly, NEW m \in Members
               PROVE  CurrentLevel(m)' >= CurrentLevel(m)
    OBVIOUS
  <2> QED
    BY LevelsRise DEF Levels
<1> QED
  BY <1>1, XpInit, XpStep, UndisturbedInit, UndisturbedStep, PTL DEF Spec, LevelNeverFalls

(* ... and a member's level-up notifications announce rising levels, each  *)
(* once and none the member does not have.                                 *)
THEOREM LevelUpsRise == Spec => []AnnouncementsRise
<1>1. Undisturbed => AnnouncementsRise
  BY DEF Undisturbed
<1> QED
  BY <1>1, XpInit, XpStep, UndisturbedInit, UndisturbedStep, PTL DEF Spec

===============================================================================
