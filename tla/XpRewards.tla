------------------------------- MODULE XpRewards -------------------------------
(***************************************************************************)
(* The XP queue together with XpService: the worker pays XP through        *)
(* XpService.earn, which also raises the level, and queues a level-up      *)
(* notification for a member whose level rose.  Administrators call POST   *)
(* xp/earn and edit the level table, members open GET xp/wallet.           *)
(*                                                                         *)
(* As in PointsService, everything earn()'s transaction reads (wallet and  *)
(* level table) is one step and its commit another.  The XP processor does *)
(* not look at pointApplyable: Applyable is constantly TRUE here.          *)
(***************************************************************************)
EXTENDS RewardProcessor, Integers, FiniteSetsExt

CONSTANTS
    MaxLevel,       \* level numbers are 1 .. MaxLevel
    Thresholds,     \* values of xpThreshold
    InitialLevels,  \* the level table as seeded; None: no row
    EarnRequests,   \* the POST xp/earn calls; each is made at most once
    MaxLevelEdits   \* bound on the changes of the level table

Levels    == 1 .. MaxLevel
LevelRows == [threshold : Thresholds, active : BOOLEAN]

ASSUME XpAssumption ==
    /\ MaxLevel \in Nat \ {0}
    /\ Thresholds \subseteq Nat
    /\ InitialLevels \in [Levels -> LevelRows \cup {None}]
    /\ \A e \in Events : Applyable[e]
    /\ MaxLevelEdits \in Nat
    /\ None \notin Nat

VARIABLES
    levels,      \* DB xp_level_policies
    levelEdits,  \* changes of it so far
    wallet,      \* DB xp_wallets: None while the member has no row
    snap,        \* what the worker's earn() is about to write
    gained,      \* the level earn() reported as leveledUp, None otherwise
    levelUps,    \* "level_up" jobs added to the notification queue, in order
    call,        \* the open POST xp/earn calls
    used

xpVars == <<levels, levelEdits, wallet, snap, gained, levelUps, call, used>>
vars   == <<processorVars, xpVars>>

Wallets   == [xp : Nat, level : Levels, toNext : Int]
Snapshots == [old : Wallets, new : Wallets, gained : Levels \cup {None}, fresh : BOOLEAN, amount : Amounts]
Calls     == [member : Members, policy : Policies \cup {None}, ref : Refs, snap : Snapshots]

ASSUME NullAssumption == None \notin Wallets

-------------------------------------------------------------------------------
IsActive(l) == l \in Levels /\ levels[l] # None /\ levels[l].active

(* Mutant: LessThan for LessThanOrEqual. *)
PassedLevels(xp) == {l \in Levels : IsActive(l) /\ levels[l].threshold < xp}

(* findOne(level policy with xpThreshold <= xp, order: level DESC) *)
ReachedLevels(xp) == {l \in Levels : IsActive(l) /\ levels[l].threshold <= xp}

(* Mutant: the level follows the table downwards as well. *)
LevelOfTable(old, xp) == IF ReachedLevels(xp) # {} THEN Max(ReachedLevels(xp)) ELSE old

LevelAfter(old, xp) ==
    IF \E l \in ReachedLevels(xp) : l > old THEN Max(ReachedLevels(xp)) ELSE old

RemainingXp(level, xp) ==
    IF IsActive(level + 1) THEN levels[level + 1].threshold - xp ELSE 0

NewWallet == [xp |-> 0, level |-> 1, toNext |-> 0]

(* A wallet can be created only while level 1 is active. *)
HasWallet(m) == wallet[m] # None \/ IsActive(1)

(* XpService.earn up to its commit. *)
ReadForEarn(m, amount) ==
    LET old   == IF wallet[m] = None THEN NewWallet ELSE wallet[m]
        xp    == old.xp + amount
        level == LevelAfter(old.level, xp)
    IN  [old    |-> old,
         new    |-> [xp |-> xp, level |-> level, toNext |-> RemainingXp(level, xp)],
         gained |-> IF level > old.level THEN level ELSE None,
         fresh  |-> wallet[m] = None,
         amount |-> amount]

(* member_id is unique. *)
CanCommit(m, s) == s.fresh => wallet[m] = None

(* save(wallet) updates the columns in which the entity differs from the   *)
(* row it reloads first: the row as earn() read it, or as it is by now.    *)
SavedWallets(m, s) ==
    IF s.fresh THEN {s.new}
    ELSE {[column \in DOMAIN s.new |-> IF s.new[column] # seen[column]
                                       THEN s.new[column] ELSE wallet[m][column]] :
             seen \in {s.old, wallet[m]}}

Init ==
    /\ ProcessorInit
    /\ levels = InitialLevels
    /\ levelEdits = 0
    /\ wallet = [m \in Members |-> None]
    /\ snap = None /\ gained = None
    /\ levelUps = <<>>
    /\ call = [r \in EarnRequests |-> None]
    /\ used = {}

-------------------------------------------------------------------------------
WorkerReads ==
    /\ pc = "earn" /\ HasWallet(EventMember[job])
    /\ BeginEarn
    /\ snap' = ReadForEarn(EventMember[job], cur.amount)
    /\ UNCHANGED <<levels, levelEdits, wallet, gained, levelUps, call, used>>

(* Mutant: leveledUp compares with >=. *)
WorkerCommitsAlwaysUp ==
    /\ pc = "commit" /\ CanCommit(EventMember[job], snap)
    /\ CommitEarn(snap.amount)
    /\ wallet' = [wallet EXCEPT ![EventMember[job]] = snap.new]
    /\ gained' = snap.new.level
    /\ snap' = None
    /\ UNCHANGED <<levels, levelEdits, levelUps, call, used>>

WorkerCommits ==
    /\ pc = "commit" /\ CanCommit(EventMember[job], snap)
    /\ CommitEarn(snap.amount)
    /\ \E row \in SavedWallets(EventMember[job], snap) :
           wallet' = [wallet EXCEPT ![EventMember[job]] = row]
    /\ gained' = snap.gained
    /\ snap' = None
    /\ UNCHANGED <<levels, levelEdits, levelUps, call, used>>

WorkerMarks ==
    /\ MarkDone(IF gained # None THEN "notify" ELSE "check")
    /\ UNCHANGED xpVars

(* NotificationsService.enqueueLevelUp: a job without an id of its own. *)
WorkerNotifies ==
    /\ Notify
    /\ levelUps' = Append(levelUps, <<EventMember[job], gained>>)
    /\ gained' = None
    /\ UNCHANGED <<levels, levelEdits, wallet, snap, call, used>>

(* Mutant: without a transaction the wallet is saved and the row lost. *)
WorkerThrowsHalfway ==
    /\ pc = "commit" /\ Throw
    /\ wallet' = [wallet EXCEPT ![EventMember[job]] = snap.new]
    /\ snap' = None /\ gained' = None
    /\ UNCHANGED <<levels, levelEdits, levelUps, call, used>>

WorkerThrows ==
    /\ Throw
    /\ snap' = None /\ gained' = None
    /\ UNCHANGED <<levels, levelEdits, wallet, levelUps, call, used>>

(* The errors earn() raises by itself: no level 1, or a second wallet. *)
WorkerRefused ==
    /\ \/ pc = "earn" /\ ~HasWallet(EventMember[job])
       \/ pc = "commit" /\ ~CanCommit(EventMember[job], snap)
    /\ WorkerThrows

WorkerSteps ==
    /\ \/ Load \/ Finish
       \/ \E t \in todo : Skip(t) \/ Select(t)
    /\ UNCHANGED xpVars

TakeJob(e)    == Take(e) /\ UNCHANGED xpVars
RequeueJob(e) == Requeue(e) /\ UNCHANGED xpVars

ProcessCrash ==
    /\ pc # "idle" \/ \E r \in EarnRequests : call[r] # None
    /\ Crash
    /\ snap' = None /\ gained' = None
    /\ call' = [r \in EarnRequests |-> None]
    /\ UNCHANGED <<levels, levelEdits, wallet, levelUps, used>>

-------------------------------------------------------------------------------
(* POST xp/earn: the same earn(), without a notification afterwards. *)
RequestReads(r, m, p, ref, amount) ==
    /\ r \notin used /\ HasWallet(m)
    /\ used' = used \cup {r}
    /\ call' = [call EXCEPT ![r] = [member |-> m, policy |-> p, ref |-> ref,
                                    snap |-> ReadForEarn(m, amount)]]
    /\ UNCHANGED <<processorVars, levels, levelEdits, wallet, snap, gained, levelUps>>

RequestCommits(r) ==
    /\ call[r] # None
    /\ CanCommit(call[r].member, call[r].snap)
    /\ ManualEarn(call[r].member, call[r].policy, call[r].ref, call[r].snap.amount)
    /\ \E row \in SavedWallets(call[r].member, call[r].snap) :
           wallet' = [wallet EXCEPT ![call[r].member] = row]
    /\ call' = [call EXCEPT ![r] = None]
    /\ UNCHANGED <<levels, levelEdits, snap, gained, levelUps, used>>

(* Mutant: the same, in a request. *)
RequestFailsHalfway(r) ==
    /\ call[r] # None
    /\ wallet' = [wallet EXCEPT ![call[r].member] = call[r].snap.new]
    /\ call' = [call EXCEPT ![r] = None]
    /\ UNCHANGED <<processorVars, levels, levelEdits, snap, gained, levelUps, used>>

RequestFails(r) ==
    /\ call[r] # None
    /\ call' = [call EXCEPT ![r] = None]
    /\ UNCHANGED <<processorVars, levels, levelEdits, wallet, snap, gained, levelUps, used>>

(* getWallet *)
OpenWallet(m) ==
    /\ wallet[m] = None /\ IsActive(1)
    /\ wallet' = [wallet EXCEPT ![m] = NewWallet]
    /\ UNCHANGED <<processorVars, levels, levelEdits, snap, gained, levelUps, call, used>>

(* createLevel (level is unique), updateLevel, deleteLevel (active: FALSE) *)
EditLevel(l, row) ==
    /\ levelEdits < MaxLevelEdits /\ levelEdits' = levelEdits + 1
    /\ levels' = [levels EXCEPT ![l] = row]
    /\ UNCHANGED <<processorVars, wallet, snap, gained, levelUps, call, used>>

Surroundings ==
    /\ \/ \E e \in Events : Enqueue(e) \/ Drop(e)
       \/ \E k \in redis : Expire(k)
       \/ \E p \in Policies : \E row \in PolicyRows \ {policies[p]} : UpdatePolicy(p, row)
       \/ \E a \in ActionTypes : UpdateActionType(a, ~catalog[a])
    /\ UNCHANGED xpVars

Next ==
    \/ WorkerReads \/ WorkerCommits \/ WorkerMarks \/ WorkerNotifies
    \/ WorkerThrows \/ WorkerRefused \/ WorkerSteps \/ ProcessCrash \/ Surroundings
    \/ \E e \in Events : TakeJob(e) \/ RequeueJob(e)
    \/ \E r \in EarnRequests :
          \/ RequestCommits(r) \/ RequestFails(r)
          \/ \E m \in Members, p \in Policies \cup {None}, ref \in Refs, n \in Amounts :
                 RequestReads(r, m, p, ref, n)
    \/ \E m \in Members : OpenWallet(m)
    \/ \E l \in Levels : \E row \in LevelRows \ {levels[l]} : EditLevel(l, row)

Spec == Init /\ [][Next]_vars

(* As for the point queue. *)
Fairness ==
    /\ WF_vars(WorkerSteps) /\ WF_vars(WorkerReads) /\ WF_vars(WorkerCommits)
    /\ WF_vars(WorkerMarks) /\ WF_vars(WorkerNotifies) /\ WF_vars(WorkerRefused)
    /\ \A e \in Events : SF_vars(TakeJob(e)) /\ WF_vars(RequeueJob(e))

FairSpec == Spec /\ Fairness

-------------------------------------------------------------------------------
TypeOK ==
    /\ ProcessorTypeOK
    /\ levels \in [Levels -> LevelRows \cup {None}]
    /\ levelEdits \in 0 .. MaxLevelEdits
    /\ wallet \in [Members -> Wallets \cup {None}]
    /\ snap \in Snapshots \cup {None}
    /\ gained \in Levels \cup {None}
    /\ levelUps \in Seq(Members \X Levels)
    /\ call \in [EarnRequests -> Calls \cup {None}]
    /\ used \subseteq EarnRequests

TotalXp(m)      == IF wallet[m] = None THEN 0 ELSE wallet[m].xp
CurrentLevel(m) == IF wallet[m] = None THEN 1 ELSE wallet[m].level

(* No POST xp/earn has been made: those overwrite what they have not read  *)
(* (LevelDeserved).                                                        *)
QueueOnly == used = {}

(* total_xp is the sum of the member's XP transactions                     *)
(* (docs/db-spec.md:715) as long as only the queue pays, whatever fails    *)
(* between read and commit.                                                *)
XpMatchesLedger == QueueOnly => \A m \in Members : TotalXp(m) = Earned(m)

(* Concurrent earn() calls may lose XP, never invent it, and no wallet     *)
(* leaves its columns' ranges.                                             *)
XpNeverOverCredited == TypeOK /\ \A m \in Members : TotalXp(m) <= Earned(m)

(* Raising the level payment by payment ends where the table puts the      *)
(* total, and there is always XP left to the next level: a payment that    *)
(* crosses several thresholds at once skips none of them.                  *)
LevelReflectsXp ==
    levelEdits = 0 /\ QueueOnly => \A m \in Members : TotalXp(m) > 0 =>
        /\ CurrentLevel(m) = LevelAfter(1, TotalXp(m))
        /\ IsActive(CurrentLevel(m) + 1) => wallet[m].toNext > 0

(* No edit of the level table and no payment by the queue takes a level    *)
(* back from a member.                                                     *)
LevelNeverFalls ==
    [][QueueOnly => \A m \in Members : CurrentLevel(m)' >= CurrentLevel(m)]_wallet

(* The notifications of a member announce rising levels, each once, and    *)
(* only levels the member has.                                             *)
AnnouncementsRise == QueueOnly =>
    /\ \A i \in DOMAIN levelUps : levelUps[i][2] <= CurrentLevel(levelUps[i][1])
    /\ \A i, j \in DOMAIN levelUps :
           i < j /\ levelUps[i][1] = levelUps[j][1] => levelUps[i][2] < levelUps[j][2]

(* A member's level is one whose threshold the XP reaches (xp_threshold is *)
(* the least XP the level takes, docs/db-spec.md:702).                     *)
LevelDeserved ==
    levelEdits = 0 => \A m \in Members :
        CurrentLevel(m) > 1 => levels[CurrentLevel(m)].threshold <= TotalXp(m)

===============================================================================
