# A TLA+ model of hamddu-backend

hamddu-backend is a NestJS service (TypeORM on PostgreSQL, Redis, BullMQ) for a
learning community: tutorials, posts and comments, challenges, points, XP and
levels, push notifications. This directory models the parts of it that keep state
under concurrency and failure: the reward pipeline, the refresh tokens, posts with
their likes and reports, notification campaigns, nicknames, and the order of the
tutorials. TLC checks small instances; TLAPS proves every safety property of the passing runs,
the step properties and the refinements for all instances. Paths below are relative to the
repository (`src/…` is the service itself).

## 1. Inventory

| Component | State | Operations | Meets | What is hard, and what makes it right |
|---|---|---|---|---|
| Reward producers: `users.service` `findOrCreate`, `boards.service` and `comments.service` `create`, `challenges.service` `create`, `watch-history.service` `createOrUpdate` | their own rows | save the row, then `RewardsService.enqueueReward` | both reward queues | A failure between the row and the queue loses the reward; one of two queues may fail. Every row that earns a reward is eventually enqueued, once. |
| Reward queues (`src/rewards/rewards.module.ts`, BullMQ) | jobs with state, attempts, stall count | add with a jobId, retry with back-off, take back stalled jobs, evict | producers, processors | At-least-once delivery. Every job is settled. |
| Point and XP processors (`src/rewards/processors/`) | Redis dedup keys; the position inside `process` | match catalog and policies, `alreadyRewarded`, `earn`, `markDone` | queue, Redis, PointsService / XpService, notifications | Crash between payment and key, partial failure over N policies, expired keys, policy edits. Nothing is paid twice; a completed job left nothing unpaid. |
| Points (`src/points/`) | wallets, transactions, policies, action types | `earn`, `getWallet`, administration | processor, administrators | Unlocked read-modify-write of the wallet. The balance is the sum of the transactions. |
| XP (`src/xp/`) | wallets with level, transactions, level table, earning policies, action types | `earn` with level-up, `getWallet`, administration | processor, administrators | As points, plus level computation, a level table edited meanwhile, and a notification after the commit. The level is the one the XP deserves and never falls. |
| Notifications (`src/notifications/`) | device tokens, campaigns, template, the notification queue | register, send, create / update / pause / resume / delete / run campaigns, level-up | XP processor, FCM | Row and scheduler changed in two steps; whole-entity save of a stale campaign; resend after a crash. A campaign that was stopped while nothing scheduled it is quiet, an announcement is sent, and once. |
| Boards, comments, likes (`src/boards/`) | posts, comments, likes, counters, media lists | create, update, delete, like, unlike | producers | Like row and counter are separate statements. The counter is the number of likes; nothing comes back. |
| Reports (`src/boards/reports.service.ts`, `comment-reports.service.ts`) | reports, `isHidden` | create, process | boards | Two administrators at once, a verdict that stops halfway. What a resolved report is about is hidden. |
| Sessions (`src/auth/`, `users.service.withdraw`) | Redis `rt:*`, `user_rts:*`, user and device rows | issue, rotate, log out, withdraw, delete an administrator | users | Check-then-delete rotation, revocation racing rotation. A token declared void is dead; every session can be revoked. |
| Nicknames (`src/nicknames/`) | `nickname_bases`, combo sequence, `users.nickname` | recommend, claim, claim with suffix | users | Concurrent claims. The walk over word pairs visits each before repeating; a claim gives the name it says. |
| Contents (`src/contents/contents.service.ts`) | rows with a position per interest | create, update, move, delete, bulk reorder, renormalise | administrators, the console | Shifts in several statements. The tutorials are 1..n in the intended order. |
| Watch history, challenges | rate per member and content; one challenge per member and content | create or update | producers | First completion rewarded once. |
| Channels, media, feedbacks | rows, R2 objects | CRUD, upload | – | Replace-all list without a transaction; orphan objects. |
| Redis client, controllers, DTOs, guards, migrations, admin web application | – | – | – | No state of their own that the above does not show. |

The service runs as **one** process (`ecosystem.config.js:6`, `instances: 1`) and
each processor has BullMQ's default concurrency of 1. Concurrency therefore
means: the asynchronous steps of one worker per queue and any number
of HTTP requests, interleaved at every `await`, over a database in READ
COMMITTED isolation, with no row lock anywhere in the code modelled here.

## 2. Modules

```
JobQueue                    one BullMQ queue (options from rewards.module.ts)
  ├ RewardProcessor         the worker common to PointProcessor and XpProcessor
  │   ├ PointRewards        + PointsService: wallets, POST points/earn, GET wallet
  │   │   └ MCPointRewards  instances for TLC
  │   └ XpRewards           + XpService: wallets, levels, announcements, POST xp/earn
  │       └ MCXpRewards
  └ Campaigns               NotificationsService and its processor
      └ MCCampaigns
RewardLedger                abstract: what a reward queue promises
RewardProducers             the requests that fill the two queues
  └ MCRewardProducers
TokenLife                   abstract: what refresh tokens promise
Sessions                    AuthService, withdrawal, devices
  └ MCSessions
Boards   └ MCBoards         BoardsService, CommentsService, the two report services
Nicknames   └ MCNicknames   NicknamesService, NicknameSequenceService
ContentOrder └ MCContentOrder  ContentsService and the drag handle of the console
RewardProcessorProofs, PointRewardsProofs, XpRewardsProofs, SessionsProofs,
BoardsProofs, CampaignsProofs, NicknamesProofs   the theorems of the module of that name
ContentsProofs              those of ContentOrder and RewardProducers
```

**JobQueue.** A job is `absent`, `waiting`, `active`, `delayed`, `completed` or
`failed`. `Add` is a no-op while the queue holds the id. `FailAttempt` is
`attempts`/`backoff` of `JOB_OPTIONS`, `Evict` is `removeOnComplete` /
`removeOnFail`. The rest is BullMQ itself, marked external in the map.

**RewardProcessor.** `pc` is where `process()` is: `load` (catalog and policies),
`check` (head of the loop), `earn`, `commit` (inside `PointsService.earn` /
`XpService.earn`), `mark` (`markDone`), `notify` (XP only). `todo` holds the
policies as they were loaded and not yet handled, `cur` the one being paid.
Any awaited call may reject (`Throw`) and the process may die at any step
(`Crash`). `ledger` is the transaction table in commit order, `redis` the set of
dedup keys. `UpdatePolicy` and `UpdateActionType` are the administrators' edits,
creation and deactivation included; `ManualEarn` is the row an administrator's POST
earn commits. The module says nothing about wallets: `ProcessorSpec` is the promise
the two wallet modules refine.

**PointRewards / XpRewards.** `earn()` is two steps: what its transaction reads
(`ReadForEarn`) and its commit; the worker's `earn` and each open request hold
what they have read in `snap` and `call`. A wallet may be inserted only while
there is none (unique `member_id`), otherwise the transaction fails
(`WorkerConflicts`, `WorkerRefused`, `RequestFails`). A process crash ends the
worker's job and all open requests together. In `XpRewards`, `SavedWallets` is
TypeORM's `save`: it updates only the columns in which the entity differs from
the row it reloads.

**RewardLedger.** A log that only grows; the queue appends a row only if it does
not duplicate one (`Duplicates`: same member and policy, and the same event or a
one-time policy). `RewardProcessor` implements it through the identity on
`ledger`.

**RewardProducers.** `at` is where a request is in its service method: `new`,
past its lookup (`insert` or `update`), `saved`, `adding` (both adds of
`enqueueReward` sent), or ended with success, 409 or an error. Three of the
methods look up a row (`Find`, `FindNothing`) and insert or update it in later
steps; the unique indexes are the guard of `Insert`, and `Conflict` is the error
they raise. `Update` compares the new watch rate with the one the lookup read.
An add that fails lets the request fail while the other add still arrives
(`Promise.all`). A crash ends every request. `queued` says for which rows a job
was ever added; what becomes of it is JobQueue's and RewardProcessor's matter.

**Sessions.** `owner` is the Redis key `rt:<hash>`, `tracked` the set
`user_rts:<user>`; each Redis command and each SQL statement is a step, so `req[r].at`
is the call a handler is about to make: rotation is `del`, `srem`, `set`, `add`,
`answer`; withdrawal is `update`, `devices`, `list`, `keys`, `purge`; deletion of an
administrator is `find`, `list`, `purge` (one DEL for keys and set), `row`.
`Login`, `Withdraw` and the others check the account when they start, as
`JwtStrategy.validate` does, and never again. `Fail` ends a request anywhere,
`Expire` is the TTL. Not in the code and kept to state the properties: `issued` (for whom a
token was made), `handed` (tokens a client has received), `voided` (tokens an answer
declared void), `erased`.

**TokenLife.** A token is `unused`, `live` or `dead`, in this order, and may be declared
void only when dead. `Sessions` implements it with `Life` computed from the Redis keys.

**Boards.** A like is lookup, row, counter; an edit is clearing the media, attaching the
new list, writing the text; a verdict is finding the report, hiding, setting the status;
each step is one SQL statement, without a transaction around them, as in the services. The unique
indexes on likes and reports are the guards of `InsertLike` and `File`. Posts and
comments share the actions wherever the two services do the same; the guards that
differ (who may edit, what `findById` sees) are `Visible` and `Edit`.

**Campaigns.** `row` is the status column, `scheduler` the set of job schedulers, the
queue is JobQueue with the campaign's id as the job's. A request is at `save`,
`unschedule`, `schedule`, `delete` or `answer`; `After` is the order in which each handler
makes these calls. `Save` writes the status that was read, as `save()` of the whole
entity does, and brings a deleted row back; `UnscheduleError` is the swallowed error of
`removeJobScheduler`. Not in the code are `firm` and `clean`, which say what overlapped a request
(nothing that schedules its campaign; nothing at all), and the sets `muddled`, `stopped` and
`disturbed`, which the properties make their exceptions with. The worker finds the campaign,
sends, saves `SENT`, finishes.

**Nicknames.** A name is the pair of its words followed by the numbers appended to it.
`Walk` is the order of `generateBaseNickname` for each size of the word pools.
`Check` and `Write` are the two halves of the claiming UPDATE: its NOT EXISTS sees a
snapshot, the unique index decides.

**ContentOrder.** `Match`, `Shift` and `SetMoved` are `updateSortOrder`: the shifting UPDATE finds its rows and
looks at them again when it has the locks (READ COMMITTED), then a second UPDATE sets the position.
`RemoveRow`, `SortAfresh`, `Number` are deletion and renormalisation. `Drag` sends what the
console shows, rearranged with `arrayMove`. `order` is not in the code: the order the
requests were meant to bring about, or `Null` after requests overlapped, failed, or
asked for a position that leaves a gap. A deletion is meant to leave the numbered tutorials as
they were and to append the unnumbered ones. Its names differ from those of `RewardProducers`
(`OrderInit`, `OrderSpec`, …) because one module proves theorems about both.

### Abstractions

- An event stands for its `(refType, refId)`, which fixes member and action; a
  jobId is an event. Each reward queue is modelled alone, with its own copy of the
  enqueue (an event may be enqueued whenever its job is absent), which contains
  whatever `RewardProducers` can add. There, a row has the name of the request
  that inserted it, and a watch rate is only below 100 or not.
- `balance` and `totalEarned` are one number (they get the same increment, and
  no code spends points). Descriptions, expiry dates and pagination are left out.
- Reads of one kind that follow each other are one step: catalog then policies;
  Redis then the table in `alreadyRewarded` (only the worker adds keys, and rows
  never go away, so the merged step sees what the two calls can see); policy and
  wallet in `earn`; wallet and level table in `XpService.earn`. Save and insert of
  `earn` are one commit. The reload of `save` happens at the read or at the commit.
- `GET wallet` is its insert; the lookup before it only avoids it. Its
  recomputation of `xpToNextLevel` is not stored and is left out.
- `by` and `once` in a row are not columns: they tell queue rows from
  administrators' rows and remember the flag the payment was made under.
- A job's attempt and stall counters are reset when it settles (nothing reads
  them afterwards). A lock that lapses while the worker is still alive is not
  modelled: with one worker of concurrency 1 the job is then run again after it.
- XP is not subject to `pointApplyable`; `XpAssumption` makes `Applyable` true.
- `Sessions`: accounts exist from the start; a failed GET of a token changes nothing and is no
  step. The access token is only the fact that a request has started.
- `Boards`: a like on a post whose counter has drifted is left alone (nothing is said of it any
  more). Lookups that precede a write and lead only to an error are the guard of the
  request. A list of media is one value, and `attached` holds the lists whose rows are
  there. Requests do not remember who edits, deletes or judges: nothing reads it later.
- `Campaigns`: time is abstract (a delayed announcement may run at any moment after it was
  scheduled), a batch's scheduler keeps one job at a time, `sent` counts up to 2,
  `CANCELED` is never set by the code. Receivers and FCM are the one step `Send`.
- `Nicknames`: a suffix is one element of the sequence: "a b2" with 2 is not told from "a b" with
  22. `MaxLength` is the number of elements, for the 30 characters. The word pools are
  not empty and do not change while the service runs.
- `ContentOrder`: one interest; titles, media and channels are left out.

## 3. Properties

| Property | Says |
|---|---|
| `NoDoublePay` | No two rows of the queue pay one event under one policy, and none follows another of the same member if it was made under a one-time policy – with crashes, retries, evicted and re-added jobs, expired keys and policies switched between the kinds. |
| `RedisOnlyIfPaid` | A dedup key in Redis stands for a committed row, so skipping on it never loses a payment. |
| `CompletedMeansPaid` | A job that completed left no matching policy unpaid (while nobody edited the policies). |
| `WalletMatchesLedger`, `XpMatchesLedger` | The wallet is the sum of the member's transactions, while only the queue pays. |
| `NeverOverCredited`, `XpNeverOverCredited` | With administrators' requests in between, the wallet never exceeds that sum. |
| `LevelReflectsXp` | Of a member that was paid, the level computed payment by payment is the table's level for the total, and XP remain to the next active level. |
| `LevelNeverFalls` | Step property: no step of the queue, and no edit of the level table, lowers a level. |
| `AnnouncementsRise` | Announcements of a member name rising levels, each once, that the member has. |
| `PaidOrGivenUp`, `JobsSettle` | Liveness: a waiting job is paid or given up; every job leaves the flight, policy and level edits included. |
| `ProcessorSpec`, `LedgerSpec` | Refinement: the wallet modules implement `RewardProcessor`, which implements `RewardLedger`. |
| `OneRewardPerSubject` | However requests race, an account, a challenge and a watch record have one row and so one job per queue. |
| `OnlyEarnedRewards` | Only committed rows and completed tutorials are queued. |
| `AnsweredMeansQueued` | A request that answered success after inserting a rewarded row has its job in both queues. |
| `RewardQueued` | Liveness: a rewarded row gets both jobs unless a request about it failed. |
| `SessionsRevocable` | The live token of an active member that a client holds is in the set a withdrawal lists, whatever failed between key and set. |
| `VoidIsDead`, `TokenLifeSpec` | A token that a rotation, logout or withdrawal declared void is dead and stays dead; the Redis commands implement `TokenLife`. |
| `ErasedForGood` | A withdrawal that no other request of the member overlapped leaves no set, no device and no token in a client's hands. |
| `LikesCounted` | The counter is the number of likes up to the requests between row and counter, unless one failed there or two unlikes found the same like. |
| `MediaOfOneEdit` | Edits that did not interleave leave the media of one of them, or none. |
| `ResolvedIsHidden` | What a resolved report is about is hidden, in whatever order it is deleted, edited and judged, and wherever a verdict stops. |
| `GoneForGood` | Step property: nothing deleted or hidden comes back. |
| `Agreed` | A batch has a scheduler exactly while its row is ACTIVE, unless requests overlapped or failed since the last pause, resume or deletion that did not. |
| `StoppedIsQuiet` | A run that reads a campaign after it was paused or deleted does not send it, although due jobs survive and edits, pauses and deletions that overlap write back what they read. Two cases are excluded, because there the code does send: a create, a resume, or an update that read the campaign running was open at the same time, and a deleted announcement's job was in flight at the answer. |
| `SentOnceUndisturbed` | An announcement is sent once unless its run failed after the send or ended while a request that schedules it was open. |
| `ScheduledIsSent` | Liveness: a scheduled announcement is sent, given up or deleted unless requests on it overlapped or failed. |
| `WalkCoversPool` | The walk visits every pair of words before it repeats, for every size of the pools. |
| `IssuedDiffer` | Recommendations less than a round apart differ, whatever is claimed meanwhile. |
| `SuffixesDiffer` | Two requests never try one suffix of one base. |
| `RequestsEnd` | Liveness: no loop over suffixes goes on for ever. |
| `InOrder` | The tutorials are numbered 1..n as the requests put them, as long as requests do not overlap, and again after one reordering or deletion that nothing overlaps. |
| `FromOne` | Whatever overlaps, no position falls below 1. |

`TypeOK` is checked with each module: by itself where it is proved or listed, as a conjunct of
`XpNeverOverCredited`, `Agreed`, `SuffixesDiffer` and `FromOne` otherwise.

## 4. Runs

| Run | Instance | Checks |
|---|---|---|
| `points_queue` | 1 member, 2 events, a one-time and a repeating policy, fair; 0.11 M states | `TypeOK`, `RedisOnlyIfPaid`, `WalletMatchesLedger`, `ProcessorSpec`, `LedgerSpec`, `PaidOrGivenUp` |
| `points_races` | 2 members with an event each, a one-time policy, 1 request, 1 edit; 2.9 M states | `NoDoublePay`, `CompletedMeansPaid`, `NeverOverCredited` |
| `xp_queue` | 1 event, policies worth 2 and 1 XP, levels at 0, 1, 2 and one to be created, 1 request, 1 edit of a policy or a level, fair; 0.22 M states | `XpMatchesLedger`, `XpNeverOverCredited`, `LevelReflectsXp`, `AnnouncementsRise`, `LevelNeverFalls`, `JobsSettle` |
| `producers` | 3 watch requests for one tutorial, the second below 100 %, and a challenge sent twice, fair; 0.16 M states | `TypeOK`, `OneRewardPerSubject`, `OnlyEarnedRewards`, `AnsweredMeansQueued`, `RewardQueued` |
| `sessions` | 1 member, 2 administrators, 2 tokens, 1 device, 2 requests at a time; 0.26 M states | `TypeOK`, `SessionsRevocable`, `VoidIsDead`, `ErasedForGood`, `TokenLifeSpec` |
| `boards` | a post and a comment, 1 member, 1 administrator, 3 media lists, 2 requests at a time; 1.3 M states | `TypeOK`, `LikesCounted`, `MediaOfOneEdit`, `ResolvedIsHidden`, `GoneForGood` |
| `campaigns` | 1 campaign of either type, 5 requests, 2 at a time, fair; 0.4 M states | `Agreed`, `StoppedIsQuiet`, `SentOnceUndisturbed`, `ScheduledIsSent` |
| `nicknames` | 2 members, 4 requests, 2 at a time, pools of 1, 6 and 194 pairs, fair; 0.2 M states | `WalkCoversPool`, `IssuedDiffer`, `SuffixesDiffer`, `RequestsEnd` |
| `contents` | 3 tutorials and a content of another type, 3 requests, 2 at a time, positions up to 4; 0.57 M states | `InOrder`, `FromOne` |
| `xp_lost_update` | the worker and 1 request | finding: `LevelDeserved` fails |
| `nicknames_taken` | as `nicknames` | finding: `ClaimsHold` fails |
| `contents_drag` | as `contents` | finding: `DragAccepted` fails |

**Bounds.** `MaxAttempts = 2` (the code has 3): one failed attempt and one retry
already separate the first, a middle and the last attempt's outcomes, since the
worker keeps nothing between attempts; `MaxStalls = 1` is BullMQ's default.
Two events of one member are what one-time and repeating policies differ on, and
evicted jobs can be enqueued again without bound. Two policies are the least for
which a job can be half paid. Levels at 0, 1 and 2 with payments of 1 and 2 let
a payment reach no level, land on a threshold, or cross one. `MaxEdits` and
`MaxLevelEdits` bound the administrators' changes, each POST earn is made at most
once (`used`). Three watch requests are the least with a lower rate between two
completions, two of a kind the least that race; sign-ups race as challenges do
and posts do not, so TLC leaves them to the theorems. Two requests at a time are
the least that interleave, and in `sessions` and `boards` they may follow each other without
bound; two tokens are one and the one it is rotated into. `MaxRequests` bounds the
requests of the other modules: five on a campaign are create, stop, resume and two that
overlap; three on the contents are two that overlap and one that repairs. A pool of 194 pairs is the
smallest of two words by 97, which makes the search for a coprime step go on.

**Constraints.** `OneKindOfCare` (`xp_queue`): in one behaviour administrators pay, edit a
level, or edit a policy, not two of these. `QuietAdmins` (`sessions`): the second
administrator is only there to delete the first, who neither withdraws nor has a
device. `QuietComments` (`boards`): the comment is only reported; its likes and edits are
a post's. These are all the constraints. Requests are interchangeable (`SYMMETRY`) in
`sessions`, `boards` and `contents`, where no liveness is checked, as are the tokens and
the media lists. Deadlock is not checked where the system may stop: in `producers`,
`campaigns`, `nicknames` and `contents` requests are finitely many, and in `sessions` every account may be
gone.

**Fairness.** `WF` on the worker's own steps: the event loop resumes `process()`
whenever an awaited call has answered. `WF` on `RequeueJob(e)` and `Requeue(c)`: BullMQ moves a
delayed job when its back-off ends and the stalled check runs on a timer. `SF` on
`TakeJob(e)` and `Run(c)`: the queue is first-in first-out, so a waiting job is not passed over
for ever by others that keep arriving. For the producers, campaigns and nicknames, `WF` on each request's
own steps, and for the producers on the answer, good or bad, of each add. Errors, crashes, requests, edits, expiry
and eviction are never owed. A process that crashes is restarted by pm2
(`autorestart`); stalls and attempts are bounded, so crashes and errors cannot
keep a job in flight for ever. `Sessions`, `Boards` and `ContentOrder` have no fairness: only
safety is claimed of them.

**Mutants.** Definitions commented "Mutant" are the plausible bugs with which each
property of each passing run is known to fail (a lookup dropped, `markDone` moved
before `earn`, the `catch` that does not rethrow, SADD forgotten, `save()` for
`update()`, `<` for `<=`, …). No specification uses them.

## 5. Findings

1. `xp_lost_update`: `XpService.earn` (`src/xp/xp.service.ts:122-174`) reads the wallet
   without a lock and saves the columns that changed; two concurrent calls lose an
   increment, total and level can come from different calls, and a member holds a level
   the XP does not reach (`docs/db-spec.md:702`).
2. `nicknames_taken`: `claimNicknameForUser`
   (`src/nicknames/nickname-sequence.service.ts:59`) judges an UPDATE by the length of what
   `query()` returns, which is 2 for TypeORM's pair of rows and count: a claim of a taken
   name counts as made, no suffix is tried (`docs/api/03-nicknames.md:109`), and the member
   is told a name he does not have.
3. `contents_drag`: the console sends the active tutorials it shows
   (`admin/src/app/(dashboard)/contents/tutorials/page.tsx:250`); `reorderTutorials` demands all
   of them (`docs/api/06-contents.md:455`), so with one inactive tutorial every drag is refused.
   The property looks at the step that sends the list: it is what `findTutorials` would answer
   at that moment and no other request is open. TLC's counterexample adds a tutorial, makes it
   inactive and drags one of the others.

### Observations

Disagreements and losses that the models contain, or that were met while reading, and that no
run reports:

- The lost update of finding 1 also exists for points (`src/points/points.service.ts:121`, against
  `docs/db-spec.md:631`); there it only loses points, which `NeverOverCredited` allows.
- A level-up is announced after the payment committed; an error or crash in between
  loses the announcement (`src/rewards/processors/xp.processor.ts:74`, against
  `docs/api/19-notifications.md:9`). `POST xp/earn` raises levels and never announces them.
- A challenge saved without its reward is answered 409 when it is sent again
  (`src/challenges/challenges.service.ts:124`, against `README.md:20`).
- `POST earn` does not deduplicate: the worker and an administrator may both pay one event. A
  policy deactivated while a job is under way is still paid by it.
- Two concurrent requests, or a lower rate in between, complete a tutorial twice
  (`src/contents/watch-history.service.ts:70`); only the processor keeps the second job from
  being paid.
- One refresh token rotated by two overlapping requests gives two live pairs
  (`src/auth/auth.service.ts:61`); a session made while a withdrawal lists the tokens survives it;
  `deleteAdminUser` may fail between tokens and row; two administrators may delete each
  other; PATCH of the status to WITHDRAWN revokes nothing; `user_rts:*` has no TTL and
  only grows.
- The verdicts of two administrators may leave a post hidden with its report rejected
  (`docs/api/14-admin-reports.md:182`).
- An announcement is sent again when the save of SENT fails; a failure between unschedule and
  schedule of an update loses it; the save of an update that read a campaign before it was
  paused or deleted brings it back as it was, and it is sent. The deletion of an
  announcement that is being sent is undone by the save of SENT, and if its run fails after
  that it is sent again. These are the cases `StoppedIsQuiet` excludes.
- A nickname claim that overlaps the member's withdrawal writes to the anonymised row. A base of 30
  characters with a suffix is refused with 400. With an empty word pool the search for a
  step, and with too few pairs `getCandidates`, would not end.
- A move past the last position, or of a content that is no tutorial, leaves a gap until
  the next deletion or reordering.
- `replaceLinks` of channels has the race of the media of a post without a property of its own; an
  upload whose row fails leaves an orphan object; `sendToUser` deletes invalid device tokens by value.
- In the console, `src/lib/auth.ts` refreshes without the refresh token, and the option without
  a channel sends an empty id, which is refused.

## 6. Proofs

All theorems are for every value of the constants that meets the named
assumptions: `JobQueueAssumption`, `ProcessorAssumption`, `PointAssumption`,
`XpAssumption`, `ProducerAssumption`, `SessionsAssumption`, `BoardsAssumption`,
`CampaignsAssumption`, `NicknamesAssumption`, `ContentOrderAssumption` (amounts are positive,
functions have their domains, users, contents and open requests are finitely many, the word
pools are not empty, a list names nothing twice), and `NoneIsNoRequest`, `NullAssumption`
(`None` and `Null` are values of their own). In particular they hold
for any number of members, events, policies, levels, attempts, tokens, posts, campaigns,
words, contents, positions, requests and edits.

**The queue and its ledger** (RewardProcessorProofs)

- `LedgerSafe`: the guard of the abstract `RewardLedger` implies `NoDoublePay`.
- `ProcessorTypes`: `ProcessorSpec => []ProcessorTypeOK`.
- `ProcessorRefinesLedger`: `ProcessorSpec => LedgerSpec`. Neither
  `ProcessorTypeOK` nor `NoDoublePay` is inductive: at the commit one must know
  that no duplicate row appeared since the check. The invariant added says that
  between `check` and `commit` the ledger has no queue row that the payment in
  hand would duplicate (`CurFresh`); it is stable because only this worker appends queue rows.
  Nothing about Redis is needed: the database lookup alone carries safety.
- `PaidAtMostOnce`: from the two above.
- `RedisHonest`: every key stands for a row; its strengthening says that at `mark`
  the row of the payment in hand is in the ledger (`CurPaid`).
- `CompletedJobsPaid`: the invariant says that while `edits = 0` each matching
  policy of the job being processed is in `todo`, in hand, or in the ledger
  (`NonePassedOver`), and uses `RedisHonest` where a policy is skipped on a key.
- Lemmas on sums. `Earned` is a recursive function over the ledger, and the theorems of
  the library that show such a function to exist take an operator. Induction is therefore
  said of sets: a set of numbers that holds 0 and every successor holds all (`Induction`, from
  the least element of a set, `Least`). With it the running sums of every ledger exist (`SumsExist`) and two ledgers agree as far
  as their rows do (`SumsAgree`), so that a row appended adds its credit (`EarnedAppend`).

**Points** (PointRewardsProofs)

- `PointTypes`, `PointsRefineProcessor`: every step is a step of `RewardProcessor` or leaves its
  variables alone, so `PointsPaidAtMostOnce` and `PointsPaidWhenCompleted` follow.
- `PointsNeverOverCredited`: the balance alone is not inductive, since a commit writes what was
  read plus the amount. What the worker and every open request have read must be credible
  (`Credible`): no more than the member's transactions, which only grow.
- `WalletsMatchLedger`: while no request has been made, what the worker has read is the
  balance, or it found no wallet and there still is none with points (`Exact`). The theorem is
  for `used = {}`; the run has no such requests.

**XP and levels** (XpRewardsProofs)

- `XpTypes`, `XpRefinesProcessor`, `XpPaidAtMostOnce`, `XpPaidWhenCompleted`: as for points. The
  invariant of the types (`XpInv`) also says that the wallet an open `earn()` has read is there
  to be saved, unless the call inserts it itself.
- `XpNeverInvented`: as `Credible`.
- `XpIsTheSum`, `LevelIsTheTables`, `LevelsNeverFall`, `LevelUpsRise`: from one invariant,
  `Undisturbed`. While only the queue pays, the worker is about to write what the member's
  wallet, as it still is, makes of the payment under the table (`Pending`), and an announcement still to be added names a level
  the member has and none before it reached (`Announcing`). Each of the four needs the lemmas
  on the table: the highest reached level exists (`Highest`), a payment never lowers a level
  (`LevelRises`), paying twice ends where paying the total at once does (`LevelsCompose`), and XP
  remain to the next active level (`XpRemains`).

**Producers** (ContentsProofs)

- `ProducerTypes`, `OneRewardEach`, `OnlyEarned`, `AnsweredQueued`: from one
  invariant of the producers. None of the four is inductive: a request between
  its lookup and the queue must be known to be about a committed row
  (`LookupHonest`, `RewardsRows`), a row's own request to be past its insert
  (`InsertsAlone`), and each unanswered add to be pending (`AddsAccounted`).

**Tokens** (SessionsProofs)

- `VoidStaysDead`: in the abstract life of `TokenLife` a token declared void is dead.
- `SessionTypes`, `AlwaysRevocable`, `AlwaysDead`, `RedisImplementsTokenLife`: from one
  invariant, `IInv`. Neither `SessionsRevocable` nor `VoidIsDead`
  is inductive: a request about to answer must be known to have put its fresh token into
  the set or deleted the old key (`AllKnow`), and a withdrawal about to answer to have
  listed, or found dead, every token its member's clients held before
  (`AllCaught`), which itself needs that keys belong to the user they were issued for
  (`Owned`). `StepsOnward` collects what no step undoes: a dead token stays dead, an issued
  one keeps its owner.
- `WithdrawnForGood`: that nothing survives a withdrawal no other request overlapped needs that
  it is in fact alone (`NobodyElse`), that all its member's clients hold was there when it
  began and no device came after it dropped them (`CleanSweep`), and that nobody is left to
  bring something back (`GoneQuiet`), since every request needs an active account to start.

**Posts** (BoardsProofs)

- `BoardTypes`, `AlwaysHidden`, `NothingReturns`, `LikesAlwaysCounted`, `MediaAlwaysOfOneEdit`:
  from one invariant, `IInv`, of any number of requests. `ResolvedIsHidden`
  is not inductive: a verdict about to write its status must be known to have hidden the
  post (`HidesFirst`), and nothing may unhide it. `MediaOfOneEdit` needs that an edit
  between clearing and attaching is alone there and finds the post without media
  (`EditsAlone`). `LikesCounted` needs that a request about to remove a like finds it and
  alone does so (`RemovesOwn`), and that the like rows are finitely many; each of the three
  steps then moves one row or one request from one side of the equation to the other, and
  every other step is quiet (`QuietStep`).

**Campaigns** (CampaignsProofs)

- `CampaignTypes`, `RowAndSchedulerAgree`, `StoppedStaysQuiet`, `SentAtMostOnce`: from one
  invariant, `IInv`. A request is only where its handler has a call to make (`Placed`). `Agreed`
  speaks of campaigns without open requests; to be inductive it has to say, call by call, what a
  request that went through so far has done to row and scheduler (`Written`, `Arranged`), and
  that a clean one is the only one (`AllAlone`). `StoppedStaysQuiet` speaks of the campaigns in
  `stopped`, those whose pause or deletion was `firm`: no request that schedules the campaign
  was open with it, and no job of a deleted announcement was left in flight. Others may have
  been open, so what a firm pause or deletion has taken out of the row must be known to stay
  out whatever they write back (`AllFirm`); then a stopped campaign has
  no row that would be sent, no announcement job, and no open request that would make one
  (`AllStopped`). A sent announcement must be known to have its run waiting to save it, or to be
  SENT without a job (`AllOver`).

**Nicknames** (NicknamesProofs)

- `WalkIsWhole`: the walk visits every pair of words for every two sizes of the pools. The step is
  coprime to their product (`StepIsCoprime`: the greatest common divisor the code tests is the
  greatest number that divides both). By Euclid's lemma (`DividesFactor`, from the least
  multiple of the step that the product divides) two multiples of such a step differ modulo the
  product (`StepsDiffer`); a one-to-one map of a finite set into itself reaches all of it
  (`WalkReaches`); and places and pairs of words correspond one to one (`Pairs`).
- `RecommendedOnce`: that walk, with the invariant that every recommendation is the words of its
  place, alone or with one number (`Recommending`).
- `SuffixedOnce`: two requests could meet only if one were given a number that an other holds;
  the numbers in use are below the base's counter (`Counted`), which never falls.

**The order of the contents** (ContentsProofs)

- `TutorialsInOrder`, `PositionsFromOne`: from one invariant, `OrderInv`. `InOrder` speaks of
  moments without open requests; to be inductive it has to say, for a request that is alone,
  what its statements so far have left of the order (`Under`): until the first one the
  tutorials are where the order has them (`Ordered`), after the shift of a move all others are
  where they are to be (`OrderedFor`), after the deletion of a row all others are where they were
  (`OrderedBut`). That who is taken for alone is alone is `OneAtATime`; `Comes`, `GoesOn`, `Goes`
  and `AtOnce` say once what opening, resuming and ending a request do to the others.
- A move is right because taking an item out of a list and putting it in again elsewhere gives
  every other one the place to which the shifting UPDATE has moved it (`MovedTo`, by the
  cases of `ShiftedTo`). The lemmas before it say what the library's `RemoveAt` and `InsertAt` do
  place by place.
- A renormalisation is right because a list sorted by position begins with the numbered contents
  in the one order that rising positions allow (`InLine`): of the places where the two lists
  differed, take the least. So what a deletion was meant to leave is what it numbers
  (`AsItWas`).
- `PositionsFromOne` holds whatever overlaps, since the rows are looked at again under their
  locks: the UPDATE that subtracts only meets positions above one that counts from 1
  (`ShiftKeeps`).

### Only model-checked

- Liveness (`PaidOrGivenUp`, `JobsSettle`, `RewardQueued`, `ScheduledIsSent`, `RequestsEnd`):
  fairness and ENABLED are outside the prover.
- The three findings, which are counterexamples.

## 7. Not modelled

- Of modelled components: the categories of the boards (CRUD); the level-up template and
  `sendToUser`; passwords, surveys, profile pictures, changes of role and status,
  creation of users in `Sessions` (it is in `RewardProducers`).
- Channels, media and feedbacks: CRUD and storage I/O around single inserts.
- The admin web application beyond the drag handle: a user interface over the HTTP API,
  without state that outlives a page.
- Controllers, DTOs, guards, configuration, migrations, entities: what they guarantee
  (positive amounts, unique columns, one process) is an assumption or a guard of the
  models. They, with the console, are most of the repository's lines; a
  transition system of them would only restate routes, validators and columns.
- A second process, a lapsed lock, and a failing BullMQ or Redis server that loses data: the
  deployment has one process, and no code handles the others.
