CONSTANTS
    m1 = m1  m2 = m2  e1 = e1  e2 = e2  r1 = r1  r2 = r2
    once = once  each = each  board = board
    OtherRef = OtherRef  None = None
    EventAction <- OneAction  PolicyAction <- PolicyOfBoard  InitialPolicy <- Seed
    Applyable <- AllApplyable  EventMember <- SameMember
    Members = {m1}  Events = {e1}  ActionTypes = {board}
    Policies = {once, each}  Amounts = {1, 2}
    MaxAttempts = 2  MaxStalls = 1  MaxEdits = 1  EarnRequests = {r1}
    MaxLevel = 4  Thresholds = {0, 1, 2, 4}  InitialLevels <- LowLevels  MaxLevelEdits = 1
SPECIFICATION FairSpec
CONSTRAINT OneKindOfCare
INVARIANTS
    XpMatchesLedger
    XpNeverOverCredited
    LevelReflectsXp
    AnnouncementsRise
PROPERTIES
    LevelNeverFalls
    JobsSettle
