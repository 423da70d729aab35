CONSTANTS
    m1 = m1  m2 = m2  e1 = e1  e2 = e2  r1 = r1  r2 = r2
    once = once  each = each  board = board
    OtherRef = OtherRef  None = None
    EventAction <- OneAction  PolicyAction <- PolicyOfBoard  InitialPolicy <- Seed
    Applyable <- AllApplyable  EventMember <- SameMember
    Members = {m1}  Events = {e1}  ActionTypes = {board}
    Policies = {once}  Amounts = {1, 2}
    MaxAttempts = 2  MaxStalls = 1  MaxEdits = 0  EarnRequests = {r1}
    MaxLevel = 3  Thresholds = {0, 2, 3}  InitialLevels <- ThreeLevels  MaxLevelEdits = 0
SPECIFICATION Spec
INVARIANT
    LevelDeserved
