CONSTANTS
    m1 = m1  m2 = m2  e1 = e1  e2 = e2  e3 = e3  r1 = r1  r2 = r2
    once = once  each = each  board = board
    OtherRef = OtherRef  None = None
    EventAction <- OneAction  PolicyAction <- PolicyOfBoard  InitialPolicy <- Seed
    Applyable <- AllButThird  EventMember <- SameMember
    Members = {m1}  Events = {e1, e2}  ActionTypes = {board}
    Policies = {once, each}  Amounts = {1}
    MaxAttempts = 2  MaxStalls = 1  MaxEdits = 0  EarnRequests = {}
SPECIFICATION FairSpec
INVARIANTS
    TypeOK
    RedisOnlyIfPaid
    WalletMatchesLedger
PROPERTIES
    ProcessorSpec
    LedgerSpec
    PaidOrGivenUp
