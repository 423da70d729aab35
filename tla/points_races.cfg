CONSTANTS
    m1 = m1  m2 = m2  e1 = e1  e2 = e2  e3 = e3  r1 = r1  r2 = r2
    once = once  each = each  board = board
    OtherRef = OtherRef  None = None
    EventAction <- OneAction  PolicyAction <- PolicyOfBoard  InitialPolicy <- Seed
    Applyable <- AllButThird  EventMember <- TwoMembers
    Members = {m1, m2}  Events = {e1, e2}  ActionTypes = {board}
    Policies = {once}  Amounts = {1}
    MaxAttempts = 2  MaxStalls = 1  MaxEdits = 1  EarnRequests = {r1}
SPECIFICATION Spec
INVARIANTS
    NoDoublePay
    CompletedMeansPaid
    NeverOverCredited
