CONSTANTS
    w1 = w1  w2 = w2  w3 = w3  b1 = b1  b2 = b2  c1 = c1  None = None
    Kind <- KindByName  Subject <- OneContent  Complete <- AllButSecond
    Requests = {w1, w2, w3, b1, b2}
SPECIFICATION FairSpec
INVARIANTS
    TypeOK
    OneRewardPerSubject
    OnlyEarnedRewards
    AnsweredMeansQueued
PROPERTY
    RewardQueued
\* every request ends
CHECK_DEADLOCK FALSE
