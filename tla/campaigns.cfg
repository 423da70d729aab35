CONSTANTS
    ann = ann  bat = bat  r1 = r1  r2 = r2  None = None
    Announcements = {ann}  Batches = {bat}  Events = {ann, bat}
    Requests = {r1, r2}  MaxRequests = 5  MaxCampaigns = 1  MaxAttempts = 2  MaxStalls = 1
SPECIFICATION FairSpec
INVARIANTS
    Agreed
    StoppedIsQuiet
    SentOnceUndisturbed
PROPERTY
    ScheduledIsSent
\* the administrators' requests end
CHECK_DEADLOCK FALSE
