\* Requests and calls, users, tokens, servers in twos; one org, team and run.
SPECIFICATION Spec
CONSTANTS
    a1 = a1
    a2 = a2
    b1 = b1
    b2 = b2
    c1 = c1
    c2 = c2
    Emails = {a1, a2}
    Orgs = {o1}
    Teams = {d}
    Invitations = {b1, b2}
    Wanted = {"active"}
    Platform = platform
    Founding = founding
    Tokens = {1, 2, 3}
    Tabs = {a1, a2}
    ResetTokens = {b1, b2}
    Old = nobody
    Keys = {m1, m2, d}
    UserKeys = {m1}
    Integrations = {d}
    Users = {d}
    Homes = {b1, b2}
    NoOrg = noOrg
    Models = {m1, m2}
    NoModel = noModel
    Copies = {1, 2}
    Crons = {m1, m2}
    Valid = {m1}
    \* Two ticks of life in three of time.
    TTL = 2
    MaxTime = 3
    Tasks = {b1, b2}
    Members = {a1, a2}
    Nobody = nobody
    Runs = {d}
    Lines <- MCLines
    MaxLines = 2
    Files = {m1, m2}
    Existing = {m1}
    MaxEdits = 2
    Names = {1, 2}
    \* Three steps, a checkpoint at the second, more messages than trim keeps.
    Loops = {c1, c2}
    MaxSteps = 3
    MaxMessages = 1
    Threshold = 2
    Every = 2
    MaxBatch = 2
    MaxRows = 6
    Wished = {"pending", "done"}
    \* Half of the cap, nine tenths of it, all of it.
    Cap = 10
    Amounts = {1, 4, 5}
    MaxUsed = 10
    MaxDays = 2
    Sockets = {a1, a2}
    Channels = {m1, m2}
    MaxQueue = 1
    MaxEvents = 2
    Servers = {a1, a2}
    Requests = {c1, c2}
    Calls = {c1, c2, d}
SYMMETRY Symmetry
\* Tokens, keys and one-shot requests run out: a part may stop.
CHECK_DEADLOCK FALSE
INVARIANTS
    TypeOK
    AcceptedIsMember
    CookieLives
    StoresAgree
    ShownIsUsed
    HitsAreSound
    EveryoneTold
    VerdictTrue
    PatchesWhole
    OnceEach
    ResultsFollow
    ApprovalKept
