CONSTANTS
    MaxMessages = 1
    MaxSteps = 1
    MaxIds = 2
    MaxBatch = 1
    MaxIterations = 2
    MaxNudges = 1
    Restarts = {r1}
    Deletes = {d1}
    Views = {v1}
    Chats = {c1}
    Created = Created
    MaxChunks = 2
    NoOne = NoOne
    Slots = {a1, a2}
    MaxLogins = 3
    MaxRequests = 6
    Commands = {x1, x2, x3}
    Kills = {k1}
    Input = Input
    NoCommand = NoCommand
    MaxMinutes = 3
    DefaultMinutes = 2
    Edits = {e1, e2}
    Files = {f1, f2}
    LongFiles = {f1}
    NoFile = NoFile
    Sessions = {s1}
    Projects = {p1}
    Updates = {u1, u2, u3}
    Runners = {n1, n2}
    Paths = {q1}
    MaxFiles = 3
    NoProject = NoProject
    Admins = {g1, g2}
    Readers = {l1, l2}
    TTL = 1
    MaxClock = 1
    NoModel = NoModel
    Frames = {i1, i2, i3}
    Rooms = {m1, m2}
    NoRoom = NoRoom
    NoFrame = NoFrame
SPECIFICATION FairServicesSpec
INVARIANTS
    ServicesTypeOK
    VolumeKept
    NoStrayContainer
    JoinSeesAll
    DoneMeansStored
    IndexCovers
    EndedStaysEnded
    CodeLimit
    OneProcess
    OwnOutput
    TimerIsTimeout
    ListIsCurrent
    OnlyLatestRecord
    StaleBounded
    OfJoinedOnly
PROPERTIES
    ProvisioningSettles
VIEW View
CHECK_DEADLOCK FALSE
