SPECIFICATION Spec
CONSTANTS
    Focus = {"catalog"}
    s1 = s1
    s2 = s2
    east = east
    west = west
    mario = mario
    f2 = f2
    Sockets <- MCSockets
    Instances <- MCInstances
    At <- MCAt
    Posters = {p1, p2}
    PendingLimit = 1
    MaxNotes = 2
    Holders = {ann, ben}
    Tokens = {phone, tablet}
    Sends = {call}
    Nobody = Nobody
    Members = {root, amy}
    FirstAdmins = {root, amy}
    Jobs = {j1, j2}
    Nil = Nil
    MaxTokens = 2
    MaxJobs = 3
    Titles = {mario, doom, quake}
    PcTitles = {doom, quake}
    Fetches = {f1, f2}
    MaxEdits = 2
    Uploads = {u1, u2}
    Mtimes = {0, 1}
    Keep = 1
    MaxSaves = 4
    Voters = {vic, wes}
    Games = {halo}
    Asks = {a1, a2}
    Desks = {d1, d2}
    Blank = Blank
    MaxVisits = 4
INVARIANT
    HiccupSparesOthers
CHECK_DEADLOCK FALSE
