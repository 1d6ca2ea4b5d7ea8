SPECIFICATION MCSpec
CONSTANTS
    Names = {"ann"}
    Pseudonym = "web"
    MaxGuests = 2
    LineMax = 2
    _WEB_NAMES_MAX = 1
    _ALIAS_MAX = 1
    MaxAlias = 4
    Viewers = {"v1", "v2"}
    Files = {"notes", "vm"}
    VmFile = "vm"
    Chunks = 2
    OFFERS_MAX = 1
    WEB_FT_RETAIN_MAX = 1
    WEB_FT_RETAIN_TOTAL = 1
    Guests = {"g1"}
    Members = {"m1", "m2"}
    Picks = 2
    WEB_UPLOAD_PER_VIEWER = 1
    WEB_UPLOAD_PER_ROOM = 1
    BackMax = 2
    NoMember = "none"
    NoOne = NoOne
    Sources = {"s1"}
    LIMIT = 2
    WINDOW = 2
    PIN_FAILS = 2
    PIN_WINDOW = 2
    PIN_LOCKOUT = 1
    MAX_ROOMS = 3
    MAX_ROOMS_PER_IP = 2
    MaxTime = 4
    MaxGuessing = 2
    Relays = {"r1", "r2", "r3"}
    Publishers = {"p1"}
    Nothing = "nothing"
    make = "make"
    wipe = "wipe"
    notes = "notes"
    MaxCalls = 2
    max_turns = 2
    MAX_NUDGES = 2
    MAX_COMMANDS = 3
    STUCK_FAIL_REPEAT = 2
    STUCK_PAIR_REPEAT = 3
    Costs = {1, 3}
    Digest = 1
    budget = 7
    keep_recent = 2
    context_window = 4
    token_budget = 5
    MaxMessages = 10
    Daemons = {"d1", "d2"}
    FirstDaemon = "d1"
    Cli = {"c1", "c2"}
    Harnesses = {"h1"}
    EVENTS_MAX = 1
    CliSeq = 3
    HarnessSeq = 4
    Nobody = "nobody"
    Jobs = {1}
    Boxes = {"n1", "n2", "n3"}
    NoBox = "nobox"
    max_nudges = 1
    token_ceiling = 3
    MaxVerbs = 2
    MaxCost = 2
    Humans = {"ann"}
    Tasks = {"t1", "t2"}
    MaxShells = 2
    MaxRooms = 3
    MaxKeys = 3
    Launches = {"l1", "l2"}
    Sandboxes = {"n1"}
    NoLaunch = "nolaunch"
    Peers = {"m1", "m2"}
    MaxOps = 3
    MaxCuts = 1
    Savers = {"s1", "s2"}
    Listers = {"l1"}
    LOCK_STALE_SECS = 1
    NoProc = "noproc"
    MaxNow = 3
    MaxDead = 1
INVARIANTS
    TypesOK
    GuestsShown
    DownloadsAlike
    
    RatesBounded
    
    
    
    
    EgressKept
    SharesSound
    DeviceGuarded
    TuiKept
CHECK_DEADLOCK FALSE
