SPECIFICATION MCSpec
CONSTANTS
    a = a
    b = b
    Requests = {r1, r2}
    Accounts = {u}
    Paths = {a, b}
    Parts = 1
    ChannelSize = 1
    MaxSessions = 2
    MaxActive = 2
    Concurrencies = {1, 2}
    MaxUploads = 2
    MaxSigns = 1
    MaxInterruptions = 1
    MaxDrops = 1
INVARIANTS
    DirectAnswersAreTrue
PROPERTIES
    DirectUploadsEnd
CHECK_DEADLOCK FALSE
