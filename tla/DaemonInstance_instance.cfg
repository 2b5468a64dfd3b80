\* Two processes, a stop or a death each, the directory removed once.
CONSTANTS
    old = old
    new = new
    Proc = {old, new}
    NoFile = NoFile
    SocketInDir = TRUE
    MaxFiles = 6
    MaxStops = 2
    MaxRemovals = 1
SPECIFICATION FairInstanceSpec
INVARIANTS
    OneOwnerUnlessUnlinked
    Reachable
PROPERTIES
    StaleFilesBlockNobody
CHECK_DEADLOCK FALSE
