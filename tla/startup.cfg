SPECIFICATION StartupSpec
CONSTANTS
    Machines <- McMachines
    Inode <- McInode
    Root = "root"
    kind <- McKind
    entries <- McEntries
    Paths <- McPaths
    Targets <- McTargets
    MAX_DEPTH = 3
    Null = Null
    Disks <- McDisks
    Low = 128
    Stack = 240
    Images <- McImages
    MaxArgs = 2
INVARIANT StacksApart
INVARIANT StartsOnce
INVARIANT FoundWhatIsThere
INVARIANT InodesFound
INVARIANT StartsAsAsked
PROPERTY OpenReturns
 
