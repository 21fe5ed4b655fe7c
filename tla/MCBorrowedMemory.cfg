SPECIFICATION Spec
CONSTANTS
    Inis <- MCInis
    Layouts <- MCLayouts
    Chunk = 2
    Mib = 3
    Near = 7
    Far = 9
    EeSize = 8
    MailboxPage = 4
    CodePages = {3, 4}
    Builds = {8, 9}
    MaxInstalls = 2
    MaxBoots = 2
    Tools = {p, q}
    UsualFiles <- MCUsualFiles
    Words = {"data", "code"}
    PageOf <- MCPageOf
    Pairs <- MCPairs
    GameValues = {1}
    MaxWrites = 1
    MaxStarts = 2
INVARIANTS CheatsAreKept PayloadIsFound
PROPERTIES InstalledGameHasPayload BorrowedIsReturned
CHECK_DEADLOCK FALSE
SYMMETRY MCSymmetry
