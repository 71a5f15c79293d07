CONSTANTS
    r1 = r1
    r2 = r2
    home = home
    away = away
    s1 = s1
    s2 = s2
    Readers = {r1, r2}
    Walks <- MCWalks
    Asked <- MCAsked
    Loading = {r1}
    Attached = {1}
    Chats = {home, away}
    Searches = {s1, s2}
    MaxMessages = 4
    Chat <- MCChat
    Floor = 2
    PageSize = 2
    CursorMemory = 2
SPECIFICATION ReadingSpec
INVARIANTS
    WalkIsWhole
    QuietSearchHolds
    ReportedIsChecked
SYMMETRY Symmetry
