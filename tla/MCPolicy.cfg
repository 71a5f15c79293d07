CONSTANTS
    Names = {"DeleteHistory", "messages.DeleteHistory", "channels.DeleteHistory", "delete_dialog", "auth.LogOut"}
    Bares = {"deletehistory", "delete_dialog", "deletedialog", "logout"}
    NsOf <- MCNs
    BareOf <- MCBare
    Strip <- MCStrip
    Wraps <- MCWraps
    SecurityNamespaces = {"auth", "account"}
    PlainReads = {}
    Table <- MCTable
    ReadShaped = {}
    Ungrantable = {"logout"}
    Defaults <- MCDefaults
    Fallback = "deny"
    Files <- MCFiles
    Rank <- MCRank
    MaxGrants = 1
    MaxTrouble = 1
SPECIFICATION Spec
INVARIANTS
    LockoutIsKept
    FileDenyHolds
    RestartChangesNothing
