SPECIFICATION FairSpec
CONSTANTS
    p = p
    q = q
    loop = loop
    other = other
    NoCaller = NoCaller
    Accounts = {p, q}
    Adapters = {p, q}
    Passive = {p}
    Loop = loop
    Others = {other}
    MaxAge = 2
    Ahead = 1
    MaxConcurrent = 1
    MaxRefresh = 3
    Entries <- MCEntries
    Replies <- MCReplies
    CodexRows <- MCCodexRows
    ClaudeRows <- MCClaudeRows
    KimiRows <- MCKimiRows
    AntigravityRows <- MCAntigravityRows
    OpenCodeRows <- MCOpenCodeRows
    XAIRows <- MCXAIRows
    PassiveRows <- MCPassiveRows
    CardRows <- MCCardRows
    UsageDays <- MCUsageDays
    Slots <- MCSlots
INVARIANTS
    TypeOK
    OldNeverLooksFresh
    DeliveredInOrder
    OkRowIsCurrent
    ShownAsReported
PROPERTIES
    ShownNeverOlder
    DrawnOnChange
    RefreshEnds
CHECK_DEADLOCK FALSE
