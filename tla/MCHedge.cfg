SPECIFICATION FairSpec
CONSTANTS
    m1 = m1
    Makers = {m1}
    Size <- SizeTwo
    Home <- HomeEach
    MaxIds = 3
    Lost = {2}
    Halted = {1}
    SellBacks = {2}
    Backlog = TRUE

INVARIANTS
    TypeOK
    LedgerIsTheHedge
    NakedIsTracked
    CreditsAddUp
    ObligationsCoverFills
    OverHedgeNeedsSkippedAttempt
PROPERTIES
    HeldFillIsReplayed
    RetiredIsFinal
    NakedNeverSilent
