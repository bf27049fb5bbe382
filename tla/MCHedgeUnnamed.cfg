SPECIFICATION Spec
CONSTANTS
    m1 = m1
    Makers = {m1}
    Size <- SizeTwo
    Home <- HomeEach
    MaxIds = 3
    Lost = {}
    Halted = {}
    SellBacks = {}
    Backlog = FALSE

INVARIANTS
    UnnamedAttemptIsNoHazard
