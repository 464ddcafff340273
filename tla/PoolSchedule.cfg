CONSTANTS
    Workers = {w1, w2}
    g1 = g1
    g2 = g2
    Guilds = {g1, g2}
    Requests <- Three
    GuildOf <- LastElsewhere
    Sentences <- OneSentence
    Nobody = Nobody
    Word = 4
SPECIFICATION Spec
SYMMETRY WorkerSymmetry
INVARIANTS TypeOK Exclusive Accounted PendingLedger NoStranding
PROPERTIES MissMeansEmpty RoundRobin
CHECK_DEADLOCK FALSE
