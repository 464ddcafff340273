CONSTANTS
    Workers = {w1, w2}
    g1 = g1
    g2 = g2
    Guilds = {g1, g2}
    Requests <- Two
    GuildOf <- AllTogether
    Sentences <- FirstHasTwo
    Nobody = Nobody
    Word = 4
SPECIFICATION FairSpec
INVARIANTS ClearedStaySilent LossIsCounted
PROPERTIES SilentAfterStop SpeechSpec StarvedOnlyAsleep StopReturns
CHECK_DEADLOCK FALSE
