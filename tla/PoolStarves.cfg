CONSTANTS
    Workers = {w1}
    g1 = g1
    g2 = g2
    Guilds = {g1, g2}
    Requests <- One
    GuildOf <- AllTogether
    Sentences <- OneSentence
    Nobody = Nobody
    Word = 4
SPECIFICATION FairSpec
PROPERTIES SubmittedIsTaken
CHECK_DEADLOCK FALSE
