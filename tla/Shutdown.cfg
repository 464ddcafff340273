CONSTANTS
    Phrases = 1
    Words = 1
    Workers = {w1}
    Texts = {t1}
    Buckets = 1
    MaxSentences = 2
    MaxClients = 1
SPECIFICATION ProcessSpec
INVARIANTS DictAfterPhrases QuietWhenStopped DestroyedUnused CountersAgree
PROPERTIES LateStopIsClean ExitEnds PagesAreSound
CHECK_DEADLOCK FALSE
