\* Every message of MCMessageReading, and two /dict handlers.
CONSTANTS
    Handlers = {h1, h2}
    Characters <- Writable
    Words <- WordsInOrder
    Readings <- Spoken
    Scenarios <- Messages
    IgnorePrefix <- HidingPrefixes
    Username <- Name
    MaxChars = 4
    MinLength = 3
    MaxLength = 4
SPECIFICATION Spec
INVARIANTS DictionaryApplied SubmittedIsWhole SentencesKeepSpeech
PROPERTY LoopAdvances
