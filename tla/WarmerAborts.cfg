CONSTANTS
    Phrases = 2
    Words = 1
SPECIFICATION Spec
INVARIANTS InterruptIsOrderly
CHECK_DEADLOCK FALSE
