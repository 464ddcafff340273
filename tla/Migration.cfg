CONSTANTS
    Processes = {p1, p2}
    Files = 2
    Statements <- TwoFiles
    Once = {2}
    MaxStarts = 3
SPECIFICATION Spec
INVARIANTS TypeOK RecordedIsComplete FilesInOrder UpMeansMigrated FailsOnlyInWindow
CHECK_DEADLOCK FALSE
