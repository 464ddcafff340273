CONSTANTS
    Users = {boss}
    Managers = {boss}
    Commands = {c1}
    Inputs <- TwoVoices
    Prefixes = {"standard"}
    Fallback = 1
    NoRow = NoRow
SPECIFICATION Spec
PROPERTIES SpeedKeepsTheVoice
