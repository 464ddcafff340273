CONSTANTS
    Users = {boss, member}
    Managers = {boss}
    Commands = {c1, c2}
    Inputs <- Several
    Prefixes = {"standard"}
    Fallback = 1
    NoRow = NoRow
SPECIFICATION Spec
SYMMETRY CommandSymmetry
INVARIANTS TypeOK ShownIsSpoken
PROPERTIES OneColumnAtATime PersonalOptionsAreIndependent
