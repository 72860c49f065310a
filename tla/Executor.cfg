SPECIFICATION Spec
CONSTANTS
    MaxExecutes = 4
    MaxHeight = 3
INVARIANTS TypeOK NoReplacement NoDrift
