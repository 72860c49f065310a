SPECIFICATION Spec
CONSTANTS
    MaxExecutes = 4
    MaxHeight = 3
INVARIANT SuccessCanLand
