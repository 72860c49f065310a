SPECIFICATION Spec
CONSTANTS
    Config <- MCConfig
    Arbitrum = 1
    None = "none"
    Enabled = {"cross_dex", "triangular", "curve_stable", "liquidation"}
    MaxHops = 3
    MaxChains = 2
INVARIANTS TypeOK RegistryWhole PanicOnlyOnCurve
PROPERTY EvaluateEnds
