CONSTANTS
    CapitalTotal = 44
    MaxPorCiclo = 16
    MaxDrawdownPct = 4
    Cooldown = 2
    MinOrder = 2
    Balances = {0, 20, 26}
    MaxGain = 2
    MaxEquity = 52
SPECIFICATION FairSpec
INVARIANTS
    NothingAtRiskInDrawdown
    CapitalProtected
PROPERTY ProtectivePauseEnds
