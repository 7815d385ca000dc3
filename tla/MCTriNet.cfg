CONSTANTS
    sg = sg
    tk = tk
    sc = sc
    Executors = {sg, tk}
    Scanner = sc
    CapitalTotal = 20
    MaxPorCiclo = 4
    MaxDrawdownPct = 10
    Cooldown = 1
    MinOrder = 2
    Deposit = 20
    Results <- WinOrLose
    EarnMin = 1
    MaxOpps = 2
    MaxInbox = 1
    MaxTriangles = 2
    MaxFaults = 1
SPECIFICATION Spec
SYMMETRY Regions
INVARIANTS
    TypeOK
    BooksBalance
    AccountProtected
PROPERTY KeepsTheRules
