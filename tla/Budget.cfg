CONSTANTS
    k1 = k1
    k2 = k2
    a = a
    b = b
    Keys = {k1, k2}
    Callers = {a, b}
    Largest = 8
    Amounts = {0, 1, 4, 5}
    Exact = 4
    ToNumber <- TwoBits
    MaxRetries = 1
    None = None
SPECIFICATION Spec
INVARIANTS TypeOK BudgetConserved
