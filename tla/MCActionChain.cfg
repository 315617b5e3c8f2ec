SPECIFICATION Spec
CONSTANTS
    a1 = a1
    a2 = a2
    a3 = a3
    r1 = r1
    Chains = {c1}
    Template <- MCTemplate
    Actions = {a1, a2, a3}
    Results = {r1}
    NewBranches <- MCNewBranches
    Handlers = {h1, h2}
    None = None
INVARIANT ChainIsInOrder
PROPERTY ClosedIsFinal
SYMMETRY Symmetry
CONSTRAINT Bound
