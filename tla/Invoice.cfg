SPECIFICATION Spec
CONSTANTS
    Invoices = {i1, i2}
    Guids = {g1, g2}
    Handlers = {h1, h2}
    None = None
INVARIANT InvoicesAreBacked
PROPERTY SettledIsFinal
CONSTRAINT OneAccident
SYMMETRY Symmetry
