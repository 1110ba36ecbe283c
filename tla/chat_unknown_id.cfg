SPECIFICATION Spec
CONSTANTS
    h1 = h1
    h2 = h2
    u = u
    v = v
    tu = tu
    tv = tv
    None = None
    Handlers = {h1, h2}
    UserOf <- TwoUserOf
    Texts <- MCTexts
    WriterOf <- MCWriterOf
    Requests <- MCRequests
    Plans <- OnePlan
    MaxId = 2
    Careful = FALSE
INVARIANT NeverPanics
