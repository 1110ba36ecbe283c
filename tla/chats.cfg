SPECIFICATION Spec
CONSTANTS
    h1 = h1
    h2 = h2
    h3 = h3
    u = u
    v = v
    c1 = c1
    c2 = c2
    g = g
    None = None
    Handlers = {h1, h2, h3}
    UserOf <- ThreeUserOf
    Privates = {c1, c2}
    Groups = {g}
    Plans <- MCPlans
INVARIANTS SteadyNeverPanics EntryLeadsHome PairsAgree MembersOnce
 
