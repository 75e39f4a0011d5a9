SPECIFICATION Spec
CONSTANTS
    k1 = k1  k2 = k2
    Key <- Keys
    Roots = 2
    Offers <- Plain
    Raws = {FALSE}
    Starts <- Starting
    None = None
    MaxProcs = 1
    MaxFaults = 0
INVARIANT
    MarkerIsHonest
