CONSTANTS
 d1 = d1 d2 = d2 k1 = k1 k2 = k2
 Dials = {d1}
 Killers = {k1}
 Bailout = 0
SPECIFICATION Spec
INVARIANT MadeInTime
