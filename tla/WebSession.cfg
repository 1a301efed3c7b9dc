SPECIFICATION Spec
CONSTANTS
    q1 = q1
    q2 = q2
    i1 = i1
    i2 = i2
    s1 = s1
    s2 = s2
    None = None
    Slots = {q1, q2}
    Isolates = {i1, i2}
    Sessions = {s1, s2}
    First = s1
    Kinds <- Every
    MaxWalk = 4
    MaxSends = 3
    MaxLost = 1
    MaxWaits = 1
    MaxSecrets = 1
SYMMETRY Perms
INVARIANTS
    TypeOK
    ReuseNeedsLoss
    JarRedeemable
    
CHECK_DEADLOCK FALSE
