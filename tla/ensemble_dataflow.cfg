CONSTANTS
    s1 = s1
    s2 = s2
    s3 = s3
    Steps = {s1, s2, s3}
    x = x
    z = z
    a = a
    b = b
    c = c
    y = y
    Tensors = {x, z, a, b, c, y}
    Ensembles <- MCEnsembles
SPECIFICATION FairSpec
INVARIANTS
    InputsSettled
    NoneMissed
    DeadlockExplained
PROPERTIES
    ImplementsDataFlow
    Responds
