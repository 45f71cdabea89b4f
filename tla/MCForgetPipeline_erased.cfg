CONSTANTS
    f1 = f1  f2 = f2  r1 = r1  r2 = r2  k1 = k1  k2 = k2
    None = None
    Forget = {f1, f2}
    Reader = {r1}
    Copy = {k1}
    MaxErrors = 0
    MaxRestarts = 0
SPECIFICATION Spec
SYMMETRY Interchangeable
INVARIANT CompleteMeansErased
