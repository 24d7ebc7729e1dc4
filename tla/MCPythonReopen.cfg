SPECIFICATION Spec
CONSTANTS
    t1 = t1
    t2 = t2
    f1 = f1
    f2 = f2
    h1 = h1
    h2 = h2
    Threads = {t1, t2}
    Owner = t1
    Files = {f1, f2}
    Handles = {h1, h2}
    Nobody = Nobody
    Nothing = Nothing
    Size = 1
    Protectors = 1
    Liberties = {"reopen"}
INVARIANTS
    FreedNotUsed
SYMMETRY Symmetry
