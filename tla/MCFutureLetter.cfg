SPECIFICATION FutureSpec
CONSTANTS
    l1 = l1
    l2 = l2
    p1 = p1
    p2 = p2
    s1 = s1
    Letter = {l1}
    Foreign = {}
    Proc = {p1, p2}
    Signer = {s1}
    Self = s1
    Time = {0, 1, 2}
    NotBefore <- MCNotBefore
    Closes <- MCCloses
    MaxCopies = 2
    MaxImports = 1
    None = None
SYMMETRY MCSymmetry
INVARIANTS
    OneCopy
    ReconcileComplete
    RosterAlmostSingle
