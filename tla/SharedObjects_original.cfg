\* A delayed use after its ID was given to another object.
SPECIFICATION Spec
CONSTANTS
    Capacity = 3
    Objects = {root, a, b}
    Root = root
    Refs = {r0, r1, r2}
    RootRef = r0
    Proxies = {p0, p1, p2}
    RootProxy = p0
    NoObject = NoObject
    NoRef = NoRef
    NoProxy = NoProxy
    Writers = {w1}
    Uses = {u1}
    MaximumHeldObjects = 3
    MaximumRemoteObjects = 3
INVARIANT UsesReachTheOriginal
SYMMETRY Symmetry
CHECK_DEADLOCK FALSE
