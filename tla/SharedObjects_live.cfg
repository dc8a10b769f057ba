\* Two objects of which one may be held at a time, sent up to three times,
\* collected and sent again; no symmetry.
SPECIFICATION FairSpec
CONSTANTS
    Capacity = 3
    Objects = {root, a, b}
    Root = root
    Refs = {r0, r1, r2, r3}
    RootRef = r0
    Proxies = {p0, p1, p2, p3}
    RootProxy = p0
    NoObject = NoObject
    NoRef = NoRef
    NoProxy = NoProxy
    Writers = {w1}
    Uses = {}
    MaximumHeldObjects = 2
    MaximumRemoteObjects = 2
INVARIANT LimitsKept
PROPERTY DroppedObjectsAreReclaimed
CHECK_DEADLOCK FALSE
