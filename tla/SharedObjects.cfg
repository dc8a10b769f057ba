\* Two objects besides the root, three transmissions, two sending threads, a use;
\* the user accepts one of the two objects at a time.
SPECIFICATION Spec
CONSTANTS
    Capacity = 3
    Objects = {root, a, b}
    Root = root
    Refs = {r0, r1, r2, r3}
    RootRef = r0
    Proxies = {p0, p1, p2, p3}
    RootProxy = p0
    NoObject = NoObject
    NoRef = NoRef
    NoProxy = NoProxy
    Writers = {w1, w2}
    Uses = {u1}
    MaximumHeldObjects = 3
    MaximumRemoteObjects = 2
INVARIANTS HeldWhileReachable ReferencesNameTheirObject CountsAgree ReleasesAreCovered SharedInv
SYMMETRY Symmetry
CHECK_DEADLOCK FALSE
