SPECIFICATION FairSpec
CONSTANT Core = {c0, c1, c2, c3}
INVARIANTS TypeOK MutualExclusion NoLostWakeup
PROPERTIES ImplementsLock Progress
