SPECIFICATION FairLockSpec
CONSTANT Requests <- MixedRequests
INVARIANT LockTypeOK
INVARIANT DisjointUntilReinstall
INVARIANT NoMutualWait
PROPERTY ImplementsUntilReinstall
PROPERTY AdmittedAfterHolder
