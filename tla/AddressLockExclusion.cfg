SPECIFICATION LockSpec
CONSTANT Requests <- NonEmptyRequests
INVARIANT HoldersDisjoint
