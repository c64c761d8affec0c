SPECIFICATION FairLockSpec
CONSTANT Requests <- NonEmptyRequests
PROPERTY WaiterAdmitted
