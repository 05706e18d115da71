CONSTANTS
  Threads <- ThreadSet
  Course <- Table
  Starts <- Side
  Lenient <- Swallowing
  Locks <- LockSet
  Limit <- Looking
  Known <- KnownTable
  Sure <- SureTable
SPECIFICATION Spec
INVARIANTS Accounted Tidy ReturnedIsComplete LocksFreed DataKept
PROPERTIES CourseEnds
