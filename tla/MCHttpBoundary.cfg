CONSTANTS
  walker = walker
  other = other
  Clients = {walker, other}
  Walker = walker
  Requests <- SomeRequests
  Ids = {1, 2, 3}
  Keys = {1}
  Null = Null
  Limits = {2}
  Orders = {"desc"}
SPECIFICATION Spec
INVARIANTS
  NoneSkipped
  NoRowTwice
  ErrorsKeepTheContract
  InternalErrorsAccounted
