SPECIFICATION SocketsSpec
CONSTANTS
  Errnos <- AllErrnos
  Translated <- KnownTranslated
  GaiErrors <- AllGaiErrors
  GaiTranslated <- KnownGai
  Counts = {1, 4096, 16384}
  SockoptSize <- OneOption
  Options = {"so_error", "unknown"}
  Families = {"inet", "inet6", "unix"}
  BufferSizes = {3, 4}
  Buffers <- TwoLists
  IOV_MAX = 2
  EINVAL <- Invalid
  ENOTSUP <- NotSupported
  EINPROGRESS <- InProgress
  EAI_SYSTEM <- System
  Overrides <- TwoClasses
  StackLimit = 4
CHECK_DEADLOCK FALSE
INVARIANTS TypeOK ErrorIsOfThisCall FailuresAreReported UndefinedOnlyIfUnknown 
