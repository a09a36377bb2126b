SPECIFICATION Spec
CONSTANTS
  Configs <- GoodAndBad
  Null = Null
  Malformed = Malformed
  Empty = Empty
  Absent = Absent
  DefaultCommandTimeoutMS = 5
  DefaultHTTPTimeoutMS = 3
  DefaultRetryCount = 1
  DefaultRetryBackoffMS = 1
INVARIANTS
  StoredHooksParse
  LegalFlagsSucceed
  HookIsAsAsked
PROPERTIES
  RewritesChangeNothing
