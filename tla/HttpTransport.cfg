SPECIFICATION TransportSpec
CONSTANTS
  init1 = init1 init2 = init2 call1 = call1 call2 = call2 call3 = call3 call4 = call4
  note1 = note1 del1 = del1
  s1 = s1 s2 = s2 alice = alice bob = bob None = None
  Requests = {init1, init2, call1, call2, call3, call4, note1, del1}
  Versioned = {call3, call4}
  Ids = {s1, s2}
  Owners = {alice, bob}
  OwnerOf <- MCOwnerOf
  Target <- MCTarget
  Deletes = {del1}
  Calls = {call1, call2, call3, call4}
  Notifies = {note1}
  RpcIds = {1}
  IdOf <- MCIdOf
  Stateless = FALSE
  MaxSessions = 1
  MaxConcurrent = 2
  Scenarios <- MCScenarios
  SdkMayFail = TRUE
INVARIANTS SessionsAccounted TokensExact CancelledByOwnCaller AnsweredOnce
PROPERTIES InUseNotPruned RequestsEnd
CHECK_DEADLOCK FALSE
