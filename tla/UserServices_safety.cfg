SPECIFICATION Spec
CONSTANTS
  User = {a, b}
  NoUser = nobody
  Call = {1, 2}
  Calls <- AnyAgainstGet
  MaxRaises = 2
  MaxSignIns = 2
  Config = {c, bad}
  Unparsable = {bad}
  NoConfig = unset
  MaxCommands = 4
  Uses <- OneAtATime
CHECK_DEADLOCK FALSE
INVARIANT AnswersOfTheUser
INVARIANT OlderRefreshOverwritesNothing
INVARIANT OneWorker
PROPERTY LastSessionServed
