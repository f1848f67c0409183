CONSTANTS
  CheckUserTime = CheckUserTime
  Unlock = Unlock
  QueryState = QueryState
  Other = Other
  Tasks = {a, b}
  Commands <- MCCommands
  Programs <- MCPrograms
  PushEchoes <- MCPushEchoes
  TIMEOUT = 1
  MaxCalls = 2
  MaxPushes = 1
SPECIFICATION FairSpec
INVARIANTS
  OneExchangeAtATime
  EachFrameInOnePlace
  ReturnedFrameEchoesItsCommand
  UndisturbedExchangeGetsItsReply
  SessionsDoNotInterleave
PROPERTIES
  DeadlineNeverExtended
  EveryCallReturns
  ServesEveryCall
CHECK_DEADLOCK FALSE
