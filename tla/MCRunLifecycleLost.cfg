CONSTANTS
  Root = Root
  SenderScope = SenderScope
  TrackerScope = TrackerScope
  body = body
  sender = sender
  tracker = tracker
  generator = generator
  dispatcher = dispatcher
  sendTask = sendTask
  headLoop = headLoop
  subWatch = subWatch
  reapLoop = reapLoop
  ScopeId <- MCScopes
  Task <- MCTasks
  ScopeOf <- MCScopeOf
  Body <- MCBody
  Background <- MCBackground
  Host <- MCHost
  Fault = {"fault", "late"}
  Profiles <- MCTracked
SPECIFICATION SafeSpec
INVARIANTS
  SuccessIsStop
