SPECIFICATION Spec
CONSTANTS
  ask = ask
  run = run
  tell = tell
  bye = bye
  state = state
  stop = stop
  None = None
  Requests <- MCRequests
  Replies <- MCReplies
  Reply <- MCReply
  Length <- MCLength
  Disconnect = bye
  Snd = packet
  Rec = packet
INVARIANTS
  ContextsApart
PROPERTIES
  ServiceSpec
CHECK_DEADLOCK FALSE
