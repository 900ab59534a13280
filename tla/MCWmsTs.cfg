SPECIFICATION FairSpec
CONSTANTS
  t1 = t1
  t2 = t2
  b1 = b1
  b2 = b2
  x1 = x1
  x2 = x2
  NoThread = NoThread
  NoHeader = NoHeader
  NoText = NoText
  NoJob = NoJob
  NoReply = NoReply
  Thread = {t1, t2}
  DirectThread = {}
  Body = {b1, b2}
  Text = {x1, x2}
  MaxHeaders = 2
  Job <- LockedJob
INVARIANTS TypeOK StaticsHoldOwn ReplyIsOwn
PROPERTIES ImplementsService
