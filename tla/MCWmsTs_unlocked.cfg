SPECIFICATION Spec
CONSTANTS
  t1 = t1
  t2 = t2
  b1 = b1
  b2 = b2
  x1 = x1
  x2 = x2
  NoThread = NoThread
  NoHeader = NoHeader
  NoText = NoText
  NoJob = NoJob
  NoReply = NoReply
  Thread = {t1, t2}
  DirectThread = {t2}
  Body = {b1, b2}
  Text = {x1, x2}
  MaxHeaders = 2
  Job <- SharedJob
INVARIANTS ReplyIsOwn
