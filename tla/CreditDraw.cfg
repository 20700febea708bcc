CONSTANTS
  t1 = t1
  t2 = t2
  t3 = t3
  k1 = k1
  k2 = k2
  q1 = q1
  a = a
  b = b
  Opens = {t1, t2, t3}
  Closes = {k1, k2}
  Chats = {q1}
  Channels = {a, b}
  ChannelOf <- OpenChannels
  Ceiling <- Ceilings
  KnownPaid = {q1}
  Costs = {0, 2}
  Draws = {}
  NoChannel = NoChannel
SPECIFICATION Spec
CHECK_DEADLOCK FALSE
INVARIANT PayeeIsPaidTheDraw
