SPECIFICATION FairSpec
CONSTANTS
  Third = {}
  Requests = {r1, r2}
  Streams = {}
  Slots = {s1, s2}
  Workers = {w1}
  Admins = {a1}
  Ops = {"update", "remove"}
  Startup = {"ready"}
  MaxGen = 2
  BufferSize = 1
  DropExcess = {FALSE}
  NoReq = NoReq
  NoSlot = NoSlot
  NoActor = NoActor
PROPERTIES
  WaiterAnswered
  RetiredWorkersExit
