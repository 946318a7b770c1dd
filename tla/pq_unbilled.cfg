SPECIFICATION Spec
CONSTANTS
  Third = {}
  Requests = {r1}
  Streams = {}
  Slots = {s1}
  Workers = {w1}
  Admins = {a1}
  Ops = {}
  Startup = {"ready"}
  MaxGen = 2
  BufferSize = 1
  DropExcess = {FALSE}
  NoReq = NoReq
  NoSlot = NoSlot
  NoActor = NoActor
INVARIANTS
  EveryResultBilled
