SPECIFICATION Spec
CONSTANTS
  Third = {r3}
  Requests = {r1, r2, r3}
  Streams = {r2}
  Slots = {s1, s2}
  Workers = {w1}
  Admins = {a1, a2}
  Ops = {"update", "remove", "get"}
  Startup = {"absent", "ready", "failed"}
  MaxGen = 3
  BufferSize = 1
  DropExcess = {FALSE, TRUE}
  NoReq = NoReq
  NoSlot = NoSlot
  NoActor = NoActor
SYMMETRY Symmetry
CONSTRAINT FewActors
INVARIANTS
  WaiterNotForgotten
  RemovedMeansStopped
  ResidualWindowOnly
  OwnReplyOnly
  HooksAtMostOnce
