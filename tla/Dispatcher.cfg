SPECIFICATION MCSpec
CONSTANTS
  ping = ping
  pong = pong
  ping1 = ping1
  ping2 = ping2
  ping3 = ping3
  pong1 = pong1
  inst1 = inst1
  inst2 = inst2
  Types = {ping, pong}
  Listeners = {ping1, ping2, ping3, pong1}
  Event <- EventOf
  Owner <- Owners
  MaxEvents <- Limits
  pings = 3
  pongs = 2
  MaxDepth = 4
  SignalsSent = 2
SYMMETRY Symmetry
CONSTRAINT Within
INVARIANTS
  NoneLost
  InOrder
  UpdateDelivers
  EachOnce
