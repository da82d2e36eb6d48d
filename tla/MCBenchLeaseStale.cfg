CONSTANTS
  server = server
  shell = shell
  keeper = keeper
  tool = tool
  command = command
  Sessions = {server}
  Threads = {keeper, tool}
  Keepers = {keeper}
  Home <- MCHome
  Ttls = {3, 9}
  DefaultTtl = 9
  Latency = 0
  NoRequest = NoRequest
  NoLease = NoLease
  MaxTakes = 1
  MaxFaults = 0
SPECIFICATION Spec
INVARIANTS KeepaliveHolds
