CONSTANTS
  server = server
  shell = shell
  keeper = keeper
  tool = tool
  command = command
  Sessions = {server, shell}
  Threads = {keeper, tool, command}
  Keepers = {keeper}
  Home <- MCHome
  Ttls = {5}
  DefaultTtl = 5
  Latency = 0
  NoRequest = NoRequest
  NoLease = NoLease
  MaxTakes = 2
  MaxFaults = 1
SPECIFICATION FairSpec
INVARIANTS KeepaliveHolds HolderSendsToken
PROPERTIES RenewsNeverCease
