SPECIFICATION FairSpec
CONSTANTS
  Hosts = {h1, h2, h3}
  MaxHosts = 2
  PoolSize = 2
  KbdSize = 1
  Chars = {"0", "esc", "exit", "bad"}
  Wanted = h1
  NULL = NULL
  MaxTyped = 2
  MaxRuns = 3
  MaxVisits = 1
  MaxLosses = 1
INVARIANTS
  TypeOK
  HostListIsSound
  SentIsTyped
  OnlyNeighboursChangePlaces
PROPERTIES
  HostsKeepTheirNumbers
  AutoConnects
  KeepsAlive
CHECK_DEADLOCK FALSE
