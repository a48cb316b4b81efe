SPECIFICATION FairSpec
CONSTANTS
  Hosts = {h1, h2, h3}
  Tests <- MCTests
  Suffix <- MCSuffix
  NoNumber = NoNumber
  big = big
  pair = pair
  other = other
  plain = plain
INVARIANTS
  TypeOK
  HostsPartitioned
  Complete
  ResultToCome
PROPERTY
  Terminates
CHECK_DEADLOCK FALSE
