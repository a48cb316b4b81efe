SPECIFICATION Spec
CONSTANTS
  Hosts = {h1, h2, h3}
  Tests <- MCTests
  Suffix <- MCSuffix
  NoNumber = NoNumber
  big = big
  pair = pair
  other = other
  plain = plain
INVARIANT
  DifferentHosts
CHECK_DEADLOCK FALSE
