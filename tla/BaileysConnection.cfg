SPECIFICATION FairSpec
CONSTANTS
  Launches = 2
  Sockets = {k1, k2}
  NoSocket = NoSocket
  Links = {l1, l2}
  NoLink = NoLink
  MaxReconnects = 2
CHECK_DEADLOCK FALSE
INVARIANTS OneSocket StatusHonest
PROPERTIES CredentialsFollowLink Settles
