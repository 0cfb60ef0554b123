SPECIFICATION InboundFairSpec
CONSTANTS
  m1 = m1
  m2 = m2
  m3 = m3
  l1 = l1
  p1 = p1
  p2 = p2
  Messages <- TheMessages
  Mixes <- TheMixes
  Timestamp <- Timestamps
  Lids = {l1}
  LidOf <- LidsOf
  Phones = {p1, p2}
  PhoneOf <- PhonesOf
  NoPhone = NoPhone
  NoMessage = NoMessage
  MaxDownloads = 1
  Limit = 1
CHECK_DEADLOCK FALSE
INVARIANTS LimiterExact UpToDate
PROPERTIES StoreExact EveryMessageEnds
