SPECIFICATION BSpec
CONSTANTS
  Candidates <- MCCandidates
  Senders = {}
  Listings = {}
  NoAddress = 99
  AddressBytes = 2
  TopicBytes = 3
  WeiPerSatoshi = 10
  WordBytes = 3
  HeadBytes = 2
  Uint96 = 1000
  AllOne = 255
INVARIANT
  ValuesAreExact
CHECK_DEADLOCK FALSE
