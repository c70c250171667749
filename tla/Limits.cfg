\* Two servers, one slot each, two documents, one failing call; a listener of two
\* places, three connections, two failing calls.
SPECIFICATION MCSpec
CONSTANTS
  Servers = {sv1, sv2}
  NoServer = NoServer
  NoKey = NoKey
  WholeKeys = {w1, w2, w3}
  PinKeys = {p1}
  OtherKeys = {r1}
  doc = doc
  otherDoc = otherDoc
  Keys <- MCKeys
  DocOf <- MCDocOf
  ClassOf <- MCClassOf
  Limit <- MCLimit
  Slots = 1
  MaxFaults = 1
  Conns = {c1, c2, c3}
  Places = 2
  MaxFailing = 2
  NoCause = NoCause
SYMMETRY Symmetry
CHECK_DEADLOCK FALSE
INVARIANTS JobsHold PlacesHold
PROPERTIES FreshResultStays FatalEndsService PlacesAreReturned
