\* The record: one person, two agents and their stale pages around one pin.
\* The tags: two people and the agent, two posts, the two latest records.
SPECIFICATION MCSpec
CONSTANTS
  People = {person}
  Agents = {a1, a2}
  Nobody = Nobody
  MaxRev = 5
  MaxClock = 2
  ClaimTicks = 1
  ThreadMax = 1
  SameSecondCloses = FALSE
  Writers = {ann, bob}
  Agent = agent
  Names = {lee}
  AddedFor = {Nobody, bob}
  HandedTo = {agent, ann}
  Window = 1
  Keep = 2
  MaxTicks = 2
  MaxPosts = 2
  MaxRows = 3
  MaxFaults = 1
SYMMETRY Symmetry
CHECK_DEADLOCK FALSE
INVARIANTS RecordHolds TagsWereTold PostsReachAll
PROPERTIES ActsOnWhatWasSeen HoldersKeepTheirs CooldownKept
