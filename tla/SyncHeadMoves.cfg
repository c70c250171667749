\* Another document's build pulls before head.txt is written.
SPECIFICATION Spec
CONSTANTS
  Setups <- TwoRequests
INVARIANTS HeadTellsPagesOfEach
