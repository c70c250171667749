\* One document, with the watch, closes and rebuild requests around its builds;
\* or two that share the checkout.
SPECIFICATION FairSpec
CONSTANTS
  Setups <- MCSetups
INVARIANTS SyncStateHolds
PROPERTIES RoundsKeepFaith RoundsComeThrough
