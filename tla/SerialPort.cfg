SPECIFICATION Spec
CONSTANTS
  Bauds <- MCBauds Paritys <- MCParitys Sizes <- MCSizes Stops <- MCStops Found <- MCFound
INVARIANTS PrefixApplied LineApplied HandedOver8N1
CHECK_DEADLOCK FALSE
