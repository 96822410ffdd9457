\* One diagnosis whose appends fail only with their context.
SPECIFICATION Spec
CONSTANTS
  Sessions = {1}
  StoreFaults = FALSE
INVARIANTS
  OnlyElasticIsFatal
CHECK_DEADLOCK FALSE
