SPECIFICATION Spec
CONSTANTS
  Models <- MCModels
  Stated <- MCStated
  StrayCodes <- MCStrayCodes
INVARIANTS
  SelectionIsLeast
  EveryVariationResolves
  AdmittedIsOneAlternative
CHECK_DEADLOCK FALSE
