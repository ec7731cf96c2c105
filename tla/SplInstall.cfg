SPECIFICATION Spec
CONSTANTS
  HwLevels = {5, 10, 14}
  SoftLevels = {1, 4, 9}
  SplLevels = {0, 4, 6, 10, 13}
  LOCK_LEVEL = 10
  DISP_LEVEL = 11
PROPERTIES
  SoftintsAfterInstall
