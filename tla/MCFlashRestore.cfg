SPECIFICATION Spec
CONSTANTS
  RegionSize = 2
  SectorSize = 3
  ConfigLen = 2
  Gains = {0, 1}
  Biases = {0, 1}
  Calibrations <- MCCalibrations
  Alignments <- MCAlignments
  DefaultGain = 0
  DefaultBias = 0
  LastMode = 2
  Texts = {}
  Faulty = FALSE
PROPERTIES ComesBackAsSaved
