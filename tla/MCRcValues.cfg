SPECIFICATION Spec
CONSTANTS
  Sticks = {"yaw", "pitch"}
  Aux = {}
  ThrottleLevels = {0, 300}
  IdleCount = 2
INVARIANTS EveryToggleCounts
PROPERTIES GestureIsDeliberate ImplementsRcInterface
