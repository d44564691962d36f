SPECIFICATION Spec
CONSTANTS
  Sticks = {"yaw"}
  Aux = {}
  ThrottleLevels = {0, 500}
  AlarmCountThreshold = 1
  ChannelOrder <- MCOrder
  MotorCount = 2
INVARIANTS StartArmsMotors
