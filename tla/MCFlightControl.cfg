SPECIFICATION Spec
CONSTANTS
  Sticks = {"yaw"}
  Aux = {}
  ThrottleLevels = {0, 500, 900}
  AlarmCountThreshold = 1
  ChannelOrder <- MCOrder
  MotorCount = 2
INVARIANTS PowerNeedsPulses CeilingCounted AlarmsShown AlarmComesDown StickDownLands
