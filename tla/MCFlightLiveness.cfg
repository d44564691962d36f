SPECIFICATION FairSpec
CONSTANTS
  Sticks = {"yaw"}
  Aux = {}
  ThrottleLevels = {0, 500}
  AlarmCountThreshold = 0
  ChannelOrder <- MCOrder
  MotorCount = 2
PROPERTIES DisarmStops ThrottleDownCuts DeadChannelIsReported LostReceiverComesDown
