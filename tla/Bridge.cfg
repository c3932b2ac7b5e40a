SPECIFICATION BridgeSpec
CONSTANTS
  MaxConnections = 3
  MaxSubscribers = 3
INVARIANTS BridgeTypeOK Mirrors Reached
PROPERTIES Visible FanOutEnds
