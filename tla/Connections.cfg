SPECIFICATION Spec
CONSTANTS
  MaxMoves = 3  MaxFaults = 1
  Updates <- FourUpdates  MaxTgFaults = 2
CHECK_DEADLOCK FALSE
INVARIANTS TypeOK ChannelsAreTrue
PROPERTIES PairingEnds
