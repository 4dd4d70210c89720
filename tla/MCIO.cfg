CONSTANTS
    W = 8
    Cases <- MCCases
    Rooms <- MCRooms
SPECIFICATION Spec
INVARIANTS ReadIsWritten WriteIsStored NothingLost LengthExact
CHECK_DEADLOCK FALSE
