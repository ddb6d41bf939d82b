SPECIFICATION Spec

CONSTANTS
    Sessions = {p1}
    Commands = {lat, lon}
    Lat = lat
    Lon = lon
    GetLoc = getloc
    Nothing = Nothing
    Messages = {lat, getloc}
    Revocable = {lat, lon}
    Queue = 1
    Tries = 2
    MaxLog = 2

CHECK_DEADLOCK FALSE

INVARIANTS TypeOK DrainLeavesNoSessionOpen
PROPERTIES AuthorizedSinceTaken ConsolesUnwind
