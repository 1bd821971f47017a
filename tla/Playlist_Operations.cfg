CONSTANTS
    Names = {s1, s2, s3}
    Orders <- MCOrders
    Offsets <- MCOffsets
    IntMax = 7
SPECIFICATION PlaylistSpec
INVARIANTS
    PlaylistTypeOK
    CursorInRange
    OrderHasEntries
PROPERTIES
    ChangesAreSignalled
