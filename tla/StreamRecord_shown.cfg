CONSTANTS
    MaxBlocks = 4
    MaxLength = 3
    MaxWire = 2
    None = None
SPECIFICATION Spec
INVARIANTS
    ShownAsRecorded
    TextsAsProduced
CHECK_DEADLOCK FALSE
