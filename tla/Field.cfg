\* Names that do not occur in one another, and room for all of them.
CONSTANTS
  Names <- DistinctNames
  FieldSize <- RoomForAll
SPECIFICATION Spec
PROPERTY ImplementsNameList
