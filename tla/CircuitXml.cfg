CONSTANTS
  Names <- GateNames
  Documents <- TestFiles
  MaxLevels = 5
SPECIFICATION XmlSpec
INVARIANT MeaningIsKept
