SPECIFICATION FairSpec
CONSTANTS
  Plus = Plus
  Hash = Hash
  Level = {a, b, Plus, Hash}
  MaxLevels = 3
  Patterns <- AllLevels
  Topics <- AllLevels
CHECK_DEADLOCK FALSE
INVARIANT TypeOK
INVARIANT ResultIsSelects
PROPERTY Terminates
