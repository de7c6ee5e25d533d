\* A device formatted with the entry for the parent in use or not.
CONSTANTS
  SectorCount = 14
  BLOCK_SECTOR_SIZE = 2
  DIRECT_BLOCKS_COUNT = 1
  INDIRECT_BLOCKS_PER_SECTOR = 2
  Names = {a, b}
  Handles = {h1, h2}
  Values = {1}
  RootEntries = 2
  ParentEntries <- either_Parent
  CreateSizes <- some_CreateSizes
  WriteSizes <- some_WriteSizes
  Seeks <- some_Seeks
  MaxLength = 7
  MaxCalls = 6
SYMMETRY symmetry
SPECIFICATION Spec
INVARIANT CreatedFound
\* A panic stops the machine, and MaxCalls ends the run.
CHECK_DEADLOCK FALSE
