SPECIFICATION Spec
CONSTANTS
  Value = {0, 1}
  Zero = 0
  VdiBlocks = 2
  VdiBlockSize = 2
  VdiPlaces = 2
  VhdBlocks = 2
  VhdBlockSize = 2
  VhdPlaces = 2
  VmdkTables = 3
  VmdkTableSize = 1
  VmdkGrainSize = 2
  InDirectory = {0}
  InCopy = {0, 1}
  VmdkPlaces = 2
  image = image
  CacheLimit = 0
  MaxLength = 2
INVARIANTS
  TypeOK
  FilesAreSound
  SavedFilesAreWhole
PROPERTIES
  MarkedBeforeWritten
  ReadsBack
  FlushAllSaves
