SPECIFICATION Spec
CONSTANTS
  r1 = r1
  r2 = r2
  None = None
  Requests <- TheRequests
  Files <- TheFiles
  SeedDirs <- TheSeeds
  Uploads <- TheUploads
  NewIds <- TheIds
  Samples <- TheSamples
  BatchSize = 2
  MaxChars = 3
  Overlap = 1
  MaxRequests = 3
  MaxFaults = 2
SYMMETRY Symmetry
INVARIANTS
  TypeOK
  IndexedAsStored
  TwinsNeedTwoRequests
  ChunksCutRight
\* MaxRequests requests were served.
CHECK_DEADLOCK FALSE
