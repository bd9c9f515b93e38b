CONSTANTS
  MaxFlights = 2
  MaxSaves = 2
  MaxEntries = 5
  MaxMishaps = 1
SPECIFICATION FairSpec
INVARIANTS EntriesAreKnown UploadedIsCurrent EnteredIsKept
PROPERTY AllGetUploaded
