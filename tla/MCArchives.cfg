SPECIFICATION ArchivesSpec
CONSTANTS
  Commands <- MCCommands
  MaxSteps = 9
  Requests <- MCRequests
  Longer <- MCLonger
INVARIANTS ArchiveSound BeforeWhatIsBelow UnpackedSound ExtractedSound FailuresJustified
