SPECIFICATION Spec
CONSTANTS
  b1 = b1
  f1 = f1
  s1 = s1
  s2 = s2
  NoImage = NoImage
  Torn = Torn
  NoJob = NoJob
  Job <- TwoJobs
  BackupJob <- OneBackup
  FlashJob <- OneFlash
  FetchJob <- OneFetch
  UploadJob <- OneUpload
  FullKeep = 1
  RootfsMB <- Sizes
  Needed <- Needs
  LastSecond = 2
  Fails <- FailPoint
  MaxRestarts = 1
INVARIANTS
  ArchivesAreSlim
PROPERTIES
  ProgramSurvives
  FlashedIsVerified
  FlashHasBackup
CHECK_DEADLOCK FALSE
