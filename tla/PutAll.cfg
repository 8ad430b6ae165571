SPECIFICATION FairSpec
CONSTANTS
  Versions <- ReuseVersions
  Names = {"a", "b"}
  NameOf <- ReuseNameOf
  Size <- ReuseSize
  NoFile = NoFile
  Environments = {{"fault", "backup"}, {"fault", "late"}, {"fault", "late", "race", "backup"}, {"fault", "grow"}}
  MaxFaults = 3
INVARIANTS Agreement WholeFile NoTornFile BackupKeepsAll
PROPERTIES Implements DeliveredEventually
