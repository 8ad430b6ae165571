SPECIFICATION FairSpec
CONSTANTS
  Versions <- MCVersions
  Names = {"a", "b"}
  NameOf <- MCNameOf
  Size <- MCSize
  NoFile = NoFile
  Environments = {{"fault", "late"}, {"fault", "late", "backup"}, {"fault", "reuse", "backup"}, {"short", "reuse"}, {"fault", "grow", "reuse"}, {"replace", "grow", "reuse"}}
  MaxFaults = 3
INVARIANTS Consistent BackupKeepsAll NothingLost OnlyWhole ShortIsCaught NoTornFile
PROPERTIES TmpOnlyGrows Implements DeliveredEventually ExactlyOnce EmptiedEventually
