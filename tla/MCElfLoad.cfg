SPECIFICATION Spec
CONSTANTS
  MemTop = 9
  READ = 3
  Loader = {0}
  Files <- MCFiles
INVARIANTS TypeOK SafeFilesLoad SafeNeverDerails OnlySegmentsWritten
CHECK_DEADLOCK FALSE
