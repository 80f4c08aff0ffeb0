\* Streams of up to three modules whose names take every residue
\* of the alignment together, with the linker's module anywhere or nowhere; and
\* up to two source files of each, more together than the integers count here.
CONSTANTS
  MaxModules = 3
  NameLengths = {0, 1, 3}
  ObjectNameLengths = {0, 3}
  MaxFiles = 2
  UInt16Range = 3
  ModuleStreams <- MCModuleStreams
  SourceStreams <- MCSourceStreams
SPECIFICATION SourceSpec
INVARIANTS EstimateIsEnough WalkFollowsRecords LinkerModuleIsFound FilesOfOwnModule
