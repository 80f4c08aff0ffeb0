\* Two modules, the first of up to three sections in every order: lines in front of
\* the checksums and behind them, blocks without lines, with columns, of two files.
CONSTANTS
  MaxSections = 3
  LineStreams <- MCLineStreams
  Programs <- MCPrograms
SPECIFICATION Spec
INVARIANTS WalkFollowsLayout FilesResolve LinesCoverCode
\* The example returns.
CHECK_DEADLOCK FALSE
