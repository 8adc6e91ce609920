SPECIFICATION Spec
CONSTANTS
  Bits = 9
  BufSize = 5
  BehindBuf <- MCBehindBuf
  BehindFormat <- MCBehindFormat
  Formats <- MCFormats
INVARIANTS TypeOK StaysInBounds PrintsFormat
\* The format is printed.
CHECK_DEADLOCK FALSE
