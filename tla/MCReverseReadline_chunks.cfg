\* Chunks of two characters, lines of up to three.
SPECIFICATION ReaderSpec
CONSTANTS
  BufSize = 2
  MaxLine = 3
  MaxWritten = 4
  MaxTruncates = 1
INVARIANTS ReaderTypeOK LinesInReverse RaisesOnlyTruncated
