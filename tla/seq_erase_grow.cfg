\* Erasing inside a range while the array is full.
SPECIFICATION Spec
CONSTANTS
  Modulus = 8
  startSize = 0
  growBy = 1
  shrinkBy = 2
  RecordRanges <- Numbers5
  EraseRanges <- Numbers5
INVARIANT NoStaleElement
