\* Six field bytes and the two past them, a two-byte delimiter, bytes 0, 1
\* and 255, the real 8-bit subfields: a delimiter can start in the last byte.
CONSTANTS
  F = 6
  TOKEN_LENGTH = 2
  Bytes = {0, 1, 255}
  MAX_SUBFIELDS = 256
  SUBFIELD_MOD = 256
SPECIFICATION Spec
INVARIANT ScanStaysInField
\* main_job returns after the scan.
CHECK_DEADLOCK FALSE
