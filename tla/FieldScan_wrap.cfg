\* subfields is an unsigned char tested against MAX_SUBFIELDS = 256 = 2^8;
\* both are scaled to 2 so that a field of six bytes holds enough
\* delimiters to reach the bound.
CONSTANTS
  F = 6
  TOKEN_LENGTH = 2
  Bytes = {0, 1, 255}
  MAX_SUBFIELDS = 2
  SUBFIELD_MOD = 2
SPECIFICATION Spec
INVARIANT StatsMatchReference
\* main_job returns after the scan.
CHECK_DEADLOCK FALSE
