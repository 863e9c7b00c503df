SPECIFICATION Spec
CONSTANTS
  INPUT_BUF_SIZE = 3
  UINT = 6
  NL = NL
  EOT = EOT
  Char = {a, NL, EOT}
  Readers = {p1, p2}
  Nobody = Nobody
  MaxN = 2
SYMMETRY Symm
INVARIANTS NoLostWakeup
PROPERTIES EofSeen IsLineBuffer
