SPECIFICATION Spec
CONSTANTS
  edge = edge
  peer = peer
  last = last
  requestId = requestId
  other = other
  junk = junk
  Malformed = Malformed
  Absent = Absent
  Outside = Outside
  Units = {edge, peer}
  Values = {v1, v2}
  Fields <- MCFields
  TrustOf <- MCTrust
  MintsId <- MCMintsId
  Declarations <- AppDeclaration
  Wires <- StringWires
  Encode <- StringEncode
  Decode <- StringDecode
  Uuids <- Values
INVARIANTS RejectionsAreReported
SYMMETRY Symmetry
CHECK_DEADLOCK FALSE
