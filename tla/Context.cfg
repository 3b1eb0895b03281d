SPECIFICATION Spec
CONSTANTS
  edge = edge
  peer = peer
  last = last
  requestId = requestId
  other = other
  junk = junk
  Malformed = Malformed
  Absent = Absent
  Outside = Outside
  Units = {edge, peer, last}
  Values = {v1, v2, v3}
  Fields <- MCFields
  TrustOf <- MCTrust
  MintsId <- MCMintsId
  Declarations <- MCDeclarations
  Wires <- StringWires
  Encode <- StringEncode
  Decode <- StringDecode
  Uuids <- Values
INVARIANTS
  StoreKeepsContracts
  NothingForged
  OneIdPerUnit
  CorrelationSurvivesAHop
  BindingsAreFresh
  NothingToldIsRewritten
SYMMETRY Symmetry
CHECK_DEADLOCK FALSE
