CONSTANTS
  Users = {u1, u2}
  Items = {i1, i2}
  Lists = {l1}
  Room = room
  NoDoc = NoDoc
  Invalid = Invalid
  Requests = {q1, q2}
  Mixes <- AllMixes
  Descriptions = {"ice cream", "semifreddo", "milk crate"}
  Releases = {3, 4}
  Similarity <- Score
  Threshold = 5
  TopK = 3
SPECIFICATION Spec
SYMMETRY Symmetry
CHECK_DEADLOCK FALSE
INVARIANTS TypeOK AnchorsInForce EntriesExplained OneAnswerPerRun AcknowledgedHolds LateRefusals HiddenItemsTicked NothingVanishes
