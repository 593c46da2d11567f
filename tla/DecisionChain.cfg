CONSTANTS
  r1 = r1
  r2 = r2
  alias = alias
  typo = typo
  e1 = e1
  e2 = e2
  t1 = t1
  p1 = p1
  p2 = p2
  Route = {r1, r2}
  Diamond = {r1, r2}
  GanOnDiamond = r2
  Name = {r1, r2, alias, typo}
  Unknown = Unknown
  Canonical <- Resolve
  Case <- TwoCases
  Bodies <- ThreeBodies
  Command = {e1, e2, t1, p1, p2}
  Kind <- Kinds
  Overlap = {"propose"}
  Absent = Absent
  Torn = Torn
  Nothing = Nothing
SPECIFICATION Spec
SYMMETRY Symmetry
INVARIANTS ContextCoherent ApprovalWarranted RenderedRecordPasses
PROPERTIES StaleRecordRefused ProposalWasCurrent
