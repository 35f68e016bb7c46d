SPECIFICATION Spec

CONSTANTS
  r1 = r1
  r2 = r2
  foto = foto
  xml = xml
  declaracao = declaracao
  p1 = p1
  p2 = p2
  None = None
  Files = {foto, xml, declaracao}
  TEMPORARY_FILES_QUOTA = 2
  Rmas = {r1, r2}
  Requests = {p1, p2}
  Asked <- MCAsked
  Imported = {r2}
  Divergent = {xml}
  PurposeOf <- MCPurposeOf

SYMMETRY Symmetry
CHECK_DEADLOCK FALSE

INVARIANTS
  RecordHasContent
  UsedOnce

PROPERTIES
  DocumentationSettles
  RepeatsWithoutInvoice
