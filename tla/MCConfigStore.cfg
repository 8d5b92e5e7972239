CONSTANTS
  Link = {factoryLink, otherLink}
  Body = {factoryBody, otherBody}
  DefaultLink = factoryLink
  DefaultBody = factoryBody
  NoBlob = NoBlob
  NoLink = NoLink
  MaxSeq = 5
SPECIFICATION Spec
INVARIANTS SaveSparesBest
PROPERTIES CompletedSaveIsBest ImplementsCell
