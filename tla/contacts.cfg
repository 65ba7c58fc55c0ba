SPECIFICATION Spec
CONSTANTS
  MaxContacts = 2
  phone = phone
  email = email
  Values = {phone, email}
  Refs = {phone}
  Sales = {s1, s2}
  Writes <- WritesDef
  Ops = {"message", "booking", "inbox", "upsert", "merge", "delete"}
  Handlers = {h1, h2}
  NoValue = none
INVARIANTS NoGhost AnswerIsOwner
PROPERTIES DirectorySpec
SYMMETRY Sym
