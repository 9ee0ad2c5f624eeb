CONSTANTS
  Chars = {"a", "b", "c", "nul"}
  Nul = "nul"
  Url <- MCUrl
  Target <- MCTarget
  Images <- MCImages
  Protections = {"r", "rw", "garbage"}
  ReadOnly = "r"
  ReadWrite = "rw"
SPECIFICATION Spec
INVARIANTS
  TypeOK
  SearchExact
  UrlWhole
  OthersUntouched
  ProtectionRestored
  Redirected
PROPERTIES LoadingEnds ImplementsRedirect
