SPECIFICATION Spec
CONSTANTS
  Users = {"u1", "u2"}
  Requests = {q1}
  Jobs = {j1}
  Seeds = {o1}
  Ingesters = {i1, i2}
  Owner <- MCOwner
  Emails <- MCEmails
  Releases <- MCReleases
  Score <- MCScore
  Rules <- MCRules
  Questions <- MCQuestions
  Operations <- MCOperations
  ToolCalls <- MCToolCalls
  MaxBusy = 2
  Groups = {"legal"}
INVARIANTS TypeOK SearchBlind NewestCopyShown SurfacesAgree
PROPERTIES GrantsKept GrantLands
