SPECIFICATION Spec
CONSTANTS
  Requests <- MCRequests
  Searchable <- MCSearchable
  Known <- MCKnown
  Chosen <- MCChosen
  Installed <- MCInstalled
  Rows <- MCRows
  Silent = {"megamarket", "drom"}
  Excused = {"megamarket", "drom"}
  Identities <- MCIdentities
INVARIANT CompleteTrue

