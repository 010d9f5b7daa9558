\* Sessions without end, one after the other.
CONSTANTS
  InboxSize = 3
SPECIFICATION FairSpec
INVARIANTS CredentialsOnce RegisteredOwned
PROPERTIES NoFurtherCredentials DeadlinesHold
