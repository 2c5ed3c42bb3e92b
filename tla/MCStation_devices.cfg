SPECIFICATION FairSpec
CONSTANTS
  N = 2
  Poll = Poll
  None = None
INVARIANTS
  TypeOK
  CoilFollows
PROPERTIES
  CommandSettles
  PublishedInTheEnd
