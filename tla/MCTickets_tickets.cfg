\* One share of three files and one session, a ticket and two requests.
SPECIFICATION Spec
CONSTANTS
  Sessions = {t1}
  Ids = {i1}
  Handlers = {h1, h2}
  NFiles = 3
  Singles = {1}
  NameLists <- SomeLists
  Limit = 1
  SessionTTL = 2
  TicketTTL = 1
  MaxTime = 3
INVARIANT ProbesAreFree
INVARIANT EndedServesNothing
INVARIANT ArchiveWhole
INVARIANT EntryNamesDistinct
PROPERTY TicketsSwept
CHECK_DEADLOCK FALSE
