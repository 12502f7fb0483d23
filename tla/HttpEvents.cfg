SPECIFICATION FairSpec
CONSTANTS
  Clients = {reader}
  Admins = {}
  Requests = {r1, r2}
  Types = {"pm", "login", "topic"}
  Private = {"pm"}
  Filter <- Filters
  Impatient = {}
  Caps = {1, 2}
  MaxEvents = 4
  None = None
  reader = reader
INVARIANTS NothingMissed NoSleeper
PROPERTY ImplementsFeed
PROPERTY WaitersResolved
