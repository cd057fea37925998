\* Two pages, three calls, one server, two edits of the table or crashes.
CONSTANTS
  first = first
  second = second
  other = other
  server = server
  alice = alice
  bob = bob
  chat = chat
  PresenceChannel = presence
  None = None
  Calls = {first, second, other}
  Setups = {second}
  Servers = {server}
  PageOf <- MCPageOf
  UserOf <- MCUserOf
  Tables <- MCTables
  Default <- MCDefault
  MaxUpsets = 2
SPECIFICATION SessionSpec
CHECK_DEADLOCK FALSE
INVARIANTS BoundToStarted LateCallersShare
PROPERTY ClientsOfATableMeet
