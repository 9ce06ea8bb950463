SPECIFICATION AdmSpec
CONSTANTS
  Clients = {1, 2}
  Sids = {1, 2}
  Calls = {1, 2}
  max_clients = 1
  MaxConnects = 1
  Backlog = 1
CHECK_DEADLOCK FALSE
INVARIANT SlotsExact
INVARIANT AtMostMaxClients
INVARIANT OneConnectionPerCall
PROPERTY SlotsComeBack
PROPERTY Reached
