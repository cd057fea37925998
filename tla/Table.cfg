\* A table, its owner and another user, transactions of up to three instructions
\* and the commands of the tool.
CONSTANTS
  owner = owner
  user = user
  None = None
  Users <- MCUsers
  Owners <- MCOwners
  Names <- MCNames
  ChannelKeys = {k1, k2}
  FieldSize <- MCFieldSize
  ArgSize = 3
  MaxInstructions = 3
SPECIFICATION MCSpec
INVARIANTS TypeOK ClosedTablesAdmit
PROPERTIES ChangesAreSigned GateKept CommandsDoAsTold
