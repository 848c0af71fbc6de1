SPECIFICATION Spec
CONSTANTS
  MaxUpdate = 3
  ChatOf <- Chats
  Callbacks = {3}
  WorkLimit = 1
  Workers = 2
  Ends = 2
  Crashes = 1
  Main = "main"
  AiSlots = {"ai"}
  Bots = {"b1", "b2"}
  NoBot = "none"
  Order <- SlotOrder
  Ops = 4
  Faults = 1
  Deaths = 1
  Users = {"ann"}
  MaxToken = 3
  TokenLimit = 2
  MaxTap = 3
  MaxChanges = 0
  Losses = 1
  Messages = {"n", "r", "t", "u", "x"}
  KindOf <- MessageKind
  PendingLimit = 2
  QueueLimit = 1
  MaxAttempts = 2
  Switches = 1
  Outages = 0
INVARIANTS UpdatesSafe SlotsSafe ActionsSafe OutboxSafe MenuSafe
PROPERTY TelegramSteps
CHECK_DEADLOCK FALSE
