\* Messages said in two conversations; frames for a browser on either replica, which come
\* and go.
SPECIFICATION MCSpec
CONSTANTS
  Convs = {"A", "B"}
  Msgs = {"m1", "m2", "image", "compact"}
  Images = {"image"}
  Compacts = {"compact"}
  Agentred = TRUE
  Budgets <- MCBudgets
  MaxInbox = 2
  MaxTasks = 1
  Channels = {1, 2}
  Placements = {{}, {1}}
  Queues = {1, 2}
  Consumers = {1, 2}
  NoChannel = NoChannel
  NoQueue = NoQueue
  NoConsumer = NoConsumer
  Depth = 1
  MaxFrames = 2
  MaxFaults = 1
INVARIANTS SendInv RelayInv ReceiptMeansDelivered OrderedThroughRetries
CHECK_DEADLOCK FALSE
