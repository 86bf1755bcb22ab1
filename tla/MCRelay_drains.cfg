\* Undeliverable frames and failed calls do not hold up the stream; browsers on this
\* replica or both on the other.
CONSTANTS
    Channels = {1, 2}
    Placements = {{}, {1, 2}}
    Queues = {1, 2}
    Consumers = {1}
    NoChannel = NoChannel  NoQueue = NoQueue  NoConsumer = NoConsumer
    Depth = 1
    MaxFrames = 2
    MaxFaults = 1
SPECIFICATION FairSpec
PROPERTIES StreamDrains
CHECK_DEADLOCK FALSE
