SPECIFICATION MCSpec
CONSTANTS
  Parts = {"index", "machines", "devices", "engines", "targets", "preview"}
  Rows = {"a","b","c"}
  MaxAt = 4
  PageSize = 1
  IndexStarts <- MCIndexStarts
  Keys = {"all","word","unread"}
  Narrowed = {"unread"}
  LastPage = 2
  MachineStarts <- MCMachineStarts
  Devs = {"a","b"}
  Gone = {"b"}
  DeviceStarts <- MCDeviceStarts
  Boxes = {"x","y"}
  Backs = {1,2}
  Models = {"g","h"}
  Askers = {"p","q"}
  EngineStarts <- MCEngineStarts
  Tiers = {"a","b","c","p","n"}
  Pinned = {"p","n"}
  Nameless = {"n"}
  Machines = {"m1","m2"}
  Skills = {"s","t"}
  TargetStarts <- MCTargetStarts
  Talks = {"A","B"}
  Paths = {"f","g","h"}
  Marks = {"f"}
  Roots = {"r","s"}
  PreviewStarts <- MCPreviewStarts
INVARIANTS IndexInv MachineInv DevicesInv AgentInv PreviewInv
PROPERTIES ListsKeepOn
CHECK_DEADLOCK FALSE
