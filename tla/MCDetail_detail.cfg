SPECIFICATION MCSpec
CONSTANTS
  Parts = {"transcript", "settings", "org", "projects", "directories"}
  Talks = {"A","B"}
  MaxRow = 3
  MirrorPage = 1
  TailFrames = 1
  PullLimit = 2
  TopupCap = 1
  Viewport = 2
  Starts <- MCStarts
  Convs = {"A","B"}
  Abroad = {"A"}
  Values = {0,1,2}
  SettingStarts <- MCSettingStarts
  Depts = {"d1","d2"}
  Agents = {"a"}
  Texts = {0,1}
  OrgStarts <- MCOrgStarts
  Projects = {"p","q","r"}
  Parent <- MCParent
  ProjectStarts <- MCProjectStarts
  Hosts = {"d","e"}
  FsStarts <- MCFsStarts
INVARIANTS TranscriptInv SettingsInv OrganizationInv FsInv
PROPERTIES DetailKeepsOn
CHECK_DEADLOCK FALSE
