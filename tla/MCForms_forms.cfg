SPECIFICATION MCSpec
CONSTANTS
  Parts = {"board", "forwards", "draft", "signin", "account", "decisions"}
  Tasks = {"a","b","c","d"}
  Listed <- MCListed
  Rank <- MCRank
  Step = 4
  Word = {"a","c"}
  Texts = {0,1}
  Engines = {"m","gone"}
  Deleted = {"gone"}
  BoardStarts <- MCBoardStarts
  Ports = {1,2}
  ForwardStarts <- MCForwardStarts
  Carriers = {"m","p"}
  PiCarriers = {"p"}
  Efforts = {"p"}
  MaxConv = 2
  DraftStarts <- MCDraftStarts
  People = {"A","B"}
  SignInStarts <- MCSignInStarts
  KeyIds = {1,2,3}
  SignIns = {"here","there"}
  AccountStarts <- MCAccountStarts
  Talks = {"A","B"}
  Requests = {"x","y","z"}
  TalkOf <- MCTalkOf
  DecisionStarts <- MCDecisionStarts
INVARIANTS BoardInv ForwardInv DraftInv AccessInv DecisionInv
PROPERTIES FormsKeepOn
CHECK_DEADLOCK FALSE
