SPECIFICATION FairSpec
CONSTANTS
  Nick = {"bo", "BO", "al", "ed"}
  Channel = Channel
  Server = Server
  Starts <- Exactly
  StartsFold <- Folded
  Plain = {"JOIN"}
  First = "bo"
  MaxSaid = 2
  MaxAsked = 1
INVARIANTS NickFollows RightEvent PongsOwed
PROPERTIES PingsAnswered
CHECK_DEADLOCK FALSE
