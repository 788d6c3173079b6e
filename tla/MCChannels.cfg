SPECIFICATION ChannelsFairSpec
CONSTANTS
  Channel = {"#a"}
  Me = "boskop"
  Other = {"u", "v"}
  Configured = {"#a"}
  Heads = {}
  MaxRetries = 2
  MaxLines = 2
  MaxTalk = 1
INVARIANTS
  ViewAgrees
  OrdersKept
PROPERTY Rejoins
