SPECIFICATION PageLive
CONSTANTS
  PageConv = {c1, c2}
  MaxTexts = 2
  Nothing = Nothing
  MaxStreams = 3
  MaxOpens = 2
PROPERTIES QueueGoesOn
CHECK_DEADLOCK FALSE
