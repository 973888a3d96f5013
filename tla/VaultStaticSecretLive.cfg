SPECIFICATION LiveSpec
PROPERTIES
  SecretConverges
  
  CancelledStops
CONSTANTS
  None = None
  w1 = w1
  w2 = w2
  w3 = w3
  Watcher <- TwoWatchers
  Hmac = TRUE
  Poll = TRUE
  MaxGen = 1
  MaxVal = 2
  MaxTok = 2
  errorThreshold = 1
  MaxRestarts = 0
  Events = {"drift", "streamError"}
