CONSTANTS
  Bsp = bsp
  Remotes = {a1, a2}
  Responsive = {a1, a2}
  PageSet = {p1, p2}
  Frames = {1}
  AllPages = all
  Word = 5
  MaxMaps = 2
  MaxTimeouts = 1
  Patient = TRUE
  SendOutcomes = {TRUE}
SPECIFICATION TlbSpec
INVARIANT TimeoutMeansUnresponsive
CHECK_DEADLOCK FALSE
