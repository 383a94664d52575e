SPECIFICATION CloudFairSpec
CONSTANTS
  Opener = {o1, o2}
  Statement = {w1, w2}
  Theirs = theirs
  MaxSyncs = 1
  Worlds <- Six
  NoFile = NoFile
 
PROPERTIES MarkedIsKept NoClobber Pushed
CHECK_DEADLOCK FALSE
