SPECIFICATION Spec
CONSTANTS
    one = one
    ten = ten
    Pods = {one, ten}
    Longer <- LongerNames
    Loaded = {one, ten}
    Worked = {ten}
    Ends = {"reset", "delete", "full"}
    MaxStarts = 2
    MaxUpsets = 2
  
PROPERTIES OthersStand
CHECK_DEADLOCK FALSE
