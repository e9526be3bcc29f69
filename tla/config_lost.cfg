CONSTANTS
  Files = {"config"}
  Entries = {"a", "b"} Roots = {"a", "b"} Longest = 2 Writers = {1, 2} Hashed = {TRUE}
SPECIFICATION FilesSpec
PROPERTY HashedEditsSeeWhatTheyReplace
CHECK_DEADLOCK FALSE
