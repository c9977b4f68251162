SPECIFICATION TreeSpec
CONSTANTS
  Name = {"x", "y", "z"}
  Path <- Paths
  Size = {1}
  EXT2_BLOCK_SIZE = 4
  s_inodes_count = 6
  s_blocks_count = 5
INVARIANTS
  EntriesLive
  LinksCounted
  BlocksOwned
  CheckerMends
PROPERTIES
  RestoreUndoesRm
CHECK_DEADLOCK FALSE
