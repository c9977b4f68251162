SPECIFICATION TreeSpec
CONSTANTS
  Name = {"x", "y", "z"}
  Path <- Paths
  Size = {0, 3}
  EXT2_BLOCK_SIZE = 3
  s_inodes_count = 6
  s_blocks_count = 7
INVARIANTS
  TypeOK
  DirectoriesWhole
  
  
  CheckerSpares
PROPERTIES
  
  ImplementsTree
CHECK_DEADLOCK FALSE
