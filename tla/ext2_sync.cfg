SPECIFICATION Spec
CONSTANTS
  i1 = i1
  p1 = p1
  p2 = p2
  Block <- Blocks
  InodeBlock <- Inodes
  Part = {1, 2}
  Val = {0, 1}
  WB_SLOTS = 2
  NoBuf = NoBuf
SYMMETRY Sym
PROPERTY SuperSynced
