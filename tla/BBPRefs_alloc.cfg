CONSTANTS
  t1 = t1
  t2 = t2
  trimmer = trimmer
  committer = committer
  noProc = noProc
  Threads <- MC_Threads
  Trimmer <- trimmer
  Committer <- committer
  NoProc <- noProc
  Catalog <- MC_NoCatalog
  BlockSize = 1
  NBlocks = 3
  MaxFix = 1
  Viewers <- MC_Threads
  ShareBats <- MC_ShareBats
SPECIFICATION Spec
SYMMETRY MC_Symmetry
VIEW MC_View
INVARIANTS
  FreeListSound
  SharedParentResident
