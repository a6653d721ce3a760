CONSTANTS
  t1 = t1
  t2 = t2
  trimmer = trimmer
  committer = committer
  noProc = noProc
  Threads <- MC_Threads
  Trimmer <- trimmer
  Committer <- committer
  NoProc <- noProc
  Catalog <- MC_Catalog
  BlockSize = 2
  NBlocks = 1
  MaxFix = 1
  Viewers <- MC_NoShares
  ShareBats <- MC_NoShares
SPECIFICATION Spec
VIEW MC_View
PROPERTIES
  KeeprefSkipsUnload
