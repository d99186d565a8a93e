SPECIFICATION Spec
CONSTANTS
  a = a
  b = b
  v1 = v1
  v2 = v2
  dir = dir
  below = below
  Scripts <- MCScripts
  Texts <- MCTexts
  Paths <- MCPaths
  Below <- MCBelow
  Configs <- MCConfigs
  MaxEdits = 1
  EditMeanwhile = FALSE
INVARIANTS
  StartIsKnown
  FilesOfScripts
  EditIsLive
