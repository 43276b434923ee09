\* Two plugins left to the changelevels.
CONSTANTS
  a = a
  b = b
  c = c
  NoFile = NoFile
  NoPath = NoPath
  NoInfo = NoInfo
  Build <- MCBuild
  MaxPlugins = 2
  Path <- TwoFiles
  Family <- TwoPlugins
  PfSpecific <- SpecificB
  Contents <- LevelAny
  IniFiles <- IniTwice
SPECIFICATION FairSpec
PROPERTY Converges
