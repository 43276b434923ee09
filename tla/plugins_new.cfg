\* A new plugin that another plugin asks to unload.
CONSTANTS
  a = a
  b = b
  c = c
  NoFile = NoFile
  NoPath = NoPath
  NoInfo = NoInfo
  Build <- MCBuild
  MaxPlugins = 2
  Path <- TwoFiles
  Family <- TwoPlugins
  PfSpecific <- SpecificB
  Contents <- LevelAny
  IniFiles <- IniMore
SPECIFICATION FairSpec
PROPERTY NewAreLoaded
