\* Two plugins and a second build of one; a file disappears, another turns bad.
CONSTANTS
  a = a
  b = b
  c = c
  NoFile = NoFile
  NoPath = NoPath
  NoInfo = NoInfo
  Build <- MCBuild
  MaxPlugins = 2
  Path <- ThreeFiles
  Family <- TwoAndBuild
  PfSpecific <- SpecificC
  Contents <- Changing
  IniFiles <- IniBuilds
SPECIFICATION CleanSpec
INVARIANTS TypeOK OpenedHasInfo UniquePath ParentAlive RunningNotPending KeepIsTransient BootMostSpecific
PROPERTY OthersStay
