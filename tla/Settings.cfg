SPECIFICATION FairSpec
CONSTANTS
  MaxOpen = 4
  Slots = 3
  Nil = Nil
  Files <- MCFiles
  mrbig_cfg = "main"
  installdir = "disk"
  Sections = {"mrbig", "disk"}
  Contents <- MCContents
  Debugs = {0}
  CfgMax = 7
INVARIANTS TypeOK StoreIsFiles SettingsFollowLines NoFileLost TableIsTrue
PROPERTIES PassEnds
