\* ov_new() with any text, and a load of any package
CHECK_DEADLOCK FALSE
CONSTANTS
  Names = {"GO", "CFG"}
  Files <- MCFiles
  Texts <- MCTexts
  Packages <- MCPackages
  MaxLoads = 2
SPECIFICATION PackageSpec
INVARIANTS
  AcceptsFormat
  DataSent
  InUseIsOfOneText
PROPERTIES
  MapFollowsBits
