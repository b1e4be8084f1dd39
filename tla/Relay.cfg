SPECIFICATION OneCopySpec
CONSTANTS
  Proc = {p1, p2}
  Name = {"RebornLauncher.exe", "UpdateTemp.exe", "RebornLauncher (1).exe"}
  Canonical = "RebornLauncher.exe"
  Temp = "UpdateTemp.exe"
  MaxBuild = 2
  Absent = Absent
  Cut = Cut
  NoPlace = NoPlace
  p1 = p1
  p2 = p2
  p3 = p3
INVARIANTS
  IInv
  LauncherLeft
  NoDowngrade
PROPERTIES
  UpdateEnds
  RelocationEnds
CHECK_DEADLOCK FALSE
