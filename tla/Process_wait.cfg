\* Two runs on a machine with enough pages.
CONSTANTS
  Runs = 2
  MaxPages = 13
  MaxLine = 0
  Boots <- some_Boots
  UserPages = 4
  Segments = 2
  Main = Main
  Idle = Idle
  KernelDir = KernelDir
SPECIFICATION Spec
INVARIANT RunWaits
