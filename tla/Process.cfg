\* Two runs, and any number of pages from none to enough for both.
CONSTANTS
  Runs = 2
  MaxPages = 13
  MaxLine = 5
  Boots <- some_Boots
  UserPages = 3
  Segments = 2
  Main = Main
  Idle = Idle
  KernelDir = KernelDir
SPECIFICATION Spec
INVARIANT ActiveDirectoryLive
INVARIANT ArgumentsAlive
INVARIANT PagesAccounted
INVARIANT ArgumentsPushed
PROPERTY ExecuteReturns
