SPECIFICATION FairSpec
CONSTANTS
  KEYBUF = 4
  Keys <- TypingKeys
  screen_height = 1
  screen_width = 1
  ANSI_PARAMS = 1
  Counts = {1, 3}
  Outputs <- NoOutput
  Modes <- SilentModes
INVARIANT ModifiersFollowKeys
PROPERTIES ImplementsLineInput OverrunDropsNewest EnterReturns
VIEW ConsoleView
