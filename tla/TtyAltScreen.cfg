SPECIFICATION FairSpec
CONSTANTS
  KEYBUF = 2
  Keys <- EditKeys
  screen_height = 2
  screen_width = 2
  ANSI_PARAMS = 2
  Counts = {4}
  Outputs <- Prompts
  Modes <- EchoModes
PROPERTY AltScreenEntered
VIEW ConsoleView
