SPECIFICATION FairSpec
CONSTANTS
  Width = 128
  Height = 32
  Picture <- Pictures
  SCREEN_INTERVAL = 1
  ID_TIME = 2
  LONG_PRESS = 2
  Breaks <- AfterTwo
  MaxTurn = 3
  MaxSleep = 3
INVARIANTS TypeOK Shown HeldLights
PROPERTIES PressGoesDark
