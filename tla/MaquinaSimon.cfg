SPECIFICATION HSpec
CONSTANTS
  Sent = {"reset", "off"}
  EnchufeLimit = 3
  TiempoRadioTotal = 1
  IntMax = 1
  TotalRayos = 1
  TurbinaLoops <- MCTurbinaUno
  SillaLoops = 2
  ShapeFrom = 2
  RoundsToWin = 3
  EntryPolls = 3
  QuietLoops = 1
INVARIANTS
  SimonSinAtajo
  CuentaEnchufe
