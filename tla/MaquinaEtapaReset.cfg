SPECIFICATION Spec
CONSTANTS
  Sent = {"reset"}
  EnchufeLimit = 2
  TiempoRadioTotal = 1
  IntMax = 1
  TotalRayos = 1
  TurbinaLoops <- MCTurbinaUno
  SillaLoops = 2
  ShapeFrom = 2
  RoundsToWin = 1
  EntryPolls = 2
  QuietLoops = 1
INVARIANTS
  EtapasComentadas
