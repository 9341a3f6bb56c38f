SPECIFICATION Spec
CONSTANTS
  Sent = {"son", "soff", "trueno", "ilegible"}
  EnchufeLimit = 2
  TiempoRadioTotal = 2
  IntMax = 2
  TotalRayos = 2
  TurbinaLoops <- MCTurbinaLoops
  SillaLoops = 3
  ShapeFrom = 2
  RoundsToWin = 2
  EntryPolls = 2
  QuietLoops = 1
INVARIANTS
  IndInv
  EtapasComentadas
  NoSeTraba
