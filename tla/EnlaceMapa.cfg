SPECIFICATION Spec
CONSTANTS
  NumBotones = 2
  WifiLimit = 1
  QuietLoops = 2
  IntMax = 3
  Espera = 5
  Lenta = 3
  Bloqueo = 2
INVARIANT
  MapaInv
PROPERTIES
  SeparadasSinAlarma
  OrdenObedecida
  EcoTermina
