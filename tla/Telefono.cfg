SPECIFICATION FairSpec
CONSTANTS
  Objetivo <- MCObjetivo
  Base = 3
  DebounceDelay = 0
  DialTime = 2
  HangTime = 3
  ResetTime = 5
  Pasadas = {1, 2}
INVARIANTS
  TelefonoInv
  UnPaquete
PROPERTIES
  PulsoConfirmado
  CalladoTrasGanar
  ManualResponde
  TuboAvisado
