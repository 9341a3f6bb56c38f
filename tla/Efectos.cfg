SPECIFICATION EfectosSpec
CONSTANTS
  TotalPulso = 3
  IntMax = 4
  TiempoBuzz = 8
  Repeticiones = 3
  TiempoTrueno = 2
  TiempoManual = 7
  Formas = {2, 3, 4}
  Destellos = {1, 2, 3}
INVARIANTS
  PortalInv
  VeladorInv
  CuadroInv
  TruenoInv
  RfidInv
PROPERTIES
  EfectoImplementado
  EfectosTerminan
