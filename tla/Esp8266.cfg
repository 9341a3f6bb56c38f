SPECIFICATION EspSpec
CONSTANTS
  Bursts = {1, 2}
  MaxReports = 4
  MaxRestarts = 2
  PuertoCap = 3
  WifiLimit = 1
  QuietLoops = 2
  IntMax = 3
  Size = 4
  FifoCap = 3
  MaxBytes = 7
  Clientes = {a, b, c}
  DataWait = 1
  CloseWait = 2
  Pasos = {1, 2}
  Vuelta = 5
INVARIANTS
  WifiInv
  Entrega
  PlataformaInv
PROPERTIES
  PierdeSoloAlReiniciar
  TodoLlega
  UartEsCola
  BytesTomados
  DescarteJustificado
  PedidoAtendido
