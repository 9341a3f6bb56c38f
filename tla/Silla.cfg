SPECIFICATION FairSpec
CONSTANTS
  OffLimit = 3
  IntMax = 5
INVARIANTS
  SillaInv
PROPERTIES
  ReporteJustificado
  ContactoAvisado
