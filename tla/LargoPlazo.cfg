SPECIFICATION Spec
CONSTANTS
  h1 = h1  h2 = h2
  Hilos <- DosHilos
  Equipos <- UnoODos
  Respuestas = {0, 1}
  MaxPids = 4
  MaxTcbs = 2
INVARIANTS TypeOK LugarEnNew NewOReady ContadorPropio NewEsFIFO
CHECK_DEADLOCK FALSE
