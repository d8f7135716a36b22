SPECIFICATION FairSpec
CONSTANTS
  principal = principal  largo = largo
  Hilos <- Dos
  Volcadores <- Principal
  Saludos <- Escuchas
  MaxConexiones = 3
INVARIANTS TypeOK RespuestaPropia SinFugas UnHiloPorConexion
PROPERTY PeticionTermina
CHECK_DEADLOCK FALSE
