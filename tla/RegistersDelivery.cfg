SPECIFICATION Spec
CONSTANTS
  Credit = {"c1", "c2"}
  Dni = {"ana", "luis"}
  CreditsOf <- MCCreditsOf
  Image = {"i1", "i2"}
  Nro = {"op"}
  Url = {"u1"}
  Monto <- MCMonto
  Weekday = {4, 6}
  Cuota <- MCCuota
  Saldo <- MCSaldo
  Plazo <- MCPlazo
  CuotaInput = {2}
  ResponseDays = 15
  MaxYear = 2
  MaxVouchers = 2
  MaxClaims = 2
  None = None
  Deliverable = {"estado"}
INVARIANT NoFakeSuccess
