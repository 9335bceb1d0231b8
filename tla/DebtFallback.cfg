SPECIFICATION Spec
CONSTANTS
  Credit = {"c1", "c2"}
  Dni = {"ana", "luis", "eva"}
  Role = {"SOLICITANTE", "GARANTE", "CONTACTO"}
  Authorized = {"SOLICITANTE", "GARANTE"}
  Party <- MCParty
  Last <- MCLast
  Due <- MCDue
  Capital <- MCCapital
  Borrower <- MCBorrower
  TokenDni <- MCTokenDni
  WindowDays = 2
  Week = 2
  Rate1 = 8
  Rate2 = 16
  Scale = 10000
  RoundsUp <- MCRoundsUp
  None = None
  TenantConfig <- MCTenantConfig
  MaxDay = 4
PROPERTY FixtureWhenAway
