SPECIFICATION FairSpec
CONSTANTS
  Texts = {t1, t2}
  MotdFails = TRUE
  Warning = Warning
  NoMotd = NoMotd
  MaxClients = 3
  NoClient = NoClient
  Torn = Torn
  MaxVersion = 2
  NoOne = NoOne
PROPERTIES
  HighestCodeWins
  UpdateTakesEffect
  TextsKept
  KeepsIdentity
