SPECIFICATION FairSpec
CONSTANTS
  Intents = {i1}
  NoIntent = none
  Senders = {s1}
  Importers = {r1}
  MaxRetries = 0
  MayGarble = TRUE
  Qty = 2
INVARIANTS SettledIsTrue
PROPERTIES FillsNeverRegress 
