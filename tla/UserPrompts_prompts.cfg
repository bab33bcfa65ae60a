SPECIFICATION FairSpec
CONSTANTS
  r1 = r1  r2 = r2  r3 = r3  t1 = t1  t2 = t2  a = a  b = b  c = c
  NoTurn = NoTurn
  Sidecar = Sidecar
  Req <- Requests
  Turn = {t1, t2}
  Stopper = {1}
  Switcher = {1}
  Client = {1}
  Worlds <- PromptWorlds
INVARIANTS AllowJustified OneLivePrompt EachCardOnce
PROPERTY NothingStuck
CHECK_DEADLOCK FALSE
