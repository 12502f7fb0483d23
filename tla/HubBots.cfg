SPECIFICATION FairSpec
CONSTANTS
  Conns = {c1, c2}
  Bots = {b1}
  Nicks = {n1, p1, bn}
  Cids = {h1, h2, bh}
  BotNick <- OneBotNick
  BotCid <- OneBotCid
  Prefix <- ShowPrefix
  MaxUsers = 2
  RegOnly = FALSE
  NickChange = FALSE
  Hbri = TRUE
  None = None
  n1 = n1
  n2 = n2
  p1 = p1
  bn = bn
  h1 = h1
  h2 = h2
  bh = bh
  b1 = b1
INVARIANTS CidOwned SlotsLive CountExact AuthenticatedNick TokenMatchesState
PROPERTY ParkedLeaves
