SPECIFICATION Spec
CONSTANTS
  Conns = {c1, c2, c3}
  Bots = {}
  Nicks = {n1, n2}
  Cids = {h1, h2}
  BotNick <- NoBots
  BotCid <- NoBots
  Prefix <- PlainNicks
  MaxUsers = 3
  RegOnly = TRUE
  NickChange = TRUE
  Hbri = TRUE
  None = None
  n1 = n1
  n2 = n2
  p1 = p1
  bn = bn
  h1 = h1
  h2 = h2
  bh = bh
  b1 = b1
SYMMETRY Symmetry
INVARIANT NickOwned
PROPERTY HandoverAuthenticated
