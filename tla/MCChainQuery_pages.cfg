\* Three blocks with at most a payment each, or two with up to two transactions
\* each, saved in any order while the client reads page after page.
CONSTANTS
  Hash <- MCHash
  NoHash <- MCNoHash
  a = a
  b = b
  c = c
  x = x
  y = y
  Address = {a}
  Tx <- MCTx
  MaxTx = 2
  Limit <- MCLimit
SPECIFICATION MCSpec
INVARIANTS
  PagesDescend
  PagesComplete
  LastIsNewest
  WalletIsBalance
PROPERTY QueriesReturn
