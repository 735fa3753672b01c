CONSTANTS
  minibits = minibits
  coinos = coinos
  o1 = o1
  o2 = o2
  Mint = {minibits, coinos}
  Op = {o1, o2}
  MaxCoins = 4
  Saved = 2
  MaxPolls = 1
  MaxFaults = 1
SYMMETRY Alike
SPECIFICATION CashuSpec
INVARIANTS CashuTypeOK FileMatchesBooks
CHECK_DEADLOCK FALSE
