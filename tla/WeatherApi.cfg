SPECIFICATION Spec
CONSTANTS
  t1 = t1
  t2 = t2
  ro = ro
  fr = fr
  x = x
  Threads <- MCThreads
  CountryNames <- MCCountryNames
  CityNames <- MCCityNames
  MaxId = 2
  MaxTime = 2
  MayFail = TRUE
  Windows <- MCWindows
INVARIANTS TypeOK ListedOnce
PROPERTIES DeletedStaysGone IdsNeverReused OnlyDeletesRemove AnswersTellTruth
CHECK_DEADLOCK FALSE
SYMMETRY MCSymmetry
VIEW MCView
