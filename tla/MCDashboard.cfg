CONSTANTS
  Translated <- MCTranslated
  AndroidLocale <- MCAndroid
  SystemLocales <- MCSystem
  MaxSessions = 2
  MaxMishaps = 1
SPECIFICATION Spec
INVARIANTS WindowIsOneSnapshot ReportsAreTrue RecoveryIsSafe
PROPERTY RefreshHeals
CHECK_DEADLOCK FALSE
