SPECIFICATION LoginSpec
CONSTANTS
  Letters <- MCLetters
  Table <- MCTable
  IntMax = 8
  DigitsKept = 2
  DigitsWritten = 1
  Files <- MCFiles
  Rewrites <- MCRewrites
  NewNames <- MCNewNames
  NewWords <- MCNewWords
  MaxSections = 2
  MaxCalls = 3
  Usages <- MCUsages
  BufSize = 20
  Pass <- MCPass
  Passwords <- MCPasswords
  Magics <- MCMagics
  Headers <- MCHeaders
INVARIANTS MeansFile ReadsBack NamesThere PasswordArrives
