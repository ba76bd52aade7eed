CONSTANTS
  Callers = {f1, f2}
  Verifiers = {v1, v2}
  Emails = {m1}
  Ips = {i1}
  Cooldown = 0
  Hour = 0
  Day = 0
  HourlyMax = 2
  DailyMax = 2
  MaxSpan = 0
  MaxAttempts = 2
  MaxCodes = 2
  NoCall = NoCall
  NoCode = NoCode
SPECIFICATION CodesSpec
SYMMETRY Symmetry
INVARIANTS LiveCodesOverlap ExhaustedIsUsed
PROPERTIES UsedStaysUsed
