CONSTANTS
  Callers = {f1, f2, f3}
  Emails = {m1}
  Ips = {i1, i2}
  Cooldown = 0
  Hour = 1
  Day = 2
  HourlyMax = 2
  DailyMax = 2
  MaxSpan = 1
  NoCall = NoCall
SPECIFICATION LimitsSpec
SYMMETRY Symmetry
INVARIANTS LimitsTypeOK CooldownPerCaller HourlyBounded DailyBounded
