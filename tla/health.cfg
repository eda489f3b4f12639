SPECIFICATION FairSpec
CONSTANTS
  Upstreams = {a}
  Judges = {j1}
  Timers = {t1, t2}
  Settings <- MCSettings
  HeldFor = {1, 2}
  Takeovers = 1
  Nobody = Nobody
PROPERTIES NeverShortened BreakerRecoveryShown
