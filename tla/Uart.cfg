SPECIFICATION FairSpec
CONSTANTS
  Writers = {w1, w2}
  Syncs = {c1, c2}
  Nobody = Nobody
  MaxN = 3
PROPERTIES SleepersWoken
