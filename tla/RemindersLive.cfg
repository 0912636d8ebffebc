CONSTANTS
  tg = tg
  web = web
  Nobody = Nobody
  Users = {tg, web}
  Served = {tg}
  Forms <- AllForms
  MaxReminders = 1
  MaxMinute = 2
  MaxFaults = 0
SPECIFICATION FairSpec
INVARIANT SentAsScheduled
PROPERTY DeletesEnd
