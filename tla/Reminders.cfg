CONSTANTS
  tg = tg
  web = web
  Nobody = Nobody
  Users = {tg, web}
  Served = {tg}
  Forms <- PlainForms
  MaxReminders = 2
  MaxMinute = 1
  MaxFaults = 1
SPECIFICATION Spec
INVARIANTS PromisedIsSent DeletedStaysQuiet
PROPERTY ImplementsBook
