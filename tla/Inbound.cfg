SPECIFICATION Spec
CONSTANTS
  Job = {j1, j2}
  customer = customer
  contact = contact
  excluded = excluded
  chat = chat
  Phone <- Numbers
  Chat = {chat}
  None = None
  Inbox <- Everything
  Excluded = {excluded}
  Contacts = {contact}
  LeadsOnly = {customer}
  DailyLimit = 1
  Faults = TRUE
INVARIANTS
  TypeOK
  OnlyDueAnswers
PROPERTIES
  QueuedIsWorkedOff
CHECK_DEADLOCK FALSE
