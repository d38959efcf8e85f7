SPECIFICATION FairSpec
CONSTANTS
  inbox = inbox
  work = work
  m1 = m1
  m2 = m2
  Carries <- MCCarries
  Initially <- MCInitially
  Labels = {inbox, work}
  Messages = {m1, m2}
  NoMessage = NoMessage
  MaxDocs = 7
  MaxChanges = 2
  MaxFaults = 0
PROPERTY
  MessagesAreLive
CHECK_DEADLOCK FALSE
