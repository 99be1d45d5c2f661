SPECIFICATION Spec
CONSTANTS
  c1 = c1
  c2 = c2
  None = None
  Calls <- MCCalls
  Messages <- MCMessages
  Unopenable <- MCUnopenable
  Cases <- MCCases
  MaxFaults = 1
INVARIANTS
  MailTypeOK
  LostOnlyAsAsked
  ActsOnMeant
  
  FindsWhatStays
  
  NoneStuck
CHECK_DEADLOCK FALSE
