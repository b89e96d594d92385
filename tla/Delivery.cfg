SPECIFICATION FairSpec
CONSTANTS
  Harnesses <- MCHarnesses
  MaxLines = 3
  MaxFaults = 2
  MaxEpochs = 1
INVARIANTS AtMostOnce NoLoss NoOvertaking
PROPERTIES SubmitsOnlyWhileBound ImplementsMailbox MailSettledOrExplained ReceiptIsFound
CHECK_DEADLOCK FALSE
