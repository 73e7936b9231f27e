CONSTANTS
  Calls <- MCCalls
  Sources <- MCSources
  FirstSources <- MCFirstSources
  MaxRuns = 2
SPECIFICATION Spec
INVARIANT ReadsWhatIsDeclared
INVARIANT PassIsAgreement
INVARIANT AgreementPasses
INVARIANT ReceiptIsReviewed
CHECK_DEADLOCK FALSE
