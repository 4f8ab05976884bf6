SPECIFICATION Spec
INVARIANT SizeIsExact
INVARIANT EvenlySpaced
INVARIANT MaskedAsConfigured
INVARIANT AssetsResolved
INVARIANT CandidatesMaskable
\* A job of which every record is read is over.
CHECK_DEADLOCK FALSE
CONSTANTS
  NULL = NULL
  Samplings <- SomeSamplings
  Keys <- Groups
  IndexOf <- Digits
  SplitOf <- Splits
  Hidden <- Underscored
  Personal <- Emails
  Jobs <- AllJobs
  Falsy <- Empty
  NonText <- Numbers
  Hex <- HexDigits
  FileNames <- AnyFile
  NameOf <- LastSegments
