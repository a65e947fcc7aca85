SPECIFICATION Spec
CONSTANTS
  Documents <- MCDocuments
  NextDocuments <- MCNextDocuments
  Signatures <- MCSignatures
  MaxSignatureSize = 10
  SizeUnit = 12
  MAX_SEI_DATA_BUFFER = 2
INVARIANTS
  SidesAgree
  NoStartCode
CHECK_DEADLOCK FALSE
