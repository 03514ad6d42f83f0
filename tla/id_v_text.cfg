SPECIFICATION CsdbSpec
CONSTANTS
  Heads = {1, 2}
  Trans = {t}
  MaxTrans = 2
  MaxRecords = 1
  NoBytes = NoBytes
  AMOUNT_MAX_FRACTION = 10
  Operands <- MCOperands
  Factors <- MCFactors
  MaxIntegral = 12
  Words <- MCWords
  Indices = {9, 10}
  ChainBlocks <- MCBlocks
  Addresses = {1, 2}
  MaxChain = 3
  InnerIds = {0, 1, 2}
  MaxPage = 2
  MaxList = 2
INVARIANT IdRoundTrip
CHECK_DEADLOCK FALSE
