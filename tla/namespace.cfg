SPECIFICATION FairSpec
CONSTANTS
  Letters <- MCLetters
  Names <- MCNames
  Hash <- MCHash
  Prefix <- MCPrefix
  MaxPodNameLength = 8
  MaxLabelLength = 8
  MaxSubdomainLength = 12
  Uids = {1, 2, 3}
INVARIANTS OneReservationEach NamesApart
PROPERTIES Served DoubleCountEnds
