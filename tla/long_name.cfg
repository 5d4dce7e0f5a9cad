SPECIFICATION FairSpec
CONSTANTS
  Letters <- MCLetters
  Names <- MCLongNames
  Hash <- MCLongHash
  Prefix <- MCPrefix
  MaxPodNameLength = 8
  MaxLabelLength = 8
  MaxSubdomainLength = 12
  Uids = {1, 2, 3, 4, 5}
PROPERTIES LongNamesServed
