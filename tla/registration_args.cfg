\* All portions of up to three contributors, and some of four, under version 11.
\* The conversion is a call that returns.
SPECIFICATION FairSpec
CONSTANTS
  UINT64 = 28
  STAKING_PORTIONS = 24
  STAKING_REQUIREMENT = 8
  FUDGE_FACTOR = 1
  hf_version = 11
  Args <- AllArgs
INVARIANTS
  TypeOK
  DonorKeepsMinimum
  ShortByRoundingOnly
PROPERTY
  ConversionEnds
CHECK_DEADLOCK FALSE
