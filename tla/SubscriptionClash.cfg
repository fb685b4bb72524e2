SPECIFICATION SubSpec
CONSTANTS
  Texts <- MCTexts
  Web <- MCWeb
  Disk <- MCDisk
INVARIANT ClashYieldsLinks
CHECK_DEADLOCK FALSE
