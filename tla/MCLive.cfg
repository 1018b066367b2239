CONSTANTS
  pa = pa
  pb = pb
  pc = pc
  None = None
SPECIFICATION FairSpec
CHECK_DEADLOCK FALSE
PROPERTIES CallsEnd Prompts
