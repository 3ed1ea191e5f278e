SPECIFICATION Spec
CONSTANTS
  ENTRIES = 6
  PPNS = 64
  PTE_ATTR_NORMAL_MEM <- MCAttributes
  KERNEL_BASE = 36
  FREE_RAM = 38
  FREE_RAM_END = 59
  USER_BASE = 9
  USER_LIMIT = 13
  Image <- MCImage
  GARBAGE <- MCGarbage
  NProcs = 2
  Touched = {8, 11, 12, 13}
  Stored = {11, 12}
  Code = {10}
  Offsets = {0}
  Data = {7}
  TLB_SIZE = 1
  FENCE_DROPS_TABLES = TRUE
INVARIANTS
  TypeOK
  KernelMappedEverywhere
  EveryPageHasOneUse
  TlbIsCurrent
PROPERTIES
  MappingsStay
  ImplementsPrivateMemory
