\* Kernel and user process creation, with every pool small enough to run out, and exits of any pid.
CONSTANTS
  MAX_PROCESSES = 2
  USER_STACK_PAGES = 2
  PAGES = 3
  MaxPid = 6
  s1 = s1
  s2 = s2
  s3 = s3
  u1 = u1
  u2 = u2
  Stacks <- MCStacks
  Spaces <- MCSpaces
  NULLPTR = NULLPTR
  KERNEL_PML4 = KERNEL_PML4
SYMMETRY MCSymmetry
SPECIFICATION Spec
INVARIANTS
  TypeOK
  PidsUnique
  HeapSound
  SpacesOwned
