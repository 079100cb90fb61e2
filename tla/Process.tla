------------------------------ MODULE Process -------------------------------
(***************************************************************************)
(* The process table of kernel/src/proc/process.rs: slot allocation,       *)
(* process_create, process_create_user with its three failure paths, and   *)
(* process_exit, together with the resources they take and give back.      *)
(*                                                                         *)
(* The resources are pools of model values: kernel-stack blocks of the     *)
(* heap (alloc/dealloc of PROC_STACK_SIZE), user address spaces            *)
(* (vmm_create_user_space / vmm_destroy_user_space) and physical pages     *)
(* (pmm_alloc_page).  An allocation fails exactly when its pool is used    *)
(* up.  The memory managers are not under src/; vmm_destroy_user_space is  *)
(* taken to release the address space and every page mapped into it.       *)
(* The scheduler, which moves processes between Ready, Running and         *)
(* Blocked, is not under src/ either: a live process is Ready here.        *)
(***************************************************************************)
EXTENDS Naturals, FiniteSets, Functions

CONSTANTS
  MAX_PROCESSES,     \* slots of PROCESSES
  USER_STACK_PAGES,  \* USER_STACK_SIZE / PAGE_SIZE
  Stacks,            \* kernel-heap blocks a stack can be allocated at
  Spaces,            \* user PML4s vmm_create_user_space can return
  PAGES,             \* physical pages pmm_alloc_page can hand out
  MaxPid,            \* bound on NEXT_PID
  NULLPTR,           \* a null stack pointer / zero page table
  KERNEL_PML4        \* vmm_get_kernel_pml4()

ASSUME MAX_PROCESSES \in Nat \ {0} /\ USER_STACK_PAGES \in Nat \ {0}
ASSUME PAGES \in Nat /\ MaxPid \in Nat \ {0}

Slots == 0 .. MAX_PROCESSES - 1
ProcState == {"Free", "Ready"}

\* The fields of a Process the operations read or write.
ProcRec == [state : ProcState, pid : 0 .. MaxPid, is_user : BOOLEAN,
            stack_virt : Stacks \cup {NULLPTR},
            page_table : Spaces \cup {KERNEL_PML4, NULLPTR}]

VARIABLES
  procs,     \* PROCESSES
  nextPid,   \* NEXT_PID
  heap,      \* kernel-stack blocks currently allocated
  spaces,    \* user address spaces currently allocated
  mapped,    \* pages mapped into each allocated user space
  fault      \* a block was deallocated that was not allocated

vars == <<procs, nextPid, heap, spaces, mapped, fault>>

\* Physical pages held by the user address spaces.
PagesInUse == FoldFunctionOnSet(+, 0, mapped, spaces)

\* Process::empty()
Empty == [state |-> "Free", pid |-> 0, is_user |-> FALSE,
          stack_virt |-> NULLPTR, page_table |-> NULLPTR]

\* alloc_slot: the lowest-numbered Free slot.
FreeSlots == {i \in Slots : procs[i].state = "Free"}
alloc_slot == CHOOSE i \in FreeSlots : \A j \in FreeSlots : i <= j

\* alloc::alloc::dealloc: freeing a block that is not allocated is
\* undefined behaviour, recorded in `fault`.
dealloc(s) == /\ heap' = heap \ {s}
              /\ fault' = (fault \/ s \notin heap)

-----------------------------------------------------------------------------
Init ==
  /\ procs = [i \in Slots |-> Empty]
  /\ nextPid = 1
  /\ heap = {}
  /\ spaces = {}
  /\ mapped = [s \in Spaces |-> 0]
  /\ fault = FALSE

\* Mutation of process_create: NEXT_PID is read but not advanced.
process_create_samepid ==
  /\ nextPid < MaxPid
  /\ FreeSlots # {}
  /\ \E stack \in Stacks \ heap :
       /\ heap' = heap \cup {stack}
       /\ procs' = [procs EXCEPT ![alloc_slot] =
                      [state |-> "Ready", pid |-> nextPid, is_user |-> FALSE,
                       stack_virt |-> stack, page_table |-> KERNEL_PML4]]
       /\ nextPid' = nextPid
  /\ UNCHANGED <<spaces, mapped, fault>>

\* process_create(name, entry): a slot, a kernel stack, the next pid.
\* Returns None, changing nothing, when no slot or no stack is free.
process_create ==
  /\ nextPid < MaxPid
  /\ FreeSlots # {}
  /\ \E stack \in Stacks \ heap :
       /\ heap' = heap \cup {stack}
       /\ procs' = [procs EXCEPT ![alloc_slot] =
                      [state |-> "Ready", pid |-> nextPid, is_user |-> FALSE,
                       stack_virt |-> stack, page_table |-> KERNEL_PML4]]
       /\ nextPid' = nextPid + 1
  /\ UNCHANGED <<spaces, mapped, fault>>

\* Mutation of process_create_user: the pmm failure path returns without
\* vmm_destroy_user_space.
process_create_user_keepspace ==
  /\ nextPid < MaxPid
  /\ FreeSlots # {}
  /\ \E stack \in Stacks \ heap :
       IF Spaces \ spaces = {}
       THEN UNCHANGED vars
       ELSE \E sp \in Spaces \ spaces :
              IF PagesInUse + USER_STACK_PAGES > PAGES
              THEN /\ heap' = heap \cup {stack}
                   /\ spaces' = spaces \cup {sp}
                   /\ mapped' = [mapped EXCEPT ![sp] = PAGES - PagesInUse]
                   /\ UNCHANGED <<procs, nextPid, fault>>
              ELSE /\ heap' = heap \cup {stack}
                   /\ spaces' = spaces \cup {sp}
                   /\ mapped' = [mapped EXCEPT ![sp] = USER_STACK_PAGES]
                   /\ procs' = [procs EXCEPT ![alloc_slot] =
                                  [state |-> "Ready", pid |-> nextPid, is_user |-> TRUE,
                                   stack_virt |-> stack, page_table |-> sp]]
                   /\ nextPid' = nextPid + 1
                   /\ UNCHANGED fault

\* process_create_user(name, entry): a slot, a kernel stack, a user address
\* space, then USER_STACK_PAGES physical pages mapped one at a time.
\*  - no free slot or stack: None, nothing taken;
\*  - no address space: the stack is deallocated, None;
\*  - pmm_alloc_page fails at some page: the address space is destroyed
\*    with the pages already mapped, None; the stack is not deallocated;
\*  - otherwise the slot is filled with the next pid.
process_create_user ==
  /\ nextPid < MaxPid
  /\ FreeSlots # {}
  /\ \E stack \in Stacks \ heap :
       IF Spaces \ spaces = {}
       THEN UNCHANGED vars
       ELSE \E sp \in Spaces \ spaces :
              IF PagesInUse + USER_STACK_PAGES > PAGES
              THEN /\ heap' = heap \cup {stack}
                   /\ UNCHANGED <<procs, nextPid, spaces, mapped, fault>>
              ELSE /\ heap' = heap \cup {stack}
                   /\ spaces' = spaces \cup {sp}
                   /\ mapped' = [mapped EXCEPT ![sp] = USER_STACK_PAGES]
                   /\ procs' = [procs EXCEPT ![alloc_slot] =
                                  [state |-> "Ready", pid |-> nextPid, is_user |-> TRUE,
                                   stack_virt |-> stack, page_table |-> sp]]
                   /\ nextPid' = nextPid + 1
                   /\ UNCHANGED fault

\* Mutation of process_exit: a slot matches on pid alone, Free or not.
process_exit_anyslot(pid) ==
  LET hits == {i \in Slots : procs[i].pid = pid}
  IN  IF hits = {} THEN UNCHANGED vars
      ELSE LET i == CHOOSE j \in hits : \A k \in hits : j <= k
               p == procs[i]
           IN  /\ IF p.is_user /\ p.page_table # NULLPTR
                  THEN /\ spaces' = spaces \ {p.page_table}
                       /\ mapped' = [mapped EXCEPT ![p.page_table] = 0]
                  ELSE UNCHANGED <<spaces, mapped>>
               /\ IF p.stack_virt # NULLPTR THEN dealloc(p.stack_virt)
                  ELSE UNCHANGED <<heap, fault>>
               /\ procs' = [procs EXCEPT ![i].state = "Free", ![i].pid = 0]
               /\ UNCHANGED nextPid

\* Mutation of process_exit: the slot is left Terminated (line 294 lost).
process_exit_terminated(pid) ==
  LET hits == {i \in Slots : procs[i].pid = pid /\ procs[i].state # "Free"}
  IN  IF hits = {} THEN UNCHANGED vars
      ELSE LET i == CHOOSE j \in hits : \A k \in hits : j <= k
               p == procs[i]
           IN  /\ IF p.is_user /\ p.page_table # NULLPTR
                  THEN /\ spaces' = spaces \ {p.page_table}
                       /\ mapped' = [mapped EXCEPT ![p.page_table] = 0]
                  ELSE UNCHANGED <<spaces, mapped>>
               /\ IF p.stack_virt # NULLPTR THEN dealloc(p.stack_virt)
                  ELSE UNCHANGED <<heap, fault>>
               /\ procs' = [procs EXCEPT ![i].state = "Terminated", ![i].pid = 0]
               /\ UNCHANGED nextPid

\* The slots the lookup loops of process_get_by_pid, process_index_of and
\* process_exit accept for pid; each returns the lowest of them.
process_index_of(pid) == {i \in Slots : procs[i].pid = pid /\ procs[i].state # "Free"}

\* process_exit(pid): the first slot holding pid that is not Free loses
\* its user address space (if any) and its kernel stack and becomes Free
\* with pid 0.  stack_virt and page_table keep their old values.
process_exit(pid) ==
  LET hits == process_index_of(pid)
  IN  IF hits = {} THEN UNCHANGED vars
      ELSE LET i == CHOOSE j \in hits : \A k \in hits : j <= k
               p == procs[i]
           IN  /\ IF p.is_user /\ p.page_table # NULLPTR
                  THEN /\ spaces' = spaces \ {p.page_table}
                       /\ mapped' = [mapped EXCEPT ![p.page_table] = 0]
                  ELSE UNCHANGED <<spaces, mapped>>
               /\ IF p.stack_virt # NULLPTR THEN dealloc(p.stack_virt)
                  ELSE UNCHANGED <<heap, fault>>
               /\ procs' = [procs EXCEPT ![i].state = "Free", ![i].pid = 0]
               /\ UNCHANGED nextPid

Exit == \E pid \in 0 .. nextPid : process_exit(pid)

Next == process_create \/ process_create_user \/ Exit

Spec == Init /\ [][Next]_vars

-----------------------------------------------------------------------------
Live(i) == procs[i].state # "Free"

TypeOK ==
  /\ procs \in [Slots -> ProcRec]
  /\ nextPid \in 1 .. MaxPid
  /\ heap \subseteq Stacks /\ spaces \subseteq Spaces
  /\ mapped \in [Spaces -> 0 .. PAGES]
  /\ fault \in BOOLEAN

\* NEXT_PID and alloc_slot together: across any sequence of creations,
\* failed creations and exits, no two live slots hold the same pid, every
\* live pid is one NEXT_PID already handed out, and so process_get_by_pid
\* and process_exit find exactly one process for it.
PidsUnique ==
  /\ \A i \in Slots : Live(i) => procs[i].pid \in 1 .. nextPid - 1
  /\ \A pid \in 1 .. nextPid - 1 : Cardinality(process_index_of(pid)) <= 1

\* process_exit deallocates a kernel stack only while it is allocated: no
\* exit, of any pid including 0 and pids already gone, frees a stack twice
\* or frees the stale stack_virt left in a Free slot.
HeapSound == ~fault

\* User address spaces: every space vmm_create_user_space handed out and
\* not yet destroyed belongs to exactly one live user process, across the
\* failure paths of process_create_user and process_exit.
SpacesOwned ==
  /\ spaces = {procs[i].page_table : i \in {j \in Slots : Live(j) /\ procs[j].is_user}}
  /\ \A i, j \in Slots : Live(i) /\ Live(j) /\ i # j /\ procs[i].is_user
                         => procs[i].page_table # procs[j].page_table
  /\ PagesInUse <= PAGES

\* Kernel stacks: every allocated kernel stack belongs to a live process,
\* so a failed process_create_user gives back the stack it took.
StacksOwned ==
  heap = {procs[i].stack_virt : i \in {j \in Slots : Live(j)}}
=============================================================================
