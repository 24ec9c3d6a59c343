# TsOs: TLA+ models, model checking and proofs

TsOs is a small x86-64 operating system in C (`src/src`): a preemptive
scheduler with multi-level feedback queues (MLFQ), processes with fork, exec and
wait, virtual memory, a buddy heap, a slab allocator, a buffer cache, an ext2
file system behind a VFS, and PC drivers.  It runs on one CPU.  This directory
holds TLA+ models of it, TLC configurations that check them on small instances,
and TLAPS proofs that hold for every instance.

`PROJECT.json` is the index: the components, the runs, the source lines behind
every definition, the hazards and the properties that watch them, the theorems.

## 1. How the system runs

What can interleave with what decides what an atomic action is.

* One CPU.  The only sources of concurrency are interrupts: the timer
  (`timer.c` calls `scheduler_tick`) and the keyboard (`ps2.c`).
* A system call runs with interrupts off: SYSCALL clears IF through SFMASK
  (`syscall.c:97`) and no path of a system call executes `sti`.  So a system
  call is atomic with respect to everything else.
* `scheduler_tick` runs inside the timer interrupt, through an interrupt gate.
* Kernel-mode tasks run with IF set and can be preempted anywhere, except
  between `spin_lock` and `spin_unlock`, which disable interrupts and restore
  the saved flags.
* `kernel_main` runs the boot sequence and the built-in tests with interrupts
  off, creates the first user task, and only then executes `sti`.  Its
  kernel-mode shell is compiled out (`#if 0`), so in the shipped system the only
  kernel task is the idle task.  Families of kernel-mode tasks exist only in
  `tests/test_zombie.c`, and two preemptible users of the buffer cache only in a
  build with that shell.

## 2. Inventory

| part | source | model |
|---|---|---|
| ready queues | `kernel/mlfq.c` | `MLFQ` |
| scheduler | `kernel/scheduler.c` | `Scheduler`, `SchedulerProofs` |
| task life cycle | `kernel/task.c`; fork, exit, wait of `kernel/syscall.c` | `TaskLife`, `TaskLifeProofs` |
| kernel heap | `kernel/kheap.c` | `KHeap`; promise: `Heap`, `HeapProofs` |
| buffer cache | `fs/bcache.c` | `BCache` |
| frames, page tables, virtual memory, page faults, ELF | `kernel/pmm.c`, `page_table.c`, `vmm.c`, `main.c`, `elf.c` | planned |
| buddy layer over the frames | `kernel/pmm_buddy.c` | planned last: nothing calls it after boot |
| slab allocator | `kernel/slab.c` | planned |
| block devices, ATA, ext2, VFS | `fs/`, `drivers/ata.c` | planned |
| interrupts, PIC, PIT, timer | `kernel/idt.c`, `isr.c`, `pic.c`, `timer.c`, `drivers/pit.c` | the tick only, in `Scheduler` |
| keyboard and mouse | `drivers/ps2.c` | planned |
| user heap and streams | `libc/userspace` | planned |
| remaining system calls | `kernel/syscall.c` | planned with the parts they call |
| spinlock | `kernel/spinlock.c` | implicit: a locked section is one action |
| boot, descriptor tables, context switch, panic, statistics, serial, VGA, PCI, sound, strings, printing, shells, tests | | not modelled |

How they interact: the timer drives the scheduler, which moves tasks between the
ready queues and the CPU; fork, exit and wait add, wake and free tasks; PCBs
come from the slab allocator, which takes pages from the kernel heap, whose
pages are mapped on demand by virtual memory with frames of the frame
allocator; system calls reach files through the VFS, ext2 and the buffer cache
down to the ATA driver.

## 3. Models

**MLFQ** is pure: the ready queues and the scheduling fields of the PCBs are one
record (`queue`, `bitmap`, `ticks`, and per task `level`, `left`, `state`), and
each function of `mlfq.c` is an operator on it.  Linked lists are sequences.

**Scheduler** has that record, `g_current` and `g_ready_count` as variables and
one action per call.  The tick is three actions, for its three outcomes: the
quantum is not over, the same task goes on, another task is switched in.
`exited` remembers who called `task_exit`: such a task executes nothing but
`hlt`, though the scheduler may run it again.

**TaskLife** adds the family links and builds fork, exit and wait from the
scheduler's actions, so it implements `Scheduler` with the identity mapping.
`halted` is the CPU in `hlt` with interrupts off.  A freed PCB keeps its contents
and is not reused: a model of what the kernel reads through a stale pointer
before the slab slot is handed out again.

**KHeap** has the free lists, the two tag arrays and the counters of `kheap.c`.
`kmalloc` and `kfree` are one action each, as both hold the lock throughout.
Sizes keep their width: rounding up to pages is modulo `WordSize`.  **Heap** is
the promise of `kheap.h`: runs of pages, none shared.  `ImplementsHeap` is the
refinement; a run is read off the tags of its first page.

**BCache** has one action per section of code under `g_lock` and one per
transfer of a sector, which happens with the lock released and may fail.  Hash
chains are kept as links, since the code can corrupt them.  `ideal` and
`unsaved` are history variables: the last value written to each sector, and the
sectors whose last transfer failed.

The `MC*` modules give the constants values.  A definition whose name starts
with `Bad` is a deliberately wrong variant of the one after it, kept to show
that the properties notice it (`mutants` in `PROJECT.json`).

## 4. Runs

| run | instance | shows |
|---|---|---|
| `scheduler` | idle and 3 tasks, quanta 1,1,2,3, boost every 4 ticks | queues, bitmap, states and count stay consistent; the boost promotes all that is queued and nothing else promotes |
| `scheduler_live` | the same tasks, unit quanta, boost every 3 ticks | a ready task gets the CPU or stops being ready |
| `scheduler_idle` | idle and 2 tasks | *violated*: the boost lets the idle task run before ready tasks |
| `task_life` | idle, init, 2 kernel tasks, 1 user task | family links agree, no orphan, no missed exit, children freed by their parent, and the scheduler's specification is kept |
| `task_life_freed` | 3 kernel tasks | *violated*: a reaped task can still be queued |
| `task_life_halt` | init and a user task | *violated*: a user task's exit stops the machine, so its notified parent never runs |
| `kheap` | 8 pages of 2 bytes, 6-bit words, 9 sizes | lists, tags and counters agree, everything that can merge is merged, grants cover requests, `Heap` is implemented |
| `kheap_oversize` | the same | *violated*: a request larger than the heap is granted a smaller block |
| `bcache` | 1 thread, 2 buffers, 3 sectors on 2 devices, 2 buckets | reads see the last write, put writes through, a failed write stays dirty, references and chains are exact |
| `bcache_clean` | 2 threads, 2 sectors in one bucket | *violated*: a change made during a transfer is marked clean |

A violated run states what a comment of the source says; `findings` quotes it.

*Bounds.*  Three tasks besides idle give a queue with a head, a middle and a
tail, the three cases of the unlinking in `mlfq_dequeue`.  Quanta that differ,
with a boost interval longer than the largest quantum and shorter than a full
descent, make boosts fall on every level.  Eight pages are two blocks of
the highest of three levels: splits and merges over two levels, and a buddy that
must not be merged across the top.  The nine sizes straddle each rounding
boundary, the largest block, the heap and the wrap of the word.  Three sectors
for two buffers force evictions, and two sectors in one bucket force chains.

*Symmetry* is used only in runs without liveness, over tasks that `Init` and the
constants do not tell apart.

*Deadlock* is allowed only in the `TaskLife` runs, where the CPU may really
stop (`hlt` with interrupts off).

*Fairness.*  `scheduler_live` assumes that ticks never stop: the PIT is periodic
and every interrupt is acknowledged.  It starts with all tasks added and leaves
out removal and destruction, which only free the CPU; nothing is assumed of the
tasks.  `task_life_halt` assumes a tick happens as long as the CPU accepts
interrupts.

## 5. Proofs

TLAPS checks these for all sets of tasks, quanta and boost intervals (from the
named assumptions in `MLFQ` and `TaskLife`), and for all heap sizes.

* `SchedulerInv`: `Spec => []Inv`.  The invariants that matter are not inductive
  alone.  That no task is linked twice needs that whatever is enqueued is not
  queued yet: so that blocked and new tasks are in no queue
  (`QueuedIsSchedulable`).  That no ready task is lost needs well-formed queues,
  as `mlfq_dequeue` finds a task through its level tag.  That the idle task is
  available needs that `mlfq_pick_highest`, which trusts the bitmap, returns a
  queued task.
  `Inv` is their conjunction.  The proof has one lemma per action,
  over lemmas on what enqueue, dequeue, boost, decay and tick do to a
  well-formed record (`EnqueueFacts`, `DequeueFacts`, `BoostFacts`, ...).
  Corollaries: `QueuesStayWellFormed`, `NoTaskIsLost`, `IdleIsAvailable`.
* `BoostReachesTheQueues`: the action property `BoostPromotesQueued`.
* `LifeImplementsScheduler`: every step of `TaskLife` is a step of `Scheduler` or
  a stutter.  Hence `LifeKeepsSchedulerInv`.  `LifeTypes`: the type invariant of
  the family links.
* `HeapNeverShares`, `HeapTakesOneRun`: what clients of the abstract heap may
  rely on.

Only model-checked: `CountNeverShort` and `OnlyBoostPromotes`; the family
properties of `TaskLife`; that `KHeap` implements `Heap` (block sizes are powers
of two, beyond the SMT solver); all of `BCache`; and liveness, which the prover
does not reach.

## 6. Other disagreements met while modelling

TLC showed these in earlier forms of the models; no run is kept for them.

* `mlfq_boost_all` passes over the running task, which is in no queue
  (`mlfq.c:191`; `scheduler.c:7` says all tasks).
* A zombie in a queue is switched in and becomes RUNNING again (`task.c:578`;
  `task.h:12` has no such transition).
* A zombie handed over to init does not wake init if it waits (`task.c:521`;
  `task.h:274` says the wait ends when a child exits).
* A failed fork leaves the freed child on its parent's list (`syscall.c:280`), so
  a later wait can block for it for ever (`task.h:277` promises -1 without
  children).
* `task_wait` returns to its caller, which goes on running while BLOCKED, until
  its quantum ends (`task.c:643`).
* With two preemptible users of the cache: a buffer is chosen for eviction, the
  lock released for its write, and it is taken over although somebody got hold
  of it meanwhile (`bcache.c:263`, `276`; `bcache.h:15`); a hit returns a buffer
  whose read is not finished (`bcache.c:221`); two evictions of one buffer link a
  chain to itself (`bcache.c:254`).
* Eviction does not prefer unused buffers (`bcache.c:232`; the comment at
  `bcache.c:231` says it does).

## 7. Plan

1. `Frames` (bitmap allocator) and `AddressSpace` (map, unmap, demand pages,
   clone, copy on write, destroy, with the TLB), composed with the page-fault
   handler; abstract specification: private memory per process.  Proof: no frame
   is handed out twice.
2. `Ext2` over blocks, with failing writes and a crash between any two; `Vfs`
   descriptors.  Properties: no block in two files, every used block reachable
   or recorded as leaked, descriptors released.
3. `KeyRing` (interrupt handler against polling reader), `Slab` over `Heap`, the
   ATA command protocol, the interrupt controller, the user heap.
4. Proofs: the family tree of `TaskLife`, the hash chains of `BCache` for one
   thread, the frame allocator.

Not planned: boot and context-switch assembly, formatting, and device output,
where there is no state that a model would tell apart.
