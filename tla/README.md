# TLA+ models of the Palacios SVM core

This directory holds TLA+ models of the parts of Palacios under `src/` that
hold state and take decisions. Each model is checked with TLC. The modules
translate the C code. Some code calls into something outside `src/`:
`handle_svm_exit`, `v3_update_time`, the I/O hook table, and the region
flags of `vmm_mem`. Those callees are modelled from `spec.md` or from how
the code uses them, and are marked `spec_modelled` in `PROJECT.json`.

## The system

| Part (spec name) | Code | What it does |
|---|---|---|
| Capability Prober | `svm.c: is_svm_capable` | reads CPUID and VM_CR and classifies the CPU |
| Virtualization Enabler | `svm.c: Init_SVM` | sets EFER.SVME, allocates and registers the host save area, installs the SVM ops |
| Guest Control Block Builder | `svm.c: Allocate_VMCB, Init_VMCB_BIOS, init_svm_guest` | builds the VMCB: intercepts, ASID, IOPM, TLB control, initial shadow root |
| World-Switch Loop | `svm.c: start_svm_guest` | CLGI, TSC offset, VMRUN, time accounting, STGI, exit dispatch, break on error |
| Shadow Page Table Engine | `vmm_direct_paging_32.h`, `vmm_direct_paging_64.h` | builds passthrough page tables on #PF from the region policy, and invalidates entries on INVLPG |
| Hash table | `vmm_hashtable.c` (and its copy `linux_module/util-hashtable.c`) | chained hash table with prime-sized growth and iterators |
| Devices | `devices/generic.c`, `devices/filedisk.c` | port passthrough/ignore, file-backed disk |

The parts interact as follows:

* The prober gates the enabler.
* The builder reads the I/O hooks (the IOPM) and the paging mode.
* The world-switch loop enters the guest through the VMCB.
* The loop sends #PF and INVLPG exits to the paging engine, and the other
  exits to their handlers.
* The TLB flush that the builder requests is what makes the engine's
  invalidation sound.
* Devices such as `generic.c` fill the I/O hook table. The builder turns
  that table into the IOPM.
* A disk frontend (outside `src/`) reads and writes the image through
  the `blk_ops` that `filedisk.c` connects to it.

## Modules

* **`SvmCapability`**: the prober and the enabler. Its top-level names
  (`CapInit`, `CapNext`, `CapSpec`, `bootPc`) leave room for `SvmVcore`,
  which extends it.
  * State: the three words the CPU reports, the probe's result and path,
    EFER.SVME, HSAVE_PA, and the ops hand-off.
  * `Probe` is the whole of `is_svm_capable`.
  * `InitSVM` is `Init_SVM`, run when the probe returned 1. Writing
    EFER.SVME with VM_CR.SVMDIS set raises #GP. A failed save-area
    allocation gives HSAVE_PA = 0, and the ops are installed anyway.
* **`ShadowPagingSpec`**: what the paging engine promises, independent of
  table depth (spec 4.5). Each guest page is unmapped, read-only or
  read-write.
  * A fault maps the page as its policy says, or forwards the access to a
    hook, or stops the core. The core stops for a missing or unknown
    region, or a failing hook.
  * `FaultFails` is a fault failing for lack of table memory, which spec
    section 5 allows.
  * An invalidation unmaps one page.
* **`DirectPaging32`**: the 32-bit engine.
  * State: the page directory, the contents of each page-table page, the
    pages handed out, the guest access waiting on a #PF, and the core
    status.
  * `HandleFault` is the whole of `handle_passthrough_pagefault_32`.
  * `AllocFailure` is the same handler when `create_generic_pt_page` has no
    page: the host faults, possibly after pointing the PDE at NULL.
  * `Invalidate` is `invalidate_addr_32`.
  * `GuestAccess` and `Reexecute` are the hardware's walk.
  * `ImplementsShadowPaging` maps the tables to each page's permission. The
    host fault of exhaustion maps to the core stopping.
* **`DirectPaging64`**: the 64-bit engine, with the same state.
  * The tables are one function from page to entries, with four levels.
  * `FixUp` is the PML4, PDPE and PDE fix-ups, recursive over the level.
  * The leaf and the hook test read the region's flags (`alloced`, `read`,
    `write`, `hook`). `RegionFlags` gives the flags of each spec policy.
  * `Invalidate` includes the large-page branches. This engine never
    creates large pages, so those branches are not reached.
  * It refines the same `ShadowPagingSpec`.
* **`PassthroughPaging`** is the engine of one core, in either variant
  (`P32 == INSTANCE DirectPaging32`, `P64 == INSTANCE DirectPaging64`).
  The caller that picks the variant from the CPU mode is outside `src/`.
  Here the variant is chosen when the core is created and then stays
  fixed. The variants share the pool, the pending access and the status.
  Each property is the property of the core's own variant.
* **`SvmVcore`** composes the host's bring-up (it extends
  `SvmCapability`), the builder, the loop and the 32-bit engine
  (`P == INSTANCE DirectPaging32`).
  * The bring-up steps come first. `InitGuest` is enabled only once
    `Init_SVM` has installed the ops, because the caller reaches
    `init_svm_guest` through `vmm_ops->init_guest`.
  * It adds the VMCB fields the code sets and reads, the TLB, the host and
    guest TSC, and GIF.
  * `InitGuest` is `init_svm_guest` together with `Init_VMCB_BIOS`. It
    keeps the by-value copy of `guest_info`. Its other branch is the host
    fault from the unchecked VMCB or IOPM allocation.
  * `Clgi`, `Enter`, `PostExit` and the `Dispatch*` actions are the steps
    of one loop iteration.
  * The guest actions are the hardware's:
    * MMU access through the TLB or the shadow table;
    * RDTSC;
    * IN/OUT through the IOPM;
    * INVLPG and HLT;
    * interrupts and TLB eviction.
* **`HashTableSpec`**: the abstract hash table. It is a finite map whose
  operations return what the C functions return. `Delete` is an iterator
  removal.
* **`HashTable`** is `vmm_hashtable.c` without the iterators. Buckets are
  sequences of entries.
  * `hashtable_expand` is modelled with both plans and every allocation
    outcome. Plan A transfers into a fresh array. Plan B reallocs and
    rehashes in place.
  * Also modelled: insert (with the count rollback), change, inc, dec,
    search, remove, count, create and destroy.
* **`HashTableIter`** extends `HashTable` with one caller's iterator.
  * The iterator is a bucket index, an entry and a parent, with entries
    named by their unique keys.
  * Its actions are create, get, advance, remove, search and free.
  * Ghost variables record the keys an iteration has stood on.
  * The callers' contract is modelled: an insert or a `hashtable_remove`
    that changes the keys or the length ends the iteration.
  * `ImplementsMap` checks `HashTableSpec` through `INSTANCE ... WITH`,
    mapping the entries' keys and values and the status.
* **`Generic`**: `devices/generic.c`.
  * State: the VM's I/O hook table (port to owner and handler kind), each
    device's recorded `port_list` and `num_port_ranges`, its lifecycle, and
    the hardware ports.
  * `GenericInit` is the whole of `generic_init`:
    * attach failure;
    * the `atox` narrowing to `uint16_t`;
    * the mode parse;
    * `add_port_range` hooking in order and returning at the first port
      already hooked.
  * `GenericFree` is `generic_free`.
  * `GuestIn` and `GuestOut` are the guest's IN and OUT of 1, 2 or 4
    bytes. The I/O exit handler (outside `src/`) gives the access to the
    hook of its first port only. `HandlerPorts` is what that hook drives:
    the passthrough handlers' `switch (length)` (`PassthroughPorts`)
    covers ports p to p+len-1, and the ignore handlers drive nothing.
    `HwTouched` adds the unhooked case: if the first port has no hook, the
    access goes straight to the hardware unless one of its bytes is hooked,
    in which case it traps and fails.
* **`FileDisk`**: `devices/filedisk.c`. Its top-level names carry a `Disk`
  prefix so that `Devices` can extend it beside `Generic`.
  * State: the device's lifecycle, the mode the image was opened with,
    `disk->capacity`, and the frontend's last transfer. The last transfer
    records the request, the return value, and the file offset of every
    byte moved.
  * `DiskInit` is the whole of `disk_init`. `OpenMode` parses "writable"
    and "readable". A missing path or no mode returns before the open. The
    attach or the connect may then fail.
  * `Transfer` is `read` or `write` together with `read_all` or
    `write_all`. `ToInt` is the narrowing of the 64-bit offset and length
    to `int`. `ChunkStart` is the `int` sum `offset + bytes_done`.
    `XferAll` is the loop over the host's short, full or failed transfers.
  * The host file is modelled from how the code uses it. A negative `int`
    offset is sign-extended past any image, and a transfer there fails. A
    read stops at the end of the image. A mode the file was not opened
    with is refused.
  * The frontend asks only for bytes below `get_capacity`.
  * `DiskFree` is `disk_free`, which releases nothing.
* **`Devices`** checks the devices of one VM together: the generic
  devices and a file disk. They share no state under `src/`, so their
  steps interleave freely.

The `MC_*.tla` modules give values to function-valued constants. Each
`.cfg` file is one run.

## Runs

| Run | Expect | Shows |
|---|---|---|
| `cap_probe` | violation | **Bug**: `svm.c:336` compares `vm_cr & SVMDIS` (bit 4) with 1, so a BIOS-disabled CPU is reported available. |
| `paging` | pass | For a core of either variant, the handler implements `ShadowPagingSpec`: one table page for two PDEs (32-bit), and three table pages for the five tables four guest pages need (64-bit), so exhaustion happens in both. It never leaks a table at any level. Every faulting access completes or the core stops. |
| `dp32_oomcrash` | violation | Page-table exhaustion faults the host (`vmm_direct_paging_32.h:62`), against spec section 5. The 64-bit engine has the same unchecked call at three levels. |
| `vcore` | pass | From bring-up, on CPUs with and without the SVM feature and with SVMDIS clear and set, the guest runs only where SVM is enabled. The #GP of the EFER write catches the probe's misreading of SVMDIS. With one page-table page: the VMCB passes the entry checks, exactly the hooked ports trap, no stale TLB entry survives an INVLPG, the guest TSC never goes backwards, and the host regains control. |
| `vcore_root` | violation | **Bug**: `Init_VMCB_BIOS` takes `guest_info` by value. The shadow root it records (`svm.c:159`) is lost to the caller. |
| `vcore_hsave` | violation | Init_SVM ignores a failed save-area allocation (`svm.c:427`). The ops are installed, and the guest is entered with VM_HSAVE_PA = 0, against spec section 5. |
| `ht` | pass | With an iterator, and with both expansion allocations failing together, the table implements the finite map through expansion, allocation failure, removal and iterator removal. An iteration from creation to its end stands on every key exactly once. |
| `ht_planb` | pass | With Plan B reachable, every surviving entry is in its home bucket. The same holds for entries inserted past the load limit at the last prime, where the table stops growing. |
| `ht_lost` | violation | **Bug**: Plan B (`vmm_hashtable.c:297, 307`) passes a bucket count as a byte count. It then faults the host or loses entries. |
| `devices` | pass | With disjoint ranges, a freed generic device leaves no port hooked, while the guest does IN and OUT of 1, 2 and 4 bytes. The configured 0x10080 is hooked as 0x80. Beside them, `read_all` and `write_all` return only 0 or -1 through short and failed host transfers. |
| `disk_wrap` | violation | **Bug**: `read` and `write` (`filedisk.c:83, 92`) pass the 64-bit offset as `int`. For an image over 4 GiB, a write at 4 GiB lands on byte 0 of the image and reports success. |
| `gen_partial` | violation | **Bug**: `add_port_range` (`generic.c:235`) returns on a port that is already hooked, without unhooking the ports before it. Those ports stay hooked to the device after it is freed. |

Every property of a passing run has a mutant in `PROJECT.json`: a plausible
defect of the mapped code that TLC finds violating it.

## Bounds

* **32-bit paging**: two directory slots with three pages each. These cover
  every region type: ALLOCATED, WRITE_HOOK, FULL_HOOK, an unknown type and
  no region. There is one table page, so whichever PDE faults second
  exhausts the pool.
* **64-bit paging**: one PML4 slot, two PDP slots, one PD slot and two PT
  slots, with a page of each of the four policies. There are three table
  pages, so whichever PDP entry faults second fails at its PD allocation.
* **The core**:
  * the CPU words: ECX with and without the feature bit, VM_CR with
    SVMDIS clear and set, and one EDX. With the probe's defect the
    DisabledLocked/Unlockable paths are unreachable, so EDX does not
    matter. One host page serves as the save area. The `cap_probe` run
    instead tries every combination of bits 0, 2 and 4 of the three
    words: the masks the probe tests are bits 2 and 4, and bit 0 is what
    its `== 1` comparison looks for;
  * two directory slots with one page each, and one table page;
  * one hooked port at the end of an IOPM byte (1023). The guest probes
    that port, its neighbours in the same and the next byte, and ports 0
    and 65535;
  * a 4-bit TSC. The host TSC advances from 1 to 2, which is enough for a
    tick between entry and exit.
* **The hash table**:
  * three keys, and primes 3, 5, 7 with load limits 2, 3, 4 (the code's
    0.65 ratio). The third insert expands the table, and two keys share
    the last bucket, so an iterator walks a chain of two.
  * Plan B with 2-byte pointers copies one of three buckets.
  * `ht_planb` uses a two-prime table (3 and 5, limits 2 and 3) and a
    fourth key, 2 (`do_hash` 4177239502). The fourth insert overfills the
    table at its last prime.
  * The keys' `do_hash` values are computed in 32-bit arithmetic and given
    modulo 105. This preserves every bucket index of the model.
  * The iterator run uses 1-bit values and one inserted value, which keeps
    it to about 73,000 states.
* **The generic device**: two devices over four ports. One range is
  configured as 0x10080 and narrows to 0x80. One entry has an invalid mode.
  In `gen_partial` the keyboard holds 0x61. Accesses are 1, 2 and 4
  bytes wide. The devices run writes only the value 0, because no property
  reads what the hardware ports hold. No run checks that an ignore range
  isolates its ports. In this configuration no passthrough port lies
  within three ports below an ignored one, so the property would hold
  trivially. If g1's passthrough port is moved to 0x5F, just below the
  ignored 0x60, TLC finds a word OUT at 0x5F that drives 0x60 (see the
  hazards). No run slot is left for that violation.
* **The file disk**: `int` is 3 bits wide. In `devices` the image is 8
  bytes, so it stands for 4 GiB. Offsets 4 to 7 stand for the 2 GiB to 4 GiB
  whose `int` is negative. Transfers are 1 or 2 bytes, so the host can
  split one into two chunks, and a chunk can start on either side of the
  sign boundary. Every combination of the configuration keys is offered.
  In `disk_wrap` the image is 9 bytes (`MC_FileDisk`, the disk alone).
  Offset 8 is the byte at 4 GiB, and its `int` is 0. A disk whose init
  failed, or that was freed, takes no more steps, so that run does not
  check for deadlock.

## Fairness

* **The paging engines**: weak fairness of the handler (including its
  allocation-failure path) and of the guest re-executing the access. Both
  happen on the core's single thread.
* **`SvmVcore`**: weak fairness of every step of the loop thread. It also
  assumes weak fairness of the interrupt exit: host timer interrupts keep
  arriving, and the builder intercepts them.
* **The guest, the hash-table callers and the devices**: no fairness. Their
  properties are safety properties.

## Not modelled

* `util-hashtable.c`: a renamed copy of `vmm_hashtable.c` without
  iterators, and `HashTable` describes it.
* Iterators used across an insert or remove, which breaks the callers'
  contract. The model drops the iterator instead (see the hazards).
* In `filedisk.c`, the host's handling of a failed `V3_FileOpen`. The
  code passes the NULL handle on unchecked, and what the host does with it
  is outside `src/`. The unchecked `V3_Malloc` of `disk_state` is also left
  out: a write through NULL faults the host, and no property tells that
  fault apart.
* The data bytes of the disk image. The disk's property is about which
  file offsets a transfer touches.
* VMCB printing and `vmm_util.c`: output only.
* Header-only host interfaces.
* Nested paging: the branch in `Init_VMCB_BIOS` is commented out, so the
  model only sets the mode.
* The dead `#if 0` and commented-out initialisers in `svm.c`.
* The diagnostic dump after a failed exit (`svm.c:295`). It reads an
  uninitialised `host_addr` when the RIP does not translate, but the
  translation functions are outside `src/`.
