# TLA+ models of the XMEM library and its drivers

This directory holds TLA+ specifications of the code under `src/` and the TLC
configurations that check them. The heart of the repository is
`src/xmem/lib/libxmem.c`, the XMEM reflective-memory library. Processes on
several nodes share mirrored "tables" through it. Each process reads and
writes regions of a table in one of four marker modes. The two drivers
(`vmodttl.c` and the CDCM PCI wrappers) and the headers are listed in the
inventory too.

## Inventory of the system

| Part | Source | State it owns | Operations that change state |
|---|---|---|---|
| Checksum utility | `libxmem.c` 384-389 (`calc_adler32`), zlib (not in src) | none | none (pure) |
| Marker codec | `libxmem.c` 154-200, 391-444, 1087-1108 | `markers_mask` (49) | `XmemSetMarkersMask` |
| Transfer engine | `libxmem.c` 404-556, 687-721 | the mirrored table (through the transport), the bounce buffer | `XmemSendTable` (bare / `send_table` / `send_table_atomic`), `XmemRecvTable` (bare / `check_markers` / `receive_table_atomic`) |
| Lifecycle and transport dispatch | `libxmem.c` 337-382, 566-603, 671-737 | `libinitialized`, `routines`, `my_nid`, `warm_start` | `XmemInitialize` (device fallback VMIC..NETWORK); the forwarded services `XmemGetAllNodeIds`, `XmemWait`, `XmemPoll`, `XmemSendMessage`, `XmemCheckTables`, `XmemSendSoftWakeup` read it |
| Event dispatcher | `libxmem.c` 643-668, 740-784 | `libcallback`, `libcallmask` | `XmemRegisterCallback`, `XmemErrorCallback` |
| Registry and parsers | `libxmem.c` 211-325, 871-968 | `node_tab`, `seg_tab`, `nodecnt`, `segcnt` | the two file parsers; lookups are read-only |
| Shared-attachment cache | `libxmem.c` 787-868 | `attach_address[]`, System V segments | `XmemGetSharedMemory` |
| Table file I/O | `libxmem.c` 61-90, 971-1063 | `gbConfigPath` | `XmemSetPath`, `XmemReadTableFile`, `XmemWriteTableFile` |
| VMOD-TTL driver | `vmodttl.c` | per-device `OpenCount`, `io_flag`, spinlock, `lun_to_dev[]` | open, release, ioctl (CONFIG, READ_CHAN, WRITE_CHAN), module init and exit |
| CDCM PCI wrappers | `cdcmPci.c` | each install group's device list; through the kernel, each `pci_dev`'s reference and enable counts and drvdata | `drm_get_handle`, `drm_free_handle`; `drm_device_read`, `drm_device_write`, `drm_locate` and the ISR and mapping calls change nothing and return a code |
| Byte-order helpers | `cdcmUninstInst.h` 30-65 | `__my_endian`'s static `my_endian` | `__endian`, `__my_endian`, `ASSERT_MSB` |
| Other headers | `xmemDrvr.h`, `scc2698.h`, `cdcmMem.h`, rest of `cdcmUninstInst.h` | none | none (declarations, register layouts, defines; `makedev` is Lynx-only) |

How the parts interact: a caller sets the marker mode once with
`XmemSetMarkersMask`. It then calls `XmemSendTable` and `XmemRecvTable`. These
ask the marker codec for the physical offsets and the header and footer, and
move the words through `routines.SendTable` and `routines.RecvTable` of the
transport chosen by `XmemInitialize`. Each such transport call is one
indivisible transaction on the mirrored memory (spec section 5). Calls by
different processes and nodes interleave freely between transactions.
`XmemGetSharedMemory` uses the registry, then `XmemRecvTable`, to create and
load a local System V copy of a table.

### What is hard about this code

The hazards are listed with their lines in `PROJECT.json`:

- A plain-marker send is three transport writes, and a plain read is three
  reads. Other nodes' transfers interleave between them.
- Atomic mode uses a bounce buffer whose footer pointer is computed with
  `__f_eloff(pub_elems, pub_eloff)`. That offset includes the public offset,
  so for offsets > 0 the pointer lands outside the buffer.
- Tokens come from `rand()` and the library never calls `srand()`.
- A partial failure (IO after the header, ENOMEM) leaves the table or the
  caller's buffer in between states.
- The mask normalisation of `XmemSetMarkersMask`.
- `XmemGetSharedMemory` has a check-then-create race and caches an attachment
  before its first load succeeds.
- The registry mixes up descriptor index and id bit.
- The vmodttl CONFIG ioctl returns with its spinlock held.
- The vmodttl minors go live before their boards are set up. Unconfigured
  minors stay NULL, and a failed init leaves the cdev registered. A board is
  reachable before `spin_lock_init` and `vmodttl_default` run on it.
- The vmodttl lun bound is off by one.
- `drm_get_handle` resumes the PCI search from the oldest handle of a list
  it fills at the head, and lets `pci_get_device` drop a reference a live
  handle still holds.

## Modules

| Module | Models | Notes |
|---|---|---|
| `Adler32` | `calc_adler32` (384-389) and zlib's `adler32` | zlib is not in src, so its loop is written from the Adler-32 definition. `AdlerSums` returns the pair (a, b) so that buffers up to 2^31 fit TLC's integers. Bytes are little-endian. |
| `XmemMarkers` | marker codec | `SetMask` is `XmemSetMarkersMask`; the old mask is the parameter `old`. `h_eloff`, `phys_eloff`, `f_eloff` and `priv_to_pub_elems` take the mask the C code reads from the global. `HeaderOf` is `fill_hf`'s header with the rand() value passed in. `evaluate_hf` returns the error name. A mask is the set of its flag bits. |
| `XmemTransfer` | transfer engine | One process per node, each with its own `markers_mask`. State is described below. |
| `AtomicRegister` | what atomic mode promises (spec 4.5, 5, 8.2) | Abstract spec: each region a register; a write replaces it and spoils every region whose footprint it overlaps; a successful read returns the current value; a failed read returns an empty buffer. |
| `MC_XmemTransfer` | TLC instantiation | Model values for nodes; small regions, values and tokens. |
| `XmemShm` | shared-attachment cache, table file I/O | `XmemGetSharedMemory`, `XmemReadTableFile` and `XmemWriteTableFile` of several processes of one host on one table and its file. |
| `MC_XmemShm` | TLC instantiation | Three processes with model values. |
| `XmemRegistry` | descriptor tables | The read loop of `XmemReadNodeTableFile` / `XmemReadSegTableFile` (`ReadLines`, RECURSIVE over a file's lines) and the scan the five lookups share (`FirstSlot`). A file is a sequence of lines, each a record `{ name id }`, a blank line, a comment or a bad line, or a file that does not exist. |
| `XmemLib` | lifecycle, event dispatcher and lookups | `XmemInitialize` with its table reads, `XmemRegisterCallback`, `XmemErrorCallback`, the failures the transfers return, and `XmemGetNodeName`, `XmemGetNodeId`, `XmemGetTableName`, `XmemGetTableId`, `XmemGetTableDesc`, for one process. |
| `MC_XmemLib` | TLC instantiation | Two callbacks, one-class masks, the raised and returned errors, two-slot tables and four descriptor files. |
| `VmodTtl` | VMOD-TTL driver | Module init and exit, open, release and the three ioctls, with several user threads. |
| `MC_VmodTtl` | TLC instantiation | Two threads, a two-board build, small argument sets. |
| `CdcmPci` | CDCM PCI wrappers | `drm_get_handle` and `drm_free_handle` over several install groups, with the kernel's `pci_get_device`, `pci_enable_device` and reference counts by their documented effect; `drm_device_read` and the calls that only return a code. |
| `CdcmEndian` | CDCM byte-order helpers | `__endian` as a byte reversal, `__my_endian` with its cache, `ASSERT_MSB` over a host's byte order; the machine's storage of an integer (`Layout`, `Value`) is the host model. |
| `MC_CdcmPci` | TLC instantiation | Three boards on the bus, two of the driver's type; two groups; composed with `CdcmEndian` on either host, interleaving the two specifications. |

### XmemTransfer: state and actions

- `xmem` holds the physical table, one number per uint32 element. Every node
  sees the same table, since the transport mirrors it and each transport call
  is one step.
- `markers_mask[n]` is process n's `markers_mask`.
- `op[n]` is the call process n is part way through. Its `pc` is one of
  `send_footer`, `send_payload`, `recv_footer` and `recv_payload`. The record
  also keeps the locals the next step needs: the region, the payload, the
  token and the header read so far.
- `drawn[n]` holds the rand() values process n has used.
- `rd[n]` is the result of n's last `XmemRecvTable`: the error, and what it
  copied to the caller's buffer.
- `issued`, `lastw` and `quiet` are history variables for the properties:
  every payload that reached the table, and the last successful send with
  whether anything has been written since.

| Action | Code |
|---|---|
| `SetMarkersMask(n, m)` | `XmemSetMarkersMask` |
| `SendBare(n, r, v)` | `XmemSendTable` with DISABLE: one `SendTable` at `phys_eloff` |
| `SendAtomic(n, r, v)` | `send_table_atomic`: malloc, copy, `fill_hf`, one `SendTable` |
| `SendAtomicFails(n)` | `send_table_atomic` returning ENOMEM, or IO from the transport (the token is still drawn) |
| `SendHeader`, `SendFooter`, `SendPayload` | the three `SendTable` calls of `send_table`; any of them may fail and return |
| `RecvAtomic(n, r)` | `receive_table_atomic`: ENOMEM, IO, or one `RecvTable`, `evaluate_hf` and a copy only on success |
| `RecvBare(n, r)` | `XmemRecvTable` with DISABLE |
| `RecvHeader`, `RecvFooter`, `RecvPayload` | `check_markers`' two reads and its `evaluate_hf`, then the payload read of `XmemRecvTable` |

Data abstraction:

- Payload elements come from `Values`.
- Tokens come from `Tokens`, which is disjoint from `Values` and `Junk`. The
  rand() collision probability is abstracted away when processes are seeded
  apart.
- Uninitialised storage is any value of `Junk`. This covers the checksum field
  of a non-CHECKSUM header, the bounce buffer's last element when the footer
  lands past it, and the heap word past the bounce buffer. That heap word may
  also be a token the same process stored there out of bounds earlier
  (`Junk \cup drawn[n]`).
- `RandSeeded` chooses between:
  - processes seeded apart: each rand() value is fresh;
  - none seeded, as in the library: every process returns `Tokens` in
    ascending order.
- `Init` is each process after its start-up `XmemSetMarkersMask` call, from the
  default DISABLE, on a cleared table.

### XmemShm: state and actions

The model has one table and one System V key.

- `seg` is the key's segment, shared by every process of the host. It is
  `none`, `zero` (just created by `shmget IPC_CREAT`) or `loaded`.
- `attach_address[p]` is process p's own cache entry.
- `pc[p]` is where p is inside its call. `ret[p]` is what the call returned:
  the pointer, and whether the segment held the table's data at that moment.
- `calls` and `attached` count calls and successful `shmat`s.
- `via[p]` is the routine p is in: `user` (a direct `XmemGetSharedMemory`),
  `read` or `write` (the table file routines, which call it first).
- `disk` is the table file, shared by every process: missing, `empty`
  (truncated by `fopen "w"`), `short` (a failed `fwrite` wrote part of the
  image) or `whole`, with the segment image it holds. The segment can also
  be `torn`: a short `fread` copied part of the file into it.
- `fret[p]` is what p's last file routine returned: SUCCESS or an error, and
  the file it worked on.

| Action | Code (libxmem.c) |
|---|---|
| `Call(p)`, `Entry(p, who)` | 801-823: the `libinitialized` guard and the cache lookup |
| `Shmget(p)` | 834-840: the segment exists, does not (ENOENT), or another errno |
| `Create(p)` | 841-844: `shmget IPC_CREAT`, which finds the segment if another process made it first |
| `Attach(p)` | 845-850 and 857-863: `shmat`, then the cache is set; a new segment goes on to load, an old one returns |
| `Load(p)` | 852-855: `XmemRecvTable` into the segment, which may fail |
| `FileCall(p, op)` | 985-995 / 1033-1043: the name and descriptor lookups, then `XmemGetSharedMemory`, whose NULL is NO_SUCH_TABLE |
| `RtfOpen(p)` | 1001-1002: `fopen "r"`, SYSTEM if the file is missing or the call fails |
| `RtfRead(p)` | 1003-1013: `fread` of one item of the table's size; a short or empty file or a read error gives SYSTEM, a short file after copying its part |
| `WtfOpen(p)` | 1049-1050: `fopen "w"`, which truncates the file |
| `WtfWrite(p)` | 1051-1060: `fwrite` of the segment's image, or on failure nothing or a part of it, and SYSTEM |

The file routines run for one table: their loop over the bits of `tid`
(several tables, returning at the first failure) is abstracted.
`FileFaults` lets `fopen`, `fread` and `fwrite` fail.

`SysFaults` lets the system calls fail, and `LoadFaults` the load. The
registry lookups at 826-832 are taken to succeed: `XmemRegistry` is where
they belong.

### XmemLib: state and actions

Variables `libinitialized`, `routines`, `libcallmask` and `libcallback` are
the globals of the same names. `routines` is the name of the transport whose
functions fill the table. `sub`, `last` and `tried` are history variables:

- `sub` is the last registration the transport accepted;
- `last` is the last failure, the class it fell in, the callback it reached,
  the subscription current at that time, and whether it went through
  `XmemErrorCallback` (`raised`);
- `tried` is the last `XmemInitialize` that got past its early return;
- `lk` is the last lookup: its arguments, whether it succeeded, and the
  descriptor it returned;
- `srv` is the last service call: which one, the transport that answered
  (NULL when the library answered itself) and the library's own return
  value.

`node_tab` and `seg_tab` are the globals of the same names: the
descriptors, `Used` and the count of records read (`nodecnt`, `segcnt`).

| Action | Code (libxmem.c) |
|---|---|
| `Initialize(device, nfile, sfile, up)` | 566-603 with the readers 211-325 and `InitDevice` 337-382. Both tables are cleared and read (`LoadAndCommit`); a failed node read leaves the segment table alone, and a failed read of either returns before the transports are tried. `up` is the set of transports whose own `Initialize` would succeed. `InitDevice` fills `routines` before it calls that, so a failed loop leaves the last candidate's functions. |
| `RegisterCallback(cb, mask, ok)` | 643-662: the transport registers first; a nonzero mask is ORed in, a zero mask clears |
| `ErrorCallback(err)` | 740-784: the class switch, and the call if the class bit is set |
| `TransferFails(err)` | 687-721: a transfer returning its error straight to the caller |
| `Service(fn)` | 635-640, 671-685, 724-737, 871-874, 1065-1070: `XmemGetAllNodeIds`, `XmemWait`, `XmemPoll`, `XmemSendMessage`, `XmemCheckTables` and `XmemSendSoftWakeup` call `routines` if `libinitialized`, else return 0 (the first three) or NOT_INITIALIZED (2, its place in the enum); `XmemGetAllTableIds` returns `seg_tab.Used` untested. A transport's answer is not modelled. |
| `GetNodeName`, `GetNodeId`, `GetTableName`, `GetTableId`, `GetTableDesc` (id or name, `open`) | 877-968: the `xmem` guard, then the scan for the first slot i with bit i of `Used` set whose id or name matches; no match raises NO_SUCH_NODE / NO_SUCH_TABLE |

`xmem` is a global the VMIC backend sets and is not in src: each lookup
sees it set or not (`open`). The readers' own `XmemErrorCallback` calls
find no callback, since none can be registered before initialisation.

Each call is one step. The process makes its calls one at a time (spec
section 6).

### VmodTtl: state and actions

- `phase` follows `vmodttl_init` (`check`, `region`, `cdev`, `boards`, and
  `b_setup` and `b_default` inside one board's iteration) to `loaded` or
  `failed`, and then to `exited`.
- `lun` and `carrier` are the module parameters. Init chooses them from
  small sets.
- `modlun`, `bi`, `cdev_live` and `pd` are `modules[].lun`, the board loop
  index, whether `cdev_add` has run, and which `pvmodttlDv[]` entries are set.
- Per board, `io_flag` is the set of ports configured as outputs, `lock` is
  the spinlock's holder, `cio` is the set of ports the CIO's data direction
  registers make outputs, and `port` is the last value latched on ports A, B
  and C.
- Per thread, `pc`, `fmin` (the minor opened), `arg` (the ioctl arguments) and
  `calls`.

| Action | Code (vmodttl.c) |
|---|---|
| `CheckLunArgs`, `ArgsMismatch` | `check_lun_args` 491-549 |
| `AllocRegion`, `CdevAdd`, `Loaded` | `vmodttl_init` 551-607 |
| `BoardAlloc` | 577-588: a skipped board, or `kzalloc` (failing to `fail_cdev`) and `pvmodttlDv[i] = pd` |
| `BoardSetup` | 589-598: `io_flag = 0`, the other fields, `spin_lock_init` (the lock is free afterwards, whoever held it) |
| `BoardDefault` | `vmodttl_default` 248-280 under the lock: CIO reset, `vmodttl_def_io` (`DefIo`), next board |
| `Exit` | `vmodttl_exit` 609-625, once no file is open (the fops owner pins the module) |
| `Open(t, m)`, `Release(t)` | 282-299; a NULL `pvmodttlDv[m]`, or a module whose init failed, is an oops |
| `Ioctl(t, a)` | 302-402 up to each path's `spin_lock`: copy faults, the channel range checks |
| `Acquire(t)`, `Spin(t)` | `spin_lock` at 313, 353 and 404; `Spin` is the busy-wait, a step that changes nothing |
| `ConfigBody(t)` | 314-337: EFAULT (lock kept), EINVAL, or `io_flag` set, `vmodttl_def_io` programming `cio`, and the lock released |
| `WriteBody(t)`, `WriteStrobe(t)` | 405-465: direction check (EIO), data latched, strobe on port C |
| `ReadStrobe(t)` | 355-375: the read and its strobe |
| `StrobeEnd(t)` | 376-379 and 466-469: strobe off, `spin_unlock`, return |

Abstractions:

- `vmodttl_def_io`'s register sequence (113-243) is abstracted to the
  directions it programs (`DefIo`): A and B are outputs when their bit is in
  `io_flag`, C (the strobe) always. The polarity it chooses from `invert`
  and `open_collector`, and `us_pulse`, are left out: no property reads pin
  levels or timing.
- `OpenCount` is written but never read, and is left out. `lun_to_dev[]` is
  never read either; where `check_lun_args` writes it is `modlun`.
- `READ_CHAN` rejects `AB` at 350, so its `AB` case at 366 (which has no
  `break` and no strobe value) is dead code. The model returns EINVAL for it.

### CdcmPci: state and actions

- `grp_dev_list[g]` is install group g's device list. It is a sequence
  with the head first; each entry is a handle number and its `pci_dev`.
- `refcnt`, `enable_cnt` and `drvdata` are each board's reference count,
  enable count and `pci_get_drvdata`.
- `cdcm_err` and `drvr_type` are the globals `cdcm_err` and
  `cdcmStatT.cdcm_drvr_type`. `calls` counts `drm_get_handle` calls.
- `rd` is a history variable: the last call on a handle, its return code,
  and whether it wrote the caller's buffer.

| Action | Code (cdcmPci.c) |
|---|---|
| `GetHandle(g, id)` | 78-121: `pprev` from `list_last`, `pci_get_device`, then ENODEV, EBADSTATE (enable failed), ENOMEM (`AllocFails`, 100-106) or the new handle `list_add`ed at the head |
| `FreeHandle(g, i)` | 133-148: `list_del`, `pci_disable_device`, `pci_dev_put`; drvdata is left alone |
| `DeviceRead(e, rid)` | 163-239: DRM_OK for PCI_RESID_SUBSYSID, with the id stored in `buffer` (210); DRM_EINVALID otherwise, `buffer` untouched |
| `Stub(e, op)` | 251-414: `drm_device_write`, `drm_locate`, `drm_register_isr`, `drm_unregister_isr`, `drm_map_resource`, `drm_unmap_resource` return DRM_EINVALID |

Callers use live handles only: that is the DRM contract, and the code
checks nothing.

### CdcmEndian: state and actions

- `host` is the machine's byte order (little- or big-endian), fixed.
- `my_endian` is `__my_endian`'s static cache, ELFDATANONE at load.
- `call` is a history variable: the width, argument and result of the
  last `ASSERT_MSB`, and how many times it evaluated its argument.

| Action / operator | Code (cdcmUninstInst.h) |
|---|---|
| `Endian(src)` | 31-36: `dest[i] = src[size - i - 1]` |
| `MyEndian(h)` | 46-52: store the short 1 and look at `c[1]`, then `c[0]` |
| `ASSERT_MSB(w, x)` | 56-65, with `__my_endian`'s cache test (44-45): `__endian` of `__val` on a little-endian host, else `__x = x` |

`ENext` enumerates widths 1, 2 and 4 (char, short, int) and values at
each width's edges, sampled so that TLC's 32-bit integers do not overflow
when the reversed 4-byte word is read back.

## Properties

Transfers (`XmemTransfer`, `Adler32`):

- `MarkedReadIsWhole`: a `XmemRecvTable` with markers on that returns SUCCESS
  gives the caller a payload that one send of that region wrote (or the
  cleared table). It must never return a mix or a marker word. This is the
  torn-read detection that markers exist for.
- `RoundTrip` (spec 8.1): suppose a read of the region of the last successful
  send, in the same mode, is made with no table write since (history `quiet`;
  a write overlapping the read or the send voids it). Then it returns that
  payload, or fails with IO or ENOMEM only, never with INCOHERENT_MARKERS or
  CHECKSUM.
- `ImplementsAtomicRegister`: `XmemTransfer` implements `AtomicRegister`.
  The refinement mapping (`RegOf`, `ResOf`) takes a region to the payload
  between its markers when the header token equals the footer (`Coherent`),
  and to "spoilt" otherwise. Each process's last `XmemRecvTable` becomes the
  abstract read result. This is stronger than `MarkedReadIsWhole`:
  - a successful read returns the *current* payload, not just some payload
    once written;
  - a write spoils the other region sizes it overlaps;
  - a failed read leaves the caller's buffer untouched.
  The mapping uses the intended layout at public offset 0, so the run
  checks regions at offset 0 only. Offsets above 0 fail `RoundTrip`
  already (`transfer_offset`).
- `TypeOK` includes the spec section 3 invariant: the mask is always one of
  the four marker modes.

Shared memory (`XmemShm`):

- `NoAttachLeak`: repeated calls by one process attach the segment at most
  once. This holds across failed `shmat`s, failed loads and races with other
  processes' creation.
- `ServedLoaded`: a table pointer handed to a caller points at a segment that
  holds the table's data.
- The table file routines are in the model so that their
  `XmemGetSharedMemory` calls and their writes to the segment interleave
  with the other processes' calls. No property of a run is about the file
  itself. `fopen "w"` truncates it before `fwrite` (1049), and fread's count
  of whole items refuses a short file. These are what the code does, and an
  invariant saying so would only restate the guard. What the truncation
  leads to is the `NoTornSegment` observation below.

Lifecycle and events (`XmemLib`):

- `InitPicksFirstUp` (spec 8.7): after an `XmemInitialize` that read its
  files, the library is initialised exactly when a candidate transport came
  up, and it is committed to the first one in preference order.
- `FailuresBroadcast` (spec 7): a failure handed to `XmemErrorCallback`
  whose class the current subscription covers reaches the registered
  callback. This holds after any sequence of registrations: masks are
  ORed in, a zero mask clears both the mask and the callback, and a
  transport that refuses a registration leaves the local pair alone. The
  run also lets `XmemSendTable` and `XmemRecvTable` fail with their own
  errors, which bypass the callback.
- `AllFailuresBroadcast` (not in a run; see below): spec 7 read for every
  failure, transfer failures included.
- `ServedByCommitted` (spec 4.4, 8.7): a service call that reaches a
  transport reaches the committed one, a transport that came up when it was
  tried. After a failed `XmemInitialize`, `routines` names a candidate that
  did not come up: only the wrappers' `libinitialized` test keeps calls away
  from it.
- `CheckTablesNoPhantom` (not in a run; see below): `XmemCheckTables` on a
  library that is not initialised reports no table updated.
- `LookupsFindLoaded` (spec 4.5, 8.6): on an initialised library with
  `xmem` set, a lookup by id or name succeeds exactly when the table read
  holds a descriptor with that id (a single bit, as ids are) or name, and
  then returns such a descriptor.
- `CallbackFiltering` (spec 4.7, 8.8, not in a run; see below): a callback
  runs only for a class its current subscription asked for.

Driver (`VmodTtl`):

- `StrobeCarriesOwnData`: while a thread's strobe pulse is on port C, the
  pulse is its own. For a write, the latches also hold its data on ports
  that `io_flag` and the CIO's direction registers both still make outputs.
  No other thread's ioctl on that board, and no step of the board's own
  set-up, got in between.
- `AllIoctlsReturn` (liveness): every ioctl returns.
- `NoOops`: the driver touches only memory it owns. An open that the kernel
  lets through finds a set-up board, and every lun `check_lun_args` accepts
  indexes `lun_to_dev[VMODTTL_MAX_BOARDS]` inside the array.

CDCM PCI (`CdcmPci`):

- `TypeOK`, with `cdcm_err` either 0 or -ENOMEM.
- `EnableBalanced`: every board is enabled exactly as many times as live
  handles hold it. Each `pci_enable_device` of `drm_get_handle` is undone
  by the `pci_disable_device` of its kzalloc failure path or of
  `drm_free_handle`, however calls of two groups and frees interleave.
- `HandlesDistinct` and `RefsCoverHandles` (not in a run; see below): one
  group's handles hold distinct boards, and each board's reference count
  covers the handles that hold it.

CDCM byte order (`CdcmEndian`):

- `AssertMsbIsBigEndian`: on either host, and whether `__my_endian`'s
  answer is cached or computed, the value `ASSERT_MSB` returns is stored
  in memory as its argument's big-endian bytes. It is the point of the
  macro, and it depends on `__my_endian` reading the right byte of the
  short 1 and on `__endian` reversing the whole object.
- `AssertMsbEvaluatesOnce` (not in a run; see below): the macro's
  argument is evaluated once.

## Runs

| Run | Bounds | Result |
|---|---|---|
| `transfer_atomic` | 2 nodes (symmetric), 2 overlapping regions of 1 and 2 elements at offset 0, values {1, 2}, 2 tokens, both atomic modes, IO and ENOMEM on | pass: `MarkedReadIsWhole`, `RoundTrip` and the refinement `ImplementsAtomicRegister`. 369k states, about 2.5 minutes (the refinement's action check is most of it). |
| `transfer_modes` | 1 process, all 16 mask inputs, 1 region, faults on | pass: `TypeOK` and `RoundTrip` in every mode, switching modes between calls |
| `transfer_offset` | atomic, region at offset 1, reliable transport | **violation** of `RoundTrip`: the footer is written past the bounce buffer and read from past it (libxmem.c:473, :541) |
| `transfer_unseeded` | 2 unseeded processes, atomic without checksum, 2 region sizes | **violation** of `MarkedReadIsWhole`: both processes' first token is equal, and a 2-element read accepts a 1-element write's footer as its payload |
| `shm_attach` | 3 processes, 3 calls each of `XmemGetSharedMemory`, `XmemReadTableFile` or `XmemWriteTableFile`; every system call, the load, `fopen`, `fread` and `fwrite` may fail | pass: `NoAttachLeak`. 5,831,454 states, about 70 s. |
| `shm_race` | 2 processes, no failures | **violation** of `ServedLoaded`: p2's `shmget` finds the segment p1 has created but not loaded, and p2 returns it (libxmem.c:836/857, the defect spec section 9 names) |
| `lib_dispatch` | every device request and set of live transports; a well-formed, missing or malformed descriptor file; callbacks cb1, cb2; one-class masks; transport registration may fail; raised errors and the three transfer errors; lookups of id 0 and 2 and name "b"; every service call. `VIEW` leaves out the history `lk` and all of `srv` but the transport that answered, which is all `ServedByCommitted` reads | pass: `InitPicksFirstUp`, `FailuresBroadcast`, `ServedByCommitted`. 315,282 states, about 80 s. |
| `registry_lookup` | two-slot tables; files in bit order, with one record of id 2, with a bad line, and missing; ids 0..3, names "a" and "" | **violation** of `LookupsFindLoaded`: after reading a file whose one record has id 2, `XmemGetNodeName(0)` returns the zeroed slot 1 (libxmem.c:227, 886) |
| `vmod_ioctl` | 2 threads (symmetric), 2 boards, lun in {-1, 0}, every carrier outcome, every init and copy fault, opens once insmod has returned, 3 calls per thread | pass: `StrobeCarriesOwnData`. 648,202 states, about 10 s. |
| `vmod_config_efault` | 2 threads, 1 board, no init faults, copy faults on, under `FairSpec` | **violation** of `AllIoctlsReturn`: CONFIG's failing `copy_from_user` returns with the lock held, and the next ioctl spins forever (vmodttl.c:315) |
| `cdcm_handles` | 2 groups, boards d1, d3 of the driver's type and d2 not, enable and kzalloc faults, 4 `drm_get_handle` calls, frees at any time, reads and stub calls on every live handle; no deadlock check (the install routine stops calling); interleaved with `ASSERT_MSB` of widths 1, 2, 4 on either host | pass: `TypeOK`, `EnableBalanced`, `AssertMsbIsBigEndian`. 858,000 states, about 40 s. |
| `vmod_null_minor` | 1 thread, 1 board given to a 2-board build, lun in range, opens after insmod | **violation** of `NoOops`: opening minor 1 dereferences the NULL `pvmodttlDv[1]` (vmodttl.c:285, 287) |

Why the bounds are enough:

- Transfers:
  - Two nodes are the smallest setting with a concurrent writer and reader.
  - Two region sizes at offset 0 are what it takes for one send's markers to
    fall inside another's payload.
  - Two tokens allow two marked sends per behaviour. That is enough for a
    second write to overlap the first, and for a read to see an old footer
    around a new header.
  - `TableElems = 6` is the largest region plus its 4 marker elements.
  - Larger tables or more values only rename the same interleavings.
- Shm: three processes with three calls each cover a creator, a process
  racing it, and a third that finds the segment already there. They also
  cover a retry after each kind of failure. With the file routines among
  the calls, a writer's truncation, a failing `fwrite` and a reader can be
  three different processes, so every order of truncate, write and read is
  reached.
- Lib: every device request meets every subset of live transports. Two
  callbacks with one-class masks are the smallest case where the OR of two
  registrations differs from the last one.
- Registry: two slots are the fewest in which a record's index and its id
  bit can differ. The four files reach the loop's exits at end of file
  (here together with a full table), at a bad line and at a missing file,
  and skip blank and comment lines. Ids 0..3 include an id with no bit,
  both single bits and a two-bit id.
- Driver:
  - Two threads on one board are what contention needs. Two boards let the
    threads also work apart.
  - Two data words whose bytes differ tell a mixed latch from a whole one.

- CDCM: two groups are what it takes for one board to be held from two
  lists. Three boards, one not matching, let the search skip a board and
  run off the end (DRM_ENODEV). Four calls are one more than the third call
  that reuses the oldest handle needs.

Observations that are not runs of their own (the project keeps one run per
question):

- With plain markers and two region sizes, the payload read that follows the
  marker check can tear. Spec 4.3 accepts this as the risk of plain mode.
- `shm_partial_failure`: with one process and load failures, `ServedLoaded`
  is violated as well. The first load fails after `attach_address[]` is set
  (850), and the next call returns the empty segment from the cache (820).
- `lib_dispatch` with `AllFailuresBroadcast` is violated in a 5-state
  trace. A callback is registered for SOFTWARE, and then a transfer fails
  with one of its own errors. Transfer errors never reach
  `XmemErrorCallback` (698, 717).
- `vmod_ioctl` with `OpenAfterInsmod = FALSE` violates `StrobeCarriesOwnData`
  in an 11-state trace. t1 opens board 0 right after `pvmodttlDv[0] = pd`
  (vmodttl.c:587) and takes its zeroed lock for `READ_CHAN`.
  `spin_lock_init` (598) frees the lock under it, and `vmodttl_default`
  resets the CIO, clearing port C in the middle of t1's strobe. The same
  window lets `pd->io_flag = 0` (590) undo a `CONFIG` whose write is in
  flight. It needs an open of the device node while insmod runs.
- `vmod_config_efault` with `UserFaults = FALSE` passes (9,804 states). Every
  ioctl of two threads contending for one lock then returns.
- `CallbackFiltering` is violated at depth 3 (cb1 registered for TIMEOUT,
  then for IO, is still called for TIMEOUT, libxmem.c:653): the mask is ORed
  where the spec says it is replaced. It is a two-call unit test, so it is
  not a run.
- `shm_attach` with `NoTornSegment` is violated in a 13-state trace. p1
  loads the table, opens the file for writing (truncating it), and its
  `fwrite` fails part-way. Its `XmemReadTableFile` then copies the short
  file into the segment (libxmem.c:1004) and returns SYSTEM, leaving every
  attached process with a torn table. A later whole write saves the torn
  image, and reads of it succeed.
- With lun=2 given to a two-board build (`MCLunsAtBound`), `NoOops` is
  violated at depth 2: `check_lun_args` accepts lun == VMODTTL_MAX_BOARDS
  (vmodttl.c:511) and writes `lun_to_dev[2]` (539), past the array.
- `cdcm_handles` with `HandlesDistinct` is violated at depth 4. Group g1
  gets d1, then d3 (the search resumes after d1), then d3 again: `list_last`
  of a list that `list_add` fills at the head is still d1 (cdcmPci.c:87,
  118).
- `cdcm_handles` with `RefsCoverHandles` is violated at depth 3. The second
  `drm_get_handle` passes d1 as `from`, and `pci_get_device` drops the
  reference d1's live handle holds (cdcmPci.c:88). `drm_free_handle` then
  puts it again (145).
- `lib_dispatch` with `CheckTablesNoPhantom` is violated in a 3-state
  trace: `XmemCheckTables` on a library that is not initialised returns
  XmemErrorNOT_INITIALIZED, 2, as its XmemTableId (libxmem.c:736). A caller
  reads this as an update of table id 2.
- `cdcm_handles` with `AssertMsbEvaluatesOnce` is violated in a 2-state
  trace: on the big-endian host `ASSERT_MSB` evaluates `x` into `__val`
  and again in `__x = x` (cdcmUninstInst.h:59, 63). No caller in src
  passes an argument with a side effect.
- With opens allowed before insmod returns, `NoOops` is violated between
  `cdev_add` (571) and the board loop. With `InitFaults`, it is violated
  after a kzalloc failure that leaves the cdev registered (584).

## Fairness

The library runs have no fairness, and every property they check is a
safety property. The library has no scheduler of its own (spec section 6:
callers serialise their own calls). `cdcm_handles` has no fairness either: it checks
safety only, and a driver's install routine calls when it likes.

`VmodTtl!FairSpec` assumes three things:

- weak fairness of the init steps (insmod runs to its end);
- weak fairness of each thread's steps under the lock (a thread holding a
  spinlock is not preempted: the lock disables preemption);
- strong fairness of `Acquire`. The kernel's ticket spinlock serves the
  waiters in order, so a thread whose lock keeps becoming free is served.

Opening, calling and rmmod are the user's choice and get no fairness.

## Mutants

Every property of a passing run is shown to be sensitive to a plausible bug in
the code it is about:

| Run | Property | Mutated definition | Mutant |
|---|---|---|---|
| `transfer_atomic` | `MarkedReadIsWhole` | `evaluate_hf` | no token comparison |
| `transfer_atomic` | `RoundTrip` | `HeaderOf` | checksum never filled |
| `transfer_atomic` | `ImplementsAtomicRegister` | `RecvAtomic` | payload copied to the caller's buffer before `evaluate_hf` |
| `transfer_modes` | `TypeOK` | `SetMask` | CHECKSUM kept without ATOMIC |
| `transfer_modes` | `RoundTrip` | `phys_eloff` | header skipped only in ATOMIC |
| `shm_attach` | `NoAttachLeak` | `Entry` | the `attach_address[]` lookup skipped |
| `lib_dispatch` | `InitPicksFirstUp` | `CandidateDevices` | the last device never tried |
| `lib_dispatch` | `FailuresBroadcast` | `EventClass` | SYSTEM errors classed as SOFTWARE |
| `lib_dispatch` | `ServedByCommitted` | `Service` | the wrappers' `libinitialized` test missing |
| `vmod_ioctl` | `StrobeCarriesOwnData` | `Acquire` | `spin_lock` does not wait for the holder |
| `vmod_ioctl` | `StrobeCarriesOwnData` | `ConfigBody` | `vmodttl_def_io` runs before `pd->io_flag` is assigned, programming the previous directions |
| `cdcm_handles` | `TypeOK` | `AllocFails` | `cdcm_err = ENOMEM`, the sign dropped |
| `cdcm_handles` | `EnableBalanced` | `AllocFails` | no `pci_disable_device` on the kzalloc failure path |
| `cdcm_handles` | `AssertMsbIsBigEndian` | `MyEndian` | the endianness test reads the first byte of the short 1 |

## Plan

Built so far: `Adler32`, `XmemMarkers`, `XmemTransfer` with its refinement of
`AtomicRegister`, `XmemShm`, `XmemRegistry`, `XmemLib`, `VmodTtl` and
`CdcmPci` with `CdcmEndian`. `calc_adler32` is checked only through the CHECKSUM modes of the
transfer runs: the standalone reference check of Adler-32 checked zlib's
algorithm, which is not in src, more than this code.

Not to be modelled:

- Text parsing and formatting (`XmemErrorToString`, the table file writer).
- `XmemSetPath` and `XmemGetFile`, and the loop of the table file routines
  over the tables of a `tid` mask (libxmem.c 971-1063). Each is sequential
  code in one call: building a path from `gbConfigPath` and the name
  macros (`NODE_TABLE_NAME`, `SEG_TABLE_NAME`, `XMEM_PATH`, which are not
  in the repository) is string formatting, and the loop repeats the
  one-table step `XmemShm` already checks with no state carried between
  tables but the return code. Neither has an interleaving or a failure a
  model would reach beyond what a unit test does.
- The header declarations, register layouts and defines, `mperr` (error
  formatting) and `makedev`, which is Lynx-only and whose callers are not
  in src.
- The transports, which are not in src.
- `cdcm_pci_cleanup`, which is compiled out.
- `XmemWhoAmI` and `XmemCheckForWarmStart`, which return globals only the
  transport backends (not in src) assign, and `XmemGetRegisteredEvents`,
  which returns `libcallmask` as it is.
