------------------------------- MODULE VmodTtl -------------------------------
(***************************************************************************)
(* The VMOD-TTL character driver, vmodttl.c: module init (check_lun_args,  *)
(* the chrdev region, cdev_add, one vmodttl_dev per configured board),    *)
(* module exit, and the file operations open, release and ioctl run by    *)
(* several user threads.  Each ioctl path is split at its spinlock: the    *)
(* steps a thread takes while holding pd->vmodttl_spinlock are the        *)
(* register sequences another thread could interleave with.  The Z8536    *)
(* CIO is abstracted to the direction vmodttl_def_io gives each port,     *)
(* and the last value latched on ports A, B and C.                        *)
(***************************************************************************)
EXTENDS Integers, FiniteSets

CONSTANTS
  Threads,          \* user threads calling open / ioctl / release
  MAX_BOARDS,       \* VMODTTL_MAX_BOARDS: array sizes and minors
  NumLun,           \* num_lun: boards given on the insmod line
  LunInputs,        \* values of the lun= module parameter
  CarrierInputs,    \* outcome of the carrier lookup of a board
  InitFaults,       \* TRUE: alloc_chrdev_region, cdev_add, kzalloc may fail
  UserFaults,       \* TRUE: copy_from_user may fail
  OpenAfterInsmod,  \* TRUE: threads open the device only after insmod returns
  FlagInputs,       \* conf.io_flag arguments of VMODTTL_CONFIG
  Data,             \* buf.val arguments of VMODTTL_WRITE_CHAN
  MaxCalls          \* bound on the file operations of each thread

Boards == 0 .. MAX_BOARDS - 1          \* module indices and minors
Params == 0 .. NumLun - 1              \* i of the module parameter arrays
NONE   == "NONE"

(* A carrier lookup: found with a valid slot, found with an invalid        *)
(* carrier number or slot, or no carrier of that name.                    *)
CarrierOutcomes == {"ok", "bad_slot", "none"}

(* VMOD_TTL_CHANNEL_A/B/AB.  io_flag is the set of ports configured as     *)
(* outputs.  A conf.io_flag is in range (0 .. A+B+C_CHAN_OUT) or not.    *)
(* conf.invert and conf.open_collector choose only the polarity of the   *)
(* data lines (DPPR), which no property reads: they are left out.         *)
Channels == {"A", "B", "AB"}
Ports    == {"A", "B", "C"}

ASSUME /\ NumLun \in 1 .. MAX_BOARDS
       /\ LunInputs \subseteq Int /\ CarrierInputs \subseteq CarrierOutcomes
       /\ FlagInputs \subseteq [ok : BOOLEAN, outs : SUBSET Ports]
       /\ Data \subseteq 0 .. 65535 /\ MaxCalls \in Nat

VARIABLES
  lun, carrier,   \* the module parameters lun[] and the carriers they name
  phase,          \* where vmodttl_init is, or "loaded", "failed", "exited"
  modlun,         \* modules[i].lun after check_lun_args (-1: skipped)
  bi,             \* i of the board loop of vmodttl_init
  cdev_live,      \* the cdev is added: opens of its minors reach the fops
  pd,             \* pvmodttlDv[i] # NULL
  io_flag,        \* pd->io_flag: the ports configured as outputs
  cio,            \* the ports the CIO's data direction registers make outputs
  lock,           \* pd->vmodttl_spinlock: its holder or NONE
  port,           \* last value written to ports A, B and C of each board
  pc,             \* where each thread is
  fmin,           \* the minor of the file each thread last opened
  arg,            \* the arguments of each thread's current ioctl
  calls           \* file operations each thread has made (bounded)

vars == << lun, carrier, phase, modlun, bi, cdev_live, pd, io_flag, cio, lock,
           port, pc, fmin, arg, calls >>

ZeroPorts == [p \in Ports |-> 0]

-----------------------------------------------------------------------------
(* Module init and exit                                                    *)

(* The range test of check_lun_args: lun_d < 0 || lun_d > MAX_BOARDS.      *)
LunAccepted(l) == l >= 0 /\ l <= MAX_BOARDS

(* check_lun_args: the parameter counts must match (else return -1); each *)
(* board with an accepted lun whose carrier has no address-space entry    *)
(* makes it return -1 at once; a bad lun or slot marks the board -1 and   *)
(* goes on; a good board records its lun, and lun_to_dev[lun] = i is     *)
(* stored at the index modlun[i] keeps (lun_to_dev is never read).        *)
CheckLunArgs ==
  /\ phase = "check"
  /\ LET stop  == {i \in Params : LunAccepted(lun[i]) /\ carrier[i] = "none"}
         done  == {i \in Params : \A j \in stop : i < j}
         good  == {i \in done : LunAccepted(lun[i]) /\ carrier[i] = "ok"}
     IN  /\ modlun' = [i \in Boards |-> IF i \in good THEN lun[i] ELSE -1]
         /\ phase' = IF stop = {} THEN "region" ELSE "failed"
  /\ UNCHANGED << lun, carrier, bi, cdev_live, pd, io_flag, cio, lock, port,
                  pc, fmin, arg, calls >>

(* A check_lun_args whose parameter counts differ returns -1.             *)
ArgsMismatch ==
  /\ phase = "check"
  /\ InitFaults
  /\ phase' = "failed"
  /\ UNCHANGED << lun, carrier, modlun, bi, cdev_live, pd, io_flag, cio, lock,
                  port, pc, fmin, arg, calls >>

(* alloc_chrdev_region, then cdev_init and cdev_add: from cdev_add on,    *)
(* opens of the MAX_BOARDS minors reach vmodttl_fops.  A failing cdev_add *)
(* unregisters the region and returns -1.                                 *)
AllocRegion ==
  /\ phase = "region"
  /\ \/ phase' = "cdev"
     \/ InitFaults /\ phase' = "failed"
  /\ UNCHANGED << lun, carrier, modlun, bi, cdev_live, pd, io_flag, cio, lock,
                  port, pc, fmin, arg, calls >>

CdevAdd ==
  /\ phase = "cdev"
  /\ \/ /\ phase' = "boards"
        /\ cdev_live' = TRUE
     \/ /\ InitFaults
        /\ phase' = "failed"
        /\ UNCHANGED cdev_live
  /\ UNCHANGED << lun, carrier, modlun, bi, pd, io_flag, cio, lock, port,
                  pc, fmin, arg, calls >>

(* vmodttl_def_io: port A and port B are outputs (DDR 0x00) when their   *)
(* *_CHAN_OUT bit is set in pd->io_flag and inputs (0xff) otherwise, in   *)
(* open collector and TTL mode alike; port C, the data strobe, is always  *)
(* an output.                                                             *)
DefIo(flag) == flag \cup {"C"}

(* The board loop, one step per stretch the code runs between points at   *)
(* which a user thread can get in.  A skipped board is passed over; else  *)
(* kzalloc and pvmodttlDv[i] = pd: the zeroed board is reachable through  *)
(* the live cdev from here on.  A failing kzalloc goes to fail_cdev,      *)
(* which unregisters the region but neither deletes the cdev nor frees    *)
(* the boards already set up.                                             *)
BoardAlloc ==
  /\ phase = "boards"
  /\ bi < NumLun
  /\ \/ /\ modlun[bi] = -1
        /\ bi' = bi + 1
        /\ UNCHANGED << phase, pd >>
     \/ /\ modlun[bi] # -1
        /\ pd' = [pd EXCEPT ![bi] = TRUE]
        /\ phase' = "b_setup"
        /\ UNCHANGED bi
     \/ /\ modlun[bi] # -1
        /\ InitFaults
        /\ phase' = "failed"
        /\ UNCHANGED << bi, pd >>
  /\ UNCHANGED << lun, carrier, modlun, cdev_live, io_flag, cio, lock, port,
                  pc, fmin, arg, calls >>

(* pd->io_flag = 0 (every port an input), the other fields, and           *)
(* spin_lock_init: the lock is free afterwards whoever held it.           *)
BoardSetup ==
  /\ phase = "b_setup"
  /\ io_flag' = [io_flag EXCEPT ![bi] = {}]
  /\ lock' = [lock EXCEPT ![bi] = NONE]
  /\ phase' = "b_default"
  /\ UNCHANGED << lun, carrier, modlun, bi, cdev_live, pd, cio, port,
                  pc, fmin, arg, calls >>

(* vmodttl_default under the board's spinlock: reset the CIO (its port    *)
(* registers cleared), vmodttl_def_io from pd->io_flag, master interrupt  *)
(* enable; then the loop moves to the next board.                         *)
BoardDefault ==
  /\ phase = "b_default"
  /\ lock[bi] = NONE
  /\ cio' = [cio EXCEPT ![bi] = DefIo(io_flag[bi])]
  /\ port' = [port EXCEPT ![bi] = ZeroPorts]
  /\ bi' = bi + 1
  /\ phase' = "boards"
  /\ UNCHANGED << lun, carrier, modlun, cdev_live, pd, io_flag, lock,
                  pc, fmin, arg, calls >>

(* The loop is over: vmodttl_init returns 0.                              *)
Loaded ==
  /\ phase = "boards"
  /\ bi = NumLun
  /\ phase' = "loaded"
  /\ UNCHANGED << lun, carrier, modlun, bi, cdev_live, pd, io_flag, cio, lock,
                  port, pc, fmin, arg, calls >>

(* vmodttl_exit: rmmod waits until no file of the module is open; then    *)
(* cdev_del, unregister_chrdev_region and kfree of every board.           *)
Exit ==
  /\ phase = "loaded"
  /\ \A t \in Threads : pc[t] = "closed"
  /\ phase' = "exited"
  /\ cdev_live' = FALSE
  /\ pd' = [i \in Boards |-> FALSE]
  /\ UNCHANGED << lun, carrier, modlun, bi, io_flag, cio, lock, port, pc, fmin,
                  arg, calls >>

-----------------------------------------------------------------------------
(* File operations                                                         *)

(* Threads may call into the driver: once the cdev is added, or only once *)
(* insmod has returned if OpenAfterInsmod.                                *)
Reachable ==
  /\ cdev_live
  /\ OpenAfterInsmod => phase \in {"loaded", "failed"}

(* vmodttl_open: pd = pvmodttlDv[minor], then pd->OpenCount++.  A NULL    *)
(* entry, or a module whose init failed and whose code is gone, is a      *)
(* kernel oops in the opening thread.  OpenCount is never read and is     *)
(* left out.                                                              *)
Open(t, m) ==
  /\ pc[t] = "closed"
  /\ calls[t] < MaxCalls
  /\ Reachable
  /\ calls' = [calls EXCEPT ![t] = @ + 1]
  /\ fmin' = [fmin EXCEPT ![t] = m]
  /\ pc' = [pc EXCEPT ![t] = IF pd[m] /\ phase # "failed" THEN "open" ELSE "oops"]
  /\ UNCHANGED << lun, carrier, phase, modlun, bi, cdev_live, pd, io_flag, cio,
                  lock, port, arg >>

(* vmodttl_release: pd->OpenCount--.                                      *)
Release(t) ==
  /\ pc[t] = "open"
  /\ pc' = [pc EXCEPT ![t] = "closed"]
  /\ UNCHANGED << lun, carrier, phase, modlun, bi, cdev_live, pd, io_flag, cio,
                  lock, port, fmin, arg, calls >>

(* Entry of vmodttl_ioctl for each op, up to its spin_lock: VMODTTL_CONFIG *)
(* locks at once; READ_CHAN and WRITE_CHAN first copy the argument        *)
(* (EFAULT / EIO) and range-check the channel (EINVAL): READ_CHAN admits  *)
(* only A and B, although its switch has a case for AB.                   *)
Ioctl(t, a) ==
  /\ pc[t] = "open"
  /\ calls[t] < MaxCalls
  /\ calls' = [calls EXCEPT ![t] = @ + 1]
  /\ arg' = [arg EXCEPT ![t] = a]
  /\ \/ /\ a.op = "CONFIG"
        /\ pc' = [pc EXCEPT ![t] = "c_lock"]
     \/ /\ a.op = "READ_CHAN"
        /\ \/ UserFaults /\ UNCHANGED pc
           \/ a.ch = "AB" /\ UNCHANGED pc
           \/ a.ch # "AB" /\ pc' = [pc EXCEPT ![t] = "r_lock"]
     \/ /\ a.op = "WRITE_CHAN"
        /\ \/ UserFaults /\ UNCHANGED pc
           \/ pc' = [pc EXCEPT ![t] = "w_lock"]
  /\ UNCHANGED << lun, carrier, phase, modlun, bi, cdev_live, pd, io_flag, cio,
                  lock, port, fmin >>

(* The step each path takes once it holds the lock.                        *)
Locked == [c_lock |-> "c_body", r_lock |-> "r_strobe", w_lock |-> "w_body"]

(* Mutant: spin_lock does not wait for the holder.                        *)
Acquire_ignore_owner(t) ==
  /\ pc[t] \in DOMAIN Locked
  /\ lock' = [lock EXCEPT ![fmin[t]] = t]
  /\ pc' = [pc EXCEPT ![t] = Locked[pc[t]]]
  /\ UNCHANGED << lun, carrier, phase, modlun, bi, cdev_live, pd, io_flag, cio,
                  port, fmin, arg, calls >>

(* spin_lock(&pd->vmodttl_spinlock): the thread spins until it is free.   *)
Acquire(t) ==
  /\ pc[t] \in DOMAIN Locked
  /\ lock[fmin[t]] = NONE
  /\ lock' = [lock EXCEPT ![fmin[t]] = t]
  /\ pc' = [pc EXCEPT ![t] = Locked[pc[t]]]
  /\ UNCHANGED << lun, carrier, phase, modlun, bi, cdev_live, pd, io_flag, cio,
                  port, fmin, arg, calls >>

(* A thread whose lock is held busy-waits: the step changes nothing.       *)
Spin(t) ==
  /\ pc[t] \in DOMAIN Locked
  /\ lock[fmin[t]] # NONE
  /\ UNCHANGED vars

(* Return to the caller, releasing the lock or not.                        *)
Unlock(t) == lock' = [lock EXCEPT ![fmin[t]] = NONE]
Back(t)   == pc' = [pc EXCEPT ![t] = "open"]

(* Mutant: vmodttl_def_io runs before pd->io_flag is assigned, so it     *)
(* programs the previous configuration.                                   *)
ConfigBody_stale_def_io(t) ==
  /\ pc[t] = "c_body"
  /\ \/ UserFaults /\ Back(t) /\ UNCHANGED << lock, io_flag, cio >>
     \/ /\ ~ arg[t].flag.ok
        /\ Unlock(t) /\ Back(t) /\ UNCHANGED << io_flag, cio >>
     \/ /\ arg[t].flag.ok
        /\ io_flag' = [io_flag EXCEPT ![fmin[t]] = arg[t].flag.outs]
        /\ cio' = [cio EXCEPT ![fmin[t]] = DefIo(io_flag[fmin[t]])]
        /\ Unlock(t) /\ Back(t)
  /\ UNCHANGED << lun, carrier, phase, modlun, bi, cdev_live, pd, port,
                  fmin, arg, calls >>

(* VMODTTL_CONFIG under the lock: a failing copy_from_user returns EFAULT *)
(* with the lock still held; an out-of-range io_flag unlocks and returns  *)
(* EINVAL; else io_flag is set and vmodttl_def_io programs the port       *)
(* directions from it, and the lock is released.                          *)
ConfigBody(t) ==
  /\ pc[t] = "c_body"
  /\ \/ UserFaults /\ Back(t) /\ UNCHANGED << lock, io_flag, cio >>
     \/ /\ ~ arg[t].flag.ok
        /\ Unlock(t) /\ Back(t) /\ UNCHANGED << io_flag, cio >>
     \/ /\ arg[t].flag.ok
        /\ io_flag' = [io_flag EXCEPT ![fmin[t]] = arg[t].flag.outs]
        /\ cio' = [cio EXCEPT ![fmin[t]] = DefIo(arg[t].flag.outs)]
        /\ Unlock(t) /\ Back(t)
  /\ UNCHANGED << lun, carrier, phase, modlun, bi, cdev_live, pd, port,
                  fmin, arg, calls >>

(* The ports a channel drives, and the strobe code each path puts on     *)
(* port C: 0x01/0x02/0x03 for writes of A/B/AB, 0x04/0x08 for reads.      *)
Outs(ch)     == IF ch = "AB" THEN {"A", "B"} ELSE {ch}
WriteStrobes == [A |-> 1, B |-> 2, AB |-> 3]
ReadStrobes  == [A |-> 4, B |-> 8]

(* The latches a WRITE_CHAN of data d leaves: the whole word on A or B,   *)
(* or data & 0xff on A and (data >> 8) & 0xff on B.                        *)
Latch(p, ch, d) ==
  CASE ch = "A"  -> [p EXCEPT !.A = d]
    [] ch = "B"  -> [p EXCEPT !.B = d]
    [] ch = "AB" -> [p EXCEPT !.A = d % 256, !.B = (d \div 256) % 256]

(* VMODTTL_WRITE_CHAN under the lock: a channel with an input port        *)
(* unlocks and returns EIO; else the data is written to its port(s) and   *)
(* the port enable bits set in the master control register.               *)
WriteBody(t) ==
  /\ pc[t] = "w_body"
  /\ LET b == fmin[t]  a == arg[t] IN
     \/ /\ ~ (Outs(a.ch) \subseteq io_flag[b])
        /\ Unlock(t) /\ Back(t) /\ UNCHANGED port
     \/ /\ Outs(a.ch) \subseteq io_flag[b]
        /\ port' = [port EXCEPT ![b] = Latch(@, a.ch, a.data)]
        /\ pc' = [pc EXCEPT ![t] = "w_strobe"]
        /\ UNCHANGED lock
  /\ UNCHANGED << lun, carrier, phase, modlun, bi, cdev_live, pd, io_flag, cio,
                  fmin, arg, calls >>

(* The strobe pulse starts: port C = strobe_value.                         *)
WriteStrobe(t) ==
  /\ pc[t] = "w_strobe"
  /\ port' = [port EXCEPT ![fmin[t]].C = WriteStrobes[arg[t].ch]]
  /\ pc' = [pc EXCEPT ![t] = "s_end"]
  /\ UNCHANGED << lun, carrier, phase, modlun, bi, cdev_live, pd, io_flag, cio,
                  lock, fmin, arg, calls >>

(* VMODTTL_READ_CHAN under the lock: the port is read (its value comes    *)
(* from outside) and the strobe pulse starts.                             *)
ReadStrobe(t) ==
  /\ pc[t] = "r_strobe"
  /\ port' = [port EXCEPT ![fmin[t]].C = ReadStrobes[arg[t].ch]]
  /\ pc' = [pc EXCEPT ![t] = "s_end"]
  /\ UNCHANGED << lun, carrier, phase, modlun, bi, cdev_live, pd, io_flag, cio,
                  lock, fmin, arg, calls >>

(* udelay(us_pulse), port C = 0, spin_unlock, return (a READ_CHAN's        *)
(* copy_to_user may still fail with EFAULT, changing nothing).             *)
StrobeEnd(t) ==
  /\ pc[t] = "s_end"
  /\ port' = [port EXCEPT ![fmin[t]].C = 0]
  /\ Unlock(t) /\ Back(t)
  /\ UNCHANGED << lun, carrier, phase, modlun, bi, cdev_live, pd, io_flag, cio,
                  fmin, arg, calls >>

-----------------------------------------------------------------------------

NoFlag == [ok |-> TRUE, outs |-> {}]
NoArg  == [op |-> "NONE", ch |-> "A", flag |-> NoFlag, data |-> 0]
Args ==
  [op : {"CONFIG"}, ch : {"A"}, flag : FlagInputs, data : {0}] \cup
  [op : {"READ_CHAN"}, ch : Channels, flag : {NoFlag}, data : {0}] \cup
  [op : {"WRITE_CHAN"}, ch : Channels, flag : {NoFlag}, data : Data]

Init ==
  /\ lun \in [Params -> LunInputs]
  /\ carrier \in [Params -> CarrierInputs]
  /\ phase = "check"
  /\ modlun = [i \in Boards |-> 0]
  /\ bi = 0
  /\ cdev_live = FALSE
  /\ pd = [i \in Boards |-> FALSE]
  /\ io_flag = [i \in Boards |-> {}]
  /\ cio = [i \in Boards |-> {}]
  /\ lock = [i \in Boards |-> NONE]
  /\ port = [i \in Boards |-> ZeroPorts]
  /\ pc = [t \in Threads |-> "closed"]
  /\ fmin = [t \in Threads |-> 0]
  /\ arg = [t \in Threads |-> NoArg]
  /\ calls = [t \in Threads |-> 0]

InitSteps == CheckLunArgs \/ ArgsMismatch \/ AllocRegion \/ CdevAdd \/ BoardAlloc \/ BoardSetup
             \/ BoardDefault \/ Loaded

LockedSteps(t) ==
  ConfigBody(t) \/ WriteBody(t) \/ WriteStrobe(t) \/ ReadStrobe(t) \/ StrobeEnd(t)

(* Init has ended and no thread is inside a file operation.               *)
Done ==
  /\ phase \in {"loaded", "failed", "exited"}
  /\ \A t \in Threads : pc[t] \in {"closed", "oops"}

Next ==
  \/ InitSteps
  \/ Exit
  \/ \E t \in Threads :
       \/ \E m \in Boards : Open(t, m)
       \/ Release(t)
       \/ \E a \in Args : Ioctl(t, a)
       \/ Acquire(t) \/ Spin(t)
       \/ LockedSteps(t)
  \/ Done /\ UNCHANGED vars

Spec == Init /\ [][Next]_vars

(* insmod runs init to its end; a thread that holds the lock runs on; the *)
(* kernel's ticket spinlock serves every spinning thread in turn once the *)
(* lock is free, which is strong fairness of Acquire.  Opening, calling  *)
(* and rmmod are the user's choice.                                       *)
FairSpec ==
  /\ Spec
  /\ WF_vars(InitSteps)
  /\ \A t \in Threads : WF_vars(LockedSteps(t)) /\ SF_vars(Acquire(t))

-----------------------------------------------------------------------------
(* Properties                                                              *)

InIoctl == DOMAIN Locked \cup {"c_body", "w_body", "w_strobe", "r_strobe", "s_end"}

(* While a thread's strobe pulse is on port C, the pulse is its own and,   *)
(* for a write, the latches hold its data on ports still configured as    *)
(* outputs, both in pd->io_flag and in the CIO's direction registers: no  *)
(* other thread's WRITE_CHAN, READ_CHAN or CONFIG, and no step of the     *)
(* board's own set-up in vmodttl_init, got between its port writes and    *)
(* its strobe.                                                            *)
StrobeCarriesOwnData ==
  \A t \in Threads : pc[t] = "s_end" =>
    LET p == port[fmin[t]]  a == arg[t] IN
    IF a.op = "WRITE_CHAN"
    THEN /\ p.C = WriteStrobes[a.ch]
         /\ Latch(p, a.ch, a.data) = p
         /\ Outs(a.ch) \subseteq io_flag[fmin[t]]
         /\ Outs(a.ch) \subseteq cio[fmin[t]]
    ELSE p.C = ReadStrobes[a.ch]

(* Every ioctl returns: no path leaves the board's spinlock held, so a    *)
(* thread spinning on it is eventually served.                            *)
AllIoctlsReturn == \A t \in Threads : pc[t] \in InIoctl ~> pc[t] = "open"

(* The driver touches only memory it owns: opening any minor of the       *)
(* registered cdev finds a set-up board in a loaded module whenever the   *)
(* kernel lets the open through (no NULL pvmodttlDv[minor]), and every    *)
(* lun check_lun_args accepts indexes lun_to_dev[VMODTTL_MAX_BOARDS]      *)
(* inside the array.                                                      *)
NoOops ==
  /\ \A t \in Threads : pc[t] # "oops"
  /\ \A i \in Boards : modlun[i] < MAX_BOARDS

====
