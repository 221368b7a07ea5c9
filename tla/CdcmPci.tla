------------------------------ MODULE CdcmPci ------------------------------
(***************************************************************************)
(* The PCI side of the CDCM compatibility layer (cdcmPci.c): the LynxOS    *)
(* DRM calls a driver's install routine makes to find its boards.         *)
(* drm_get_handle takes the next matching device from the kernel's PCI    *)
(* list with pci_get_device, enables it and adds a handle to the device   *)
(* list of the current group; drm_free_handle undoes that.  The other     *)
(* DRM services change no state: drm_device_read and drm_device_write   *)
(* return DRM_EINVALID for every resource but a read of PCI_RESID_SUBSYSID,*)
(* the ISR and mapping calls always.                                      *)
(*                                                                         *)
(* The kernel calls are modelled by their documented effect:               *)
(*   pci_get_device(v, d, from): the first matching device after from in  *)
(*     the global list (from the start if from is NULL), with its         *)
(*     reference count raised; the count of from is always dropped;       *)
(*   pci_enable_device: counted, and it can fail only when it would       *)
(*     really enable the device (count 0); pci_disable_device uncounts;   *)
(*   list_add inserts at the head; list_last (a CDCM macro that is not in *)
(*     src) is taken to be the tail, head->prev, as its name says.        *)
(***************************************************************************)
EXTENDS Integers, SequencesExt

CONSTANTS
  Groups,       \* the install groups glob_cur_grp_ptr can point at
  Bus,          \* the kernel's PCI device list, in search order
  DevId,        \* the vendor/device pair of each device of Bus
  IdInputs,     \* the pairs drivers ask for
  EnableFaults, \* pci_enable_device may fail
  AllocFaults,  \* kzalloc may fail
  MaxCalls      \* bound on drm_get_handle calls

Devs == ToSet(Bus)
NULL == "NULL"
ENOMEM == 12        \* cdcm_err = -ENOMEM
DRVR_PCI == 80      \* 'P'

ASSUME IsInjective(Bus) /\ DevId \in [Devs -> IdInputs \cup {"other"}]

VARIABLES
  grp_dev_list, \* each group's list of cdcm_dev_info_t: handle and di_pci
  refcnt,       \* each pci_dev's references taken through this file
  enable_cnt,   \* each pci_dev's enable count
  drvdata,      \* pci_get_drvdata of each device: a handle, or 0
  cdcm_err,     \* the global cdcm_err
  drvr_type,    \* cdcmStatT.cdcm_drvr_type
  calls,        \* drm_get_handle calls so far; the next handle's number
  rd            \* history: the last service call on a handle, its return
                \* and whether the caller's buffer was written

vars == << grp_dev_list, refcnt, enable_cnt, drvdata, cdcm_err, drvr_type, calls, rd >>

Pos(d) == CHOOSE k \in 1 .. Len(Bus) : Bus[k] = d

(* pci_get_device(vendor_id, device_id, from): the device it returns.      *)
NextDev(id, from) ==
  LET start == IF from = NULL THEN 1 ELSE Pos(from) + 1
      hits  == {k \in start .. Len(Bus) : DevId[Bus[k]] = id}
  IN  IF hits = {} THEN NULL ELSE Bus[Min(hits)]

(* pci_dev_get / pci_dev_put on a device pointer that may be NULL.         *)
Get(r, d) == IF d = NULL THEN r ELSE [r EXCEPT ![d] = @ + 1]
Put(r, d) == IF d = NULL THEN r ELSE [r EXCEPT ![d] = @ - 1]

(* The resource ids of drm_device_read / drm_device_write: the one with a *)
(* case of its own, and the rest, which all return DRM_EINVALID.          *)
ResIds == {"SUBSYSID", "other"}
Stubs  == {"write", "locate", "register_isr", "unregister_isr", "map_resource",
           "unmap_resource"}
NoRd   == [op |-> "none", h |-> 0, ret |-> "DRM_OK", filled |-> FALSE]

Init ==
  /\ grp_dev_list = [g \in Groups |-> << >>]
  /\ refcnt = [d \in Devs |-> 0]
  /\ enable_cnt = [d \in Devs |-> 0]
  /\ drvdata = [d \in Devs |-> 0]
  /\ cdcm_err = 0
  /\ drvr_type = 0
  /\ calls = 0
  /\ rd = NoRd

(* Mutant: cdcm_err = ENOMEM, the sign dropped.                           *)
AllocFails_positive_errno(pcur, refs) ==
  /\ refcnt' = Put(refs, pcur)
  /\ cdcm_err' = ENOMEM
  /\ UNCHANGED << grp_dev_list, enable_cnt, drvdata, drvr_type >>

(* Mutant: the kzalloc failure path forgets pci_disable_device.            *)
AllocFails_no_disable(pcur, refs) ==
  /\ refcnt' = Put(refs, pcur)
  /\ enable_cnt' = [enable_cnt EXCEPT ![pcur] = @ + 1]
  /\ cdcm_err' = -ENOMEM
  /\ UNCHANGED << grp_dev_list, drvdata, drvr_type >>

(* kzalloc fails after the device was enabled: it is disabled and put,    *)
(* cdcm_err is -ENOMEM and DRM_ENOMEM returned.                           *)
AllocFails(pcur, refs) ==
  /\ refcnt' = Put(refs, pcur)
  /\ cdcm_err' = -ENOMEM
  /\ UNCHANGED << grp_dev_list, enable_cnt, drvdata, drvr_type >>

(* drm_get_handle(buslayer, vendor, device, node_h) in group g: the search *)
(* resumes after the device of the list's last entry, then returns        *)
(* DRM_ENODEV if nothing is found, DRM_EBADSTATE if enabling fails (the    *)
(* reference just taken is kept), DRM_ENOMEM if the handle cannot be      *)
(* allocated, or links a new handle at the head of the list.              *)
GetHandle(g, id) ==
  LET lst   == grp_dev_list[g]
      pprev == IF lst = << >> THEN NULL ELSE Last(lst).dev
      pcur  == NextDev(id, pprev)
      refs  == Get(Put(refcnt, pprev), pcur)
  IN  /\ calls < MaxCalls
      /\ calls' = calls + 1
      /\ UNCHANGED rd
      /\ \/ /\ pcur = NULL
            /\ refcnt' = refs
            /\ cdcm_err' = 0
            /\ UNCHANGED << grp_dev_list, enable_cnt, drvdata, drvr_type >>
         \/ /\ pcur # NULL /\ EnableFaults /\ enable_cnt[pcur] = 0
            /\ refcnt' = refs
            /\ cdcm_err' = 0
            /\ UNCHANGED << grp_dev_list, enable_cnt, drvdata, drvr_type >>
         \/ /\ pcur # NULL /\ AllocFaults
            /\ AllocFails(pcur, refs)
         \/ /\ pcur # NULL
            /\ refcnt' = refs
            /\ enable_cnt' = [enable_cnt EXCEPT ![pcur] = @ + 1]
            /\ drvdata' = [drvdata EXCEPT ![pcur] = calls + 1]
            /\ grp_dev_list' =
                 [grp_dev_list EXCEPT ![g] = Cons([h |-> calls + 1, dev |-> pcur], lst)]
            /\ drvr_type' = DRVR_PCI
            /\ cdcm_err' = 0

(* drm_free_handle(dev_n) of the i-th entry of group g: list_del, then    *)
(* pci_disable_device, pci_dev_put and kfree.  The device's drvdata is    *)
(* left pointing at the freed handle.                                     *)
FreeHandle(g, i) ==
  LET e == grp_dev_list[g][i]
  IN  /\ grp_dev_list' = [grp_dev_list EXCEPT ![g] = RemoveAt(@, i)]
      /\ enable_cnt' = [enable_cnt EXCEPT ![e.dev] = @ - 1]
      /\ refcnt' = Put(refcnt, e.dev)
      /\ UNCHANGED << drvdata, cdcm_err, drvr_type, calls, rd >>

(* drm_device_read(node_h, resource_id, ...) on a live handle e: the      *)
(* SUBSYSID case reads the subsystem id and stores it in the caller's     *)
(* buffer, returning DRM_OK; every other case returns DRM_EINVALID and    *)
(* leaves the buffer alone.                                               *)
DeviceRead(e, rid) ==
  /\ rd' = [op |-> "read", h |-> e.h, filled |-> rid = "SUBSYSID",
            ret |-> IF rid = "SUBSYSID" THEN "DRM_OK" ELSE "DRM_EINVALID"]
  /\ UNCHANGED << grp_dev_list, refcnt, enable_cnt, drvdata, cdcm_err, drvr_type,
                  calls >>

(* drm_device_write, drm_locate, drm_register_isr, drm_unregister_isr,   *)
(* drm_map_resource, drm_unmap_resource: DRM_EINVALID.                    *)
Stub(e, op) ==
  /\ rd' = [op |-> op, h |-> e.h, filled |-> FALSE, ret |-> "DRM_EINVALID"]
  /\ UNCHANGED << grp_dev_list, refcnt, enable_cnt, drvdata, cdcm_err, drvr_type,
                  calls >>

(* The handles of every group's list.                                    *)
Live == UNION {ToSet(grp_dev_list[g]) : g \in Groups}

Next ==
  \/ \E g \in Groups, id \in IdInputs : GetHandle(g, id)
  \/ \E g \in Groups : \E i \in 1 .. Len(grp_dev_list[g]) : FreeHandle(g, i)
  \/ \E e \in Live : \E rid \in ResIds : DeviceRead(e, rid)
  \/ \E e \in Live : \E op \in Stubs : Stub(e, op)

Spec == Init /\ [][Next]_vars

-----------------------------------------------------------------------------
(* Properties.                                                            *)
HandlesOn(d) == {e \in Live : e.dev = d}

TypeOK ==
  /\ grp_dev_list \in [Groups -> Seq([h : 1 .. MaxCalls, dev : Devs])]
  /\ refcnt \in [Devs -> Int]
  /\ enable_cnt \in [Devs -> Nat]
  /\ drvdata \in [Devs -> 0 .. MaxCalls]
  /\ cdcm_err \in {0, -ENOMEM}
  /\ drvr_type \in {0, DRVR_PCI}
  /\ calls \in 0 .. MaxCalls
  /\ rd \in [op : {"none", "read"} \cup Stubs, h : 0 .. MaxCalls,
             ret : {"DRM_OK", "DRM_EINVALID"}, filled : BOOLEAN]

(* A device stays enabled exactly as long as a handle holds it: every     *)
(* pci_enable_device of drm_get_handle is matched by the pci_disable_device *)
(* of its kzalloc failure path or of drm_free_handle, whichever groups,   *)
(* failures and frees interleave.                                         *)
EnableBalanced == \A d \in Devs : enable_cnt[d] = Cardinality(HandlesOn(d))

(* Each handle owns a reference to its pci_dev: the count taken through    *)
(* this file covers the live handles (pci_get_device's drop of from must   *)
(* not take a held reference away).  Not in a run; see README.            *)
RefsCoverHandles == \A d \in Devs : refcnt[d] >= Cardinality(HandlesOn(d))

(* Successive drm_get_handle calls of one group hand out distinct boards. *)
(* Not in a run; see README.                                              *)
HandlesDistinct ==
  \A g \in Groups : \A i, j \in 1 .. Len(grp_dev_list[g]) :
    i # j => grp_dev_list[g][i].dev # grp_dev_list[g][j].dev

=============================================================================
