------------------------------- MODULE XmemLib -------------------------------
(***************************************************************************)
(* Lifecycle and event dispatcher of libxmem.c for one process:            *)
(* XmemInitialize (descriptor files, then the transports tried in order   *)
(* until one initialises), XmemRegisterCallback, XmemErrorCallback, and    *)
(* the failures of XmemSendTable / XmemRecvTable that the library itself  *)
(* detects, and the descriptor tables XmemInitialize loads (XmemRegistry)  *)
(* with the lookups that read them and report through XmemErrorCallback.  *)
(* The process makes one call at a time, so each call is one              *)
(* step.  What the environment decides (a descriptor file readable, a     *)
(* transport's own Initialize or RegisterCallback succeeding) is chosen   *)
(* at the step.                                                           *)
(***************************************************************************)
EXTENDS Naturals, Sequences, XmemRegistry

CONSTANTS
  Callbacks,       \* callback functions the caller registers
  MaskInputs,      \* XmemEventMask arguments of XmemRegisterCallback
  RaisedErrors,    \* errors library paths hand to XmemErrorCallback
  TransferErrors,  \* errors XmemSendTable / XmemRecvTable detect themselves
  TransportFaults, \* TRUE: a transport's RegisterCallback may fail
  NodeFiles,       \* contents the node descriptor file may have
  SegFiles,        \* contents the segment descriptor file may have
  NameInputs,      \* names passed to XmemGetNodeId / XmemGetTableId
  IdInputs         \* ids passed to the lookups by id

NULL == "NULL"
ANY  == "ANY"

(* XmemDevice values in enum order: the fallback loop runs through them.  *)
DeviceOrder == << "VMIC", "SHMEM", "NETWORK" >>
Devices == {DeviceOrder[i] : i \in 1 .. Len(DeviceOrder)}

(* XmemEventMask classes.                                                 *)
Classes == {"TIMEOUT", "IO", "SYSTEM", "SOFTWARE"}

ASSUME /\ MaskInputs \subseteq SUBSET Classes
       /\ TransportFaults \in BOOLEAN

VARIABLES
  libinitialized,  \* libinitialized
  routines,        \* the transport whose functions fill routines, or NULL
  libcallmask,     \* libcallmask
  libcallback,     \* libcallback
  sub,             \* history: the last registration the transport accepted
  last,            \* history: the last failure and the callback it reached
  tried,           \* history: the last XmemInitialize that did not return
                   \* at once: its device, file result and live transports
  node_tab,        \* node_tab: Descriptors, Used (and nodecnt)
  seg_tab,         \* seg_tab: Descriptors, Used (and segcnt)
  lk,              \* history: the last lookup and what it returned
  srv              \* history: the last service call, who answered, and
                   \* the library's own return value

vars == << libinitialized, routines, libcallmask, libcallback, sub, last, tried,
          node_tab, seg_tab, lk, srv >>

NoSub     == [cb |-> NULL, mask |-> {}]
NoFailure == [err |-> "SUCCESS", cb |-> NULL, class |-> "NONE", sub |-> NoSub,
              raised |-> FALSE]

-----------------------------------------------------------------------------
(* XmemInitialize                                                          *)

(* Mutant: the last candidate is never tried (dev < ldev).                *)
CandidateDevices_short(device) ==
  IF device = ANY THEN SubSeq(DeviceOrder, 1, Len(DeviceOrder) - 1) ELSE << >>

(* fdev .. ldev: every device for XmemDeviceANY, else the one asked for.  *)
CandidateDevices(device) ==
  IF device = ANY THEN DeviceOrder ELSE << device >>

(* The loop over InitDevice: the first candidate whose Initialize         *)
(* succeeds (in up), or NULL.  InitDevice fills routines before calling   *)
(* it, so a failed loop leaves the last candidate's functions installed.  *)
RECURSIVE InitDevice(_, _)
InitDevice(cands, up) ==
  IF cands = << >> THEN NULL
  ELSE IF Head(cands) \in up THEN Head(cands)
  ELSE InitDevice(Tail(cands), up)

(* Past the early return: node_tab is cleared and read; on success       *)
(* seg_tab is cleared and read; on success the candidates are tried in    *)
(* order and the first that initialises is committed.  A failed read      *)
(* returns its error, leaving the records read so far in the table.  The  *)
(* readers' XmemErrorCallback finds no callback: none can be registered   *)
(* before initialisation.                                                 *)
LoadAndCommit(device, nfile, sfile, up) ==
  LET n       == ReadTableFile(nfile)
      sg      == ReadTableFile(sfile)
      filesOk == n.err = "SUCCESS" /\ sg.err = "SUCCESS"
      cands   == CandidateDevices(device)
      dev     == InitDevice(cands, up)
  IN  /\ node_tab' = n.tab
      /\ IF n.err = "SUCCESS" THEN seg_tab' = sg.tab ELSE UNCHANGED seg_tab
      /\ IF filesOk
         THEN /\ libinitialized' = (dev # NULL)
              /\ routines' = IF dev # NULL THEN dev
                             ELSE IF cands = << >> THEN routines
                             ELSE cands[Len(cands)]
         ELSE UNCHANGED << libinitialized, routines >>
      /\ tried' = [device |-> device, filesOk |-> filesOk, up |-> up]
      /\ UNCHANGED << libcallmask, libcallback, sub, last, lk, srv >>

(* XmemInitialize: an initialised library returns SUCCESS at once.        *)
Initialize(device, nfile, sfile, up) ==
  \/ /\ libinitialized
     /\ UNCHANGED vars
  \/ /\ ~ libinitialized
     /\ LoadAndCommit(device, nfile, sfile, up)

-----------------------------------------------------------------------------
(* XmemRegisterCallback(cb, mask): refused before initialisation; else    *)
(* the transport registers first, and only on its success is the local    *)
(* pair updated: a nonzero mask is ORed into libcallmask and cb replaces  *)
(* libcallback, a zero mask clears both.                                  *)
RegisterCallback(cb, mask, transportOk) ==
  /\ libinitialized
  /\ \/ /\ transportOk
        /\ IF mask # {}
           THEN /\ libcallmask' = libcallmask \cup mask
                /\ libcallback' = cb
           ELSE /\ libcallmask' = {}
                /\ libcallback' = NULL
        /\ sub' = IF mask # {} THEN [cb |-> cb, mask |-> mask]
                  ELSE NoSub
     \/ /\ ~ transportOk
        /\ UNCHANGED << libcallmask, libcallback, sub >>
  /\ UNCHANGED << libinitialized, routines, last, tried, node_tab, seg_tab, lk, srv >>

-----------------------------------------------------------------------------
(* XmemErrorCallback(err, ioe)                                             *)

(* Mutant: SYSTEM errors fall into the catch-all class.                   *)
EventClass_system_as_software(err) ==
  CASE err = "TIMEOUT" -> "TIMEOUT"
    [] err = "IO"      -> "IO"
    [] OTHER           -> "SOFTWARE"

(* The switch on err: the class whose bit gates the call.                 *)
EventClass(err) ==
  CASE err = "TIMEOUT" -> "TIMEOUT"
    [] err = "IO"      -> "IO"
    [] err = "SYSTEM"  -> "SYSTEM"
    [] OTHER           -> "SOFTWARE"

(* XmemErrorCallback(err, ioe): without a callback it returns at once;    *)
(* SUCCESS calls nothing; otherwise the callback runs if the class bit is *)
(* in libcallmask.                                                        *)
Raise(err) ==
  last' = [err |-> err,
           class |-> EventClass(err),
           cb |-> IF /\ libcallback # NULL
                     /\ err # "SUCCESS"
                     /\ EventClass(err) \in libcallmask
                  THEN libcallback ELSE NULL,
           sub |-> sub,
           raised |-> TRUE]

(* A path outside this model (a transport, XmemReadTableFile) calls       *)
(* XmemErrorCallback.                                                     *)
ErrorCallback(err) ==
  /\ libinitialized
  /\ Raise(err)
  /\ UNCHANGED << libinitialized, routines, libcallmask, libcallback, sub, tried,
                  node_tab, seg_tab, lk, srv >>

(* XmemSendTable / XmemRecvTable return an error their marker or bounce   *)
(* buffer code produced (INCOHERENT_MARKERS, CHECKSUM, ENOMEM) straight   *)
(* to the caller, without XmemErrorCallback.                              *)
TransferFails(err) ==
  /\ libinitialized
  /\ last' = [err |-> err, class |-> EventClass(err), cb |-> NULL, sub |-> sub,
               raised |-> FALSE]
  /\ UNCHANGED << libinitialized, routines, libcallmask, libcallback, sub, tried,
                  node_tab, seg_tab, lk, srv >>

-----------------------------------------------------------------------------
(* Lookups.  Each first tests the global xmem, which the VMIC backend     *)
(* sets and which is not in this library: the lookup sees it set or not   *)
(* (open).  Unset, it returns NULL or 0, and XmemGetTableDesc reports     *)
(* NOT_INITIALIZED.  Set, it scans the table: the first slot in use that  *)
(* matches is returned; none reports NO_SUCH_NODE / NO_SUCH_TABLE.        *)

NoLookup == [op |-> "none", id |-> 0, name |-> "", init |-> FALSE,
             open |-> FALSE, ok |-> FALSE, d |-> NoDesc]

Lookup(op, id, name, tab, slot, err, open) ==
  /\ lk' = [op |-> op, id |-> id, name |-> name, init |-> libinitialized,
            open |-> open, ok |-> open /\ slot # NoSlot,
            d |-> IF open /\ slot # NoSlot THEN tab.desc[slot] ELSE NoDesc]
  /\ CASE ~ open /\ op = "TableDesc" -> Raise("NOT_INITIALIZED")
       [] open /\ slot = NoSlot         -> Raise(err)
       [] OTHER                      -> UNCHANGED last
  /\ UNCHANGED << libinitialized, routines, libcallmask, libcallback, sub, tried,
                  node_tab, seg_tab, srv >>

GetNodeName(node, open) ==
  Lookup("NodeName", node, "", node_tab, SlotById(node_tab, node), "NO_SUCH_NODE", open)
GetNodeId(name, open) ==
  Lookup("NodeId", 0, name, node_tab, SlotByName(node_tab, name), "NO_SUCH_NODE", open)
GetTableName(table, open) ==
  Lookup("TableName", table, "", seg_tab, SlotById(seg_tab, table), "NO_SUCH_TABLE", open)
GetTableId(name, open) ==
  Lookup("TableId", 0, name, seg_tab, SlotByName(seg_tab, name), "NO_SUCH_TABLE", open)
(* The descriptor found stands for the size, nodes and user it returns.   *)
GetTableDesc(table, open) ==
  Lookup("TableDesc", table, "", seg_tab, SlotById(seg_tab, table), "NO_SUCH_TABLE", open)

-----------------------------------------------------------------------------
(* The services forwarded to the committed transport.  Each tests         *)
(* libinitialized and calls the routines entry, or returns a value of its *)
(* own: 0 for XmemGetAllNodeIds, XmemWait and XmemPoll, the XmemError      *)
(* NOT_INITIALIZED for the others, XmemCheckTables' XmemTableId included.  *)
(* XmemGetAllTableIds reads seg_tab.Used without any test.  What a        *)
(* transport answers is outside this library and is recorded as 0.        *)

(* XmemErrorNOT_INITIALIZED: its place in the XmemError enum, as in estr.  *)
NOT_INITIALIZED == 2

Forwarded == {"GetAllNodeIds", "Wait", "Poll", "SendMessage", "CheckTables",
              "SendSoftWakeup"}
Services  == Forwarded \cup {"GetAllTableIds"}

OwnReturn(fn) ==
  IF fn \in {"GetAllNodeIds", "Wait", "Poll"} THEN 0 ELSE NOT_INITIALIZED

NoSrv == [fn |-> "none", to |-> NULL, ret |-> 0]

(* Mutant: the libinitialized test is missing.                            *)
Service_no_guard(fn) ==
  /\ srv' = IF fn = "GetAllTableIds"
            THEN [fn |-> fn, to |-> NULL, ret |-> seg_tab.used]
            ELSE [fn |-> fn, to |-> routines, ret |-> 0]
  /\ UNCHANGED << libinitialized, routines, libcallmask, libcallback, sub, last,
                  tried, node_tab, seg_tab, lk >>

(* A call of service fn.                                                   *)
Service(fn) ==
  /\ srv' = CASE fn = "GetAllTableIds" -> [fn |-> fn, to |-> NULL, ret |-> seg_tab.used]
              [] libinitialized         -> [fn |-> fn, to |-> routines, ret |-> 0]
              [] OTHER                  -> [fn |-> fn, to |-> NULL, ret |-> OwnReturn(fn)]
  /\ UNCHANGED << libinitialized, routines, libcallmask, libcallback, sub, last,
                  tried, node_tab, seg_tab, lk >>

Init ==
  /\ libinitialized = FALSE
  /\ routines = NULL
  /\ libcallmask = {}
  /\ libcallback = NULL
  /\ sub = NoSub
  /\ last = NoFailure
  /\ tried = [device |-> NULL, filesOk |-> FALSE, up |-> {}]
  /\ node_tab = EmptyTab
  /\ seg_tab = EmptyTab
  /\ lk = NoLookup
  /\ srv = NoSrv

Next ==
  \/ \E device \in Devices \cup {ANY}, nfile \in NodeFiles, sfile \in SegFiles,
       up \in SUBSET Devices : Initialize(device, nfile, sfile, up)
  \/ \E cb \in Callbacks, mask \in MaskInputs, ok \in BOOLEAN :
       (ok \/ TransportFaults) /\ RegisterCallback(cb, mask, ok)
  \/ \E err \in RaisedErrors : ErrorCallback(err)
  \/ \E err \in TransferErrors : TransferFails(err)
  \/ \E fn \in Services : Service(fn)
  \/ \E open \in BOOLEAN :
       \/ \E id \in IdInputs : GetNodeName(id, open) \/ GetTableName(id, open)
                                             \/ GetTableDesc(id, open)
       \/ \E name \in NameInputs : GetNodeId(name, open) \/ GetTableId(name, open)

Spec == Init /\ [][Next]_vars

-----------------------------------------------------------------------------
(* Properties                                                              *)

(* Spec 4.4: the candidates and their preference order, and spec 4.7: the *)
(* event class of each error kind.                                        *)
SpecCandidates(device) == IF device = ANY THEN Devices ELSE {device}
Rank(d) == CHOOSE i \in 1 .. Len(DeviceOrder) : DeviceOrder[i] = d
SpecClass(err) ==
  IF err \in {"TIMEOUT", "IO", "SYSTEM"} THEN err ELSE "SOFTWARE"

(* Backend fallback (spec 8.7): after an XmemInitialize that read its      *)
(* files and tried the transports, the library is initialised exactly     *)
(* when one of the candidates came up, and it has committed to the first   *)
(* of them in preference order.                                           *)
InitPicksFirstUp ==
  (tried.device # NULL /\ tried.filesOk) =>
    LET live == SpecCandidates(tried.device) \cap tried.up IN
    /\ libinitialized = (live # {})
    /\ libinitialized => /\ routines \in live
                         /\ \A d \in live : Rank(routines) <= Rank(d)

(* Broadcast (spec 7) of what the library hands to XmemErrorCallback: a   *)
(* failure whose class the subscription current at the time covers       *)
(* reaches the registered callback, after any sequence of registrations  *)
(* (masks ORed in, a zero mask clearing both, a transport refusing one   *)
(* and leaving the local pair alone) and lookups raising their errors.    *)
FailuresBroadcast ==
  LET s == last.sub IN
  (last.raised /\ last.err # "SUCCESS" /\ s.cb # NULL /\ SpecClass(last.err) \in s.mask)
    => last.cb = s.cb

(* Spec 7 read as a promise for every failure, the ones XmemSendTable and *)
(* XmemRecvTable detect themselves included.  Not in a run; see README.   *)
AllFailuresBroadcast ==
  LET s == last.sub IN
  (last.err # "SUCCESS" /\ s.cb # NULL /\ SpecClass(last.err) \in s.mask)
    => last.cb = s.cb

(* Callback filtering (spec 4.7, 8.8): the callback runs only for a class *)
(* the current subscription, the last accepted registration, asks for.    *)
CallbackFiltering ==
  last.cb # NULL => last.cb = last.sub.cb /\ SpecClass(last.err) \in last.sub.mask

(* Dispatch (spec 4.4, 8.7): a service call that reaches a transport    *)
(* reaches the one XmemInitialize committed to, a transport that came up *)
(* when it was tried.  The fallback loop installs every candidate's      *)
(* routines before trying it, so after a failed XmemInitialize routines   *)
(* names a transport that did not initialise: only the libinitialized     *)
(* test of each wrapper keeps calls away from it.                         *)
ServedByCommitted ==
  srv.to # NULL => /\ libinitialized
                   /\ srv.to = routines
                   /\ srv.to \in tried.up

(* XmemCheckTables on a library that is not initialised reports no table  *)
(* updated.  Not in a run; see README.                                    *)
CheckTablesNoPhantom ==
  (srv.fn = "CheckTables" /\ srv.to = NULL) => srv.ret = 0

(* Registry lookups (spec 4.5, 8.6).  After a successful XmemInitialize, *)
(* a lookup by id finds the descriptor the file lists with that id, and   *)
(* fails for an id listed by no record or with zero or several bits set;  *)
(* a lookup by name finds the descriptor listed with that name.  The      *)
(* lookups scan slot i only if bit i of Used is set, while Used is the OR *)
(* of the ids read: the two agree only when the i-th record has id 1 << i.*)
SingleBit(id) == \E k \in 0 .. Slots - 1 : id = 2^k
Loaded(tab) == {tab.desc[i] : i \in 0 .. tab.cnt - 1}
LookupsFindLoaded ==
  (lk.op # "none" /\ lk.init /\ lk.open) =>
    LET loaded == Loaded(IF lk.op \in {"NodeName", "NodeId"} THEN node_tab ELSE seg_tab)
        want   == IF lk.op \in {"NodeId", "TableId"}
                  THEN {d \in loaded : d.name = lk.name}
                  ELSE {d \in loaded : SingleBit(lk.id) /\ d.id = lk.id}
    IN  /\ lk.ok = (want # {})
        /\ lk.ok => lk.d \in want

=============================================================================
