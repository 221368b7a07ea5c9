------------------------------- MODULE XmemShm -------------------------------
(***************************************************************************)
(* Shared-attachment cache of libxmem.c: XmemGetSharedMemory(tid) run by   *)
(* several processes of one host for one table.  The System V segment of   *)
(* the table's key is shared by the processes; attach_address[] is each    *)
(* process's own.  Each system call (shmget, shmget IPC_CREAT, shmat) and  *)
(* the XmemRecvTable that loads a created segment is one step; the steps  *)
(* of different processes interleave.  The registry lookups the function  *)
(* makes (XmemGetTableName, XmemGetTableDesc) find the table.             *)
(*                                                                         *)
(* XmemReadTableFile and XmemWriteTableFile on the table's bit call        *)
(* XmemGetSharedMemory the same way, then copy the segment from or to the  *)
(* table's file with fopen, fread / fwrite and fclose.  The file is shared *)
(* by the processes and outlives them.                                     *)
(***************************************************************************)
EXTENDS Naturals

CONSTANTS
  Procs,        \* processes calling XmemGetSharedMemory for the table
  Initialized,  \* the processes whose XmemInitialize succeeded
  SysFaults,    \* TRUE: shmget (other than ENOENT) and shmat may fail
  LoadFaults,   \* TRUE: the XmemRecvTable that loads the segment may fail
  MaxCalls,     \* bound on the calls each process makes
  FileOps,      \* the table file routines the processes call: "read", "write"
  FileFaults    \* TRUE: fopen, fread and fwrite may fail; fwrite may write part

ASSUME Initialized \subseteq Procs /\ MaxCalls \in Nat \ {0}
       /\ SysFaults \in BOOLEAN /\ LoadFaults \in BOOLEAN

NULL == "NULL"

VARIABLES
  seg,             \* the key's segment: "none", or its contents
                   \* "zero" (as shmget creates it) or "loaded"
  attach_address,  \* each process's cached attachment: NULL or "table"
  pc,              \* where each process is in its current call
  ret,             \* what each process's last call returned
  calls,           \* calls each process has made (bounded)
  attached,        \* history: successful shmat calls of each process
  via,             \* who called XmemGetSharedMemory: "user", "read", "write"
  disk,            \* the table's file: its length and the image it holds
  fret             \* each process's last table file routine: its result

vars == << seg, attach_address, pc, ret, calls, attached, via, disk, fret >>

(* A file is missing, "empty" (truncated by fopen "w"), "short" (a failed *)
(* fwrite wrote part of the image) or "whole"; img is the segment image   *)
(* fwrite copied.                                                         *)
NoFile == [len |-> "none", img |-> "none"]
NoFret == [op |-> "none", ok |-> FALSE, file |-> NoFile]

(* A table file routine returns: SUCCESS or its error, and the file it    *)
(* worked on.                                                             *)
FileDone(p, op, ok) ==
  /\ pc' = [pc EXCEPT ![p] = "idle"]
  /\ fret' = [fret EXCEPT ![p] = [op |-> op, ok |-> ok, file |-> disk]]

(* goto error: XmemErrorCallback(XmemErrorSYSTEM, errno); return NULL.    *)
(* A table file routine then returns NO_SUCH_TABLE.                       *)
Fail(p, who) ==
  \/ /\ who = "user"
     /\ pc' = [pc EXCEPT ![p] = "idle"]
     /\ ret' = [ret EXCEPT ![p] = [addr |-> NULL, loaded |-> FALSE]]
     /\ UNCHANGED << disk, fret >>
  \/ /\ who # "user"
     /\ FileDone(p, who, FALSE)
     /\ UNCHANGED << ret, disk >>

(* return table, noting whether the segment holds the table's data then   *)
(* (s); a table file routine goes on to its file.                         *)
Return(p, who, s) ==
  /\ \/ /\ who = "user"
        /\ pc' = [pc EXCEPT ![p] = "idle"]
        /\ ret' = [ret EXCEPT ![p] = [addr |-> "table", loaded |-> s = "loaded"]]
     \/ /\ who # "user"
        /\ pc' = [pc EXCEPT ![p] = IF who = "read" THEN "rtf_open" ELSE "wtf_open"]
        /\ UNCHANGED ret
  /\ UNCHANGED << disk, fret >>

(* A step inside XmemGetSharedMemory that neither returns nor fails.      *)
GoTo(p, l) ==
  /\ pc' = [pc EXCEPT ![p] = l]
  /\ UNCHANGED << ret, disk, fret >>

(* Mutant: the attach_address[] lookup is skipped.                         *)
Entry_no_cache(p, who) ==
  \/ /\ p \notin Initialized
     /\ Fail(p, who)
  \/ /\ p \in Initialized
     /\ GoTo(p, "shmget")

(* Entry of XmemGetSharedMemory: the libinitialized guard, then the       *)
(* attach_address[] lookup of the table's bit: a cached attachment is     *)
(* returned as it is.                                                     *)
Entry(p, who) ==
  \/ /\ p \notin Initialized
     /\ Fail(p, who)
  \/ /\ p \in Initialized
     /\ attach_address[p] # NULL
     /\ Return(p, who, seg)
  \/ /\ p \in Initialized
     /\ attach_address[p] = NULL
     /\ GoTo(p, "shmget")

(* A caller's XmemGetSharedMemory(tid).                                   *)
Call(p) ==
  /\ pc[p] = "idle"
  /\ calls[p] < MaxCalls
  /\ calls' = [calls EXCEPT ![p] = @ + 1]
  /\ via' = [via EXCEPT ![p] = "user"]
  /\ Entry(p, "user")
  /\ UNCHANGED << seg, attach_address, attached >>

(* smemid = shmget(smemky, bytes, 0666): an existing segment leads to the *)
(* "already there" branch, ENOENT to creation, any other errno to error. *)
Shmget(p) ==
  /\ pc[p] = "shmget"
  /\ \/ seg # "none" /\ GoTo(p, "attach_old")
     \/ seg = "none" /\ GoTo(p, "create")
     \/ SysFaults /\ Fail(p, via[p])
  /\ UNCHANGED << seg, attach_address, calls, attached, via >>

(* shmget(smemky, bytes, IPC_CREAT | 0666): creates a zero-filled segment *)
(* or, if another process created it meanwhile, returns that one.         *)
Create(p) ==
  /\ pc[p] = "create"
  /\ \/ /\ seg' = IF seg = "none" THEN "zero" ELSE seg
        /\ GoTo(p, "attach_new")
     \/ SysFaults /\ Fail(p, via[p]) /\ UNCHANGED seg
  /\ UNCHANGED << attach_address, calls, attached, via >>

(* Mutant: the created segment is returned without being loaded.          *)
Attach_return_early(p) ==
  /\ pc[p] \in {"attach_new", "attach_old"}
  /\ \/ /\ attach_address' = [attach_address EXCEPT ![p] = "table"]
        /\ attached' = [attached EXCEPT ![p] = @ + 1]
        /\ Return(p, via[p], seg)
     \/ SysFaults /\ Fail(p, via[p]) /\ UNCHANGED << attach_address, attached >>
  /\ UNCHANGED << seg, calls, via >>

(* shmat, then attach_address[tnum] = table.  On the creating branch the  *)
(* table is then loaded; on the "already there" branch it is returned.    *)
Attach(p) ==
  /\ pc[p] \in {"attach_new", "attach_old"}
  /\ \/ /\ attach_address' = [attach_address EXCEPT ![p] = "table"]
        /\ attached' = [attached EXCEPT ![p] = @ + 1]
        /\ IF pc[p] = "attach_new" THEN GoTo(p, "load") ELSE Return(p, via[p], seg)
     \/ SysFaults /\ Fail(p, via[p]) /\ UNCHANGED << attach_address, attached >>
  /\ UNCHANGED << seg, calls, via >>

(* err = XmemRecvTable(tid, table, elems, 0): the table's contents are    *)
(* copied into the segment; a failure goes to error with the attachment   *)
(* left in attach_address[].                                              *)
Load(p) ==
  /\ pc[p] = "load"
  /\ \/ seg' = "loaded" /\ Return(p, via[p], "loaded")
     \/ LoadFaults /\ Fail(p, via[p]) /\ UNCHANGED seg
  /\ UNCHANGED << attach_address, calls, attached, via >>

-----------------------------------------------------------------------------
(* XmemReadTableFile(tid) / XmemWriteTableFile(tid) for the table's bit:  *)
(* XmemGetTableName and XmemGetTableDesc (NOT_INITIALIZED in a process    *)
(* whose library is not open), then XmemGetSharedMemory, whose NULL gives *)
(* NO_SUCH_TABLE.                                                         *)
FileCall(p, op) ==
  /\ pc[p] = "idle"
  /\ calls[p] < MaxCalls
  /\ calls' = [calls EXCEPT ![p] = @ + 1]
  /\ via' = [via EXCEPT ![p] = op]
  /\ Entry(p, op)
  /\ UNCHANGED << seg, attach_address, attached >>

(* A failed fopen, fread or fwrite: XmemErrorCallback(XmemErrorSYSTEM).   *)
FileFails(p, op) == FileDone(p, op, FALSE) /\ UNCHANGED << ret, disk >>

(* fp = fopen(XmemGetFile(tbnam), "r").                                    *)
RtfOpen(p) ==
  /\ pc[p] = "rtf_open"
  /\ \/ disk.len # "none" /\ GoTo(p, "rtf_read")
     \/ (disk.len = "none" \/ FileFaults) /\ FileFails(p, "read")
  /\ UNCHANGED << seg, attach_address, calls, attached, via >>

(* cnt = fread(table, bytes, 1, fp); fclose(fp): one whole item is the    *)
(* file's image copied into the segment; a short file copies the part it  *)
(* has and gives cnt 0, an empty one copies nothing; both, and a read     *)
(* error, return SYSTEM.                                                  *)
RtfRead(p) ==
  /\ pc[p] = "rtf_read"
  /\ \/ disk.len = "whole" /\ seg' = disk.img /\ FileDone(p, "read", TRUE)
     \/ disk.len = "short" /\ seg' = "torn" /\ FileFails(p, "read")
     \/ disk.len = "empty" /\ UNCHANGED seg /\ FileFails(p, "read")
     \/ FileFaults /\ UNCHANGED seg /\ FileFails(p, "read")
  /\ UNCHANGED << ret, disk, attach_address, calls, attached, via >>

(* fp = fopen(XmemGetFile(tbnam), "w"): the file is created or truncated. *)
WtfOpen(p) ==
  /\ pc[p] = "wtf_open"
  /\ \/ /\ disk' = [len |-> "empty", img |-> "none"]
        /\ pc' = [pc EXCEPT ![p] = "wtf_write"]
        /\ UNCHANGED << ret, fret >>
     \/ FileFaults /\ FileFails(p, "write")
  /\ UNCHANGED << seg, attach_address, calls, attached, via >>

(* cnt = fwrite(table, bytes, 1, fp); fclose(fp): the segment's image, or *)
(* on failure nothing or a part of it, and SYSTEM.                        *)
WtfWrite(p) ==
  /\ pc[p] = "wtf_write"
  /\ \/ disk' = [len |-> "whole", img |-> seg] /\ FileDone(p, "write", TRUE)
     \/ /\ FileFaults
        /\ disk' \in {[len |-> "empty", img |-> "none"], [len |-> "short", img |-> seg]}
        /\ FileDone(p, "write", FALSE)
  /\ UNCHANGED << ret, seg, attach_address, calls, attached, via >>

Init ==
  /\ seg = "none"
  /\ attach_address = [p \in Procs |-> NULL]
  /\ pc = [p \in Procs |-> "idle"]
  /\ ret = [p \in Procs |-> [addr |-> NULL, loaded |-> FALSE]]
  /\ calls = [p \in Procs |-> 0]
  /\ attached = [p \in Procs |-> 0]
  /\ via = [p \in Procs |-> "user"]
  /\ disk = NoFile
  /\ fret = [p \in Procs |-> NoFret]

(* Every process has made all its calls.                                  *)
Done == \A p \in Procs : pc[p] = "idle" /\ calls[p] = MaxCalls

Next ==
  \/ \E p \in Procs : Call(p) \/ Shmget(p) \/ Create(p) \/ Attach(p) \/ Load(p)
  \/ \E p \in Procs, op \in FileOps : FileCall(p, op)
  \/ \E p \in Procs : RtfOpen(p) \/ RtfRead(p) \/ WtfOpen(p) \/ WtfWrite(p)
  \/ Done /\ UNCHANGED vars

Spec == Init /\ [][Next]_vars

-----------------------------------------------------------------------------

(* Repeated XmemGetSharedMemory calls of one process, including calls    *)
(* after a failed shmat or a failed first load and calls racing another   *)
(* process's creation of the segment, attach the segment at most once:    *)
(* the attach_address[] cache is set by every successful shmat.           *)
NoAttachLeak == \A p \in Procs : attached[p] <= 1

(* A table XmemGetSharedMemory hands to a caller holds the table's data:  *)
(* the segment was loaded by some process's XmemRecvTable before the      *)
(* pointer was returned, whether the caller created the segment, found it *)
(* already there, or got it from its attach_address[] cache.             *)
ServedLoaded ==
  \A p \in Procs : ret[p].addr # NULL => ret[p].loaded

(* A failed XmemReadTableFile leaves the shared segment as it was: no     *)
(* process is handed a table part file, part earlier contents.  Not in a  *)
(* run; see README.                                                       *)
NoTornSegment == seg # "torn"

=============================================================================
