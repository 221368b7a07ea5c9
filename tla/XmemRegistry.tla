------------------------------ MODULE XmemRegistry ------------------------------
(***************************************************************************)
(* Node and segment descriptor tables of libxmem.c: the loop of            *)
(* XmemReadNodeTableFile / XmemReadSegTableFile that fills them from a     *)
(* descriptor file, and the scans of the lookups (XmemGetNodeName,         *)
(* XmemGetNodeId, XmemGetTableName, XmemGetTableId, XmemGetTableDesc).     *)
(* The text of a file is abstracted to its lines: a record the fscanf      *)
(* format matches, a blank line, a comment, or anything else.              *)
(***************************************************************************)
EXTENDS Naturals, Sequences, Bitwise

CONSTANT Slots   \* XmemDrvrNODES = XmemDrvrSEGMENTS = XmemMAX_NODES
                 \* = XmemMAX_TABLES: descriptors per table and bits per id

ASSUME Slots \in Nat \ {0}

Rec(name, id) == [kind |-> "rec", name |-> name, id |-> id]
Blank   == [kind |-> "blank", name |-> "", id |-> 0]
Comment == [kind |-> "comment", name |-> "", id |-> 0]
Bad     == [kind |-> "bad", name |-> "", id |-> 0]

(* A descriptor as bzero leaves it, and a table as XmemInitialize's bzero  *)
(* leaves it.                                                              *)
NoDesc   == [name |-> "", id |-> 0]
EmptyTab == [desc |-> [i \in 0 .. Slots - 1 |-> NoDesc], used |-> 0, cnt |-> 0]

(* The for (i = 0; i < Slots;) loop: a record goes to Descriptors[i] and   *)
(* its Id is ORed into Used; blank and comment lines are skipped; any      *)
(* other line is a syntax error (out_err); end of file, or Slots records   *)
(* read, ends the loop with success and the rest of the file unread.      *)
RECURSIVE ReadLines(_, _)
ReadLines(lines, tab) ==
  CASE lines = << >> \/ tab.cnt = Slots -> [tab |-> tab, ok |-> TRUE]
    [] Head(lines).kind = "rec" ->
         ReadLines(Tail(lines),
                   [desc |-> [tab.desc EXCEPT ![tab.cnt] =
                                [name |-> Head(lines).name, id |-> Head(lines).id]],
                    used |-> tab.used | Head(lines).id,
                    cnt  |-> tab.cnt + 1])
    [] Head(lines).kind \in {"blank", "comment"} -> ReadLines(Tail(lines), tab)
    [] OTHER -> [tab |-> tab, ok |-> FALSE]

(* XmemReadNodeTableFile / XmemReadSegTableFile on a table XmemInitialize  *)
(* has cleared: fopen failing returns the READ error, a bad line the       *)
(* SYNTAX error, with the records before it left in the table.             *)
ReadTableFile(file) ==
  IF ~ file.exists THEN [tab |-> EmptyTab, err |-> "READ"]
  ELSE LET r == ReadLines(file.lines, EmptyTab)
       IN  [tab |-> r.tab, err |-> IF r.ok THEN "SUCCESS" ELSE "SYNTAX"]

(* Used & msk with msk = 1 << i: the lookups' test that slot i is in use.  *)
InUse(tab, i) == (tab.used & 2^i) # 0

(* The lookups' loop over i: the first of the slots in use that match,   *)
(* or NoSlot, the i the loop ends with, when none does.                    *)
NoSlot == Slots
FirstSlot(hits) ==
  IF hits = {} THEN NoSlot ELSE CHOOSE i \in hits : \A j \in hits : i <= j

(* node == Descriptors[i].Id (XmemGetNodeName, XmemGetTableName,           *)
(* XmemGetTableDesc) and strcmp(name, Descriptors[i].Name) == 0            *)
(* (XmemGetNodeId, XmemGetTableId), each with Used & msk.                  *)
SlotById(tab, id) ==
  FirstSlot({i \in 0 .. Slots - 1 : InUse(tab, i) /\ tab.desc[i].id = id})
SlotByName(tab, name) ==
  FirstSlot({i \in 0 .. Slots - 1 : InUse(tab, i) /\ tab.desc[i].name = name})

=============================================================================
