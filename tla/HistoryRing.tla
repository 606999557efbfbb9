------------------------------ MODULE HistoryRing -----------------------------
(***************************************************************************)
(* The event history of the controller (History.cpp): a ring of records in  *)
(* an EEPROM, with a header that says where the next goes and how many      *)
(* there are, and a copy of the header in RAM.  A record takes two writes,  *)
(* between which the power may fail; the bus may fail at any of them.       *)
(* Events are numbered as they occur, 0 for a blank record.                 *)
(***************************************************************************)
EXTENDS Naturals, Sequences

CONSTANTS
  Size,      (* HIST_MAX_RECORDS                                             *)
  Listed,    (* maxRecords of getHistoryJson, 100 for all its callers        *)
  Last,      (* bound: the last event considered                             *)
  Failures   (* bound: failures of the bus                                   *)

ASSUME HistoryAssumption ==
  /\ Size \in Nat \ {0} /\ Listed \in Nat /\ Last \in Nat /\ Failures \in Nat
  /\ Listed + Failures <= Size

VARIABLES
  ring, header,       \* the EEPROM
  found, head, count, \* histEepromFound, histHead, histCount
  pc,                 \* "off", "format", "boot" (its record is due), "idle", "header"
  issued,             \* events so far
  failures,           \* failures of the bus so far
  clearFailed         \* history: a header that empties the ring was not written

ram == <<found, head, count>>
historyVars == <<ring, header, ram, pc, issued, failures, clearFailed>>

Slots == 0 .. Size - 1
Header == [valid: BOOLEAN, head: Slots, count: 0 .. Size]

HistoryTypeOK ==
  /\ ring \in [Slots -> 0 .. Last] /\ header \in Header
  /\ found \in BOOLEAN /\ head \in Slots /\ count \in 0 .. Size
  /\ pc \in {"off", "format", "boot", "idle", "header"}
  /\ issued \in 0 .. Last /\ failures \in 0 .. Failures
  /\ clearFailed \in BOOLEAN

-------------------------------------------------------------------------------
(* The bus *)

BusFails == failures < Failures /\ failures' = failures + 1

(* writeHeader, of what RAM holds now *)
WriteHeader ==
  \/ header' = [valid |-> TRUE, head |-> head', count |-> count'] /\ UNCHANGED failures
  \/ BusFails /\ UNCHANGED header

(* Head and count go back to 0, in RAM at least. *)
Empty ==
  /\ head' = 0 /\ count' = 0
  /\ \/ /\ header' = [valid |-> TRUE, head |-> 0, count |-> 0]
        /\ clearFailed' = FALSE /\ UNCHANGED failures
     \/ BusFails /\ clearFailed' = TRUE /\ UNCHANGED header

-------------------------------------------------------------------------------
(* initHistory *)

NoEeprom ==
  /\ BusFails /\ found' = FALSE /\ pc' = "idle"
  /\ UNCHANGED <<ring, header, head, count, issued, clearFailed>>

(* Fault: a boot starts at the first slot again. *)
LoadFault ==
  /\ header.valid /\ found' = TRUE /\ pc' = "boot"
  /\ head' = 0 /\ count' = header.count
  /\ UNCHANGED <<ring, header, issued, failures, clearFailed>>

Load ==
  /\ header.valid /\ found' = TRUE /\ pc' = "boot"
  /\ head' = header.head /\ count' = header.count
  /\ UNCHANGED <<ring, header, issued, failures, clearFailed>>

(* The header cannot be read, or is that of a fresh EEPROM. *)
NoHeader ==
  /\ found' = TRUE /\ pc' = "format"
  /\ \/ BusFails
     \/ ~header.valid /\ UNCHANGED failures
  /\ UNCHANGED <<ring, header, head, count, issued, clearFailed>>

DetectEeprom == pc = "off" /\ (NoEeprom \/ Load \/ NoHeader)

Format ==
  /\ pc = "format" /\ pc' = "boot"
  /\ Empty
  /\ UNCHANGED <<ring, found, issued>>

-------------------------------------------------------------------------------
(* addHistoryRecord *)

(* Fault: the number of records is not capped. *)
AddRecordFault ==
  /\ found /\ pc \in {"boot", "idle"} /\ issued < Last /\ issued' = issued + 1
  /\ ring' = [ring EXCEPT ![head] = issued']
  /\ head' = (head + 1) % Size /\ count' = count + 1
  /\ pc' = "header"
  /\ UNCHANGED <<header, found, failures, clearFailed>>

AddRecord ==
  /\ found /\ pc \in {"boot", "idle"} /\ issued < Last /\ issued' = issued + 1
  /\ \/ /\ ring' = [ring EXCEPT ![head] = issued']
        /\ head' = (head + 1) % Size
        /\ count' = IF count < Size THEN count + 1 ELSE count
        /\ pc' = "header" /\ UNCHANGED failures
     \/ BusFails /\ pc' = "idle" /\ UNCHANGED <<ring, head, count>>
  /\ UNCHANGED <<header, found, clearFailed>>

(* ... and its writeHeader *)
EndRecord ==
  /\ pc = "header" /\ pc' = "idle" /\ UNCHANGED ram
  /\ WriteHeader
  /\ UNCHANGED <<ring, issued, clearFailed>>

(* Fault: only the copy in RAM is cleared. *)
ClearHistoryFault ==
  /\ found /\ pc = "idle"
  /\ head' = 0 /\ count' = 0
  /\ UNCHANGED <<ring, header, found, pc, issued, failures, clearFailed>>

ClearHistory ==
  /\ found /\ pc = "idle"
  /\ Empty
  /\ UNCHANGED <<ring, found, pc, issued>>

CutPower ==
  /\ pc # "off" /\ pc' = "off"
  /\ found' = FALSE /\ head' = 0 /\ count' = 0
  /\ UNCHANGED <<ring, header, issued, failures, clearFailed>>

HistoryInit ==
  /\ ring = [s \in Slots |-> 0]
  /\ header = [valid |-> FALSE, head |-> 0, count |-> 0]
  /\ found = FALSE /\ head = 0 /\ count = 0
  /\ pc = "off" /\ issued = 0 /\ failures = 0 /\ clearFailed = FALSE

HistoryNext == DetectEeprom \/ Format \/ AddRecord \/ EndRecord \/ ClearHistory \/ CutPower
HistorySpec == HistoryInit /\ [][HistoryNext]_historyVars
-------------------------------------------------------------------------------
(* Properties *)

(* The i-th slot behind slot h. *)
Behind(h, i) == (h + Size - i) % Size

(* The n newest records of ring r behind slot h, newest first.              *)
Newest(r, h, n) == [i \in 1 .. n |-> r[Behind(h, i)]]
Decreasing(s) == \A i, j \in DOMAIN s : i < j => s[i] > s[j]

(* getHistoryJson *)
Listing == Newest(ring, head, IF count < Listed THEN count ELSE Listed)

(* "returns newest-first JSON": whatever cuts and failures there were, as   *)
(* long as no clearing was lost.  A cut between the two writes leaves a     *)
(* record newer than all others in the place of the oldest, and so does     *)
(* every header lost before it: Listed has to stop short of them.           *)
NewestFirst == pc = "idle" /\ ~clearFailed => Decreasing(Listing)

(* How many of the c records behind h are in order, up to those that were   *)
(* overwritten after the header.                                            *)
Intact(r, h, c) ==
  CHOOSE n \in 0 .. c :
    /\ Decreasing(Newest(r, h, n))
    /\ n < c => ~Decreasing(Newest(r, h, n + 1))

(* The log is what the next boot would find, oldest first: the intact       *)
(* records of those the header counts.                                      *)
Kept(r, h, c) ==
  [i \in 1 .. Intact(r, h, c) |-> r[Behind(h, Intact(r, h, c) + 1 - i)]]
Trust == IF clearFailed THEN "void" ELSE IF failures > 0 THEN "lossy" ELSE "sound"
Log == INSTANCE EventLog WITH
         log <- Kept(ring, header.head, header.count), Events <- 1 .. Last, trust <- Trust

(* The ring implements the log, over cuts between its two writes as well.   *)
LogSpec == Log!LogSpec
===============================================================================
