---------------------------- MODULE TagInventory ----------------------------
(***************************************************************************)
(* RFID/ber_test/src/main.c: a host that inventories tags with a reader of   *)
(* several antennas over a serial line, and prints what changed.  Round by    *)
(* round it selects each antenna, waits for an answer, asks for an inventory, *)
(* and reads frames until one is not a tag or the line is silent for 800 ms;  *)
(* then it sweeps out the tags this round did not refresh.                   *)
(*                                                                         *)
(* line holds the frames the reader was asked for, oldest first, whether they  *)
(* have come or not: it answers commands in the order it gets them, and what    *)
(* its antennas read is chosen when it is asked.  rInfo[s].index, the second of *)
(* the round that refreshed a slot, is compared with 0 and with the second of   *)
(* this round only, and rounds are seconds apart: three values stand for it.  *)
(***************************************************************************)
EXTENDS HashTable, Sequences

CONSTANTS
  LastAnt,   \* the antennas are 0..LastAnt
  Answers,   \* what an inventory may read: a set of sequences of tags
  WideLong,  \* BOOLEAN: unsigned long is wider than unsigned int
  MaxLine    \* bound on the frames that wait to be read

Ant == 0..LastAnt

ASSUME AntAssumption == LastAnt \in Nat
ASSUME AnswersAssumption == Answers \subseteq Seq(Id)

VARIABLES
  host,      \* GetEpc: pc, antenna, slot of the sweep
  line,      \* the reader's frames that are still to be read
  index,     \* rInfo[s].index: 0, this round's second or an earlier one
  rInfo,     \* rInfo[s].epc and rInfo[s].ant_num
  RfidHash,  \* the tag in each slot
  epc,       \* the linked list of changes, its head first
  shown,     \* the tags whose last printed change is "new add"
  seen,      \* what EpcProcess was given this round: pairs of tag and antenna
  behind     \* an answer was late, or a tag's frame was of another length

tables == <<index, rInfo, RfidHash>>
vars == <<host, line, tables, epc, shown, seen, behind>>

\* A frame of length 0x13, the tag it reports and the antenna that read it; all
\* others are alike to EchoProcess and EpcProcess.
TagOn(k, a) == [kind |-> "tag", id |-> k, ant |-> a]
Other == [kind |-> "other", id |-> NoId, ant |-> 0]

Change(k, a, new) == [id |-> k, ant |-> a, new |-> new]

Init ==
  /\ host = [pc |-> "sleep", ant |-> 0, slot |-> 0]
  /\ line = <<>>
  /\ index = [s \in Slot |-> "none"]
  /\ rInfo = [s \in Slot |-> [epc |-> NoId, ant |-> 0]]
  /\ RfidHash = EmptyTable
  /\ epc = <<>>
  /\ shown = {}
  /\ seen = {}
  /\ behind = FALSE

-----------------------------------------------------------------------------
(* The reader                                                              *)

\* It answers set_work_ant with one frame, and real_time_inventory on antenna a
\* with a frame for each tag and one more.  A tag whose EPC has another length,
\* here the first one read, has a frame of another length.
Inventories(a) ==
  LET read == {[i \in DOMAIN tags |-> TagOn(tags[i], a)] \o <<Other>> : tags \in Answers}
  IN  read \cup {<<Other>> \o frames : frames \in read}

Foreign(frames) == Len(frames) > 1 /\ frames[1] = Other

\* A frame is lost or cut on the line.
LoseFrame ==
  /\ line # <<>>
  /\ line' = Tail(line)
  /\ UNCHANGED <<host, tables, epc, shown, seen, behind>>

-----------------------------------------------------------------------------
(* The host: GetEpc                                                        *)

\* main's loop: a new list, the second of the round, the first antenna.
StartRound ==
  /\ host.pc = "sleep"
  /\ host' = [host EXCEPT !.pc = "echo", !.ant = 0]
  /\ line' = Append(line, Other)
  /\ index' = [s \in Slot |-> IF index[s] = "now" THEN "before" ELSE index[s]]
  /\ epc' = <<>>
  /\ seen' = {}
  /\ UNCHANGED <<rInfo, RfidHash, shown, behind>>

\* ReadDevice hears nothing for 800 ms, select returns 0: what the reader was
\* asked for is lost, or late from now on.
Silence == behind' = (behind \/ line # <<>>)

\* EchoProcess takes any frame for the answer to set_work_ant.
EchoEnds ==
  /\ host.pc = "echo"
  /\ host' = [host EXCEPT !.pc = "epc"]
  /\ \E frames \in Inventories(host.ant) :
       /\ \/ line # <<>> /\ line' = Tail(line) \o frames /\ behind' = (behind \/ Foreign(frames))
          \/ line' = line \o frames /\ behind' = (behind \/ line # <<>> \/ Foreign(frames))
       /\ Len(line') <= MaxLine
  /\ UNCHANGED <<tables, epc, shown, seen>>

TagFrame == host.pc = "epc" /\ line # <<>> /\ Head(line).kind = "tag"

GotTag(k) ==
  /\ TagFrame /\ Head(line).id = k
  /\ line' = Tail(line)
  /\ seen' = seen \cup {<<k, host.ant>>}
  /\ UNCHANGED <<host, shown, behind>>

\* Mutant: the second is not stored for a new tag.
NewTagUnstamped(k) ==
  /\ GotTag(k)
  /\ Search(RfidHash, k) = 0
  /\ LET s == InsertSlot(RfidHash, k)
     IN  /\ RfidHash' = Inserted(RfidHash, k)
         /\ rInfo' = [rInfo EXCEPT ![s] = [epc |-> k, ant |-> host.ant]]
  /\ epc' = <<Change(k, host.ant, TRUE)>> \o epc
  /\ UNCHANGED index

NewTag(k) ==
  /\ GotTag(k)
  /\ Search(RfidHash, k) = 0
  /\ LET s == InsertSlot(RfidHash, k)
     IN  /\ RfidHash' = Inserted(RfidHash, k)
         /\ rInfo' = [rInfo EXCEPT ![s] = [epc |-> k, ant |-> host.ant]]
         /\ index' = [index EXCEPT ![s] = "now"]
  /\ epc' = <<Change(k, host.ant, TRUE)>> \o epc

\* Mutant: the slot's second is not stored again.
SameAntennaForgotten(k) ==
  /\ GotTag(k)
  /\ Search(RfidHash, k) # 0 /\ rInfo[Search(RfidHash, k)].ant = host.ant
  /\ UNCHANGED <<rInfo, RfidHash, epc, index>>

SameAntenna(k) ==
  /\ GotTag(k)
  /\ Search(RfidHash, k) # 0 /\ rInfo[Search(RfidHash, k)].ant = host.ant
  /\ index' = [index EXCEPT ![Search(RfidHash, k)] = "now"]
  /\ UNCHANGED <<rInfo, RfidHash, epc>>

OtherAntenna(k) ==
  /\ GotTag(k)
  /\ Search(RfidHash, k) # 0 /\ rInfo[Search(RfidHash, k)].ant # host.ant
  /\ UNCHANGED <<tables, epc>>

\* The next antenna is selected; after the last one the sweep begins.
NextAntenna(rest) ==
  IF host.ant = LastAnt
    THEN host' = [host EXCEPT !.pc = "sweep"] /\ line' = rest
    ELSE /\ host' = [host EXCEPT !.pc = "echo", !.ant = @ + 1]
         /\ line' = Append(rest, Other)

\* Mutant: an inventory ends with its first frame.
InventoryEndsEarly ==
  /\ host.pc = "epc"
  /\ \/ line # <<>> /\ NextAntenna(Tail(line)) /\ UNCHANGED behind
     \/ NextAntenna(line) /\ Silence
  /\ UNCHANGED <<tables, epc, shown, seen>>

\* A frame that is not a tag's, or silence, ends the inventory of this antenna.
InventoryEnds ==
  /\ host.pc = "epc"
  /\ \/ line # <<>> /\ ~TagFrame /\ NextAntenna(Tail(line)) /\ UNCHANGED behind
     \/ NextAntenna(line) /\ Silence
  /\ UNCHANGED <<tables, epc, shown, seen>>

\* DelHashTablePos keeps the hashes in unsigned int: what it looks for is in no
\* slot where an unsigned long is wider.
DelHashTablePos(k) == IF WideLong THEN RfidHash ELSE Deleted(RfidHash, k)

AfterSlot ==
  host' = IF host.slot + 1 \in Slot THEN [host EXCEPT !.slot = @ + 1]
                                    ELSE [host EXCEPT !.pc = "print", !.slot = 0]

\* Mutant: the tag stays in the table.
SweepOutKeeps ==
  /\ host.pc = "sweep" /\ index[host.slot] = "before"
  /\ epc' = <<Change(rInfo[host.slot].epc, rInfo[host.slot].ant, FALSE)>> \o epc
  /\ index' = [index EXCEPT ![host.slot] = "none"]
  /\ AfterSlot
  /\ UNCHANGED <<line, rInfo, RfidHash, shown, seen, behind>>

SweepOut ==
  /\ host.pc = "sweep" /\ index[host.slot] = "before"
  /\ epc' = <<Change(rInfo[host.slot].epc, rInfo[host.slot].ant, FALSE)>> \o epc
  /\ RfidHash' = DelHashTablePos(rInfo[host.slot].epc)
  /\ index' = [index EXCEPT ![host.slot] = "none"]
  /\ AfterSlot
  /\ UNCHANGED <<line, rInfo, shown, seen, behind>>

SweepPast ==
  /\ host.pc = "sweep" /\ index[host.slot] # "before"
  /\ AfterSlot
  /\ UNCHANGED <<line, tables, epc, shown, seen, behind>>

\* The changes are printed from the head of the list on.  main goes along with epc itself,
\* so that FreeRS frees only the last node: the others are never freed, and the next
\* round's malloc gives that one back, whose next is NULL still (278, 288, 295).
LastChange(k) ==
  CHOOSE i \in DOMAIN epc : epc[i].id = k /\ \A j \in i+1..Len(epc) : epc[j].id # k

PrintChanges ==
  /\ host.pc = "print"
  /\ shown' = {k \in Id : IF \E i \in DOMAIN epc : epc[i].id = k
                            THEN epc[LastChange(k)].new ELSE k \in shown}
  /\ epc' = <<>>
  /\ host' = [host EXCEPT !.pc = "sleep"]
  /\ UNCHANGED <<line, tables, seen, behind>>

Next ==
  \/ LoseFrame
  \/ StartRound \/ EchoEnds \/ InventoryEnds
  \/ \E k \in Id : NewTag(k) \/ SameAntenna(k) \/ OtherAntenna(k)
  \/ SweepOut \/ SweepPast \/ PrintChanges

Spec == Init /\ [][Next]_vars

-----------------------------------------------------------------------------
TypeOK ==
  /\ host \in [pc : {"sleep", "echo", "epc", "sweep", "print"}, ant : Ant, slot : Slot]
  /\ \A i \in DOMAIN line : line[i].ant \in Ant
  /\ index \in [Slot -> {"none", "now", "before"}]
  /\ rInfo \in [Slot -> [epc : Id \cup {NoId}, ant : Ant]]
  /\ RfidHash \in Table
  /\ shown \subseteq Id
  /\ seen \subseteq Id \X Ant
  /\ behind \in BOOLEAN

\* A printed record is a change (main.c:21): "new add" for a tag that is not
\* shown, "delete" for one that is.
ReportsAlternate ==
  \A i \in DOMAIN epc : epc[i].new <=> epc[i].id \notin shown

\* Between rounds the tags shown are those rInfo holds: what the output says is
\* there is there (main.c:21, 190, 240).
ShownIsCurrent ==
  host.pc = "sleep" => shown = {rInfo[s].epc : s \in {s \in Slot : index[s] # "none"}}

\* A tag that is reported deleted was not read this round by the antenna it is
\* reported for (main.c:207-208, 240).
DeletedIsGone ==
  \A i \in DOMAIN epc : ~epc[i].new => <<epc[i].id, epc[i].ant>> \notin seen

\* Between rounds rInfo and RfidHash hold the same tags in the same slots, and
\* every one is found (main.c:190-205, 248-249).
TablesAgree ==
  host.pc = "sleep" =>
    /\ AllFound(RfidHash)
    /\ \A s \in Slot : RfidHash[s] = IF index[s] = "none" THEN NoId ELSE rInfo[s].epc

\* The antenna a tag is stored with is the one that read it (main.c:198, 233),
\* though frames are lost, as long as no answer came late or was cut off by a
\* tag of another length: from then on nothing brings the host and the reader
\* into step again (main.c:88-89, 172).
TagOfItsAntenna == TagFrame /\ ~behind => Head(line).ant = host.ant
=============================================================================
