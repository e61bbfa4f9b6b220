-------------------------- MODULE TagInventoryProofs --------------------------
(***************************************************************************)
(* Theorems about the inventory for any number of antennas, tags and slots,  *)
(* any answers, any hash and a line of any length.  What is said of the tables *)
(* is said of every behaviour up to the first step that takes away what the   *)
(* code needs of its table: see Sound.                                       *)
(***************************************************************************)
EXTENDS TagInventory, HashTableProofs, SequenceTheorems, TLAPS

Frame == [kind : {"tag", "other"}, id : Id \cup {NoId}, ant : Ant]
Record == [id : Id, ant : Ant, new : BOOLEAN]

LEMMA AntennaZero == 0 \in Ant /\ LastAnt \in Ant
BY AntAssumption DEF Ant

LEMMA FramesTyped ==
  Other \in Frame /\ \A k \in Id, a \in Ant : TagOn(k, a) \in Frame
BY AntennaZero DEF Frame, Other, TagOn

-----------------------------------------------------------------------------
(* The line                                                                *)

LineType ==
  /\ host \in [pc : {"sleep", "echo", "epc", "sweep", "print"}, ant : Ant, slot : Slot]
  /\ line \in Seq(Frame)
  /\ behind \in BOOLEAN

\* The rest of an inventory of antenna a: its tags and the frame that ends it.
RestOf(a, frames) ==
  \A i \in DOMAIN frames :
    IF i = Len(frames) THEN frames[i].kind = "other"
                       ELSE frames[i].kind = "tag" /\ frames[i].ant = a

\* As long as no answer was late, the line holds what the host waits for, or
\* the end of it, and nothing once the host waits for nothing.
InStep ==
  ~behind =>
    CASE host.pc = "echo" -> line \in {<<>>, <<Other>>}
      [] host.pc = "epc"  -> RestOf(host.ant, line)
      [] OTHER            -> line = <<>>

LineInv == LineType /\ InStep

\* An inventory with no foreign frame is a run of tags and the frame that ends it.
LEMMA InventoryFrames ==
  ASSUME NEW a \in Ant, NEW frames, frames \in Inventories(a)
  PROVE  frames \in Seq(Frame) /\ (~Foreign(frames) => RestOf(a, frames))
<1> DEFINE Reads(tags) == [i \in DOMAIN tags |-> TagOn(tags[i], a)] \o <<Other>>
<1>1. PICK tags \in Answers : frames = Reads(tags) \/ frames = <<Other>> \o Reads(tags)
  <2>1. frames \in {Reads(tags) : tags \in Answers}
          \cup {<<Other>> \o r : r \in {Reads(tags) : tags \in Answers}}
    BY DEF Inventories
  <2> HIDE DEF Reads
  <2> QED
    BY <2>1
<1> DEFINE tagged == [i \in DOMAIN tags |-> TagOn(tags[i], a)]
<1>2. tagged \in Seq(Frame) /\ \A i \in 1..Len(tagged) : tagged[i].kind = "tag" /\ tagged[i].ant = a
  <2>1. tags \in Seq(Id)
    BY AnswersAssumption
  <2> QED
    BY <2>1, FramesTyped DEF TagOn
<1>3. frames = tagged \o <<Other>> \/ frames = <<Other>> \o (tagged \o <<Other>>)
  BY <1>1
<1> HIDE DEF tagged, Reads
<1>4. Other \in Frame /\ Other.kind = "other"
  BY FramesTyped DEF Other
<1>5. tagged \o <<Other>> \in Seq(Frame) /\ RestOf(a, tagged \o <<Other>>)
  BY <1>2, <1>4 DEF RestOf
<1>6. ASSUME frames = <<Other>> \o (tagged \o <<Other>>)
      PROVE  frames \in Seq(Frame) /\ Foreign(frames)
  BY <1>2, <1>4, <1>6 DEF Foreign
<1> QED
  BY <1>3, <1>5, <1>6

LEMMA OtherAppended ==
  ASSUME NEW frames \in Seq(Frame)
  PROVE  Append(frames, Other) \in Seq(Frame) /\ Append(<<>>, Other) = <<Other>>
<1>1. Other \in Frame
  BY FramesTyped
<1> HIDE DEF Frame
<1> QED
  BY <1>1

LEMMA LineInit == Init => LineInv
BY SlotAssumption, AntennaZero DEF Init, LineInv, LineType, InStep

LEMMA RestShrinks ==
  ASSUME NEW a \in Ant, NEW frames \in Seq(Frame), frames # <<>>, RestOf(a, frames)
  PROVE  /\ RestOf(a, Tail(frames))
         /\ Head(frames).kind # "tag" => Tail(frames) = <<>>
         /\ Head(frames).kind = "tag" => Head(frames).ant = a
BY DEF RestOf

LEMMA NextHost ==
  ASSUME LineType, NEW rest, NextAntenna(rest)
  PROVE  host' \in [pc : {"sweep", "echo"}, ant : Ant, slot : Slot]
<1>1. host.ant \in 0..LastAnt /\ LastAnt \in Nat
  BY AntAssumption DEF LineType, Ant
<1>2. CASE host.ant = LastAnt
  BY <1>2 DEF NextAntenna, LineType
<1>3. CASE host.ant # LastAnt
  <2>1. host.ant + 1 \in Ant
    BY <1>1, <1>3 DEF Ant
  <2>2. host' = [host EXCEPT !.pc = "echo", !.ant = host.ant + 1]
    BY <1>3 DEF NextAntenna
  <2> QED
    BY <2>1, <2>2 DEF LineType
<1> QED
  BY <1>2, <1>3

LEMMA LineNext == LineInv /\ [Next]_vars => LineInv'
<1> SUFFICES ASSUME LineInv, [Next]_vars PROVE LineInv'
  OBVIOUS
<1>0. LineType /\ InStep
  BY DEF LineInv
<1>1. CASE LoseFrame
  <2>1. LineType'
    BY <1>0, <1>1 DEF LoseFrame, LineType
  <2>2. InStep'
    <3> SUFFICES ASSUME ~behind PROVE InStep'
      BY <1>1 DEF LoseFrame, InStep
    <3>1. CASE host.pc = "epc"
      BY <1>0, <1>1, <3>1, RestShrinks DEF LoseFrame, InStep, LineType
    <3>2. CASE host.pc # "epc"
      BY <1>0, <1>1, <3>2 DEF LoseFrame, InStep, LineType
    <3> QED
      BY <3>1, <3>2
  <2> QED
    BY <2>1, <2>2 DEF LineInv
<1>2. CASE StartRound
  <2>1. LineType'
    BY <1>0, <1>2, AntennaZero, OtherAppended DEF StartRound, LineType
  <2>2. InStep'
    BY <1>0, <1>2 DEF StartRound, InStep, LineType
  <2> QED
    BY <2>1, <2>2 DEF LineInv
<1>3. CASE EchoEnds
  <2>1. PICK frames \in Inventories(host.ant) :
          \/ line # <<>> /\ line' = Tail(line) \o frames /\ behind' = (behind \/ Foreign(frames))
          \/ line' = line \o frames /\ behind' = (behind \/ line # <<>> \/ Foreign(frames))
    BY <1>3 DEF EchoEnds
  <2>2. host.pc = "echo" /\ host.ant \in Ant /\ host' = [host EXCEPT !.pc = "epc"]
    BY <1>0, <1>3 DEF EchoEnds, LineType
  <2>3. frames \in Seq(Frame) /\ (~Foreign(frames) => RestOf(host.ant, frames))
    BY <2>2, InventoryFrames
  <2>4. line \in Seq(Frame) /\ line' \in Seq(Frame)
    <3>1. (line # <<>> /\ line' = Tail(line) \o frames) \/ line' = line \o frames
      BY <2>1, Zenon
    <3>2. line \in Seq(Frame)
      BY <1>0 DEF LineType
    <3>3. frames \in Seq(Frame)
      BY <2>3
    <3> HIDE DEF Frame
    <3>4. line # <<>> => Tail(line) \o frames \in Seq(Frame)
      BY <3>2, <3>3
    <3>5. line \o frames \in Seq(Frame)
      BY <3>2, <3>3
    <3> QED
      BY <3>1, <3>2, <3>4, <3>5
  <2>5. LineType'
    <3>1. behind' \in BOOLEAN
      BY <2>1, Zenon
    <3> QED
      BY <1>0, <2>2, <2>4, <3>1 DEF LineType
  <2>6. InStep'
    <3> SUFFICES ASSUME ~behind' PROVE RestOf(host.ant, line')
      BY <1>0, <2>2 DEF InStep, LineType
    <3>1. ~behind /\ ~Foreign(frames) /\ (line # <<>> => line' = Tail(line) \o frames)
                  /\ (line = <<>> => line' = line \o frames)
      BY <2>1, Zenon
    <3>2. line \in {<<>>, <<Other>>}
      BY <1>0, <2>2, <3>1 DEF InStep
    <3>3. Tail(<<Other>>) = <<>> /\ <<Other>> # <<>> /\ <<>> \o frames = frames
      BY <2>3
    <3>4. line' = frames
      BY <3>1, <3>2, <3>3, Zenon
    <3> QED
      BY <2>3, <3>1, <3>4
  <2> QED
    BY <2>5, <2>6 DEF LineInv
<1>4. CASE InventoryEnds
  <2>1. PICK rest \in {line, Tail(line)} :
          /\ NextAntenna(rest)
          /\ \/ rest = Tail(line) /\ line # <<>> /\ ~TagFrame /\ UNCHANGED behind
             \/ rest = line /\ Silence
    BY <1>4 DEF InventoryEnds
  <2>2. rest \in Seq(Frame) /\ host.pc = "epc"
    BY <1>0, <1>4, <2>1 DEF LineType, InventoryEnds
  <2>3. behind' \in BOOLEAN
    <3>1. Silence => behind' \in BOOLEAN
      BY Zenon DEF Silence
    <3> QED
      BY <1>0, <2>1, <3>1 DEF LineType
  <2>4. LineType'
    <3>1. line' \in Seq(Frame)
      BY <2>1, <2>2, OtherAppended DEF NextAntenna
    <3> QED
      BY <1>0, <2>1, <2>2, <2>3, <3>1, NextHost DEF LineType
  <2>5. ASSUME ~behind' PROVE ~behind /\ rest = <<>>
    <3>1. ~behind /\ (rest = <<>> \/ (rest = Tail(line) /\ line # <<>> /\ ~TagFrame))
      <4>1. Silence => ~behind /\ line = <<>>
        BY <2>5, Zenon DEF Silence
      <4>2. UNCHANGED behind => ~behind
        BY <2>5
      <4> QED
        BY <2>1, <4>1, <4>2
    <3>2. RestOf(host.ant, line)
      BY <1>0, <2>2, <3>1 DEF InStep
    <3> QED
      BY <1>0, <2>2, <3>1, <3>2, RestShrinks DEF TagFrame, LineType
  <2>6. InStep'
    <3>1. ~behind' => rest = <<>>
      BY <2>5
    <3>2. host' \in [pc : {"sweep", "echo"}, ant : Ant, slot : Slot]
      BY <1>0, <2>1, NextHost
    <3>3. IF host'.pc = "sweep" THEN line' = rest ELSE line' = Append(rest, Other)
      BY <1>0, <2>1 DEF NextAntenna, LineType
    <3>4. ~behind' => IF host'.pc = "sweep" THEN line' = <<>> ELSE line' = <<Other>>
      BY <2>2, <3>1, <3>3, OtherAppended
    <3> QED
      BY <3>2, <3>4 DEF InStep
  <2> QED
    BY <2>4, <2>6 DEF LineInv
<1>5. ASSUME NEW k \in Id, NewTag(k) \/ SameAntenna(k) \/ OtherAntenna(k) PROVE LineInv'
  <2>1. TagFrame /\ line' = Tail(line) /\ UNCHANGED <<host, behind>>
    BY <1>5 DEF NewTag, SameAntenna, OtherAntenna, GotTag
  <2>2. LineType'
    BY <1>0, <2>1 DEF LineType, TagFrame
  <2>3. InStep'
    BY <1>0, <2>1, RestShrinks DEF LineType, TagFrame, InStep
  <2> QED
    BY <2>2, <2>3 DEF LineInv
<1>6. CASE SweepOut \/ SweepPast \/ PrintChanges
  <2>1. UNCHANGED <<line, behind>> /\ host.pc \in {"sweep", "print"}
    BY <1>6 DEF SweepOut, SweepPast, PrintChanges
  <2>2. LineType' /\ host'.pc \in {"sweep", "print", "sleep"}
    BY <1>0, <1>6, <2>1, SlotAssumption
       DEF SweepOut, SweepPast, PrintChanges, AfterSlot, LineType
  <2>3. InStep'
    BY <1>0, <2>1, <2>2 DEF LineType, InStep
  <2> QED
    BY <2>2, <2>3 DEF LineInv
<1>7. CASE UNCHANGED vars
  BY <1>0, <1>7 DEF vars, LineInv, LineType, InStep, RestOf
<1> QED
  BY <1>1, <1>2, <1>3, <1>4, <1>5, <1>6, <1>7 DEF Next

\* A tag is stored for the antenna that read it, whatever the line loses, as
\* long as no answer came late (main.c:198, 233).
THEOREM StoredForItsAntenna == Spec => []TagOfItsAntenna
<1>1. LineInv => TagOfItsAntenna
  BY RestShrinks DEF LineInv, LineType, InStep, TagOfItsAntenna, TagFrame
<1> QED
  BY <1>1, LineInit, LineNext, PTL DEF Spec

-----------------------------------------------------------------------------
(* The tables, whatever the hash                                           *)

TableType ==
  /\ index \in [Slot -> {"none", "now", "before"}]
  /\ rInfo \in [Slot -> [epc : Id \cup {NoId}, ant : Ant]]
  /\ RfidHash \in Table
  /\ epc \in Seq(Record)
  /\ shown \subseteq Id
  /\ seen \subseteq Id \X Ant
  /\ \A s \in Slot : index[s] # "none" \/ RfidHash[s] # NoId => rInfo[s].epc \in Id

\* A record at the head of the list of changes.
LEMMA Prepended ==
  ASSUME NEW list \in Seq(Record), NEW c \in Record
  PROVE  /\ <<c>> \o list \in Seq(Record)
         /\ 1 \in DOMAIN (<<c>> \o list) /\ (<<c>> \o list)[1] = c
         /\ \A i \in DOMAIN (<<c>> \o list) :
              i = 1 \/ (i - 1 \in DOMAIN list /\ (<<c>> \o list)[i] = list[i - 1])
         /\ \A i \in DOMAIN list : i + 1 \in DOMAIN (<<c>> \o list) /\ (<<c>> \o list)[i + 1] = list[i]
<1> HIDE DEF Record
<1> QED
  OBVIOUS

LEMMA TableInit == Init => TableType
BY AntennaZero DEF Init, TableType, EmptyTable, Table

LEMMA TableNext == LineType /\ TableType /\ [Next]_vars => TableType'
<1> SUFFICES ASSUME LineType, TableType, [Next]_vars PROVE TableType'
  OBVIOUS
<1>1. CASE LoseFrame \/ EchoEnds \/ InventoryEnds \/ SweepPast \/ UNCHANGED vars
  <2>1. UNCHANGED <<index, rInfo, RfidHash, epc, shown, seen>>
    BY <1>1 DEF LoseFrame, EchoEnds, InventoryEnds, SweepPast, vars, tables
  <2> QED
    BY <2>1 DEF TableType
<1>2. CASE StartRound
  BY <1>2 DEF StartRound, TableType
<1>3. ASSUME NEW k \in Id, NewTag(k) PROVE TableType'
  <2>1. host.ant \in Ant /\ Change(k, host.ant, TRUE) \in Record
    BY DEF LineType, Change, Record
  <2>2. InsertSlot(RfidHash, k) \in Slot
    BY SearchInTable
  <2>3. RfidHash' \in Table
    BY <1>3, <2>2 DEF NewTag, Inserted, Table, TableType
  <2>4. epc' \in Seq(Record)
    BY <1>3, <2>1, Prepended DEF NewTag, TableType
  <2>5. seen' \subseteq Id \X Ant /\ shown' = shown
    BY <1>3, <2>1 DEF NewTag, GotTag, TableType
  <2> QED
    <3> DEFINE s == InsertSlot(RfidHash, k)
    <3>1. /\ RfidHash' = [RfidHash EXCEPT ![s] = k]
          /\ rInfo' = [rInfo EXCEPT ![s] = [epc |-> k, ant |-> host.ant]]
          /\ index' = [index EXCEPT ![s] = "now"]
      BY <1>3 DEF NewTag, Inserted
    <3>2. s \in Slot
      BY <2>2
    <3> HIDE DEF s
    <3>3. rInfo' \in [Slot -> [epc : Id \cup {NoId}, ant : Ant]]
      BY <2>1, <3>1, <3>2 DEF TableType
    <3>4. \A x \in Slot : index'[x] # "none" \/ RfidHash'[x] # NoId => rInfo'[x].epc \in Id
      BY <3>1, <3>2 DEF TableType, Table
    <3> QED
      BY <2>3, <2>4, <2>5, <3>1, <3>2, <3>3, <3>4 DEF TableType
<1>4. ASSUME NEW k \in Id, SameAntenna(k) \/ OtherAntenna(k) PROVE TableType'
  <2>1. Search(RfidHash, k) \in Slot
    BY SearchInTable
  <2>2. seen' \subseteq Id \X Ant /\ shown' = shown
    BY <1>4 DEF SameAntenna, OtherAntenna, GotTag, TableType, LineType
  <2>3. ASSUME SameAntenna(k) PROVE Search(RfidHash, k) # 0
    BY <2>3 DEF SameAntenna
  <2>4. CASE OtherAntenna(k)
    BY <2>2, <2>4 DEF OtherAntenna, TableType, tables
  <2>5. CASE SameAntenna(k)
    <3>1. RfidHash[Search(RfidHash, k)] = k /\ k # NoId
      BY <2>3, <2>5, SearchFinds, HomeAssumption
    <3> QED
      BY <2>1, <2>2, <2>5, <3>1 DEF SameAntenna, TableType
  <2> QED
    BY <1>4, <2>4, <2>5
<1>5. CASE SweepOut
  <2> DEFINE s == host.slot
             c == Change(rInfo[s].epc, rInfo[s].ant, FALSE)
  <2>1. s \in Slot /\ index[s] # "none" /\ c \in Record
    BY <1>5 DEF SweepOut, LineType, TableType, Change, Record
  <2>2. epc' \in Seq(Record)
    BY <1>5, <2>1, Prepended DEF SweepOut, TableType
  <2>3. RfidHash' \in Table /\ \A x \in Slot : RfidHash'[x] # NoId => RfidHash[x] # NoId
    BY <1>5 DEF SweepOut, DelHashTablePos, Deleted, Table, TableType
  <2> QED
    BY <1>5, <2>1, <2>2, <2>3 DEF SweepOut, TableType
<1>6. CASE PrintChanges
  BY <1>6 DEF PrintChanges, TableType, tables
<1> QED
  BY <1>1, <1>2, <1>3, <1>4, <1>5, <1>6 DEF Next

\* The type invariant, for every hash and either width of an unsigned long.
THEOREM TypeCorrect == Spec => []TypeOK
<1>1. LineType /\ TableType => TypeOK
  <2> SUFFICES ASSUME LineType, TableType PROVE TypeOK
    OBVIOUS
  <2>1. ASSUME NEW i \in DOMAIN line PROVE line[i].ant \in Ant
    <3>1. line[i] \in Frame
      BY <2>1 DEF LineType
    <3> QED
      BY <3>1 DEF Frame
  <2> QED
    BY <2>1 DEF LineType, TableType, TypeOK
<1> QED
  BY <1>1, LineInit, LineNext, TableInit, TableNext, PTL DEF Spec, LineInv

-----------------------------------------------------------------------------
(* Rounds, whatever the hash                                               *)

\* What the program takes for granted of its table (main.c:190, 248-249; hash.c:
\* DelHashTablePos): that no tag has slot 0, and, when a tag is about to be swept
\* out, that an unsigned int holds its hashes and that no search for a tag that
\* stays passes its slot.
Sound ==
  /\ RfidHash[0] = NoId
  /\ host.pc = "sweep" /\ index[host.slot] = "before" =>
       /\ ~WideLong
       /\ \A s \in Slot \ {host.slot} :
            RfidHash[s] # NoId => ~Passes(RfidHash, RfidHash[s], host.slot)

Stored(k) == \E s \in Slot : RfidHash[s] = k
Reported(k) == \E i \in DOMAIN epc : epc[i].id = k

\* RfidHash and rInfo hold the same tags, and each is found, in every step of a
\* round.
SlotsInv ==
  /\ AllFound(RfidHash)
  /\ \A s \in Slot : RfidHash[s] = IF index[s] = "none" THEN NoId ELSE rInfo[s].epc

\* A round reports a tag once: as new, and then the sweep keeps it, or as
\* deleted, by the sweep.  What is shown and not reported is stored; what was
\* reported is stored if it was not shown.
RoundInv ==
  /\ \A i, j \in DOMAIN epc : epc[i].id = epc[j].id => i = j
  /\ \A i \in DOMAIN epc :
       epc[i].new => \E s \in Slot : RfidHash[s] = epc[i].id /\ index[s] = "now"
  /\ \A i \in DOMAIN epc : ~epc[i].new => host.pc \in {"sweep", "print"}
  /\ \A k \in Id : Stored(k) <=> IF Reported(k) THEN k \notin shown ELSE k \in shown
  /\ host.pc = "sleep" => epc = <<>>

\* A tag that its own antenna read this round is not swept.
SeenInv ==
  \A s \in Slot : index[s] = "before" => <<rInfo[s].epc, rInfo[s].ant>> \notin seen

TagsInv == SlotsInv /\ RoundInv /\ SeenInv /\ ReportsAlternate /\ DeletedIsGone

LEMMA TagsInit == Init => TagsInv
<1> SUFFICES ASSUME Init PROVE TagsInv
  OBVIOUS
<1>1. \A k \in Id : ~Stored(k) /\ ~Reported(k)
  BY HomeAssumption DEF Init, Stored, Reported, EmptyTable
<1>2. SlotsInv
  BY DEF Init, SlotsInv, AllFound, EmptyTable
<1> QED
  BY <1>1, <1>2 DEF Init, TagsInv, RoundInv, SeenInv, ReportsAlternate, DeletedIsGone

\* A tag is in one slot.
LEMMA StoredOnce ==
  ASSUME TableType, SlotsInv, NEW s \in Slot, NEW r \in Slot,
         RfidHash[s] = RfidHash[r], RfidHash[s] # NoId
  PROVE  s = r
BY FoundOnce DEF TableType, SlotsInv

\* What the steps that write the tables do to them.
LEMMA NewTagDoes ==
  ASSUME LineType, TableType, SlotsInv, Sound, NEW k \in Id, NewTag(k)
  PROVE  \E s \in Slot :
           /\ host.pc = "epc" /\ host.ant \in Ant /\ UNCHANGED <<host, shown>>
           /\ index[s] = "none" /\ ~Stored(k) /\ AllFound(RfidHash')
           /\ RfidHash' = [RfidHash EXCEPT ![s] = k]
           /\ rInfo' = [rInfo EXCEPT ![s] = [epc |-> k, ant |-> host.ant]]
           /\ index' = [index EXCEPT ![s] = "now"]
           /\ epc' = <<Change(k, host.ant, TRUE)>> \o epc
           /\ seen' = seen \cup {<<k, host.ant>>}
<1> DEFINE e == InsertSlot(RfidHash, k)
<1>1. /\ RfidHash \in Table /\ AllFound(RfidHash) /\ RfidHash[0] = NoId
      /\ Room(RfidHash) /\ k # NoId
  BY SlotAssumption, HomeAssumption DEF TableType, SlotsInv, Sound, Room
<1>2. ~Stored(k)
  <2> SUFFICES ASSUME NEW s \in Slot, RfidHash[s] = k PROVE FALSE
    BY DEF Stored
  <2>1. Search(RfidHash, k) = s
    BY <1>1, SearchStored
  <2> QED
    BY <1>1, <2>1 DEF NewTag
<1>3. e \in Slot /\ RfidHash[e] = NoId
  <2>1. e \in FirstSlot(RfidHash, k, {NoId})
    BY <1>1, FillsFirst
  <2> HIDE DEF e
  <2>2. e \in Slot
    BY <2>1, FirstInTable
  <2> QED
    BY <2>1, <2>2 DEF FirstSlot
<1>4. index[e] = "none"
  <2> HIDE DEF e
  <2>1. rInfo[e].epc \in Id \/ index[e] = "none"
    BY <1>3 DEF TableType
  <2> QED
    BY <1>3, <2>1, HomeAssumption DEF SlotsInv
<1>5. AllFound(Inserted(RfidHash, k))
  BY <1>1, <1>2, InsertKeepsAllFound DEF Stored
<1>6. /\ RfidHash' = Inserted(RfidHash, k)
      /\ RfidHash' = [RfidHash EXCEPT ![e] = k]
      /\ rInfo' = [rInfo EXCEPT ![e] = [epc |-> k, ant |-> host.ant]]
      /\ index' = [index EXCEPT ![e] = "now"]
      /\ epc' = <<Change(k, host.ant, TRUE)>> \o epc
  BY DEF NewTag, Inserted
<1>7. /\ host.pc = "epc" /\ host.ant \in Ant /\ UNCHANGED <<host, shown>>
      /\ seen' = seen \cup {<<k, host.ant>>}
  BY DEF NewTag, GotTag, TagFrame, LineType
<1> HIDE DEF e
<1>8. AllFound(RfidHash')
  BY <1>5, <1>6
<1> QED
  BY <1>2, <1>3, <1>4, <1>6, <1>7, <1>8

LEMMA ReadAgainDoes ==
  ASSUME LineType, TableType, SlotsInv, NEW k \in Id, SameAntenna(k) \/ OtherAntenna(k)
  PROVE  \E s \in Slot :
           /\ host.pc = "epc" /\ UNCHANGED <<host, shown, rInfo, RfidHash, epc>>
           /\ RfidHash[s] = k /\ seen' = seen \cup {<<k, host.ant>>}
           /\ \/ index' = [index EXCEPT ![s] = "now"]
              \/ index' = index /\ rInfo[s].ant # host.ant
<1> DEFINE s == Search(RfidHash, k)
<1>1. s \in Slot /\ RfidHash[s] = k
  BY SearchFinds DEF SameAntenna, OtherAntenna
<1>2. /\ host.pc = "epc" /\ UNCHANGED <<host, shown, rInfo, RfidHash, epc>>
      /\ seen' = seen \cup {<<k, host.ant>>}
  BY DEF SameAntenna, OtherAntenna, GotTag, TagFrame, tables
<1>3. \/ index' = [index EXCEPT ![s] = "now"]
      \/ index' = index /\ rInfo[s].ant # host.ant
  BY DEF SameAntenna, OtherAntenna, tables
<1> HIDE DEF s
<1> QED
  BY <1>1, <1>2, <1>3

LEMMA SweepOutDoes ==
  ASSUME LineType, TableType, SlotsInv, Sound, SweepOut
  PROVE  \E s \in Slot, k \in Id :
           /\ host.pc = "sweep" /\ host'.pc \in {"sweep", "print"} /\ UNCHANGED <<shown, seen, rInfo>>
           /\ index[s] = "before" /\ rInfo[s].epc = k /\ RfidHash[s] = k
           /\ RfidHash' = [RfidHash EXCEPT ![s] = NoId] /\ AllFound(RfidHash')
           /\ index' = [index EXCEPT ![s] = "none"]
           /\ rInfo[s].ant \in Ant
           /\ epc' = <<Change(k, rInfo[s].ant, FALSE)>> \o epc
<1> DEFINE s == host.slot
           k == rInfo[s].epc
<1>1. s \in Slot /\ index[s] = "before" /\ k \in Id /\ host.pc = "sweep"
  BY DEF SweepOut, LineType, TableType
<1>2. RfidHash[s] = k /\ k # NoId /\ RfidHash \in Table /\ AllFound(RfidHash)
  BY <1>1, HomeAssumption DEF SlotsInv, TableType
<1>3. ~WideLong /\ \A r \in Slot \ {s} : RfidHash[r] # NoId => ~Passes(RfidHash, RfidHash[r], s)
  BY <1>1 DEF Sound
<1>4. /\ Deleted(RfidHash, k) = [RfidHash EXCEPT ![s] = NoId]
      /\ AllFound(Deleted(RfidHash, k))
  <2> HIDE DEF s, k
  <2> QED
    BY <1>1, <1>2, <1>3, DeletedSlot, DeleteKeepsAllFound
<1>5. host'.pc \in {"sweep", "print"}
  BY DEF SweepOut, AfterSlot, LineType
<1>6. rInfo[s].ant \in Ant
  BY <1>1 DEF TableType
<1>7. /\ RfidHash' = Deleted(RfidHash, k)
      /\ index' = [index EXCEPT ![s] = "none"]
      /\ epc' = <<Change(k, rInfo[s].ant, FALSE)>> \o epc
      /\ UNCHANGED <<shown, seen, rInfo>>
  BY <1>3 DEF SweepOut, DelHashTablePos
<1> HIDE DEF s
<1>8. AllFound(RfidHash') /\ RfidHash' = [RfidHash EXCEPT ![s] = NoId]
  BY <1>4, <1>7
<1> QED
  BY <1>1, <1>2, <1>5, <1>6, <1>7, <1>8

\* A step that leaves the tables and the list alone, and the sweep of a round
\* that has changed something.
LEMMA TagsRest ==
  ASSUME TagsInv, UNCHANGED <<index, rInfo, RfidHash, epc, shown, seen>>,
         host'.pc = "sleep" => host.pc = "sleep",
         host.pc \in {"sweep", "print"} => host'.pc \in {"sweep", "print"}
  PROVE  TagsInv'
BY DEF TagsInv, SlotsInv, RoundInv, SeenInv, ReportsAlternate, DeletedIsGone, Stored, Reported

\* A new record of tag k: which records and tags the list reports then.
LEMMA Recorded ==
  ASSUME TableType, NEW c \in Record, epc' = <<c>> \o epc, ~Reported(c.id), RoundInv
  PROVE  /\ \A k \in Id : Reported(k)' <=> k = c.id \/ Reported(k)
         /\ \A i, j \in DOMAIN epc' : epc'[i].id = epc'[j].id => i = j
         /\ \A i \in DOMAIN epc' : epc'[i] = c \/ \E j \in DOMAIN epc : epc'[i] = epc[j]
<1> DEFINE new == <<c>> \o epc
<1>1. /\ 1 \in DOMAIN new /\ new[1] = c
      /\ \A i \in DOMAIN new : i = 1 \/ (i - 1 \in DOMAIN epc /\ new[i] = epc[i - 1])
      /\ \A i \in DOMAIN epc : i + 1 \in DOMAIN new /\ new[i + 1] = epc[i]
  BY Prepended DEF TableType
<1>2. epc' = new
  OBVIOUS
<1> HIDE DEF new
<1>3. \A i \in DOMAIN new : i \in Nat
  <2>1. new \in Seq(Record)
    BY Prepended DEF TableType, new
  <2> QED
    BY <2>1
<1>4. \A k \in Id : (\E i \in DOMAIN new : new[i].id = k) <=> k = c.id \/ Reported(k)
  BY <1>1 DEF Reported
<1>5. \A i, j \in DOMAIN new : new[i].id = new[j].id => i = j
  <2> SUFFICES ASSUME NEW i \in DOMAIN new, NEW j \in DOMAIN new, new[i].id = new[j].id
               PROVE  i = j
    OBVIOUS
  <2>1. CASE i = 1 \/ j = 1
    BY <1>1, <2>1 DEF Reported
  <2>2. CASE i # 1 /\ j # 1
    <3>1. i - 1 \in DOMAIN epc /\ j - 1 \in DOMAIN epc /\ epc[i - 1].id = epc[j - 1].id
      BY <1>1, <2>2
    <3>2. i - 1 = j - 1
      BY <3>1 DEF RoundInv
    <3>3. i \in Nat /\ j \in Nat
      BY <1>3
    <3> QED
      BY <3>2, <3>3
  <2> QED
    BY <2>1, <2>2
<1>6. \A i \in DOMAIN new : new[i] = c \/ \E j \in DOMAIN epc : new[i] = epc[j]
  BY <1>1
<1>7. \A k \in Id : Reported(k)' <=> k = c.id \/ Reported(k)
  BY <1>2, <1>4 DEF Reported
<1> QED
  BY <1>2, <1>5, <1>6, <1>7

LEMMA NewTagKeeps ==
  ASSUME LineType, TableType, TagsInv, Sound, NEW k \in Id, NewTag(k)
  PROVE  TagsInv'
<1> DEFINE c == Change(k, host.ant, TRUE)
<1>1. SlotsInv /\ RoundInv /\ SeenInv /\ ReportsAlternate /\ DeletedIsGone
  BY DEF TagsInv
<1>2. PICK s \in Slot :
        /\ host.pc = "epc" /\ host.ant \in Ant /\ UNCHANGED <<host, shown>>
        /\ index[s] = "none" /\ ~Stored(k) /\ AllFound(RfidHash')
        /\ RfidHash' = [RfidHash EXCEPT ![s] = k]
        /\ rInfo' = [rInfo EXCEPT ![s] = [epc |-> k, ant |-> host.ant]]
        /\ index' = [index EXCEPT ![s] = "now"]
        /\ epc' = <<c>> \o epc
        /\ seen' = seen \cup {<<k, host.ant>>}
  BY <1>1, NewTagDoes
<1>3. k # NoId /\ RfidHash[s] = NoId
  BY <1>1, <1>2, HomeAssumption DEF SlotsInv
<1>4. \A i \in DOMAIN epc : epc[i] \in Record /\ epc[i].new
  BY <1>1, <1>2 DEF TableType, RoundInv
<1>5. ~Reported(k) /\ k \notin shown
  <2>1. ~Reported(k)
    BY <1>1, <1>2, <1>4 DEF Reported, RoundInv, Stored
  <2> QED
    BY <1>1, <1>2, <2>1 DEF RoundInv
<1>6. c \in Record /\ c.id = k /\ c.new = TRUE
  BY <1>2 DEF Change, Record
<1> HIDE DEF c
<1>7. /\ \A other \in Id : Reported(other)' <=> other = k \/ Reported(other)
      /\ \A i, j \in DOMAIN epc' : epc'[i].id = epc'[j].id => i = j
      /\ \A i \in DOMAIN epc' : epc'[i] = c \/ \E j \in DOMAIN epc : epc'[i] = epc[j]
  BY <1>1, <1>2, <1>5, <1>6, Recorded
<1>8. /\ RfidHash'[s] = k /\ index'[s] = "now" /\ rInfo'[s].epc = k
      /\ \A r \in Slot \ {s} : /\ RfidHash'[r] = RfidHash[r] /\ index'[r] = index[r]
                               /\ rInfo'[r] = rInfo[r]
  BY <1>2 DEF TableType, Table
<1>9. SlotsInv'
  BY <1>1, <1>2, <1>8 DEF SlotsInv
<1>10. RoundInv'
  <2>1. ASSUME NEW i \in DOMAIN epc'
        PROVE  epc'[i].new /\ \E r \in Slot : RfidHash'[r] = epc'[i].id /\ index'[r] = "now"
    <3>1. CASE epc'[i] = c
      BY <1>6, <1>8, <3>1
    <3>2. ASSUME NEW j \in DOMAIN epc, epc'[i] = epc[j]
          PROVE  epc'[i].new /\ \E r \in Slot : RfidHash'[r] = epc'[i].id /\ index'[r] = "now"
      <4>1. PICK r \in Slot : RfidHash[r] = epc[j].id /\ index[r] = "now"
        BY <1>1, <1>4 DEF RoundInv
      <4>2. r # s
        BY <1>2, <4>1
      <4> QED
        BY <1>4, <1>8, <3>2, <4>1, <4>2
    <3> QED
      BY <1>7, <2>1, <3>1, <3>2
  <2>2. \A other \in Id : Stored(other)' <=> other = k \/ Stored(other)
    BY <1>2, <1>3, <1>8, HomeAssumption DEF Stored
  <2>3. \A other \in Id : Stored(other)' <=>
          IF Reported(other)' THEN other \notin shown ELSE other \in shown
    BY <1>1, <1>2, <1>5, <1>7, <2>2 DEF RoundInv
  <2> QED
    BY <1>2, <1>7, <2>1, <2>3 DEF RoundInv
<1>11. SeenInv'
  <2> SUFFICES ASSUME NEW r \in Slot, index'[r] = "before"
               PROVE  <<rInfo'[r].epc, rInfo'[r].ant>> \notin seen'
    BY DEF SeenInv
  <2>1. r # s /\ index[r] = "before" /\ rInfo'[r] = rInfo[r]
    BY <1>8
  <2>2. rInfo[r].epc # k
    BY <1>1, <1>2, <2>1 DEF SlotsInv, Stored
  <2> QED
    BY <1>1, <1>2, <2>1, <2>2 DEF SeenInv
<1>12. ReportsAlternate'
  BY <1>1, <1>2, <1>5, <1>6, <1>7 DEF ReportsAlternate
<1>13. DeletedIsGone'
  BY <1>4, <1>6, <1>7 DEF DeletedIsGone
<1> QED
  BY <1>9, <1>10, <1>11, <1>12, <1>13 DEF TagsInv

LEMMA ReadAgainKeeps ==
  ASSUME LineType, TableType, TagsInv, NEW k \in Id, SameAntenna(k) \/ OtherAntenna(k)
  PROVE  TagsInv'
<1>1. SlotsInv /\ RoundInv /\ SeenInv /\ ReportsAlternate /\ DeletedIsGone
  BY DEF TagsInv
<1>2. PICK s \in Slot :
        /\ host.pc = "epc" /\ UNCHANGED <<host, shown, rInfo, RfidHash, epc>>
        /\ RfidHash[s] = k /\ seen' = seen \cup {<<k, host.ant>>}
        /\ \/ index' = [index EXCEPT ![s] = "now"]
           \/ index' = index /\ rInfo[s].ant # host.ant
  BY <1>1, ReadAgainDoes
<1>3. k # NoId
  BY HomeAssumption
<1>4. index[s] # "none" /\ rInfo[s].epc = k
  BY <1>1, <1>2, <1>3 DEF SlotsInv
<1>5. \A r \in Slot : /\ index'[r] = "none" <=> index[r] = "none"
                      /\ index[r] = "now" => index'[r] = "now"
                      /\ index'[r] = "before" =>
                           index[r] = "before" /\ (r = s => rInfo[r].ant # host.ant)
  BY <1>2, <1>4 DEF TableType
<1>6. SlotsInv'
  BY <1>1, <1>2, <1>5 DEF SlotsInv
<1>7. RoundInv'
  <2>1. \A i \in DOMAIN epc :
          epc[i].new => \E r \in Slot : RfidHash[r] = epc[i].id /\ index'[r] = "now"
    BY <1>1, <1>5 DEF RoundInv
  <2>2. \A other \in Id : (Stored(other)' <=> Stored(other)) /\ (Reported(other)' <=> Reported(other))
    BY <1>2 DEF Stored, Reported
  <2> QED
    BY <1>1, <1>2, <2>1, <2>2 DEF RoundInv
<1>8. SeenInv'
  <2> SUFFICES ASSUME NEW r \in Slot, index'[r] = "before"
               PROVE  <<rInfo[r].epc, rInfo[r].ant>> \notin seen'
    BY <1>2 DEF SeenInv
  <2>1. index[r] = "before" /\ (r = s => rInfo[r].ant # host.ant)
    BY <1>5
  <2>2. r # s => rInfo[r].epc # k
    <3>1. RfidHash[r] = rInfo[r].epc
      BY <1>1, <2>1 DEF SlotsInv
    <3> QED
      BY <1>1, <1>2, <1>3, <3>1, StoredOnce
  <2> QED
    BY <1>1, <1>2, <2>1, <2>2 DEF SeenInv
<1>9. ReportsAlternate' /\ DeletedIsGone'
  BY <1>1, <1>2 DEF RoundInv, ReportsAlternate, DeletedIsGone
<1> QED
  BY <1>6, <1>7, <1>8, <1>9 DEF TagsInv

LEMMA SweepKeeps ==
  ASSUME LineType, TableType, TagsInv, Sound, SweepOut
  PROVE  TagsInv'
<1>1. SlotsInv /\ RoundInv /\ SeenInv /\ ReportsAlternate /\ DeletedIsGone
  BY DEF TagsInv
<1>2. PICK s \in Slot, k \in Id :
        /\ host.pc = "sweep" /\ host'.pc \in {"sweep", "print"} /\ UNCHANGED <<shown, seen, rInfo>>
        /\ index[s] = "before" /\ rInfo[s].epc = k /\ RfidHash[s] = k
        /\ RfidHash' = [RfidHash EXCEPT ![s] = NoId] /\ AllFound(RfidHash')
        /\ index' = [index EXCEPT ![s] = "none"]
        /\ rInfo[s].ant \in Ant
        /\ epc' = <<Change(k, rInfo[s].ant, FALSE)>> \o epc
  BY <1>1, SweepOutDoes
<1> DEFINE c == Change(k, rInfo[s].ant, FALSE)
<1>3. c \in Record /\ c.id = k /\ c.new = FALSE /\ c.ant = rInfo[s].ant /\ epc' = <<c>> \o epc
  BY <1>2 DEF Change, Record
<1> HIDE DEF c
<1>4. /\ RfidHash'[s] = NoId /\ index'[s] = "none" /\ k # NoId
      /\ \A r \in Slot \ {s} : /\ RfidHash'[r] = RfidHash[r] /\ index'[r] = index[r]
                               /\ RfidHash[r] # k
  <2>1. RfidHash'[s] = NoId /\ index'[s] = "none" /\ k # NoId
    BY <1>2, HomeAssumption DEF TableType, Table
  <2>2. \A r \in Slot \ {s} : RfidHash'[r] = RfidHash[r] /\ index'[r] = index[r]
    BY <1>2 DEF TableType, Table
  <2>3. \A r \in Slot : RfidHash[r] = k => r = s
    BY <1>1, <1>2, <2>1, StoredOnce
  <2> QED
    BY <2>1, <2>2, <2>3
<1>5. \A i \in DOMAIN epc : epc[i] \in Record
  BY DEF TableType
<1>6. ~Reported(k) /\ k \in shown
  <2>0. Stored(k)
    BY <1>2 DEF Stored
  <2>1. ASSUME NEW i \in DOMAIN epc, epc[i].id = k PROVE FALSE
    <3>1. CASE epc[i].new
      <4>1. PICK r \in Slot : RfidHash[r] = k /\ index[r] = "now"
        BY <1>1, <2>1, <3>1 DEF RoundInv
      <4> QED
        BY <1>2, <1>4, <4>1
    <3>2. CASE ~epc[i].new
      BY <1>1, <2>0, <2>1, <3>2 DEF RoundInv, ReportsAlternate, Reported
    <3> QED
      BY <3>1, <3>2
  <2>2. ~Reported(k)
    BY <2>1 DEF Reported
  <2> QED
    BY <1>1, <2>0, <2>2 DEF RoundInv
<1>7. /\ \A other \in Id : Reported(other)' <=> other = k \/ Reported(other)
      /\ \A i, j \in DOMAIN epc' : epc'[i].id = epc'[j].id => i = j
      /\ \A i \in DOMAIN epc' : epc'[i] = c \/ \E j \in DOMAIN epc : epc'[i] = epc[j]
  BY <1>1, <1>3, <1>6, Recorded
<1>8. SlotsInv'
  <2>1. \A r \in Slot : RfidHash'[r] = IF index'[r] = "none" THEN NoId ELSE rInfo[r].epc
    BY <1>1, <1>4 DEF SlotsInv
  <2> QED
    BY <1>2, <2>1 DEF SlotsInv
<1>9. RoundInv'
  <2>1. ASSUME NEW i \in DOMAIN epc', epc'[i].new
        PROVE  \E r \in Slot : RfidHash'[r] = epc'[i].id /\ index'[r] = "now"
    <3>1. PICK j \in DOMAIN epc : epc'[i] = epc[j]
      BY <1>3, <1>7, <2>1
    <3>2. PICK r \in Slot : RfidHash[r] = epc[j].id /\ index[r] = "now"
      BY <1>1, <2>1, <3>1 DEF RoundInv
    <3>3. r # s
      BY <1>2, <3>2
    <3> QED
      BY <1>4, <3>1, <3>2, <3>3
  <2>2. \A other \in Id : Stored(other)' <=> other # k /\ Stored(other)
    BY <1>2, <1>4, HomeAssumption DEF Stored
  <2>3. \A other \in Id : Stored(other)' <=>
          IF Reported(other)' THEN other \notin shown ELSE other \in shown
    BY <1>1, <1>6, <1>7, <2>2 DEF RoundInv
  <2> QED
    BY <1>2, <1>7, <2>1, <2>3 DEF RoundInv
<1>10. SeenInv'
  <2>1. \A r \in Slot : index'[r] = "before" => index[r] = "before"
    BY <1>4
  <2> QED
    BY <1>1, <1>2, <2>1 DEF SeenInv
<1>11. ReportsAlternate'
  BY <1>1, <1>2, <1>3, <1>6, <1>7 DEF ReportsAlternate
<1>12. DeletedIsGone'
  BY <1>1, <1>2, <1>3, <1>7 DEF DeletedIsGone, SeenInv
<1> QED
  BY <1>8, <1>9, <1>10, <1>11, <1>12 DEF TagsInv

LEMMA StartRoundKeeps == LineType /\ TableType /\ TagsInv /\ StartRound => TagsInv'
<1> SUFFICES ASSUME LineType, TableType, TagsInv, StartRound PROVE TagsInv'
  OBVIOUS
<1>1. /\ host.pc = "sleep" /\ host'.pc = "echo" /\ epc' = <<>> /\ seen' = {}
      /\ UNCHANGED <<rInfo, RfidHash, shown>> /\ epc = <<>>
  BY DEF StartRound, LineType, TagsInv, RoundInv
<1>2. \A s \in Slot : index'[s] = "none" <=> index[s] = "none"
  BY DEF StartRound, TableType
<1>3. SlotsInv'
  BY <1>1, <1>2 DEF TagsInv, SlotsInv
<1>4. \A k \in Id : ~Reported(k) /\ ~Reported(k)' /\ (Stored(k)' <=> Stored(k))
  BY <1>1 DEF Reported, Stored
<1> QED
  BY <1>1, <1>3, <1>4 DEF TagsInv, RoundInv, SeenInv, ReportsAlternate, DeletedIsGone

\* What is shown when a round has been printed is what is stored then.
LEMMA PrintChangesKeeps == LineType /\ TableType /\ TagsInv /\ PrintChanges => TagsInv'
<1> SUFFICES ASSUME LineType, TableType, TagsInv, PrintChanges PROVE TagsInv'
  OBVIOUS
<1>1. /\ host.pc = "print" /\ host'.pc = "sleep" /\ epc' = <<>>
      /\ UNCHANGED <<index, rInfo, RfidHash, seen>>
      /\ shown' = {k \in Id : IF \E i \in DOMAIN epc : epc[i].id = k
                                THEN epc[LastChange(k)].new ELSE k \in shown}
  BY DEF PrintChanges, LineType, tables
<1>2. ASSUME NEW k \in Id, NEW i \in DOMAIN epc, epc[i].id = k
      PROVE  epc[LastChange(k)].new <=> k \notin shown
  <2>1. i \in 1..Len(epc)
    BY <1>2 DEF TableType
  <2>2. \A j \in i+1..Len(epc) : epc[j].id # k
    <3> SUFFICES ASSUME NEW j \in i+1..Len(epc) PROVE epc[j].id # k
      OBVIOUS
    <3>1. j \in DOMAIN epc /\ j # i
      BY <2>1 DEF TableType
    <3> QED
      BY <1>2, <3>1 DEF TagsInv, RoundInv
  <2>3. LastChange(k) \in DOMAIN epc /\ epc[LastChange(k)].id = k
    BY <1>2, <2>2 DEF LastChange
  <2> QED
    BY <2>3 DEF TagsInv, ReportsAlternate
<1>3. \A k \in Id : k \in shown' <=> Stored(k)
  BY <1>1, <1>2 DEF TagsInv, RoundInv, Reported
<1>4. \A k \in Id : ~Reported(k)' /\ (Stored(k)' <=> Stored(k))
  BY <1>1 DEF Reported, Stored
<1>5. SlotsInv' /\ SeenInv'
  BY <1>1 DEF TagsInv, SlotsInv, SeenInv
<1> QED
  BY <1>1, <1>3, <1>4, <1>5 DEF TagsInv, RoundInv, ReportsAlternate, DeletedIsGone

LEMMA TagsNext == LineType /\ TableType /\ TagsInv /\ Sound /\ [Next]_vars => TagsInv'
<1> SUFFICES ASSUME LineType, TableType, TagsInv, Sound, [Next]_vars PROVE TagsInv'
  OBVIOUS
<1>1. CASE LoseFrame \/ EchoEnds \/ InventoryEnds \/ SweepPast \/ UNCHANGED vars
  <2>1. UNCHANGED <<index, rInfo, RfidHash, epc, shown, seen>>
    BY <1>1 DEF LoseFrame, EchoEnds, InventoryEnds, SweepPast, vars, tables
  <2>2. /\ host'.pc = "sleep" => host.pc = "sleep"
        /\ host.pc \in {"sweep", "print"} => host'.pc \in {"sweep", "print"}
    BY <1>1 DEF LoseFrame, EchoEnds, InventoryEnds, NextAntenna, SweepPast, AfterSlot, vars, LineType
  <2> QED
    BY <2>1, <2>2, TagsRest
<1>2. CASE StartRound
  BY <1>2, StartRoundKeeps
<1>3. ASSUME NEW k \in Id, NewTag(k) PROVE TagsInv'
  BY <1>3, NewTagKeeps
<1>4. ASSUME NEW k \in Id, SameAntenna(k) \/ OtherAntenna(k) PROVE TagsInv'
  BY <1>4, ReadAgainKeeps
<1>5. CASE SweepOut
  BY <1>5, SweepKeeps
<1>6. CASE PrintChanges
  BY <1>6, PrintChangesKeeps
<1> QED
  BY <1>1, <1>2, <1>3, <1>4, <1>5, <1>6 DEF Next

LEMMA TagsAlways == Spec /\ []Sound => [](LineType /\ TableType /\ TagsInv)
BY LineInit, LineNext, TableInit, TableNext, TagsInit, TagsNext, PTL DEF Spec, LineInv

\* Whatever the tags and their hashes, and as long as the table is sound, what is
\* printed is a change: no tag is reported new while it is shown, or deleted
\* while it is not (main.c:21).
THEOREM OnlyChangesPrinted == Spec /\ []Sound => []ReportsAlternate
BY TagsAlways, PTL DEF TagsInv

\* So long, a tag reported deleted was not read this round by the antenna it is
\* reported for (main.c:207-208, 240).
THEOREM SweepSparesTheRead == Spec /\ []Sound => []DeletedIsGone
BY TagsAlways, PTL DEF TagsInv

\* So long, between rounds the two tables hold the same tags in the same slots,
\* and a search finds each (main.c:190-205, 248-249).
THEOREM TablesInStep == Spec /\ []Sound => []TablesAgree
<1>1. TagsInv => TablesAgree
  BY DEF TagsInv, SlotsInv, TablesAgree
<1> QED
  BY <1>1, TagsAlways, PTL

\* So long, between rounds the tags shown are those the table holds (main.c:21,
\* 190, 240).
THEOREM OutputIsCurrent == Spec /\ []Sound => []ShownIsCurrent
<1>1. TableType /\ TagsInv => ShownIsCurrent
  <2> SUFFICES ASSUME TableType, TagsInv, host.pc = "sleep"
               PROVE  shown = {rInfo[s].epc : s \in {s \in Slot : index[s] # "none"}}
    BY DEF ShownIsCurrent
  <2>1. \A k \in Id : k # NoId
    BY HomeAssumption
  <2>2. \A k \in Id : k \in shown <=> Stored(k)
    BY DEF TagsInv, RoundInv, Reported
  <2>3. \A k \in Id : Stored(k) <=> \E s \in Slot : index[s] # "none" /\ rInfo[s].epc = k
    BY <2>1 DEF TagsInv, SlotsInv, Stored
  <2>4. shown \subseteq Id /\ \A s \in Slot : index[s] # "none" => rInfo[s].epc \in Id
    BY DEF TableType
  <2> QED
    BY <2>2, <2>3, <2>4
<1> QED
  BY <1>1, TagsAlways, PTL
=============================================================================
