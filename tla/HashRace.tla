------------------------------ MODULE HashRace ------------------------------
(***************************************************************************)
(* Threads of the pool that register at the same time: the calls of hash.c    *)
(* in RobotInit (server/src/robot.c:21-24), one access to a slot after the    *)
(* other.  HashTable is the same table with a call as one step.               *)
(***************************************************************************)
EXTENDS Integers, FiniteSets

CONSTANTS
  Threads,   \* each registers the robot that Registers gives
  Registers,
  Size,      \* nTableSize
  HashStart  \* HashString(lpszString, HASH_OFFSET) % nTableSize

ASSUME SizeAssumption == Size \in Nat \ {0}
ASSUME StartAssumption == \A t \in Threads : HashStart[Registers[t]] \in 0..(Size - 1)

\* The table has a slot for every call (main.c makes it for MHI robots).
ASSUME RoomAssumption == IsFiniteSet(Threads) /\ Cardinality(Threads) <= Size

VARIABLES
  hpc,        \* "called", "look", "probe", "store", "name", "end"
  pos,        \* nHashPos
  index,      \* what RobotInit has of the call
  lpTable,    \* bExists, and the robot whose nHashA and nHashB the slot holds
  overlapped  \* threads that were between look and end when another one was

raceVars == <<hpc, pos, index, lpTable, overlapped>>

Slots == 0..(Size - 1)
Robot(t) == Registers[t]
Started == {t \in Threads : hpc[t] \notin {"called", "end"}}

RaceInit ==
  /\ hpc = [t \in Threads |-> "called"]
  /\ pos = [t \in Threads |-> 0] /\ index = [t \in Threads |-> -1]
  /\ lpTable = [s \in Slots |-> [bExists |-> FALSE, of |-> "none"]]
  /\ overlapped = {}

Goes(t, to, slot, found) ==
  /\ hpc' = [hpc EXCEPT ![t] = to]
  /\ pos' = [pos EXCEPT ![t] = slot]
  /\ index' = [index EXCEPT ![t] = found]

next(slot) == (slot + 1) % Size

Call(t) ==
  /\ hpc[t] = "called"
  /\ Goes(t, "look", HashStart[Robot(t)], -1)
  /\ overlapped' = IF Started = {} THEN overlapped ELSE overlapped \cup Started \cup {t}
  /\ UNCHANGED lpTable

\* One turn of the loop of GetHashTablePos, which compares both hashes.
GetHashTablePos(t) ==
  /\ hpc[t] = "look"
  /\ LET slot == lpTable[pos[t]]
         home == HashStart[Robot(t)]
     IN \/ /\ slot.bExists /\ slot.of = Robot(t) /\ pos[t] # 0
           /\ Goes(t, "end", pos[t], pos[t])
        \/ /\ slot.bExists /\ slot.of # Robot(t) /\ next(pos[t]) # home
           /\ Goes(t, "look", next(pos[t]), -1)
        \/ /\ \/ ~slot.bExists
              \/ slot.of # Robot(t) /\ next(pos[t]) = home
              \/ slot.of = Robot(t) /\ pos[t] = 0
           /\ Goes(t, "probe", home, -1)
  /\ UNCHANGED <<lpTable, overlapped>>

\* Mutant: the first slot is taken as it is.
InsertAtHome(t) ==
  /\ hpc[t] = "probe"
  /\ Goes(t, "store", pos[t], -1)
  /\ UNCHANGED <<lpTable, overlapped>>

\* One turn of the loop of InsertHash.
InsertHash(t) ==
  /\ hpc[t] = "probe"
  /\ LET home == HashStart[Robot(t)]
     IN IF lpTable[pos[t]].bExists /\ next(pos[t]) # home
        THEN Goes(t, "probe", next(pos[t]), -1)
        ELSE Goes(t, "store", IF lpTable[pos[t]].bExists THEN home ELSE pos[t], -1)
  /\ UNCHANGED <<lpTable, overlapped>>

StoreExists(t) ==
  /\ hpc[t] = "store"
  /\ lpTable' = [lpTable EXCEPT ![pos[t]].bExists = TRUE]
  /\ Goes(t, "name", pos[t], -1)
  /\ UNCHANGED overlapped

StoreHashes(t) ==
  /\ hpc[t] = "name"
  /\ lpTable' = [lpTable EXCEPT ![pos[t]].of = Robot(t)]
  /\ Goes(t, "end", pos[t], pos[t])
  /\ UNCHANGED overlapped

RaceNext ==
  \E t \in Threads :
    Call(t) \/ GetHashTablePos(t) \/ InsertHash(t) \/ StoreExists(t) \/ StoreHashes(t)

-----------------------------------------------------------------------------
(* Properties                                                              *)

\* The robot is reached from its first slot over slots that are all taken.
Reached(r) ==
  \E n \in 0..(Size - 1) :
    /\ lpTable[(HashStart[r] + n) % Size] = [bExists |-> TRUE, of |-> r]
    /\ \A m \in 0..(n - 1) : lpTable[(HashStart[r] + m) % Size].bExists

\* A robot whose registration no other registration overlapped is found from then on,
\* whatever the others do to each other: two that run at once may see the same empty
\* slot and the second takes it from the first (hash.c:66-74).
RegisteredIsFound == \A t \in Threads : hpc[t] = "end" /\ t \notin overlapped => Reached(Robot(t))
=============================================================================
