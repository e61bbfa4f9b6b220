------------------------------ MODULE HashTable ------------------------------
(***************************************************************************)
(* The open-addressing table of server/src/hash.c, which RFID/ber_test and   *)
(* the GIS server hold copies of: one key per slot, probed from the key's    *)
(* home slot on and round, where an empty slot ends a search.  A slot's two  *)
(* stored hashes stand for its key.                                        *)
(***************************************************************************)
EXTENDS Integers, FiniteSets

CONSTANTS
  Slot,      \* 0..MHI-1
  Id,        \* the keys: serial numbers of robots, EPCs of tags
  NoId,      \* an empty slot
  Home       \* Home[k]: HashString(k, 0) % MHI

ASSUME SlotAssumption == 0 \in Slot /\ IsFiniteSet(Slot) /\ Slot = 0..Cardinality(Slot)-1
ASSUME HomeAssumption == NoId \notin Id /\ Home \in [Id -> Slot]

Table == [Slot -> Id \cup {NoId}]
EmptyTable == [s \in Slot |-> NoId]

\* The i-th slot of a probe for k.
ProbeSlot(k, i) == (Home[k] + i) % Cardinality(Slot)

\* The first slot of a probe for k that holds a member of S, as a set.
FirstSlot(t, k, S) ==
  {ProbeSlot(k, i) : i \in {i \in 0..Cardinality(Slot)-1 :
     /\ t[ProbeSlot(k, i)] \in S
     /\ \A j \in 0..i-1 : t[ProbeSlot(k, j)] \notin S}}

\* Where a search for k stops with k.
Found(t, k) == {s \in FirstSlot(t, k, {NoId, k}) : t[s] = k}

\* Mutant: a filled slot is taken for k's.
SearchAny(t, k) == IF t[Home[k]] = NoId THEN 0 ELSE Home[k]

\* Mutant: the probe moves on before it compares.
SearchLate(t, k) == IF t[ProbeSlot(k, 1)] = k THEN ProbeSlot(k, 1) ELSE 0

\* GetHashTablePos: 0 also stands for "not found".
Search(t, k) == IF Found(t, k) = {} THEN 0 ELSE CHOOSE s \in Found(t, k) : TRUE

\* The slot InsertHash fills: the first empty one, or k's home in a full table.
InsertSlot(t, k) ==
  LET free == FirstSlot(t, k, {NoId})
  IN  IF free = {} THEN Home[k] ELSE CHOOSE s \in free : TRUE

Inserted(t, k) == [t EXCEPT ![InsertSlot(t, k)] = k]

\* DelHashTablePos, which leaves no mark in the slot it empties.
Deleted(t, k) == [s \in Slot |-> IF s \in Found(t, k) THEN NoId ELSE t[s]]

\* Every stored key is found, in its own slot.
AllFound(t) == \A s \in Slot : t[s] # NoId => s \in Found(t, t[s])
=============================================================================
