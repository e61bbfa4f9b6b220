--------------------------- MODULE HashTableProofs ---------------------------
(***************************************************************************)
(* Facts about HashTable for a table of any size and any hash: a probe visits *)
(* every slot, an insertion that finds room loses no stored key, a key that   *)
(* was inserted is found where it was put, and a deletion loses only keys     *)
(* whose search passes the emptied slot.                                     *)
(***************************************************************************)
EXTENDS HashTable, FiniteSetTheorems, WellFoundedInduction, TLAPS

\* The slots are 0..n-1.
LEMMA SlotsCounted ==
  /\ Cardinality(Slot) \in Nat \ {0}
  /\ Slot = 0..Cardinality(Slot)-1
BY SlotAssumption, FS_CardinalityType

\* A probe stays in the table.
LEMMA ProbeInTable ==
  ASSUME NEW k \in Id, NEW i \in Nat
  PROVE  ProbeSlot(k, i) \in Slot
<1> DEFINE n == Cardinality(Slot)
<1>1. n \in Nat /\ n > 0 /\ Slot = 0..n-1
  BY SlotsCounted
<1>2. Home[k] \in Nat
  BY <1>1, HomeAssumption
<1>3. (Home[k] + i) % n \in 0..n-1
  <2> HIDE DEF n
  <2> QED
    BY <1>1, <1>2
<1> QED
  BY <1>1, <1>3 DEF ProbeSlot

\* The remainder of a number that is less than twice the divisor.
LEMMA ModOnce ==
  ASSUME NEW n \in Nat, n > 0, NEW a \in Nat, a < n + n
  PROVE  a % n = IF a < n THEN a ELSE a - n
<1>1. CASE a < n
  BY <1>1
<1>2. CASE n <= a
  BY <1>2
<1> QED
  BY <1>1, <1>2

\* From anywhere in a circle of n, every point is less than n steps away.
LEMMA RoundReaches ==
  ASSUME NEW n \in Nat, n > 0, NEW h \in 0..n-1, NEW s \in 0..n-1
  PROVE  \E i \in 0..n-1 : (h + i) % n = s
<1>1. CASE h <= s
  <2>1. s - h \in 0..n-1 /\ h + (s - h) = s /\ s % n = s
    BY <1>1, ModOnce
  <2> QED
    BY <2>1
<1>2. CASE s < h
  <2>1. s - h + n \in 0..n-1 /\ h + (s - h + n) = s + n
    BY <1>2
  <2>2. (s + n) % n = s
    BY ModOnce
  <2> QED
    BY <2>1, <2>2
<1> QED
  BY <1>1, <1>2

\* A probe visits every slot.
LEMMA ProbeReaches ==
  ASSUME NEW k \in Id, NEW s \in Slot
  PROVE  \E i \in 0..Cardinality(Slot)-1 : ProbeSlot(k, i) = s
<1> DEFINE n == Cardinality(Slot)
<1>1. n \in Nat /\ n > 0 /\ s \in 0..n-1
  BY SlotsCounted
<1>2. Home[k] \in 0..n-1
  BY SlotsCounted, HomeAssumption
<1> HIDE DEF n
<1>3. \E i \in 0..n-1 : (Home[k] + i) % n = s
  BY <1>1, <1>2, RoundReaches
<1> QED
  BY <1>3 DEF ProbeSlot, n

\* A set of naturals has a least member.
LEMMA Least ==
  ASSUME NEW T, T \subseteq Nat, T # {}
  PROVE  \E i \in T : \A j \in T : i <= j
<1> DEFINE R == OpToRel(<, Nat)
<1>1. \A i, j \in Nat : i < j => <<i, j>> \in R
  BY ZenonT(20) DEF OpToRel
<1>2. IsWellFoundedOn(R, Nat)
  BY NatLessThanWellFounded, Zenon
<1>3. PICK i \in T : \A j \in T : <<j, i>> \notin R
  <2> HIDE DEF R
  <2> QED
    BY <1>2, WFMin
<1> HIDE DEF R
<1>4. ASSUME NEW j \in T PROVE i <= j
  <2>1. i \in Nat /\ j \in Nat
    OBVIOUS
  <2>2. ~(j < i)
    BY <1>1, <1>3, <2>1, Zenon
  <2> QED
    BY <2>1, <2>2
<1> QED
  BY <1>4

\* A probe that has something to find finds it: with an empty slot anywhere in
\* the table, an insertion finds an empty one.
LEMMA FirstExists ==
  ASSUME NEW t, NEW k \in Id, NEW S, NEW s \in Slot, t[s] \in S
  PROVE  FirstSlot(t, k, S) # {}
<1> DEFINE hits == {i \in 0..Cardinality(Slot)-1 : t[ProbeSlot(k, i)] \in S}
<1>1. hits \in SUBSET Nat /\ hits # {}
  BY ProbeReaches, SlotsCounted
<1>2. PICK i \in hits : \A j \in hits : i <= j
  BY <1>1, Least
<1>3. ASSUME NEW j \in 0..i-1 PROVE t[ProbeSlot(k, j)] \notin S
  BY <1>2, SlotsCounted
<1> QED
  BY <1>2, <1>3 DEF FirstSlot

LEMMA FirstInTable ==
  ASSUME NEW t, NEW k \in Id, NEW S
  PROVE  FirstSlot(t, k, S) \subseteq Slot
BY SlotsCounted, ProbeInTable DEF FirstSlot

\* What a search and an insertion return is a slot.
LEMMA SearchInTable ==
  ASSUME NEW t, NEW k \in Id
  PROVE  Search(t, k) \in Slot /\ InsertSlot(t, k) \in Slot
<1>1. Search(t, k) \in Slot
  <2>1. Found(t, k) \subseteq Slot
    BY FirstInTable DEF Found
  <2>2. CASE Found(t, k) = {}
    BY <2>2, SlotAssumption DEF Search
  <2>3. CASE Found(t, k) # {}
    <3>1. (CHOOSE s \in Found(t, k) : TRUE) \in Found(t, k)
      BY <2>3
    <3> QED
      BY <3>1, <2>1, <2>3 DEF Search
  <2> QED
    BY <2>2, <2>3
<1>2. InsertSlot(t, k) \in Slot
  <2> DEFINE free == FirstSlot(t, k, {NoId})
  <2>1. free \subseteq Slot
    BY FirstInTable
  <2>2. CASE free = {}
    BY <2>2, HomeAssumption DEF InsertSlot
  <2>3. CASE free # {}
    <3>1. (CHOOSE s \in free : TRUE) \in free
      BY <2>3
    <3> QED
      BY <3>1, <2>1, <2>3 DEF InsertSlot
  <2> QED
    BY <2>2, <2>3
<1> QED
  BY <1>1, <1>2

\* A search that does not return 0 returns a slot that holds the key.
LEMMA SearchFinds ==
  ASSUME NEW t, NEW k \in Id, Search(t, k) # 0
  PROVE  Search(t, k) \in Slot /\ t[Search(t, k)] = k
<1>1. Found(t, k) # {}
  BY DEF Search
<1>2. (CHOOSE s \in Found(t, k) : TRUE) \in Found(t, k)
  BY <1>1
<1>3. Search(t, k) \in Found(t, k)
  BY <1>1, <1>2 DEF Search
<1> QED
  BY <1>3, SearchInTable DEF Found

-----------------------------------------------------------------------------
(* Insertions                                                              *)

\* There is room in t.
Room(t) == \E s \in Slot : t[s] = NoId

\* With room, an insertion fills the first empty slot of the key's probe.
LEMMA FillsFirst ==
  ASSUME NEW t \in Table, NEW k \in Id, Room(t)
  PROVE  InsertSlot(t, k) \in FirstSlot(t, k, {NoId})
BY FirstExists DEF Room, InsertSlot

\* An insertion loses no other key: where it was found, it is found.
THEOREM InsertKeepsOthers ==
  ASSUME NEW t \in Table, NEW k \in Id, Room(t), NEW other \in Id, other # k
  PROVE  Found(t, other) \subseteq Found(Inserted(t, k), other)
<1> DEFINE e == InsertSlot(t, k)
           u == Inserted(t, k)
<1>1. e \in Slot /\ t[e] = NoId
  <2>1. e \in FirstSlot(t, k, {NoId})
    BY FillsFirst
  <2> HIDE DEF e
  <2>2. e \in Slot
    BY <2>1, FirstInTable
  <2> QED
    BY <2>1, <2>2 DEF FirstSlot
<1>2. u = [t EXCEPT ![e] = k]
  BY DEF Inserted
<1>3. ASSUME NEW s \in Found(t, other) PROVE s \in Found(u, other)
  <2>1. PICK i \in 0..Cardinality(Slot)-1 :
          /\ s = ProbeSlot(other, i) /\ t[s] = other
          /\ \A j \in 0..i-1 : t[ProbeSlot(other, j)] \notin {NoId, other}
    BY <1>3 DEF Found, FirstSlot
  <2>2. u[s] = other
    BY <1>1, <1>2, <2>1, SlotsCounted, ProbeInTable, HomeAssumption DEF Table
  <2>3. ASSUME NEW j \in 0..i-1 PROVE u[ProbeSlot(other, j)] \notin {NoId, other}
    <3>1. ProbeSlot(other, j) \in Slot
      BY <2>3, ProbeInTable, SlotsCounted
    <3> QED
      BY <1>1, <1>2, <2>1, <3>1, HomeAssumption DEF Table
  <2> HIDE DEF u
  <2> QED
    BY <2>1, <2>2, <2>3 DEF Found, FirstSlot
<1> QED
  BY <1>3

\* A key that was not stored is found where it is put.
THEOREM InsertFinds ==
  ASSUME NEW t \in Table, NEW k \in Id, Room(t), \A s \in Slot : t[s] # k
  PROVE  InsertSlot(t, k) \in Found(Inserted(t, k), k)
<1> DEFINE e == InsertSlot(t, k)
           u == Inserted(t, k)
<1>1. PICK i \in 0..Cardinality(Slot)-1 :
        /\ e = ProbeSlot(k, i) /\ t[e] = NoId
        /\ \A j \in 0..i-1 : t[ProbeSlot(k, j)] # NoId
  BY FillsFirst DEF FirstSlot
<1>2. e \in Slot /\ u = [t EXCEPT ![e] = k]
  BY <1>1, ProbeInTable, SlotsCounted DEF Inserted
<1>3. u[e] = k
  BY <1>2 DEF Table
<1>4. ASSUME NEW j \in 0..i-1 PROVE u[ProbeSlot(k, j)] \notin {NoId, k}
  <2>1. ProbeSlot(k, j) \in Slot
    BY <1>4, ProbeInTable, SlotsCounted
  <2> QED
    BY <1>1, <1>2, <2>1 DEF Table
<1> HIDE DEF u, e
<1> QED
  BY <1>1, <1>3, <1>4 DEF Found, FirstSlot, u, e

\* So a table in which every key is found stays one when a new key is inserted.
THEOREM InsertKeepsAllFound ==
  ASSUME NEW t \in Table, NEW k \in Id, Room(t), \A s \in Slot : t[s] # k, AllFound(t)
  PROVE  AllFound(Inserted(t, k))
<1> DEFINE e == InsertSlot(t, k)
           u == Inserted(t, k)
<1>1. e \in Slot /\ u = [t EXCEPT ![e] = k]
  BY SearchInTable DEF Inserted
<1>2. ASSUME NEW s \in Slot, u[s] # NoId PROVE s \in Found(u, u[s])
  <2>1. CASE s = e
    <3>1. u[s] = k
      BY <1>1, <2>1 DEF Table
    <3> QED
      BY <2>1, <3>1, InsertFinds
  <2>2. CASE s # e
    <3>1. u[s] = t[s] /\ t[s] \in Id /\ t[s] # k
      BY <1>1, <1>2, <2>2 DEF Table
    <3>2. s \in Found(t, t[s])
      BY <1>2, <3>1 DEF AllFound, Table
    <3> HIDE DEF u, e
    <3> QED
      BY <3>1, <3>2, InsertKeepsOthers DEF u
  <2> QED
    BY <2>1, <2>2
<1> HIDE DEF u, e
<1> QED
  BY <1>2 DEF AllFound, u

-----------------------------------------------------------------------------
(* Tables in which every key is found                                      *)

\* A key that is found in every slot that holds it is in one slot.
LEMMA FoundOnce ==
  ASSUME NEW t \in Table, AllFound(t), NEW s \in Slot, NEW r \in Slot, t[s] = t[r], t[s] # NoId
  PROVE  s = r
<1> DEFINE n == Cardinality(Slot)
           k == t[s]
<1>1. s \in Found(t, k) /\ r \in Found(t, k)
  BY DEF AllFound
<1>2. PICK i \in 0..n-1 : /\ s = ProbeSlot(k, i)
                          /\ \A j \in 0..i-1 : t[ProbeSlot(k, j)] \notin {NoId, k}
  BY <1>1 DEF Found, FirstSlot
<1>3. PICK j \in 0..n-1 : /\ r = ProbeSlot(k, j)
                          /\ \A l \in 0..j-1 : t[ProbeSlot(k, l)] \notin {NoId, k}
  BY <1>1 DEF Found, FirstSlot
<1>4. ~(i \in 0..j-1) /\ ~(j \in 0..i-1)
  BY <1>2, <1>3
<1>5. n \in Nat
  BY SlotsCounted
<1> HIDE DEF n, k
<1>6. i = j
  BY <1>4, <1>5
<1> QED
  BY <1>2, <1>3, <1>6

\* A search answers with the slot of a stored key, so the answer 0 means that the
\* key is not stored when slot 0 is empty.
LEMMA SearchStored ==
  ASSUME NEW t \in Table, AllFound(t), NEW k \in Id, NEW s \in Slot, t[s] = k
  PROVE  Search(t, k) = s
<1>1. s \in Found(t, k)
  BY HomeAssumption DEF AllFound
<1>2. ASSUME NEW r \in Found(t, k) PROVE r = s
  <2>1. r \in Slot /\ t[r] = k
    BY FirstInTable DEF Found
  <2> QED
    BY <2>1, FoundOnce, HomeAssumption
<1> QED
  BY <1>1, <1>2 DEF Search

-----------------------------------------------------------------------------
(* Deletions                                                               *)

\* A search for k in t passes slot s before it comes to k.
Passes(t, k, s) ==
  \E i \in 0..Cardinality(Slot)-1 :
    t[ProbeSlot(k, i)] = k /\ \E j \in 0..i-1 : ProbeSlot(k, j) = s

\* A deletion empties the slot of its key.
LEMMA DeletedSlot ==
  ASSUME NEW t \in Table, AllFound(t), NEW s \in Slot, t[s] # NoId
  PROVE  Deleted(t, t[s]) = [t EXCEPT ![s] = NoId]
<1>1. s \in Found(t, t[s])
  BY DEF AllFound
<1>2. ASSUME NEW r \in Found(t, t[s]) PROVE r = s
  <2>1. t[s] \in Id
    BY DEF Table
  <2>2. r \in Slot /\ t[r] = t[s]
    BY <2>1, FirstInTable DEF Found
  <2> QED
    BY <2>2, FoundOnce
<1>3. \A r \in Slot : r \in Found(t, t[s]) <=> r = s
  BY <1>1, <1>2
<1> QED
  BY <1>3 DEF Deleted, Table

\* The slot a deletion empties ends the searches that pass it; when there are
\* none, every other key is found as before (hash.c: DelHashTablePos).
THEOREM DeleteKeepsAllFound ==
  ASSUME NEW t \in Table, AllFound(t), NEW s \in Slot, t[s] # NoId,
         \A r \in Slot \ {s} : t[r] # NoId => ~Passes(t, t[r], s)
  PROVE  AllFound(Deleted(t, t[s]))
<1> DEFINE u == [t EXCEPT ![s] = NoId]
<1>1. ASSUME NEW r \in Slot, u[r] # NoId PROVE r \in Found(u, u[r])
  <2>1. r # s /\ u[r] = t[r] /\ t[r] # NoId /\ t[r] \in Id
    BY <1>1 DEF Table
  <2>2. PICK i \in 0..Cardinality(Slot)-1 :
          /\ r = ProbeSlot(t[r], i)
          /\ \A j \in 0..i-1 : t[ProbeSlot(t[r], j)] \notin {NoId, t[r]}
    <3>1. r \in Found(t, t[r])
      BY <2>1 DEF AllFound
    <3> QED
      BY <3>1 DEF Found, FirstSlot
  <2>3. \A j \in 0..i-1 : ProbeSlot(t[r], j) # s
    BY <2>1, <2>2 DEF Passes
  <2>4. \A j \in 0..i-1 : ProbeSlot(t[r], j) \in Slot
    <3>1. \A j \in 0..i-1 : j \in Nat
      OBVIOUS
    <3> QED
      BY <2>1, <3>1, ProbeInTable
  <2>5. \A j \in 0..i-1 : u[ProbeSlot(t[r], j)] = t[ProbeSlot(t[r], j)]
    BY <2>3, <2>4 DEF Table
  <2>6. \A j \in 0..i-1 : u[ProbeSlot(t[r], j)] \notin {NoId, t[r]}
    BY <2>2, <2>5
  <2> HIDE DEF u
  <2> QED
    BY <2>1, <2>2, <2>6 DEF Found, FirstSlot
<1> HIDE DEF u
<1>2. AllFound(u)
  BY <1>1 DEF AllFound
<1> QED
  BY <1>2, DeletedSlot DEF u

-----------------------------------------------------------------------------
(* Which keys are given slot 0, the answer "not found".                      *)

\* While slot 0 is empty, a new key is given it exactly when its probe comes
\* round to it: when it is the key's home, or every slot from the home to the
\* end of the table is filled (hash.c: InsertHash, GetHashTablePos).
THEOREM ZeroAfterFullRun ==
  ASSUME NEW t \in Table, NEW k \in Id, t[0] = NoId
  PROVE  InsertSlot(t, k) = 0 <=>
           Home[k] = 0 \/ \A s \in Slot : Home[k] <= s => t[s] # NoId
<1> DEFINE n == Cardinality(Slot)
           h == Home[k]
<1>1. n \in Nat /\ n > 0 /\ Slot = 0..n-1 /\ h \in 0..n-1
  BY SlotsCounted, HomeAssumption
<1>2. PICK i \in 0..n-1 :
        /\ InsertSlot(t, k) = ProbeSlot(k, i) /\ t[ProbeSlot(k, i)] = NoId
        /\ \A l \in 0..i-1 : t[ProbeSlot(k, l)] # NoId
  BY FillsFirst, SlotAssumption DEF FirstSlot, Room
<1>3. \A l \in 0..n-1 : ProbeSlot(k, l) = IF h + l < n THEN h + l ELSE h + l - n
  <2> SUFFICES ASSUME NEW l \in 0..n-1
               PROVE  (h + l) % n = IF h + l < n THEN h + l ELSE h + l - n
    BY DEF ProbeSlot
  <2> HIDE DEF n, h
  <2>1. h + l \in Nat /\ h + l < n + n
    BY <1>1
  <2> QED
    BY <1>1, <2>1, ModOnce
<1> HIDE DEF n, h
<1>4. CASE h = 0
  <2>1. ProbeSlot(k, 0) = 0
    BY <1>1, <1>3, <1>4
  <2>2. i = 0
    BY <1>1, <1>2, <2>1
  <2> QED
    BY <1>2, <1>4, <2>1, <2>2 DEF h
<1>5. CASE h # 0
  <2>1. n - h \in 0..n-1 /\ ProbeSlot(k, n - h) = 0
    BY <1>1, <1>3, <1>5
  <2>2. i <= n - h
    BY <1>1, <1>2, <2>1
  <2>3. i < n - h => ProbeSlot(k, i) = h + i
    BY <1>1, <1>3
  <2>4. ASSUME InsertSlot(t, k) = 0, NEW s \in Slot, h <= s PROVE t[s] # NoId
    <3>1. i = n - h
      BY <1>1, <1>2, <1>5, <2>2, <2>3, <2>4
    <3>2. s - h \in 0..i-1 /\ s - h \in 0..n-1 /\ h + (s - h) = s /\ s < n
      BY <1>1, <2>4, <3>1
    <3>3. ProbeSlot(k, s - h) = s
      BY <1>3, <3>2
    <3> QED
      BY <1>2, <3>2, <3>3
  <2>5. ASSUME \A s \in Slot : h <= s => t[s] # NoId PROVE InsertSlot(t, k) = 0
    <3>1. ~(i < n - h)
      <4>1. i < n - h => h + i \in Slot /\ h <= h + i
        BY <1>1
      <4> QED
        BY <1>2, <2>3, <2>5, <4>1
    <3>2. i = n - h
      BY <1>1, <2>2, <3>1
    <3> QED
      BY <1>2, <2>1, <3>2
  <2> QED
    BY <1>5, <2>4, <2>5 DEF h
<1> QED
  BY <1>4, <1>5
=============================================================================
