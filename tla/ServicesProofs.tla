---------------------------- MODULE ServicesProofs ----------------------------
(***************************************************************************)
(* Theorems about the services beside the core of the server: the table of    *)
(* robots under several threads, the HTTP clients, the log, the GIS server.   *)
(* The parts share nothing, and each has its own specification here, which is  *)
(* the one MCServices moves.                                               *)
(***************************************************************************)
EXTENDS HashRace, LogFile, HttpClient, GisServer,
        FiniteSetTheorems, SequenceTheorems, WellFoundedInduction, TLAPS

-----------------------------------------------------------------------------
(***************************************************************************)
(* HashRace                                                                *)
(***************************************************************************)
(* Probes                                                                  *)

\* The nth slot of the probe of a thread, and that the slots before it are taken.
Home(t) == HashStart[Robot(t)]
At(t, n) == (Home(t) + n) % Size
Taken(t, n) == \A m \in 0..(n - 1) : lpTable[At(t, m)].bExists
Probed(t, n) == pos[t] = At(t, n) /\ Taken(t, n)

LEMMA HomeInTable ==
  ASSUME NEW t \in Threads
  PROVE  Home(t) \in 0..(Size - 1) /\ Slots = 0..(Size - 1)
BY StartAssumption DEF Home, Robot, Slots

\* The remainder of a number that is less than twice the divisor.
LEMMA ModOnce ==
  ASSUME NEW n \in Nat, n > 0, NEW a \in Nat, a < n + n
  PROVE  a % n = IF a < n THEN a ELSE a - n
<1>1. CASE a < n
  BY <1>1
<1>2. CASE n <= a
  BY <1>2
<1> QED
  BY <1>1, <1>2

\* The probe goes from its first slot through all the slots and back to the first.
LEMMA ProbeSteps ==
  ASSUME NEW t \in Threads, NEW n \in 0..(Size - 1)
  PROVE  /\ At(t, n) \in Slots
         /\ next(At(t, n)) = At(t, n + 1)
         /\ At(t, 0) = Home(t)
         /\ At(t, n + 1) = Home(t) => n = Size - 1
<1> DEFINE h == Home(t)
<1>1. h \in 0..(Size - 1) /\ Size \in Nat /\ Size > 0 /\ n \in Nat
  BY HomeInTable, SizeAssumption
<1> HIDE DEF h
<1>2. (h + n) % Size = IF h + n < Size THEN h + n ELSE h + n - Size
  BY <1>1, ModOnce
<1>3. (h + (n + 1)) % Size = IF h + (n + 1) < Size THEN h + (n + 1) ELSE h + (n + 1) - Size
  BY <1>1, ModOnce
<1>4. (h + 0) % Size = h
  BY <1>1, ModOnce
<1>5. (((h + n) % Size) + 1) % Size = (h + (n + 1)) % Size
  <2> DEFINE a == (h + n) % Size
  <2>1. a \in 0..(Size - 1) /\ a = IF h + n < Size THEN h + n ELSE h + n - Size
    BY <1>1, <1>2
  <2> HIDE DEF a
  <2>2. (a + 1) % Size = IF a + 1 < Size THEN a + 1 ELSE a + 1 - Size
    BY <1>1, <2>1, ModOnce
  <2> QED
    BY <1>1, <1>3, <2>1, <2>2 DEF a
<1>6. (h + n) % Size \in 0..(Size - 1)
  BY <1>1, <1>2
<1>7. (h + (n + 1)) % Size = h => n = Size - 1
  BY <1>1, <1>3
<1> QED
  BY <1>4, <1>5, <1>6, <1>7 DEF At, next, Slots, h

LEMMA ProbeReaches ==
  ASSUME NEW t \in Threads, NEW s \in Slots
  PROVE  \E m \in 0..(Size - 1) : At(t, m) = s
<1> DEFINE h == Home(t)
<1>1. h \in 0..(Size - 1) /\ s \in 0..(Size - 1) /\ Size \in Nat /\ Size > 0
  BY HomeInTable, SizeAssumption
<1> HIDE DEF h
<1>2. CASE h <= s
  <2>1. s - h \in 0..(Size - 1) /\ h + (s - h) = s /\ s % Size = s
    BY <1>1, <1>2, ModOnce
  <2> QED
    BY <2>1 DEF At, h
<1>3. CASE s < h
  <2>1. s - h + Size \in 0..(Size - 1) /\ h + (s - h + Size) = s + Size
    BY <1>1, <1>3
  <2>2. (s + Size) % Size = s
    BY <1>1, ModOnce
  <2> QED
    BY <2>1, <2>2 DEF At, h
<1> QED
  BY <1>1, <1>2, <1>3

-----------------------------------------------------------------------------
(* The invariant                                                           *)

Places == {"called", "look", "probe", "store", "name", "end"}
Walking(t) == hpc[t] \notin {"called", "end"}
Storing(t) == hpc[t] \in {"store", "name"}
Names == {"none"} \cup {Robot(t) : t \in Threads}

RaceType ==
  /\ hpc \in [Threads -> Places]
  /\ pos \in [Threads -> Slots]
  /\ index \in [Threads -> Int]
  /\ lpTable \in [Slots -> [bExists : BOOLEAN, of : Names]]

\* A thread that is called and not at its end has only taken slots behind it.
WalkInv == \A t \in Threads : Walking(t) => \E n \in 0..(Size - 1) : Probed(t, n)

\* Each taken slot was taken by a call of its own, which then names it.
TakenInv ==
  /\ \A s \in Slots : lpTable[s].bExists => \E t \in Threads : hpc[t] \in {"name", "end"} /\ pos[t] = s
  /\ \A t \in Threads : hpc[t] = "name" => lpTable[pos[t]].bExists

\* A thread no other overlapped is alone.
AloneInv ==
  \A t \in Threads \ overlapped : Walking(t) => \A u \in Threads : Walking(u) => u = t

\* A thread no other overlapped left its robot where a search reaches it, and no thread
\* is about to store there.
Kept(t) ==
  /\ lpTable[pos[t]] = [bExists |-> TRUE, of |-> Robot(t)]
  /\ \E n \in 0..(Size - 1) : Probed(t, n)
  /\ \A u \in Threads : Storing(u) => pos[u] # pos[t]
KeptInv == \A t \in Threads \ overlapped : hpc[t] = "end" => Kept(t)

RaceInv == RaceType /\ WalkInv /\ TakenInv /\ AloneInv /\ KeptInv
RaceSpec == RaceInit /\ [][RaceNext]_raceVars

\* A table that has a slot for every call is never full while a call looks for one.
LEMMA NeverRound ==
  ASSUME RaceInv, NEW t \in Threads, hpc[t] = "probe", NEW n \in 0..(Size - 1),
         Probed(t, n), lpTable[pos[t]].bExists
  PROVE  next(pos[t]) # Home(t)
<1> SUFFICES ASSUME next(pos[t]) = Home(t) PROVE FALSE
  OBVIOUS
<1> DEFINE others == Threads \ {t}
           slot == [u \in others |-> pos[u]]
<1>1. n = Size - 1
  BY ProbeSteps DEF Probed
<1>2. ASSUME NEW s \in Slots PROVE \E u \in others : pos[u] = s
  <2>1. PICK m \in 0..(Size - 1) : At(t, m) = s
    BY ProbeReaches
  <2>2. lpTable[s].bExists
    <3>1. CASE m = n
      BY <2>1, <3>1 DEF Probed
    <3>2. CASE m # n
      BY <1>1, <2>1, <3>2, SizeAssumption DEF Probed, Taken
    <3> QED
      BY <3>1, <3>2
  <2>3. PICK u \in Threads : hpc[u] \in {"name", "end"} /\ pos[u] = s
    BY <2>2 DEF RaceInv, TakenInv
  <2> QED
    BY <2>3
<1>3. IsFiniteSet(others) /\ Cardinality(others) = Cardinality(Threads) - 1
  BY RoomAssumption, FS_RemoveElement
<1>4. Slots \subseteq {pos[u] : u \in others}
  BY <1>2
<1>5. IsFiniteSet({pos[u] : u \in others}) /\ Cardinality({pos[u] : u \in others}) <= Cardinality(others)
  <2>1. slot \in Surjection(others, {pos[u] : u \in others})
    BY DEF Surjection
  <2> HIDE DEF others, slot
  <2> QED
    BY <1>3, <2>1, FS_Surjection
<1>6. Cardinality(Slots) = Size
  BY SizeAssumption, FS_Interval DEF Slots
<1>7. Cardinality(Slots) <= Cardinality({pos[u] : u \in others})
  BY <1>4, <1>5, FS_Subset
<1>8. Cardinality(Threads) \in Nat /\ Cardinality(others) \in Nat /\ Cardinality({pos[u] : u \in others}) \in Nat
  BY RoomAssumption, <1>3, <1>5, FS_CardinalityType
<1> HIDE DEF others
<1> QED
  BY <1>3, <1>5, <1>6, <1>7, <1>8, SizeAssumption, RoomAssumption

-----------------------------------------------------------------------------
(* The steps                                                               *)

LEMMA RaceInitial == RaceInit => RaceInv
<1> SUFFICES ASSUME RaceInit PROVE RaceInv
  OBVIOUS
<1>1. RaceType
  <2>1. 0 \in Slots /\ -1 \in Int
    BY SizeAssumption DEF Slots
  <2> QED
    BY <2>1 DEF RaceInit, RaceType, Places, Names
<1>2. WalkInv /\ AloneInv /\ KeptInv
  BY DEF RaceInit, WalkInv, AloneInv, KeptInv, Walking
<1>3. TakenInv
  BY DEF RaceInit, TakenInv
<1> QED
  BY <1>1, <1>2, <1>3 DEF RaceInv

\* A step that leaves the table as it is, of a thread that has not stored: it goes on
\* along its probe, finds its robot, or finds a slot that is not taken.
LEMMA LookKeeps ==
  ASSUME RaceInv, NEW t \in Threads, NEW to \in Places, NEW slot \in Slots, NEW found \in Int,
         Goes(t, to, slot, found), UNCHANGED lpTable, overlapped \subseteq overlapped',
         hpc[t] \in {"called", "look", "probe"}, to \in {"look", "probe", "store", "end"},
         \E n \in 0..(Size - 1) : slot = At(t, n) /\ Taken(t, n),
         to = "store" => ~lpTable[slot].bExists,
         to = "end" => Walking(t) /\ lpTable[slot] = [bExists |-> TRUE, of |-> Robot(t)]
  PROVE  RaceType' /\ WalkInv' /\ TakenInv' /\ KeptInv'
<1>1. RaceType /\ WalkInv /\ TakenInv /\ AloneInv /\ KeptInv
  BY DEF RaceInv
<1>2. RaceType'
  BY <1>1 DEF RaceType, Goes
<1>3. /\ hpc'[t] = to /\ pos'[t] = slot
      /\ \A u \in Threads : u # t => hpc'[u] = hpc[u] /\ pos'[u] = pos[u]
  BY <1>1 DEF RaceType, Goes
<1>4. \A u \in Threads, n \in Int : Taken(u, n)' <=> Taken(u, n)
  BY DEF Taken, At, Home, Robot
<1>5. \A u \in Threads, n \in Int : u # t => (Probed(u, n)' <=> Probed(u, n))
  BY <1>3, <1>4 DEF Probed, At, Home, Robot
<1>6. \E n \in 0..(Size - 1) : Probed(t, n)'
  BY <1>3, <1>4 DEF Probed, At, Home, Robot
<1>7. WalkInv'
  BY <1>1, <1>3, <1>5, <1>6 DEF WalkInv, Walking
<1>8. TakenInv'
  BY <1>1, <1>3 DEF TakenInv
<1>9. ASSUME NEW v \in Threads, v \notin overlapped', hpc'[v] = "end" PROVE Kept(v)'
  <2>1. CASE v = t
    <3>1. to = "end" /\ Walking(t)
      BY <1>3, <2>1, <1>9
    <3>2. \A u \in Threads : Storing(u)' => u = t
      BY <1>1, <1>3, <1>9, <2>1, <3>1 DEF AloneInv, Walking, Storing
    <3>3. ~Storing(t)'
      BY <1>3, <3>1 DEF Storing
    <3>4. lpTable'[pos'[v]] = [bExists |-> TRUE, of |-> Robot(v)]
      BY <1>3, <2>1, <3>1
    <3> QED
      BY <1>6, <2>1, <3>2, <3>3, <3>4 DEF Kept, Robot
  <2>2. CASE v # t
    <3>1. Kept(v)
      BY <1>1, <1>3, <1>9, <2>2 DEF KeptInv
    <3>2. pos'[v] = pos[v] /\ pos[v] \in Slots
      BY <1>1, <1>3, <2>2 DEF RaceType
    <3>3. \E n \in 0..(Size - 1) : Probed(v, n)'
      BY <1>5, <2>2, <3>1 DEF Kept
    <3>4. \A u \in Threads : Storing(u)' => pos'[u] # pos'[v]
      <4> SUFFICES ASSUME NEW u \in Threads, Storing(u)' PROVE pos'[u] # pos'[v]
        OBVIOUS
      <4>1. CASE u = t
        BY <1>3, <3>1, <3>2, <4>1 DEF Storing, Kept
      <4>2. CASE u # t
        BY <1>3, <3>1, <3>2, <4>2 DEF Storing, Kept
      <4> QED
        BY <4>1, <4>2
    <3>5. lpTable'[pos'[v]] = [bExists |-> TRUE, of |-> Robot(v)]
      BY <3>1, <3>2 DEF Kept
    <3> QED
      BY <3>3, <3>4, <3>5 DEF Kept, Robot
  <2> QED
    BY <2>1, <2>2
<1> QED
  BY <1>2, <1>7, <1>8, <1>9 DEF KeptInv

\* Who goes on or ends brings nobody beside another.
LEMMA AloneKept ==
  ASSUME RaceInv, NEW t \in Threads, Walking(t), UNCHANGED overlapped,
         \A u \in Threads : u # t => hpc'[u] = hpc[u]
  PROVE  AloneInv'
BY DEF RaceInv, AloneInv, Walking

LEMMA CallKeeps == ASSUME RaceInv, NEW t \in Threads, Call(t) PROVE RaceInv'
<1>1. Home(t) \in Slots /\ 0 \in 0..(Size - 1) /\ -1 \in Int /\ "look" \in Places
  BY HomeInTable, SizeAssumption DEF Places
<1>2. Home(t) = At(t, 0) /\ Taken(t, 0)
  BY <1>1, ProbeSteps DEF Taken
<1>3. Goes(t, "look", Home(t), -1) /\ UNCHANGED lpTable /\ overlapped \subseteq overlapped'
  BY DEF Call, Home
<1>4. RaceType' /\ WalkInv' /\ TakenInv' /\ KeptInv'
  BY <1>1, <1>2, <1>3, LookKeeps DEF Call
<1>5. AloneInv'
  <2>1. \A u \in Threads : u # t => hpc'[u] = hpc[u]
    BY DEF RaceInv, RaceType, Call, Goes
  <2>2. \A u \in Threads : Walking(u) <=> u \in Started
    BY DEF Walking, Started
  <2>3. CASE Started = {}
    BY <2>1, <2>2, <2>3 DEF AloneInv, Walking
  <2>4. CASE Started # {}
    <3>1. overlapped' = overlapped \cup Started \cup {t}
      BY <2>4 DEF Call
    <3> QED
      BY <2>1, <2>2, <3>1 DEF AloneInv, Walking
  <2> QED
    BY <2>3, <2>4
<1> QED
  BY <1>4, <1>5 DEF RaceInv

LEMMA GetHashTablePosKeeps == ASSUME RaceInv, NEW t \in Threads, GetHashTablePos(t) PROVE RaceInv'
<1>1. hpc[t] = "look" /\ UNCHANGED <<lpTable, overlapped>> /\ Walking(t)
  BY DEF GetHashTablePos, Walking
<1>2. PICK n \in 0..(Size - 1) : Probed(t, n)
  BY <1>1 DEF RaceInv, WalkInv
<1>3. pos[t] \in Slots /\ lpTable[pos[t]] \in [bExists : BOOLEAN, of : Names]
  BY DEF RaceInv, RaceType
<1>4. \A u \in Threads : u # t => hpc'[u] = hpc[u]
  BY DEF RaceInv, RaceType, GetHashTablePos, Goes
<1>5. {"look", "probe", "end"} \subseteq Places /\ -1 \in Int /\ pos[t] \in Int
  BY <1>3, SizeAssumption DEF Places, Slots
<1>6. RaceType' /\ WalkInv' /\ TakenInv' /\ KeptInv'
  <2>1. CASE lpTable[pos[t]].bExists /\ lpTable[pos[t]].of = Robot(t) /\ Goes(t, "end", pos[t], pos[t])
    <3>1. lpTable[pos[t]] = [bExists |-> TRUE, of |-> Robot(t)]
      BY <1>3, <2>1
    <3> QED
      BY <1>1, <1>2, <1>3, <1>5, <2>1, <3>1, LookKeeps DEF Probed
  <2>2. CASE lpTable[pos[t]].bExists /\ next(pos[t]) # Home(t) /\ Goes(t, "look", next(pos[t]), -1)
    <3>1. next(pos[t]) = At(t, n + 1) /\ n + 1 \in 0..(Size - 1)
      <4>1. n + 1 # Size
        <5> SUFFICES ASSUME n + 1 = Size PROVE FALSE
          OBVIOUS
        <5>1. At(t, n + 1) = Home(t)
          <6>1. (Home(t) + Size) % Size = Home(t)
            BY HomeInTable, ModOnce, SizeAssumption
          <6> QED
            BY <6>1 DEF At
        <5> QED
          BY <1>2, <2>2, <5>1, ProbeSteps DEF Probed
      <4> QED
        BY <1>2, <4>1, ProbeSteps, SizeAssumption DEF Probed
    <3>2. Taken(t, n + 1)
      BY <1>2, <2>2 DEF Probed, Taken
    <3>3. next(pos[t]) \in Slots
      BY <3>1, ProbeSteps
    <3> QED
      BY <1>1, <1>5, <2>2, <3>1, <3>2, <3>3, LookKeeps
  <2>3. CASE Goes(t, "probe", Home(t), -1)
    <3>1. Home(t) = At(t, 0) /\ Taken(t, 0) /\ 0 \in 0..(Size - 1) /\ Home(t) \in Slots
      BY HomeInTable, ProbeSteps, SizeAssumption DEF Taken
    <3> QED
      BY <1>1, <1>5, <2>3, <3>1, LookKeeps
  <2> QED
    BY <2>1, <2>2, <2>3 DEF GetHashTablePos, Home
<1> QED
  BY <1>1, <1>4, <1>6, AloneKept DEF RaceInv

LEMMA InsertHashKeeps == ASSUME RaceInv, NEW t \in Threads, InsertHash(t) PROVE RaceInv'
<1>1. hpc[t] = "probe" /\ UNCHANGED <<lpTable, overlapped>> /\ Walking(t)
  BY DEF InsertHash, Walking
<1>2. PICK n \in 0..(Size - 1) : Probed(t, n)
  BY <1>1 DEF RaceInv, WalkInv
<1>3. pos[t] \in Slots
  BY DEF RaceInv, RaceType
<1>4. \A u \in Threads : u # t => hpc'[u] = hpc[u]
  BY DEF RaceInv, RaceType, InsertHash, Goes
<1>5. {"probe", "store"} \subseteq Places /\ -1 \in Int
  BY DEF Places
<1>6. RaceType' /\ WalkInv' /\ TakenInv' /\ KeptInv'
  <2>1. CASE lpTable[pos[t]].bExists
    <3>1. next(pos[t]) # Home(t)
      BY <1>1, <1>2, <2>1, NeverRound
    <3>2. Goes(t, "probe", next(pos[t]), -1)
      BY <2>1, <3>1 DEF InsertHash, Home
    <3>3. next(pos[t]) = At(t, n + 1) /\ n + 1 \in 0..(Size - 1)
      <4>1. n + 1 # Size
        <5> SUFFICES ASSUME n + 1 = Size PROVE FALSE
          OBVIOUS
        <5>1. At(t, n + 1) = Home(t)
          <6>1. (Home(t) + Size) % Size = Home(t)
            BY HomeInTable, ModOnce, SizeAssumption
          <6> QED
            BY <6>1 DEF At
        <5> QED
          BY <1>2, <3>1, <5>1, ProbeSteps DEF Probed
      <4> QED
        BY <1>2, <4>1, ProbeSteps, SizeAssumption DEF Probed
    <3>4. Taken(t, n + 1)
      BY <1>2, <2>1 DEF Probed, Taken
    <3>5. next(pos[t]) \in Slots
      BY <3>3, ProbeSteps
    <3> QED
      BY <1>1, <1>5, <3>2, <3>3, <3>4, <3>5, LookKeeps
  <2>2. CASE ~lpTable[pos[t]].bExists
    <3>1. Goes(t, "store", pos[t], -1)
      BY <2>2 DEF InsertHash
    <3> QED
      BY <1>1, <1>2, <1>3, <1>5, <2>2, <3>1, LookKeeps DEF Probed
  <2> QED
    BY <2>1, <2>2
<1> QED
  BY <1>1, <1>4, <1>6, AloneKept DEF RaceInv

\* A store to a slot that no thread at its end, which none overlapped, has taken.
LEMMA StoreSpares ==
  ASSUME RaceInv, NEW t \in Threads, Storing(t), NEW v \in Threads \ overlapped, hpc[v] = "end",
         \A s \in Slots : s # pos[t] => lpTable'[s] = lpTable[s],
         \A s \in Slots : lpTable[s].bExists => lpTable'[s].bExists,
         \A u \in Threads : pos'[u] = pos[u] /\ (Storing(u)' => Storing(u))
  PROVE  Kept(v)'
<1>1. Kept(v) /\ pos[v] \in Slots /\ pos[v] # pos[t]
  BY DEF RaceInv, KeptInv, Kept, RaceType
<1>2. PICK n \in 0..(Size - 1) : Probed(v, n)
  BY <1>1 DEF Kept
<1>3. Probed(v, n)'
  <2>1. \A m \in 0..(n - 1) : At(v, m) \in Slots
    BY <1>2, ProbeSteps, SizeAssumption
  <2>2. \A m \in 0..(n - 1) : lpTable'[At(v, m)].bExists
    BY <1>2, <2>1 DEF Probed, Taken
  <2>3. pos'[v] = At(v, n)
    BY <1>2 DEF Probed
  <2> QED
    BY <2>2, <2>3 DEF Probed, Taken, At, Home, Robot
<1>4. lpTable'[pos'[v]] = [bExists |-> TRUE, of |-> Robot(v)]
  BY <1>1 DEF Kept
<1>5. \A u \in Threads : Storing(u)' => pos'[u] # pos'[v]
  BY <1>1 DEF Kept
<1> QED
  BY <1>3, <1>4, <1>5 DEF Kept, Robot

\* No store takes a slot back, so what lies behind a thread stays taken.
LEMMA WalkKept ==
  ASSUME RaceInv, \A s \in Slots : lpTable[s].bExists => lpTable'[s].bExists,
         \A u \in Threads : pos'[u] = pos[u] /\ (Walking(u)' => Walking(u))
  PROVE  WalkInv'
<1> SUFFICES ASSUME NEW u \in Threads, Walking(u)' PROVE \E n \in 0..(Size - 1) : Probed(u, n)'
  BY DEF WalkInv
<1>1. PICK n \in 0..(Size - 1) : Probed(u, n)
  BY DEF RaceInv, WalkInv
<1>2. \A m \in 0..(n - 1) : At(u, m) \in Slots
  BY <1>1, ProbeSteps, SizeAssumption
<1>3. \A m \in 0..(n - 1) : lpTable'[At(u, m)].bExists
  BY <1>1, <1>2 DEF Probed, Taken
<1>4. pos'[u] = At(u, n)
  BY <1>1 DEF Probed
<1> QED
  BY <1>3, <1>4 DEF Probed, Taken, At, Home, Robot

LEMMA StoreExistsKeeps == ASSUME RaceInv, NEW t \in Threads, StoreExists(t) PROVE RaceInv'
<1>1. RaceType
  BY DEF RaceInv
<1>2. hpc[t] = "store" /\ UNCHANGED overlapped /\ pos[t] \in Slots
  BY <1>1 DEF StoreExists, RaceType
<1>3. /\ hpc'[t] = "name" /\ \A u \in Threads : u # t => hpc'[u] = hpc[u]
      /\ \A u \in Threads : pos'[u] = pos[u]
  BY <1>1 DEF StoreExists, Goes, RaceType
<1>4. lpTable' = [lpTable EXCEPT ![pos[t]] = [@ EXCEPT !.bExists = TRUE]]
  BY DEF StoreExists
<1>5. /\ \A s \in Slots : s # pos[t] => lpTable'[s] = lpTable[s]
      /\ lpTable'[pos[t]].bExists
      /\ \A s \in Slots : lpTable[s].bExists => lpTable'[s].bExists
  BY <1>1, <1>2, <1>4 DEF RaceType
<1>6. RaceType'
  <2>1. lpTable' \in [Slots -> [bExists : BOOLEAN, of : Names]]
    BY <1>1, <1>2, <1>4 DEF RaceType
  <2>2. pos[t] \in Int
    BY <1>2, SizeAssumption DEF Slots
  <2>3. hpc' \in [Threads -> Places] /\ pos' \in [Threads -> Slots] /\ index' \in [Threads -> Int]
    BY <1>1, <1>2, <2>2 DEF StoreExists, Goes, RaceType, Places
  <2> QED
    BY <2>1, <2>3 DEF RaceType, Names, Robot
<1>7. WalkInv'
  <2>1. \A u \in Threads : Walking(u)' => Walking(u)
    BY <1>2, <1>3 DEF Walking
  <2> QED
    BY <1>3, <1>5, <2>1, WalkKept
<1>8. TakenInv'
  <2>1. TakenInv
    BY DEF RaceInv
  <2>2. ASSUME NEW s \in Slots, lpTable'[s].bExists
        PROVE  \E u \in Threads : hpc'[u] \in {"name", "end"} /\ pos'[u] = s
    <3>1. CASE s = pos[t]
      BY <1>3, <3>1
    <3>2. CASE s # pos[t]
      BY <1>2, <1>3, <1>5, <2>1, <2>2, <3>2 DEF TakenInv
    <3> QED
      BY <3>1, <3>2
  <2>3. ASSUME NEW u \in Threads, hpc'[u] = "name" PROVE lpTable'[pos'[u]].bExists
    <3>1. CASE u = t
      BY <1>3, <1>5, <3>1
    <3>2. CASE u # t
      BY <1>1, <1>3, <1>5, <2>1, <2>3, <3>2 DEF TakenInv, RaceType
    <3> QED
      BY <3>1, <3>2
  <2> QED
    BY <2>2, <2>3 DEF TakenInv
<1>9. AloneInv'
  BY <1>2, <1>3, AloneKept DEF Walking
<1>10. KeptInv'
  <2> SUFFICES ASSUME NEW v \in Threads \ overlapped, hpc'[v] = "end" PROVE Kept(v)'
    BY <1>2 DEF KeptInv
  <2>1. hpc[v] = "end" /\ Storing(t)
    BY <1>2, <1>3 DEF Storing
  <2>2. \A u \in Threads : Storing(u)' => Storing(u)
    BY <1>2, <1>3 DEF Storing
  <2> QED
    BY <1>3, <1>5, <2>1, <2>2, StoreSpares
<1> QED
  BY <1>6, <1>7, <1>8, <1>9, <1>10 DEF RaceInv

LEMMA StoreHashesKeeps == ASSUME RaceInv, NEW t \in Threads, StoreHashes(t) PROVE RaceInv'
<1>1. RaceType
  BY DEF RaceInv
<1>2. hpc[t] = "name" /\ UNCHANGED overlapped /\ pos[t] \in Slots /\ Storing(t) /\ Walking(t)
  BY <1>1 DEF StoreHashes, RaceType, Storing, Walking
<1>3. /\ hpc'[t] = "end" /\ \A u \in Threads : u # t => hpc'[u] = hpc[u]
      /\ \A u \in Threads : pos'[u] = pos[u]
  BY <1>1 DEF StoreHashes, Goes, RaceType
<1>4. lpTable' = [lpTable EXCEPT ![pos[t]] = [@ EXCEPT !.of = Robot(t)]]
  BY DEF StoreHashes
<1>5. /\ \A s \in Slots : s # pos[t] => lpTable'[s] = lpTable[s]
      /\ lpTable'[pos[t]] = [bExists |-> lpTable[pos[t]].bExists, of |-> Robot(t)]
      /\ \A s \in Slots : lpTable'[s].bExists = lpTable[s].bExists
  BY <1>1, <1>2, <1>4 DEF RaceType
<1>6. RaceType'
  <2>1. Robot(t) \in Names
    BY DEF Names
  <2>2. lpTable' \in [Slots -> [bExists : BOOLEAN, of : Names]]
    BY <1>1, <1>2, <1>4, <2>1 DEF RaceType
  <2>3. pos[t] \in Int
    BY <1>2, SizeAssumption DEF Slots
  <2>4. hpc' \in [Threads -> Places] /\ pos' \in [Threads -> Slots] /\ index' \in [Threads -> Int]
    BY <1>1, <1>2, <2>3 DEF StoreHashes, Goes, RaceType, Places
  <2> QED
    BY <2>2, <2>4 DEF RaceType, Names, Robot
<1>7. WalkInv'
  <2>1. \A u \in Threads : Walking(u)' => Walking(u)
    BY <1>2, <1>3 DEF Walking
  <2> QED
    BY <1>3, <1>5, <2>1, WalkKept
<1>8. TakenInv'
  BY <1>1, <1>2, <1>3, <1>5 DEF RaceInv, TakenInv, RaceType
<1>9. AloneInv'
  BY <1>2, <1>3, AloneKept
<1>10. KeptInv'
  <2> SUFFICES ASSUME NEW v \in Threads \ overlapped, hpc'[v] = "end" PROVE Kept(v)'
    BY <1>2 DEF KeptInv
  <2>1. \A u \in Threads : Storing(u)' => Storing(u)
    BY <1>2, <1>3 DEF Storing
  <2>2. CASE v # t
    <3>1. hpc[v] = "end"
      BY <1>3, <2>2
    <3> QED
      BY <1>2, <1>3, <1>5, <2>1, <3>1, StoreSpares
  <2>3. CASE v = t
    <3>1. \A u \in Threads : ~Storing(u)'
      <4>1. \A u \in Threads : Walking(u) => u = t
        BY <1>2, <2>3 DEF RaceInv, AloneInv
      <4> QED
        BY <1>3, <2>1, <4>1 DEF Storing, Walking
    <3>2. lpTable'[pos'[v]] = [bExists |-> TRUE, of |-> Robot(v)]
      <4>1. lpTable[pos[t]].bExists = TRUE
        BY <1>1, <1>2 DEF RaceInv, TakenInv, RaceType
      <4> QED
        BY <1>3, <1>5, <2>3, <4>1
    <3>3. \E n \in 0..(Size - 1) : Probed(v, n)'
      <4>1. PICK n \in 0..(Size - 1) : Probed(t, n)
        BY <1>2 DEF RaceInv, WalkInv
      <4>2. \A m \in 0..(n - 1) : At(t, m) \in Slots
        BY <4>1, ProbeSteps, SizeAssumption
      <4>3. \A m \in 0..(n - 1) : lpTable'[At(t, m)].bExists
        BY <1>5, <4>1, <4>2 DEF Probed, Taken
      <4>4. pos'[t] = At(t, n)
        BY <1>3, <4>1 DEF Probed
      <4> QED
        BY <2>3, <4>3, <4>4 DEF Probed, Taken, At, Home, Robot
    <3> QED
      BY <3>1, <3>2, <3>3 DEF Kept, Robot
  <2> QED
    BY <2>2, <2>3
<1> QED
  BY <1>6, <1>7, <1>8, <1>9, <1>10 DEF RaceInv

LEMMA RaceInvAlways == RaceSpec => []RaceInv
<1>1. RaceInv /\ [RaceNext]_raceVars => RaceInv'
  <2> SUFFICES ASSUME RaceInv, [RaceNext]_raceVars PROVE RaceInv'
    OBVIOUS
  <2>1. ASSUME NEW t \in Threads, Call(t) PROVE RaceInv'
    BY <2>1, CallKeeps
  <2>2. ASSUME NEW t \in Threads, GetHashTablePos(t) PROVE RaceInv'
    BY <2>2, GetHashTablePosKeeps
  <2>3. ASSUME NEW t \in Threads, InsertHash(t) PROVE RaceInv'
    BY <2>3, InsertHashKeeps
  <2>4. ASSUME NEW t \in Threads, StoreExists(t) PROVE RaceInv'
    BY <2>4, StoreExistsKeeps
  <2>5. ASSUME NEW t \in Threads, StoreHashes(t) PROVE RaceInv'
    BY <2>5, StoreHashesKeeps
  <2>6. CASE UNCHANGED raceVars
    BY <2>6 DEF raceVars, RaceInv, RaceType, WalkInv, TakenInv, AloneInv, KeptInv, Kept,
                Probed, Taken, At, Home, Robot, Walking, Storing, Names
  <2> QED
    BY <2>1, <2>2, <2>3, <2>4, <2>5, <2>6 DEF RaceNext
<1> QED
  BY RaceInitial, <1>1, PTL DEF RaceSpec

\* A robot whose registration no other overlapped is found from then on.
THEOREM RegisteredStaysFound == RaceSpec => []RegisteredIsFound
<1>1. RaceInv => RegisteredIsFound
  <2> SUFFICES ASSUME RaceInv, NEW t \in Threads, hpc[t] = "end", t \notin overlapped
               PROVE  Reached(Robot(t))
    BY DEF RegisteredIsFound
  <2>1. Kept(t)
    BY DEF RaceInv, KeptInv
  <2> QED
    BY <2>1 DEF Kept, Probed, Taken, At, Home, Reached
<1> QED
  BY <1>1, RaceInvAlways, PTL

-----------------------------------------------------------------------------
(***************************************************************************)
(* HttpClient                                                              *)
(***************************************************************************)
HttpSpec == HttpInit /\ [][HttpNext]_httpVars

\* The step of each call that writes: before it the socket is made, after it the answer
\* is read and the socket closed.
WriteStep == [post |-> 2, test |-> 2, sms |-> 3, gis |-> 4, command |-> 1]
LastStep  == [post |-> 4, test |-> 4, sms |-> 5, gis |-> 6, command |-> 1]

LEMMA StepsInOrder ==
  ASSUME NEW c \in DOMAIN Program
  PROVE  /\ Len(Program[c]) = LastStep[c]
         /\ WriteStep[c] \in Nat \ {0} /\ LastStep[c] = IF c = "command" THEN 1 ELSE WriteStep[c] + 2
         /\ c = "command" => WriteStep[c] = 1
         /\ \A s \in 1..LastStep[c] :
              /\ Program[c][s] = "write" <=> s = WriteStep[c]
              /\ Program[c][s] = "recv" => s = WriteStep[c] + 1
              /\ Program[c][s] = "close" => s = WriteStep[c] + 2
              /\ Program[c][s] = "connect" => s + 1 = WriteStep[c]
              /\ Program[c][s] \in {"lookup", "insert"} => s + 1 < WriteStep[c]
              /\ Program[c][s] \in {"write", "recv", "close", "lookup", "insert", "connect"}
<1>1. c \in {"post", "test", "sms", "gis", "command"}
  BY DEF Program
<1>2. CASE c \in {"post", "test"}
  <2>1. Program[c] = <<"connect", "write", "recv", "close">> /\ WriteStep[c] = 2 /\ LastStep[c] = 4
    BY <1>2 DEF Program, post, post_test, WriteStep, LastStep
  <2>2. 1..4 = {1, 2, 3, 4}
    OBVIOUS
  <2> QED
    BY <1>2, <2>1, <2>2
<1>3. CASE c = "sms"
  <2>1. Program[c] = <<"lookup", "connect", "write", "recv", "close">> /\ WriteStep[c] = 3 /\ LastStep[c] = 5
    BY <1>3 DEF Program, GisCommit, WriteStep, LastStep
  <2> QED
    BY <1>3, <2>1
<1>4. CASE c = "gis"
  <2>1. Program[c] = <<"lookup", "insert", "connect", "write", "recv", "close">> /\ WriteStep[c] = 4 /\ LastStep[c] = 6
    BY <1>4 DEF Program, GisStore, WriteStep, LastStep
  <2> QED
    BY <1>4, <2>1
<1>5. CASE c = "command"
  <2>1. Program[c] = <<"write">> /\ WriteStep[c] = 1 /\ LastStep[c] = 1
    BY <1>5 DEF Program, HttpCommand, WriteStep, LastStep
  <2> QED
    BY <1>5, <2>1
<1> QED
  BY <1>1, <1>2, <1>3, <1>4, <1>5

W == WriteStep[client]
Last == LastStep[client]

\* The bytes that were written and those that are left are the request; they are all
\* written once the call is past its write.
BytesInv ==
  /\ left \in 0..Length
  /\ written \in Seq(Nat) /\ Len(written) = Length - left
  /\ \A k \in 1..Len(written) : written[k] = k
  /\ step > W \/ result \in {"one", "index"} => left = 0

\* A call has no socket before it connects, and leaves none open.
SockInv ==
  client # "command" =>
    /\ step > 0 /\ step < W => sock = "none"
    /\ step = 0 => sock # "open"

HttpInv ==
  /\ client \in DOMAIN Program
  /\ step \in 0..Last
  /\ BytesInv /\ SockInv

\* Where a call stands, from what it does.
LEMMA Where ==
  ASSUME HttpInv
  PROVE  /\ W \in Nat \ {0} /\ Last = IF client = "command" THEN 1 ELSE W + 2
         /\ client = "command" => W = 1
         /\ Len(Program[client]) = Last
         /\ \A s : doing(s) => step \in 1..Last
         /\ doing("write") => step = W
         /\ doing("recv") => step = W + 1
         /\ doing("close") => step = W + 2
         /\ doing("lookup") \/ doing("insert") => step + 1 < W
         /\ doing("connect") => step + 1 = W
<1>1. \A s : doing(s) => step \in 1..Last
  BY StepsInOrder DEF HttpInv, doing, Last
<1> QED
  BY <1>1, StepsInOrder DEF HttpInv, doing, W, Last

LEMMA HttpStep == HttpInv /\ [HttpNext]_httpVars /\ Length \in Nat => HttpInv'
<1> SUFFICES ASSUME HttpInv, [HttpNext]_httpVars, Length \in Nat PROVE HttpInv'
  OBVIOUS
<1>0. BytesInv /\ SockInv /\ client \in DOMAIN Program /\ step \in 0..Last
  BY DEF HttpInv
\* Every step but WriteSome leaves the bytes alone, and moves the call on or ends it.
<1>1. ASSUME UNCHANGED <<client, left, written>>, step' \in 0..Last,
             step' > W \/ result' \in {"one", "index"} => left = 0,
             client # "command" /\ step' > 0 /\ step' < W => sock' = "none",
             client # "command" /\ step' = 0 => sock' # "open"
      PROVE  HttpInv'
  BY <1>0, <1>1 DEF HttpInv, BytesInv, SockInv, W, Last
<1>2. CASE GetIp
  <2>1. doing("lookup") /\ UNCHANGED <<client, left, written, sock>> /\ (GoOn \/ Return("zero"))
    BY <1>2 DEF GetIp
  <2>2. client # "command" /\ step # Last /\ step \in 1..Last /\ step + 1 < W
    BY <2>1, Where
  <2>3. sock = "none" /\ (result \in {"one", "index"} => left = 0)
    BY <1>0, <2>2, Where DEF SockInv, BytesInv
  <2>4. \/ step' = step + 1 /\ result' = result
        \/ step' = 0 /\ result' = "zero"
    BY <2>1, <2>2, Where DEF GoOn, Return
  <2> QED
    BY <1>1, <2>1, <2>2, <2>3, <2>4, Where
<1>3. CASE InsertRow
  <2>1. doing("insert") /\ UNCHANGED <<client, left, written, sock>> /\ GoOn
    BY <1>3 DEF InsertRow
  <2>2. client # "command" /\ step # Last /\ step \in 1..Last /\ step + 1 < W
    BY <2>1, Where
  <2>3. sock = "none" /\ (result \in {"one", "index"} => left = 0)
    BY <1>0, <2>2, Where DEF SockInv, BytesInv
  <2>4. step' = step + 1 /\ result' = result
    BY <2>1, <2>2, Where DEF GoOn, Return
  <2> QED
    BY <1>1, <2>1, <2>2, <2>3, <2>4, Where
<1>4. CASE Connect
  <2>1. doing("connect") /\ UNCHANGED <<client, left, written>>
        /\ (GoOn \/ (sock' = "closed" /\ Return("zero")))
    BY <1>4 DEF Connect
  <2>2. client # "command" /\ step # Last /\ step \in 1..Last /\ step + 1 = W
    BY <2>1, Where
  <2>3. result \in {"one", "index"} => left = 0
    BY <1>0 DEF BytesInv
  <2>4. \/ step' = step + 1 /\ result' = result
        \/ step' = 0 /\ result' = "zero" /\ sock' = "closed"
    BY <2>1, <2>2, Where DEF GoOn, Return
  <2> QED
    BY <1>1, <2>1, <2>2, <2>3, <2>4, Where
\* An error of select or of write ends the call and closes the socket.
<1>5. CASE WriteError \/ (Select /\ WriteFails)
  <2>1. WriteFails /\ UNCHANGED <<client, left, written>>
    BY <1>5 DEF WriteError, Select
  <2>2. step' = 0 /\ result' = "zero" /\ (client # "command" => sock' = "closed")
    BY <2>1 DEF WriteFails, Return
  <2> QED
    BY <1>1, <2>1, <2>2, Where
<1>6. ASSUME UNCHANGED <<client, step, sock, left, written, result>> PROVE HttpInv'
  BY <1>0, <1>6 DEF HttpInv, BytesInv, SockInv, W, Last
<1>7. CASE Select \/ WriteAgain \/ PeerReads \/ PeerAnswers \/ PeerCloses
  BY <1>5, <1>6, <1>7 DEF Select, WriteAgain, PeerReads, PeerAnswers, PeerCloses
<1>8. CASE Written
  <2>1. doing("write") /\ left = 0 /\ UNCHANGED <<client, left, written, sock>> /\ GoOn
    BY <1>8 DEF Written
  <2>2. step = W
    BY <2>1, Where
  <2>3. \/ step' = W + 1 /\ step # Last
        \/ step' = 0 /\ step = Last
    BY <2>1, <2>2, Where DEF GoOn, Return
  <2>4. step' \in 0..Last /\ (step' = 0 => client = "command") /\ (step' > 0 => step' > W)
    BY <2>2, <2>3, Where
  <2> QED
    BY <1>1, <2>1, <2>4, Where
<1>9. CASE Recv
  <2>1. /\ doing("recv") /\ UNCHANGED <<client, left, written, sock>>
        /\ GoOn \/ UNCHANGED <<step, result>>
    BY <1>9 DEF Recv
  <2>2. step = W + 1 /\ client # "command" /\ left = 0
    BY <1>0, <2>1, Where DEF BytesInv
  <2>3. step' \in {W + 1, W + 2}
    BY <2>1, <2>2, Where DEF GoOn, Return
  <2>4. step' \in 0..Last /\ step' > W
    BY <2>2, <2>3, Where
  <2> QED
    BY <1>1, <2>1, <2>2, <2>4, Where
<1>10. CASE Close
  <2>1. doing("close") /\ UNCHANGED <<client, left, written>> /\ sock' = "closed" /\ step' = 0
    BY <1>10 DEF Close, Return
  <2>2. left = 0
    BY <1>0, <2>1, Where DEF BytesInv
  <2> QED
    BY <1>1, <2>1, <2>2, Where
<1>11. CASE WriteSome
  <2>1. PICK n \in 1..Length :
          /\ n <= left /\ left' = left - n
          /\ written' = written \o [k \in 1..n |-> Length - left + k]
    BY <1>11 DEF WriteSome
  <2>2. doing("write") /\ UNCHANGED <<client, step, sock, result>>
    BY <1>11 DEF WriteSome
  <2>3. step = W
    BY <2>2, Where
  <2> DEFINE more == [k \in 1..n |-> Length - left + k]
  <2>4. more \in Seq(Nat) /\ Len(more) = n /\ \A k \in 1..n : more[k] = Length - left + k
    BY <1>0, <2>1 DEF BytesInv
  <2>5. written' = written \o more
    BY <2>1
  <2> HIDE DEF more
  <2>6. written \in Seq(Nat) /\ left \in 0..Length /\ Len(written) = Length - left /\ n \in Nat
    BY <1>0 DEF BytesInv
  <2>7. /\ written' \in Seq(Nat) /\ Len(written') = Len(written) + Len(more)
        /\ \A k \in 1..(Len(written) + Len(more)) :
             written'[k] = IF k <= Len(written) THEN written[k] ELSE more[k - Len(written)]
    BY <2>4, <2>5, <2>6, ConcatProperties
  <2>8. ASSUME NEW k \in 1..Len(written') PROVE written'[k] = k
    <3>1. k \in Nat /\ k <= Length - left + n /\ Len(written) = Length - left /\ Len(more) = n
      BY <2>4, <2>6, <2>7
    <3>2. CASE k <= Len(written)
      <4>1. written'[k] = written[k] /\ k \in 1..Len(written)
        BY <2>6, <2>7, <3>1, <3>2
      <4> QED
        BY <1>0, <4>1 DEF BytesInv
    <3>3. CASE ~(k <= Len(written))
      <4>1. written'[k] = more[k - Len(written)] /\ k - Len(written) \in 1..n
        BY <2>4, <2>6, <2>7, <3>1, <3>3
      <4> QED
        BY <2>4, <2>6, <3>1, <4>1
    <3> QED
      BY <3>2, <3>3
  <2>9. left' \in 0..Length /\ Len(written') = Length - left'
    BY <2>1, <2>4, <2>6, <2>7
  <2>10. ~(step' > W') /\ (result' \in {"one", "index"} => left' = 0)
    <3>1. result \in {"one", "index"} => left = 0
      BY <1>0 DEF BytesInv
    <3>2. W' = W
      BY <2>2 DEF W
    <3> QED
      BY <2>1, <2>2, <2>3, <2>6, <3>1, <3>2, Where
  <2>11. BytesInv'
    BY <2>2, <2>7, <2>8, <2>9, <2>10 DEF BytesInv
  <2> QED
    BY <1>0, <2>2, <2>11 DEF HttpInv, SockInv, W, Last
<1>12. CASE UNCHANGED httpVars
  BY <1>6, <1>12 DEF httpVars
<1> QED
  BY <1>2, <1>3, <1>4, <1>5, <1>7, <1>8, <1>9, <1>10, <1>11, <1>12 DEF HttpNext, HttpCall

LEMMA HttpInvAlways ==
  ASSUME Length \in Nat, Clients \subseteq DOMAIN Program
  PROVE  HttpSpec => []HttpInv
<1>1. HttpInit => HttpInv
  <2> SUFFICES ASSUME HttpInit PROVE HttpInv
    OBVIOUS
  <2>1. /\ client \in DOMAIN Program /\ step = 1 /\ left = Length /\ written = <<>> /\ result = "none"
        /\ client # "command" => sock = "none"
    BY DEF HttpInit
  <2>2. W \in Nat \ {0} /\ Last \in Nat \ {0}
    BY <2>1, StepsInOrder DEF W, Last
  <2> QED
    BY <2>1, <2>2 DEF HttpInv, BytesInv, SockInv
<1>2. HttpInv /\ [HttpNext]_httpVars => HttpInv'
  BY HttpStep
<1> QED
  BY <1>1, <1>2, PTL DEF HttpSpec

\* The peer gets the bytes of the request in their order, each once, and all of them before
\* the caller waits for the answer.
THEOREM RequestsInOrder ==
  ASSUME Length \in Nat, Clients \subseteq DOMAIN Program
  PROVE  HttpSpec => []RequestInOrder
<1>1. HttpInv => RequestInOrder
  <2> SUFFICES ASSUME HttpInv PROVE RequestInOrder
    OBVIOUS
  <2>1. BytesInv
    BY DEF HttpInv
  <2>2. written = [k \in 1..Len(written) |-> k]
    BY <2>1 DEF BytesInv
  <2>3. doing("recv") \/ doing("close") \/ result \in {"one", "index"} => left = 0
    BY <2>1, Where DEF BytesInv
  <2> QED
    BY <2>1, <2>2, <2>3 DEF BytesInv, RequestInOrder
<1> QED
  BY <1>1, HttpInvAlways, PTL

\* A call that returned has no socket left open.
THEOREM NoSocketStaysOpen ==
  ASSUME Length \in Nat, Clients \subseteq DOMAIN Program
  PROVE  HttpSpec => []NoSocketLeft
<1>1. HttpInv => NoSocketLeft
  BY DEF HttpInv, SockInv, NoSocketLeft
<1> QED
  BY <1>1, HttpInvAlways, PTL

-----------------------------------------------------------------------------
(***************************************************************************)
(* LogFile                                                                 *)
(***************************************************************************)
CallPlaces == {"idle", "head", "body", "end", "wait", "write", "post"}
LogSpec == LogInit /\ [][LogNext]_logVars

-----------------------------------------------------------------------------
(* The file                                                                *)

Holding(t) == lpc[t] \in {"write", "post"}
Changing == mpc \in {"close", "open", "post", "log_close"}
Used == {f \in Descriptors : files[f] # 0}

FileTypes ==
  /\ lpc \in [Callers -> CallPlaces] /\ fd \in [Callers -> Int]
  /\ mpc \in {"stat", "wait", "close", "open", "post", "log_close"}
  /\ sem \in {0, 1} /\ logFd \in Descriptors /\ files \in [Descriptors -> Int]
  /\ LogFile \in Nat \ {0} /\ opens \in 0..MaxOpens
  /\ stray \in BOOLEAN /\ raced \in BOOLEAN

\* The semaphore is held by one thread or by LogManage.
SemInv ==
  /\ \A t \in Callers : Holding(t) => sem = 0 /\ ~Changing /\ \A u \in Callers : Holding(u) => u = t
  /\ Changing => sem = 0

\* While no descriptor was opened at the wrong moment, the log keeps its number, which is
\* the lowest, and every call has read that number.
NumberInv ==
  ~raced =>
    /\ logFd = Lfd /\ ~stray
    /\ \A t \in Callers : lpc[t] # "idle" => fd[t] = Lfd
    /\ mpc = "open" => files[Lfd] = 0
    /\ mpc \notin {"open", "log_close"} => files[Lfd] = LogFile

\* Those in use are the log's and those that were opened, so one is always free.
FreeInv ==
  /\ mpc \in {"open", "log_close"} => Cardinality(Used) <= opens
  /\ mpc \notin {"open", "log_close"} => files[logFd] # 0 /\ Cardinality(Used) <= opens + 1

FileInv == FileTypes /\ SemInv /\ NumberInv /\ FreeInv

LEMMA DescriptorsCounted ==
  ASSUME MaxOpens \in Nat
  PROVE  /\ IsFiniteSet(Descriptors) /\ Cardinality(Descriptors) = MaxOpens + 2
         /\ Descriptors \subseteq Nat /\ Lfd \in Descriptors /\ \A f \in Descriptors : Lfd <= f
BY FS_Interval DEF Descriptors, Lfd

\* A set of naturals has a least member.
LEMMA Least ==
  ASSUME NEW T, T \subseteq Nat, T # {}
  PROVE  \E i \in T : \A j \in T : i <= j
<1> DEFINE R == OpToRel(<, Nat)
<1>1. \A i, j \in Nat : i < j => <<i, j>> \in R
  BY ZenonT(20) DEF OpToRel
<1>2. IsWellFoundedOn(R, Nat)
  BY NatLessThanWellFounded, Zenon
<1>3. PICK i \in T : \A j \in T : <<j, i>> \notin R
  <2> HIDE DEF R
  <2> QED
    BY <1>2, WFMin
<1> HIDE DEF R
<1>4. ASSUME NEW j \in T PROVE i <= j
  <2>1. i \in Nat /\ j \in Nat
    OBVIOUS
  <2>2. ~(j < i)
    BY <1>1, <1>3, <2>1, Zenon
  <2> QED
    BY <2>1, <2>2
<1> QED
  BY <1>4

\* A free descriptor is given, and none below it is free.
LEMMA LowestIsFree ==
  ASSUME NEW f \in Descriptors, files[f] = 0, MaxOpens \in Nat
  PROVE  /\ Lowest(files) \in Descriptors /\ files[Lowest(files)] = 0
         /\ files[Lfd] = 0 => Lowest(files) = Lfd
<1> DEFINE free == {g \in Descriptors : files[g] = 0}
<1>1. free \subseteq Nat /\ free # {}
  BY DescriptorsCounted
<1>2. PICK g \in free : \A h \in free : g <= h
  BY <1>1, Least
<1>3. \E g2 \in Descriptors : files[g2] = 0 /\ \A h \in Descriptors : files[h] = 0 => g2 <= h
  BY <1>2
<1>4. /\ Lowest(files) \in Descriptors /\ files[Lowest(files)] = 0
      /\ \A h \in Descriptors : files[h] = 0 => Lowest(files) <= h
  BY <1>3 DEF Lowest
<1> QED
  BY <1>4, DescriptorsCounted

\* With descriptors left to open, one is free.
LEMMA OneIsFree ==
  ASSUME FileInv, MaxOpens \in Nat, opens < MaxOpens \/ mpc = "open"
  PROVE  \E f \in Descriptors : files[f] = 0
<1> SUFFICES ASSUME \A f \in Descriptors : files[f] # 0 PROVE FALSE
  OBVIOUS
<1>1. Used = Descriptors
  BY DEF Used
<1>2. Cardinality(Used) = MaxOpens + 2
  BY <1>1, DescriptorsCounted
<1> QED
  BY <1>2 DEF FileInv, FreeInv, FileTypes

\* One descriptor more, or one less, in use.
LEMMA UsedMore ==
  ASSUME FileTypes, MaxOpens \in Nat, NEW f \in Descriptors, files[f] = 0, NEW x \in Int, x # 0,
         files' = [files EXCEPT ![f] = x]
  PROVE  Cardinality(Used)' = Cardinality(Used) + 1 /\ Cardinality(Used) \in Nat
<1>1. Used' = Used \cup {f} /\ f \notin Used /\ IsFiniteSet(Used)
  BY DescriptorsCounted, FS_Subset DEF Used, FileTypes
<1> QED
  BY <1>1, FS_AddElement, FS_CardinalityType

LEMMA UsedLess ==
  ASSUME FileTypes, MaxOpens \in Nat, NEW f \in Descriptors, files[f] # 0, files' = [files EXCEPT ![f] = 0]
  PROVE  Cardinality(Used)' = Cardinality(Used) - 1 /\ Cardinality(Used) \in Nat
<1>1. Used' = Used \ {f} /\ f \in Used /\ IsFiniteSet(Used)
  BY DescriptorsCounted, FS_Subset DEF Used, FileTypes
<1> QED
  BY <1>1, FS_RemoveElement, FS_CardinalityType

LEMMA FileStep ==
  ASSUME MaxOpens \in Nat, FileInv, [LogNext]_logVars
  PROVE  FileInv'
<1>0. FileTypes /\ SemInv /\ NumberInv /\ FreeInv
  BY DEF FileInv
\* A step that is neither a caller's nor changes a descriptor.
<1>1. ASSUME NEW t \in Callers, Prepare(t) PROVE FileInv'
  <2>1. /\ lpc[t] = "idle" /\ lpc' = [lpc EXCEPT ![t] = "head"] /\ fd' = [fd EXCEPT ![t] = logFd]
        /\ UNCHANGED <<sem, logFd, files, LogFile, stray, mpc, raced, opens>>
    BY <1>1 DEF Prepare
  <2>2. /\ lpc'[t] = "head" /\ fd'[t] = logFd
        /\ \A u \in Callers : u # t => lpc'[u] = lpc[u] /\ fd'[u] = fd[u]
    BY <1>0, <2>1 DEF FileTypes
  <2>3. FileTypes'
    BY <1>0, <2>1, DescriptorsCounted DEF FileTypes, CallPlaces
  <2>4. \A u \in Callers : Holding(u)' => Holding(u)
    BY <2>2 DEF Holding
  <2>5. SemInv'
    BY <1>0, <2>1, <2>4 DEF SemInv, Changing
  <2>6. NumberInv'
    BY <1>0, <2>1, <2>2 DEF NumberInv
  <2>7. FreeInv'
    BY <1>0, <2>1 DEF FreeInv, Used
  <2> QED
    BY <2>3, <2>5, <2>6, <2>7 DEF FileInv
<1>2. ASSUME NEW t \in Callers, lprintf(t) PROVE FileInv'
  <2>1. PICK to \in CallPlaces : lpc' = [lpc EXCEPT ![t] = to]
    BY <1>2 DEF lprintf, DateAndLevel, Body, LineEnd, Wait, Write, Post, Format, CallPlaces
  <2>2. /\ lpc[t] # "idle" /\ UNCHANGED <<fd, logFd, files, LogFile, mpc, raced, opens>>
    BY <1>2 DEF lprintf, DateAndLevel, Body, LineEnd, Wait, Write, Post, Format
  <2>3. lpc'[t] = to /\ \A u \in Callers : u # t => lpc'[u] = lpc[u]
    BY <1>0, <2>1 DEF FileTypes
  <2>4. sem' \in {0, 1} /\ SemInv'
    <3>1. CASE Wait(t)
      <4>1. sem = 1 /\ sem' = 0 /\ lpc'[t] = "write"
        BY <1>0, <3>1 DEF Wait, FileTypes
      <4> QED
        BY <1>0, <2>2, <2>3, <4>1 DEF SemInv, Holding, Changing
    <3>2. CASE Post(t)
      <4>1. Holding(t) /\ lpc'[t] = "idle" /\ sem' = sem + 1
        BY <1>0, <3>2 DEF Post, Holding, FileTypes
      <4> QED
        BY <1>0, <2>2, <2>3, <4>1 DEF SemInv, Holding, Changing
    <3>3. CASE ~Wait(t) /\ ~Post(t)
      <4>1. sem' = sem /\ (Holding(t)' => Holding(t))
        BY <1>0, <1>2, <2>3, <3>3 DEF lprintf, DateAndLevel, Body, LineEnd, Write, Format, Holding, FileTypes
      <4>2. \A u \in Callers : Holding(u)' => Holding(u)
        BY <2>3, <4>1 DEF Holding
      <4> QED
        BY <1>0, <2>2, <4>1, <4>2 DEF SemInv, Changing, FileTypes
    <3> QED
      BY <3>1, <3>2, <3>3
  <2>5. stray' \in BOOLEAN /\ (~raced => ~stray')
    <3>1. CASE Write(t)
      <4>1. /\ stray' = (stray \/ files[fd[t]] # LogFile)
            /\ lpc[t] = "write"
        BY <3>1 DEF Write
      <4>2. mpc \notin {"open", "log_close"}
        BY <1>0, <4>1 DEF SemInv, Holding, Changing
      <4>3. ~raced => ~stray /\ files[fd[t]] = LogFile
        BY <1>0, <4>1, <4>2 DEF NumberInv
      <4> QED
        BY <1>0, <4>1, <4>3 DEF FileTypes
    <3>2. CASE ~Write(t)
      BY <1>0, <1>2, <3>2 DEF lprintf, DateAndLevel, Body, LineEnd, Wait, Post, Format, FileTypes, NumberInv
    <3> QED
      BY <3>1, <3>2
  <2>6. FileTypes'
    BY <1>0, <2>1, <2>2, <2>4, <2>5 DEF FileTypes
  <2>7. NumberInv'
    BY <1>0, <2>2, <2>3, <2>5 DEF NumberInv
  <2>8. FreeInv'
    BY <1>0, <2>2 DEF FreeInv, Used
  <2> QED
    BY <2>4, <2>6, <2>7, <2>8 DEF FileInv
<1>3. CASE LogManage
  <2>1. UNCHANGED <<lpc, fd, stray, raced, opens>> /\ \A u \in Callers : Holding(u)' <=> Holding(u)
    BY <1>3 DEF LogManage, TooLong, WaitToChange, CloseOld, OpenNew, PostChanged, Manages, Holding
  <2>2. CASE TooLong
    <3>1. mpc = "stat" /\ mpc' = "wait" /\ UNCHANGED <<sem, logFd, files, LogFile>>
      BY <2>2 DEF TooLong, Manages
    <3>2. FileTypes'
      BY <1>0, <2>1, <3>1 DEF FileTypes
    <3>3. SemInv' /\ NumberInv'
      BY <1>0, <2>1, <3>1 DEF SemInv, NumberInv, Changing
    <3>4. FreeInv'
      BY <1>0, <2>1, <3>1 DEF FreeInv, Used
    <3> QED
      BY <3>2, <3>3, <3>4 DEF FileInv
  <2>3. CASE WaitToChange
    <3>1. mpc = "wait" /\ mpc' = "close" /\ sem > 0 /\ sem' = sem - 1 /\ UNCHANGED <<logFd, files, LogFile>>
      BY <2>3 DEF WaitToChange, Manages
    <3>2. FileTypes'
      BY <1>0, <2>1, <3>1 DEF FileTypes
    <3>3. SemInv' /\ NumberInv'
      BY <1>0, <2>1, <3>1 DEF SemInv, NumberInv, Changing, FileTypes
    <3>4. FreeInv'
      BY <1>0, <2>1, <3>1 DEF FreeInv, Used
    <3> QED
      BY <3>2, <3>3, <3>4 DEF FileInv
  <2>4. CASE CloseOld
    <3>1. /\ mpc = "close" /\ mpc' = "open" /\ files' = [files EXCEPT ![logFd] = 0]
          /\ UNCHANGED <<sem, logFd, LogFile>>
      BY <2>4 DEF CloseOld, Manages
    <3>2. FileTypes'
      BY <1>0, <2>1, <3>1 DEF FileTypes
    <3>3. SemInv' /\ NumberInv'
      BY <1>0, <2>1, <3>1 DEF SemInv, NumberInv, Changing, FileTypes
    <3>4. FreeInv'
      <4>1. logFd \in Descriptors /\ files[logFd] # 0
        BY <1>0, <3>1 DEF FreeInv, FileTypes
      <4>2. Cardinality(Used)' = Cardinality(Used) - 1 /\ Cardinality(Used) \in Nat
        BY <1>0, <3>1, <4>1, UsedLess
      <4> QED
        BY <1>0, <2>1, <3>1, <4>2 DEF FreeInv, FileTypes
    <3> QED
      BY <3>2, <3>3, <3>4 DEF FileInv
  <2>5. CASE OpenNew
    <3>1. CASE mpc' = "post"
      <4>1. /\ mpc = "open" /\ logFd' = Lowest(files) /\ LogFile' = LogFile + 1
            /\ files' = [files EXCEPT ![Lowest(files)] = LogFile + 1] /\ UNCHANGED sem
        BY <2>5, <3>1 DEF OpenNew, Manages
      <4>2. PICK f \in Descriptors : files[f] = 0
        BY <4>1, OneIsFree
      <4>3. /\ Lowest(files) \in Descriptors /\ files[Lowest(files)] = 0
            /\ ~raced => Lowest(files) = Lfd
        BY <1>0, <4>1, <4>2, LowestIsFree DEF NumberInv
      <4> DEFINE low == Lowest(files)
      <4> HIDE DEF low
      <4>4. /\ low \in Descriptors /\ files[low] = 0 /\ (~raced => low = Lfd)
            /\ logFd' = low /\ files' = [files EXCEPT ![low] = LogFile + 1]
        BY <4>1, <4>3 DEF low
      <4>5. LogFile + 1 \in Nat \ {0} /\ LogFile + 1 \in Int /\ LogFile + 1 # 0
        BY <1>0 DEF FileTypes
      <4>6. FileTypes'
        BY <1>0, <2>1, <3>1, <4>1, <4>4, <4>5 DEF FileTypes
      <4>7. SemInv'
        BY <1>0, <2>1, <3>1, <4>1 DEF SemInv, Changing
      <4>8. NumberInv'
        BY <1>0, <2>1, <3>1, <4>1, <4>4 DEF NumberInv, FileTypes
      <4>9. FreeInv'
        <5>1. Cardinality(Used)' = Cardinality(Used) + 1
          BY <1>0, <4>4, <4>5, UsedMore
        <5>2. Cardinality(Used) \in Nat
          BY <1>0, <4>4, <4>5, UsedMore
        <5>3. files'[logFd'] # 0
          BY <1>0, <4>4, <4>5 DEF FileTypes
        <5> QED
          BY <1>0, <2>1, <3>1, <4>1, <5>1, <5>2, <5>3 DEF FreeInv, FileTypes
      <4> QED
        BY <4>6, <4>7, <4>8, <4>9 DEF FileInv
    <3>2. CASE mpc' # "post"
      <4>1. mpc = "open" /\ mpc' = "log_close" /\ LogFile' = LogFile + 1 /\ UNCHANGED <<sem, logFd, files>>
        BY <2>5, <3>2 DEF OpenNew, Manages
      <4>2. FileTypes'
        BY <1>0, <2>1, <4>1 DEF FileTypes
      <4>3. SemInv' /\ NumberInv'
        BY <1>0, <2>1, <4>1 DEF SemInv, NumberInv, Changing, FileTypes
      <4>4. FreeInv'
        BY <1>0, <2>1, <4>1 DEF FreeInv, Used
      <4> QED
        BY <4>2, <4>3, <4>4 DEF FileInv
    <3> QED
      BY <3>1, <3>2
  <2>6. CASE PostChanged
    <3>1. mpc = "post" /\ mpc' = "stat" /\ sem' = sem + 1 /\ UNCHANGED <<logFd, files, LogFile>>
      BY <2>6 DEF PostChanged, Manages
    <3>2. FileTypes'
      BY <1>0, <2>1, <3>1 DEF FileTypes, SemInv, Changing
    <3>3. SemInv' /\ NumberInv'
      BY <1>0, <2>1, <3>1 DEF SemInv, NumberInv, Changing, FileTypes
    <3>4. FreeInv'
      BY <1>0, <2>1, <3>1 DEF FreeInv, Used
    <3> QED
      BY <3>2, <3>3, <3>4 DEF FileInv
  <2> QED
    BY <1>3, <2>2, <2>3, <2>4, <2>5, <2>6 DEF LogManage
<1>4. CASE OpenElsewhere
  <2> DEFINE low == Lowest(files)
  <2>1. /\ opens < MaxOpens /\ opens' = opens + 1 /\ raced' = (raced \/ mpc = "open")
        /\ files' = [files EXCEPT ![low] = -1]
        /\ UNCHANGED <<lpc, fd, sem, logFd, LogFile, stray, mpc>>
    BY <1>4 DEF OpenElsewhere
  <2>2. PICK f \in Descriptors : files[f] = 0
    BY <2>1, OneIsFree
  <2>3. low \in Descriptors /\ files[low] = 0
    BY <2>2, LowestIsFree
  <2> HIDE DEF low
  <2>4. raced' \in BOOLEAN /\ (~raced' => ~raced /\ mpc # "open")
    BY <1>0, <2>1 DEF FileTypes
  <2>5. FileTypes'
    BY <1>0, <2>1, <2>3, <2>4 DEF FileTypes
  <2>6. SemInv'
    BY <1>0, <2>1 DEF SemInv, Holding, Changing
  <2>7. NumberInv'
    <3>1. files[Lfd] # 0 => files'[Lfd] = files[Lfd]
      BY <1>0, <2>1, <2>3, DescriptorsCounted DEF FileTypes
    <3> QED
      BY <1>0, <2>1, <2>4, <3>1 DEF NumberInv, FileTypes
  <2>8. FreeInv'
    <3>1. Cardinality(Used)' = Cardinality(Used) + 1 /\ Cardinality(Used) \in Nat
      <4>1. -1 \in Int /\ -1 # 0
        OBVIOUS
      <4> QED
        BY <1>0, <2>1, <2>3, <4>1, UsedMore
    <3>2. files[logFd] # 0 => files'[logFd] # 0
      BY <1>0, <2>1, <2>3 DEF FileTypes
    <3> QED
      BY <1>0, <2>1, <3>1, <3>2 DEF FreeInv, FileTypes
  <2> QED
    BY <2>5, <2>6, <2>7, <2>8 DEF FileInv
<1>5. CASE UNCHANGED logVars
  BY <1>5 DEF logVars, FileInv, FileTypes, SemInv, NumberInv, FreeInv, Used, Holding, Changing
<1> QED
  BY <1>1, <1>2, <1>3, <1>4, <1>5 DEF LogNext

\* A line goes to the log, unless a descriptor was opened elsewhere between the close and
\* the open of a change of file.
THEOREM LinesGoToTheLog ==
  ASSUME MaxOpens \in Nat
  PROVE  LogSpec => []LinesReachTheLog
<1>1. LogInit => FileInv
  <2> SUFFICES ASSUME LogInit PROVE FileInv
    OBVIOUS
  <2>1. FileTypes
    <3>1. files \in [Descriptors -> Int]
      BY DEF LogInit
    <3>2. lpc \in [Callers -> CallPlaces] /\ fd \in [Callers -> Int]
      BY DEF LogInit, CallPlaces
    <3>3. stray \in BOOLEAN /\ raced \in BOOLEAN
      BY DEF LogInit
    <3> QED
      BY <3>1, <3>2, <3>3, DescriptorsCounted DEF LogInit, FileTypes
  <2>2. SemInv /\ NumberInv
    BY DescriptorsCounted DEF LogInit, SemInv, NumberInv, Holding, Changing
  <2>3. FreeInv
    <3>1. Used = {Lfd}
      BY DescriptorsCounted DEF LogInit, Used
    <3> QED
      <4>1. Cardinality({Lfd}) = 1
        BY FS_Singleton
      <4>2. files[Lfd] = 1 /\ logFd = Lfd /\ mpc = "stat" /\ opens = 0
        BY DescriptorsCounted DEF LogInit
      <4> QED
        BY <3>1, <4>1, <4>2 DEF FreeInv
  <2> QED
    BY <2>1, <2>2, <2>3 DEF FileInv
<1>2. FileInv => LinesReachTheLog
  BY DEF FileInv, FileTypes, NumberInv, LinesReachTheLog
<1>3. FileInv /\ [LogNext]_logVars => FileInv'
  BY FileStep
<1> QED
  BY <1>1, <1>2, <1>3, PTL DEF LogSpec

-----------------------------------------------------------------------------
(***************************************************************************)
(* GisServer                                                               *)
(***************************************************************************)
Ids == Boxes \cup {None}
Packs == {"heart", "register", "gis"}
JobPlaces == {"idle", "read", "test", "tflag", "id", "count", "fill", "mktime", "insert"}

Links   == [open : BOOLEAN, box : Ids, packs : Seq(Packs), fin : BOOLEAN, before : SUBSET Ids, early : BOOLEAN]
Entries == [tfd : BOOLEAN, tflag : BOOLEAN, id : Ids, over : BOOLEAN]
Jobs    == [pc : JobPlaces, fd : Fds \cup {0}, of : Ids, date : Ids \cup {"now"}, id : Ids,
            beside : SUBSET Ids, before : SUBSET Ids]
Visits  == [at : {"scan", "close", "closeNew", "clear", "clearNew"}, fd : Fds \cup {0}]

GisTypes ==
  /\ link \in [Fds -> Links] /\ rInfo \in [Fds -> Entries]
  /\ R_CON_NUM \in Int
  /\ queue \in Seq(Fds)
  /\ job \in [Pool -> Jobs]
  /\ \A w \in Pool : job[w].pc # "idle" => job[w].fd \in Fds
  /\ mg \in Visits /\ (mg.at # "scan" => mg.fd \in Fds)
  /\ tm \in Ids \cup {"now"}

\* The ids that are in an entry, or on their way into it.
HasId(f, n) == rInfo[f].id = n \/ \E w \in Pool : w \in Registering(f) /\ job[w].of = n

\* A closed connection leaves nothing behind; in the entry of an open one there is its
\* box's id, none, or one of those it was accepted with.
LinkInv ==
  \A f \in Fds :
    IF link[f].open THEN \A n \in Ids : HasId(f, n) => n \in {None, link[f].box} \cup link[f].before
    ELSE link[f] = Free

Reporting(w) == job[w].pc \in {"fill", "mktime", "insert"}

\* What may be the date of a report of a box with others beside it.
DateOf(d, of, beside) == d = of \/ (beside # {} /\ d \in beside \cup {"now"})

\* What is so of every report, with whatever is worked on beside it.
ReportOk(w) ==
  LET j == job[w] IN
  /\ \A n \in Ids : HasId(j.fd, n) => n \in {None, j.of} \cup j.before
  /\ link[j.fd].open => link[j.fd].box \in {j.of} \cup j.before
  /\ j.pc = "mktime" => DateOf(tm, j.of, j.beside)
  /\ j.pc = "insert" => DateOf(j.date, j.of, j.beside) /\ j.id \in {None, j.of} \cup j.before
  /\ \A v \in Pool : Reporting(v) /\ v # w => job[v].of \in j.beside
ReportInv == \A w \in Pool : Reporting(w) => ReportOk(w)

GisInv == GisTypes /\ LinkInv /\ ReportInv /\ RowOfOneReport
GisSpec == GisInit /\ [][GisNext]_gisVars

-----------------------------------------------------------------------------
LEMMA GisInitial == GisInit => GisInv
<1> SUFFICES ASSUME GisInit PROVE GisInv
  OBVIOUS
<1>1. GisTypes
  BY DEF GisInit, GisTypes, Free, Unused, Idle, Scan, Ids, JobPlaces, Links, Entries, Jobs, Visits
<1>2. LinkInv
  BY DEF GisInit, LinkInv, Free
<1>3. ReportInv /\ RowOfOneReport
  BY DEF GisInit, ReportInv, RowOfOneReport, Reporting, Idle
<1> QED
  BY <1>1, <1>2, <1>3 DEF GisInv

\* A step that brings no id into an entry but that of its open connection, opens no
\* connection and leaves the reports alone keeps the invariant.
LEMMA Quiet ==
  ASSUME GisInv, GisTypes', UNCHANGED <<tm, rows>>,
         \A w \in Pool : Reporting(w)' => Reporting(w) /\ job'[w] = job[w],
         \A f \in Fds : link'[f].open => /\ link[f].open /\ link'[f].box = link[f].box
                                         /\ link'[f].before = link[f].before,
         \A f \in Fds : ~link'[f].open => link'[f] = Free,
         \A f \in Fds : \A n \in Ids :
           HasId(f, n)' => HasId(f, n) \/ n = None \/ (link[f].open /\ n = link[f].box)
  PROVE  GisInv'
<1>0. GisTypes /\ LinkInv /\ ReportInv /\ RowOfOneReport
  BY DEF GisInv
<1>1. LinkInv'
  <2> SUFFICES ASSUME NEW f \in Fds
               PROVE  IF link'[f].open
                      THEN \A n \in Ids : HasId(f, n)' => n \in {None, link'[f].box} \cup link'[f].before
                      ELSE link'[f] = Free
    BY DEF LinkInv, Free
  <2>1. CASE link'[f].open
    BY <1>0, <2>1 DEF LinkInv
  <2> QED
    BY <2>1
<1>2. ASSUME NEW w \in Pool, Reporting(w)' PROVE ReportOk(w)'
  <2>1. ReportOk(w) /\ job'[w] = job[w] /\ job[w].fd \in Fds
    BY <1>0, <1>2 DEF ReportInv, GisTypes, Reporting
  <2>2. \A n \in Ids : HasId(job[w].fd, n)' => n \in {None, job[w].of} \cup job[w].before
    BY <2>1 DEF ReportOk
  <2>3. link'[job[w].fd].open => link'[job[w].fd].box \in {job[w].of} \cup job[w].before
    BY <2>1 DEF ReportOk
  <2>4. \A v \in Pool : Reporting(v)' /\ v # w => job'[v].of \in job[w].beside
    BY <2>1 DEF ReportOk
  <2> QED
    BY <2>1, <2>2, <2>3, <2>4 DEF ReportOk
<1>3. RowOfOneReport'
  BY <1>0 DEF RowOfOneReport
<1> QED
  BY <1>1, <1>2, <1>3 DEF GisInv, ReportInv

-----------------------------------------------------------------------------
(* The boxes, the epoll thread, and the manager                             *)

LEMMA AcceptKeeps == ASSUME GisInv, NEW box \in Boxes, Accept(box) PROVE GisInv'
<1>0. GisTypes /\ LinkInv /\ ReportInv /\ RowOfOneReport
  BY DEF GisInv
<1>1. PICK f \in Fds :
        /\ ~link[f].open
        /\ link' = [link EXCEPT ![f] =
             [open |-> TRUE, box |-> box, packs |-> <<>>, fin |-> FALSE, before |-> Left(f),
              early |-> mg.at \in {"clear", "clearNew"} /\ mg.fd = f]]
        /\ rInfo' = [rInfo EXCEPT ![f].tfd = TRUE, ![f].over = FALSE]
        /\ job' = [w \in Pool |-> IF w \in InGisInfo /\ job[w].fd = f
                                  THEN [job[w] EXCEPT !.before = @ \cup {box}] ELSE job[w]]
  BY DEF Accept
<1>2. UNCHANGED <<R_CON_NUM, queue, mg, tm, rows>>
  BY DEF Accept
<1>3. box \in Ids /\ \A w \in Pool : job[w].of \in Ids
  BY <1>0 DEF Ids, GisTypes, Jobs
<1>4. Left(f) \in SUBSET Ids
  BY <1>0, <1>3 DEF Left, Registering, GisTypes, Entries
<1>5. \A w \in Pool :
        /\ job'[w] \in Jobs
        /\ job'[w].pc = job[w].pc /\ job'[w].fd = job[w].fd /\ job'[w].of = job[w].of
        /\ job'[w].date = job[w].date /\ job'[w].id = job[w].id /\ job'[w].beside = job[w].beside
        /\ job[w].before \subseteq job'[w].before
        /\ Reporting(w) /\ job[w].fd = f => box \in job'[w].before
  <2> SUFFICES ASSUME NEW w \in Pool
               PROVE  /\ job'[w] \in Jobs
                      /\ job'[w].pc = job[w].pc /\ job'[w].fd = job[w].fd /\ job'[w].of = job[w].of
                      /\ job'[w].date = job[w].date /\ job'[w].id = job[w].id /\ job'[w].beside = job[w].beside
                      /\ job[w].before \subseteq job'[w].before
                      /\ Reporting(w) /\ job[w].fd = f => box \in job'[w].before
    OBVIOUS
  <2>1. job[w] \in Jobs /\ job[w].before \cup {box} \in SUBSET Ids
    BY <1>0, <1>3 DEF GisTypes, Jobs
  <2>2. [job[w] EXCEPT !.before = @ \cup {box}] \in Jobs
    BY <2>1 DEF Jobs
  <2>3. CASE w \in InGisInfo /\ job[w].fd = f
    <3>1. job'[w] = [job[w] EXCEPT !.before = @ \cup {box}]
      BY <1>1, <2>3
    <3> QED
      BY <2>1, <2>2, <3>1 DEF Jobs
  <2>4. CASE ~(w \in InGisInfo /\ job[w].fd = f)
    <3>1. job'[w] = job[w]
      BY <1>1, <2>4
    <3>2. ~(Reporting(w) /\ job[w].fd = f)
      BY <2>4 DEF Reporting, InGisInfo
    <3> QED
      BY <2>1, <3>1, <3>2
  <2> QED
    BY <2>3, <2>4
<1>6. /\ link'[f].open /\ link'[f].box = box /\ link'[f].before = Left(f) /\ link'[f] \in Links
      /\ \A g \in Fds : g # f => link'[g] = link[g]
  BY <1>0, <1>1, <1>3, <1>4 DEF GisTypes, Links, Packs
<1>7. \A g \in Fds : rInfo'[g] \in Entries /\ rInfo'[g].id = rInfo[g].id
  BY <1>0, <1>1 DEF GisTypes, Entries
<1>8. \A g \in Fds : \A n \in Ids : HasId(g, n)' => HasId(g, n)
  BY <1>5, <1>7 DEF HasId, Registering
<1>9. GisTypes'
  <2>1. link' \in [Fds -> Links] /\ rInfo' \in [Fds -> Entries] /\ job' \in [Pool -> Jobs]
    BY <1>0, <1>1, <1>5, <1>6, <1>7 DEF GisTypes
  <2> QED
    BY <1>0, <1>2, <1>5, <2>1 DEF GisTypes
<1>10. LinkInv'
  <2> SUFFICES ASSUME NEW g \in Fds
               PROVE  IF link'[g].open
                      THEN \A n \in Ids : HasId(g, n)' => n \in {None, link'[g].box} \cup link'[g].before
                      ELSE link'[g] = Free
    BY DEF LinkInv, Free
  <2>1. CASE g = f
    <3>1. \A n \in Ids : HasId(f, n) => n = None \/ n \in Left(f)
      BY DEF HasId, Left
    <3> QED
      BY <1>6, <1>8, <2>1, <3>1
  <2>2. CASE g # f
    BY <1>0, <1>6, <1>8, <2>2 DEF LinkInv
  <2> QED
    BY <2>1, <2>2
<1>11. ASSUME NEW w \in Pool, Reporting(w)' PROVE ReportOk(w)'
  <2>1. ReportOk(w) /\ job[w].fd \in Fds /\ Reporting(w)
    BY <1>0, <1>5, <1>11 DEF ReportInv, GisTypes, Reporting
  <2>2. \A n \in Ids : HasId(job[w].fd, n)' => n \in {None, job[w].of} \cup job'[w].before
    BY <1>5, <1>8, <2>1 DEF ReportOk
  <2>3. link'[job[w].fd].open => link'[job[w].fd].box \in {job[w].of} \cup job'[w].before
    BY <1>5, <1>6, <2>1 DEF ReportOk
  <2>4. \A v \in Pool : Reporting(v)' /\ v # w => job[v].of \in job[w].beside
    BY <1>5, <2>1 DEF ReportOk, Reporting
  <2> QED
    BY <1>2, <1>5, <2>1, <2>2, <2>3, <2>4 DEF ReportOk
<1>12. RowOfOneReport'
  BY <1>0, <1>2 DEF RowOfOneReport
<1> QED
  BY <1>9, <1>10, <1>11, <1>12 DEF GisInv, ReportInv

\* Steps of the boxes, the epoll thread and the manager that leave jobs alone, change no
\* connection but what its box sent, and bring no id into an entry.
LEMMA Outer ==
  ASSUME GisInv, UNCHANGED <<job, tm, rows>>, R_CON_NUM' \in Int,
         link' \in [Fds -> Links], rInfo' \in [Fds -> Entries], queue' \in Seq(Fds),
         mg' \in Visits, mg'.at # "scan" => mg'.fd \in Fds,
         \A g \in Fds : \/ link'[g] = Free
                        \/ link[g].open /\ link'[g].open /\ link'[g].box = link[g].box
                                        /\ link'[g].before = link[g].before,
         \A g \in Fds : rInfo'[g].id \in {rInfo[g].id, None}
  PROVE  GisInv'
<1>0. GisTypes /\ LinkInv
  BY DEF GisInv
<1>1. GisTypes'
  BY <1>0 DEF GisTypes
<1>2. \A f \in Fds : \A n \in Ids : HasId(f, n)' => HasId(f, n) \/ n = None
  BY DEF HasId, Registering
<1>3. \A w \in Pool : Reporting(w)' => Reporting(w) /\ job'[w] = job[w]
  BY DEF Reporting
<1>4. ~Free.open
  BY DEF Free
<1> QED
  BY <1>1, <1>2, <1>3, <1>4, Quiet

LEMMA GisOuterSteps ==
  ASSUME GisInv,
         \/ \E f \in Fds : (\E pack \in Packs : Arrives(f, pack)) \/ HangsUp(f) \/ TimeOver(f)
         \/ RClientManage
  PROVE  GisInv'
<1>0. GisTypes /\ LinkInv
  BY DEF GisInv
<1>1. /\ link \in [Fds -> Links] /\ rInfo \in [Fds -> Entries] /\ queue \in Seq(Fds)
      /\ mg \in Visits /\ (mg.at # "scan" => mg.fd \in Fds) /\ R_CON_NUM \in Int
      /\ \A g \in Fds : link[g].open \/ link[g] = Free
  BY <1>0 DEF GisTypes, LinkInv
<1>2. ASSUME NEW f \in Fds, NEW pack \in Packs, Arrives(f, pack) PROVE GisInv'
  <2>1. link' = [link EXCEPT ![f].packs = Append(@, pack)] /\ link[f].open /\ queue' = Append(queue, f)
        /\ UNCHANGED <<rInfo, R_CON_NUM, job, mg, tm, rows>>
    BY <1>2 DEF Arrives
  <2>2. link[f].packs \in Seq(Packs)
    BY <1>1 DEF Links
  <2>3. Append(link[f].packs, pack) \in Seq(Packs)
    BY <2>2
  <2>4. queue' \in Seq(Fds)
    BY <1>1, <2>1
  <2>5. [link[f] EXCEPT !.packs = Append(@, pack)] \in Links
    BY <1>1, <2>3 DEF Links
  <2>6. link' = [link EXCEPT ![f] = [link[f] EXCEPT !.packs = Append(@, pack)]]
    BY <1>1, <2>1
  <2> DEFINE l == [link[f] EXCEPT !.packs = Append(@, pack)]
  <2>7. l \in Links /\ l.open = link[f].open /\ l.box = link[f].box /\ l.before = link[f].before
    BY <1>1, <2>5 DEF Links
  <2>8. link' = [link EXCEPT ![f] = l]
    BY <2>6
  <2> HIDE DEF l
  <2>9. link' \in [Fds -> Links]
        /\ \A g \in Fds : \/ link'[g] = Free
                          \/ link[g].open /\ link'[g].open /\ link'[g].box = link[g].box
                                          /\ link'[g].before = link[g].before
    BY <1>1, <2>1, <2>7, <2>8
  <2> QED
    BY <1>1, <2>1, <2>4, <2>9, Outer
<1>3. ASSUME NEW f \in Fds, HangsUp(f) \/ TimeOver(f) PROVE GisInv'
  <2>1. /\ \/ link' = [link EXCEPT ![f].fin = TRUE]
           \/ link' = link
        /\ rInfo' = [rInfo EXCEPT ![f].over = TRUE] /\ link[f].open
        /\ UNCHANGED <<R_CON_NUM, queue, job, mg, tm, rows>>
    BY <1>3 DEF HangsUp, TimeOver
  <2>2. link' \in [Fds -> Links]
    <3> DEFINE l == [link[f] EXCEPT !.fin = TRUE]
    <3>1. l \in Links
      BY <1>1 DEF Links
    <3>2. link' = [link EXCEPT ![f] = l] \/ link' = link
      BY <1>1, <2>1
    <3> HIDE DEF l
    <3> QED
      BY <1>1, <3>1, <3>2
  <2>3. \A g \in Fds : \/ link'[g] = Free
                       \/ link[g].open /\ link'[g].open /\ link'[g].box = link[g].box
                                       /\ link'[g].before = link[g].before
    <3> DEFINE l == [link[f] EXCEPT !.fin = TRUE]
    <3>1. l.open = link[f].open /\ l.box = link[f].box /\ l.before = link[f].before
      BY <1>1 DEF Links
    <3>2. link' = [link EXCEPT ![f] = l] \/ link' = link
      BY <1>1, <2>1
    <3> HIDE DEF l
    <3> QED
      BY <1>1, <2>1, <3>1, <3>2
  <2>4. rInfo' \in [Fds -> Entries] /\ \A g \in Fds : rInfo'[g].id = rInfo[g].id
    BY <1>1, <2>1 DEF Entries
  <2> QED
    BY <1>1, <2>1, <2>2, <2>3, <2>4, Outer
<1>4. ASSUME NEW f \in Fds, Visit(f) PROVE GisInv'
  <2>1. mg' = [at |-> IF rInfo[f].tfd /\ rInfo[f].tflag THEN "close" ELSE "closeNew", fd |-> f]
        /\ UNCHANGED <<link, rInfo, R_CON_NUM, queue, job, tm, rows>>
    BY <1>4 DEF Visit
  <2>2. mg' \in Visits /\ mg'.fd \in Fds
    BY <2>1 DEF Visits
  <2> QED
    BY <1>1, <2>1, <2>2, Outer
<1>5. CASE ManagerCloses
  <2>1. /\ mg.at \in {"close", "closeNew"}
        /\ link' = IF rInfo[mg.fd].tfd THEN [link EXCEPT ![mg.fd] = Free] ELSE link
        /\ mg' = [mg EXCEPT !.at = IF mg.at = "close" THEN "clear" ELSE "clearNew"]
        /\ UNCHANGED <<rInfo, R_CON_NUM, queue, job, tm, rows>>
    BY <1>5 DEF ManagerCloses
  <2>2. mg' \in Visits /\ mg'.fd \in Fds
    BY <1>1, <2>1 DEF Visits
  <2>3. Free \in Links
    BY DEF Free, Links, Ids
  <2>4. link' \in [Fds -> Links] /\ \A g \in Fds : link'[g] \in {link[g], Free}
    BY <1>1, <2>1, <2>3
  <2> QED
    BY <1>1, <2>1, <2>2, <2>4, Outer
<1>6. CASE Clear \/ ClearNew
  <2>1. /\ mg.fd \in Fds /\ mg' = Scan /\ R_CON_NUM' \in {R_CON_NUM, R_CON_NUM - 1}
        /\ \/ rInfo' = [rInfo EXCEPT ![mg.fd] = [@ EXCEPT !.tfd = FALSE, !.tflag = FALSE, !.id = None]]
           \/ rInfo' = [rInfo EXCEPT ![mg.fd] = [@ EXCEPT !.tfd = FALSE, !.tflag = FALSE]]
        /\ UNCHANGED <<link, queue, job, tm, rows>>
    BY <1>1, <1>6 DEF Clear, ClearNew
  <2>2. None \in Ids
    BY DEF Ids
  <2>5. rInfo' \in [Fds -> Entries] /\ \A g \in Fds : rInfo'[g].id \in {rInfo[g].id, None}
    <3> DEFINE e == [rInfo[mg.fd] EXCEPT !.tfd = FALSE, !.tflag = FALSE, !.id = None]
               d == [rInfo[mg.fd] EXCEPT !.tfd = FALSE, !.tflag = FALSE]
    <3>1. e \in Entries /\ e.id = None /\ d \in Entries /\ d.id = rInfo[mg.fd].id
      <4> DEFINE r == rInfo[mg.fd]
      <4>1. r \in Entries
        BY <1>1, <2>1
      <4> HIDE DEF r
      <4>2. [r EXCEPT !.tfd = FALSE, !.tflag = FALSE, !.id = None] \in Entries
            /\ [r EXCEPT !.tfd = FALSE, !.tflag = FALSE, !.id = None].id = None
            /\ [r EXCEPT !.tfd = FALSE, !.tflag = FALSE] \in Entries
            /\ [r EXCEPT !.tfd = FALSE, !.tflag = FALSE].id = r.id
        BY <2>2, <4>1 DEF Entries
      <4> QED
        BY <4>2 DEF r
    <3>2. rInfo' = [rInfo EXCEPT ![mg.fd] = e] \/ rInfo' = [rInfo EXCEPT ![mg.fd] = d]
      <4>1. CASE rInfo' = [rInfo EXCEPT ![mg.fd] = [@ EXCEPT !.tfd = FALSE, !.tflag = FALSE, !.id = None]]
        BY Zenon, <4>1
      <4>2. CASE rInfo' = [rInfo EXCEPT ![mg.fd] = [@ EXCEPT !.tfd = FALSE, !.tflag = FALSE]]
        BY Zenon, <4>2
      <4> QED
        BY <2>1, <4>1, <4>2
    <3> HIDE DEF e, d
    <3> QED
      BY <1>1, <2>1, <3>1, <3>2
  <2>6. mg' \in Visits /\ mg'.at = "scan" /\ R_CON_NUM' \in Int
    BY <1>1, <2>1 DEF Visits, Scan
  <2> QED
    BY <1>1, <2>1, <2>5, <2>6, Outer
<1> QED
  BY <1>2, <1>3, <1>4, <1>5, <1>6 DEF RClientManage

-----------------------------------------------------------------------------
(* The threads of the pool, away from GisInfo                               *)

\* A step of w away from GisInfo: what it is about to store is its packet's, as before.
LEMMA OwnQuiet ==
  ASSUME GisInv, NEW w \in Pool, NEW j \in Jobs, job' = [job EXCEPT ![w] = j],
         j.pc \notin {"fill", "mktime", "insert"}, j.pc # "idle" => j.fd \in Fds,
         link' \in [Fds -> Links],
         \A g \in Fds : /\ link'[g].open = link[g].open /\ link'[g].box = link[g].box
                        /\ link'[g].before = link[g].before
                        /\ ~link[g].open => link'[g] = link[g],
         rInfo' \in [Fds -> Entries],
         \A g \in Fds : rInfo'[g].id = rInfo[g].id \/ HasId(g, rInfo'[g].id),
         R_CON_NUM' \in Int, queue' \in Seq(Fds), UNCHANGED <<mg, tm, rows>>,
         j.pc \in {"test", "tflag", "id"} =>
           \/ w \in Registering(j.fd) /\ j.of = job[w].of
           \/ link[j.fd].open /\ j.of = link[j.fd].box
  PROVE  GisInv'
<1>0. GisTypes /\ LinkInv
  BY DEF GisInv
<1>1. job'[w] = j /\ \A v \in Pool : v # w => job'[v] = job[v]
  BY <1>0 DEF GisTypes
<1>2. GisTypes'
  BY <1>0, <1>1 DEF GisTypes
<1>3. ASSUME NEW f \in Fds, NEW n \in Ids, HasId(f, n)'
      PROVE  HasId(f, n) \/ n = None \/ (link[f].open /\ n = link[f].box)
  <2>1. CASE rInfo'[f].id = n
    BY <2>1 DEF HasId
  <2>2. ASSUME NEW v \in Pool, (v \in Registering(f))', job'[v].of = n
        PROVE  HasId(f, n) \/ (link[f].open /\ n = link[f].box)
    <3>1. CASE v # w
      BY <1>1, <2>2, <3>1 DEF HasId, Registering
    <3>2. CASE v = w
      <4>1. j.pc \in {"test", "tflag", "id"} /\ j.fd = f /\ j.of = n
        BY <1>1, <2>2, <3>2 DEF Registering
      <4> QED
        BY <4>1 DEF HasId
    <3> QED
      BY <3>1, <3>2
  <2> QED
    BY <1>3, <2>1, <2>2 DEF HasId
<1>4. \A v \in Pool : Reporting(v)' => Reporting(v) /\ job'[v] = job[v]
  BY <1>1 DEF Reporting
<1>5. \A f \in Fds : ~link'[f].open => link'[f] = Free
  BY <1>0 DEF LinkInv
<1> QED
  BY <1>2, <1>3, <1>4, <1>5, Quiet

\* What setting one field of an entry leaves.
LEMMA EntryFields ==
  ASSUME rInfo \in [Fds -> Entries], NEW f
  PROVE  /\ \A b \in BOOLEAN :
              /\ [rInfo EXCEPT ![f].over = b] \in [Fds -> Entries]
              /\ \A g \in Fds : [rInfo EXCEPT ![f].over = b][g].id = rInfo[g].id
         /\ [rInfo EXCEPT ![f].tflag = TRUE] \in [Fds -> Entries]
         /\ \A g \in Fds : [rInfo EXCEPT ![f].tflag = TRUE][g].id = rInfo[g].id
         /\ \A n \in Ids :
              /\ [rInfo EXCEPT ![f].id = n] \in [Fds -> Entries]
              /\ \A g \in Fds : [rInfo EXCEPT ![f].id = n][g].id = IF g = f THEN n ELSE rInfo[g].id
<1>1. ASSUME NEW b \in BOOLEAN
      PROVE  /\ [rInfo EXCEPT ![f].over = b] \in [Fds -> Entries]
             /\ \A g \in Fds : [rInfo EXCEPT ![f].over = b][g].id = rInfo[g].id
  BY DEF Entries
<1>2. /\ [rInfo EXCEPT ![f].tflag = TRUE] \in [Fds -> Entries]
      /\ \A g \in Fds : [rInfo EXCEPT ![f].tflag = TRUE][g].id = rInfo[g].id
  BY DEF Entries
<1>3. ASSUME NEW n \in Ids
      PROVE  /\ [rInfo EXCEPT ![f].id = n] \in [Fds -> Entries]
             /\ \A g \in Fds : [rInfo EXCEPT ![f].id = n][g].id = IF g = f THEN n ELSE rInfo[g].id
  BY DEF Entries
<1> QED
  BY <1>1, <1>2, <1>3

LEMMA GisReads ==
  ASSUME GisInv, NEW w \in Pool, NEW pack, Reads(w, pack)
  PROVE  /\ job[w].fd \in Fds /\ link[job[w].fd].open /\ job[w].pc = "read"
         /\ link' \in [Fds -> Links]
         /\ \A g \in Fds : /\ link'[g].open = link[g].open /\ link'[g].box = link[g].box
                           /\ link'[g].before = link[g].before
                           /\ ~link[g].open => link'[g] = link[g]
<1>1. GisTypes /\ LinkInv
  BY DEF GisInv
<1> DEFINE f == job[w].fd
<1>2. job[w].pc = "read" /\ link[f].packs # <<>> /\ link' = [link EXCEPT ![f].packs = Tail(@)]
  BY DEF Reads
<1>3. f \in Fds
  BY <1>1, <1>2 DEF GisTypes
<1>4. link[f].open
  BY <1>1, <1>2, <1>3 DEF LinkInv, Free
<1>5. link[f] \in Links /\ link[f].packs \in Seq(Packs)
  BY <1>1, <1>3 DEF GisTypes, Links
<1>6. Tail(link[f].packs) \in Seq(Packs)
  BY <1>2, <1>5
<1> HIDE DEF f
<1> DEFINE l == [link[f] EXCEPT !.packs = Tail(@)]
<1>7. l \in Links /\ l.open = link[f].open /\ l.box = link[f].box /\ l.before = link[f].before
  BY <1>5, <1>6 DEF Links
<1>8. link' = [link EXCEPT ![f] = l]
  BY <1>1, <1>2, <1>3 DEF GisTypes
<1> HIDE DEF l
<1>9. link' \in [Fds -> Links]
  BY <1>1, <1>7, <1>8 DEF GisTypes
<1>10. \A g \in Fds : /\ link'[g].open = link[g].open /\ link'[g].box = link[g].box
                      /\ link'[g].before = link[g].before
                      /\ ~link[g].open => link'[g] = link[g]
  BY <1>1, <1>3, <1>4, <1>7, <1>8 DEF GisTypes
<1> QED
  BY <1>2, <1>3, <1>4, <1>9, <1>10 DEF f

\* UpdateRClient, and the job after it.
LEMMA DoneFacts ==
  ASSUME GisTypes, NEW w \in Pool, job[w].fd \in Fds, Done(w)
  PROVE  \E j \in Jobs : /\ job' = [job EXCEPT ![w] = j] /\ j.pc = "read" /\ j.fd = job[w].fd
                         /\ rInfo' \in [Fds -> Entries] /\ \A g \in Fds : rInfo'[g].id = rInfo[g].id
<1> DEFINE j == [Idle EXCEPT !.pc = "read", !.fd = job[w].fd]
<1>1. j \in Jobs /\ j.pc = "read" /\ j.fd = job[w].fd
  BY DEF Idle, Jobs, JobPlaces, Ids
<1>2. job' = [job EXCEPT ![w] = j] /\ rInfo' = [rInfo EXCEPT ![job[w].fd].over = FALSE]
  BY DEF Done
<1> HIDE DEF j
<1>3. rInfo' \in [Fds -> Entries] /\ \A g \in Fds : rInfo'[g].id = rInfo[g].id
  BY <1>2 DEF GisTypes, Entries
<1> QED
  BY <1>1, <1>2, <1>3

LEMMA GisQuietSteps ==
  ASSUME GisInv, NEW w \in Pool,
         \/ Take(w) \/ NothingToRead(w) \/ Heart(w) \/ Register(w) \/ Registered(w)
         \/ NotRegistered(w) \/ RobotInit(w)
  PROVE  GisInv'
<1>0. GisTypes /\ LinkInv
  BY DEF GisInv
<1>1. /\ link \in [Fds -> Links] /\ rInfo \in [Fds -> Entries] /\ queue \in Seq(Fds) /\ R_CON_NUM \in Int
      /\ job[w] \in Jobs /\ Idle \in Jobs
  BY <1>0 DEF GisTypes, Idle, Jobs, JobPlaces, Ids
<1>2. UNCHANGED <<mg, tm, rows>>
  BY DEF Take, NothingToRead, Heart, Register, Registered, NotRegistered, RobotInit, SetTflag, SetId, Count
<1>3. CASE Take(w)
  <2> DEFINE j == [Idle EXCEPT !.pc = "read", !.fd = Head(queue)]
  <2>1. Head(queue) \in Fds /\ Tail(queue) \in Seq(Fds)
    BY <1>1, <1>3 DEF Take
  <2>2. j \in Jobs /\ j.pc = "read" /\ j.fd \in Fds
    BY <1>1, <2>1 DEF Jobs, JobPlaces, Idle
  <2>3. job' = [job EXCEPT ![w] = j] /\ UNCHANGED <<link, rInfo, R_CON_NUM>> /\ queue' = Tail(queue)
    BY <1>3 DEF Take
  <2> HIDE DEF j
  <2> QED
    BY <1>1, <1>2, <2>1, <2>2, <2>3, OwnQuiet
<1>4. CASE NothingToRead(w)
  <2> DEFINE f == job[w].fd
  <2>1. /\ job' = [job EXCEPT ![w] = Idle] /\ UNCHANGED <<link, R_CON_NUM, queue>>
        /\ rInfo' = rInfo \/ rInfo' = [rInfo EXCEPT ![f].over = TRUE]
    BY <1>4 DEF NothingToRead
  <2> HIDE DEF f
  <2>2. rInfo' \in [Fds -> Entries] /\ \A g \in Fds : rInfo'[g].id = rInfo[g].id
    <3>1. CASE rInfo' = rInfo
      BY <1>1, <3>1
    <3>2. CASE rInfo' = [rInfo EXCEPT ![f].over = TRUE]
      BY Zenon, <1>1, <3>2, EntryFields
    <3> QED
      BY <2>1, <3>1, <3>2
  <2>3. Idle.pc = "idle"
    BY DEF Idle
  <2> QED
    BY <1>1, <1>2, <2>1, <2>2, <2>3, OwnQuiet
<1>5. CASE Heart(w)
  <2>1. Reads(w, "heart") /\ Done(w) /\ UNCHANGED <<R_CON_NUM, queue>>
    BY <1>5 DEF Heart
  <2>2. PICK j \in Jobs : /\ job' = [job EXCEPT ![w] = j] /\ j.pc = "read" /\ j.fd = job[w].fd
                          /\ rInfo' \in [Fds -> Entries] /\ \A g \in Fds : rInfo'[g].id = rInfo[g].id
    BY <1>0, <2>1, GisReads, DoneFacts
  <2> QED
    BY <1>1, <1>2, <2>1, <2>2, GisReads, OwnQuiet
<1>6. CASE Register(w)
  <2> DEFINE of == link[job[w].fd].box
             j == [job[w] EXCEPT !.pc = "test", !.of = of]
  <2>1. Reads(w, "register") /\ job' = [job EXCEPT ![w] = j] /\ UNCHANGED <<rInfo, R_CON_NUM, queue>>
    BY <1>6 DEF Register
  <2>2. job[w].fd \in Fds /\ link[job[w].fd].open /\ of \in Ids
    BY <1>1, <2>1, GisReads DEF Links
  <2> HIDE DEF of
  <2>3. j \in Jobs /\ j.pc = "test" /\ j.fd = job[w].fd /\ j.of = of
    BY <1>1, <2>2 DEF Jobs, JobPlaces
  <2> HIDE DEF j
  <2>4. link[j.fd].open /\ j.of = link[j.fd].box /\ j.fd \in Fds
    BY <2>2, <2>3 DEF of
  <2> QED
    BY <1>1, <1>2, <2>1, <2>3, <2>4, GisReads, OwnQuiet
<1>7. CASE Registered(w) \/ Count(w)
  <2>1. Done(w) /\ job[w].fd \in Fds /\ R_CON_NUM' \in Int /\ UNCHANGED <<link, queue>>
    BY <1>0, <1>7 DEF Registered, Count, GisTypes
  <2>2. PICK j \in Jobs : /\ job' = [job EXCEPT ![w] = j] /\ j.pc = "read" /\ j.fd = job[w].fd
                          /\ rInfo' \in [Fds -> Entries] /\ \A g \in Fds : rInfo'[g].id = rInfo[g].id
    BY <1>0, <2>1, DoneFacts
  <2> QED
    BY <1>1, <1>2, <2>1, <2>2, OwnQuiet
<1>8. CASE NotRegistered(w) \/ SetTflag(w) \/ SetId(w)
  <2> DEFINE f == job[w].fd
             p == IF job[w].pc = "test" THEN "tflag" ELSE IF job[w].pc = "tflag" THEN "id" ELSE "count"
             j == [job[w] EXCEPT !.pc = p]
  <2>1. /\ job[w].pc \in {"test", "tflag", "id"} /\ job' = [job EXCEPT ![w].pc = p]
        /\ \/ rInfo' = rInfo
           \/ rInfo' = [rInfo EXCEPT ![f].tflag = TRUE]
           \/ rInfo' = [rInfo EXCEPT ![f].id = job[w].of]
        /\ UNCHANGED <<link, R_CON_NUM, queue>>
    BY <1>8 DEF NotRegistered, SetTflag, SetId
  <2>2. f \in Fds /\ w \in Registering(f) /\ job[w].of \in Ids /\ HasId(f, job[w].of)
    BY <1>0, <1>1, <2>1 DEF GisTypes, Registering, HasId, Jobs
  <2>3. p \in {"tflag", "id", "count"}
    OBVIOUS
  <2> HIDE DEF p
  <2>4. j \in Jobs /\ j.pc = p /\ j.fd = f /\ j.of = job[w].of
    BY <1>1, <2>3 DEF Jobs, JobPlaces
  <2>5. job' = [job EXCEPT ![w] = j]
    BY <1>0, <2>1 DEF GisTypes
  <2> HIDE DEF j, f
  <2>6. /\ rInfo' \in [Fds -> Entries]
        /\ \A g \in Fds : rInfo'[g].id = rInfo[g].id \/ (g = f /\ rInfo'[g].id = job[w].of)
    <3>1. CASE rInfo' = rInfo
      BY <1>1, <3>1
    <3>2. CASE rInfo' = [rInfo EXCEPT ![f].tflag = TRUE]
      BY Zenon, <1>1, <3>2, EntryFields
    <3>3. CASE rInfo' = [rInfo EXCEPT ![f].id = job[w].of]
      <4> DEFINE n == job[w].of
      <4>1. n \in Ids /\ rInfo' = [rInfo EXCEPT ![f].id = n]
        BY <2>2, <3>3
      <4> HIDE DEF n
      <4>2. rInfo' \in [Fds -> Entries] /\ \A g \in Fds : rInfo'[g].id = IF g = f THEN n ELSE rInfo[g].id
        BY <1>1, <4>1 DEF Entries
      <4> QED
        BY <4>2 DEF n
    <3> QED
      BY <2>1, <3>1, <3>2, <3>3
  <2>7. \A g \in Fds : rInfo'[g].id = rInfo[g].id \/ HasId(g, rInfo'[g].id)
    BY <2>2, <2>6
  <2> QED
    BY <1>1, <1>2, <2>1, <2>2, <2>3, <2>4, <2>5, <2>6, <2>7, OwnQuiet
<1> QED
  BY <1>3, <1>4, <1>5, <1>6, <1>7, <1>8 DEF RobotInit

-----------------------------------------------------------------------------
(* GisInfo                                                                 *)

LEMMA LocaltimeKeeps == ASSUME GisInv, NEW w \in Pool, Localtime(w) PROVE GisInv'
<1>0. GisTypes /\ LinkInv /\ ReportInv /\ RowOfOneReport
  BY DEF GisInv
<1> DEFINE f == job[w].fd
           of == link[f].box
           others == {job[u].of : u \in InGisInfo}
           j == [job[w] EXCEPT !.pc = "fill", !.of = of, !.before = link[f].before, !.beside = others]
           more(v) == [job[v] EXCEPT !.beside = @ \cup {of}]
<1>1. /\ Reads(w, "gis") /\ tm' = "now" /\ UNCHANGED <<rInfo, R_CON_NUM, queue, mg, rows>>
      /\ job' = [v \in Pool |-> IF v = w THEN j ELSE IF v \in InGisInfo THEN more(v) ELSE job[v]]
  BY DEF Localtime
<1>2. /\ f \in Fds /\ link[f].open /\ job[w].pc = "read"
      /\ link' \in [Fds -> Links]
      /\ \A g \in Fds : /\ link'[g].open = link[g].open /\ link'[g].box = link[g].box
                        /\ link'[g].before = link[g].before
                        /\ ~link[g].open => link'[g] = link[g]
  BY <1>1, GisReads
<1>3. /\ of \in Ids /\ link[f].before \in SUBSET Ids /\ others \in SUBSET Ids
      /\ \A v \in Pool : job[v] \in Jobs /\ job[v].beside \cup {of} \in SUBSET Ids
  BY <1>0, <1>2 DEF GisTypes, Links, Jobs, InGisInfo
<1>4. \A v \in Pool : Reporting(v) <=> v \in InGisInfo
  BY DEF Reporting, InGisInfo
<1>5. \A v \in Pool : v \in InGisInfo => job[v].of \in others
  OBVIOUS
<1> HIDE DEF of, others
<1>6. /\ j \in Jobs /\ j.pc = "fill" /\ j.fd = f /\ j.of = of /\ j.before = link[f].before /\ j.beside = others
      /\ \A v \in Pool : /\ more(v) \in Jobs /\ more(v).pc = job[v].pc /\ more(v).fd = job[v].fd
                         /\ more(v).of = job[v].of /\ more(v).date = job[v].date /\ more(v).id = job[v].id
                         /\ more(v).beside = job[v].beside \cup {of} /\ more(v).before = job[v].before
  BY <1>3 DEF Jobs, JobPlaces
<1> HIDE DEF j, more
<1>7. /\ job'[w] = j
      /\ \A v \in Pool : v # w => job'[v] = IF Reporting(v) THEN more(v) ELSE job[v]
  BY <1>1, <1>4
<1>8. GisTypes'
  <2>1. job' \in [Pool -> Jobs]
    BY <1>1, <1>3, <1>6
  <2>2. \A v \in Pool : job'[v].pc # "idle" => job'[v].fd \in Fds
    BY <1>0, <1>2, <1>6, <1>7 DEF GisTypes
  <2> QED
    BY <1>0, <1>1, <1>2, <2>1, <2>2 DEF GisTypes
<1>9. \A v \in Pool : v # w => /\ job'[v].pc = job[v].pc /\ job'[v].fd = job[v].fd /\ job'[v].of = job[v].of
                               /\ job'[v].date = job[v].date /\ job'[v].id = job[v].id
                               /\ job'[v].before = job[v].before
                               /\ job[v].beside \subseteq job'[v].beside
                               /\ Reporting(v) => of \in job'[v].beside
  BY <1>6, <1>7
<1>10. \A g \in Fds : \A n \in Ids : HasId(g, n)' => HasId(g, n)
  <2> SUFFICES ASSUME NEW g \in Fds, NEW n \in Ids, HasId(g, n)' PROVE HasId(g, n)
    OBVIOUS
  <2>1. CASE rInfo'[g].id = n
    BY <1>1, <2>1 DEF HasId
  <2>2. ASSUME NEW v \in Pool, (v \in Registering(g))', job'[v].of = n PROVE HasId(g, n)
    <3>1. v # w
      BY <1>6, <1>7, <2>2 DEF Registering
    <3> QED
      BY <1>9, <2>2, <3>1 DEF HasId, Registering
  <2> QED
    BY <2>1, <2>2 DEF HasId
<1>11. LinkInv'
  BY <1>0, <1>2, <1>10 DEF LinkInv, Free
<1>12. ReportOk(w)'
  <2>1. \A n \in Ids : HasId(f, n)' => n \in {None, of} \cup link[f].before
    <3>1. job'[w].fd = f
      BY <1>6, <1>7
    <3> QED
      BY <1>0, <1>2, <1>10, <3>1 DEF LinkInv, of
  <2>2. link'[f].box = of
    BY <1>2 DEF of
  <2>3. \A v \in Pool : Reporting(v)' /\ v # w => job'[v].of \in others
    BY <1>4, <1>5, <1>9 DEF Reporting
  <2> QED
    BY <1>6, <1>7, <2>1, <2>2, <2>3 DEF ReportOk
<1>13. ASSUME NEW v \in Pool, v # w, Reporting(v)' PROVE ReportOk(v)'
  <2>1. Reporting(v) /\ ReportOk(v) /\ job[v].fd \in Fds
    BY <1>0, <1>9, <1>13 DEF ReportInv, Reporting, GisTypes
  <2>2. of \in job'[v].beside /\ job[v].beside \subseteq job'[v].beside
    BY <1>9, <1>13, <2>1
  <2>3. \A n \in Ids : HasId(job[v].fd, n)' => n \in {None, job[v].of} \cup job[v].before
    BY <1>9, <1>10, <1>13, <2>1 DEF ReportOk
  <2>4. link'[job[v].fd].open => link'[job[v].fd].box \in {job[v].of} \cup job[v].before
    BY <1>2, <2>1 DEF ReportOk
  <2>5. \A d : DateOf(d, job[v].of, job[v].beside) => DateOf(d, job[v].of, job'[v].beside)
    BY <2>2 DEF DateOf
  <2>6. DateOf("now", job[v].of, job'[v].beside)
    BY <2>2 DEF DateOf
  <2>7. \A u \in Pool : Reporting(u)' /\ u # v => job'[u].of \in job'[v].beside
    <3> SUFFICES ASSUME NEW u \in Pool, Reporting(u)', u # v PROVE job'[u].of \in job'[v].beside
      OBVIOUS
    <3>1. CASE u = w
      BY <1>6, <1>7, <2>2, <3>1
    <3>2. CASE u # w
      <4>1. Reporting(u) /\ job'[u].of = job[u].of
        BY <1>9, <3>2 DEF Reporting
      <4> QED
        BY <2>1, <2>2, <4>1 DEF ReportOk
    <3> QED
      BY <3>1, <3>2
  <2>8. job'[v].pc = "insert" => DateOf(job[v].date, job[v].of, job'[v].beside)
                                 /\ job[v].id \in {None, job[v].of} \cup job[v].before
    BY <1>9, <1>13, <2>1, <2>5 DEF ReportOk
  <2> QED
    BY <1>1, <1>9, <1>13, <2>3, <2>4, <2>6, <2>7, <2>8 DEF ReportOk
<1>14. RowOfOneReport'
  BY <1>0, <1>1 DEF RowOfOneReport
<1> QED
  BY <1>8, <1>11, <1>12, <1>13, <1>14 DEF GisInv, ReportInv

\* A step of a report: the jobs of the others stay, and tm stays or is set from it.
LEMMA OwnReport ==
  ASSUME GisInv, NEW w \in Pool, Reporting(w), NEW j \in Jobs, job' = [job EXCEPT ![w] = j],
         j.pc \in {"read", "mktime", "insert"}, j.fd = job[w].fd,
         j.pc # "read" => j.of = job[w].of /\ j.beside = job[w].beside /\ j.before = job[w].before,
         j.pc = "mktime" => DateOf(tm', j.of, j.beside),
         j.pc = "insert" => DateOf(j.date, j.of, j.beside) /\ j.id \in {None, j.of} \cup j.before,
         tm' \in {tm, job[w].of}, UNCHANGED <<link, R_CON_NUM, queue, mg>>,
         rInfo' \in [Fds -> Entries], \A g \in Fds : rInfo'[g].id = rInfo[g].id
  PROVE  GisTypes' /\ LinkInv' /\ ReportInv'
<1>0. GisTypes /\ LinkInv /\ ReportInv
  BY DEF GisInv
<1>1. job'[w] = j /\ \A v \in Pool : v # w => job'[v] = job[v]
  BY <1>0 DEF GisTypes
<1>2. job[w].fd \in Fds /\ job[w].of \in Ids /\ ReportOk(w)
  BY <1>0 DEF GisTypes, Reporting, Jobs, ReportInv
<1>3. GisTypes'
  BY <1>0, <1>1, <1>2 DEF GisTypes
<1>4. \A g \in Fds : \A n \in Ids : HasId(g, n)' => HasId(g, n)
  <2> SUFFICES ASSUME NEW g \in Fds, NEW n \in Ids, HasId(g, n)' PROVE HasId(g, n)
    OBVIOUS
  <2>1. CASE rInfo'[g].id = n
    BY <2>1 DEF HasId
  <2>2. ASSUME NEW v \in Pool, (v \in Registering(g))', job'[v].of = n PROVE HasId(g, n)
    <3>1. v # w
      BY <1>1, <2>2 DEF Registering
    <3> QED
      BY <1>1, <2>2, <3>1 DEF HasId, Registering
  <2> QED
    BY <2>1, <2>2 DEF HasId
<1>5. LinkInv'
  BY <1>0, <1>4 DEF LinkInv, Free
<1>6. \A v \in Pool : Reporting(v)' => Reporting(v) /\ job'[v].of = job[v].of
  BY <1>1 DEF Reporting
<1>7. ASSUME Reporting(w)' PROVE ReportOk(w)'
  <2>1. j.pc # "read"
    BY <1>1, <1>7 DEF Reporting
  <2>2. \A n \in Ids : HasId(j.fd, n)' => n \in {None, j.of} \cup j.before
    BY <1>2, <1>4, <2>1 DEF ReportOk
  <2>3. link'[j.fd].open => link'[j.fd].box \in {j.of} \cup j.before
    BY <1>2, <2>1 DEF ReportOk
  <2>4. \A v \in Pool : Reporting(v)' /\ v # w => job'[v].of \in j.beside
    BY <1>2, <1>6, <2>1 DEF ReportOk
  <2> QED
    BY <1>1, <2>2, <2>3, <2>4 DEF ReportOk
<1>8. ASSUME NEW v \in Pool, v # w, Reporting(v)' PROVE ReportOk(v)'
  <2>1. Reporting(v) /\ ReportOk(v) /\ job'[v] = job[v] /\ job[v].fd \in Fds
    BY <1>0, <1>1, <1>8 DEF ReportInv, Reporting, GisTypes
  <2>2. \A n \in Ids : HasId(job[v].fd, n)' => n \in {None, job[v].of} \cup job[v].before
    BY <1>4, <2>1 DEF ReportOk
  <2>3. job[w].of \in job[v].beside
    BY <1>8, <2>1 DEF ReportOk
  <2>4. job[v].pc = "mktime" => DateOf(tm', job[v].of, job[v].beside)
    BY <2>1, <2>3 DEF ReportOk, DateOf
  <2>5. \A u \in Pool : Reporting(u)' /\ u # v => job'[u].of \in job[v].beside
    BY <1>6, <2>1 DEF ReportOk
  <2>6. link'[job[v].fd].open => link'[job[v].fd].box \in {job[v].of} \cup job[v].before
    BY <2>1 DEF ReportOk
  <2> QED
    BY <2>1, <2>2, <2>4, <2>5, <2>6 DEF ReportOk
<1> QED
  BY <1>3, <1>5, <1>7, <1>8 DEF ReportInv

LEMMA GisReportSteps ==
  ASSUME GisInv, NEW w \in Pool, FillTm(w) \/ DateAndId(w) \/ DbInsert(w)
  PROVE  GisInv'
<1>0. GisTypes /\ ReportInv /\ RowOfOneReport
  BY DEF GisInv
<1>1. UNCHANGED <<link, R_CON_NUM, queue, mg>> /\ Reporting(w)
  BY DEF FillTm, DateAndId, DbInsert, Reporting
<1>2. /\ rInfo \in [Fds -> Entries] /\ job[w] \in Jobs /\ job[w].fd \in Fds /\ tm \in Ids \cup {"now"}
      /\ rInfo[job[w].fd].id \in Ids /\ ReportOk(w)
  BY <1>0, <1>1 DEF GisTypes, Reporting, Entries, ReportInv
<1>3. ASSUME Done(w), UNCHANGED tm PROVE GisTypes' /\ LinkInv' /\ ReportInv'
  <2>1. PICK j \in Jobs : /\ job' = [job EXCEPT ![w] = j] /\ j.pc = "read" /\ j.fd = job[w].fd
                          /\ rInfo' \in [Fds -> Entries] /\ \A g \in Fds : rInfo'[g].id = rInfo[g].id
    BY <1>0, <1>2, <1>3, DoneFacts
  <2> QED
    BY <1>1, <1>3, <2>1, OwnReport
<1>4. CASE FillTm(w)
  <2> DEFINE j == [job[w] EXCEPT !.pc = "mktime"]
  <2>1. /\ j \in Jobs /\ j.pc = "mktime" /\ j.fd = job[w].fd /\ j.of = job[w].of
        /\ j.beside = job[w].beside /\ j.before = job[w].before
    BY <1>2 DEF Jobs, JobPlaces
  <2>2. job' = [job EXCEPT ![w] = j] /\ tm' = job[w].of /\ UNCHANGED <<rInfo, rows>>
    BY <1>4 DEF FillTm
  <2> HIDE DEF j
  <2>3. DateOf(tm', j.of, j.beside)
    BY <2>1, <2>2 DEF DateOf
  <2>4. GisTypes' /\ LinkInv' /\ ReportInv'
    BY <1>1, <1>2, <2>1, <2>2, <2>3, OwnReport
  <2>5. RowOfOneReport'
    BY <1>0, <2>2 DEF RowOfOneReport
  <2> QED
    BY <2>4, <2>5 DEF GisInv
<1>5. CASE DateAndId(w)
  <2>1. job[w].pc = "mktime" /\ UNCHANGED <<tm, rows>>
    BY <1>5 DEF DateAndId
  <2>2. RowOfOneReport'
    BY <1>0, <2>1 DEF RowOfOneReport
  <2>3. CASE Done(w)
    BY <1>3, <2>1, <2>2, <2>3 DEF GisInv
  <2>4. CASE ~Done(w)
    <3> DEFINE i == rInfo[job[w].fd].id
               j == [job[w] EXCEPT !.pc = "insert", !.date = tm, !.id = i]
    <3>1. job' = [job EXCEPT ![w] = j] /\ UNCHANGED rInfo
      BY <1>5, <2>4 DEF DateAndId
    <3>2. HasId(job[w].fd, i) /\ i \in Ids
      BY <1>2 DEF HasId
    <3> HIDE DEF i
    <3>3. /\ j \in Jobs /\ j.pc = "insert" /\ j.fd = job[w].fd /\ j.of = job[w].of
          /\ j.beside = job[w].beside /\ j.before = job[w].before /\ j.date = tm /\ j.id = i
      BY <1>2, <3>2 DEF Jobs, JobPlaces
    <3> HIDE DEF j
    <3>4. DateOf(j.date, j.of, j.beside) /\ j.id \in {None, j.of} \cup j.before
      BY <1>2, <2>1, <3>2, <3>3 DEF ReportOk
    <3>5. GisTypes' /\ LinkInv' /\ ReportInv'
      BY <1>1, <1>2, <2>1, <3>1, <3>3, <3>4, OwnReport
    <3> QED
      BY <2>2, <3>5 DEF GisInv
  <2> QED
    BY <2>3, <2>4
<1>6. CASE DbInsert(w)
  <2>1. GisTypes' /\ LinkInv' /\ ReportInv'
    BY <1>3, <1>6 DEF DbInsert
  <2>2. RowOfOneReport'
    <3> DEFINE r == [date |-> job[w].date, id |-> job[w].id, of |-> job[w].of,
                     beside |-> job[w].beside, before |-> job[w].before]
    <3>1. rows' \subseteq rows \cup {r} /\ job[w].pc = "insert"
      BY <1>6 DEF DbInsert
    <3>2. /\ r.date = r.of \/ (r.beside # {} /\ r.date \in r.beside \cup {"now"})
          /\ r.id \in {None, r.of} \cup r.before
      BY <1>2, <3>1 DEF ReportOk, DateOf
    <3> HIDE DEF r
    <3> QED
      BY <1>0, <3>1, <3>2 DEF RowOfOneReport
  <2> QED
    BY <2>1, <2>2 DEF GisInv
<1> QED
  BY <1>4, <1>5, <1>6

LEMMA GisInvAlways == GisSpec => []GisInv
<1>1. GisInv /\ [GisNext]_gisVars => GisInv'
  <2> SUFFICES ASSUME GisInv, [GisNext]_gisVars PROVE GisInv'
    OBVIOUS
  <2>1. ASSUME NEW box \in Boxes, Accept(box) PROVE GisInv'
    BY <2>1, AcceptKeeps
  <2>2. CASE (\E f \in Fds : (\E pack \in {"heart", "register", "gis"} : Arrives(f, pack))
                              \/ HangsUp(f) \/ TimeOver(f)) \/ RClientManage
    BY <2>2, GisOuterSteps DEF Packs
  <2>3. ASSUME NEW w \in Pool, Process(w) PROVE GisInv'
    BY <2>3, GisQuietSteps, GisReportSteps, LocaltimeKeeps DEF Process
  <2>4. CASE UNCHANGED gisVars
    <3>1. UNCHANGED <<link, rInfo, R_CON_NUM, queue, job, mg, tm, rows>>
      BY <2>4 DEF gisVars
    <3>2. GisTypes' /\ LinkInv' /\ RowOfOneReport'
      BY <3>1 DEF GisInv, GisTypes, LinkInv, HasId, Registering, RowOfOneReport
    <3>3. ReportInv'
      BY <3>1 DEF GisInv, ReportInv, ReportOk, Reporting, HasId, Registering
    <3> QED
      BY <3>2, <3>3 DEF GisInv
  <2> QED
    BY <2>1, <2>2, <2>3, <2>4 DEF GisNext
<1> QED
  BY GisInitial, <1>1, PTL DEF GisSpec

\* A row has the date and the id of the box whose report it is, or, of those that were
\* worked on beside it and of those that were about its entry, another's.
THEOREM RowsAreOfOneReport == GisSpec => []RowOfOneReport
BY GisInvAlways, PTL DEF GisInv

-----------------------------------------------------------------------------
(* The count of registered entries                                          *)
Flagged == {f \in Fds : rInfo[f].tflag}
Counting == {w \in Pool : job[w].pc \in {"id", "count"}}

\* An entry that the manager closes as registered is so until it is cleared.
CountInv ==
  /\ R_CON_NUM + Cardinality(Counting) >= Cardinality(Flagged)
  /\ mg.at \in {"close", "clear"} => mg.fd \in Flagged

\* One more flag, or one fewer.
LEMMA FlagSizes ==
  ASSUME IsFiniteSet(Fds), IsFiniteSet(Pool)
  PROVE  /\ Cardinality(Flagged) \in Nat /\ Cardinality(Counting) \in Nat
         /\ IsFiniteSet(Flagged) /\ IsFiniteSet(Counting)
         /\ \A f : Cardinality(Flagged \cup {f}) <= Cardinality(Flagged) + 1
         /\ \A f \in Flagged : Cardinality(Flagged \ {f}) = Cardinality(Flagged) - 1
         /\ \A w \in Counting : Cardinality(Counting \ {w}) = Cardinality(Counting) - 1
         /\ \A w : w \notin Counting => Cardinality(Counting \cup {w}) = Cardinality(Counting) + 1
<1>1. IsFiniteSet(Flagged) /\ IsFiniteSet(Counting)
  BY FS_Subset DEF Flagged, Counting
<1>2. Cardinality(Flagged) \in Nat /\ Cardinality(Counting) \in Nat
  BY <1>1, FS_CardinalityType
<1>3. ASSUME NEW f PROVE Cardinality(Flagged \cup {f}) <= Cardinality(Flagged) + 1
  <2>1. Cardinality(Flagged \cup {f}) \in {Cardinality(Flagged), Cardinality(Flagged) + 1}
    BY <1>1, FS_AddElement
  <2> QED
    BY <1>2, <2>1
<1>4. ASSUME NEW f \in Flagged PROVE Cardinality(Flagged \ {f}) = Cardinality(Flagged) - 1
  BY <1>1, <1>2, FS_RemoveElement
<1>5. ASSUME NEW w \in Counting PROVE Cardinality(Counting \ {w}) = Cardinality(Counting) - 1
  BY <1>1, <1>2, FS_RemoveElement
<1>6. ASSUME NEW w, w \notin Counting PROVE Cardinality(Counting \cup {w}) = Cardinality(Counting) + 1
  BY <1>1, <1>2, <1>6, FS_AddElement
<1> QED
  BY <1>1, <1>2, <1>3, <1>4, <1>5, <1>6

LEMMA CountSteps ==
  ASSUME IsFiniteSet(Fds), IsFiniteSet(Pool), GisTypes, CountInv, [GisNext]_gisVars
  PROVE  CountInv'
<1>0. /\ rInfo \in [Fds -> Entries] /\ job \in [Pool -> Jobs] /\ R_CON_NUM \in Int
      /\ mg \in Visits /\ (mg.at # "scan" => mg.fd \in Fds)
      /\ Cardinality(Flagged) \in Nat /\ Cardinality(Counting) \in Nat
  BY FlagSizes DEF GisTypes
<1>1. ASSUME UNCHANGED R_CON_NUM, Flagged' = Flagged, Counting' = Counting,
             mg'.at \in {"close", "clear"} => mg'.fd \in Flagged
      PROVE  CountInv'
  BY <1>0, <1>1 DEF CountInv
<1>2. ASSUME NEW box \in Boxes, Accept(box) PROVE CountInv'
  <2>1. UNCHANGED <<R_CON_NUM, mg>>
    BY <1>2 DEF Accept
  <2>2. PICK f \in Fds :
          /\ rInfo' = [rInfo EXCEPT ![f].tfd = TRUE, ![f].over = FALSE]
          /\ job' = [w \in Pool |-> IF w \in InGisInfo /\ job[w].fd = f
                                    THEN [job[w] EXCEPT !.before = @ \cup {box}] ELSE job[w]]
    BY <1>2 DEF Accept
  <2>3. \A g \in Fds : rInfo'[g].tflag = rInfo[g].tflag
    BY <1>0, <2>2 DEF Entries
  <2>4. \A w \in Pool : job'[w].pc = job[w].pc
    BY <1>0, <2>2 DEF Jobs
  <2>5. Flagged' = Flagged /\ Counting' = Counting
    BY <2>3, <2>4 DEF Flagged, Counting
  <2> QED
    BY <1>1, <2>1, <2>5 DEF CountInv
<1>3. ASSUME NEW f \in Fds, HangsUp(f) \/ TimeOver(f) \/ (\E pack : Arrives(f, pack)) PROVE CountInv'
  <2>1. /\ UNCHANGED <<R_CON_NUM, mg, job>>
        /\ rInfo' = rInfo \/ rInfo' = [rInfo EXCEPT ![f].over = TRUE]
    BY <1>3 DEF HangsUp, TimeOver, Arrives
  <2>2. \A g \in Fds : rInfo'[g].tflag = rInfo[g].tflag
    <3>1. CASE rInfo' = rInfo
      BY <3>1
    <3>2. CASE rInfo' = [rInfo EXCEPT ![f].over = TRUE]
      BY <1>0, <3>2 DEF Entries
    <3> QED
      BY <2>1, <3>1, <3>2
  <2>3. Flagged' = Flagged /\ Counting' = Counting
    BY <2>1, <2>2 DEF Flagged, Counting
  <2> QED
    BY <1>1, <2>1, <2>3 DEF CountInv
<1>4. ASSUME NEW f \in Fds, Visit(f) PROVE CountInv'
  <2>1. mg' = [at |-> IF rInfo[f].tfd /\ rInfo[f].tflag THEN "close" ELSE "closeNew", fd |-> f]
        /\ UNCHANGED <<rInfo, R_CON_NUM, job>>
    BY <1>4 DEF Visit
  <2>2. Flagged' = Flagged /\ Counting' = Counting
    BY <2>1 DEF Flagged, Counting
  <2>3. mg'.at = "close" \/ mg'.at = "clear" => mg'.fd \in Flagged
    BY <2>1 DEF Flagged
  <2> QED
    BY <1>1, <2>1, <2>2, <2>3
<1>5. CASE ManagerCloses
  <2>1. /\ mg.at \in {"close", "closeNew"}
        /\ mg' = [mg EXCEPT !.at = IF mg.at = "close" THEN "clear" ELSE "clearNew"]
        /\ UNCHANGED <<rInfo, R_CON_NUM, job>>
    BY <1>5 DEF ManagerCloses
  <2>2. Flagged' = Flagged /\ Counting' = Counting
    BY <2>1 DEF Flagged, Counting
  <2>3. mg'.fd = mg.fd /\ (mg'.at = "clear" => mg.at = "close") /\ mg'.at # "close"
    BY <1>0, <2>1 DEF Visits
  <2> QED
    BY <1>1, <2>1, <2>2, <2>3 DEF CountInv
<1>6. CASE Clear \/ ClearNew
  <2>1. /\ mg.fd \in Fds /\ mg' = Scan /\ UNCHANGED job
        /\ \/ rInfo' = [rInfo EXCEPT ![mg.fd] = [@ EXCEPT !.tfd = FALSE, !.tflag = FALSE, !.id = None]]
           \/ rInfo' = [rInfo EXCEPT ![mg.fd] = [@ EXCEPT !.tfd = FALSE, !.tflag = FALSE]]
    BY <1>0, <1>6 DEF Clear, ClearNew
  <2>2. \A g \in Fds : rInfo'[g].tflag <=> g # mg.fd /\ rInfo[g].tflag
    <3> DEFINE f == mg.fd
               r == rInfo[f]
    <3>1. f \in Fds /\ r \in Entries
      BY <1>0, <2>1
    <3>2. /\ [r EXCEPT !.tfd = FALSE, !.tflag = FALSE, !.id = None].tflag = FALSE
          /\ [r EXCEPT !.tfd = FALSE, !.tflag = FALSE].tflag = FALSE
      BY <3>1 DEF Entries
    <3>3. ~rInfo'[f].tflag /\ \A g \in Fds : g # f => rInfo'[g] = rInfo[g]
      <4>1. CASE rInfo' = [rInfo EXCEPT ![f] = [@ EXCEPT !.tfd = FALSE, !.tflag = FALSE, !.id = None]]
        BY <1>0, <3>1, <3>2, <4>1
      <4>2. CASE rInfo' = [rInfo EXCEPT ![f] = [@ EXCEPT !.tfd = FALSE, !.tflag = FALSE]]
        BY <1>0, <3>1, <3>2, <4>2
      <4> QED
        BY <2>1, <4>1, <4>2
    <3> QED
      BY <3>1, <3>3
  <2>3. Flagged' = Flagged \ {mg.fd} /\ Counting' = Counting
    BY <2>1, <2>2 DEF Flagged, Counting
  <2>4. mg'.at = "scan"
    BY <2>1 DEF Scan
  <2>5. CASE Clear
    <3>1. mg.fd \in Flagged /\ R_CON_NUM' = R_CON_NUM - 1
      BY <2>5 DEF Clear, CountInv
    <3>2. Cardinality(Flagged \ {mg.fd}) = Cardinality(Flagged) - 1
      BY <3>1, FlagSizes
    <3> QED
      BY <1>0, <2>3, <2>4, <3>1, <3>2 DEF CountInv
  <2>6. CASE ClearNew
    <3>1. R_CON_NUM' = R_CON_NUM
      BY <2>6 DEF ClearNew
    <3>2. Cardinality(Flagged \ {mg.fd}) \in {Cardinality(Flagged), Cardinality(Flagged) - 1}
      BY FlagSizes, FS_RemoveElement
    <3> QED
      BY <1>0, <2>3, <2>4, <3>1, <3>2 DEF CountInv
  <2> QED
    BY <1>6, <2>5, <2>6
<1>7. ASSUME NEW w \in Pool, SetTflag(w) PROVE CountInv'
  <2> DEFINE f == job[w].fd
  <2>1. /\ job[w].pc = "tflag" /\ rInfo' = [rInfo EXCEPT ![f].tflag = TRUE]
        /\ job' = [job EXCEPT ![w].pc = "id"] /\ UNCHANGED <<R_CON_NUM, mg>>
    BY <1>7 DEF SetTflag
  <2>2. f \in Fds
    BY <2>1 DEF GisTypes
  <2>3. \A v \in Pool : job'[v].pc = IF v = w THEN "id" ELSE job[v].pc
    BY <1>0, <2>1 DEF Jobs
  <2> HIDE DEF f
  <2>4. \A g \in Fds : rInfo'[g].tflag <=> g = f \/ rInfo[g].tflag
    BY <1>0, <2>1, <2>2 DEF Entries
  <2>5. Flagged' = Flagged \cup {f} /\ Counting' = Counting \cup {w} /\ w \notin Counting
    BY <2>1, <2>2, <2>3, <2>4 DEF Flagged, Counting
  <2>6. /\ Cardinality(Flagged \cup {f}) <= Cardinality(Flagged) + 1
        /\ Cardinality(Counting \cup {w}) = Cardinality(Counting) + 1
        /\ Cardinality(Flagged \cup {f}) \in Nat
    <3>1. Cardinality(Flagged \cup {f}) \in Nat
      BY FlagSizes, FS_AddElement, FS_CardinalityType
    <3> QED
      BY <2>5, <3>1, FlagSizes
  <2> QED
    BY <1>0, <2>1, <2>5, <2>6 DEF CountInv
<1>8. ASSUME NEW w \in Pool, Count(w) PROVE CountInv'
  <2>1. job[w].pc = "count" /\ R_CON_NUM' = R_CON_NUM + 1 /\ Done(w) /\ UNCHANGED mg
    BY <1>8 DEF Count
  <2>2. /\ \A g \in Fds : rInfo'[g].tflag = rInfo[g].tflag
        /\ \A v \in Pool : job'[v].pc = IF v = w THEN "read" ELSE job[v].pc
    BY <1>0, <2>1 DEF Done, Entries, Jobs, Idle
  <2>3. Flagged' = Flagged /\ Counting' = Counting \ {w} /\ w \in Counting
    BY <2>1, <2>2 DEF Flagged, Counting
  <2>4. Cardinality(Counting \ {w}) = Cardinality(Counting) - 1
    BY <2>3, FlagSizes
  <2> QED
    BY <1>0, <2>1, <2>3, <2>4 DEF CountInv
<1>9. ASSUME NEW w \in Pool,
             \/ Take(w) \/ NothingToRead(w) \/ Heart(w) \/ Register(w) \/ Registered(w) \/ NotRegistered(w)
             \/ SetId(w) \/ Localtime(w) \/ FillTm(w) \/ DateAndId(w) \/ DbInsert(w)
      PROVE  CountInv'
  <2>1. UNCHANGED <<R_CON_NUM, mg>>
    BY <1>9 DEF Take, NothingToRead, Heart, Register, Registered, NotRegistered, SetId, Localtime, FillTm,
                DateAndId, DbInsert
  <2>2. \A g \in Fds : rInfo'[g].tflag = rInfo[g].tflag
    <3>1. \/ rInfo' = rInfo
          \/ rInfo' = [rInfo EXCEPT ![job[w].fd].over = TRUE]
          \/ rInfo' = [rInfo EXCEPT ![job[w].fd].over = FALSE]
          \/ rInfo' = [rInfo EXCEPT ![job[w].fd].id = job[w].of]
      BY <1>9 DEF Take, NothingToRead, Heart, Register, Registered, NotRegistered, SetId, Localtime, FillTm,
                  DateAndId, DbInsert, Done
    <3>2. CASE rInfo' = rInfo
      BY <3>2
    <3>3. CASE rInfo' = [rInfo EXCEPT ![job[w].fd].over = TRUE]
      BY <1>0, <3>3 DEF Entries
    <3>4. CASE rInfo' = [rInfo EXCEPT ![job[w].fd].over = FALSE]
      BY <1>0, <3>4 DEF Entries
    <3>5. CASE rInfo' = [rInfo EXCEPT ![job[w].fd].id = job[w].of]
      BY <1>0, <3>5 DEF Entries
    <3> QED
      BY <3>1, <3>2, <3>3, <3>4, <3>5
  <2>3. \A v \in Pool : job'[v].pc \in {"id", "count"} <=> job[v].pc \in {"id", "count"}
    <3> DEFINE j == [Idle EXCEPT !.pc = "read", !.fd = job[w].fd]
               k == [Idle EXCEPT !.pc = "read", !.fd = Head(queue)]
    <3>6. j.pc = "read" /\ k.pc = "read" /\ Idle.pc = "idle"
      BY DEF Idle
    <3>7. Done(w) => job' = [job EXCEPT ![w] = j]
      BY DEF Done
    <3>8. Take(w) => job' = [job EXCEPT ![w] = k]
      BY DEF Take
    <3>1. CASE Take(w) \/ NothingToRead(w)
      <4>1. job[w].pc \in {"idle", "read"} /\ (job' = [job EXCEPT ![w] = k] \/ job' = [job EXCEPT ![w] = Idle])
        BY <3>1, <3>8 DEF Take, NothingToRead
      <4> HIDE DEF k
      <4> QED
        BY <1>0, <3>6, <4>1
    <3>2. CASE Heart(w) \/ Registered(w) \/ DbInsert(w) \/ (job[w].pc = "mktime" /\ Done(w))
      <4>1. job[w].pc \in {"read", "test", "insert", "mktime"} /\ job' = [job EXCEPT ![w] = j]
        BY <3>2, <3>7 DEF Heart, Registered, DbInsert, Reads
      <4> HIDE DEF j
      <4> QED
        BY <1>0, <3>6, <4>1
    <3>3. CASE Register(w) \/ NotRegistered(w) \/ SetId(w) \/ FillTm(w)
      BY <1>0, <3>3 DEF Register, NotRegistered, SetId, FillTm, Reads, Jobs
    <3>4. CASE DateAndId(w) /\ ~Done(w)
      BY <1>0, <3>4 DEF DateAndId, Jobs
    <3>5. CASE Localtime(w)
      BY <1>0, <3>5 DEF Localtime, Reads, InGisInfo, Jobs
    <3> QED
      BY <1>9, <3>1, <3>2, <3>3, <3>4, <3>5 DEF DateAndId
  <2>4. Flagged' = Flagged /\ Counting' = Counting
    BY <2>2, <2>3 DEF Flagged, Counting
  <2> QED
    BY <1>1, <2>1, <2>4 DEF CountInv
<1>10. CASE UNCHANGED gisVars
  BY <1>10 DEF gisVars, CountInv, Flagged, Counting
<1> QED
  BY <1>2, <1>3, <1>4, <1>5, <1>6, <1>7, <1>8, <1>9, <1>10 DEF GisNext, RClientManage, Process, RobotInit

\* The number that is logged is not below that of the registered entries, but for threads
\* that have set the flag and have yet to count it.
THEOREM RegisteredAreCounted ==
  ASSUME IsFiniteSet(Fds), IsFiniteSet(Pool)
  PROVE  GisSpec => []CountsRegistered
<1>1. GisInit => CountInv
  <2> SUFFICES ASSUME GisInit PROVE CountInv
    OBVIOUS
  <2>1. Flagged = {} /\ Counting = {} /\ R_CON_NUM = 0 /\ mg.at = "scan"
    BY DEF GisInit, Flagged, Counting, Unused, Idle, Scan
  <2> QED
    BY <2>1, FS_EmptySet DEF CountInv
<1>2. GisInv /\ CountInv /\ [GisNext]_gisVars => CountInv'
  BY CountSteps DEF GisInv
<1>3. CountInv => CountsRegistered
  BY DEF CountInv, CountsRegistered, Flagged, Counting
<1> QED
  BY <1>1, <1>2, <1>3, GisInvAlways, PTL DEF GisSpec
=============================================================================
