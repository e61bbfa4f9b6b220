------------------------------ MODULE KeyBoard ------------------------------
(***************************************************************************)
(* key/keyV1.1-24 and key/keyV1.1-8 (main.c): a board of key lockers on a     *)
(* serial bus with others.  Its host has it open a lock, or asks for the state *)
(* of all keys.  The receive interrupt stores bytes, the one of timer 2 ends a  *)
(* frame after a silence, and the main loop takes the frame from the buffer.   *)
(* The boards differ in their tables and in how they scan their keys.          *)
(*                                                                         *)
(* Nothing keeps the host and the other boards silent while this one works.     *)
(***************************************************************************)
EXTENDS Integers, Sequences, TLC

CONSTANTS
  Keys,      \* the keys of the board: 24 or 8
  Code,      \* the numbers a board may be given by its switches
  Other,     \* the number of another board on the bus
  Asked,     \* the keys the host asks for, good and bad numbers
  Moves,     \* the keys that are taken out and put back
  MaxEvents  \* bound on the frames on the bus and the moves of the keys

VARIABLES
  kpc,       \* the main loop
  encode,    \* the number of the board
  U0Ready, U0Count, rBuf, t2,   \* shared with the two interrupts
  latch,     \* the 24 outputs of the shift registers
  level,     \* the keys: 1 out, 0 in
  scans,     \* the scans since the columns were pulled low, up to 2
  key_stat,  \* what the last scan gave, and the keys as they were
  saw,
  keyBit,    \* the key of the last command to open
  told,      \* the last answer
  wire,      \* bytes on their way to the board
  events,
  want,      \* is there a request that came alone, and is not answered?
  due,       \* how often each lock was asked for and not yet opened for it
  held       \* what is at the start of the buffer: "frame", the last one "again" when the
             \* timer runs on from bytes that were dropped, or "lapped" when bytes came
             \* round to a frame that is looked at

busVars == <<wire, events, want, due>>
keyVars == <<kpc, encode, U0Ready, U0Count, rBuf, t2, latch, level, scans, key_stat, saw, keyBit,
             told, busVars, held>>

MAX_R_LEN == 16

\* The output of each key.
Board24 ==
  <<\h01, \h80, \h40, \h20, \h10, \h8, \h4, \h02,
    \h8000, \h4000, \h2000, \h1000, \h800, \h400, \h200, \h100,
    \h400000, \h800000, \h200000, \h100000, \h20000, \h40000, \h80000, \h10000>>
Board8 == <<\h80, \h40, \h20, \h10, \h8, \h4, \h02, \h01>>

bit(k) == IF Keys = 24 THEN Board24[k + 1] ELSE Board8[k + 1]
Key == 0..Keys - 1

\* The registers take the bit that is there when the clock rises: nothing the first
\* time, then bits 23 to 0.  The first of the 25 is pushed out; output n has the one that
\* came n before the last.
Send595(data) ==
  LET clocked == [i \in 1..25 |-> IF i = 1 THEN 0 ELSE (data \div 2^(25 - i)) % 2]
  IN  [n \in 0..23 |-> clocked[25 - n]]

KeyInit ==
  /\ kpc = "boot" /\ encode = 0
  /\ U0Ready = FALSE /\ U0Count = 0 /\ rBuf = [i \in 0..MAX_R_LEN-1 |-> 0] /\ t2 = FALSE
  /\ latch = Send595(0) /\ scans = 2
  /\ level = [k \in Key |-> 0] /\ key_stat = level /\ saw = level
  /\ keyBit = 0 /\ told = <<0, 0, 0, 0, 0, 0>>
  /\ wire = <<>> /\ events = 0 /\ want = FALSE /\ due = [k \in Key |-> 0] /\ held = "frame"

\* The switches are read after the outputs were cleared; all on start the self-test.  The
\* beeps before pull the columns low.
Boot ==
  /\ kpc = "boot"
  /\ latch' = Send595(0) /\ scans' = 0
  /\ \E c \in Code : encode' = c /\ kpc' = IF c = 15 THEN "test" ELSE "top"
  /\ UNCHANGED <<U0Ready, U0Count, rBuf, t2, level, key_stat, saw, keyBit, told, busVars, held>>

\* It opens one lock after the other for ever: 16 on the big board, 8 on the small.
SelfTest ==
  /\ kpc = "test"
  /\ \E k \in Key \cap 0..15 : latch' = IF latch = Send595(0) THEN Send595(bit(k)) ELSE Send595(0)
  /\ UNCHANGED <<kpc, encode, U0Ready, U0Count, rBuf, t2, level, scans, key_stat, saw, keyBit, told,
                 busVars, held>>

-----------------------------------------------------------------------------
(* Bus, keys and interrupts                                                *)

\* A frame on the bus.  A request comes alone when the board is idle and its silence
\* follows: want.
Says(frame, asks) ==
  /\ kpc \notin {"boot", "test"} /\ wire = <<>> /\ events < MaxEvents
  /\ wire' = frame /\ events' = events + 1
  /\ want' = IF kpc = "top" /\ ~U0Ready /\ ~t2 THEN asks ELSE want /\ U0Ready
  /\ UNCHANGED <<kpc, encode, U0Ready, U0Count, rBuf, t2, latch, level, scans, key_stat, saw, keyBit,
                 told, held>>

HostAsks(code, cmd, k) ==
  LET opens == code = encode /\ cmd = 1 /\ k \in Key
  IN  /\ Says(<<\hFA, code, cmd, k, \hFF>>, opens \/ (code = encode /\ cmd = 2))
      /\ due' = IF opens THEN [due EXCEPT ![k] = @ + 1] ELSE due

\* Another board answers.
OtherAnswers ==
  /\ Says(<<\hFB, Other, 1, 0, 1, \hFF>>, FALSE)
  /\ UNCHANGED due

KeyMoves(k) ==
  /\ events < MaxEvents /\ events' = events + 1
  /\ level' = [level EXCEPT ![k] = 1 - @]
  /\ UNCHANGED <<kpc, encode, U0Ready, U0Count, rBuf, t2, latch, scans, key_stat, saw, keyBit, told,
                 wire, want, due, held>>

\* The receive interrupt starts timer 2 anew.
ByteArrives ==
  /\ wire # <<>>
  /\ rBuf' = [rBuf EXCEPT ![U0Count] = Head(wire)]
  /\ U0Count' = (U0Count + 1) % MAX_R_LEN
  /\ t2' = TRUE
  /\ wire' = Tail(wire)
  /\ held' = IF U0Count > 0 THEN held ELSE IF U0Ready /\ kpc # "ready" THEN "lapped" ELSE "frame"
  /\ want' = (want /\ held' # "lapped")
  /\ UNCHANGED <<kpc, encode, U0Ready, latch, level, scans, key_stat, saw, keyBit, told, events, due>>

\* Timer 2 overflows after 2 ms: the bytes of a frame follow each other faster, and one
\* that came after ClearCount has not been followed by a silence before ClearReady.
FrameEnds ==
  /\ t2 /\ wire = <<>> /\ (kpc = "ready" => U0Count = 0)
  /\ U0Ready' = TRUE
  /\ t2' = FALSE
  /\ UNCHANGED <<kpc, encode, U0Count, rBuf, latch, level, scans, key_stat, saw, keyBit, told, busVars,
                 held>>

-----------------------------------------------------------------------------
(* The main loop                                                           *)

\* A scan of the big board pulls one column after the other low, reads its five rows and
\* lets it go.  After a beep, which pulls all five low, a column is read with the later
\* ones, and a key in one of them shows as a key in the row.  The small board reads a
\* multiplexer's inputs.
Seen(low, k) ==
  IF low /\ Keys = 24 /\ \E j \in Key : j >= k /\ j % 5 = k % 5 /\ level[j] = 0 THEN 0 ELSE level[k]

KeyScan(before) ==
  /\ key_stat' = [k \in Key |-> Seen(before = 0, k)]
  /\ saw' = level
  /\ scans' = IF before = 0 THEN 1 ELSE 2

Idle ==
  /\ kpc = "top" /\ ~U0Ready
  /\ KeyScan(scans)
  /\ UNCHANGED <<kpc, encode, U0Ready, U0Count, rBuf, t2, latch, level, keyBit, told, busVars, held>>

\* The tests of a frame, one after the other.  How many bytes came does not matter.
TakeFrame ==
  /\ \/ kpc = "top" /\ U0Ready
        /\ kpc' = IF rBuf[1] = encode THEN "ends" ELSE "clear"
     \/ kpc = "ends"
        /\ kpc' = IF rBuf[0] = \hFA /\ rBuf[4] = \hFF THEN "cmd" ELSE "clear"
     \/ kpc = "cmd"
        /\ kpc' = CASE rBuf[2] = 1 -> "key" [] rBuf[2] = 2 -> "state" [] OTHER -> "clear"
  /\ UNCHANGED <<encode, U0Ready, U0Count, rBuf, t2, latch, level, scans, key_stat, saw, keyBit, told,
                 busVars, held>>

TakeKey ==
  /\ kpc = "key"
  /\ keyBit' = rBuf[3]
  /\ kpc' = IF rBuf[3] \in Key THEN "open" ELSE "clear"
  /\ UNCHANGED <<encode, U0Ready, U0Count, rBuf, t2, latch, level, scans, key_stat, saw, told, busVars,
                 held>>

Open ==
  /\ kpc = "open"
  /\ latch' = Send595(bit(keyBit))
  /\ due' = [due EXCEPT ![keyBit] = IF held = "frame" THEN @ - 1 ELSE @]
  /\ kpc' = "beep"
  /\ UNCHANGED <<encode, U0Ready, U0Count, rBuf, t2, level, scans, key_stat, saw, keyBit, told, wire,
                 events, want, held>>

\* After 200 ms, and the end of the beep.
Release ==
  /\ kpc = "beep"
  /\ latch' = Send595(0)
  /\ KeyScan(0)
  /\ kpc' = "answer"
  /\ UNCHANGED <<encode, U0Ready, U0Count, rBuf, t2, level, keyBit, told, busVars, held>>

\* The number of the key is that in the buffer now, its state that of the lock.
Answer ==
  /\ kpc = "answer"
  /\ told' = <<\hFB, rBuf[1], rBuf[2], rBuf[3], key_stat[keyBit], \hFF>>
  /\ want' = FALSE
  /\ kpc' = "clear"
  /\ UNCHANGED <<encode, U0Ready, U0Count, rBuf, t2, latch, level, scans, key_stat, saw, keyBit, wire,
                 events, due, held>>

\* The bits of the keys 8*b to 8*b+7.
KeyByte(b) ==
  LET on(i) == IF 8*b + i \in Key THEN key_stat[8*b + i] ELSE 0
  IN  on(0) + 2 * on(1) + 4 * on(2) + 8 * on(3) + 16 * on(4) + 32 * on(5) + 64 * on(6) + 128 * on(7)

AnswerState ==
  /\ kpc = "state"
  /\ told' = <<\hFC, rBuf[1], KeyByte(2), KeyByte(1), KeyByte(0), \hFF>>
  /\ want' = FALSE
  /\ kpc' = "clear"
  /\ UNCHANGED <<encode, U0Ready, U0Count, rBuf, t2, latch, level, scans, key_stat, saw, keyBit, wire,
                 events, due, held>>

\* Mutant: the count is left.
ClearCountForgotten ==
  /\ kpc = "clear"
  /\ kpc' = "ready"
  /\ UNCHANGED <<encode, U0Ready, U0Count, rBuf, t2, latch, level, scans, key_stat, saw, keyBit, told,
                 busVars, held>>

ClearCount ==
  /\ kpc = "clear"
  /\ U0Count' = 0
  /\ held' = IF held = "lapped" THEN held ELSE IF t2 THEN "again" ELSE "frame"
  /\ kpc' = "ready"
  /\ UNCHANGED <<encode, U0Ready, rBuf, t2, latch, level, scans, key_stat, saw, keyBit, told, busVars>>

ClearReady ==
  /\ kpc = "ready"
  /\ U0Ready' = FALSE
  /\ KeyScan(scans)
  /\ kpc' = "top"
  /\ UNCHANGED <<encode, U0Count, rBuf, t2, latch, level, keyBit, told, busVars, held>>

KeyMain ==
  \/ Boot \/ SelfTest \/ Idle \/ TakeFrame \/ TakeKey
  \/ Open \/ Release \/ Answer \/ AnswerState \/ ClearCount \/ ClearReady

KeyInterrupt == ByteArrives \/ FrameEnds

KeyNext ==
  \/ KeyMain \/ KeyInterrupt
  \/ \E code \in {encode, Other}, k \in Asked : HostAsks(code, 1, k)
  \/ HostAsks(encode, 2, 0) \/ HostAsks(encode, 3, 0)
  \/ OtherAnswers
  \/ \E k \in Moves : KeyMoves(k)

KeySpec == KeyInit /\ [][KeyNext]_keyVars

-----------------------------------------------------------------------------
\* The lock of key k hangs on one of the outputs.
IsOpen(k) == \E n \in 0..23 : bit(k) = 2^n /\ latch[n] = 1

\* The buffer holds a command to this board to open this lock.
Commands(k) ==
  rBuf[0] = \hFA /\ rBuf[1] = encode /\ rBuf[2] = 1 /\ rBuf[3] = k /\ rBuf[4] = \hFF

\* One lock is opened at a time, and its command is still whole when it is.
OpensAlone(k) ==
  /\ \A j \in Key : IsOpen(j)' <=> j = k
  /\ held # "lapped" => Commands(k)

\* A lock is opened as often as the host asked for it, though the buffer keeps a frame
\* that was taken; a frame for another board opens nothing.  When bytes that came during
\* the work were dropped and the timer for them ends later, the lock it told of last may
\* open again; only bytes that came round to a frame that is being looked at may open one
\* that nobody asked for (main.c:124-138, 241-285).
OpensAsAsked ==
  latch' # latch /\ kpc # "test" => \A k \in Key : ~IsOpen(k) /\ IsOpen(k)' =>
    /\ OpensAlone(k)
    /\ CASE held = "frame" -> due[k] > 0
         [] held = "again" -> due[k] > 0 \/ (told[1] = \hFB /\ told[4] = k)
         [] OTHER -> TRUE

\* What the answer tells of each key, as a number: bit k is key k.
Bits(answer) == answer[3] * 65536 + answer[4] * 256 + answer[5]

\* After an opening the host is told that the key is out only when the last scan saw it
\* out: on the small board just then, on the big one it may be told of another key in its
\* row that is in.  Of all keys it is told what the last scan saw, unless that was the
\* first one after the start (main.c:59, 167-186, 253-276).  The numbers of the board and of
\* the key are the asked ones unless bytes came round.
AnswersTruly ==
  told' # told =>
    /\ held # "lapped" => told'[2] = encode
    /\ IF told'[1] = \hFB
       THEN /\ held # "lapped" => told'[4] = keyBit
            /\ told'[5] <= saw[keyBit] /\ (Keys = 8 => told'[5] = saw[keyBit])
       ELSE \A k \in Key : LET on == (Bits(told') \div 2^k) % 2 IN
              on <= saw[k] /\ (Keys = 8 \/ scans = 2 \/ told[1] = \hFB => on = saw[k])

\* A request for this board that comes to it when it is idle, and with a silence after
\* it, is answered, unless bytes that follow come round before (main.c:241-285).
RequestAnswered == want ~> ~want
=============================================================================
