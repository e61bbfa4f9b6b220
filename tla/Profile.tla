------------------------------ MODULE Profile ------------------------------
(***************************************************************************)
(* The configuration file of the BER test (RFID/ber_test/src/profile.c), as    *)
(* a sequence of characters: five lines of a name, a tab, a value, a tab and   *)
(* a line end.  The program makes it when it is missing or empty and reads     *)
(* line 5 at each start (main.c:262-271); ConfigModif, which nothing calls     *)
(* yet, replaces the value of a line.  What fprintf gives the library reaches   *)
(* the file at fclose, and the program may end anywhere.                      *)
(***************************************************************************)
EXTENDS Integers, Sequences

CONSTANTS
  Values,     \* values that ConfigModif is called with: sequences of letters
  MaxModifs,  \* bound on its calls
  MaxCrashes  \* bound on the program's ends

Tab == 9
CrLf == <<13, 10>>
Width == 32          \* temp[32]

VARIABLES
  config,   \* the file; <<>> when empty, NoFile when there is none
  cpc,      \* what the program does
  ftemp,    \* the temporary file
  con,      \* the value that is being set
  may,      \* values the file may hold
  got,      \* what GetConfigArg gave
  modifs, crashes

profileVars == <<config, cpc, ftemp, con, may, got, modifs, crashes>>

NoFile == <<-1>>
Letters(k, n) == [i \in 1..n |-> 100 * k + i]

\* The names and values by their lengths; the last is COM and the device.
Line(name, value) == name \o <<Tab>> \o value \o <<Tab>> \o CrLf
Device == Letters(10, 12)
DefaultLines ==
  << Line(Letters(1, 9), Letters(6, 15)), Line(Letters(2, 10), Letters(7, 4)),
     Line(Letters(3, 11), Letters(8, 4)), Line(Letters(4, 12), Letters(9, 2)),
     Line(Letters(5, 3), Device) >>
DefaultFile ==
  DefaultLines[1] \o DefaultLines[2] \o DefaultLines[3] \o DefaultLines[4] \o DefaultLines[5]

ProfileInit ==
  /\ config = NoFile /\ cpc = "check" /\ ftemp = <<>> /\ con = <<>>
  /\ may = {Device} /\ got = Device /\ modifs = 0 /\ crashes = 0

-----------------------------------------------------------------------------
(* The library                                                             *)

\* Where a line that starts after the first n characters ends for fgets(temp, 32).
LineEnd(file, n) ==
  CHOOSE e \in n..Len(file) :
    /\ e = Len(file) \/ e = n + Width - 1 \/ (e > n /\ file[e] = 10)
    /\ \A d \in (n + 1)..(e - 1) : file[d] # 10

fgets(file, n) == SubSeq(file, n + 1, LineEnd(file, n))

\* The position after k lines, and where one more read meets the end.
After(file, k) ==
  LET at[i \in 0..k] == IF i = 0 THEN 0 ELSE LineEnd(file, at[i - 1]) IN at[k]

\* GetConfigArg: what is between the tabs of the line.
GetConfigArg(file, num) ==
  LET temp == fgets(file, After(file, num - 1))
      tabs == {i \in 1..Len(temp) : temp[i] = Tab}
      first == CHOOSE i \in tabs : \A j \in tabs : i <= j
      second == CHOOSE i \in tabs \ {first} : \A j \in tabs \ {first} : i <= j
  IN SubSeq(temp, first + 1, second - 1)

\* ConfigModif's copy: the lines before, the line with its new value, and the lines after.
\* The loop for those prints temp once more at the end of the file: when the new line is
\* the last one temp still holds it, and it is there twice.  head[5] holds a name of up to
\* four letters, so the line is the fifth.
Copied(file, num, value) ==
  LET start == After(file, num - 1)
      old == fgets(file, start)
      head == SubSeq(old, 1, (CHOOSE i \in 1..Len(old) : old[i] = Tab /\ \A j \in 1..(i - 1) : old[j] # Tab) - 1)
      new == fgets(Line(head, value), 0)      \* snprintf: 31 characters
      rest == SubSeq(file, start + Len(old) + 1, Len(file))
  IN SubSeq(file, 1, start) \o new \o IF rest = <<>> THEN new ELSE rest

-----------------------------------------------------------------------------
(* The program                                                             *)

\* FileCheck: the file is made when there is none.
FileCheck ==
  /\ cpc = "check"
  /\ config' = IF config = NoFile THEN <<>> ELSE config
  /\ cpc' = IF config \in {NoFile, <<>>} THEN "default" ELSE "get"
  /\ UNCHANGED <<ftemp, con, may, got, modifs, crashes>>

\* The lines are added at the end, all at fclose.
DefaultConfigSet ==
  /\ cpc = "default"
  /\ config' = config \o DefaultFile
  /\ cpc' = "get"
  /\ may' = {Device}
  /\ UNCHANGED <<ftemp, con, got, modifs, crashes>>

Get ==
  /\ cpc = "get"
  /\ got' = GetConfigArg(config, 5)
  /\ cpc' = "run"
  /\ UNCHANGED <<config, ftemp, con, may, modifs, crashes>>

\* Mutant: the lines are counted from 0.
ModifLineBefore ==
  /\ cpc = "run" /\ modifs < MaxModifs
  /\ \E value \in Values :
       /\ con' = value
       /\ ftemp' = Copied(config, 4, value)
  /\ cpc' = "remove" /\ modifs' = modifs + 1
  /\ UNCHANGED <<config, may, got, crashes>>

Modif ==
  /\ cpc = "run" /\ modifs < MaxModifs
  /\ \E value \in Values :
       /\ con' = value
       /\ ftemp' = Copied(config, 5, value)
  /\ cpc' = "remove" /\ modifs' = modifs + 1
  /\ UNCHANGED <<config, may, got, crashes>>

\* Until the new file is closed a crash leaves no file or an empty one, and the next
\* start sets the defaults.
RemoveOld ==
  /\ cpc = "remove"
  /\ config' = NoFile /\ cpc' = "create"
  /\ UNCHANGED <<ftemp, con, may, got, modifs, crashes>>

CreateNew ==
  /\ cpc = "create"
  /\ config' = <<>> /\ cpc' = "close"
  /\ UNCHANGED <<ftemp, con, may, got, modifs, crashes>>

CloseNew ==
  /\ cpc = "close"
  /\ config' = ftemp /\ cpc' = "get"
  /\ may' = {con}
  /\ UNCHANGED <<ftemp, con, got, modifs, crashes>>

Crash ==
  /\ crashes < MaxCrashes /\ crashes' = crashes + 1
  /\ cpc' = "check" /\ ftemp' = <<>>
  /\ UNCHANGED <<config, con, may, got, modifs>>

ProfileNext ==
  FileCheck \/ DefaultConfigSet \/ Get \/ Modif \/ RemoveOld \/ CreateNew \/ CloseNew \/ Crash

ProfileSpec == ProfileInit /\ [][ProfileNext]_profileVars

-----------------------------------------------------------------------------
(* Properties                                                              *)

ProfileTypeOK == cpc \in {"check", "default", "get", "run", "remove", "create", "close"}

\* Whenever the program reads its argument it gets the value that was set last and
\* completely, or the default after an end inside ConfigModif: never part of a value or
\* another line (profile.c:24-49, 56-105, 109-127).
ArgumentIsWhole == cpc = "run" => got \in may

\* The other four lines are kept through every change and every end.
OtherLinesKept ==
  cpc = "run" => \A n \in 1..4 : fgets(config, After(config, n - 1)) = DefaultLines[n]
=============================================================================
