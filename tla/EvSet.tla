------------------------------- MODULE EvSet -------------------------------
(***************************************************************************)
(* imx6/ev_set.c, run at the start of the gateway: it looks for the touch      *)
(* screen, the RFID reader and the scanner among the HID devices and writes    *)
(* the input device of the touch screen into two lines of the start script,    *)
(* with a sed in a child process and then one in its own place.               *)
(***************************************************************************)
EXTENDS Integers, FiniteSets

CONSTANTS
  Devices,   \* what may be plugged in: a set of [hidraw, kind, opens]
  Numbers    \* how many event devices there may be

VARIABLES
  devices,   \* this machine's
  number,    \* what get_number counts
  epc,       \* "get_number", "get_path", "fork", "wait", "exec", "end"
  seen,      \* the directory entries that get_path has had
  usb_info,  \* the kind of the device, and for which one it was asked
  dev_path,  \* of the RFID reader and the scanner: a hidraw number, or -1
  event,
  script,    \* lines 2 and 10 of the start script: 0 as they were
  sed,       \* the two seds: pc and the copy of the script
  changed    \* lines that a sed that ended was to change

evVars == <<devices, number, epc, seen, usb_info, dev_path, event, script, sed, changed>>

Lines == {2, 10}

EvInit ==
  /\ devices \in {D \in SUBSET Devices : \A d, e \in D : d.hidraw = e.hidraw => d = e}
  /\ number \in Numbers
  /\ epc = "get_number" /\ seen = {}
  /\ usb_info = [kind |-> "unknown", of |-> -1]
  /\ dev_path = [rfid |-> -1, scan |-> -1] /\ event = 0
  /\ script = [l \in Lines |-> 0]
  /\ sed = [l \in Lines |-> [pc |-> "none", copy |-> script]]
  /\ changed = {}

get_number ==
  /\ epc = "get_number"
  /\ epc' = IF number < 3 THEN "end" ELSE "get_path"
  /\ UNCHANGED <<devices, number, seen, usb_info, dev_path, event, script, sed, changed>>

\* A device that cannot be opened leaves usb_info as it was.
get_dev_info(d) == IF d.opens THEN [kind |-> d.kind, of |-> d.hidraw] ELSE usb_info

\* The event device of the touch screen, by its place and how many there are.
EventOf(hidraw) ==
  (IF number > 4 THEN 3 ELSE 0) + IF hidraw = 0 THEN 1 ELSE IF hidraw = 1 THEN 2 ELSE 3

\* The next entry of the directory, in whatever order it has them.
get_path ==
  /\ epc = "get_path"
  /\ \E d \in devices :
       /\ d.hidraw \notin seen
       /\ seen' = seen \cup {d.hidraw}
       /\ usb_info' = get_dev_info(d)
       /\ event' = IF usb_info'.kind = "touch" THEN EventOf(d.hidraw) ELSE event
       /\ dev_path' = IF usb_info'.kind \in {"rfid", "scan"}
                      THEN [dev_path EXCEPT ![usb_info'.kind] = d.hidraw] ELSE dev_path
  /\ UNCHANGED <<devices, number, epc, script, sed, changed>>

AllSeen ==
  /\ epc = "get_path" /\ seen = {d.hidraw : d \in devices}
  /\ epc' = IF event = 0 THEN "end" ELSE "fork"
  /\ UNCHANGED <<devices, number, seen, usb_info, dev_path, event, script, sed, changed>>

-----------------------------------------------------------------------------
(* main: the two seds                                                      *)

\* fork fails: the script stays as it is.  Else the child becomes the sed of line 2.
Fork ==
  /\ epc = "fork"
  /\ \/ epc' = "end" /\ UNCHANGED sed
     \/ epc' = "wait" /\ sed' = [sed EXCEPT ![2].pc = "read"]
  /\ UNCHANGED <<devices, number, seen, usb_info, dev_path, event, script, changed>>

\* waitpid is called with one of its three arguments: what else is in the registers makes
\* it wait for the child or come back at once, and its result is not looked at.
WaitAndExec ==
  /\ epc = "wait"
  /\ epc' = "exec" /\ sed' = [sed EXCEPT ![10].pc = "read"]
  /\ UNCHANGED <<devices, number, seen, usb_info, dev_path, event, script, changed>>

\* sed -i reads the file and puts a changed one in its place.
SedReads(l) ==
  /\ sed[l].pc = "read"
  /\ sed' = [sed EXCEPT ![l] = [pc |-> "write", copy |-> script]]
  /\ UNCHANGED <<devices, number, epc, seen, usb_info, dev_path, event, script, changed>>

SedWrites(l) ==
  /\ sed[l].pc = "write"
  /\ script' = [sed[l].copy EXCEPT ![l] = event]
  /\ sed' = [sed EXCEPT ![l].pc = "end"]
  /\ changed' = changed \cup {l}
  /\ UNCHANGED <<devices, number, epc, seen, usb_info, dev_path, event>>

EvNext ==
  \/ get_number \/ get_path \/ AllSeen \/ Fork \/ WaitAndExec
  \/ \E l \in Lines : SedReads(l) \/ SedWrites(l)

EvSpec == EvInit /\ [][EvNext]_evVars

-----------------------------------------------------------------------------
(* Properties                                                              *)

EvTypeOK == event \in 0..6 /\ epc \in {"get_number", "get_path", "fork", "wait", "exec", "end"}

\* A line of the start script is as it was or names the event.  When both seds have
\* ended both lines do, or just one: then each of them had read the script before the
\* other one wrote it, which waitpid does not prevent (ev_set.c:232-243).
LinesChanged ==
  /\ \A l \in Lines : script[l] \in {0, event}
  /\ changed = Lines =>
       \/ \A l \in Lines : script[l] = event
       \/ /\ \E l \in Lines : script[l] = event
          /\ \A l, k \in Lines : sed[l].copy[k] = 0

\* The device at h is of the kind, or cannot be opened and another one of that kind can.
TakenFor(h, kind) ==
  /\ \E d \in devices : d.opens /\ d.kind = kind
  /\ \E d \in devices : d.hidraw = h /\ (d.opens => d.kind = kind)

\* Whatever the order of the directory, the reader, the scanner and the touch screen are
\* found when they can be opened, and what is given as their path is no device that is
\* known to be another: only one that cannot be opened is taken for the kind of the one
\* before it (ev_set.c:145-173).
PathsAreTheirs ==
  epc \notin {"get_number", "get_path"} /\ number >= 3 =>
    /\ \A kind \in {"rfid", "scan"} :
         IF \E d \in devices : d.opens /\ d.kind = kind
         THEN TakenFor(dev_path[kind], kind) ELSE dev_path[kind] = -1
    /\ IF \E d \in devices : d.opens /\ d.kind = "touch"
       THEN \E d \in devices : event = EventOf(d.hidraw) /\ TakenFor(d.hidraw, "touch")
       ELSE event = 0
=============================================================================
