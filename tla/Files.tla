------------------------------- MODULE Files --------------------------------
(***************************************************************************)
(* The two programs that rewrite a file another start will read: ev_set the    *)
(* start script of the gateway, the BER test its profile.  Neither knows of     *)
(* the other: their behaviours are those of both specifications.             *)
(***************************************************************************)
EXTENDS EvSet, Profile

FilesSpec == EvSpec /\ ProfileSpec

\* ev_set puts into the lines of the start script only the event it found, loses one of
\* them only when its two seds ran beside each other, and takes no device for another that
\* it could open (ev_set.c:120-243); what is read of the profile of the BER test is what was written,
\* in one line, and the other lines stay (profile.c:24-107).
FilesAreWhole ==
  /\ EvTypeOK /\ LinesChanged /\ PathsAreTheirs
  /\ ProfileTypeOK /\ ArgumentIsWhole /\ OtherLinesKept
=============================================================================
