----------------------------- MODULE MCAnnounce ------------------------------
(* Announcements in a situation the documentation covers and the code does  *)
(* not; without it, Announce is a part of MCContact.                        *)
EXTENDS Announce

\* "Block screenshots" is changed twice before a round, and one send of the
\* round reaches nobody.
QuickChanges ==
    {[kinds |-> {"block"}, relayed |-> FALSE, joining |-> FALSE, build |-> "current",
      edits |-> 2, fails |-> 1, refusals |-> 0, launches |-> 0]}
=============================================================================
