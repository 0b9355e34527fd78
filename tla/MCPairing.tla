------------------------------ MODULE MCPairing ------------------------------
(* Pairing where two devices may join each other's invites before either    *)
(* Hello has landed; without that, Pairing is a part of MCParts.            *)
EXTENDS Pairing

CrossedInvites ==
    {[inviters |-> {"a", "b"}, joiners |-> {"a", "b"}, crossing |-> TRUE,
      returning |-> FALSE, invites |-> 2, ends |-> 0, verifies |-> 0, expiries |-> 0, edits |-> 0, fails |-> 0]}

\* Each device makes one invite.
OneInviteEach == \A i, j \in DOMAIN invs : invs[i].by = invs[j].by => i = j
=============================================================================
