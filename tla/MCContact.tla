----------------------------- MODULE MCContact ------------------------------
(***************************************************************************)
(* What two contacts owe each other over time, checked in one run: the     *)
(* announcements, the mailbox agreement, control frames, releases that do  *)
(* not read each other, joining by a code, and the deletion of content.    *)
(* `focus` picks the part a behaviour is about; the others stay at their   *)
(* initial state.                                                          *)
(***************************************************************************)
EXTENDS Announce, Mailbox, Control, Versions, Rendezvous, Retention

VARIABLE focus

AnnCase(ks, r, j, b, e, f, x, l) ==
    [kinds |-> ks, relayed |-> r, joining |-> j, build |-> b,
     edits |-> e, fails |-> f, refusals |-> x, launches |-> l]
AnnCases ==
    { AnnCase({k}, TRUE, FALSE, "current", 2, 1, 0, 1) : k \in {"nearby", "burns"} }
    \cup { AnnCase({k}, TRUE, FALSE, "current", 1, 1, 1, 1) : k \in {"nearby", "burns", "block"} }
    \cup { AnnCase({"block"}, TRUE, FALSE, "current", 2, 0, 0, 1) }
    \cup { AnnCase({"captures"}, FALSE, FALSE, "current", 0, 1, 0, 1) }
    \cup { AnnCase({"relayset"}, FALSE, FALSE, "current", 2, 1, 0, 0) }
    \cup { AnnCase({"nearby"}, TRUE, FALSE, "early", 1, 0, 0, 1) }
    \cup { AnnCase({"block"}, TRUE, FALSE, "early", 1, 0, 0, 0) }
    \cup { AnnCase({k}, TRUE, FALSE, "v1", 1, 0, 0, 1) : k \in {"block", "burns"} }
    \cup { AnnCase({k}, TRUE, TRUE, "current", 1, 0, 0, 0) : k \in {"block", "burns"} }

MbFaults(l, r, b) == [lost |-> l, restarts |-> r, restores |-> b]
MailboxCases == {MbFaults(0, 0, 0), MbFaults(1, 1, 0), MbFaults(1, 0, 1)}

CtlSetup(relayed, online, old, notices, settings, moves, fails, keyfails, kills, refusals) ==
    [relayed |-> relayed, online |-> online, old |-> old, notices |-> notices,
     settings |-> settings, moves |-> moves, fails |-> fails, keyfails |-> keyfails,
     kills |-> kills, refusals |-> refusals]
ControlCases ==
    {CtlSetup(TRUE, TRUE, FALSE, 2, 0, 0, 1, 0, 1, 0),
     CtlSetup(FALSE, TRUE, FALSE, 1, 1, 0, 1, 0, 0, 1),
     CtlSetup(FALSE, TRUE, FALSE, 1, 0, 0, 2, 0, 1, 0),
     CtlSetup(TRUE, TRUE, FALSE, 1, 0, 1, 1, 1, 0, 0),
     CtlSetup(FALSE, TRUE, TRUE, 0, 1, 0, 1, 0, 0, 0),
     CtlSetup(TRUE, FALSE, TRUE, 0, 1, 0, 0, 0, 0, 0),
     CtlSetup(TRUE, FALSE, FALSE, 0, 2, 0, 0, 0, 0, 0)}

RdvCase(f, k, t, e, j) == [fails |-> f, kills |-> k, timeouts |-> t, expires |-> e, joins |-> j]
\* One joiner among faults; one joiner among guesses.
RdvCases == {RdvCase(2, 1, 0, FALSE, {"j1"}), RdvCase(1, 0, 0, TRUE, {"j1"}),
             RdvCase(1, 0, 0, FALSE, {"g1", "g2"})}

RetSetup(b, t, s, by, c, r, lose, rec) ==
    [burns |-> b, timers |-> t, switches |-> s, changes |-> c, reboots |-> r, texts |-> {},
     senders |-> {"a"}, changers |-> by, losses |-> lose, receipts |-> rec]
\* Burn messages; the disappearing timer, and its changes alone; server storage.
RetSetups == {RetSetup({1}, {}, {}, Devices, 0, 1, TRUE, TRUE),
              RetSetup({0}, {0, 1}, {}, Devices, 1, 0, FALSE, FALSE),
              RetSetup({}, {0, 1}, {}, {"a"}, 4, 0, FALSE, FALSE),
              RetSetup({0}, {}, {TRUE}, Devices, 1, 1, TRUE, FALSE)}

----------------------------------------------------------------------------
ContactInit ==
    /\ focus \in {"announce", "mailbox", "control", "versions", "rendezvous", "retention"}
    /\ AnnInit
    /\ focus # "announce" => case = CHOOSE c \in Cases : TRUE
    /\ MbInit
    /\ focus # "mailbox" => pair["a"] = NoPair /\ mbLeft = CHOOSE c \in MailboxFaults : TRUE
    /\ CtlInit
    /\ focus # "control" => ccase = CHOOSE c \in CtlCases : TRUE
    /\ VerInit
    /\ RdvInit
    /\ focus # "rendezvous" => rdvLeft = CHOOSE c \in RdvFaults : TRUE
    /\ RetInit
    /\ focus # "retention" => spent = [(CHOOSE c \in RetCases : TRUE) EXCEPT !.texts = Texts]

ContactNext ==
    /\ UNCHANGED focus
    /\ \/ focus = "announce" /\ AnnNext /\ UNCHANGED <<mbVars, ctlVars, verVars, rdvVars, retVars>>
       \/ focus = "mailbox" /\ MbNext /\ UNCHANGED <<annVars, ctlVars, verVars, rdvVars, retVars>>
       \/ focus = "control" /\ CtlNext /\ UNCHANGED <<annVars, mbVars, verVars, rdvVars, retVars>>
       \/ focus = "versions" /\ VerNext /\ UNCHANGED <<annVars, mbVars, ctlVars, rdvVars, retVars>>
       \/ focus = "rendezvous" /\ RdvNext /\ UNCHANGED <<annVars, mbVars, ctlVars, verVars, retVars>>
       \/ focus = "retention" /\ RetNext /\ UNCHANGED <<annVars, mbVars, ctlVars, verVars, rdvVars>>

\* The fairness of each part, while it is the one in focus.
ContactAnnounceFair ==
    /\ WF_annVars(focus = "announce" /\ LaunchReport) /\ WF_annVars(focus = "announce" /\ Publish) /\ WF_annVars(focus = "announce" /\ AnnTick)
    /\ WF_annVars(focus = "announce" /\ TakeRound) /\ WF_annVars(focus = "announce" /\ RunSend) /\ WF_annVars(focus = "announce" /\ ApplyRound)
    /\ WF_annVars(focus = "announce" /\ ReadAnnounced) /\ WF_annVars(focus = "announce" /\ ReadBack)
ContactMailboxFair ==
    \A s \in Sides :
        WF_mbVars(focus = "mailbox" /\ AnnounceMailbox(s)) /\ WF_mbVars(focus = "mailbox" /\ DeliverKey(s)) /\ WF_mbVars(focus = "mailbox" /\ OnMailboxKey(s))
ContactControlFair ==
    /\ WF_ctlVars(focus = "control" /\ Tick) /\ WF_ctlVars(focus = "control" /\ BackoffEnds)
    /\ WF_ctlVars(focus = "control" /\ TakeControlRound) /\ WF_ctlVars(focus = "control" /\ RunControlSend) /\ WF_ctlVars(focus = "control" /\ ApplyRoundDone)
    /\ WF_ctlVars(focus = "control" /\ PeerReadsDirect) /\ WF_ctlVars(focus = "control" /\ PeerPolls)
    /\ WF_ctlVars(focus = "control" /\ ContactUpdates) /\ WF_ctlVars(focus = "control" /\ ReceiveBack)
ContactVersionsFair ==
    /\ \A d \in Both :
          /\ WF_verVars(focus = "versions" /\ VersionTick(d)) /\ WF_verVars(focus = "versions" /\ Receive(d))
          /\ \A w \in {"version", "notice", "standing", "chat"} : WF_verVars(focus = "versions" /\ SendLands(d, w))
          /\ WF_verVars(focus = "versions" /\ vapp[d].release = OldRelease /\ Launch(d, NewRelease))
ContactRendezvousFair ==
    /\ WF_rdvVars(focus = "rendezvous" /\ PlanService) /\ WF_rdvVars(focus = "rendezvous" /\ ServiceDone) /\ WF_rdvVars(focus = "rendezvous" /\ ApplyService)
    /\ WF_rdvVars(focus = "rendezvous" /\ (\E r \in RdvRelays : ServiceTake(r)))
    /\ WF_rdvVars(focus = "rendezvous" /\ (\E o \in Attempts : ServiceAnswer(o)))
    /\ \A a \in Attempts : /\ WF_rdvVars(focus = "rendezvous" /\ StartJoin(a)) /\ WF_rdvVars(focus = "rendezvous" /\ PostOpener(a))
                           /\ WF_rdvVars(focus = "rendezvous" /\ PollAnswer(a))

ContactSpec ==
    /\ ContactInit /\ [][ContactNext]_<<focus, annVars, mbVars, ctlVars, verVars, rdvVars, retVars>>
    /\ ContactAnnounceFair
    /\ ContactMailboxFair
    /\ ContactControlFair
    /\ ContactVersionsFair
    /\ ContactRendezvousFair

----------------------------------------------------------------------------
\* Announced settings (AnnTypeOK, ToldIsHeard) and releases (VerTypeOK): what we
\* count as told the contact has heard.
ContactHears == AnnTypeOK /\ VerTypeOK /\ ToldIsHeard

\* Whatever is lost or killed between, the
\* contact ends up with our latest settings, every notice, and our address.
SettingsReachContacts ==
    <>[](/\ focus = "announce" => AllHeard
         /\ focus = "control" => NoticesArrived /\ SettingsArrived /\ StillReachable)

\* The two ends of a chat end up with one mailbox secret, or one of them has sent a
\* MailboxKey that was lost and that it will never send again (Unheard); they never
\* both wait for the other's release to speak, and whoever waits with the right code joins.
PairComesToTerms ==
    <>[](/\ focus = "mailbox" => Agreed \/ \E s \in Sides : Unheard(s)
         /\ focus = "versions" => OneSpeaks
         /\ focus = "rendezvous" => AllJoined)
=============================================================================
