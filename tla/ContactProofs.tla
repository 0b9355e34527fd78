----------------------------- MODULE ContactProofs -----------------------------
(***************************************************************************)
(* What two devices agree on before they can talk: the guesses a short     *)
(* code allows (Rendezvous) and the secret of a pair's mailboxes           *)
(* (Mailbox), for any number of attempts, relays and contributions; what   *)
(* the control frames of a pair come to (Control), for any number of       *)
(* captures, settings, moves, failures and kills; and which mailboxes are  *)
(* polled as the days pass (Epochs), for every value of its constants.     *)
(***************************************************************************)
EXTENDS Mailbox, Rendezvous, Control, Epochs, FiniteSetTheorems, WellFoundedInduction, TLAPS

-----------------------------------------------------------------------------
(* Short codes                                                             *)

\* Openers that are all the guesses a case allows for: few enough to be
\* answered again after a kill has taken the count back.
Few(c) == IsFiniteSet(c.joins) /\ Cardinality(c.joins) <= MaxOpeners
KillsAreRare == \A c \in RdvFaults : c.kills = 0 \/ Few(c)

Serving == [pc : {"take", "done"}, left : SUBSET RdvRelays, openers : SUBSET Attempts,
            seen : SUBSET Attempts, answered : SUBSET Attempts, retire : BOOLEAN]
RdvCaseOK == rdvLeft \in [fails : Nat, kills : Nat, timeouts : Nat, expires : BOOLEAN,
                          joins : SUBSET Attempts]

\* Every opener there is was posted by an attempt that this case lets join.
OnlyJoiners ==
    /\ \A x \in Attempts : attempt[x] # "no" => x \in rdvLeft.joins
    /\ \A r \in RdvRelays : joinerLeg[r] \subseteq rdvLeft.joins
    /\ service # NoService => service.openers \subseteq rdvLeft.joins
    /\ answeredEver \subseteq rdvLeft.joins

\* As long as nothing is killed, whoever was answered is in the count: in the
\* snapshot while a call of service_invites runs, in the invite between calls.
InCount(S) == IsFiniteSet(S) /\ Cardinality(S) <= MaxOpeners
Counted ==
    /\ InCount(invite.seen) /\ InCount(answeredEver)
    /\ IF service = NoService
       THEN invite.hosted => answeredEver \subseteq invite.seen
       ELSE InCount(service.seen) /\ answeredEver \subseteq service.seen
RdvInv ==
    /\ RdvTypeOK /\ answeredEver \subseteq Attempts /\ RdvCaseOK
    /\ service \in {NoService} \cup Serving
    /\ OnlyJoiners
    /\ Few(rdvLeft) \/ (rdvLeft.kills = 0 /\ Counted)

LEMMA SubsetInCount == \A S : \A T \in SUBSET S : InCount(S) => InCount(T)
<1> SUFFICES ASSUME NEW S, NEW T \in SUBSET S, InCount(S) PROVE InCount(T)
  OBVIOUS
<1>1. IsFiniteSet(T) /\ Cardinality(T) <= Cardinality(S)
  BY FS_Subset DEF InCount
<1>2. Cardinality(T) \in Nat /\ Cardinality(S) \in Nat
  BY <1>1, FS_CardinalityType DEF InCount
<1>3. QED BY <1>1, <1>2, RendezvousAssumption DEF InCount

\* The parts of the invariant that are about the answers.
LEMMA ServingParts ==
    \A s \in {NoService} \cup Serving :
        /\ s # NoService <=> s.pc # "off"
        /\ s.pc # "off" => s \in Serving
BY DEF NoService, Serving

LEMMA RdvInitOK == KillsAreRare /\ RdvInit => RdvInv
<1> SUFFICES ASSUME KillsAreRare, RdvInit PROVE RdvInv
  OBVIOUS
<1>1. InCount({})
  BY FS_EmptySet, RendezvousAssumption DEF InCount
<1>2. Counted
  BY <1>1 DEF RdvInit, Counted, Hosting, NoService
<1>3. OnlyJoiners
  BY DEF RdvInit, OnlyJoiners
<1>4. RdvCaseOK /\ RdvTypeOK
  BY RendezvousAssumption DEF RdvInit, RdvCaseOK, RdvTypeOK, Hosting
<1>5. QED
  BY <1>2, <1>3, <1>4 DEF RdvInit, RdvInv, KillsAreRare

LEMMA RdvStep == RdvInv /\ [RdvNext]_rdvVars => RdvInv'
<1> SUFFICES ASSUME RdvInv, [RdvNext]_rdvVars PROVE RdvInv'
  OBVIOUS
<1>a. /\ joinerLeg \in [RdvRelays -> SUBSET Attempts] /\ inviterLeg \in [RdvRelays -> SUBSET Attempts]
      /\ invite \in [hosted : BOOLEAN, seen : SUBSET Attempts]
      /\ savedInvite \in [hosted : BOOLEAN, seen : SUBSET Attempts]
      /\ attempt \in [Attempts -> {"no", "posting", "waiting", "joined", "refused", "gaveUp"}]
      /\ answeredEver \subseteq Attempts
      /\ service \in {NoService} \cup Serving
  BY DEF RdvInv, RdvTypeOK
<1>b. rdvLeft \in [fails : Nat, kills : Nat, timeouts : Nat, expires : BOOLEAN, joins : SUBSET Attempts]
  BY DEF RdvInv, RdvCaseOK
<1>c. OnlyJoiners /\ (Few(rdvLeft) \/ (rdvLeft.kills = 0 /\ Counted))
  BY DEF RdvInv
<1>s. (service.pc # "off" <=> service # NoService) /\ (service.pc # "off" => service \in Serving)
  BY <1>a, ServingParts
\* A fault is spent from what the case allows.
<1>d. ASSUME NEW f \in {"fails", "kills", "timeouts"}, rdvLeft[f] > 0, rdvLeft' = Spend(f)
      PROVE  RdvCaseOK' /\ rdvLeft'.joins = rdvLeft.joins /\ (f # "kills" => rdvLeft'.kills = rdvLeft.kills)
  BY <1>b, <1>d DEF Spend, RdvCaseOK
<1>e. ASSUME UNCHANGED rdvLeft \/ (Fails /\ rdvLeft' = Spend("fails"))
      PROVE  RdvCaseOK' /\ rdvLeft'.joins = rdvLeft.joins /\ rdvLeft'.kills = rdvLeft.kills
  BY <1>b, <1>d, <1>e DEF RdvCaseOK, Fails
<1>f. rdvLeft'.joins = rdvLeft.joins => (Few(rdvLeft') <=> Few(rdvLeft))
  BY DEF Few
<1>1. CASE PlanService
  <2>1. service' \in Serving /\ service = NoService /\ service' # NoService /\ service'.openers = {}
    BY <1>1, <1>a, <1>s DEF PlanService, Serving, NoService
  <2>2. OnlyJoiners'
    BY <1>1, <1>c, <2>1 DEF PlanService, OnlyJoiners
  <2>3. Counted => Counted'
    BY <1>1, <2>1 DEF PlanService, Counted, InCount
  <2>4. QED
    BY <1>1, <1>a, <1>b, <1>c, <2>1, <2>2, <2>3 DEF PlanService, RdvInv, RdvTypeOK, RdvCaseOK, Few
<1>2. ASSUME NEW r \in RdvRelays, ServiceTake(r) PROVE RdvInv'
  <2>1. service \in Serving /\ service # NoService
    BY <1>2, <1>s DEF ServiceTake
  <2>2. /\ service' \in Serving /\ service'.seen = service.seen
        /\ service'.openers \subseteq service.openers \cup joinerLeg[r]
        /\ joinerLeg' \in [RdvRelays -> SUBSET Attempts]
        /\ \A q \in RdvRelays : joinerLeg'[q] \subseteq joinerLeg[q]
    <3>1. CASE /\ service' = [service EXCEPT !.left = @ \ {r}, !.openers = joinerLeg[r] \ service.answered]
                /\ joinerLeg' = [joinerLeg EXCEPT ![r] = {}]
      <4>1. service' \in Serving /\ service'.seen = service.seen
            /\ service'.openers = joinerLeg[r] \ service.answered
        BY <1>a, <2>1, <3>1 DEF Serving
      <4>2. QED BY <1>a, <3>1, <4>1
    <3>2. CASE service' = [service EXCEPT !.left = @ \ {r}] /\ UNCHANGED joinerLeg
      BY <1>a, <2>1, <3>2 DEF Serving
    <3>3. QED BY <1>2, <3>1, <3>2 DEF ServiceTake
  <2>3. service' # NoService
    BY <2>2 DEF Serving, NoService
  <2>4. RdvCaseOK' /\ rdvLeft'.joins = rdvLeft.joins /\ rdvLeft'.kills = rdvLeft.kills
    BY <1>2, <1>e DEF ServiceTake
  <2>5. UNCHANGED <<inviterLeg, invite, savedInvite, attempt, answeredEver>>
    BY <1>2 DEF ServiceTake
  <2>6. OnlyJoiners'
    BY <1>c, <2>1, <2>2, <2>3, <2>4, <2>5 DEF OnlyJoiners
  <2>7. Counted => Counted'
    BY <2>1, <2>2, <2>3, <2>5 DEF Counted
  <2>8. QED
    BY <1>a, <1>c, <1>f, <2>2, <2>4, <2>5, <2>6, <2>7 DEF RdvInv, RdvTypeOK
<1>3. ASSUME NEW o \in Attempts, ServiceAnswer(o) PROVE RdvInv'
  <2>1. service \in Serving /\ service # NoService /\ o \in service.openers
    BY <1>3, <1>s DEF ServiceAnswer
  <2>2. o \in rdvLeft.joins
    BY <1>c, <2>1 DEF OnlyJoiners
  <2>3. UNCHANGED <<joinerLeg, invite, savedInvite, attempt>>
    BY <1>3 DEF ServiceAnswer
  <2>4. RdvCaseOK' /\ rdvLeft'.joins = rdvLeft.joins /\ rdvLeft'.kills = rdvLeft.kills
    BY <1>3, <1>e DEF ServiceAnswer
  <2>5. inviterLeg' \in [RdvRelays -> SUBSET Attempts]
    BY <1>3, <1>a DEF ServiceAnswer
  <2>6. CASE BeyondCap(service.seen, o)
    <3>1. service' = [service EXCEPT !.pc = "done", !.retire = TRUE] /\ UNCHANGED answeredEver
      BY <1>3, <2>6 DEF ServiceAnswer
    <3>2. service' \in Serving /\ service'.seen = service.seen /\ service'.openers = service.openers
      BY <2>1, <3>1 DEF Serving
    <3>3. service' # NoService
      BY <3>2 DEF Serving, NoService
    <3>4. OnlyJoiners'
      BY <1>c, <2>1, <2>3, <2>4, <3>1, <3>2 DEF OnlyJoiners
    <3>5. Counted => Counted'
      BY <2>1, <2>3, <3>1, <3>2, <3>3 DEF Counted
    <3>6. QED
      BY <1>a, <1>c, <1>f, <2>3, <2>4, <2>5, <3>1, <3>2, <3>4, <3>5 DEF RdvInv, RdvTypeOK
  <2>7. CASE ~BeyondCap(service.seen, o)
    <3>1. /\ service' = [service EXCEPT !.seen = @ \cup {o}, !.answered = @ \cup {o}, !.openers = @ \ {o}]
          /\ answeredEver' = answeredEver \cup {o}
      BY <1>3, <2>7 DEF ServiceAnswer
    <3>2. service' \in Serving /\ service'.seen = service.seen \cup {o}
          /\ service'.openers = service.openers \ {o}
      BY <2>1, <3>1 DEF Serving
    <3>3. service' # NoService
      BY <3>2 DEF Serving, NoService
    <3>4. OnlyJoiners'
      BY <1>c, <2>1, <2>2, <2>3, <2>4, <3>1, <3>2 DEF OnlyJoiners
    <3>5. Counted => Counted'
      <4> SUFFICES ASSUME Counted PROVE Counted'
        OBVIOUS
      <4>1. InCount(service.seen) /\ answeredEver \subseteq service.seen
        BY <2>1 DEF Counted
      <4>2. InCount(service.seen \cup {o})
        <5>1. /\ IsFiniteSet(service.seen \cup {o}) /\ Cardinality(service.seen) \in Nat
              /\ Cardinality(service.seen \cup {o}) = IF o \in service.seen THEN Cardinality(service.seen)
                                                      ELSE Cardinality(service.seen) + 1
          BY <4>1, FS_AddElement, FS_CardinalityType DEF InCount
        <5>2. QED BY <2>7, <4>1, <5>1, RendezvousAssumption DEF InCount, BeyondCap
      <4>3. answeredEver' \subseteq service.seen \cup {o}
        BY <3>1, <4>1
      <4>4. InCount(answeredEver')
        BY <4>2, <4>3, SubsetInCount
      <4>5. QED
        BY <2>3, <3>2, <3>3, <4>2, <4>3, <4>4 DEF Counted
    <3>6. QED
      BY <1>a, <1>c, <1>f, <2>3, <2>4, <2>5, <3>1, <3>2, <3>4, <3>5 DEF RdvInv, RdvTypeOK
  <2>8. QED BY <2>6, <2>7
<1>4. CASE ServiceDone
  <2>1. service \in Serving /\ service # NoService
    BY <1>4, <1>s DEF ServiceDone
  <2>2. service' \in Serving /\ service'.seen = service.seen /\ service'.openers = service.openers
    BY <1>4, <2>1 DEF ServiceDone, Serving
  <2>3. service' # NoService
    BY <2>2 DEF Serving, NoService
  <2>4. UNCHANGED <<joinerLeg, inviterLeg, invite, savedInvite, attempt, answeredEver, rdvLeft>>
    BY <1>4 DEF ServiceDone
  <2>5. OnlyJoiners' /\ (Counted => Counted')
    BY <1>c, <2>1, <2>2, <2>3, <2>4 DEF OnlyJoiners, Counted
  <2>6. QED
    BY <1>a, <1>b, <1>c, <1>f, <2>2, <2>4, <2>5 DEF RdvInv, RdvTypeOK, RdvCaseOK
<1>5. CASE ApplyService
  <2>1. service \in Serving /\ service # NoService /\ service' = NoService
    BY <1>5, <1>s DEF ApplyService
  <2>2. invite' \in {NoInvite, Hosting(service.seen)}
    BY <1>5 DEF ApplyService
  <2>3. UNCHANGED <<joinerLeg, inviterLeg, savedInvite, attempt, answeredEver, rdvLeft>>
    BY <1>5 DEF ApplyService
  <2>4. invite' \in [hosted : BOOLEAN, seen : SUBSET Attempts]
    <3>1. service.seen \in SUBSET Attempts
      BY <2>1 DEF Serving
    <3>2. NoInvite \in [hosted : BOOLEAN, seen : SUBSET Attempts]
          /\ Hosting(service.seen) \in [hosted : BOOLEAN, seen : SUBSET Attempts]
      BY <3>1 DEF NoInvite, Hosting
    <3>3. QED BY <2>2, <3>2
  <2>5. Counted => Counted'
    <3>1. InCount({})
      BY FS_EmptySet, RendezvousAssumption DEF InCount
    <3>2. QED BY <2>1, <2>2, <2>3, <3>1 DEF Counted, NoInvite, Hosting
  <2>6. OnlyJoiners'
    BY <1>c, <2>1, <2>3 DEF OnlyJoiners
  <2>7. QED
    BY <1>a, <1>b, <1>c, <1>f, <2>1, <2>3, <2>4, <2>5, <2>6 DEF RdvInv, RdvTypeOK, RdvCaseOK
<1>6. CASE SaveInvite
  BY <1>6, <1>a, <1>b, <1>c DEF SaveInvite, RdvInv, RdvTypeOK, RdvCaseOK, OnlyJoiners, Counted, Few
<1>7. CASE KillInviter
  <2>1. Few(rdvLeft) /\ RdvCaseOK' /\ rdvLeft'.joins = rdvLeft.joins
    BY <1>7, <1>b, <1>c, <1>d DEF KillInviter
  <2>2. service' = NoService /\ invite' = savedInvite
        /\ UNCHANGED <<joinerLeg, inviterLeg, savedInvite, attempt, answeredEver>>
    BY <1>7 DEF KillInviter
  <2>3. OnlyJoiners'
    BY <1>c, <2>1, <2>2 DEF OnlyJoiners
  <2>4. QED
    BY <1>a, <1>f, <2>1, <2>2, <2>3 DEF RdvInv, RdvTypeOK
<1>8. CASE ExpireInvite
  <2>1. service = NoService /\ invite' = NoInvite
        /\ UNCHANGED <<joinerLeg, inviterLeg, savedInvite, service, attempt, answeredEver, rdvLeft>>
    BY <1>8, <1>s DEF ExpireInvite
  <2>2. InCount({})
    BY FS_EmptySet, RendezvousAssumption DEF InCount
  <2>3. Counted => Counted'
    BY <2>1, <2>2 DEF Counted, NoInvite
  <2>4. invite' \in [hosted : BOOLEAN, seen : SUBSET Attempts]
    BY <2>1 DEF NoInvite
  <2>5. OnlyJoiners'
    BY <1>c, <2>1 DEF OnlyJoiners
  <2>6. QED
    BY <1>a, <1>b, <1>c, <1>f, <2>1, <2>3, <2>4, <2>5 DEF RdvInv, RdvTypeOK, RdvCaseOK
\* The joiner's steps post openers of its own and take answers.
<1>9. ASSUME NEW x \in Attempts, StartJoin(x) \/ PostOpener(x) \/ PollAnswer(x) \/ GiveUp(x)
      PROVE  RdvInv'
  <2>1. UNCHANGED <<invite, savedInvite, service, answeredEver>>
    BY <1>9 DEF StartJoin, PostOpener, PollAnswer, GiveUp
  <2>2. RdvCaseOK' /\ rdvLeft'.joins = rdvLeft.joins /\ rdvLeft'.kills = rdvLeft.kills
    <3>1. CASE StartJoin(x)
      BY <3>1, <1>e DEF StartJoin
    <3>2. CASE PostOpener(x)
      BY <3>2, <1>e DEF PostOpener
    <3>3. CASE PollAnswer(x)
      BY <3>3, <1>e DEF PollAnswer
    <3>4. CASE GiveUp(x)
      BY <3>4, <1>d DEF GiveUp
    <3>5. QED BY <1>9, <3>1, <3>2, <3>3, <3>4
  <2>3. attempt' \in [Attempts -> {"no", "posting", "waiting", "joined", "refused", "gaveUp"}]
        /\ \A y \in Attempts : attempt'[y] # "no" => y \in rdvLeft.joins
    <3>1. PICK s \in {"posting", "waiting", "joined", "refused", "gaveUp"} : SetAttempt(x, s)
      BY <1>9, <1>a DEF StartJoin, PostOpener, PollAnswer, GiveUp, Opened
    <3>2. x \in rdvLeft.joins
      BY <1>9, <1>a, <1>c DEF StartJoin, PostOpener, PollAnswer, GiveUp, OnlyJoiners
    <3>3. QED BY <1>a, <1>c, <3>1, <3>2 DEF SetAttempt, OnlyJoiners
  <2>4. joinerLeg' \in [RdvRelays -> SUBSET Attempts]
        /\ \A r \in RdvRelays : joinerLeg'[r] \subseteq joinerLeg[r] \cup {x}
    BY <1>9, <1>a DEF StartJoin, PostOpener, PollAnswer, GiveUp
  <2>5. inviterLeg' \in [RdvRelays -> SUBSET Attempts]
    BY <1>9, <1>a DEF StartJoin, PostOpener, PollAnswer, GiveUp
  <2>6. x \in rdvLeft.joins
    BY <1>9, <1>a, <1>c DEF StartJoin, PostOpener, PollAnswer, GiveUp, OnlyJoiners
  <2>7. OnlyJoiners'
    BY <1>c, <2>1, <2>2, <2>3, <2>4, <2>6 DEF OnlyJoiners
  <2>8. Counted => Counted'
    BY <2>1 DEF Counted
  <2>9. QED
    BY <1>a, <1>c, <1>f, <2>1, <2>2, <2>3, <2>4, <2>5, <2>7, <2>8 DEF RdvInv, RdvTypeOK
<1>10. CASE UNCHANGED rdvVars
  BY <1>10, <1>a, <1>b, <1>c DEF rdvVars, RdvInv, RdvTypeOK, RdvCaseOK, OnlyJoiners, Counted, Few
<1>11. QED
  BY <1>1, <1>2, <1>3, <1>4, <1>5, <1>6, <1>7, <1>8, <1>9, <1>10 DEF RdvNext

\* One short code is answered to no more openers than the cap, so it allows no
\* more guesses, however the calls of service_invites are cut and repeated
\* (pairing.rs, service_invites and apply_invite_service); with a kill of the
\* inviter only where the openers are too few to matter.
THEOREM GuessesAreBounded == KillsAreRare => (RdvSpec => []InvitesHold)
<1> SUFFICES ASSUME KillsAreRare PROVE RdvSpec => []InvitesHold
  OBVIOUS
<1>1. RdvInit => RdvInv
  BY RdvInitOK
<1>2. RdvInv => InvitesHold
  <2> SUFFICES ASSUME RdvInv PROVE InvitesHold
    OBVIOUS
  <2>1. InCount(answeredEver)
    <3>1. CASE Few(rdvLeft)
      BY <3>1, SubsetInCount DEF RdvInv, OnlyJoiners, Few, InCount
    <3>2. CASE Counted
      BY <3>2 DEF Counted
    <3>3. QED BY <3>1, <3>2 DEF RdvInv
  <2>2. QED BY <2>1 DEF RdvInv, InvitesHold, GuessBound, InCount
<1>3. RdvInv /\ [RdvNext]_rdvVars => RdvInv'
  BY RdvStep
<1>4. QED
  BY <1>1, <1>2, <1>3, PTL DEF RdvSpec

-----------------------------------------------------------------------------
(* The mailbox secret                                                      *)

\* The agreement is kept through one restore.  After two, one on each side, both
\* may take for agreed what the other has left.
OneRestore == \A c \in MailboxFaults : c.restores <= 1

KeysOf(q) == {q[i] : i \in DOMAIN q}
Between(x, y) == IF x = 0 \/ y = 0 THEN {{}} ELSE {{}, {x, y}}

\* A frame of a side that contributes x to a peer that contributes y.
KeyIs(k, x, y) ==
    k.own = x /\ x # 0 /\ k.confirm \in Between(x, y) /\ k.via \in Between(x, y)

\* The invariant is about the pairs, the contributions drawn, the frames queued
\* and on their way, the backups, and the restores that are left: parameters, so
\* that the parts of a step can be taken one after the other.
Worlds(pr, fr, out, net, bk) ==
    /\ pr \in [Sides -> Pair] /\ bk \in [Sides -> Pair] /\ fr \in Contribution
    /\ out \in [Sides -> Seq(Key)] /\ net \in [Sides -> Seq(Key)]
PairSound(p) == (p.peer # 0 => p.own # 0) /\ (p.confirmed => p.peer # 0)
Drawing(pr, fr, bk) ==
    \A s \in Sides : pr[s].own <= fr /\ PairSound(pr[s]) /\ PairSound(bk[s])

\* Nothing was lost: what is known of a side, in the pair and the backup of the
\* other and in its frames, is what it contributes.
Steady(pr, out, net, bk) ==
    \A s \in Sides :
        /\ pr[s].peer \in {0, pr[Other(s)].own}
        /\ bk[s].own \in {0, pr[s].own} /\ bk[s].peer \in {0, pr[Other(s)].own}
        /\ \A k \in KeysOf(out[s]) : KeyIs(k, pr[s].own, pr[Other(s)].own)
        /\ \A k \in KeysOf(net[Other(s)]) : KeyIs(k, pr[s].own, pr[Other(s)].own)

\* Side r lost the contribution x in its restore and has drawn z since, or
\* nothing yet.  Its peer o, which contributes y, may still hold x, and frames
\* with x may be on their way: the direct ones ahead of those with z.  Nobody
\* takes z and y for agreed before o holds z, and then no direct frame with x is
\* left that could take it away again.
LostKeys(x, y, z, outr, neto, outo, netr) ==
    /\ \A k \in KeysOf(outr) : KeyIs(k, z, y)
    /\ \A k \in KeysOf(neto) : KeyIs(k, x, y) \/ KeyIs(k, z, y)
    /\ \A k \in KeysOf(outo) : KeyIs(k, y, x) \/ KeyIs(k, y, z)
    /\ \A k \in KeysOf(netr) : KeyIs(k, y, x) \/ KeyIs(k, y, z)
InOrderOf(q, x) ==
    \A i, j \in DOMAIN q : i < j /\ q[i].via = {} /\ q[j].via = {} /\ q[j].own = x => q[i].own = x
LostUnheard(y, z, pairr, outr, neto, outo, netr) ==
    /\ ~pairr.confirmed
    /\ \A k \in KeysOf(outo) : k.confirm # {y, z}
    /\ \A k \in KeysOf(netr) : k.confirm # {y, z}
    /\ \A k \in KeysOf(outr) : k.via = {}
    /\ \A k \in KeysOf(neto) : k.own = z => k.via = {}
LostAt(x, fr, pairr, pairo, outr, neto, outo, netr) ==
    LET y == pairo.own  z == pairr.own IN
    /\ x # 0 /\ x <= fr /\ z # x /\ (z # 0 => z # y)
    /\ pairr.peer \in {0, y} /\ pairo.peer \in {0, x, z}
    /\ LostKeys(x, y, z, outr, neto, outo, netr) /\ InOrderOf(neto, x)
    /\ z # 0 => IF pairo.peer = z
                THEN \A k \in KeysOf(neto) : k.via = {} => k.own = z
                ELSE LostUnheard(y, z, pairr, outr, neto, outo, netr)
Lost(r, x, pr, fr, out, net) ==
    LostAt(x, fr, pr[r], pr[Other(r)], out[r], net[Other(r)], out[Other(r)], net[r])

World(pr, fr, out, net, bk, left) ==
    /\ Worlds(pr, fr, out, net, bk) /\ Drawing(pr, fr, bk)
    /\ left \in Nat /\ left <= 1
    /\ \/ Steady(pr, out, net, bk)
       \/ left = 0 /\ \E r \in Sides, x \in Contribution : Lost(r, x, pr, fr, out, net)
MbInv == MbTypeOK /\ World(pair, fresh, mbOut, mbNet, backup, mbLeft.restores)

LEMMA OtherSides ==
    \A s \in Sides : /\ Other(s) \in Sides /\ Other(s) # s /\ Other(Other(s)) = s
                     /\ \A t \in Sides : t = s \/ t = Other(s)
BY DEF Sides, Other

\* What appending a frame, taking the first and taking out any do to the frames
\* of a queue.
LEMMA AppendKeys ==
    ASSUME NEW q \in Seq(Key), NEW k \in Key
    PROVE  /\ Append(q, k) \in Seq(Key) /\ KeysOf(Append(q, k)) = KeysOf(q) \cup {k}
           /\ \A x : InOrderOf(q, x) /\ k.own # x => InOrderOf(Append(q, k), x)
<1> DEFINE p == Append(q, k)
<1>1. /\ p \in Seq(Key) /\ Len(q) \in Nat /\ DOMAIN q = 1 .. Len(q)
      /\ DOMAIN p = 1 .. (Len(q) + 1) /\ p[Len(q) + 1] = k
      /\ \A i \in 1 .. Len(q) : p[i] = q[i]
  OBVIOUS
<1> HIDE DEF p
<1>2. KeysOf(p) = KeysOf(q) \cup {k}
  <2>1. \A i \in DOMAIN p : p[i] \in KeysOf(q) \cup {k}
    BY <1>1 DEF KeysOf
  <2>2. \A i \in DOMAIN q : q[i] \in KeysOf(p)
    BY <1>1 DEF KeysOf
  <2>3. k \in KeysOf(p)
    BY <1>1 DEF KeysOf
  <2>4. QED BY <2>1, <2>2, <2>3 DEF KeysOf
<1>3. ASSUME NEW x, InOrderOf(q, x), k.own # x PROVE InOrderOf(p, x)
  BY <1>1, <1>3 DEF InOrderOf
<1>4. QED
  BY <1>1, <1>2, <1>3 DEF p

LEMMA TailKeys ==
    ASSUME NEW q \in Seq(Key), q # <<>>
    PROVE  Head(q) \in KeysOf(q) /\ Tail(q) \in Seq(Key) /\ KeysOf(Tail(q)) \subseteq KeysOf(q)
<1>1. /\ Tail(q) \in Seq(Key) /\ Len(q) \in Nat \ {0} /\ DOMAIN q = 1 .. Len(q) /\ Head(q) = q[1]
      /\ DOMAIN Tail(q) = 1 .. (Len(q) - 1) /\ \A i \in 1 .. (Len(q) - 1) : Tail(q)[i] = q[i + 1]
  OBVIOUS
<1>2. \A i \in DOMAIN Tail(q) : Tail(q)[i] \in KeysOf(q)
  BY <1>1 DEF KeysOf
<1>3. QED
  BY <1>1, <1>2 DEF KeysOf

LEMMA RemovedKeys ==
    ASSUME NEW q \in Seq(Key), NEW i \in DOMAIN q
    PROVE  /\ RemoveAt(q, i) \in Seq(Key) /\ KeysOf(RemoveAt(q, i)) \subseteq KeysOf(q)
           /\ \A x : InOrderOf(q, x) => InOrderOf(RemoveAt(q, i), x)
           /\ \A j \in DOMAIN RemoveAt(q, i) : \E l \in DOMAIN q : l # i /\ RemoveAt(q, i)[j] = q[l]
<1> DEFINE p == RemoveAt(q, i)
<1>1. Len(q) \in Nat /\ DOMAIN q = 1 .. Len(q) /\ i \in 1 .. Len(q) /\ \A j \in 1 .. Len(q) : q[j] \in Key
  OBVIOUS
<1>2. /\ SubSeq(q, 1, i - 1) \in Seq(Key) /\ SubSeq(q, i + 1, Len(q)) \in Seq(Key)
      /\ Len(SubSeq(q, 1, i - 1)) = i - 1 /\ Len(SubSeq(q, i + 1, Len(q))) = Len(q) - i
      /\ \A j \in 1 .. (i - 1) : SubSeq(q, 1, i - 1)[j] = q[j]
      /\ \A j \in 1 .. (Len(q) - i) : SubSeq(q, i + 1, Len(q))[j] = q[j + i]
  BY SMTT(30), <1>1
<1>3. /\ p \in Seq(Key) /\ DOMAIN p = 1 .. (Len(q) - 1)
      /\ \A j \in 1 .. (Len(q) - 1) : p[j] = q[IF j < i THEN j ELSE j + 1]
  <2> DEFINE u == SubSeq(q, 1, i - 1)
             v == SubSeq(q, i + 1, Len(q))
  <2>1. p = u \o v
    BY DEF RemoveAt
  <2>2. u \in Seq(Key) /\ v \in Seq(Key) /\ Len(u) = i - 1 /\ Len(v) = Len(q) - i
    BY <1>2
  <2>3. /\ \A j \in 1 .. (i - 1) : u[j] = q[j]
        /\ \A j \in 1 .. (Len(q) - i) : v[j] = q[j + i]
    BY <1>2
  <2> HIDE DEF p, u, v
  <2>4. /\ p \in Seq(Key) /\ DOMAIN p = 1 .. (Len(u) + Len(v))
        /\ \A j \in 1 .. (Len(u) + Len(v)) : p[j] = IF j <= Len(u) THEN u[j] ELSE v[j - Len(u)]
    BY <2>1, <2>2
  <2>5. ASSUME NEW j \in 1 .. (Len(q) - 1) PROVE p[j] = q[IF j < i THEN j ELSE j + 1]
    <3>1. CASE j < i
      BY <1>1, <2>2, <2>3, <2>4, <3>1
    <3>2. CASE ~(j < i)
      <4>1. p[j] = v[j - (i - 1)] /\ j - (i - 1) \in 1 .. (Len(q) - i) /\ j - (i - 1) + i = j + 1
        BY SMTT(30), <1>1, <2>2, <2>4, <3>2
      <4>2. QED BY <2>3, <3>2, <4>1
    <3>3. QED BY <3>1, <3>2
  <2>6. QED BY <1>1, <2>2, <2>4, <2>5
<1> HIDE DEF p
<1>4. \A j \in DOMAIN p : (IF j < i THEN j ELSE j + 1) \in DOMAIN q
  BY <1>1, <1>3
<1>5. KeysOf(p) \subseteq KeysOf(q)
  BY <1>3, <1>4 DEF KeysOf
<1>6. ASSUME NEW x, InOrderOf(q, x) PROVE InOrderOf(p, x)
  <2> DEFINE w(j) == IF j < i THEN j ELSE j + 1
  <2>1. \A j \in DOMAIN p : w(j) \in DOMAIN q /\ p[j] = q[w(j)]
    BY <1>3, <1>4
  <2>2. \A j, l \in DOMAIN p : j < l => w(j) < w(l)
    BY <1>1, <1>3
  <2> HIDE DEF w
  <2>3. QED BY <1>6, <2>1, <2>2 DEF InOrderOf
<1>7. \A j \in DOMAIN p : \E l \in DOMAIN q : l # i /\ p[j] = q[l]
  BY <1>1, <1>3, <1>4
<1>8. QED
  BY <1>3, <1>5, <1>6, <1>7 DEF p

\* A side without a contribution has no pair yet, and has sent nothing.
LEMMA DrawKeeps ==
    ASSUME NEW pr, NEW fr, NEW out, NEW net, NEW bk, NEW left, World(pr, fr, out, net, bk, left),
           NEW s \in Sides, pr[s].own = 0, fr + 1 \in Contribution
    PROVE  World([pr EXCEPT ![s] = [@ EXCEPT !.own = fr + 1]], fr + 1, out, net, bk, left)
<1> DEFINE n == fr + 1
           p == [pr[s] EXCEPT !.own = n]
           pr2 == [pr EXCEPT ![s] = p]
           o == Other(s)
<1>1. Worlds(pr, fr, out, net, bk) /\ Drawing(pr, fr, bk) /\ fr \in Nat
  BY MailboxAssumption DEF World, Worlds, Contribution
<1>o. o \in Sides /\ o # s /\ Other(o) = s /\ Other(s) = o /\ \A t \in Sides : t = s \/ t = o
  BY OtherSides
<1>2. /\ pr[s].peer = 0 /\ pr[s].confirmed = FALSE /\ pr[s] \in Pair /\ pr[o] \in Pair
      /\ pr[o].own <= fr /\ pr[o].own \in Nat /\ pr[o].peer \in Nat
  BY <1>1, <1>o DEF Worlds, Drawing, PairSound, Pair, Contribution
<1>3. /\ p \in Pair /\ p.own = n /\ p.peer = 0 /\ p.confirmed = FALSE
      /\ pr2 \in [Sides -> Pair] /\ pr2[s] = p /\ pr2[o] = pr[o]
  BY <1>1, <1>2, <1>o DEF Pair, Worlds
<1> HIDE DEF p, pr2, o, n
<1>4. Worlds(pr2, n, out, net, bk)
  BY <1>1, <1>3 DEF Worlds, n
<1>5. Drawing(pr2, n, bk)
  BY <1>1, <1>2, <1>3, <1>o DEF Drawing, PairSound, n
<1>n. n \in Nat /\ n # 0 /\ n # pr[o].own /\ n > fr
  BY <1>1, <1>2 DEF n
<1>k. \A k, y : ~KeyIs(k, 0, y) /\ (KeyIs(k, y, 0) => \A x : KeyIs(k, y, x))
  BY DEF KeyIs, Between
<1>6. CASE Steady(pr, out, net, bk)
  <2>1. \A t \in Sides : /\ pr2[t].peer \in {0, pr2[Other(t)].own}
                         /\ bk[t].own \in {0, pr2[t].own} /\ bk[t].peer \in {0, pr2[Other(t)].own}
    <3>1. /\ pr[o].peer \in {0, 0} /\ bk[s].own \in {0, 0} /\ bk[s].peer \in {0, pr[o].own}
          /\ bk[o].own \in {0, pr[o].own} /\ bk[o].peer \in {0, 0}
      BY <1>2, <1>6, <1>o DEF Steady
    <3>2. QED BY <1>3, <1>o, <3>1
  <2>2. \A t \in Sides : \A k : KeyIs(k, pr[t].own, pr[Other(t)].own) => KeyIs(k, pr2[t].own, pr2[Other(t)].own)
    BY <1>2, <1>3, <1>k, <1>o
  <2>3. Steady(pr2, out, net, bk)
    BY <1>6, <2>1, <2>2 DEF Steady
  <2>4. QED
    BY <1>4, <1>5, <2>3 DEF World, p, pr2, n
<1>7. ASSUME left = 0, NEW r \in Sides, NEW x \in Contribution, Lost(r, x, pr, fr, out, net)
      PROVE  Lost(r, x, pr2, n, out, net)
  <2>0. x \in Nat /\ x # n
    BY <1>7, <1>1, <1>n DEF Contribution, Lost, LostAt
  <2>1. CASE r = s
    <3>1. LostAt(x, fr, pr[s], pr[o], out[s], net[o], out[o], net[s])
      BY <1>7, <2>1 DEF Lost, o
    <3>2. /\ x # 0 /\ x <= n /\ pr[o].peer \in {0, x} /\ pr[o].peer # n
          /\ LostKeys(x, pr[o].own, 0, out[s], net[o], out[o], net[s]) /\ InOrderOf(net[o], x)
      BY <1>1, <1>2, <1>n, <2>0, <3>1 DEF LostAt
    <3>3. LostKeys(x, pr[o].own, n, out[s], net[o], out[o], net[s])
      <4>1. \A k, y : KeyIs(k, y, 0) => KeyIs(k, y, x)
        BY <1>k
      <4>2. QED BY <1>k, <3>2, <4>1 DEF LostKeys
    <3>4. LostUnheard(pr[o].own, n, p, out[s], net[o], out[o], net[s])
      <4>1. \A k, y : KeyIs(k, y, x) => k.confirm # {y, n} \/ y = n
        BY <1>n, <2>0 DEF KeyIs, Between
      <4>2. \A k \in KeysOf(net[o]) : k.own # n
        BY <1>k, <2>0, <3>2 DEF LostKeys, KeyIs
      <4>3. QED BY <1>3, <1>k, <1>n, <3>2, <4>1, <4>2 DEF LostUnheard, LostKeys
    <3>5. LostAt(x, n, p, pr[o], out[s], net[o], out[o], net[s])
      BY <1>3, <1>n, <2>0, <3>2, <3>3, <3>4 DEF LostAt
    <3>6. QED BY <1>3, <2>1, <3>5 DEF Lost, o
  <2>2. CASE r = o
    <3>1. LostAt(x, fr, pr[o], pr[s], out[o], net[s], out[s], net[o])
      BY <1>7, <1>o, <2>2 DEF Lost
    <3> DEFINE z == pr[o].own
    <3>2. /\ x # 0 /\ x <= n /\ z # x /\ z # n /\ pr[o].peer = 0
          /\ LostKeys(x, 0, z, out[o], net[s], out[s], net[o]) /\ InOrderOf(net[s], x)
      BY <1>1, <1>2, <1>n, <2>0, <3>1 DEF LostAt
    <3>3. LostKeys(x, n, z, out[o], net[s], out[s], net[o])
      BY <1>k, <3>2 DEF LostKeys
    <3>4. LostUnheard(n, z, pr[o], out[o], net[s], out[s], net[o])
      <4>1. pr[o].confirmed = FALSE
        BY <1>1, <1>o, <3>2, <1>2 DEF Drawing, PairSound, Pair
      <4>2. KeysOf(out[s]) = {} /\ KeysOf(net[o]) = {}
        BY <1>k, <3>2 DEF LostKeys
      <4>3. \A k, w : KeyIs(k, w, 0) => k.via = {}
        BY DEF KeyIs, Between
      <4>4. QED BY <3>2, <4>1, <4>2, <4>3 DEF LostUnheard, LostKeys
    <3>5. LostAt(x, n, pr[o], p, out[o], net[s], out[s], net[o])
      BY <1>3, <1>n, <2>0, <3>2, <3>3, <3>4 DEF LostAt
    <3>6. QED BY <1>3, <1>o, <2>2, <3>5 DEF Lost
  <2>3. QED BY <1>o, <2>1, <2>2
<1>8. QED
  BY <1>1, <1>4, <1>5, <1>6, <1>7 DEF World, p, pr2, n

\* Queues that lose frames and gain none, in their order.
LEMMA FewerKeep ==
    ASSUME NEW pr, NEW fr, NEW out, NEW net, NEW bk, NEW left, World(pr, fr, out, net, bk, left),
           NEW out2 \in [Sides -> Seq(Key)], NEW net2 \in [Sides -> Seq(Key)],
           \A t \in Sides : /\ KeysOf(out2[t]) \subseteq KeysOf(out[t])
                            /\ KeysOf(net2[t]) \subseteq KeysOf(net[t])
                            /\ \A x : InOrderOf(net[t], x) => InOrderOf(net2[t], x)
    PROVE  World(pr, fr, out2, net2, bk, left)
<1>1. Worlds(pr, fr, out2, net2, bk) /\ Drawing(pr, fr, bk)
  BY DEF World, Worlds
<1>2. Steady(pr, out, net, bk) => Steady(pr, out2, net2, bk)
  BY OtherSides DEF Steady
<1>3. ASSUME NEW r \in Sides, NEW x, Lost(r, x, pr, fr, out, net)
      PROVE  Lost(r, x, pr, fr, out2, net2)
  <2> DEFINE o == Other(r)
  <2>1. o \in Sides
    BY OtherSides
  <2>2. LostAt(x, fr, pr[r], pr[o], out[r], net[o], out[o], net[r])
    BY <1>3 DEF Lost
  <2> HIDE DEF o
  <2>3. LostAt(x, fr, pr[r], pr[o], out2[r], net2[o], out2[o], net2[r])
    BY <2>1, <2>2 DEF LostAt, LostKeys, LostUnheard
  <2>4. QED BY <2>3 DEF Lost, o
<1>4. QED
  BY <1>1, <1>2, <1>3 DEF World

\* What a side says of itself: its contribution and the secret it holds.
LEMMA KeyOfIs ==
    ASSUME NEW p \in Pair, p.own # 0, PairSound(p)
    PROVE  /\ KeyOf(p) \in Key /\ KeyOf(p).own = p.own /\ KeyIs(KeyOf(p), p.own, p.peer)
           /\ ~p.confirmed => KeyOf(p).via = {}
           /\ p.peer = 0 => KeyOf(p).confirm = {} /\ KeyOf(p).via = {}
           /\ p.peer # 0 => KeyOf(p).confirm = {p.own, p.peer}
BY DEF KeyOf, PostHandle, Secret, Pair, Key, Contribution, KeyIs, Between, PairSound

LEMMA SayKeeps ==
    ASSUME NEW pr, NEW fr, NEW out, NEW net, NEW bk, NEW left, World(pr, fr, out, net, bk, left),
           NEW s \in Sides, pr[s].own # 0
    PROVE  World([pr EXCEPT ![s] = Sealed(@)], fr, [out EXCEPT ![s] = Append(@, KeyOf(pr[s]))],
                 net, bk, left)
<1> DEFINE o == Other(s)
           p == Sealed(pr[s])
           k == KeyOf(pr[s])
           pr2 == [pr EXCEPT ![s] = p]
           out2 == [out EXCEPT ![s] = Append(@, k)]
<1>1. Worlds(pr, fr, out, net, bk) /\ Drawing(pr, fr, bk)
  BY DEF World
<1>o. o \in Sides /\ o # s /\ Other(o) = s /\ Other(s) = o /\ \A t \in Sides : t = s \/ t = o
  BY OtherSides
<1>2. /\ pr[s] \in Pair /\ pr[o] \in Pair /\ out[s] \in Seq(Key) /\ out[o] \in Seq(Key)
      /\ PairSound(pr[s])
  BY <1>1, <1>o DEF Worlds, Drawing
<1>3. /\ p \in Pair /\ p.own = pr[s].own /\ p.peer = pr[s].peer /\ p.confirmed = pr[s].confirmed
      /\ pr2 \in [Sides -> Pair] /\ pr2[s] = p /\ pr2[o] = pr[o]
  <2>1. (pr[s].sent \/ Secret(pr[s]) # {}) \in BOOLEAN
    OBVIOUS
  <2>2. p = [pr[s] EXCEPT !.sent = pr[s].sent \/ Secret(pr[s]) # {}]
    BY DEF Sealed
  <2>3. p \in Pair /\ p.own = pr[s].own /\ p.peer = pr[s].peer /\ p.confirmed = pr[s].confirmed
    BY <1>2, <2>1, <2>2 DEF Pair
  <2> HIDE DEF p
  <2>4. QED BY <1>1, <1>o, <2>3 DEF Worlds
<1>4. /\ k \in Key /\ k.own = pr[s].own /\ KeyIs(k, pr[s].own, pr[s].peer)
      /\ ~pr[s].confirmed => k.via = {}
      /\ pr[s].peer = 0 => k.confirm = {} /\ k.via = {}
      /\ pr[s].peer # 0 => k.confirm = {pr[s].own, pr[s].peer}
  BY <1>2, KeyOfIs
<1> HIDE DEF p, k, pr2, o
<1>5. /\ out2 \in [Sides -> Seq(Key)] /\ KeysOf(out2[s]) = KeysOf(out[s]) \cup {k}
      /\ out2[o] = out[o]
  <2>1. Append(out[s], k) \in Seq(Key) /\ KeysOf(Append(out[s], k)) = KeysOf(out[s]) \cup {k}
    BY <1>2, <1>4, AppendKeys
  <2>2. QED BY <1>1, <1>o, <2>1 DEF Worlds
<1> HIDE DEF out2
<1>6. Worlds(pr2, fr, out2, net, bk) /\ Drawing(pr2, fr, bk)
  BY <1>1, <1>3, <1>5, <1>o DEF Worlds, Drawing, PairSound
<1>k. \A y : pr[s].peer \in {0, y} => KeyIs(k, pr[s].own, y)
  BY <1>4 DEF KeyIs, Between
<1>7. CASE Steady(pr, out, net, bk)
  <2>1. \A t \in Sides : pr2[t].own = pr[t].own /\ pr2[t].peer = pr[t].peer
    BY <1>3, <1>o
  <2>2. KeyIs(k, pr[s].own, pr[o].own)
    BY <1>7, <1>k, <1>o DEF Steady
  <2>3. Steady(pr2, out2, net, bk)
    <3>1. \A t \in Sides : \A j \in KeysOf(out2[t]) : KeyIs(j, pr[t].own, pr[Other(t)].own)
      <4>1. \A j \in KeysOf(out2[s]) : KeyIs(j, pr[s].own, pr[o].own)
        BY <1>5, <1>7, <1>o, <2>2 DEF Steady
      <4>2. \A j \in KeysOf(out2[o]) : KeyIs(j, pr[o].own, pr[s].own)
        BY <1>5, <1>7, <1>o DEF Steady
      <4>3. QED BY <1>o, <4>1, <4>2
    <3>2. QED BY <1>7, <2>1, <3>1, OtherSides DEF Steady
  <2>4. QED BY <1>1, <1>6, <2>3 DEF World, p, k, pr2, out2
<1>8. ASSUME NEW r \in Sides, NEW x, Lost(r, x, pr, fr, out, net)
      PROVE  Lost(r, x, pr2, fr, out2, net)
  <2>1. CASE r = s
    <3>1. LostAt(x, fr, pr[s], pr[o], out[s], net[o], out[o], net[s])
      BY <1>8, <2>1 DEF Lost, o
    <3>2. KeyIs(k, pr[s].own, pr[o].own)
      BY <1>k, <3>1 DEF LostAt
    <3>3. LostAt(x, fr, p, pr[o], out2[s], net[o], out2[o], net[s])
      BY <1>3, <1>4, <1>5, <3>1, <3>2 DEF LostAt, LostKeys, LostUnheard
    <3>4. QED BY <1>3, <2>1, <3>3 DEF Lost, o
  <2>2. CASE r = o
    <3>1. LostAt(x, fr, pr[o], pr[s], out[o], net[s], out[s], net[o])
      BY <1>8, <1>o, <2>2 DEF Lost
    <3> DEFINE z == pr[o].own
               y == pr[s].own
    <3>2. KeyIs(k, y, x) \/ KeyIs(k, y, z)
      BY <1>k, <3>1 DEF LostAt
    <3>3. z # 0 /\ pr[s].peer # z => k.confirm # {y, z}
      <4>1. x # z /\ (z # 0 => z # y) /\ pr[s].peer \in {0, x, z}
        BY <3>1 DEF LostAt
      <4>2. ASSUME z # 0, pr[s].peer # z, k.confirm = {y, z} PROVE FALSE
        <5>1. z \in k.confirm
          BY <4>2
        <5>2. k.confirm = {} \/ k.confirm = {y, x}
          BY <1>4, <4>1, <4>2
        <5>3. QED BY <4>1, <4>2, <5>1, <5>2
      <4>3. QED BY <4>2
    <3>4. LostAt(x, fr, pr[o], p, out2[o], net[s], out2[s], net[o])
      BY <1>3, <1>5, <3>1, <3>2, <3>3 DEF LostAt, LostKeys, LostUnheard
    <3>5. QED BY <1>3, <1>o, <2>2, <3>4 DEF Lost
  <2>3. QED BY <1>o, <2>1, <2>2
<1>9. QED
  BY <1>1, <1>6, <1>7, <1>8 DEF World, p, k, pr2, out2

\* The first queued frame of a side is handed to the other, directly or by relay.
LEMMA HandKeeps ==
    ASSUME NEW pr, NEW fr, NEW out, NEW net, NEW bk, NEW left, World(pr, fr, out, net, bk, left),
           NEW s \in Sides, out[s] # <<>>,
           NEW h, h = Head(out[s]) \/ h = [Head(out[s]) EXCEPT !.via = {}]
    PROVE  World(pr, fr, [out EXCEPT ![s] = Tail(@)], [net EXCEPT ![Other(s)] = Append(@, h)], bk, left)
<1> DEFINE o == Other(s)
           g == Head(out[s])
           out2 == [out EXCEPT ![s] = Tail(@)]
           net2 == [net EXCEPT ![o] = Append(@, h)]
<1>1. Worlds(pr, fr, out, net, bk) /\ Drawing(pr, fr, bk)
  BY DEF World
<1>o. o \in Sides /\ o # s /\ Other(o) = s /\ Other(s) = o /\ \A t \in Sides : t = s \/ t = o
  BY OtherSides
<1>2. out[s] \in Seq(Key) /\ net[o] \in Seq(Key)
  BY <1>1, <1>o DEF Worlds
<1>3. g \in KeysOf(out[s]) /\ g \in Key /\ Tail(out[s]) \in Seq(Key)
      /\ KeysOf(Tail(out[s])) \subseteq KeysOf(out[s])
  BY <1>2, TailKeys
<1>4. /\ h \in Key /\ h.own = g.own /\ h.confirm = g.confirm /\ h.via \in {{}, g.via}
      /\ \A x, y : KeyIs(g, x, y) => KeyIs(h, x, y)
  <2>1. h \in Key /\ h.own = g.own /\ h.confirm = g.confirm /\ h.via \in {{}, g.via}
    BY <1>3 DEF Key
  <2>2. QED BY <2>1 DEF KeyIs, Between
<1> HIDE DEF o, g
<1>5. /\ out2 \in [Sides -> Seq(Key)] /\ net2 \in [Sides -> Seq(Key)]
      /\ KeysOf(out2[s]) \subseteq KeysOf(out[s]) /\ out2[o] = out[o]
      /\ KeysOf(net2[o]) = KeysOf(net[o]) \cup {h} /\ net2[s] = net[s]
      /\ \A x : InOrderOf(net[o], x) /\ h.own # x => InOrderOf(net2[o], x)
  <2>1. /\ Append(net[o], h) \in Seq(Key) /\ KeysOf(Append(net[o], h)) = KeysOf(net[o]) \cup {h}
        /\ \A x : InOrderOf(net[o], x) /\ h.own # x => InOrderOf(Append(net[o], h), x)
    BY <1>2, <1>4, AppendKeys
  <2>2. QED BY <1>1, <1>3, <1>o, <2>1 DEF Worlds
<1> HIDE DEF out2, net2
<1>6. Worlds(pr, fr, out2, net2, bk)
  BY <1>1, <1>5 DEF Worlds
<1>7. CASE Steady(pr, out, net, bk)
  <2>1. KeyIs(h, pr[s].own, pr[o].own)
    BY <1>3, <1>4, <1>7, <1>o DEF Steady
  <2>2. Steady(pr, out2, net2, bk)
    <3>1. \A t \in Sides : \A j \in KeysOf(net2[Other(t)]) : KeyIs(j, pr[t].own, pr[Other(t)].own)
      <4>1. \A j \in KeysOf(net2[o]) : KeyIs(j, pr[s].own, pr[o].own)
        BY <1>5, <1>7, <1>o, <2>1 DEF Steady
      <4>2. \A j \in KeysOf(net2[s]) : KeyIs(j, pr[o].own, pr[s].own)
        BY <1>5, <1>7, <1>o DEF Steady
      <4>3. QED BY <1>o, <4>1, <4>2
    <3>2. \A t \in Sides : KeysOf(out2[t]) \subseteq KeysOf(out[t])
      BY <1>5, <1>o
    <3>3. QED BY <1>7, <3>1, <3>2 DEF Steady
  <2>3. QED BY <1>1, <1>6, <2>2 DEF World, out2, net2, o
<1>8. ASSUME NEW r \in Sides, NEW x, Lost(r, x, pr, fr, out, net)
      PROVE  Lost(r, x, pr, fr, out2, net2)
  <2>1. CASE r = s
    <3>1. LostAt(x, fr, pr[s], pr[o], out[s], net[o], out[o], net[s])
      BY <1>8, <2>1 DEF Lost, o
    <3>2. KeyIs(h, pr[s].own, pr[o].own) /\ h.own = pr[s].own /\ h.own # x
      BY <1>3, <1>4, <3>1 DEF LostAt, LostKeys, KeyIs
    <3>3. LostAt(x, fr, pr[s], pr[o], out2[s], net2[o], out2[o], net2[s])
      BY <1>3, <1>4, <1>5, <3>1, <3>2 DEF LostAt, LostKeys, LostUnheard
    <3>4. QED BY <2>1, <3>3 DEF Lost, o
  <2>2. CASE r = o
    <3>1. LostAt(x, fr, pr[o], pr[s], out[o], net[s], out[s], net[o])
      BY <1>8, <1>o, <2>2 DEF Lost
    <3>2. KeyIs(h, pr[s].own, x) \/ KeyIs(h, pr[s].own, pr[o].own)
      BY <1>3, <1>4, <3>1 DEF LostAt, LostKeys
    <3>3. LostAt(x, fr, pr[o], pr[s], out2[o], net2[s], out2[s], net2[o])
      BY <1>3, <1>4, <1>5, <3>1, <3>2 DEF LostAt, LostKeys, LostUnheard
    <3>4. QED BY <1>o, <2>2, <3>3 DEF Lost
  <2>3. QED BY <1>o, <2>1, <2>2
<1>9. QED
  BY <1>1, <1>6, <1>7, <1>8 DEF World, out2, net2, o

\* Reading: the oldest direct frame, or a relay copy under the secret held.
ReadableIn(q, i, p) ==
    /\ i \in DOMAIN q
    /\ IF q[i].via = {} THEN \A j \in 1 .. (i - 1) : q[j].via # {} ELSE q[i].via = Secret(p)

\* What a frame does to the pair of the side that reads it.
LEMMA ReceivedIs ==
    ASSUME NEW p \in Pair, NEW k \in Key, p.own # 0, k.own # 0, PairSound(p)
    PROVE  /\ Received(p, k) \in Pair /\ Received(p, k).own = p.own /\ Received(p, k).peer = k.own
           /\ PairSound(Received(p, k))
           /\ Received(p, k).confirmed =>
                 (p.confirmed /\ p.peer = k.own) \/ k.confirm = {p.own, k.own}
<1> DEFINE q == IF p.peer = k.own THEN p
                ELSE [p EXCEPT !.peer = k.own, !.confirmed = FALSE, !.sent = FALSE]
           c == q.confirmed \/ (k.confirm # {} /\ k.confirm = Secret(q))
<1>1. /\ q \in Pair /\ q.own = p.own /\ q.peer = k.own
      /\ q.confirmed => p.confirmed /\ p.peer = k.own
  BY DEF Pair, Key
<1>2. Secret(q) = {p.own, k.own}
  BY <1>1 DEF Secret
<1>3. c \in BOOLEAN /\ (c => (p.confirmed /\ p.peer = k.own) \/ k.confirm = {p.own, k.own})
  <2>1. q.confirmed \in BOOLEAN
    BY <1>1 DEF Pair
  <2> HIDE DEF q
  <2>2. QED BY <1>1, <1>2, <2>1
<1>4. Received(p, k) = [q EXCEPT !.confirmed = c]
  BY DEF Received
<1> HIDE DEF q, c
<1>5. /\ Received(p, k) \in Pair /\ Received(p, k).own = p.own /\ Received(p, k).peer = k.own
      /\ Received(p, k).confirmed = c
  BY <1>1, <1>3, <1>4 DEF Pair
<1>6. QED
  BY <1>3, <1>5 DEF PairSound

LEMMA TakeKeeps ==
    ASSUME NEW pr, NEW fr, NEW out, NEW net, NEW bk, NEW left, World(pr, fr, out, net, bk, left),
           NEW s \in Sides, pr[s].own # 0, NEW i, ReadableIn(net[s], i, pr[s])
    PROVE  World([pr EXCEPT ![s] = Received(@, net[s][i])], fr, out,
                 [net EXCEPT ![s] = RemoveAt(@, i)], bk, left)
<1> DEFINE o == Other(s)
           k == net[s][i]
           p == Received(pr[s], k)
           pr2 == [pr EXCEPT ![s] = p]
           net2 == [net EXCEPT ![s] = RemoveAt(@, i)]
<1>1. Worlds(pr, fr, out, net, bk) /\ Drawing(pr, fr, bk)
  BY DEF World
<1>o. o \in Sides /\ o # s /\ Other(o) = s /\ Other(s) = o /\ \A t \in Sides : t = s \/ t = o
  BY OtherSides
<1>2. /\ pr[s] \in Pair /\ pr[o] \in Pair /\ net[s] \in Seq(Key) /\ PairSound(pr[s])
      /\ i \in DOMAIN net[s]
  BY <1>1, <1>o DEF Worlds, Drawing, ReadableIn
<1>3. k \in Key /\ k \in KeysOf(net[s])
  BY <1>2 DEF KeysOf
<1>4. /\ RemoveAt(net[s], i) \in Seq(Key) /\ KeysOf(RemoveAt(net[s], i)) \subseteq KeysOf(net[s])
      /\ \A x : InOrderOf(net[s], x) => InOrderOf(RemoveAt(net[s], i), x)
      /\ \A j \in DOMAIN RemoveAt(net[s], i) :
             \E l \in DOMAIN net[s] : l # i /\ RemoveAt(net[s], i)[j] = net[s][l]
  BY <1>2, RemovedKeys
<1> HIDE DEF o, k
<1>5. /\ net2 \in [Sides -> Seq(Key)] /\ net2[o] = net[o]
      /\ net2[s] = RemoveAt(net[s], i) /\ KeysOf(net2[s]) \subseteq KeysOf(net[s])
      /\ \A x : InOrderOf(net[s], x) => InOrderOf(net2[s], x)
  BY <1>1, <1>4, <1>o DEF Worlds
<1> HIDE DEF net2, p, pr2
<1>6. ASSUME k.own # 0
      PROVE  /\ p \in Pair /\ p.own = pr[s].own /\ p.peer = k.own /\ PairSound(p)
             /\ p.confirmed => (pr[s].confirmed /\ pr[s].peer = k.own) \/ k.confirm = {pr[s].own, k.own}
  BY <1>2, <1>3, <1>6, ReceivedIs DEF p
<1>7. ASSUME k.own # 0
      PROVE  /\ pr2 \in [Sides -> Pair] /\ pr2[s] = p /\ pr2[o] = pr[o]
             /\ Worlds(pr2, fr, out, net2, bk) /\ Drawing(pr2, fr, bk)
  BY <1>1, <1>5, <1>6, <1>7, <1>o DEF Worlds, Drawing, pr2
<1>8. CASE Steady(pr, out, net, bk)
  <2>1. KeyIs(k, pr[o].own, pr[s].own)
    BY <1>3, <1>8, <1>o DEF Steady
  <2>2. k.own # 0 /\ k.own = pr[o].own
    BY <2>1 DEF KeyIs
  <2>3. \A t \in Sides : pr2[t].own = pr[t].own /\ pr2[t].peer \in {pr[t].peer, pr[Other(t)].own}
    BY <1>6, <1>7, <1>o, <2>2
  <2>4. \A t \in Sides : KeysOf(net2[t]) \subseteq KeysOf(net[t])
    BY <1>5, <1>o
  <2>5. Steady(pr2, out, net2, bk)
    BY <1>8, <2>3, <2>4, OtherSides DEF Steady
  <2>6. QED BY <1>1, <1>7, <2>2, <2>5 DEF World, p, k, pr2, net2
<1>9. ASSUME NEW r \in Sides, NEW x, Lost(r, x, pr, fr, out, net)
      PROVE  k.own # 0 /\ Lost(r, x, pr2, fr, out, net2)
  \* The side that lost its contribution reads: what it takes for agreed, the
  \* other holds.
  <2>1. CASE r = s
    <3> DEFINE z == pr[s].own
               y == pr[o].own
    <3>1. LostAt(x, fr, pr[s], pr[o], out[s], net[o], out[o], net[s])
      BY <1>9, <2>1 DEF Lost, o
    <3>2. k.own = y /\ y # 0 /\ x # z /\ z # y
      BY <1>3, <3>1 DEF LostAt, LostKeys, KeyIs
    <3>3. p.own = z /\ p.peer = y /\ pr2[s] = p /\ pr2[o] = pr[o]
          /\ (p.confirmed => pr[s].confirmed \/ k.confirm = {z, y})
      BY <1>6, <1>7, <3>2
    <3>4. pr[o].peer # z => ~p.confirmed
      <4>1. pr[o].peer # z => ~pr[s].confirmed /\ k.confirm # {y, z}
        BY <1>3, <3>1 DEF LostAt, LostUnheard
      <4>2. {z, y} = {y, z}
        OBVIOUS
      <4>3. QED BY <3>3, <4>1, <4>2
    <3>5. LostAt(x, fr, p, pr[o], out[s], net2[o], out[o], net2[s])
      BY <1>5, <3>1, <3>2, <3>3, <3>4 DEF LostAt, LostKeys, LostUnheard
    <3>6. QED BY <2>1, <3>2, <3>3, <3>5 DEF Lost, o
  \* The other reads: an old frame while it holds nothing newer, or a new one.
  <2>2. CASE r = o
    <3> DEFINE z == pr[o].own
               y == pr[s].own
    <3>1. LostAt(x, fr, pr[o], pr[s], out[o], net[s], out[s], net[o])
      BY <1>9, <1>o, <2>2 DEF Lost
    <3>0. \A j \in KeysOf(net[s]) : j.own = x \/ j.own = z
      BY <3>1 DEF LostAt, LostKeys, KeyIs
    <3>2. /\ x # 0 /\ z # x /\ (z # 0 => z # y) /\ pr[s].peer \in {0, x, z}
          /\ KeyIs(k, x, y) \/ KeyIs(k, z, y)
          /\ InOrderOf(net[s], x)
      BY <1>3, <3>1 DEF LostAt, LostKeys
    <3>3. k.own # 0 /\ k.own \in {x, z} /\ k.via \in {{}, {k.own, y}}
      BY <3>2 DEF KeyIs, Between
    <3>4. /\ p.own = y /\ p.peer = k.own /\ pr2[s] = p /\ pr2[o] = pr[o]
      BY <1>6, <1>7, <3>3
    <3>5. z # 0 /\ pr[s].peer = z => k.own = z
      <4> SUFFICES ASSUME z # 0, pr[s].peer = z, k.own = x PROVE FALSE
        BY <3>3
      <4>1. CASE k.via = {}
        BY <1>3, <3>1, <3>2, <4>1 DEF LostAt
      <4>2. CASE k.via # {}
        <5>1. k.via = {x, y} /\ k.via = {y, z}
          BY <3>3, <4>2 DEF ReadableIn, Secret, k
        <5>2. z \in {x, y}
          BY <5>1
        <5>3. QED BY <3>2, <5>2
      <4>3. QED BY <4>1, <4>2
    <3>6. ASSUME z # 0, k.own = z PROVE \A j \in KeysOf(net2[s]) : j.via = {} => j.own = z
      <4>1. CASE pr[s].peer = z
        BY <1>5, <3>1, <3>6, <4>1 DEF LostAt
      <4>2. CASE pr[s].peer # z
        <5>1. k.via = {}
          BY <1>3, <3>1, <3>6, <4>2 DEF LostAt, LostUnheard
        <5>2. \A j \in 1 .. (i - 1) : net[s][j].via # {}
          BY <5>1 DEF ReadableIn, k
        <5>3. DOMAIN net[s] = 1 .. Len(net[s]) /\ Len(net[s]) \in Nat
          BY <1>2
        <5>4. ASSUME NEW l \in DOMAIN net[s], l # i, net[s][l].via = {} PROVE net[s][l].own = z
          <6>1. i < l
            BY <1>2, <5>2, <5>3, <5>4
          <6>2. net[s][l].own # x
            BY <1>2, <3>2, <3>6, <5>1, <5>4, <6>1 DEF InOrderOf, k
          <6>3. net[s][l] \in KeysOf(net[s])
            BY DEF KeysOf
          <6>4. net[s][l].own = x \/ net[s][l].own = z
            BY <3>0, <6>3
          <6>5. QED BY <6>2, <6>4
        <5>5. ASSUME NEW j \in KeysOf(net2[s]), j.via = {} PROVE j.own = z
          <6>1. PICK m \in DOMAIN RemoveAt(net[s], i) : j = RemoveAt(net[s], i)[m]
            BY <1>5 DEF KeysOf
          <6>2. PICK l \in DOMAIN net[s] : l # i /\ RemoveAt(net[s], i)[m] = net[s][l]
            BY <1>4
          <6>3. QED BY <5>4, <5>5, <6>1, <6>2
        <5>6. QED BY <5>5
      <4>3. QED BY <4>1, <4>2
    <3>7. LostAt(x, fr, pr[o], p, out[o], net2[s], out[s], net2[o])
      <4>1. LostKeys(x, y, z, out[o], net2[s], out[s], net2[o]) /\ InOrderOf(net2[s], x)
        BY <1>5, <3>1 DEF LostAt, LostKeys
      <4>2. CASE k.own = z
        BY <3>1, <3>3, <3>4, <3>6, <4>1, <4>2 DEF LostAt
      <4>3. CASE k.own # z
        <5>1. z # 0 => LostUnheard(y, z, pr[o], out[o], net2[s], out[s], net2[o])
          BY <1>5, <3>1, <3>5, <4>3 DEF LostAt, LostUnheard
        <5>2. QED BY <3>1, <3>3, <3>4, <4>1, <4>3, <5>1 DEF LostAt
      <4>4. QED BY <4>2, <4>3
    <3>8. QED BY <1>o, <2>2, <3>3, <3>4, <3>7 DEF Lost
  <2>3. QED BY <1>o, <2>1, <2>2
<1>10. QED
  BY <1>1, <1>7, <1>8, <1>9 DEF World, p, k, pr2, net2

\* The pair of a backup that was made earlier: nothing is lost, or the backup is
\* from before the side had drawn its contribution.
LEMMA RestoreKeeps ==
    ASSUME NEW pr, NEW fr, NEW out, NEW net, NEW bk, NEW left, World(pr, fr, out, net, bk, left),
           NEW s \in Sides, left > 0
    PROVE  World([pr EXCEPT ![s] = bk[s]], fr, [out EXCEPT ![s] = <<>>], net, bk, left - 1)
<1> DEFINE o == Other(s)
           p == bk[s]
           x == pr[s].own
           y == pr[o].own
           pr2 == [pr EXCEPT ![s] = p]
           out2 == [out EXCEPT ![s] = <<>>]
<1>1. /\ Worlds(pr, fr, out, net, bk) /\ Drawing(pr, fr, bk) /\ Steady(pr, out, net, bk)
      /\ left = 1
  BY DEF World
<1>o. o \in Sides /\ o # s /\ Other(o) = s /\ Other(s) = o /\ \A t \in Sides : t = s \/ t = o
  BY OtherSides
<1>2. /\ p \in Pair /\ pr[s] \in Pair /\ pr[o] \in Pair /\ PairSound(p)
      /\ x \in Contribution /\ y \in Contribution /\ x \in Nat /\ y \in Nat /\ x <= fr /\ y <= fr
      /\ p.own \in {0, x} /\ p.peer \in {0, y}
  BY <1>1, <1>o, MailboxAssumption DEF Worlds, Drawing, Steady, Pair, Contribution
<1> HIDE DEF o, p
<1>3. pr2 \in [Sides -> Pair] /\ pr2[s] = p /\ pr2[o] = pr[o]
  BY <1>1, <1>2, <1>o DEF Worlds
<1>4. out2 \in [Sides -> Seq(Key)] /\ out2[s] = <<>> /\ out2[o] = out[o] /\ KeysOf(out2[s]) = {}
  <2>1. <<>> \in Seq(Key) /\ KeysOf(<<>>) = {}
    BY DEF KeysOf
  <2>2. QED BY <1>1, <1>o, <2>1 DEF Worlds
<1> HIDE DEF pr2, out2
<1>5. Worlds(pr2, fr, out2, net, bk) /\ Drawing(pr2, fr, bk)
  <2>1. p.own <= fr
    BY <1>1, <1>2 DEF Worlds, Contribution
  <2>2. QED BY <1>1, <1>2, <1>3, <1>4, <1>o, <2>1 DEF Worlds, Drawing
<1>6. /\ pr[o].peer \in {0, x} /\ bk[o].own \in {0, y} /\ bk[o].peer \in {0, x}
      /\ \A k \in KeysOf(out[o]) : KeyIs(k, y, x)
      /\ \A k \in KeysOf(net[s]) : KeyIs(k, y, x)
      /\ \A k \in KeysOf(net[o]) : KeyIs(k, x, y)
  BY <1>1, <1>o DEF Steady
<1>7. CASE p.own = x
  <2>1. \A t \in Sides : /\ pr2[t].peer \in {0, pr2[Other(t)].own}
                         /\ bk[t].own \in {0, pr2[t].own} /\ bk[t].peer \in {0, pr2[Other(t)].own}
    BY <1>2, <1>3, <1>6, <1>7, <1>o DEF p
  <2>2. \A t \in Sides : \A k \in KeysOf(out2[t]) : KeyIs(k, pr2[t].own, pr2[Other(t)].own)
    BY <1>3, <1>4, <1>6, <1>7, <1>o
  <2>3. \A t \in Sides : \A k \in KeysOf(net[Other(t)]) : KeyIs(k, pr2[t].own, pr2[Other(t)].own)
    BY <1>3, <1>6, <1>7, <1>o
  <2>4. Steady(pr2, out2, net, bk)
    BY <2>1, <2>2, <2>3 DEF Steady
  <2>5. QED BY <1>1, <1>5, <2>4 DEF World, p, pr2, out2
<1>8. CASE p.own # x
  <2>1. p.own = 0 /\ p.peer = 0 /\ p.confirmed = FALSE /\ x # 0
    BY <1>2, <1>8 DEF PairSound, Pair
  <2>2. LostKeys(x, y, 0, out2[s], net[o], out2[o], net[s])
    BY <1>4, <1>6 DEF LostKeys
  <2>3. InOrderOf(net[o], x)
    BY <1>6 DEF InOrderOf, KeysOf, KeyIs
  <2>4. LostAt(x, fr, p, pr[o], out2[s], net[o], out2[o], net[s])
    BY <1>2, <1>6, <2>1, <2>2, <2>3 DEF LostAt
  <2>5. Lost(s, x, pr2, fr, out2, net)
    BY <1>3, <2>4 DEF Lost, o
  <2>6. left - 1 = 0 /\ left - 1 \in Nat /\ left - 1 <= 1
    BY <1>1
  <2>7. \E r \in Sides, c \in Contribution : Lost(r, c, pr2, fr, out2, net)
    BY <1>2, <2>5
  <2>8. World(pr2, fr, out2, net, bk, left - 1)
    BY <1>5, <2>6, <2>7 DEF World
  <2>9. QED BY <2>8 DEF p, pr2, out2
<1>9. QED BY <1>7, <1>8

LEMMA BackupKeeps ==
    ASSUME NEW pr, NEW fr, NEW out, NEW net, NEW bk, NEW left, World(pr, fr, out, net, bk, left),
           NEW s \in Sides, left > 0
    PROVE  World(pr, fr, out, net, [bk EXCEPT ![s] = pr[s]], left)
<1> DEFINE bk2 == [bk EXCEPT ![s] = pr[s]]
<1>1. Worlds(pr, fr, out, net, bk) /\ Drawing(pr, fr, bk) /\ Steady(pr, out, net, bk)
  BY DEF World
<1>2. bk2 \in [Sides -> Pair] /\ \A t \in Sides : bk2[t] = bk[t] \/ bk2[t] = pr[t]
  BY <1>1 DEF Worlds
<1> HIDE DEF bk2
<1>3. Worlds(pr, fr, out, net, bk2) /\ Drawing(pr, fr, bk2) /\ Steady(pr, out, net, bk2)
  BY <1>1, <1>2, OtherSides DEF Worlds, Drawing, Steady
<1>4. QED BY <1>3 DEF World, bk2

LEMMA MbInitOK == OneRestore /\ MbInit => MbInv
<1> SUFFICES ASSUME OneRestore, MbInit PROVE MbInv
  OBVIOUS
<1>1. NoPair \in Pair /\ Seeded \in Pair /\ 0 \in Contribution /\ 1 \in Contribution
  BY MailboxAssumption DEF NoPair, Seeded, Pair, Contribution
<1>2. PICK p \in {NoPair, Seeded} : pair = [s \in Sides |-> p]
  BY DEF MbInit
<1>3. fresh \in Contribution /\ fresh = p.own /\ <<>> \in Seq(Key) /\ KeysOf(<<>>) = {}
  BY <1>1, <1>2 DEF MbInit, Sides, NoPair, Seeded, KeysOf
<1>4. mbLeft \in [lost : Nat, restarts : Nat, restores : Nat] /\ mbLeft.restores <= 1
  BY MailboxAssumption DEF MbInit, OneRestore
<1>5. MbTypeOK
  BY <1>1, <1>2, <1>3, <1>4 DEF MbInit, MbTypeOK
<1>6. PairSound(p) /\ PairSound(NoPair) /\ p.own \in Nat /\ p.peer = p.own
  BY <1>2 DEF PairSound, NoPair, Seeded
<1>7. Worlds(pair, fresh, mbOut, mbNet, backup) /\ Drawing(pair, fresh, backup)
  BY <1>1, <1>2, <1>3, <1>6 DEF MbInit, Worlds, Drawing
<1>8. Steady(pair, mbOut, mbNet, backup)
  BY <1>2, <1>3, <1>6, OtherSides DEF MbInit, Steady, NoPair
<1>9. QED BY <1>4, <1>5, <1>7, <1>8 DEF MbInv, World

LEMMA MbStep == MbInv /\ [MbNext]_mbVars => MbInv'
<1> SUFFICES ASSUME MbInv, [MbNext]_mbVars PROVE MbInv'
  OBVIOUS
<1> DEFINE left == mbLeft.restores
<1>w. /\ World(pair, fresh, mbOut, mbNet, backup, left)
      /\ Worlds(pair, fresh, mbOut, mbNet, backup) /\ Drawing(pair, fresh, backup)
  BY DEF MbInv, World
<1>t. /\ announced \in [Sides -> BOOLEAN] /\ restored \in BOOLEAN /\ gone \subseteq Sides
      /\ mbLeft \in [lost : Nat, restarts : Nat, restores : Nat]
  BY DEF MbInv, MbTypeOK
<1>u. ASSUME World(pair', fresh', mbOut', mbNet', backup', mbLeft'.restores),
             announced' \in [Sides -> BOOLEAN], restored' \in BOOLEAN /\ gone' \subseteq Sides,
             mbLeft' \in [lost : Nat, restarts : Nat, restores : Nat]
      PROVE  MbInv'
  BY <1>u DEF MbInv, MbTypeOK, World, Worlds
<1>e. <<>> \in Seq(Key) /\ KeysOf(<<>>) = {}
  BY DEF KeysOf
\* A side that has no contribution draws one before it speaks or reads.
<1>d. ASSUME NEW s \in Sides, Drawn(pair[s]) \in Contribution
      PROVE  /\ World([pair EXCEPT ![s] = WithOwn(@)], Drawn(pair[s]), mbOut, mbNet, backup, left)
             /\ WithOwn(pair[s]).own # 0
  <2>1. CASE pair[s].own = 0
    <3>1. World([pair EXCEPT ![s] = [@ EXCEPT !.own = fresh + 1]], fresh + 1, mbOut, mbNet, backup, left)
      BY <1>w, <1>d, <2>1, DrawKeeps DEF Drawn
    <3>2. WithOwn(pair[s]).own = fresh + 1 /\ fresh + 1 # 0
      BY <1>w, <2>1, MailboxAssumption DEF WithOwn, Worlds, Pair, Contribution
    <3>3. QED BY <2>1, <3>1, <3>2 DEF WithOwn, Drawn
  <2>2. CASE pair[s].own # 0
    <3>1. [pair EXCEPT ![s] = pair[s]] = pair
      BY <1>w DEF Worlds
    <3>2. QED BY <1>w, <2>2, <3>1 DEF WithOwn, Drawn
  <2>3. QED BY <2>1, <2>2
<1>1. ASSUME NEW s \in Sides, AnnounceMailbox(s) PROVE MbInv'
  <2> DEFINE pr == [pair EXCEPT ![s] = WithOwn(@)]
  <2>1. World(pr, fresh', mbOut, mbNet, backup, left) /\ pr[s].own # 0 /\ pr[s] = WithOwn(pair[s])
    BY <1>1, <1>d, <1>w DEF AnnounceMailbox, Worlds
  <2>2. World([pr EXCEPT ![s] = Sealed(@)], fresh', [mbOut EXCEPT ![s] = Append(@, KeyOf(pr[s]))],
              mbNet, backup, left)
    BY <2>1, SayKeeps
  <2>3. pair' = [pr EXCEPT ![s] = Sealed(@)] /\ mbOut' = [mbOut EXCEPT ![s] = Append(@, KeyOf(pr[s]))]
    BY <1>1, <1>w, <2>1 DEF AnnounceMailbox, Worlds
  <2>4. QED BY <1>1, <1>t, <1>u, <2>2, <2>3 DEF AnnounceMailbox
<1>2. ASSUME NEW s \in Sides, DeliverKey(s) PROVE MbInv'
  <2> DEFINE k == Head(mbOut[s])
  <2>0. mbOut[s] # <<>> /\ mbOut' = [mbOut EXCEPT ![s] = Tail(@)] /\ UNCHANGED <<pair, backup, fresh, restored>>
    BY <1>2 DEF DeliverKey
  <2>1. PICK how \in {"direct", "relay", "lost"} :
            /\ how = "lost" => mbLeft.lost > 0
            /\ mbNet' = [mbNet EXCEPT ![Other(s)] =
                            CASE how = "direct" -> Append(@, [k EXCEPT !.via = {}])
                              [] how = "relay" -> Append(@, k)
                              [] how = "lost" -> @]
            /\ announced' = [announced EXCEPT ![s] = @ /\ how # "lost"]
            /\ mbLeft' = [mbLeft EXCEPT !.lost = IF how = "lost" THEN @ - 1 ELSE @]
            /\ gone' = IF how = "lost" THEN gone \cup {s} ELSE gone \ {s}
    BY <1>2 DEF DeliverKey
  <2>2. mbLeft' \in [lost : Nat, restarts : Nat, restores : Nat] /\ mbLeft'.restores = left
    BY <1>t, <2>0, <2>1
  <2>3. announced' \in [Sides -> BOOLEAN] /\ restored' \in BOOLEAN /\ gone' \subseteq Sides
    BY <1>t, <2>0, <2>1
  <2>4. World(pair, fresh, mbOut', mbNet', backup, left)
    <3>1. CASE how = "lost"
      <4>1. mbNet' = mbNet
        BY <1>w, <2>1, <3>1, OtherSides DEF Worlds
      <4>2. mbOut' \in [Sides -> Seq(Key)] /\ \A t \in Sides : KeysOf(mbOut'[t]) \subseteq KeysOf(mbOut[t])
        <5>1. Tail(mbOut[s]) \in Seq(Key) /\ KeysOf(Tail(mbOut[s])) \subseteq KeysOf(mbOut[s])
          BY <1>w, <2>0, TailKeys DEF Worlds
        <5>2. QED BY <1>w, <2>0, <5>1 DEF Worlds
      <4>3. mbNet \in [Sides -> Seq(Key)]
        BY <1>w DEF Worlds
      <4>4. QED BY <1>w, <4>1, <4>2, <4>3, FewerKeep
    <3>2. CASE how = "direct"
      BY <1>w, <2>0, <2>1, <3>2, HandKeeps
    <3>3. CASE how = "relay"
      BY <1>w, <2>0, <2>1, <3>3, HandKeeps
    <3>4. QED BY <2>1, <3>1, <3>2, <3>3
  <2>5. QED BY <1>u, <2>0, <2>2, <2>3, <2>4
<1>3. ASSUME NEW s \in Sides, OnMailboxKey(s) PROVE MbInv'
  <2> DEFINE pr == [pair EXCEPT ![s] = WithOwn(@)]
  <2>1. PICK i \in Readable(s) :
            LET k == mbNet[s][i]
                q == Received(WithOwn(pair[s]), k)
            IN  /\ Drawn(pair[s]) \in Contribution
                /\ pair' = [pair EXCEPT ![s] = IF Replies(q, k) THEN Sealed(q) ELSE q]
                /\ mbOut' = [mbOut EXCEPT ![s] = IF Replies(q, k) THEN Append(@, KeyOf(q)) ELSE @]
                /\ mbNet' = [mbNet EXCEPT ![s] = RemoveAt(@, i)]
                /\ fresh' = Drawn(pair[s])
                /\ UNCHANGED <<announced, backup, restored, gone, mbLeft>>
    BY <1>3 DEF OnMailboxKey
  <2> DEFINE k == mbNet[s][i]
             q == Received(WithOwn(pair[s]), k)
             net == [mbNet EXCEPT ![s] = RemoveAt(@, i)]
  <2>2. World(pr, fresh', mbOut, mbNet, backup, left) /\ pr[s].own # 0 /\ pr[s] = WithOwn(pair[s])
    BY <1>d, <1>w, <2>1 DEF Worlds
  <2>3. ReadableIn(mbNet[s], i, pr[s])
    <3>1. i \in DOMAIN mbNet[s]
          /\ IF k.via = {} THEN \A j \in 1 .. (i - 1) : mbNet[s][j].via # {} ELSE k.via = Secret(pair[s])
      BY DEF Readable
    <3>2. Secret(pair[s]) # {} => WithOwn(pair[s]) = pair[s]
      BY DEF Secret, WithOwn
    <3>3. QED BY <2>2, <3>1, <3>2 DEF ReadableIn
  <2>4. World([pr EXCEPT ![s] = q], fresh', mbOut, net, backup, left)
    BY <2>2, <2>3, TakeKeeps
  <2>5. [pr EXCEPT ![s] = q] = [pair EXCEPT ![s] = q] /\ q.own # 0
    <3>1. q.own = pr[s].own
      <4>1. \A p, f : Received(p, f).own = p.own \/ p \notin Pair
        BY DEF Received, Pair
      <4>2. pr[s] \in Pair
        BY <2>2 DEF World, Worlds
      <4>3. QED BY <2>2, <4>1, <4>2
    <3>2. QED BY <1>w, <2>2, <3>1 DEF Worlds
  <2> HIDE DEF q, net, k, pr
  <2>6. World(pair', fresh', mbOut', net, backup, left)
    <3>1. CASE Replies(q, k)
      <4> DEFINE pq == [pair EXCEPT ![s] = q]
      <4>1. World(pq, fresh', mbOut, net, backup, left) /\ pq[s] = q
        BY <1>w, <2>4, <2>5 DEF Worlds
      <4>2. World([pq EXCEPT ![s] = Sealed(@)], fresh', [mbOut EXCEPT ![s] = Append(@, KeyOf(pq[s]))],
                  net, backup, left)
        BY <2>5, <4>1, SayKeeps
      <4>3. pair' = [pq EXCEPT ![s] = Sealed(@)] /\ mbOut' = [mbOut EXCEPT ![s] = Append(@, KeyOf(pq[s]))]
        BY <1>w, <2>1, <3>1, <4>1 DEF Worlds, q, k
      <4>4. QED BY <4>2, <4>3
    <3>2. CASE ~Replies(q, k)
      <4>1. pair' = [pair EXCEPT ![s] = q] /\ mbOut' = mbOut
        BY <1>w, <2>1, <3>2 DEF Worlds, q, k
      <4>2. QED BY <2>4, <2>5, <4>1
    <3>3. QED BY <3>1, <3>2
  <2>7. mbNet' = net /\ UNCHANGED <<announced, backup, restored, gone, mbLeft>>
    BY <2>1 DEF net
  <2>8. QED BY <1>t, <1>u, <2>6, <2>7
<1>4. ASSUME NEW s \in Sides, IgnoreKey(s) PROVE MbInv'
  <2>1. PICK i \in Readable(s) : mbNet' = [mbNet EXCEPT ![s] = RemoveAt(@, i)]
    BY <1>4 DEF IgnoreKey
  <2>2. UNCHANGED <<pair, announced, mbOut, backup, fresh, restored, mbLeft>> /\ gone' \subseteq Sides
    BY <1>4, <1>t, OtherSides DEF IgnoreKey
  <2>3. /\ RemoveAt(mbNet[s], i) \in Seq(Key) /\ KeysOf(RemoveAt(mbNet[s], i)) \subseteq KeysOf(mbNet[s])
        /\ \A x : InOrderOf(mbNet[s], x) => InOrderOf(RemoveAt(mbNet[s], i), x)
    BY <1>w, RemovedKeys DEF Worlds, Readable
  <2>4. /\ mbNet' \in [Sides -> Seq(Key)] /\ mbOut \in [Sides -> Seq(Key)]
        /\ \A t \in Sides : /\ KeysOf(mbNet'[t]) \subseteq KeysOf(mbNet[t])
                            /\ \A x : InOrderOf(mbNet[t], x) => InOrderOf(mbNet'[t], x)
    BY <1>w, <2>1, <2>3 DEF Worlds
  <2>5. World(pair, fresh, mbOut, mbNet', backup, left)
    BY <1>w, <2>4, FewerKeep
  <2>6. QED BY <1>t, <1>u, <2>2, <2>5
<1>5. ASSUME NEW s \in Sides, mbOut' = [mbOut EXCEPT ![s] = <<>>]
      PROVE  World(pair, fresh, mbOut', mbNet, backup, left)
  <2>1. /\ mbOut' \in [Sides -> Seq(Key)] /\ mbNet \in [Sides -> Seq(Key)]
        /\ \A t \in Sides : KeysOf(mbOut'[t]) \subseteq KeysOf(mbOut[t])
    BY <1>e, <1>w, <1>5 DEF Worlds
  <2>2. QED BY <1>w, <2>1, FewerKeep
<1>6. ASSUME NEW s \in Sides, RestartApp(s) PROVE MbInv'
  <2>1. World(pair, fresh, mbOut', mbNet, backup, left)
    BY <1>5, <1>6 DEF RestartApp
  <2>2. /\ announced' \in [Sides -> BOOLEAN] /\ restored' \in BOOLEAN /\ gone' \subseteq Sides
        /\ mbLeft' \in [lost : Nat, restarts : Nat, restores : Nat] /\ mbLeft'.restores = left
    BY <1>6, <1>t DEF RestartApp, Queued
  <2>3. QED BY <1>6, <1>u, <2>1, <2>2 DEF RestartApp
<1>7. ASSUME NEW s \in Sides, MakeBackup(s) PROVE MbInv'
  <2>1. World(pair, fresh, mbOut, mbNet, backup', left)
    BY <1>7, <1>w, BackupKeeps DEF MakeBackup
  <2>2. QED BY <1>7, <1>t, <1>u, <2>1 DEF MakeBackup
<1>8. ASSUME NEW s \in Sides, RestoreBackup(s) PROVE MbInv'
  <2>1. World(pair', fresh, mbOut', mbNet, backup, left - 1)
    BY <1>8, <1>w, RestoreKeeps DEF RestoreBackup
  <2>2. /\ announced' \in [Sides -> BOOLEAN] /\ restored' \in BOOLEAN /\ gone' \subseteq Sides
        /\ mbLeft' \in [lost : Nat, restarts : Nat, restores : Nat] /\ mbLeft'.restores = left - 1
    BY <1>8, <1>t, OtherSides DEF RestoreBackup, Queued
  <2>3. QED BY <1>8, <1>u, <2>1, <2>2 DEF RestoreBackup
<1>9. CASE UNCHANGED mbVars
  BY <1>9, <1>t, <1>u, <1>w DEF mbVars
<1>10. QED
  BY <1>1, <1>2, <1>3, <1>4, <1>6, <1>7, <1>8, <1>9 DEF MbNext

\* The two ends of a chat never both take different mailbox secrets for agreed,
\* whatever is lost, overtaken by a relay copy, restarted or restored once
\* (mailbox.rs, on_mailbox_key: a changed contribution ends the agreement, and
\* only a confirmation of the very secret makes it).
THEOREM AgreementIsMutual == OneRestore => (MbSpec => []MailboxHolds)
<1> SUFFICES ASSUME OneRestore PROVE MbSpec => []MailboxHolds
  OBVIOUS
<1>1. MbInit => MbInv
  BY MbInitOK
<1>2. MbInv /\ [MbNext]_mbVars => MbInv'
  BY MbStep
<1>3. MbInv => MailboxHolds
  <2> SUFFICES ASSUME MbInv PROVE DisagreementIsNoticed
    BY DEF MbInv, MailboxHolds
  <2>0. "a" \in Sides /\ "b" \in Sides /\ Other("a") = "b" /\ Other("b") = "a"
    BY DEF Sides, Other
  <2>1. Drawing(pair, fresh, backup)
    BY DEF MbInv, World
  <2>2. SUFFICES ASSUME pair["a"].confirmed, pair["b"].confirmed
                 PROVE  Secret(pair["a"]) = Secret(pair["b"])
    BY <2>0 DEF DisagreementIsNoticed
  <2>3. \A s \in Sides : pair[s].peer # 0 /\ pair[s].own # 0
    BY <2>0, <2>1, <2>2 DEF Drawing, PairSound, Sides
  <2>4. pair["a"].peer = pair["b"].own /\ pair["b"].peer = pair["a"].own
    <3>1. CASE Steady(pair, mbOut, mbNet, backup)
      BY <2>0, <2>3, <3>1 DEF Steady
    <3>2. ASSUME NEW r \in Sides, NEW x, Lost(r, x, pair, fresh, mbOut, mbNet)
          PROVE  pair[r].peer = pair[Other(r)].own /\ pair[Other(r)].peer = pair[r].own
      <4>1. LostAt(x, fresh, pair[r], pair[Other(r)], mbOut[r], mbNet[Other(r)], mbOut[Other(r)], mbNet[r])
        BY <3>2 DEF Lost
      <4>2. pair[r].confirmed
        BY <2>2, <3>2 DEF Sides
      <4>3. QED BY <2>3, <4>1, <4>2 DEF LostAt, LostUnheard
    <3>3. QED BY <2>0, <3>1, <3>2 DEF MbInv, World, Sides
  <2>5. QED BY <2>4 DEF Secret
<1>4. QED
  BY <1>1, <1>2, <1>3, PTL DEF MbSpec

-----------------------------------------------------------------------------
(* Control frames: what selecting from a queue gives                      *)

\* A non-empty set of naturals has a smallest member.
LEMMA SmallestMember ==
    ASSUME NEW T \in SUBSET Nat, T # {}
    PROVE  \E m \in T : \A n \in T : m <= n
<1>1. \E m \in T : \A n \in T : ~ (<<n, m>> \in OpToRel(<, Nat))
  BY NatLessThanWellFounded, WFMin
<1>2. PICK m \in T : \A n \in T : ~ (<<n, m>> \in OpToRel(<, Nat))
  BY <1>1
<1>3. \A n \in T : ~ (n < m)
  BY <1>2 DEF OpToRel
<1> QED BY <1>3

\* What Chosen computes, step by step, for the elements that lie in D.
Picks(q, D, F, n) ==
    F = [i \in 0 .. n |-> IF i = 0 THEN <<>>
                          ELSE IF q[i] \in D THEN Append(F[i - 1], q[i]) ELSE F[i - 1]]

\* The steps of a selection exist.
LEMMA PicksExist ==
    ASSUME NEW S, NEW q \in Seq(S), NEW D
    PROVE  \E F : Picks(q, D, F, Len(q))
<1> DEFINE Stuck == {n \in 0 .. Len(q) : ~ \E F : Picks(q, D, F, n)}
<1>1. Len(q) \in 0 .. Len(q)
  OBVIOUS
<1>2. SUFFICES ASSUME Stuck # {} PROVE FALSE
  BY <1>1
<1>3. PICK m \in Stuck : \A n \in Stuck : m <= n
  <2>1. Stuck \in SUBSET Nat
    OBVIOUS
  <2> HIDE DEF Stuck
  <2> QED BY <1>2, <2>1, SmallestMember
<1>4. CASE m = 0
  <2>1. Picks(q, D, [i \in 0 .. 0 |-> <<>>], 0)
    BY DEF Picks
  <2> QED BY <2>1, <1>4, <1>3
<1>5. CASE m # 0
  <2>1. m - 1 \in 0 .. Len(q) /\ m - 1 \notin Stuck
    BY <1>3, <1>5
  <2>2. PICK F : Picks(q, D, F, m - 1)
    BY <2>1
  <2> DEFINE next == IF q[m] \in D THEN Append(F[m - 1], q[m]) ELSE F[m - 1]
             G == [i \in 0 .. m |-> IF i = m THEN next ELSE F[i]]
  <2>3. \A i \in 0 .. m : G[i] = IF i = 0 THEN <<>>
                                  ELSE IF q[i] \in D THEN Append(G[i - 1], q[i]) ELSE G[i - 1]
    <3> TAKE i \in 0 .. m
    <3>1. m \in Nat /\ m > 0
      BY <1>3, <1>5
    <3>2. CASE i = m
      <4>1. G[i - 1] = F[m - 1] /\ G[i] = next
        BY <3>1, <3>2
      <4> QED BY <4>1, <3>1, <3>2
    <3>3. CASE i # m
      <4>1. i \in 0 .. m - 1 /\ G[i] = F[i]
        BY <3>1, <3>3
      <4>2. i # 0 => i - 1 \in 0 .. m - 1 /\ G[i - 1] = F[i - 1]
        BY <3>1, <3>3
      <4>3. F[i] = IF i = 0 THEN <<>>
                   ELSE IF q[i] \in D THEN Append(F[i - 1], q[i]) ELSE F[i - 1]
        BY <2>2, <4>1 DEF Picks
      <4> HIDE DEF G
      <4> QED BY <4>1, <4>2, <4>3
    <3> QED BY <3>2, <3>3
  <2>4. G = [i \in 0 .. m |-> IF i = 0 THEN <<>>
                               ELSE IF q[i] \in D THEN Append(G[i - 1], q[i]) ELSE G[i - 1]]
    <3>1. \A H : (\A i \in 0 .. m : H[i] = G[i]) /\ H = [i \in 0 .. m |-> H[i]] => H = G
      OBVIOUS
    <3> QED BY <2>3
  <2>5. Picks(q, D, G, m)
    <3> HIDE DEF G
    <3> QED BY <2>4 DEF Picks
  <2> QED BY <2>5, <1>3
<1> QED BY <1>4, <1>5

\* A selection of a sequence has its elements, those that pass, none of them twice.
LEMMA PicksSound ==
    ASSUME NEW S, NEW q \in Seq(S), NEW D, NEW F, Picks(q, D, F, Len(q))
    PROVE  /\ F[Len(q)] \in Seq(S)
           /\ \A k \in DOMAIN F[Len(q)] : \E j \in DOMAIN q : q[j] = F[Len(q)][k] /\ q[j] \in D
           /\ (\A i, j \in DOMAIN q : i # j => q[i].frame # q[j].frame)
                => \A i, j \in DOMAIN F[Len(q)] : i # j => F[Len(q)][i].frame # F[Len(q)][j].frame
<1> DEFINE Distinct(s) == \A i, j \in DOMAIN s : i # j => s[i].frame # s[j].frame
           Fine(n) == /\ F[n] \in Seq(S)
                      /\ \A k \in DOMAIN F[n] : \E j \in 1 .. n : q[j] = F[n][k] /\ q[j] \in D
                      /\ Distinct(q) => Distinct(F[n])
           Bad == {n \in 0 .. Len(q) : ~ Fine(n)}
<1>1. SUFFICES Bad = {}
  <2>1. Fine(Len(q))
    BY <1>1
  <2> QED BY <2>1
<1>2. SUFFICES ASSUME Bad # {} PROVE FALSE
  OBVIOUS
<1>3. PICK m \in Bad : \A n \in Bad : m <= n
  <2>1. Bad \in SUBSET Nat
    OBVIOUS
  <2> HIDE DEF Bad
  <2> QED BY <1>2, <2>1, SmallestMember
<1>4. CASE m = 0
  <2>1. F[0] = <<>>
    BY DEF Picks
  <2>2. Fine(0)
    BY <2>1
  <2> QED BY <1>3, <1>4, <2>2
<1>5. CASE m # 0
  <2>1. m \in 1 .. Len(q) /\ m - 1 \in 0 .. Len(q)
    BY <1>3, <1>5
  <2>2. Fine(m - 1)
    <3>1. m - 1 \notin Bad
      <4> HIDE DEF Bad
      <4> QED BY <1>3, <2>1
    <3> QED BY <3>1, <2>1
  <2>3. F[m] = IF q[m] \in D THEN Append(F[m - 1], q[m]) ELSE F[m - 1]
    <3> DEFINE step(i) == IF i = 0 THEN <<>>
                          ELSE IF q[i] \in D THEN Append(F[i - 1], q[i]) ELSE F[i - 1]
    <3>1. F = [i \in 0 .. Len(q) |-> step(i)]
      BY DEF Picks
    <3>2. step(m) = IF q[m] \in D THEN Append(F[m - 1], q[m]) ELSE F[m - 1]
      BY <2>1
    <3>3. m \in 0 .. Len(q)
      BY <2>1
    <3> HIDE DEF step
    <3> QED BY <3>1, <3>2, <3>3
  <2>4. CASE q[m] \notin D
    <3>1. F[m] = F[m - 1]
      BY <2>3, <2>4
    <3>2. Fine(m)
      BY <3>1, <2>2, <2>1
    <3> QED BY <3>2, <1>3
  <2>5. CASE q[m] \in D
    <3> DEFINE s == F[m - 1]
    <3>1. F[m] = Append(s, q[m]) /\ q[m] \in S
      BY <2>3, <2>5, <2>1
    <3>2. s \in Seq(S) /\ (\A k \in DOMAIN s : \E j \in 1 .. m - 1 : q[j] = s[k] /\ q[j] \in D)
          /\ (Distinct(q) => Distinct(s))
      BY <2>2
    <3> HIDE DEF s
    <3>3. /\ F[m] \in Seq(S) /\ DOMAIN F[m] = 1 .. Len(s) + 1 /\ DOMAIN s = 1 .. Len(s)
          /\ \A k \in 1 .. Len(s) : F[m][k] = s[k]
          /\ F[m][Len(s) + 1] = q[m] /\ Len(s) \in Nat
      BY <3>1, <3>2
    <3>4. \A k \in DOMAIN F[m] : \E j \in 1 .. m : q[j] = F[m][k] /\ q[j] \in D
      BY <3>2, <3>3, <2>5, <2>1
    <3>5. Distinct(q) => Distinct(F[m])
      <4> SUFFICES ASSUME Distinct(q), NEW i \in DOMAIN F[m], NEW j \in DOMAIN F[m], i # j
                   PROVE  F[m][i].frame # F[m][j].frame
        OBVIOUS
      <4>1. \A k \in 1 .. Len(s) : s[k].frame # q[m].frame
        <5> TAKE k \in 1 .. Len(s)
        <5>1. PICK l \in 1 .. m - 1 : q[l] = s[k]
          BY <3>2, <3>3
        <5>2. l # m /\ l \in DOMAIN q /\ m \in DOMAIN q
          BY <5>1, <2>1
        <5> QED BY <5>1, <5>2
      <4>2. CASE i \in 1 .. Len(s) /\ j \in 1 .. Len(s)
        BY <4>2, <3>2, <3>3
      <4>3. CASE i = Len(s) + 1
        <5>1. j \in 1 .. Len(s)
          BY <4>3, <3>3
        <5> QED BY <4>3, <3>3, <4>1, <5>1
      <4>4. CASE j = Len(s) + 1
        <5>1. i \in 1 .. Len(s)
          BY <4>4, <3>3
        <5> QED BY <4>4, <3>3, <4>1, <5>1
      <4> QED BY <4>2, <4>3, <4>4, <3>3
    <3>6. Fine(m)
      BY <3>3, <3>4, <3>5
    <3> QED BY <3>6, <1>3
  <2> QED BY <2>4, <2>5
<1> QED BY <1>4, <1>5

-----------------------------------------------------------------------------
(* Control frames: what the operations on the node keep                    *)

\* The types of frames, queue entries, sends, outcomes and the node's record.
CtlFrame == [key : Nat, what : {"notice", "name", "verified", "address", "upgrade"}, val : Nat]
CtlEntry == [frame : CtlFrame, busy : BOOLEAN]
CtlDone == {"pending", "nothing", "held", "held by relay", "address", "upgrade"}
CtlSend == [frame : CtlFrame, done : CtlDone]
CtlOutcome == [frame : CtlFrame, done : CtlDone, got : {"direct", "relay", "failed"}]
CtlNode ==
    [seal : Nat, said : Nat, my : [OneOffs -> Nat], addr : Nat, restored : Nat, told : Nat,
     flag : Nat, pend : Seq(CtlEntry), held : Seq(CtlEntry), outdated : BOOLEAN,
     toldUpgrade : BOOLEAN, upgrading : BOOLEAN, waiting : BOOLEAN, delay : 0 .. HeldCap]
CtlState == [n : CtlNode, out : Seq(CtlSend)]

\* The frames of a queue.
QFrames(q) == {q[i].frame : i \in DOMAIN q}
NodeFrames(n) == QFrames(n.pend) \cup QFrames(n.held)

\* A node's record is well formed: the notices it holds are of captures it has
\* noted, one each, and it waits for its backoff only while there is one.
NodeOk(n) ==
    /\ n \in CtlNode
    /\ \A i, j \in DOMAIN n.pend : i # j => n.pend[i].frame # n.pend[j].frame
    /\ \A f \in QFrames(n.pend) : f.val < n.said
    /\ n.waiting => n.delay > 0
StateOk(s) == s \in CtlState /\ NodeOk(s.n)

\* From s to t nothing is said or moved, and what is new among the frames is no
\* notice and names the address of now.
Follows(s, t) ==
    /\ t.n.said = s.n.said /\ t.n.addr = s.n.addr
    /\ \A f \in NodeFrames(t.n) \cup QFrames(t.out) :
          \/ f \in NodeFrames(s.n) \cup QFrames(s.out)
          \/ f \in CtlFrame /\ f.what # "notice" /\ (f.what = "address" => f.val = s.n.addr)

\* Following on composes.
LEMMA FollowsOn ==
    ASSUME NEW s, NEW t, NEW u, Follows(s, t), Follows(t, u)
    PROVE  Follows(s, u)
BY DEF Follows

\* The frames of a queue with one more entry.
LEMMA QueueGrows ==
    ASSUME NEW S, NEW q \in Seq(S), NEW x \in S
    PROVE  QFrames(Append(q, x)) = QFrames(q) \cup {x.frame}
<1> DEFINE r == Append(q, x)
<1>1. /\ DOMAIN r = 1 .. Len(q) + 1 /\ DOMAIN q = 1 .. Len(q) /\ Len(q) \in Nat
      /\ \A i \in 1 .. Len(q) : r[i] = q[i]
      /\ r[Len(q) + 1] = x
  OBVIOUS
<1> HIDE DEF r
<1>2. \A f \in QFrames(r) : f \in QFrames(q) \cup {x.frame}
  <2> SUFFICES ASSUME NEW i \in DOMAIN r PROVE r[i].frame \in QFrames(q) \cup {x.frame}
    BY DEF QFrames
  <2>1. i = Len(q) + 1 \/ i \in 1 .. Len(q)
    BY <1>1
  <2> QED BY <2>1, <1>1 DEF QFrames
<1>3. \A f \in QFrames(q) \cup {x.frame} : f \in QFrames(r)
  BY <1>1 DEF QFrames
<1> QED BY <1>2, <1>3 DEF r

\* The frames of two queues in one.
LEMMA QueuesJoin ==
    ASSUME NEW S, NEW q \in Seq(S), NEW r \in Seq(S)
    PROVE  QFrames(q \o r) = QFrames(q) \cup QFrames(r)
<1> DEFINE u == q \o r
<1>1. /\ DOMAIN u = 1 .. Len(q) + Len(r) /\ DOMAIN q = 1 .. Len(q) /\ DOMAIN r = 1 .. Len(r)
      /\ Len(q) \in Nat /\ Len(r) \in Nat
      /\ \A i \in 1 .. Len(q) : u[i] = q[i]
      /\ \A i \in 1 .. Len(r) : u[Len(q) + i] = r[i]
  OBVIOUS
<1> HIDE DEF u
<1>2. \A f \in QFrames(u) : f \in QFrames(q) \cup QFrames(r)
  <2> SUFFICES ASSUME NEW i \in DOMAIN u PROVE u[i].frame \in QFrames(q) \cup QFrames(r)
    BY DEF QFrames
  <2>1. CASE i \in 1 .. Len(q)
    BY <2>1, <1>1 DEF QFrames
  <2>2. CASE i \notin 1 .. Len(q)
    <3>1. i - Len(q) \in 1 .. Len(r) /\ u[i] = r[i - Len(q)]
      <4>1. i - Len(q) \in 1 .. Len(r)
        BY <2>2, <1>1
      <4>2. Len(q) + (i - Len(q)) = i
        BY <1>1
      <4> QED BY <4>1, <4>2, <1>1
    <3> QED BY <3>1, <1>1 DEF QFrames
  <2> QED BY <2>1, <2>2
<1>3. \A f \in QFrames(q) : f \in QFrames(u)
  BY <1>1 DEF QFrames
<1>4. \A f \in QFrames(r) : f \in QFrames(u)
  <2> SUFFICES ASSUME NEW i \in 1 .. Len(r) PROVE r[i].frame \in QFrames(u)
    BY <1>1 DEF QFrames
  <2>1. Len(q) + i \in DOMAIN u /\ u[Len(q) + i] = r[i]
    BY <1>1
  <2> QED BY <2>1 DEF QFrames
<1> QED BY <1>2, <1>3, <1>4 DEF u

\* The rest of a queue after some of it has been let go.
LEMMA WithoutKeeps ==
    ASSUME NEW q \in Seq(CtlEntry), NEW f
    PROVE  /\ Without(q, f) \in Seq(CtlEntry)
           /\ QFrames(Without(q, f)) \subseteq QFrames(q)
           /\ (\A i, j \in DOMAIN q : i # j => q[i].frame # q[j].frame)
                => \A i, j \in DOMAIN Without(q, f) :
                      i # j => Without(q, f)[i].frame # Without(q, f)[j].frame
<1> DEFINE D == {p \in CtlEntry : p.frame # f}
           Eq(F) == F = [i \in 0 .. Len(q) |-> IF i = 0 THEN <<>>
                           ELSE IF q[i].frame # f THEN Append(F[i - 1], q[i]) ELSE F[i - 1]]
           C == CHOOSE F : Eq(F)
<1>1. \A i \in 1 .. Len(q) : q[i] \in D <=> q[i].frame # f
  OBVIOUS
<1>2. \A F : Eq(F) <=> Picks(q, D, F, Len(q))
  <2> TAKE F
  <2> DEFINE one(i) == IF i = 0 THEN <<>>
                       ELSE IF q[i].frame # f THEN Append(F[i - 1], q[i]) ELSE F[i - 1]
             two(i) == IF i = 0 THEN <<>>
                       ELSE IF q[i] \in D THEN Append(F[i - 1], q[i]) ELSE F[i - 1]
  <2>1. \A i \in 0 .. Len(q) : one(i) = two(i)
    <3> HIDE DEF D
    <3> TAKE i \in 0 .. Len(q)
    <3>1. i # 0 => i \in 1 .. Len(q)
      OBVIOUS
    <3> QED BY <1>1, <3>1
  <2>2. [i \in 0 .. Len(q) |-> one(i)] = [i \in 0 .. Len(q) |-> two(i)]
    <3> HIDE DEF one, two
    <3> QED BY <2>1
  <2> QED BY <2>2 DEF Picks
<1>3. Eq(C)
  <2>1. \E F : Picks(q, D, F, Len(q))
    <3> HIDE DEF D
    <3> QED BY PicksExist
  <2>2. \E F : Eq(F)
    <3> HIDE DEF Eq, D
    <3> QED BY <2>1, <1>2
  <2> HIDE DEF Eq
  <2> QED BY <2>2
<1>4. Without(q, f) = C[Len(q)]
  BY DEF Without, Chosen
<1>5. Picks(q, D, C, Len(q))
  <2> HIDE DEF C, Eq, D
  <2> QED BY <1>2, <1>3
<1> HIDE DEF C, Eq, D
<1>6. /\ Without(q, f) \in Seq(CtlEntry)
      /\ \A k \in DOMAIN Without(q, f) : \E j \in DOMAIN q : q[j] = Without(q, f)[k]
      /\ (\A i, j \in DOMAIN q : i # j => q[i].frame # q[j].frame)
                => \A i, j \in DOMAIN Without(q, f) :
                      i # j => Without(q, f)[i].frame # Without(q, f)[j].frame
  BY <1>4, <1>5, PicksSound
<1> QED BY <1>6 DEF QFrames

\* The sends of a selection are of frames of the queue.
LEMMA SendsOfPicks ==
    ASSUME NEW q \in Seq(CtlEntry), NEW D, NEW F, Picks(q, D, F, Len(q)), NEW done \in CtlDone,
           NEW r, r = [i \in DOMAIN F[Len(q)] |-> Send(F[Len(q)][i].frame, done)]
    PROVE  r \in Seq(CtlSend) /\ QFrames(r) \subseteq QFrames(q)
<1> DEFINE d == F[Len(q)]
<1>1. d \in Seq(CtlEntry) /\ \A k \in DOMAIN d : \E j \in DOMAIN q : q[j] = d[k]
  BY PicksSound
<1>2. r = [i \in DOMAIN d |-> Send(d[i].frame, done)]
  OBVIOUS
<1> HIDE DEF d
<1>3. DOMAIN d = 1 .. Len(d) /\ Len(d) \in Nat /\ \A i \in 1 .. Len(d) : d[i] \in CtlEntry
  BY <1>1
<1>4. \A i \in DOMAIN d : Send(d[i].frame, done) \in CtlSend /\ Send(d[i].frame, done).frame = d[i].frame
  BY <1>3 DEF Send, CtlSend, CtlEntry
<1>5. r \in Seq(CtlSend)
  BY <1>2, <1>3, <1>4
<1>6. QFrames(r) \subseteq QFrames(q)
  <2> SUFFICES ASSUME NEW i \in DOMAIN r PROVE r[i].frame \in QFrames(q)
    BY DEF QFrames
  <2>1. i \in DOMAIN d /\ r[i].frame = d[i].frame
    BY <1>2, <1>4
  <2>2. PICK j \in DOMAIN q : q[j] = d[i]
    BY <1>1, <2>1
  <2> QED BY <2>1, <2>2 DEF QFrames
<1> QED BY <1>5, <1>6

\* flush_pending_control_for marks entries as in flight and sends their frames.
LEMMA FlushPendingKeeps ==
    ASSUME NEW s, StateOk(s)
    PROVE  StateOk(FlushPending(s)) /\ Follows(s, FlushPending(s))
<1> DEFINE q == s.n.pend
           go == HasRelayRoute \/ MayRetry(s.n)
           D == {p \in CtlEntry : ~p.busy /\ go}
           Eq(F) == F = [i \in 0 .. Len(q) |-> IF i = 0 THEN <<>>
                           ELSE IF ~q[i].busy /\ go THEN Append(F[i - 1], q[i]) ELSE F[i - 1]]
           C == CHOOSE F : Eq(F)
           marked == [i \in DOMAIN q |-> [q[i] EXCEPT !.busy = @ \/ (~q[i].busy /\ go)]]
           sends == [i \in DOMAIN C[Len(q)] |-> Send(C[Len(q)][i].frame, "pending")]
<1>0. q \in Seq(CtlEntry)
  BY DEF StateOk, CtlState, CtlNode
<1>1. FlushPending(s) = [n |-> [s.n EXCEPT !.pend = marked], out |-> s.out \o sends]
  <2> HIDE DEF go
  <2> QED BY DEF FlushPending, Sends, Chosen, Marked, go
<1> HIDE DEF go
<1>2. \A i \in 1 .. Len(q) : q[i] \in D <=> ~q[i].busy /\ go
  BY <1>0
<1>3. \A F : Eq(F) <=> Picks(q, D, F, Len(q))
  <2> TAKE F
  <2> DEFINE one(i) == IF i = 0 THEN <<>>
                       ELSE IF ~q[i].busy /\ go THEN Append(F[i - 1], q[i]) ELSE F[i - 1]
             two(i) == IF i = 0 THEN <<>>
                       ELSE IF q[i] \in D THEN Append(F[i - 1], q[i]) ELSE F[i - 1]
  <2>1. \A i \in 0 .. Len(q) : one(i) = two(i)
    <3> HIDE DEF D, q
    <3> TAKE i \in 0 .. Len(q)
    <3>1. i # 0 => i \in 1 .. Len(q)
      BY <1>0
    <3> QED BY <1>2, <3>1
  <2>2. [i \in 0 .. Len(q) |-> one(i)] = [i \in 0 .. Len(q) |-> two(i)]
    <3> HIDE DEF one, two
    <3> QED BY <2>1
  <2> QED BY <2>2 DEF Picks
<1>4. Eq(C)
  <2>1. \E F : Picks(q, D, F, Len(q))
    <3> HIDE DEF D, q
    <3> QED BY PicksExist, <1>0
  <2>2. \E F : Eq(F)
    <3> HIDE DEF Eq, D
    <3> QED BY <2>1, <1>3
  <2> HIDE DEF Eq
  <2> QED BY <2>2
<1>5. Picks(q, D, C, Len(q))
  <2> HIDE DEF C, Eq, D
  <2> QED BY <1>3, <1>4
<1>6. sends \in Seq(CtlSend) /\ QFrames(sends) \subseteq QFrames(q)
  <2> HIDE DEF C, D, q
  <2>1. "pending" \in CtlDone
    BY DEF CtlDone
  <2> QED BY <1>0, <1>5, <2>1, SendsOfPicks
<1>8. marked \in Seq(CtlEntry) /\ DOMAIN marked = DOMAIN q /\ \A i \in DOMAIN q : marked[i].frame = q[i].frame
  <2> DEFINE e(i) == [q[i] EXCEPT !.busy = @ \/ (~q[i].busy /\ go)]
             r == [i \in DOMAIN q |-> e(i)]
  <2>1. DOMAIN q = 1 .. Len(q) /\ Len(q) \in Nat /\ \A i \in 1 .. Len(q) : q[i] \in CtlEntry
    BY <1>0
  <2>2. \A y \in CtlEntry : [y EXCEPT !.busy = @ \/ (~y.busy /\ go)] \in CtlEntry
                            /\ [y EXCEPT !.busy = @ \/ (~y.busy /\ go)].frame = y.frame
    BY DEF CtlEntry
  <2>3. \A i \in DOMAIN q : e(i) \in CtlEntry /\ e(i).frame = q[i].frame
    BY <2>1, <2>2
  <2> HIDE DEF e
  <2>4. r \in Seq(CtlEntry) /\ DOMAIN r = DOMAIN q /\ \A i \in DOMAIN q : r[i].frame = q[i].frame
    BY <2>1, <2>3
  <2> QED BY <2>4 DEF e
<1> HIDE DEF marked, sends, C, D, Eq
<1> DEFINE t == FlushPending(s)
<1>9. t.n \in CtlNode /\ t.out \in Seq(CtlSend) /\ t \in CtlState
  <2>1. s.n \in CtlNode /\ s.out \in Seq(CtlSend)
    BY DEF StateOk, CtlState
  <2>2. s.out \o sends \in Seq(CtlSend)
    BY <2>1, <1>6
  <2>3. [s.n EXCEPT !.pend = marked] \in CtlNode
    BY <2>1, <1>8 DEF CtlNode
  <2> QED BY <1>1, <2>2, <2>3 DEF CtlState
<1>10. /\ t.n.pend = marked /\ t.n.held = s.n.held /\ t.out = s.out \o sends /\ t.n.said = s.n.said
       /\ t.n.addr = s.n.addr /\ t.n.waiting = s.n.waiting /\ t.n.delay = s.n.delay
  BY <1>1 DEF StateOk, CtlState, CtlNode
<1>11. QFrames(marked) = QFrames(q)
  BY <1>8 DEF QFrames
<1> HIDE DEF t
<1>12. QFrames(t.out) \subseteq QFrames(s.out) \cup QFrames(q)
  <2>1. s.out \in Seq(CtlSend)
    BY DEF StateOk, CtlState
  <2> QED BY <1>6, <1>10, <2>1, QueuesJoin
<1>13. NodeOk(t.n)
  BY <1>8, <1>9, <1>10, <1>11 DEF NodeOk, StateOk
<1>14. StateOk(t)
  BY <1>9, <1>13 DEF StateOk
<1>15. Follows(s, t)
  BY <1>10, <1>11, <1>12 DEF Follows, NodeFrames
<1> QED BY <1>14, <1>15 DEF t

\* flush_held_for marks entries as in flight and sends their frames.
LEMMA FlushHeldKeeps ==
    ASSUME NEW s, StateOk(s), NEW directFirst \in BOOLEAN
    PROVE  StateOk(FlushHeld(s, directFirst)) /\ Follows(s, FlushHeld(s, directFirst))
<1> DEFINE q == s.n.held
           go == MayRetry(s.n)
           first == s.n.held[1]
           done == IF HasRelayRoute /\ ~directFirst THEN "held by relay" ELSE "held"
           D == {p \in CtlEntry : ~p.busy /\ go /\ (HasRelayRoute \/ p = first)}
           Eq(F) == F = [i \in 0 .. Len(q) |-> IF i = 0 THEN <<>>
                           ELSE IF ~q[i].busy /\ go /\ (HasRelayRoute \/ q[i] = first) THEN Append(F[i - 1], q[i]) ELSE F[i - 1]]
           C == CHOOSE F : Eq(F)
           marked == [i \in DOMAIN q |-> [q[i] EXCEPT !.busy = @ \/ (~q[i].busy /\ go /\ (HasRelayRoute \/ q[i] = first))]]
           sends == [i \in DOMAIN C[Len(q)] |-> Send(C[Len(q)][i].frame, done)]
<1>0. q \in Seq(CtlEntry)
  BY DEF StateOk, CtlState, CtlNode
<1>1. FlushHeld(s, directFirst) = [n |-> [s.n EXCEPT !.held = marked], out |-> s.out \o sends]
  <2> HIDE DEF go, first, done
  <2> QED BY DEF FlushHeld, Sends, Chosen, Marked, go, first, done
<1> HIDE DEF go, first, done
<1>2. \A i \in 1 .. Len(q) : q[i] \in D <=> ~q[i].busy /\ go /\ (HasRelayRoute \/ q[i] = first)
  BY <1>0
<1>3. \A F : Eq(F) <=> Picks(q, D, F, Len(q))
  <2> TAKE F
  <2> DEFINE one(i) == IF i = 0 THEN <<>>
                       ELSE IF ~q[i].busy /\ go /\ (HasRelayRoute \/ q[i] = first) THEN Append(F[i - 1], q[i]) ELSE F[i - 1]
             two(i) == IF i = 0 THEN <<>>
                       ELSE IF q[i] \in D THEN Append(F[i - 1], q[i]) ELSE F[i - 1]
  <2>1. \A i \in 0 .. Len(q) : one(i) = two(i)
    <3> HIDE DEF D, q
    <3> TAKE i \in 0 .. Len(q)
    <3>1. i # 0 => i \in 1 .. Len(q)
      BY <1>0
    <3> QED BY <1>2, <3>1
  <2>2. [i \in 0 .. Len(q) |-> one(i)] = [i \in 0 .. Len(q) |-> two(i)]
    <3> HIDE DEF one, two
    <3> QED BY <2>1
  <2> QED BY <2>2 DEF Picks
<1>4. Eq(C)
  <2>1. \E F : Picks(q, D, F, Len(q))
    <3> HIDE DEF D, q
    <3> QED BY PicksExist, <1>0
  <2>2. \E F : Eq(F)
    <3> HIDE DEF Eq, D
    <3> QED BY <2>1, <1>3
  <2> HIDE DEF Eq
  <2> QED BY <2>2
<1>5. Picks(q, D, C, Len(q))
  <2> HIDE DEF C, Eq, D
  <2> QED BY <1>3, <1>4
<1>6. sends \in Seq(CtlSend) /\ QFrames(sends) \subseteq QFrames(q)
  <2> HIDE DEF C, D, q
  <2>1. done \in CtlDone
    BY DEF CtlDone, done
  <2> QED BY <1>0, <1>5, <2>1, SendsOfPicks
<1>8. marked \in Seq(CtlEntry) /\ DOMAIN marked = DOMAIN q /\ \A i \in DOMAIN q : marked[i].frame = q[i].frame
  <2> DEFINE e(i) == [q[i] EXCEPT !.busy = @ \/ (~q[i].busy /\ go /\ (HasRelayRoute \/ q[i] = first))]
             r == [i \in DOMAIN q |-> e(i)]
  <2>1. DOMAIN q = 1 .. Len(q) /\ Len(q) \in Nat /\ \A i \in 1 .. Len(q) : q[i] \in CtlEntry
    BY <1>0
  <2>2. \A y \in CtlEntry : [y EXCEPT !.busy = @ \/ (~y.busy /\ go /\ (HasRelayRoute \/ y = first))] \in CtlEntry
                            /\ [y EXCEPT !.busy = @ \/ (~y.busy /\ go /\ (HasRelayRoute \/ y = first))].frame = y.frame
    BY DEF CtlEntry
  <2>3. \A i \in DOMAIN q : e(i) \in CtlEntry /\ e(i).frame = q[i].frame
    BY <2>1, <2>2
  <2> HIDE DEF e
  <2>4. r \in Seq(CtlEntry) /\ DOMAIN r = DOMAIN q /\ \A i \in DOMAIN q : r[i].frame = q[i].frame
    BY <2>1, <2>3
  <2> QED BY <2>4 DEF e
<1> HIDE DEF marked, sends, C, D, Eq
<1> DEFINE t == FlushHeld(s, directFirst)
<1>9. t.n \in CtlNode /\ t.out \in Seq(CtlSend) /\ t \in CtlState
  <2>1. s.n \in CtlNode /\ s.out \in Seq(CtlSend)
    BY DEF StateOk, CtlState
  <2>2. s.out \o sends \in Seq(CtlSend)
    BY <2>1, <1>6
  <2>3. [s.n EXCEPT !.held = marked] \in CtlNode
    BY <2>1, <1>8 DEF CtlNode
  <2> QED BY <1>1, <2>2, <2>3 DEF CtlState
<1>10. /\ t.n.held = marked /\ t.n.pend = s.n.pend /\ t.out = s.out \o sends /\ t.n.said = s.n.said
       /\ t.n.addr = s.n.addr /\ t.n.waiting = s.n.waiting /\ t.n.delay = s.n.delay
  BY <1>1 DEF StateOk, CtlState, CtlNode
<1>11. QFrames(marked) = QFrames(q)
  BY <1>8 DEF QFrames
<1> HIDE DEF t
<1>12. QFrames(t.out) \subseteq QFrames(s.out) \cup QFrames(q)
  <2>1. s.out \in Seq(CtlSend)
    BY DEF StateOk, CtlState
  <2> QED BY <1>6, <1>10, <2>1, QueuesJoin
<1>13. NodeOk(t.n)
  BY <1>8, <1>9, <1>10, <1>11 DEF NodeOk, StateOk
<1>14. StateOk(t)
  BY <1>9, <1>13 DEF StateOk
<1>15. Follows(s, t)
  BY <1>10, <1>11, <1>12 DEF Follows, NodeFrames
<1> QED BY <1>14, <1>15 DEF t

\* A frame goes to the outbox, and of the node only what the frames do not read changes.
LEMMA OneMoreSend ==
    ASSUME NEW s, StateOk(s), NEW f \in CtlFrame, NEW done \in CtlDone, NEW m \in CtlNode,
           m.pend = s.n.pend, m.held = s.n.held, m.said = s.n.said, m.addr = s.n.addr,
           m.waiting = s.n.waiting, m.delay = s.n.delay, NEW t,
           \/ t = [n |-> m, out |-> s.out]
           \/ t = [n |-> m, out |-> Append(s.out, Send(f, done))]
              /\ f.what # "notice" /\ (f.what = "address" => f.val = s.n.addr)
    PROVE  StateOk(t) /\ Follows(s, t)
<1>1. s.out \in Seq(CtlSend) /\ NodeOk(s.n)
  BY DEF StateOk, CtlState
<1>2. NodeOk(m)
  BY <1>1 DEF NodeOk
<1>3. Send(f, done) \in CtlSend /\ Send(f, done).frame = f
  BY DEF Send, CtlSend
<1>4. QFrames(Append(s.out, Send(f, done))) = QFrames(s.out) \cup {f}
  BY <1>1, <1>3, QueueGrows
<1>5. Append(s.out, Send(f, done)) \in Seq(CtlSend)
  BY <1>1, <1>3
<1>6. t.n = m /\ t.out \in Seq(CtlSend) /\ t \in CtlState
  BY <1>1, <1>5 DEF CtlState
<1>7. NodeFrames(m) = NodeFrames(s.n)
  BY DEF NodeFrames
<1>8. \A g \in QFrames(t.out) : \/ g \in QFrames(s.out)
                                \/ g = f /\ f.what # "notice" /\ (f.what = "address" => f.val = s.n.addr)
  <2>1. \/ t.out = s.out
        \/ t.out = Append(s.out, Send(f, done)) /\ f.what # "notice" /\ (f.what = "address" => f.val = s.n.addr)
    OBVIOUS
  <2> QED BY <2>1, <1>4
<1>9. StateOk(t)
  BY <1>2, <1>6 DEF StateOk
<1>10. Follows(s, t)
  BY <1>6, <1>7, <1>8 DEF Follows
<1> QED BY <1>9, <1>10

\* A node's record after its next key is spent.
LEMMA AfterSealKeeps ==
    ASSUME NEW n \in CtlNode
    PROVE  /\ AfterSeal(n) \in CtlNode
           /\ AfterSeal(n).pend = n.pend /\ AfterSeal(n).held = n.held /\ AfterSeal(n).said = n.said
           /\ AfterSeal(n).addr = n.addr /\ AfterSeal(n).waiting = n.waiting
           /\ AfterSeal(n).delay = n.delay /\ AfterSeal(n).my = n.my
           /\ AfterSeal(n).outdated = n.outdated
<1>1. n.seal + 1 \in Nat
  BY DEF CtlNode
<1>2. AfterSeal(n) \in CtlNode
  BY <1>1 DEF AfterSeal, CtlNode
<1> QED BY <1>2 DEF AfterSeal, CtlNode

\* send_address_to sends our address of now, if anything.
LEMMA SendAddressKeeps ==
    ASSUME NEW s, StateOk(s)
    PROVE  StateOk(SendAddress(s)) /\ Follows(s, SendAddress(s))
<1> DEFINE a == AfterSeal(s.n)
           flag == IF s.n.outdated THEN NoAddress ELSE s.n.addr
           m == [a EXCEPT !.flag = flag]
           f == SealedFrame(s.n, "address", s.n.addr)
<1>1. s.n \in CtlNode /\ s.n.addr \in Nat /\ s.n.seal \in Nat
  BY DEF StateOk, CtlState, CtlNode
<1>2. /\ a \in CtlNode /\ a.pend = s.n.pend /\ a.held = s.n.held /\ a.said = s.n.said
      /\ a.addr = s.n.addr /\ a.waiting = s.n.waiting /\ a.delay = s.n.delay
  BY <1>1, AfterSealKeeps
<1>3. flag \in Nat
  BY <1>1 DEF NoAddress
<1>4. SendAddress(s) = IF s.n.outdated THEN [s EXCEPT !.n = m]
                       ELSE [n |-> m, out |-> Append(s.out, Send(f, "address"))]
  BY DEF SendAddress
<1>5. [s EXCEPT !.n = m] = [n |-> m, out |-> s.out]
  BY DEF StateOk, CtlState
<1>6. f \in CtlFrame /\ f.what = "address" /\ f.val = s.n.addr
  BY <1>1 DEF SealedFrame, CtlFrame
<1> HIDE DEF a, flag, f
<1>7. m \in CtlNode
  BY <1>2, <1>3 DEF CtlNode
<1>8. /\ m.pend = s.n.pend /\ m.held = s.n.held /\ m.said = s.n.said
      /\ m.addr = s.n.addr /\ m.waiting = s.n.waiting /\ m.delay = s.n.delay
  BY <1>2 DEF CtlNode
<1>9. "address" \in CtlDone
  BY DEF CtlDone
<1> HIDE DEF m
<1> QED BY <1>4, <1>5, <1>6, <1>7, <1>8, <1>9, OneMoreSend

\* announce_address_if_changed sends our address of now, if anything.
LEMMA AnnounceKeeps ==
    ASSUME NEW s, StateOk(s)
    PROVE  StateOk(AnnounceIfChanged(s)) /\ Follows(s, AnnounceIfChanged(s))
<1> DEFINE a == IF s.n.restored \notin {NoAddress, s.n.addr} THEN SendAddress(s) ELSE s
           m == [a.n EXCEPT !.restored = s.n.addr]
<1>1. StateOk(a) /\ Follows(s, a)
  <2>1. Follows(s, s)
    BY DEF Follows
  <2> QED BY <2>1, SendAddressKeeps
<1>2. AnnounceIfChanged(s) = [a EXCEPT !.n.restored = s.n.addr]
  BY DEF AnnounceIfChanged
<1> HIDE DEF a
<1>3. a.n \in CtlNode /\ a \in CtlState /\ s.n.addr \in Nat
  BY <1>1 DEF StateOk, CtlState, CtlNode
<1>4. AnnounceIfChanged(s) = [n |-> m, out |-> a.out]
  BY <1>2, <1>3 DEF CtlState
<1>5. m \in CtlNode
  BY <1>3 DEF CtlNode
<1>6. /\ m.pend = a.n.pend /\ m.held = a.n.held /\ m.said = a.n.said
      /\ m.addr = a.n.addr /\ m.waiting = a.n.waiting /\ m.delay = a.n.delay
  BY <1>3 DEF CtlNode
<1> HIDE DEF m
<1>8. CtlFrame # {} /\ CtlDone # {}
  <2>1. [key |-> 0, what |-> "name", val |-> 0] \in CtlFrame
    BY DEF CtlFrame
  <2> QED BY <2>1 DEF CtlDone
<1>9. PICK f \in CtlFrame, d \in CtlDone : TRUE
  BY <1>8
<1>7. StateOk(AnnounceIfChanged(s)) /\ Follows(a, AnnounceIfChanged(s))
  BY <1>1, <1>4, <1>5, <1>6, <1>9, OneMoreSend
<1> QED BY <1>1, <1>7, FollowsOn

\* reannounce_address sends our address of now, if anything.
LEMMA ReannounceKeeps ==
    ASSUME NEW s, StateOk(s)
    PROVE  StateOk(ReannounceAddress(s)) /\ Follows(s, ReannounceAddress(s))
<1>1. Follows(s, s)
  BY DEF Follows
<1>2. ReannounceAddress(s) = SendAddress(s) \/ ReannounceAddress(s) = s
  BY DEF ReannounceAddress
<1> QED BY <1>1, <1>2, SendAddressKeeps

\* send_upgrade_notices sends an upgrade frame, if anything.
LEMMA UpgradeKeeps ==
    ASSUME NEW s, StateOk(s)
    PROVE  StateOk(UpgradeNotice(s)) /\ Follows(s, UpgradeNotice(s))
<1> DEFINE a == AfterSeal(s.n)
           m == [a EXCEPT !.upgrading = TRUE]
           f == SealedFrame(s.n, "upgrade", 0)
<1>1. s.n \in CtlNode /\ s.n.seal \in Nat
  BY DEF StateOk, CtlState, CtlNode
<1>2. /\ a \in CtlNode /\ a.pend = s.n.pend /\ a.held = s.n.held /\ a.said = s.n.said
      /\ a.addr = s.n.addr /\ a.waiting = s.n.waiting /\ a.delay = s.n.delay
  BY <1>1, AfterSealKeeps
<1>4. UpgradeNotice(s) = s \/ UpgradeNotice(s) = [n |-> m, out |-> Append(s.out, Send(f, "upgrade"))]
  BY DEF UpgradeNotice
<1>6. f \in CtlFrame /\ f.what = "upgrade"
  BY <1>1 DEF SealedFrame, CtlFrame
<1> HIDE DEF a, f
<1>7. m \in CtlNode
  BY <1>2 DEF CtlNode
<1>8. /\ m.pend = s.n.pend /\ m.held = s.n.held /\ m.said = s.n.said
      /\ m.addr = s.n.addr /\ m.waiting = s.n.waiting /\ m.delay = s.n.delay
  BY <1>2 DEF CtlNode
<1>9. "upgrade" \in CtlDone
  BY DEF CtlDone
<1>10. Follows(s, s)
  BY DEF Follows
<1> HIDE DEF m
<1> QED BY <1>4, <1>6, <1>7, <1>8, <1>9, <1>10, OneMoreSend

\* heard_from sends what waits, and nothing else.
LEMMA HeardKeeps ==
    ASSUME NEW s, StateOk(s)
    PROVE  StateOk(HeardFrom(s)) /\ Follows(s, HeardFrom(s))
<1> DEFINE m == [s.n EXCEPT !.waiting = FALSE, !.delay = 0]
           awake == [n |-> m, out |-> s.out]
<1>1. s.n \in CtlNode /\ s \in CtlState /\ NodeOk(s.n)
  BY DEF StateOk, CtlState, CtlNode
<1>2. [s EXCEPT !.n = [@ EXCEPT !.waiting = FALSE, !.delay = 0]] = awake
  BY <1>1 DEF CtlState
<1>3. 0 \in 0 .. HeldCap
  BY ControlAssumption
<1>4. m \in CtlNode
  BY <1>1, <1>3 DEF CtlNode
<1>5. m.pend = s.n.pend /\ m.held = s.n.held /\ m.said = s.n.said /\ m.addr = s.n.addr /\ m.waiting = FALSE
  BY <1>1 DEF CtlNode
<1>6. HeardFrom(s) = awake \/ HeardFrom(s) = FlushPending(FlushHeld(awake, TRUE))
  BY <1>2 DEF HeardFrom
<1> HIDE DEF m
<1>7. StateOk(awake)
  <2>1. NodeOk(m)
    BY <1>1, <1>4, <1>5 DEF NodeOk
  <2>2. awake \in CtlState
    BY <1>1, <1>4 DEF CtlState
  <2> QED BY <2>1, <2>2 DEF StateOk
<1>8. Follows(s, awake)
  BY <1>5 DEF Follows, NodeFrames
<1> HIDE DEF awake
<1>9. StateOk(FlushHeld(awake, TRUE)) /\ Follows(awake, FlushHeld(awake, TRUE))
  BY <1>7, FlushHeldKeeps
<1>10. StateOk(FlushPending(FlushHeld(awake, TRUE)))
       /\ Follows(FlushHeld(awake, TRUE), FlushPending(FlushHeld(awake, TRUE)))
  BY <1>9, FlushPendingKeeps
<1>11. Follows(s, FlushPending(FlushHeld(awake, TRUE)))
  BY <1>8, <1>9, <1>10, FollowsOn
<1> QED BY <1>6, <1>7, <1>8, <1>10, <1>11

\* From n to m nothing is said or moved, and the frames of m are of n or among A.
Keeps(n, m, A) ==
    /\ NodeOk(m) /\ m.said = n.said /\ m.addr = n.addr
    /\ NodeFrames(m) \subseteq NodeFrames(n) \cup A

\* Letting an entry wait for its next try changes no frame.
LEMMA ReleasedKeeps ==
    ASSUME NEW q \in Seq(CtlEntry), NEW f
    PROVE  /\ Released(q, f) \in Seq(CtlEntry) /\ DOMAIN Released(q, f) = DOMAIN q
           /\ \A i \in DOMAIN q : Released(q, f)[i].frame = q[i].frame
           /\ QFrames(Released(q, f)) = QFrames(q)
<1> DEFINE e(i) == IF q[i].frame = f THEN [q[i] EXCEPT !.busy = FALSE] ELSE q[i]
           r == [i \in DOMAIN q |-> e(i)]
<1>1. DOMAIN q = 1 .. Len(q) /\ Len(q) \in Nat /\ \A i \in 1 .. Len(q) : q[i] \in CtlEntry
  OBVIOUS
<1>2. \A y \in CtlEntry : [y EXCEPT !.busy = FALSE] \in CtlEntry /\ [y EXCEPT !.busy = FALSE].frame = y.frame
  BY DEF CtlEntry
<1>3. \A i \in DOMAIN q : e(i) \in CtlEntry /\ e(i).frame = q[i].frame
  BY <1>1, <1>2
<1>5. Released(q, f) = r
  BY DEF Released
<1> HIDE DEF e
<1>4. r \in Seq(CtlEntry) /\ DOMAIN r = DOMAIN q /\ \A i \in DOMAIN q : r[i].frame = q[i].frame
  BY <1>1, <1>3
<1> HIDE DEF r
<1>6. QFrames(r) = QFrames(q)
  BY <1>4 DEF QFrames
<1> QED BY <1>4, <1>5, <1>6

\* The backoff after a send, and its reset.
LEMMA BackoffKeeps ==
    ASSUME NEW n, NodeOk(n), NEW x \in CtlOutcome
    PROVE  Keeps(n, Backoff(n, x), {})
<1> DEFINE w == IF n.delay = 0 THEN 1 ELSE IF n.delay * 2 > HeldCap THEN HeldCap ELSE n.delay * 2
           a == [n EXCEPT !.waiting = FALSE, !.delay = 0]
           b == [n EXCEPT !.waiting = TRUE, !.delay = w]
<1>1. n \in CtlNode /\ n.delay \in 0 .. HeldCap /\ HeldCap \in Nat \ {0}
  BY ControlAssumption DEF NodeOk, CtlNode
<1>2. w \in 0 .. HeldCap /\ w > 0 /\ 0 \in 0 .. HeldCap
  BY <1>1
<1>3. Backoff(n, x) \in {a, b, n}
  BY DEF Backoff
<1> HIDE DEF w
<1>4. a \in CtlNode /\ b \in CtlNode
  BY <1>1, <1>2 DEF CtlNode
<1>5. /\ a.pend = n.pend /\ a.held = n.held /\ a.said = n.said /\ a.addr = n.addr /\ a.waiting = FALSE
      /\ b.pend = n.pend /\ b.held = n.held /\ b.said = n.said /\ b.addr = n.addr /\ b.delay = w
  BY <1>1 DEF CtlNode
<1> HIDE DEF a, b
<1>6. NodeOk(a) /\ NodeOk(b)
  BY <1>2, <1>4, <1>5 DEF NodeOk
<1>7. Keeps(n, a, {}) /\ Keeps(n, b, {}) /\ Keeps(n, n, {})
  BY <1>5, <1>6 DEF Keeps, NodeFrames
<1> QED BY <1>3, <1>7

\* What a node holds changes, and its pending queue does not.
LEMMA HeldChanges ==
    ASSUME NEW n, NodeOk(n), NEW q \in Seq(CtlEntry), NEW A, QFrames(q) \subseteq QFrames(n.held) \cup A
    PROVE  Keeps(n, [n EXCEPT !.held = q], A)
<1> DEFINE m == [n EXCEPT !.held = q]
<1>1. n \in CtlNode
  BY DEF NodeOk
<1>2. m \in CtlNode
  BY <1>1 DEF CtlNode
<1>3. /\ m.pend = n.pend /\ m.held = q /\ m.said = n.said /\ m.addr = n.addr
      /\ m.waiting = n.waiting /\ m.delay = n.delay
  BY <1>1 DEF CtlNode
<1> HIDE DEF m
<1>4. NodeOk(m)
  BY <1>2, <1>3 DEF NodeOk
<1>5. Keeps(n, m, A)
  BY <1>3, <1>4 DEF Keeps, NodeFrames
<1> QED BY <1>5 DEF m

\* What a node has pending shrinks, and what it holds does not change.
LEMMA PendChanges ==
    ASSUME NEW n, NodeOk(n), NEW q \in Seq(CtlEntry), QFrames(q) \subseteq QFrames(n.pend),
           \A i, j \in DOMAIN q : i # j => q[i].frame # q[j].frame
    PROVE  Keeps(n, [n EXCEPT !.pend = q], {})
<1> DEFINE m == [n EXCEPT !.pend = q]
<1>1. n \in CtlNode
  BY DEF NodeOk
<1>2. m \in CtlNode
  BY <1>1 DEF CtlNode
<1>3. /\ m.pend = q /\ m.held = n.held /\ m.said = n.said /\ m.addr = n.addr
      /\ m.waiting = n.waiting /\ m.delay = n.delay
  BY <1>1 DEF CtlNode
<1> HIDE DEF m
<1>4. NodeOk(m)
  BY <1>2, <1>3 DEF NodeOk
<1>5. Keeps(n, m, {})
  BY <1>3, <1>4 DEF Keeps, NodeFrames
<1> QED BY <1>5 DEF m

\* A one-off frame that reached nobody is held.
LEMMA HoldKeeps ==
    ASSUME NEW n, NodeOk(n), NEW x \in CtlOutcome
    PROVE  Keeps(n, HoldOneOff(n, x), {x.frame})
<1> DEFINE p == [frame |-> x.frame, busy |-> FALSE]
           q == Append(n.held, p)
<1>1. n \in CtlNode /\ n.held \in Seq(CtlEntry)
  BY DEF NodeOk, CtlNode
<1>2. p \in CtlEntry /\ p.frame = x.frame
  BY DEF CtlEntry, CtlOutcome
<1>3. q \in Seq(CtlEntry) /\ QFrames(q) = QFrames(n.held) \cup {x.frame}
  <2> HIDE DEF p
  <2> QED BY <1>1, <1>2, QueueGrows
<1>4. HoldOneOff(n, x) \in {n, [n EXCEPT !.held = q]}
  BY DEF HoldOneOff
<1> HIDE DEF q
<1>5. Keeps(n, [n EXCEPT !.held = q], {x.frame})
  BY <1>3, HeldChanges
<1>6. Keeps(n, n, {x.frame})
  BY DEF Keeps
<1> QED BY <1>4, <1>5, <1>6

\* An outcome takes a frame out of its queue, or leaves it there.
LEMMA SettleQueuesKeep ==
    ASSUME NEW n, NodeOk(n), NEW x \in CtlOutcome
    PROVE  Keeps(n, SettlePending(n, x), {}) /\ Keeps(n, SettleHeld(n, x), {})
<1>1. n \in CtlNode /\ n.pend \in Seq(CtlEntry) /\ n.held \in Seq(CtlEntry)
      /\ \A i, j \in DOMAIN n.pend : i # j => n.pend[i].frame # n.pend[j].frame
  BY DEF NodeOk, CtlNode
<1> DEFINE f == x.frame
           p1 == Released(n.pend, f)
           p2 == Without(n.pend, f)
           h1 == Released(n.held, f)
           h2 == Without(n.held, f)
<1>2. SettlePending(n, x) \in {[n EXCEPT !.pend = p1], [n EXCEPT !.pend = p2]}
  BY DEF SettlePending
<1>3. SettleHeld(n, x) \in {[n EXCEPT !.held = h1], [n EXCEPT !.held = h2]}
  BY DEF SettleHeld
<1>4. /\ p1 \in Seq(CtlEntry) /\ QFrames(p1) \subseteq QFrames(n.pend)
      /\ \A i, j \in DOMAIN p1 : i # j => p1[i].frame # p1[j].frame
  <2>1. /\ p1 \in Seq(CtlEntry) /\ DOMAIN p1 = DOMAIN n.pend /\ QFrames(p1) = QFrames(n.pend)
        /\ \A i \in DOMAIN n.pend : p1[i].frame = n.pend[i].frame
    BY <1>1, ReleasedKeeps
  <2> HIDE DEF p1
  <2> QED BY <2>1, <1>1
<1>5. /\ p2 \in Seq(CtlEntry) /\ QFrames(p2) \subseteq QFrames(n.pend)
      /\ \A i, j \in DOMAIN p2 : i # j => p2[i].frame # p2[j].frame
  BY <1>1, WithoutKeeps
<1>6. h1 \in Seq(CtlEntry) /\ QFrames(h1) \subseteq QFrames(n.held)
  BY <1>1, ReleasedKeeps
<1>7. h2 \in Seq(CtlEntry) /\ QFrames(h2) \subseteq QFrames(n.held)
  BY <1>1, WithoutKeeps
<1> HIDE DEF p1, p2, h1, h2
<1>8. Keeps(n, [n EXCEPT !.pend = p1], {}) /\ Keeps(n, [n EXCEPT !.pend = p2], {})
  BY <1>4, <1>5, PendChanges
<1>9. Keeps(n, [n EXCEPT !.held = h1], {}) /\ Keeps(n, [n EXCEPT !.held = h2], {})
  BY <1>6, <1>7, HeldChanges
<1> QED BY <1>2, <1>3, <1>8, <1>9

\* An outcome of an address or an upgrade frame sets a flag.
LEMMA SettleFlagsKeep ==
    ASSUME NEW n, NodeOk(n), NEW x \in CtlOutcome
    PROVE  Keeps(n, SettleAddress(n, x), {}) /\ Keeps(n, SettleUpgrade(n, x), {})
<1> DEFINE a == [n EXCEPT !.flag = NoAddress]
           b == [n EXCEPT !.told = n.flag]
           c == [n EXCEPT !.upgrading = FALSE]
           d == [n EXCEPT !.toldUpgrade = TRUE]
<1>1. n \in CtlNode /\ n.flag \in Nat
  BY DEF NodeOk, CtlNode
<1>2. SettleAddress(n, x) \in {a, b, n} /\ SettleUpgrade(n, x) \in {c, d, n}
  BY DEF SettleAddress, SettleUpgrade
<1>3. a \in CtlNode /\ b \in CtlNode /\ c \in CtlNode /\ d \in CtlNode
  BY <1>1 DEF CtlNode, NoAddress
<1>4. \A m \in {a, b, c, d} :
         /\ m.pend = n.pend /\ m.held = n.held /\ m.said = n.said /\ m.addr = n.addr
         /\ m.waiting = n.waiting /\ m.delay = n.delay
  BY <1>1 DEF CtlNode
<1> HIDE DEF a, b, c, d
<1>5. \A m \in {a, b, c, d} : NodeOk(m)
  BY <1>3, <1>4 DEF NodeOk
<1>6. \A m \in {a, b, c, d} : Keeps(n, m, {})
  BY <1>4, <1>5 DEF Keeps, NodeFrames
<1>7. Keeps(n, n, {})
  BY DEF Keeps
<1> QED BY <1>2, <1>6, <1>7

\* apply_send_outcomes, for one outcome.
LEMMA ApplyKeeps ==
    ASSUME NEW n, NodeOk(n), NEW x \in CtlOutcome
    PROVE  Keeps(n, ApplyOutbound(n, x), {x.frame})
<1> DEFINE b == Backoff(n, x)
           h == HoldOneOff(b, x)
           r == ApplyOutbound(n, x)
<1>1. Keeps(n, b, {})
  BY BackoffKeeps
<1>2. r \in {SettlePending(h, x), SettleHeld(h, x), SettleAddress(h, x), SettleUpgrade(h, x), h}
  <2> HIDE DEF b
  <2> QED BY DEF ApplyOutbound, b
<1>3. Keeps(b, h, {x.frame})
  BY <1>1, HoldKeeps DEF Keeps
<1>4. NodeOk(h)
  BY <1>3 DEF Keeps
<1> HIDE DEF h, r, b
<1>5. Keeps(h, r, {})
  <2>1. Keeps(h, h, {})
    BY <1>4 DEF Keeps
  <2> QED BY <1>2, <1>4, <2>1, SettleQueuesKeep, SettleFlagsKeep
<1>6. Keeps(n, r, {x.frame})
  BY <1>1, <1>3, <1>5 DEF Keeps
<1> QED BY <1>6 DEF r

\* What folding ApplyOutbound over the first k outcomes of d computes, set by set.
Folds(n, d, F, k) ==
    F = [s \in SUBSET (1 .. k) |-> IF s = {} THEN n ELSE ApplyOutbound(F[s \ {Max(s)}], d[Max(s)])]

\* That fold exists, for a round of any length.
LEMMA FoldsExist ==
    ASSUME NEW n, NEW d, NEW len \in Nat
    PROVE  \E F : Folds(n, d, F, len)
<1> DEFINE Stuck == {k \in Nat : ~ \E F : Folds(n, d, F, k)}
<1>1. SUFFICES ASSUME Stuck # {} PROVE FALSE
  OBVIOUS
<1>2. PICK m \in Stuck : \A k \in Stuck : m <= k
  <2>1. Stuck \in SUBSET Nat
    OBVIOUS
  <2> HIDE DEF Stuck
  <2> QED BY <1>1, <2>1, SmallestMember
<1>3. CASE m = 0
  <2> DEFINE F == [s \in SUBSET (1 .. 0) |-> n]
             step(s) == IF s = {} THEN n ELSE ApplyOutbound(F[s \ {Max(s)}], d[Max(s)])
  <2>1. \A s \in SUBSET (1 .. 0) : step(s) = n
    <3> SUFFICES ASSUME NEW s \in SUBSET (1 .. 0) PROVE s = {}
      OBVIOUS
    <3>1. 1 .. 0 = {}
      OBVIOUS
    <3> QED BY <3>1
  <2>2. F = [s \in SUBSET (1 .. 0) |-> step(s)]
    <3> HIDE DEF step
    <3> QED BY <2>1
  <2>3. Folds(n, d, F, 0)
    BY <2>2 DEF Folds
  <2> QED BY <2>3, <1>3, <1>2
<1>4. CASE m # 0
  <2>1. m - 1 \in Nat /\ m - 1 \notin Stuck /\ m \in Nat
    BY <1>2, <1>4
  <2>2. PICK F : Folds(n, d, F, m - 1)
    BY <2>1
  <2> DEFINE old(s) == IF s = {} THEN n ELSE ApplyOutbound(F[s \ {Max(s)}], d[Max(s)])
             G == [s \in SUBSET (1 .. m) |-> IF m \in s THEN ApplyOutbound(F[s \ {m}], d[m]) ELSE F[s]]
             step(s) == IF s = {} THEN n ELSE ApplyOutbound(G[s \ {Max(s)}], d[Max(s)])
  <2>3. \A s \in SUBSET (1 .. m - 1) : F[s] = old(s)
    <3>1. F = [s \in SUBSET (1 .. m - 1) |-> old(s)]
      BY <2>2 DEF Folds
    <3> HIDE DEF old
    <3> QED BY <3>1
  <2>4. \A s \in SUBSET (1 .. m) : m \notin s => s \in SUBSET (1 .. m - 1) /\ G[s] = F[s]
    <3>1. \A s \in SUBSET (1 .. m) : m \notin s => s \in SUBSET (1 .. m - 1)
      BY <2>1
    <3> QED BY <3>1
  <2>5. \A s \in SUBSET (1 .. m) : m \in s => Max(s) = m
    <3> SUFFICES ASSUME NEW s \in SUBSET (1 .. m), m \in s PROVE Max(s) = m
      OBVIOUS
    <3>1. \A y \in s : m >= y
      BY <2>1
    <3>2. \A x \in s : (\A y \in s : x >= y) => x = m
      BY <2>1
    <3> QED BY <3>1, <3>2 DEF Max
  <2>6. \A s \in SUBSET (1 .. m) : G[s] = step(s)
    <3> TAKE s \in SUBSET (1 .. m)
    <3>1. CASE m \in s
      <4>1. Max(s) = m /\ s # {}
        BY <2>5, <3>1
      <4>2. s \ {m} \in SUBSET (1 .. m) /\ m \notin s \ {m}
        OBVIOUS
      <4>3. G[s \ {m}] = F[s \ {m}]
        <5> HIDE DEF G
        <5> QED BY <2>4, <4>2
      <4>4. G[s] = ApplyOutbound(F[s \ {m}], d[m])
        BY <3>1
      <4> HIDE DEF G
      <4> QED BY <4>1, <4>3, <4>4
    <3>2. CASE m \notin s
      <4>1. s \in SUBSET (1 .. m - 1) /\ G[s] = F[s]
        <5> HIDE DEF G
        <5> QED BY <2>4, <3>2
      <4>2. s \ {Max(s)} \in SUBSET (1 .. m) /\ m \notin s \ {Max(s)}
        BY <3>2
      <4>3. G[s \ {Max(s)}] = F[s \ {Max(s)}]
        <5> HIDE DEF G
        <5> QED BY <2>4, <4>2
      <4>4. step(s) = old(s)
        <5> HIDE DEF G
        <5> QED BY <4>3
      <4> HIDE DEF step, old, G
      <4> QED BY <4>1, <4>4, <2>3
    <3> QED BY <3>1, <3>2
  <2>7. G = [s \in SUBSET (1 .. m) |-> step(s)]
    <3> DEFINE one(s) == IF m \in s THEN ApplyOutbound(F[s \ {m}], d[m]) ELSE F[s]
    <3>1. G = [s \in SUBSET (1 .. m) |-> one(s)]
      OBVIOUS
    <3> HIDE DEF one, step, G
    <3>2. \A s \in SUBSET (1 .. m) : one(s) = step(s)
      BY <3>1, <2>6
    <3> QED BY <3>1, <3>2
  <2>8. Folds(n, d, G, m)
    <3> HIDE DEF G
    <3> QED BY <2>7 DEF Folds
  <2> QED BY <2>8, <1>2
<1> QED BY <1>3, <1>4

\* A round's outcomes, applied in their order, keep what one of them keeps.
LEMMA RoundKeeps ==
    ASSUME NEW n, NodeOk(n), NEW d \in Seq(CtlOutcome)
    PROVE  Keeps(n, FoldLeft(ApplyOutbound, n, d), QFrames(d))
<1> DEFINE Eq(F) == F = [s \in SUBSET DOMAIN d |->
                          IF s = {} THEN n ELSE ApplyOutbound(F[s \ {Max(s)}], d[Max(s)])]
           C == CHOOSE F : Eq(F)
           l == Len(d)
<1>1. DOMAIN d = 1 .. l /\ l \in Nat /\ \A i \in 1 .. l : d[i] \in CtlOutcome /\ d[i].frame \in QFrames(d)
  BY DEF QFrames
<1>2. FoldLeft(ApplyOutbound, n, d) = C[DOMAIN d]
  BY DEF FoldLeft, MapThenFoldSet
<1>3. \A F : Eq(F) <=> Folds(n, d, F, l)
  BY <1>1 DEF Folds
<1>4. Folds(n, d, C, l)
  <2>1. \E F : Folds(n, d, F, l)
    BY <1>1, FoldsExist
  <2>2. \E F : Eq(F)
    <3> HIDE DEF Eq
    <3> QED BY <2>1, <1>3
  <2>3. Eq(C)
    <3> HIDE DEF Eq
    <3> QED BY <2>2
  <2> HIDE DEF Eq, C
  <2> QED BY <2>3, <1>3
<1> HIDE DEF C, Eq, l
<1> DEFINE step(s) == IF s = {} THEN n ELSE ApplyOutbound(C[s \ {Max(s)}], d[Max(s)])
           Bad == {k \in 0 .. l : ~ Keeps(n, C[1 .. k], QFrames(d))}
<1>5. \A s \in SUBSET (1 .. l) : C[s] = step(s)
  <2>1. C = [s \in SUBSET (1 .. l) |-> step(s)]
    BY <1>4 DEF Folds
  <2> HIDE DEF step
  <2> QED BY <2>1
<1>6. SUFFICES Bad = {}
  <2>1. Keeps(n, C[1 .. l], QFrames(d))
    BY <1>1, <1>6
  <2> QED BY <2>1, <1>1, <1>2
<1>7. SUFFICES ASSUME Bad # {} PROVE FALSE
  OBVIOUS
<1>8. PICK m \in Bad : \A k \in Bad : m <= k
  <2>1. Bad \in SUBSET Nat
    BY <1>1
  <2> HIDE DEF Bad
  <2> QED BY <1>7, <2>1, SmallestMember
<1>9. CASE m = 0
  <2>1. 1 .. 0 = {} /\ 1 .. 0 \in SUBSET (1 .. l)
    OBVIOUS
  <2>2. C[1 .. 0] = n
    BY <2>1, <1>5
  <2>3. Keeps(n, n, QFrames(d))
    BY DEF Keeps
  <2> QED BY <2>2, <2>3, <1>8, <1>9
<1>10. CASE m # 0
  <2>1. m \in 1 .. l /\ m - 1 \in 0 .. l /\ m - 1 \notin Bad /\ m \in Nat
    BY <1>8, <1>10, <1>1
  <2> DEFINE p == C[1 .. m - 1]
  <2>2. Keeps(n, p, QFrames(d))
    BY <2>1
  <2>3. 1 .. m \in SUBSET (1 .. l) /\ 1 .. m # {} /\ m \in 1 .. m
    <3>1. m \in 1 .. m /\ \A k \in 1 .. m : k \in 1 .. l
      BY <2>1, <1>1
    <3> QED BY <3>1
  <2>4. Max(1 .. m) = m
    <3>1. \A y \in 1 .. m : m >= y
      BY <2>1
    <3>2. \A x \in 1 .. m : (\A y \in 1 .. m : x >= y) => x = m
      BY <2>1
    <3> QED BY <3>1, <3>2, <2>3 DEF Max
  <2>5. (1 .. m) \ {m} = 1 .. m - 1
    BY <2>1
  <2>6. C[1 .. m] = ApplyOutbound(p, d[m])
    BY <1>5, <2>3, <2>4, <2>5
  <2> HIDE DEF p
  <2>7. NodeOk(p) /\ d[m] \in CtlOutcome /\ d[m].frame \in QFrames(d)
    BY <2>1, <2>2, <1>1 DEF Keeps
  <2>8. Keeps(p, ApplyOutbound(p, d[m]), {d[m].frame})
    BY <2>7, ApplyKeeps
  <2>9. Keeps(n, C[1 .. m], QFrames(d))
    BY <2>2, <2>6, <2>7, <2>8 DEF Keeps
  <2> QED BY <2>9, <1>8
<1> QED BY <1>9, <1>10

\* What is saved of a node is as well formed, and at rest.
LEMMA SavedKeeps ==
    ASSUME NEW n, NodeOk(n)
    PROVE  /\ NodeOk(Saved(n)) /\ ~Saved(n).waiting
           /\ Saved(n).said = n.said /\ Saved(n).addr = n.addr
           /\ NodeFrames(Saved(n)) = NodeFrames(n)
<1> DEFINE e(i) == [n.pend[i] EXCEPT !.busy = FALSE]
           g(i) == [n.held[i] EXCEPT !.busy = FALSE]
           p == [i \in DOMAIN n.pend |-> e(i)]
           h == [i \in DOMAIN n.held |-> g(i)]
           m == [n EXCEPT !.flag = NoAddress, !.upgrading = FALSE, !.waiting = FALSE, !.delay = 0,
                          !.pend = p, !.held = h]
<1>1. n \in CtlNode
  BY DEF NodeOk
<1>2. n.pend \in Seq(CtlEntry) /\ n.held \in Seq(CtlEntry)
  BY <1>1 DEF CtlNode
<1>3. Saved(n) = m
  BY DEF Saved
<1>4. \A y \in CtlEntry : [y EXCEPT !.busy = FALSE] \in CtlEntry /\ [y EXCEPT !.busy = FALSE].frame = y.frame
  BY DEF CtlEntry
<1>5. \A i \in DOMAIN n.pend : e(i) \in CtlEntry /\ e(i).frame = n.pend[i].frame
  BY <1>2, <1>4
<1>6. \A i \in DOMAIN n.held : g(i) \in CtlEntry /\ g(i).frame = n.held[i].frame
  BY <1>2, <1>4
<1> HIDE DEF e, g
<1>7. /\ p \in Seq(CtlEntry) /\ DOMAIN p = DOMAIN n.pend
      /\ \A i \in DOMAIN n.pend : p[i].frame = n.pend[i].frame
  BY <1>2, <1>5
<1>8. /\ h \in Seq(CtlEntry) /\ DOMAIN h = DOMAIN n.held
      /\ \A i \in DOMAIN n.held : h[i].frame = n.held[i].frame
  BY <1>2, <1>6
<1> HIDE DEF p, h
<1>9. QFrames(p) = QFrames(n.pend) /\ QFrames(h) = QFrames(n.held)
  BY <1>7, <1>8 DEF QFrames
<1>10. m \in CtlNode
  <2> DEFINE m1 == [n EXCEPT !.flag = NoAddress, !.upgrading = FALSE, !.waiting = FALSE, !.delay = 0]
  <2>1. 0 \in 0 .. HeldCap /\ NoAddress \in Nat
    BY ControlAssumption DEF NoAddress
  <2>2. m1 \in CtlNode
    BY <1>1, <2>1 DEF CtlNode
  <2>3. m = [m1 EXCEPT !.pend = p, !.held = h]
    OBVIOUS
  <2> HIDE DEF m1, m
  <2> QED BY <1>7, <1>8, <2>2, <2>3 DEF CtlNode
<1>11. m.pend = p /\ m.held = h /\ m.said = n.said /\ m.addr = n.addr /\ m.waiting = FALSE
  BY <1>1 DEF CtlNode
<1> HIDE DEF m
<1>12. NodeOk(m)
  BY <1>7, <1>9, <1>10, <1>11 DEF NodeOk
<1> QED BY <1>3, <1>9, <1>11, <1>12 DEF NodeFrames

\* A capture notice is queued: one more is said, and its frame is new.
LEMMA NoticeQueued ==
    ASSUME NEW n, NodeOk(n), NEW out \in Seq(CtlSend), NEW f,
           f = SealedFrame(n, "notice", n.said), NEW t,
           t = QueuePending([n |-> [AfterSeal(n) EXCEPT !.said = @ + 1], out |-> out], f)
    PROVE  /\ StateOk(t) /\ f \in CtlFrame /\ f.what = "notice"
           /\ t.n.said = n.said + 1 /\ t.n.addr = n.addr
           /\ NodeFrames(t.n) = NodeFrames(n) \cup {f}
           /\ QFrames(t.out) = QFrames(out) \cup {f}
<1> DEFINE a == AfterSeal(n)
           b == [a EXCEPT !.said = @ + 1]
           p == [frame |-> f, busy |-> TRUE]
           q == Append(n.pend, p)
           m == [b EXCEPT !.pend = q]
<1>1. n \in CtlNode /\ n.seal \in Nat /\ n.said \in Nat /\ n.pend \in Seq(CtlEntry)
  BY DEF NodeOk, CtlNode
<1>2. f \in CtlFrame /\ f.what = "notice" /\ f.val = n.said
  BY <1>1 DEF SealedFrame, CtlFrame
<1>3. /\ a \in CtlNode /\ a.pend = n.pend /\ a.held = n.held /\ a.said = n.said
      /\ a.addr = n.addr /\ a.waiting = n.waiting /\ a.delay = n.delay
  BY <1>1, AfterSealKeeps
<1> HIDE DEF a
<1>4. /\ b \in CtlNode /\ b.pend = n.pend /\ b.held = n.held /\ b.said = n.said + 1
      /\ b.addr = n.addr /\ b.waiting = n.waiting /\ b.delay = n.delay
  <2> DEFINE k == a.said + 1
  <2>1. k \in Nat /\ k = n.said + 1
    BY <1>1, <1>3
  <2> HIDE DEF k
  <2>2. b = [a EXCEPT !.said = k]
    BY DEF k
  <2> HIDE DEF b
  <2>3. b \in CtlNode
    BY <2>1, <2>2, <1>3 DEF CtlNode
  <2>4. /\ b.pend = a.pend /\ b.held = a.held /\ b.said = k
        /\ b.addr = a.addr /\ b.waiting = a.waiting /\ b.delay = a.delay
    BY <2>2, <1>3 DEF CtlNode
  <2> QED BY <1>3, <2>1, <2>3, <2>4
<1>5. p \in CtlEntry /\ p.frame = f
  BY <1>2 DEF CtlEntry
<1>6. t = [n |-> [b EXCEPT !.pend = Append(@, p)], out |-> Append(out, Send(f, "pending"))]
  BY DEF QueuePending, a
<1> HIDE DEF b, p
<1>7. q \in Seq(CtlEntry) /\ QFrames(q) = QFrames(n.pend) \cup {f}
  BY <1>1, <1>5, QueueGrows
<1>8. \A i, j \in DOMAIN q : i # j => q[i].frame # q[j].frame
  <2>1. /\ DOMAIN q = 1 .. Len(n.pend) + 1 /\ DOMAIN n.pend = 1 .. Len(n.pend) /\ Len(n.pend) \in Nat
        /\ \A i \in 1 .. Len(n.pend) : q[i] = n.pend[i]
        /\ q[Len(n.pend) + 1] = p
    BY <1>1, <1>5
  <2>2. \A i, j \in DOMAIN n.pend : i # j => n.pend[i].frame # n.pend[j].frame
    BY DEF NodeOk
  <2>3. \A i \in DOMAIN n.pend : n.pend[i].frame # f
    <3> TAKE i \in DOMAIN n.pend
    <3>1. n.pend[i].frame.val < n.said
      BY DEF NodeOk, QFrames
    <3> QED BY <3>1, <1>1, <1>2
  <2> HIDE DEF q
  <2> SUFFICES ASSUME NEW i \in DOMAIN q, NEW j \in DOMAIN q, i # j
               PROVE  q[i].frame # q[j].frame
    OBVIOUS
  <2>4. CASE i \in DOMAIN n.pend /\ j \in DOMAIN n.pend
    BY <2>1, <2>2, <2>4
  <2>5. CASE i \notin DOMAIN n.pend
    <3>0. i = Len(n.pend) + 1
      BY <2>1, <2>5
    <3>1. i = Len(n.pend) + 1 /\ j \in DOMAIN n.pend
      BY <2>1, <3>0
    <3> QED BY <3>1, <2>1, <2>3, <1>5
  <2>6. CASE j \notin DOMAIN n.pend
    <3>0. j = Len(n.pend) + 1
      BY <2>1, <2>6
    <3>1. j = Len(n.pend) + 1 /\ i \in DOMAIN n.pend
      BY <2>1, <3>0
    <3> QED BY <3>1, <2>1, <2>3, <1>5
  <2> QED BY <2>4, <2>5, <2>6
<1>9. t.n = m /\ t.out = Append(out, Send(f, "pending"))
  <2>1. Append(b.pend, p) = q
    BY <1>4
  <2> DEFINE c == [b EXCEPT !.pend = Append(@, p)]
             o == Append(out, Send(f, "pending"))
  <2>2. c = m
    BY <2>1
  <2>3. t = [n |-> c, out |-> o]
    BY <1>6
  <2> HIDE DEF c, o
  <2>4. t.n = c /\ t.out = o
    BY <2>3
  <2> QED BY <2>2, <2>4 DEF o
<1> HIDE DEF q
<1>10. m \in CtlNode
  BY <1>4, <1>7 DEF CtlNode
<1>11. /\ m.pend = q /\ m.held = n.held /\ m.said = n.said + 1
       /\ m.addr = n.addr /\ m.waiting = n.waiting /\ m.delay = n.delay
  BY <1>4 DEF CtlNode
<1> HIDE DEF m
<1>12. \A g \in QFrames(q) : g.val < n.said + 1
  <2>1. \A g \in QFrames(n.pend) : g.val < n.said
    BY DEF NodeOk
  <2>2. \A g \in QFrames(n.pend) : g \in CtlFrame
    <3> SUFFICES ASSUME NEW i \in DOMAIN n.pend PROVE n.pend[i].frame \in CtlFrame
      BY DEF QFrames
    <3>1. n.pend[i] \in CtlEntry
      BY <1>1
    <3> HIDE DEF CtlFrame
    <3> QED BY <3>1 DEF CtlEntry
  <2>3. \A g \in CtlFrame : g.val \in Nat
    BY DEF CtlFrame
  <2> QED BY <2>1, <2>2, <2>3, <1>1, <1>2, <1>7
<1>13. NodeOk(m)
  BY <1>8, <1>10, <1>11, <1>12 DEF NodeOk
<1>14. Send(f, "pending") \in CtlSend /\ Send(f, "pending").frame = f
  BY <1>2 DEF Send, CtlSend, CtlDone
<1>15. t.out \in Seq(CtlSend) /\ QFrames(t.out) = QFrames(out) \cup {f}
  <2> DEFINE x == Send(f, "pending")
  <2>1. x \in CtlSend /\ x.frame = f /\ t.out = Append(out, x)
    BY <1>9, <1>14
  <2> HIDE DEF x
  <2>2. QFrames(Append(out, x)) = QFrames(out) \cup {x.frame}
    BY <2>1, QueueGrows
  <2>3. t.out \in Seq(CtlSend)
    <3>1. \A S, w, y : w \in Seq(S) /\ y \in S => Append(w, y) \in Seq(S)
      OBVIOUS
    <3>2. out \in Seq(CtlSend)
      OBVIOUS
    <3> QED BY ONLY <2>1, <3>1, <3>2
  <2> QED BY <2>1, <2>2, <2>3
<1>16. t = [n |-> m, out |-> t.out]
  BY <1>6, <1>9
<1>17. t \in CtlState
  BY <1>10, <1>15, <1>16 DEF CtlState
<1>18. NodeFrames(m) = NodeFrames(n) \cup {f}
  BY <1>7, <1>11 DEF NodeFrames
<1> QED BY <1>2, <1>9, <1>11, <1>13, <1>15, <1>17, <1>18 DEF StateOk

\* A one-off frame is sent or held.
LEMMA DeliverKeeps ==
    ASSUME NEW s, StateOk(s), NEW f \in CtlFrame, f.what # "notice", f.what # "address"
    PROVE  StateOk(Deliver(s, f)) /\ Follows(s, Deliver(s, f))
<1> DEFINE p == [frame |-> f, busy |-> FALSE]
           q == Append(s.n.held, p)
           m == [s.n EXCEPT !.held = q]
           t == Deliver(s, f)
<1>1. s.n \in CtlNode /\ s.out \in Seq(CtlSend) /\ NodeOk(s.n) /\ s \in CtlState
      /\ s.n.held \in Seq(CtlEntry)
  BY DEF StateOk, CtlState, CtlNode
<1>2. t = [n |-> m, out |-> s.out] \/ t = [n |-> s.n, out |-> Append(s.out, Send(f, "nothing"))]
  <2>1. t = [s EXCEPT !.n.held = Append(@, p)] \/ t = [s EXCEPT !.out = Append(@, Send(f, "nothing"))]
    BY DEF Deliver
  <2> HIDE DEF p, t
  <2> QED BY <2>1, <1>1 DEF CtlState
<1>3. p \in CtlEntry /\ p.frame = f
  BY DEF CtlEntry
<1> HIDE DEF p, t
<1>4. q \in Seq(CtlEntry) /\ QFrames(q) = QFrames(s.n.held) \cup {f}
  BY <1>1, <1>3, QueueGrows
<1> HIDE DEF q
<1>5. Keeps(s.n, m, {f})
  BY <1>1, <1>4, HeldChanges
<1> HIDE DEF m
<1>6. "nothing" \in CtlDone
  BY DEF CtlDone
<1>7. CASE t = [n |-> s.n, out |-> Append(s.out, Send(f, "nothing"))]
  <2> HIDE DEF CtlFrame
  <2> QED BY <1>1, <1>6, <1>7, OneMoreSend DEF t
<1>8. CASE t = [n |-> m, out |-> s.out]
  <2>1. t.n = m /\ t.out = s.out
    BY <1>8
  <2>2. NodeOk(m) /\ m \in CtlNode
    BY <1>5 DEF Keeps, NodeOk
  <2>3. StateOk(t)
    BY <1>1, <1>8, <2>2 DEF StateOk, CtlState
  <2>4. Follows(s, t)
    BY <1>5, <2>1 DEF Keeps, Follows
  <2> QED BY <2>3, <2>4 DEF t
<1> QED BY <1>2, <1>7, <1>8

-----------------------------------------------------------------------------
(* Control frames: the invariant                                           *)

\* The contact's record of us, and what it sends back.
CtlPeer ==
    [opened : SUBSET Nat, notes : Nat, shown : [OneOffs -> Nat], addr : Nat, key : Nat,
     warned : BOOLEAN, old : BOOLEAN]
CtlBack == [what : {"key", "version"}, val : Nat, via : {"direct", "relay"}]

\* The elements of a sequence.
Elements(q) == {q[i] : i \in DOMAIN q}

\* Every frame that has been sealed and may still be read.
Underway ==
    NodeFrames(cnode) \cup NodeFrames(cdisk) \cup QFrames(cout) \cup QFrames(cround.todo)
    \cup QFrames(cround.done) \cup Elements(cdirect) \cup Elements(crelay)

\* The types, and what was saved: at rest, and with every capture noted.
CtlTypes ==
    /\ ccase \in CtlCases
    /\ NodeOk(cnode) /\ NodeOk(cdisk) /\ ~cdisk.waiting /\ cdisk.said = cnode.said
    /\ cout \in Seq(CtlSend) /\ cround \in [todo : Seq(CtlSend), done : Seq(CtlOutcome)]
    /\ cdirect \in Seq(CtlFrame) /\ crelay \in Seq(CtlFrame)
    /\ cpeer \in CtlPeer /\ cback \in Seq(CtlBack) /\ cauth \in Nat

\* Every address that is underway or was taken over is one our onion had.
AddressesOurs ==
    /\ \A f \in Underway : f.what = "address" => f.val \in FirstAddress .. cnode.addr
    /\ {cpeer.key, cauth} \subseteq FirstAddress .. cnode.addr
    /\ \A b \in Elements(cback) : b.what = "key" => b.val \in FirstAddress .. cnode.addr

\* The notices that can still open and those the contact noted are captures we noted.
Owed(N) ==
    /\ \A f \in Underway : f.what = "notice" /\ f.key \notin cpeer.opened => f \in N
    /\ cpeer.notes + Cardinality(N) <= cnode.said
NoticesOwed == \E N \in SUBSET CtlFrame : IsFiniteSet(N) /\ Owed(N)

\* The inductive invariant of the control frames.
CtlInv == CtlTypes /\ AddressesOurs /\ NoticesOwed

\* What a step adds to the frames underway is no notice and names an address of ours.
NewFrames ==
    \A f \in Underway' : \/ f \in Underway
                         \/ /\ f \in CtlFrame /\ f.what # "notice"
                            /\ f.what = "address" => f.val \in FirstAddress .. cnode'.addr

\* Every frame underway is a frame.
LEMMA FramesTyped ==
    ASSUME CtlTypes
    PROVE  \A f \in Underway : f \in CtlFrame
<1>1. \A q \in Seq(CtlEntry) : QFrames(q) \subseteq CtlFrame
  <2> SUFFICES ASSUME NEW q \in Seq(CtlEntry), NEW i \in DOMAIN q PROVE q[i].frame \in CtlFrame
    BY DEF QFrames
  <2>1. q[i] \in CtlEntry
    OBVIOUS
  <2> QED BY <2>1 DEF CtlEntry
<1>2. \A q \in Seq(CtlSend) : QFrames(q) \subseteq CtlFrame
  <2> SUFFICES ASSUME NEW q \in Seq(CtlSend), NEW i \in DOMAIN q PROVE q[i].frame \in CtlFrame
    BY DEF QFrames
  <2>1. q[i] \in CtlSend
    OBVIOUS
  <2> QED BY <2>1 DEF CtlSend
<1>3. \A q \in Seq(CtlOutcome) : QFrames(q) \subseteq CtlFrame
  <2> SUFFICES ASSUME NEW q \in Seq(CtlOutcome), NEW i \in DOMAIN q PROVE q[i].frame \in CtlFrame
    BY DEF QFrames
  <2>1. q[i] \in CtlOutcome
    OBVIOUS
  <2> QED BY <2>1 DEF CtlOutcome
<1>4. \A q \in Seq(CtlFrame) : Elements(q) \subseteq CtlFrame
  BY DEF Elements
<1>5. /\ cnode.pend \in Seq(CtlEntry) /\ cnode.held \in Seq(CtlEntry)
      /\ cdisk.pend \in Seq(CtlEntry) /\ cdisk.held \in Seq(CtlEntry)
  BY DEF CtlTypes, NodeOk, CtlNode
<1>6. NodeFrames(cnode) \subseteq CtlFrame /\ NodeFrames(cdisk) \subseteq CtlFrame
  BY <1>1, <1>5 DEF NodeFrames
<1>7. /\ cround.todo \in Seq(CtlSend) /\ cround.done \in Seq(CtlOutcome) /\ cout \in Seq(CtlSend)
      /\ cdirect \in Seq(CtlFrame) /\ crelay \in Seq(CtlFrame)
  BY DEF CtlTypes
<1>8. QFrames(cout) \subseteq CtlFrame /\ QFrames(cround.todo) \subseteq CtlFrame
  BY <1>2, <1>7
<1>9. QFrames(cround.done) \subseteq CtlFrame
  BY <1>3, <1>7
<1>10. Elements(cdirect) \subseteq CtlFrame /\ Elements(crelay) \subseteq CtlFrame
  BY <1>4, <1>7
<1> QED BY <1>6, <1>8, <1>9, <1>10 DEF Underway

\* A step that says nothing and opens nothing owes no more than before.
LEMMA NoticesFlow ==
    ASSUME NoticesOwed, NewFrames, cnode'.said = cnode.said, cpeer'.notes = cpeer.notes,
           cpeer.opened \subseteq cpeer'.opened
    PROVE  NoticesOwed'
<1>1. PICK N \in SUBSET CtlFrame : IsFiniteSet(N) /\ Owed(N)
  BY DEF NoticesOwed
<1>2. \A f \in Underway' : f.what = "notice" /\ f.key \notin cpeer'.opened => f \in N
  <2> SUFFICES ASSUME NEW f \in Underway', f.what = "notice", f.key \notin cpeer'.opened PROVE f \in N
    OBVIOUS
  <2>1. f \in Underway
    BY DEF NewFrames
  <2>2. f.key \notin cpeer.opened
    OBVIOUS
  <2> QED BY <1>1, <2>1, <2>2 DEF Owed
<1>3. cpeer'.notes + Cardinality(N) <= cnode'.said
  BY <1>1 DEF Owed
<1>4. Owed(N)'
  BY <1>2, <1>3 DEF Owed
<1> QED BY <1>1, <1>4 DEF NoticesOwed

\* A step that reads nothing new of an address keeps every address one of ours.
LEMMA AddressesFlow ==
    ASSUME AddressesOurs, NewFrames, cnode.addr \in Nat, cnode'.addr \in Nat,
           cnode.addr <= cnode'.addr, cpeer' = cpeer, cauth' = cauth, cback' = cback
    PROVE  AddressesOurs'
<1>1. \A v : v \in FirstAddress .. cnode.addr => v \in FirstAddress .. cnode'.addr
  BY DEF FirstAddress
<1>2. \A f \in Underway' : f.what = "address" => f.val \in FirstAddress .. cnode'.addr
  <2> TAKE f \in Underway'
  <2>1. CASE f \in Underway
    BY <2>1, <1>1 DEF AddressesOurs
  <2>2. CASE f \notin Underway
    BY <2>2 DEF NewFrames
  <2> QED BY <2>1, <2>2
<1>3. {cpeer'.key, cauth'} \subseteq FirstAddress .. cnode'.addr
  BY <1>1 DEF AddressesOurs
<1>4. \A b \in Elements(cback') : b.what = "key" => b.val \in FirstAddress .. cnode'.addr
  BY <1>1 DEF AddressesOurs
<1> QED BY <1>2, <1>3, <1>4 DEF AddressesOurs

\* A step of the node alone: what it becomes follows on what it was, or on what
\* was saved.
LEMMA NodeSteps ==
    ASSUME CtlInv, CtlTypes', UnchangedNet,
           cnode'.said = cnode.said, cnode.addr <= cnode'.addr,
           \A f \in NodeFrames(cnode') \cup NodeFrames(cdisk') \cup QFrames(cout')
                    \cup QFrames(cround'.todo) \cup QFrames(cround'.done) :
              \/ f \in NodeFrames(cnode) \cup NodeFrames(cdisk) \cup QFrames(cout)
                       \cup QFrames(cround.todo) \cup QFrames(cround.done)
              \/ /\ f \in CtlFrame /\ f.what # "notice"
                 /\ f.what = "address" => f.val = cnode'.addr
    PROVE  CtlInv'
<1>1. cnode.addr \in FirstAddress .. cnode.addr /\ cnode.addr \in Nat /\ cnode'.addr \in Nat
  <2>1. cnode.addr \in Nat /\ cnode'.addr \in Nat
    BY DEF CtlInv, CtlTypes, NodeOk, CtlNode
  <2>2. cauth \in FirstAddress .. cnode.addr
    BY DEF CtlInv, AddressesOurs
  <2> QED BY <2>1, <2>2 DEF FirstAddress
<1>2. cnode'.addr \in FirstAddress .. cnode'.addr
  BY <1>1 DEF FirstAddress
<1>3. NewFrames
  BY <1>2 DEF NewFrames, Underway, UnchangedNet
<1>4. AddressesOurs'
  BY <1>1, <1>3, AddressesFlow DEF CtlInv, UnchangedNet
<1>5. NoticesOwed'
  BY <1>3, NoticesFlow DEF CtlInv, UnchangedNet
<1> QED BY <1>4, <1>5 DEF CtlInv

\* The node and the outbox, taken as an operation's argument.
LEMMA NowOk ==
    ASSUME CtlTypes
    PROVE  StateOk(Now) /\ Now.n = cnode /\ Now.out = cout
BY DEF CtlTypes, StateOk, CtlState, Now, NodeOk

\* The poller's tick keeps the invariant.
LEMMA TickStep ==
    ASSUME CtlInv, Tick
    PROVE  CtlInv'
<1> DEFINE a == ReannounceAddress(Now)
           b == UpgradeNotice(a)
           c == FlushHeld(b, FALSE)
           d == FlushPending(c)
<1>1. StateOk(Now) /\ Now.n = cnode /\ Now.out = cout
  BY NowOk DEF CtlInv
<1>2. cnode' = d.n /\ cout' = d.out
  BY DEF Tick, Becomes
<1>3. StateOk(a) /\ Follows(Now, a)
  BY <1>1, ReannounceKeeps
<1> HIDE DEF a
<1>4. StateOk(b) /\ Follows(a, b)
  BY <1>3, UpgradeKeeps
<1> HIDE DEF b
<1>5. StateOk(c) /\ Follows(b, c)
  BY <1>4, FlushHeldKeeps
<1> HIDE DEF c
<1>6. StateOk(d) /\ Follows(c, d)
  BY <1>5, FlushPendingKeeps
<1> HIDE DEF d
<1>7. Follows(Now, d)
  BY <1>3, <1>4, <1>5, <1>6, FollowsOn
<1>8. cnode'.said = cnode.said /\ cnode'.addr = cnode.addr
  BY <1>1, <1>2, <1>7 DEF Follows
<1>9. UNCHANGED <<ccase, cdisk, cround>> /\ UnchangedNet
  BY DEF Tick
<1>10. CtlTypes'
  <2>1. NodeOk(cnode') /\ cout' \in Seq(CtlSend)
    BY <1>2, <1>6 DEF StateOk, CtlState
  <2> QED BY <2>1, <1>8, <1>9 DEF CtlInv, CtlTypes, UnchangedNet
<1>11. cnode.addr \in Nat
  BY DEF CtlInv, CtlTypes, NodeOk, CtlNode
<1>12. \A f \in NodeFrames(cnode') \cup QFrames(cout') :
          \/ f \in NodeFrames(cnode) \cup QFrames(cout)
          \/ f \in CtlFrame /\ f.what # "notice" /\ (f.what = "address" => f.val = cnode'.addr)
  BY <1>1, <1>2, <1>7, <1>8 DEF Follows
<1> HIDE DEF CtlInv
<1> QED BY <1>8, <1>9, <1>10, <1>11, <1>12, NodeSteps

\* A save of what the background changed keeps it.
LEMMA SaveStep ==
    ASSUME CtlInv, SaveLater
    PROVE  CtlInv'
<1>1. /\ NodeOk(Saved(cnode)) /\ ~Saved(cnode).waiting /\ Saved(cnode).said = cnode.said
      /\ NodeFrames(Saved(cnode)) = NodeFrames(cnode)
  BY SavedKeeps DEF CtlInv, CtlTypes
<1>2. cdisk' = Saved(cnode) /\ UNCHANGED <<ccase, cnode, cout, cround>> /\ UnchangedNet
  BY DEF SaveLater
<1>3. CtlTypes'
  BY <1>1, <1>2 DEF CtlInv, CtlTypes, UnchangedNet
<1>4. cnode.addr \in Nat
  BY DEF CtlInv, CtlTypes, NodeOk, CtlNode
<1> HIDE DEF CtlInv
<1> QED BY <1>1, <1>2, <1>3, <1>4, NodeSteps

\* The end of a backoff keeps it.
LEMMA BackoffStep ==
    ASSUME CtlInv, BackoffEnds
    PROVE  CtlInv'
<1> DEFINE m == [cnode EXCEPT !.waiting = FALSE]
<1>1. cnode \in CtlNode /\ NodeOk(cnode) /\ cnode.addr \in Nat
  BY DEF CtlInv, CtlTypes, NodeOk, CtlNode
<1>2. m \in CtlNode
  BY <1>1 DEF CtlNode
<1>3. /\ m.pend = cnode.pend /\ m.held = cnode.held /\ m.said = cnode.said /\ m.addr = cnode.addr
      /\ m.waiting = FALSE
  BY <1>1 DEF CtlNode
<1>4. cnode' = m /\ UNCHANGED <<ccase, cdisk, cout, cround>> /\ UnchangedNet
  BY DEF BackoffEnds
<1> HIDE DEF m
<1>5. NodeOk(m) /\ NodeFrames(m) = NodeFrames(cnode)
  BY <1>1, <1>2, <1>3 DEF NodeOk, NodeFrames
<1>6. CtlTypes'
  BY <1>3, <1>4, <1>5 DEF CtlInv, CtlTypes, UnchangedNet
<1> HIDE DEF CtlInv
<1> QED BY <1>1, <1>3, <1>4, <1>5, <1>6, NodeSteps

\* Taking the outbox for a round keeps it.
LEMMA TakeRoundStep ==
    ASSUME CtlInv, TakeControlRound
    PROVE  CtlInv'
<1>1. /\ cround' = [todo |-> cout, done |-> <<>>] /\ cout' = <<>>
      /\ UNCHANGED <<ccase, cnode, cdisk>> /\ UnchangedNet
  BY DEF TakeControlRound
<1>2. QFrames(<<>>) = {}
  BY DEF QFrames
<1>3. cround'.todo = cout /\ cround'.done = <<>>
  BY <1>1
<1>4. CtlTypes'
  <2>1. cround' \in [todo : Seq(CtlSend), done : Seq(CtlOutcome)] /\ cout' \in Seq(CtlSend)
    BY <1>1 DEF CtlInv, CtlTypes
  <2> QED BY <2>1, <1>1 DEF CtlInv, CtlTypes, UnchangedNet
<1>5. cnode.addr \in Nat
  BY DEF CtlInv, CtlTypes, NodeOk, CtlNode
<1> HIDE DEF CtlInv
<1> QED BY <1>1, <1>2, <1>3, <1>4, <1>5, NodeSteps

\* Applying a round's outcomes keeps it.
LEMMA ApplyStep ==
    ASSUME CtlInv, ApplyRoundDone
    PROVE  CtlInv'
<1> DEFINE m == FoldLeft(ApplyOutbound, cnode, cround.done)
<1>1. NodeOk(cnode) /\ cround.done \in Seq(CtlOutcome) /\ cnode.addr \in Nat
  BY DEF CtlInv, CtlTypes, NodeOk, CtlNode
<1>2. Keeps(cnode, m, QFrames(cround.done))
  BY <1>1, RoundKeeps
<1>3. cnode' = m /\ cround' = CtlNoRound /\ UNCHANGED <<ccase, cdisk, cout>> /\ UnchangedNet
  BY DEF ApplyRoundDone
<1> HIDE DEF m
<1>4. cround' \in [todo : Seq(CtlSend), done : Seq(CtlOutcome)] /\ cround'.todo = <<>> /\ cround'.done = <<>>
  BY <1>3 DEF CtlNoRound
<1>5. QFrames(<<>>) = {}
  BY DEF QFrames
<1>6. CtlTypes'
  BY <1>2, <1>3, <1>4 DEF CtlInv, CtlTypes, UnchangedNet, Keeps
<1>7. NodeFrames(cnode') \subseteq NodeFrames(cnode) \cup QFrames(cround.done)
      /\ cnode'.said = cnode.said /\ cnode'.addr = cnode.addr
  BY <1>2, <1>3 DEF Keeps
<1> HIDE DEF CtlInv
<1> QED BY <1>1, <1>3, <1>4, <1>5, <1>6, <1>7, NodeSteps

\* A kill and a launch, with a new onion or the same, keep it.
LEMMA RestartStep ==
    ASSUME CtlInv, NEW moved \in BOOLEAN, Restart(moved)
    PROVE  CtlInv'
<1> DEFINE addr == IF moved THEN cnode.addr + 1 ELSE cnode.addr
           m == [cdisk EXCEPT !.addr = addr]
           s == [n |-> m, out |-> <<>>]
           t == AnnounceIfChanged(s)
<1>1. NodeOk(cdisk) /\ cdisk \in CtlNode /\ cnode.addr \in Nat /\ cdisk.said = cnode.said
  BY DEF CtlInv, CtlTypes, NodeOk, CtlNode
<1>2. cnode' = t.n /\ cout' = t.out /\ cround' = CtlNoRound /\ UNCHANGED <<ccase, cdisk>> /\ UnchangedNet
  BY DEF Restart, Becomes
<1>3. addr \in Nat /\ cnode.addr <= addr
  BY <1>1
<1> HIDE DEF addr
<1>4. m \in CtlNode
  BY <1>1, <1>3 DEF CtlNode
<1>5. /\ m.pend = cdisk.pend /\ m.held = cdisk.held /\ m.said = cdisk.said /\ m.addr = addr
      /\ m.waiting = cdisk.waiting /\ m.delay = cdisk.delay
  BY <1>1 DEF CtlNode
<1> HIDE DEF m
<1>6. NodeOk(m) /\ NodeFrames(m) = NodeFrames(cdisk)
  BY <1>1, <1>4, <1>5 DEF NodeOk, NodeFrames
<1>7. StateOk(s) /\ s.n = m /\ s.out = <<>>
  BY <1>4, <1>6 DEF StateOk, CtlState
<1> HIDE DEF s
<1>8. StateOk(t) /\ Follows(s, t)
  BY <1>7, AnnounceKeeps
<1> HIDE DEF t
<1>9. cround' \in [todo : Seq(CtlSend), done : Seq(CtlOutcome)] /\ cround'.todo = <<>> /\ cround'.done = <<>>
  BY <1>2 DEF CtlNoRound
<1>10. QFrames(<<>>) = {}
  BY DEF QFrames
<1>11. cnode'.said = cnode.said /\ cnode'.addr = addr
  BY <1>1, <1>2, <1>5, <1>7, <1>8 DEF Follows
<1>12. CtlTypes'
  <2>1. NodeOk(cnode') /\ cout' \in Seq(CtlSend)
    BY <1>2, <1>8 DEF StateOk, CtlState
  <2> QED BY <2>1, <1>1, <1>2, <1>9, <1>11 DEF CtlInv, CtlTypes, UnchangedNet
<1>13. \A f \in NodeFrames(cnode') \cup QFrames(cout') :
          \/ f \in NodeFrames(cdisk)
          \/ f \in CtlFrame /\ f.what # "notice" /\ (f.what = "address" => f.val = cnode'.addr)
  BY <1>2, <1>5, <1>6, <1>7, <1>8, <1>10, <1>11 DEF Follows
<1> HIDE DEF CtlInv
<1> QED BY <1>2, <1>3, <1>9, <1>10, <1>11, <1>12, <1>13, NodeSteps

\* A setting told once keeps it.
LEMMA SetStep ==
    ASSUME CtlInv, NEW k \in OneOffs, SetOneOff(k)
    PROVE  CtlInv'
<1> DEFINE v == cnode.my[k] + 1
           a == AfterSeal(cnode)
           m == [a EXCEPT !.my[k] = v]
           f == SealedFrame(cnode, k, v)
           s == [n |-> m, out |-> cout]
           t == Deliver(s, f)
<1>1. /\ NodeOk(cnode) /\ cnode \in CtlNode /\ cnode.addr \in Nat /\ cnode.seal \in Nat
      /\ cnode.my \in [OneOffs -> Nat] /\ cout \in Seq(CtlSend)
  BY DEF CtlInv, CtlTypes, NodeOk, CtlNode
<1>2. [Now EXCEPT !.n = m] = s
  BY DEF Now
<1>3. /\ cnode' = t.n /\ cout' = t.out /\ cdisk' = Saved(t.n) /\ UNCHANGED <<ccase, cround>> /\ UnchangedNet
  BY <1>2 DEF SetOneOff, Becomes
<1>4. v \in Nat
  BY <1>1
<1>5. f \in CtlFrame /\ f.what # "notice" /\ f.what # "address"
  BY <1>1, <1>4 DEF SealedFrame, CtlFrame, OneOffs
<1>6. /\ a \in CtlNode /\ a.pend = cnode.pend /\ a.held = cnode.held /\ a.said = cnode.said
      /\ a.addr = cnode.addr /\ a.waiting = cnode.waiting /\ a.delay = cnode.delay
  BY <1>1, AfterSealKeeps
<1> HIDE DEF a, v, f
<1>7. m \in CtlNode
  <2>1. [a.my EXCEPT ![k] = v] \in [OneOffs -> Nat]
    BY <1>4, <1>6 DEF CtlNode
  <2> QED BY <2>1, <1>6 DEF CtlNode
<1>8. /\ m.pend = cnode.pend /\ m.held = cnode.held /\ m.said = cnode.said
      /\ m.addr = cnode.addr /\ m.waiting = cnode.waiting /\ m.delay = cnode.delay
  BY <1>6 DEF CtlNode
<1> HIDE DEF m
<1>9. StateOk(s) /\ s.n = m /\ s.out = cout
  BY <1>1, <1>7, <1>8 DEF StateOk, CtlState, NodeOk
<1> HIDE DEF s
<1>10. StateOk(t) /\ Follows(s, t)
  BY <1>5, <1>9, DeliverKeeps
<1> HIDE DEF t
<1>11. NodeOk(t.n) /\ t.out \in Seq(CtlSend)
  BY <1>10 DEF StateOk, CtlState
<1>12. /\ NodeOk(Saved(t.n)) /\ ~Saved(t.n).waiting /\ Saved(t.n).said = t.n.said
       /\ NodeFrames(Saved(t.n)) = NodeFrames(t.n)
  BY <1>11, SavedKeeps
<1>13. t.n.said = cnode.said /\ t.n.addr = cnode.addr
  BY <1>8, <1>9, <1>10 DEF Follows
<1>14. CtlTypes'
  BY <1>3, <1>11, <1>12, <1>13 DEF CtlInv, CtlTypes, UnchangedNet
<1>15. \A g \in NodeFrames(t.n) \cup QFrames(t.out) :
          \/ g \in NodeFrames(cnode) \cup QFrames(cout)
          \/ g \in CtlFrame /\ g.what # "notice" /\ (g.what = "address" => g.val = cnode.addr)
  BY <1>8, <1>9, <1>10 DEF Follows, NodeFrames
<1> HIDE DEF CtlInv
<1> QED BY <1>1, <1>3, <1>12, <1>13, <1>14, <1>15, NodeSteps

\* A capture raises what may be noted and what was said by one each.
LEMMA CaptureStep ==
    ASSUME CtlInv, ReportCapture
    PROVE  CtlInv'
<1> DEFINE f == SealedFrame(cnode, "notice", cnode.said)
           t == QueuePending([n |-> [AfterSeal(cnode) EXCEPT !.said = @ + 1], out |-> cout], f)
<1>1. NodeOk(cnode) /\ cnode.addr \in Nat /\ cnode.said \in Nat /\ cout \in Seq(CtlSend)
      /\ cpeer.notes \in Nat
  BY DEF CtlInv, CtlTypes, NodeOk, CtlNode, CtlPeer
<1>2. [Now EXCEPT !.n = [AfterSeal(cnode) EXCEPT !.said = @ + 1]]
        = [n |-> [AfterSeal(cnode) EXCEPT !.said = @ + 1], out |-> cout]
  BY DEF Now
<1>3. /\ cnode' = t.n /\ cout' = t.out /\ cdisk' = Saved(t.n) /\ UNCHANGED <<ccase, cround>> /\ UnchangedNet
  BY <1>2 DEF ReportCapture, Becomes
<1>4. /\ StateOk(t) /\ f \in CtlFrame /\ f.what = "notice"
      /\ t.n.said = cnode.said + 1 /\ t.n.addr = cnode.addr
      /\ NodeFrames(t.n) = NodeFrames(cnode) \cup {f}
      /\ QFrames(t.out) = QFrames(cout) \cup {f}
  BY <1>1, NoticeQueued
<1> HIDE DEF t, f
<1>5. NodeOk(t.n) /\ t.out \in Seq(CtlSend)
  BY <1>4 DEF StateOk, CtlState
<1>6. /\ NodeOk(Saved(t.n)) /\ ~Saved(t.n).waiting /\ Saved(t.n).said = t.n.said
      /\ NodeFrames(Saved(t.n)) = NodeFrames(t.n)
  BY <1>5, SavedKeeps
<1>7. CtlTypes'
  BY <1>3, <1>5, <1>6 DEF CtlInv, CtlTypes, UnchangedNet
<1>8. \A g \in Underway' : g \in Underway \/ g = f
  BY <1>3, <1>4, <1>6 DEF Underway, UnchangedNet
<1>9. AddressesOurs'
  BY <1>3, <1>4, <1>8 DEF CtlInv, AddressesOurs, UnchangedNet
<1>10. NoticesOwed'
  <2>1. PICK N \in SUBSET CtlFrame : IsFiniteSet(N) /\ Owed(N)
    BY DEF CtlInv, NoticesOwed
  <2>0. PICK c : c = f
    OBVIOUS
  <2> DEFINE M == N \cup {c}
  <2>2. IsFiniteSet(M) /\ Cardinality(M) <= Cardinality(N) + 1 /\ Cardinality(N) \in Nat
        /\ Cardinality(M) \in Nat
    <3>1. /\ IsFiniteSet(M) /\ Cardinality(N) \in Nat /\ Cardinality(M) \in Nat
          /\ Cardinality(M) = IF c \in N THEN Cardinality(N) ELSE Cardinality(N) + 1
      BY <2>1, FS_AddElement, FS_CardinalityType
    <3> QED BY <3>1
  <2>3. M \in SUBSET CtlFrame
    BY <1>4, <2>0
  <2> HIDE DEF M
  <2>4. cpeer'.notes + Cardinality(M) <= cnode'.said
    <3>1. cpeer'.notes = cpeer.notes /\ cnode'.said = cnode.said + 1
      BY <1>3, <1>4 DEF UnchangedNet
    <3>2. cpeer.notes + Cardinality(N) <= cnode.said
      BY <2>1 DEF Owed
    <3> QED BY <3>1, <3>2, <2>2, <1>1
  <2>5. \A g \in Underway' : g.what = "notice" /\ g.key \notin cpeer'.opened => g \in M
    <3>1. cpeer' = cpeer
      BY <1>3 DEF UnchangedNet
    <3> QED BY <3>1, <2>0, <2>1, <1>8 DEF Owed, M
  <2>6. Owed(M)'
    BY <2>4, <2>5 DEF Owed
  <2> QED BY <2>2, <2>3, <2>6 DEF NoticesOwed
<1> QED BY <1>7, <1>9, <1>10 DEF CtlInv

\* The first of a queue and the rest.
LEMMA HeadAndTail ==
    ASSUME NEW S, NEW q \in Seq(S), q # <<>>
    PROVE  /\ Head(q) \in S /\ Tail(q) \in Seq(S) /\ Head(q) \in Elements(q)
           /\ Elements(Tail(q)) \subseteq Elements(q)
<1>1. /\ Len(q) \in Nat /\ Len(q) >= 1 /\ DOMAIN q = 1 .. Len(q) /\ Head(q) = q[1]
      /\ Tail(q) \in Seq(S) /\ DOMAIN Tail(q) = 1 .. Len(q) - 1
      /\ \A i \in 1 .. Len(q) - 1 : Tail(q)[i] = q[i + 1]
  OBVIOUS
<1>2. Head(q) \in S /\ Head(q) \in Elements(q)
  BY <1>1 DEF Elements
<1>3. Elements(Tail(q)) \subseteq Elements(q)
  <2> SUFFICES ASSUME NEW i \in DOMAIN Tail(q) PROVE Tail(q)[i] \in Elements(q)
    BY DEF Elements
  <2>1. i + 1 \in DOMAIN q /\ Tail(q)[i] = q[i + 1]
    BY <1>1
  <2> QED BY <2>1 DEF Elements
<1> QED BY <1>1, <1>2, <1>3

\* The elements of a sequence with one more.
LEMMA OneMoreElement ==
    ASSUME NEW S, NEW q \in Seq(S), NEW x \in S
    PROVE  Append(q, x) \in Seq(S) /\ Elements(Append(q, x)) = Elements(q) \cup {x}
<1> DEFINE r == Append(q, x)
<1>1. /\ DOMAIN r = 1 .. Len(q) + 1 /\ DOMAIN q = 1 .. Len(q) /\ Len(q) \in Nat
      /\ \A i \in 1 .. Len(q) : r[i] = q[i]
      /\ r[Len(q) + 1] = x /\ r \in Seq(S)
  OBVIOUS
<1> HIDE DEF r
<1>2. \A f \in Elements(r) : f \in Elements(q) \cup {x}
  <2> SUFFICES ASSUME NEW i \in DOMAIN r PROVE r[i] \in Elements(q) \cup {x}
    BY DEF Elements
  <2>1. i = Len(q) + 1 \/ i \in 1 .. Len(q)
    BY <1>1
  <2> QED BY <2>1, <1>1 DEF Elements
<1>3. \A f \in Elements(q) \cup {x} : f \in Elements(r)
  BY <1>1 DEF Elements
<1> QED BY <1>1, <1>2, <1>3 DEF r

\* One send of a round runs: its frame reaches the contact's device, the mailbox
\* or nobody, and its outcome is noted.
LEMMA RunStep ==
    ASSUME CtlInv, RunControlSend
    PROVE  CtlInv'
<1>1. /\ cround.todo \in Seq(CtlSend) /\ cround.done \in Seq(CtlOutcome) /\ cround.todo # <<>>
      /\ cdirect \in Seq(CtlFrame) /\ crelay \in Seq(CtlFrame) /\ cnode.addr \in Nat
  BY DEF CtlInv, CtlTypes, RunControlSend, NodeOk, CtlNode
<1>2. PICK got \in {"direct", "relay", "failed"} :
         /\ cround' = [todo |-> Tail(cround.todo),
                       done |-> Append(cround.done, [frame |-> Head(cround.todo).frame,
                                                     done |-> Head(cround.todo).done, got |-> got])]
         /\ cdirect' = IF got = "direct" THEN Append(cdirect, Head(cround.todo).frame) ELSE cdirect
         /\ crelay' = IF got = "relay" THEN Append(crelay, Head(cround.todo).frame) ELSE crelay
  BY DEF RunControlSend
<1>3. UNCHANGED <<ccase, cnode, cdisk, cout, cpeer, cback, cauth>>
  BY DEF RunControlSend
<1> DEFINE x == Head(cround.todo)
           o == [frame |-> x.frame, done |-> x.done, got |-> got]
<1>4. x \in CtlSend /\ Tail(cround.todo) \in Seq(CtlSend) /\ x \in Elements(cround.todo)
      /\ Elements(Tail(cround.todo)) \subseteq Elements(cround.todo)
  BY <1>1, HeadAndTail
<1>5. \A q : QFrames(q) = {y.frame : y \in Elements(q)}
  BY DEF QFrames, Elements
<1>6. x.frame \in QFrames(cround.todo) /\ QFrames(Tail(cround.todo)) \subseteq QFrames(cround.todo)
  <2> HIDE DEF x
  <2> QED BY <1>4, <1>5
<1>7. x.frame \in CtlFrame /\ x.done \in CtlDone
  BY <1>4 DEF CtlSend
<1>8. cround'.todo = Tail(cround.todo) /\ cround'.done = Append(cround.done, o)
      /\ cround' = [todo |-> Tail(cround.todo), done |-> Append(cround.done, o)]
  BY <1>2
<1> HIDE DEF x
<1>9. o \in CtlOutcome /\ o.frame = x.frame
  BY <1>7 DEF CtlOutcome
<1> HIDE DEF o
<1>10. Append(cround.done, o) \in Seq(CtlOutcome)
       /\ QFrames(Append(cround.done, o)) = QFrames(cround.done) \cup {x.frame}
  BY <1>1, <1>9, QueueGrows
<1>11. /\ cdirect' \in Seq(CtlFrame) /\ Elements(cdirect') \subseteq Elements(cdirect) \cup {x.frame}
       /\ crelay' \in Seq(CtlFrame) /\ Elements(crelay') \subseteq Elements(crelay) \cup {x.frame}
  <2> DEFINE g == x.frame
  <2>1. /\ Append(cdirect, g) \in Seq(CtlFrame) /\ Elements(Append(cdirect, g)) = Elements(cdirect) \cup {g}
        /\ Append(crelay, g) \in Seq(CtlFrame) /\ Elements(Append(crelay, g)) = Elements(crelay) \cup {g}
    <3> HIDE DEF CtlFrame
    <3> QED BY <1>1, <1>7, OneMoreElement
  <2>2. cdirect' \in {cdirect, Append(cdirect, g)} /\ crelay' \in {crelay, Append(crelay, g)}
    BY <1>2 DEF x
  <2> HIDE DEF g
  <2>3. /\ cdirect' \in Seq(CtlFrame) /\ Elements(cdirect') \subseteq Elements(cdirect) \cup {g}
        /\ crelay' \in Seq(CtlFrame) /\ Elements(crelay') \subseteq Elements(crelay) \cup {g}
    BY <1>1, <2>1, <2>2
  <2> QED BY <2>3 DEF g
<1>12. CtlTypes'
  <2>1. cround' \in [todo : Seq(CtlSend), done : Seq(CtlOutcome)]
    BY <1>4, <1>8, <1>10
  <2> QED BY <2>1, <1>3, <1>11 DEF CtlInv, CtlTypes
<1>13. \A f \in Underway' : f \in Underway
  <2>1. /\ QFrames(cround'.todo) \subseteq QFrames(cround.todo)
        /\ QFrames(cround'.done) \subseteq QFrames(cround.done) \cup {x.frame}
    BY <1>6, <1>8, <1>10
  <2>2. x.frame \in Underway
    BY <1>6 DEF Underway
  <2> QED BY <2>1, <2>2, <1>3, <1>11 DEF Underway
<1>14. NewFrames
  BY <1>13 DEF NewFrames
<1>15. AddressesOurs'
  BY <1>1, <1>3, <1>14, AddressesFlow DEF CtlInv
<1>16. NoticesOwed'
  BY <1>3, <1>14, NoticesFlow DEF CtlInv
<1> QED BY <1>12, <1>15, <1>16 DEF CtlInv

\* What the contact makes of a frame it opened.
LEMMA TakenFrame ==
    ASSUME NEW p \in CtlPeer, NEW f \in CtlFrame, NEW refused \in BOOLEAN
    PROVE  /\ Takes(p, f, refused) \in CtlPeer
           /\ Takes(p, f, refused).opened = p.opened \cup {f.key}
           /\ \/ Takes(p, f, refused).notes = p.notes
              \/ f.what = "notice" /\ Takes(p, f, refused).notes = p.notes + 1
           /\ \/ Takes(p, f, refused).key = p.key
              \/ f.what = "address" /\ Takes(p, f, refused).key = f.val
<1> DEFINE q == [p EXCEPT !.opened = @ \cup {f.key}]
           n1 == q.notes + 1
           sn == [q.shown EXCEPT !["name"] = f.val]
           sv == [q.shown EXCEPT !["verified"] = f.val]
           a == [q EXCEPT !.warned = TRUE]
           b == [q EXCEPT !.notes = n1]
           c == [q EXCEPT !.shown = sn]
           d == [q EXCEPT !.shown = sv]
           e == [q EXCEPT !.addr = f.val, !.key = f.val]
<1>1. f.key \in Nat /\ f.val \in Nat /\ p.opened \cup {f.key} \in SUBSET Nat /\ p.shown \in [OneOffs -> Nat]
      /\ p.notes \in Nat
  BY DEF CtlFrame, CtlPeer
<1>2. q \in CtlPeer /\ q.opened = p.opened \cup {f.key} /\ q.notes = p.notes /\ q.key = p.key
      /\ q.shown = p.shown
  BY <1>1 DEF CtlPeer
<1>3. /\ f.what = "upgrade" => Takes(p, f, refused) = a
      /\ f.what = "notice" => Takes(p, f, refused) \in {q, b}
      /\ f.what = "name" => Takes(p, f, refused) = c
      /\ f.what = "verified" => Takes(p, f, refused) \in {q, d}
      /\ f.what = "address" => Takes(p, f, refused) \in {q, e}
  <2> HIDE DEF q
  <2>1. [q EXCEPT !.shown["name"] = f.val] = c /\ [q EXCEPT !.shown["verified"] = f.val] = d
    OBVIOUS
  <2>2. [q EXCEPT !.notes = @ + 1] = b
    OBVIOUS
  <2> HIDE DEF a, b, c, d, e
  <2> QED BY <2>1, <2>2 DEF Takes, q, a, e
<1>4. f.what \in {"notice", "name", "verified", "address", "upgrade"}
  BY DEF CtlFrame
<1> HIDE DEF q
<1>5. n1 \in Nat /\ n1 = p.notes + 1 /\ sn \in [OneOffs -> Nat] /\ sv \in [OneOffs -> Nat]
  <2>1. \A g \in [OneOffs -> Nat], k, v \in Nat : [g EXCEPT ![k] = v] \in [OneOffs -> Nat]
    OBVIOUS
  <2>2. n1 \in Nat /\ n1 = p.notes + 1
    BY <1>1, <1>2
  <2>3. q.shown \in [OneOffs -> Nat]
    BY <1>1, <1>2
  <2>4. sn \in [OneOffs -> Nat] /\ sv \in [OneOffs -> Nat]
    BY <1>1, <2>1, <2>3
  <2> QED BY <2>2, <2>4
<1> HIDE DEF n1, sn, sv
<1>6. a \in CtlPeer /\ a.opened = q.opened /\ a.notes = q.notes /\ a.key = q.key
  BY <1>2 DEF CtlPeer
<1>7. b \in CtlPeer /\ b.opened = q.opened /\ b.notes = n1 /\ b.key = q.key
  BY <1>2, <1>5 DEF CtlPeer
<1>8. c \in CtlPeer /\ c.opened = q.opened /\ c.notes = q.notes /\ c.key = q.key
  BY <1>2, <1>5 DEF CtlPeer
<1>9. d \in CtlPeer /\ d.opened = q.opened /\ d.notes = q.notes /\ d.key = q.key
  BY <1>2, <1>5 DEF CtlPeer
<1>10. e \in CtlPeer /\ e.opened = q.opened /\ e.notes = q.notes /\ e.key = f.val
  BY <1>1, <1>2 DEF CtlPeer
<1> HIDE DEF a, b, c, d, e
<1> DEFINE r == Takes(p, f, refused)
<1>11. r \in {a, c, d, q} \/ (f.what = "notice" /\ r = b) \/ (f.what = "address" /\ r = e)
  BY <1>3, <1>4
<1> HIDE DEF r
<1>12. /\ r \in CtlPeer /\ r.opened = p.opened \cup {f.key}
       /\ r.notes = p.notes \/ (f.what = "notice" /\ r.notes = p.notes + 1)
       /\ r.key = p.key \/ (f.what = "address" /\ r.key = f.val)
  BY <1>2, <1>5, <1>6, <1>7, <1>8, <1>9, <1>10, <1>11
<1> QED BY <1>12 DEF r

\* The contact takes one frame of those underway: a notice is noted for one that
\* could still open, and a key it answers with is for an address of ours.
LEMMA PeerStep ==
    ASSUME CtlInv, NEW f \in Underway, f \in CtlFrame, PeerTakes(f),
           UNCHANGED <<ccase, cnode, cdisk, cout, cround, cauth>>,
           cdirect' \in Seq(CtlFrame), crelay' \in Seq(CtlFrame),
           \A g \in Underway' : g \in Underway
    PROVE  CtlInv'
<1>1. /\ cpeer \in CtlPeer /\ cback \in Seq(CtlBack) /\ cpeer.notes \in Nat /\ cnode.said \in Nat
      /\ cpeer.key \in FirstAddress .. cnode.addr /\ cnode.addr \in Nat
  BY DEF CtlInv, CtlTypes, CtlPeer, AddressesOurs, NodeOk, CtlNode
<1>2. CASE ~Reads(cpeer, f)
  <2>1. cpeer' = cpeer /\ cback' = cback
    BY <1>2 DEF PeerTakes
  <2>2. CtlTypes'
    BY <2>1 DEF CtlInv, CtlTypes
  <2>3. NewFrames
    BY DEF NewFrames
  <2>4. AddressesOurs'
    BY <1>1, <2>1, <2>3, AddressesFlow DEF CtlInv
  <2>5. NoticesOwed'
    BY <2>1, <2>3, NoticesFlow DEF CtlInv
  <2> QED BY <2>2, <2>4, <2>5 DEF CtlInv
<1>3. CASE Reads(cpeer, f)
  <2>1. PICK refused \in BOOLEAN :
           /\ cpeer' = Takes(cpeer, f, refused)
           /\ IF cpeer'.key # cpeer.key THEN AnswerWithKey(cpeer') /\ ~refused
              ELSE cback' = cback
    BY <1>3 DEF PeerTakes
  <2>2. /\ cpeer' \in CtlPeer /\ cpeer'.opened = cpeer.opened \cup {f.key}
        /\ cpeer'.notes = cpeer.notes \/ (f.what = "notice" /\ cpeer'.notes = cpeer.notes + 1)
        /\ cpeer'.key = cpeer.key \/ (f.what = "address" /\ cpeer'.key = f.val)
    BY <1>1, <2>1, TakenFrame
  <2>3. f.key \notin cpeer.opened
    BY <1>3 DEF Reads, Opens
  <2>4. cpeer'.key \in FirstAddress .. cnode.addr
    BY <1>1, <2>2 DEF CtlInv, AddressesOurs
  <2> DEFINE answer(via) == [what |-> "key", val |-> cpeer'.key, via |-> via]
  <2>5. cback' = cback \/ \E via \in {"direct", "relay"} : cback' = Append(cback, answer(via))
    <3>1. CASE cpeer'.key # cpeer.key
      <4>1. \E lost \in BOOLEAN :
               cback' = IF lost THEN cback
                        ELSE Append(cback, [what |-> "key", val |-> cpeer'.key,
                                            via |-> IF cauth = cpeer'.key THEN "direct" ELSE "relay"])
        BY <3>1, <2>1 DEF AnswerWithKey
      <4> QED BY <4>1
    <3>2. CASE cpeer'.key = cpeer.key
      BY <3>2, <2>1
    <3> QED BY <3>1, <3>2
  <2>6. cback' \in Seq(CtlBack)
        /\ \A b \in Elements(cback') : b.what = "key" => b.val \in FirstAddress .. cnode.addr
    <3>1. \A b \in Elements(cback) : b.what = "key" => b.val \in FirstAddress .. cnode.addr
      BY DEF CtlInv, AddressesOurs
    <3>2. CASE cback' = cback
      BY <3>1, <3>2, <1>1
    <3>3. ASSUME NEW via \in {"direct", "relay"}, cback' = Append(cback, answer(via))
          PROVE  cback' \in Seq(CtlBack)
                 /\ \A b \in Elements(cback') : b.what = "key" => b.val \in FirstAddress .. cnode.addr
      <4>1. answer(via) \in CtlBack /\ answer(via).val = cpeer'.key
        BY <2>2 DEF CtlBack, CtlPeer
      <4> HIDE DEF answer
      <4>2. Append(cback, answer(via)) \in Seq(CtlBack)
            /\ Elements(Append(cback, answer(via))) = Elements(cback) \cup {answer(via)}
        BY <1>1, <4>1, OneMoreElement
      <4> QED BY <3>1, <3>3, <4>1, <4>2, <2>4
    <3> HIDE DEF answer
    <3> QED BY <2>5, <3>2, <3>3
  <2>7. CtlTypes'
    BY <2>2, <2>6 DEF CtlInv, CtlTypes
  <2>8. AddressesOurs'
    <3>1. \A g \in Underway' : g.what = "address" => g.val \in FirstAddress .. cnode.addr
      BY DEF CtlInv, AddressesOurs
    <3>2. cauth \in FirstAddress .. cnode.addr
      BY DEF CtlInv, AddressesOurs
    <3> QED BY <2>4, <2>6, <3>1, <3>2 DEF AddressesOurs
  <2>9. NoticesOwed'
    <3>1. CASE cpeer'.notes = cpeer.notes
      <4>1. NewFrames /\ cpeer.opened \subseteq cpeer'.opened
        BY <2>2 DEF NewFrames
      <4> QED BY <3>1, <4>1, NoticesFlow DEF CtlInv
    <3>2. CASE f.what = "notice" /\ cpeer'.notes = cpeer.notes + 1
      <4>1. PICK N \in SUBSET CtlFrame : IsFiniteSet(N) /\ Owed(N)
        BY DEF CtlInv, NoticesOwed
      <4> DEFINE M == N \ {f}
      <4>2. f \in N
        BY <2>3, <3>2, <4>1 DEF Owed
      <4>3. IsFiniteSet(M) /\ Cardinality(M) = Cardinality(N) - 1 /\ Cardinality(N) \in Nat
            /\ Cardinality(M) \in Nat
        BY <4>1, <4>2, FS_RemoveElement, FS_CardinalityType
      <4>4. M \in SUBSET CtlFrame
        OBVIOUS
      <4>5. \A g \in Underway' : g.what = "notice" /\ g.key \notin cpeer'.opened => g \in M
        <5> SUFFICES ASSUME NEW g \in Underway', g.what = "notice", g.key \notin cpeer'.opened PROVE g \in M
          OBVIOUS
        <5>1. g \in Underway /\ g.key \notin cpeer.opened /\ g.key # f.key
          BY <2>2
        <5> QED BY <5>1, <4>1 DEF Owed
      <4> HIDE DEF M
      <4>6. cpeer'.notes + Cardinality(M) <= cnode'.said
        <5>1. cpeer.notes + Cardinality(N) <= cnode.said
          BY <4>1 DEF Owed
        <5> QED BY <5>1, <4>3, <3>2, <1>1
      <4>7. Owed(M)'
        BY <4>5, <4>6 DEF Owed
      <4> QED BY <4>3, <4>4, <4>7 DEF NoticesOwed
    <3> QED BY <2>2, <3>1, <3>2
  <2> QED BY <2>7, <2>8, <2>9 DEF CtlInv
<1> QED BY <1>2, <1>3

\* The contact reading a frame, from its device's connection or its mailbox, keeps it.
LEMMA ReadStep ==
    ASSUME CtlInv, PeerReadsDirect \/ PeerPolls
    PROVE  CtlInv'
<1>1. cdirect \in Seq(CtlFrame) /\ crelay \in Seq(CtlFrame)
  BY DEF CtlInv, CtlTypes
<1>2. CASE PeerReadsDirect
  <2> DEFINE f == Head(cdirect)
  <2>1. cdirect # <<>> /\ PeerTakes(f) /\ cdirect' = Tail(cdirect)
        /\ UNCHANGED <<ccase, cnode, cdisk, cout, cround, crelay, cauth>>
    BY <1>2 DEF PeerReadsDirect
  <2>2. f \in CtlFrame /\ Tail(cdirect) \in Seq(CtlFrame) /\ f \in Elements(cdirect)
        /\ Elements(Tail(cdirect)) \subseteq Elements(cdirect)
    <3> HIDE DEF CtlFrame
    <3> QED BY <1>1, <2>1, HeadAndTail
  <2>3. f \in Underway /\ \A g \in Underway' : g \in Underway
    BY <2>1, <2>2 DEF Underway
  <2> HIDE DEF f, CtlInv
  <2> QED BY <1>1, <2>1, <2>2, <2>3, PeerStep
<1>3. CASE PeerPolls
  <2> DEFINE f == Head(crelay)
  <2>1. crelay # <<>> /\ PeerTakes(f) /\ crelay' = Tail(crelay)
        /\ UNCHANGED <<ccase, cnode, cdisk, cout, cround, cdirect, cauth>>
    BY <1>3 DEF PeerPolls
  <2>2. f \in CtlFrame /\ Tail(crelay) \in Seq(CtlFrame) /\ f \in Elements(crelay)
        /\ Elements(Tail(crelay)) \subseteq Elements(crelay)
    <3> HIDE DEF CtlFrame
    <3> QED BY <1>1, <2>1, HeadAndTail
  <2>3. f \in Underway /\ \A g \in Underway' : g \in Underway
    BY <2>1, <2>2 DEF Underway
  <2> HIDE DEF f, CtlInv
  <2> QED BY <1>1, <2>1, <2>2, <2>3, PeerStep
<1> QED BY <1>2, <1>3

\* The contact's update of its app keeps it.
LEMMA UpdateStep ==
    ASSUME CtlInv, ContactUpdates
    PROVE  CtlInv'
<1> DEFINE b == [what |-> "version", val |-> 0, via |-> "direct"]
           p == [cpeer EXCEPT !.old = FALSE]
<1>1. cpeer \in CtlPeer /\ cback \in Seq(CtlBack) /\ cnode.addr \in Nat
  BY DEF CtlInv, CtlTypes, NodeOk, CtlNode
<1>2. /\ cpeer' = p /\ cback' = Append(cback, b)
      /\ UNCHANGED <<ccase, cnode, cdisk, cout, cround, cdirect, crelay, cauth>>
  BY DEF ContactUpdates
<1>3. p \in CtlPeer /\ p.key = cpeer.key /\ p.notes = cpeer.notes /\ p.opened = cpeer.opened
  BY <1>1 DEF CtlPeer
<1>4. b \in CtlBack /\ b.what # "key"
  BY DEF CtlBack
<1> HIDE DEF b, p
<1>5. cback' \in Seq(CtlBack) /\ Elements(cback') = Elements(cback) \cup {b}
  <2>1. Append(cback, b) \in Seq(CtlBack) /\ Elements(Append(cback, b)) = Elements(cback) \cup {b}
    <3> HIDE DEF CtlBack
    <3> QED BY <1>1, <1>4, OneMoreElement
  <2> QED BY <2>1, <1>2
<1>6. CtlTypes'
  BY <1>2, <1>3, <1>5 DEF CtlInv, CtlTypes
<1>7. Underway' = Underway
  BY <1>2 DEF Underway
<1>8. AddressesOurs'
  BY <1>2, <1>3, <1>4, <1>5, <1>7 DEF CtlInv, AddressesOurs
<1>9. NoticesOwed'
  <2>1. NewFrames
    BY <1>7 DEF NewFrames
  <2> QED BY <1>2, <1>3, <2>1, NoticesFlow DEF CtlInv
<1> QED BY <1>6, <1>8, <1>9 DEF CtlInv

\* A frame of the contact keeps it: a key for our onion is admitted.
LEMMA BackStep ==
    ASSUME CtlInv, ReceiveBack
    PROVE  CtlInv'
<1> DEFINE b == Head(cback)
           n == IF b.what = "version" THEN [cnode EXCEPT !.outdated = FALSE, !.toldUpgrade = FALSE]
                ELSE cnode
           s == [n |-> n, out |-> cout]
           t == IF b.via = "direct" THEN HeardFrom(s) ELSE s
<1>1. /\ cback \in Seq(CtlBack) /\ cback # <<>> /\ cnode \in CtlNode /\ NodeOk(cnode)
      /\ cnode.addr \in Nat /\ cout \in Seq(CtlSend)
  BY DEF CtlInv, CtlTypes, NodeOk, CtlNode, ReceiveBack
<1>2. [Now EXCEPT !.n = n] = s
  BY DEF Now
<1>3. /\ cauth' = (IF b.what = "key" THEN b.val ELSE cauth)
      /\ cnode' = t.n /\ cout' = t.out /\ cback' = Tail(cback)
      /\ UNCHANGED <<ccase, cdisk, cround, cdirect, crelay, cpeer>>
  BY <1>2 DEF ReceiveBack, Becomes
<1>4. b \in CtlBack /\ Tail(cback) \in Seq(CtlBack) /\ b \in Elements(cback)
      /\ Elements(Tail(cback)) \subseteq Elements(cback)
  <2> HIDE DEF CtlBack
  <2> QED BY <1>1, HeadAndTail
<1>5. /\ n \in CtlNode /\ n.pend = cnode.pend /\ n.held = cnode.held /\ n.said = cnode.said
      /\ n.addr = cnode.addr /\ n.waiting = cnode.waiting /\ n.delay = cnode.delay
  <2> HIDE DEF b
  <2> QED BY <1>1 DEF CtlNode
<1> HIDE DEF b, n
<1>6. StateOk(s) /\ s.n = n /\ s.out = cout
  BY <1>1, <1>5 DEF StateOk, CtlState, NodeOk
<1> HIDE DEF s
<1>7. StateOk(t) /\ Follows(s, t)
  <2>1. Follows(s, s)
    BY DEF Follows
  <2> QED BY <1>6, <2>1, HeardKeeps
<1> HIDE DEF t
<1>8. cnode'.said = cnode.said /\ cnode'.addr = cnode.addr
  BY <1>3, <1>5, <1>6, <1>7 DEF Follows
<1>9. CtlTypes'
  <2>1. NodeOk(cnode') /\ cout' \in Seq(CtlSend)
    BY <1>3, <1>7 DEF StateOk, CtlState
  <2>2. cauth' \in Nat
    BY <1>3, <1>4 DEF CtlBack, CtlInv, CtlTypes
  <2> QED BY <1>3, <1>4, <1>8, <2>1, <2>2 DEF CtlInv, CtlTypes
<1>10. \A f \in NodeFrames(cnode') \cup QFrames(cout') :
          \/ f \in NodeFrames(cnode) \cup QFrames(cout)
          \/ f \in CtlFrame /\ f.what # "notice" /\ (f.what = "address" => f.val = cnode.addr)
  BY <1>3, <1>5, <1>6, <1>7 DEF Follows, NodeFrames
<1>11. cnode.addr \in FirstAddress .. cnode'.addr
  <2>1. cauth \in FirstAddress .. cnode.addr
    BY DEF CtlInv, AddressesOurs
  <2> QED BY <1>1, <1>8, <2>1 DEF FirstAddress
<1>12. NewFrames
  BY <1>3, <1>10, <1>11 DEF NewFrames, Underway
<1>13. AddressesOurs'
  <2>1. \A f \in Underway' : f.what = "address" => f.val \in FirstAddress .. cnode'.addr
    BY <1>8, <1>12 DEF NewFrames, CtlInv, AddressesOurs
  <2>2. \A c \in Elements(cback') : c.what = "key" => c.val \in FirstAddress .. cnode'.addr
    BY <1>3, <1>4, <1>8 DEF CtlInv, AddressesOurs
  <2>3. {cpeer'.key, cauth'} \subseteq FirstAddress .. cnode'.addr
    BY <1>3, <1>4, <1>8 DEF CtlInv, AddressesOurs
  <2> QED BY <2>1, <2>2, <2>3 DEF AddressesOurs
<1>14. NoticesOwed'
  BY <1>3, <1>8, <1>12, NoticesFlow DEF CtlInv
<1> QED BY <1>9, <1>13, <1>14 DEF CtlInv

\* The invariant holds at first.
LEMMA CtlInitHolds == CtlInit => CtlInv
<1> SUFFICES ASSUME CtlInit PROVE CtlInv
  OBVIOUS
<1>1. /\ ccase \in CtlCases /\ ccase.old \in BOOLEAN
  BY ControlAssumption DEF CtlInit, CtlCase
<1>2. \A q : QFrames(<<>>) = {} /\ Elements(<<>>) = {}
  BY DEF QFrames, Elements
<1>3. FirstNode(ccase) \in CtlNode
  <2>1. 0 \in 0 .. HeldCap /\ [k \in OneOffs |-> 0] \in [OneOffs -> Nat]
    BY ControlAssumption
  <2> QED BY <1>1, <2>1 DEF FirstNode, CtlNode, FirstAddress, NoAddress
<1>4. NodeOk(FirstNode(ccase))
  <2>1. FirstNode(ccase).pend = <<>> /\ FirstNode(ccase).waiting = FALSE
    BY DEF FirstNode
  <2> QED BY <1>2, <1>3, <2>1 DEF NodeOk
<1>5. /\ cnode = FirstNode(ccase) /\ cdisk = FirstNode(ccase)
      /\ cout = <<>> /\ cround = CtlNoRound /\ cdirect = <<>> /\ crelay = <<>> /\ cback = <<>>
      /\ cpeer = [opened |-> {}, notes |-> 0, shown |-> [k \in OneOffs |-> 0], addr |-> FirstAddress,
                key |-> FirstAddress, warned |-> FALSE, old |-> ccase.old]
      /\ cauth = FirstAddress
  BY DEF CtlInit
<1>6. cpeer \in CtlPeer
  <2>1. [k \in OneOffs |-> 0] \in [OneOffs -> Nat]
    OBVIOUS
  <2> QED BY <1>1, <1>5, <2>1 DEF CtlPeer, FirstAddress
<1>7. FirstNode(ccase).waiting = FALSE /\ FirstNode(ccase).said = 0 /\ FirstNode(ccase).addr = FirstAddress
      /\ FirstNode(ccase).pend = <<>> /\ FirstNode(ccase).held = <<>>
  BY DEF FirstNode
<1>8. cround \in [todo : Seq(CtlSend), done : Seq(CtlOutcome)] /\ cround.todo = <<>> /\ cround.done = <<>>
  BY <1>5 DEF CtlNoRound
<1>9. CtlTypes
  BY <1>1, <1>4, <1>5, <1>6, <1>7, <1>8 DEF CtlTypes, FirstAddress
<1>10. Underway = {}
  BY <1>2, <1>5, <1>7, <1>8 DEF Underway, NodeFrames
<1>11. AddressesOurs
  BY <1>2, <1>5, <1>7, <1>10 DEF AddressesOurs, FirstAddress
<1>12. NoticesOwed
  <2>1. {} \in SUBSET CtlFrame /\ IsFiniteSet({}) /\ Cardinality({}) = 0
    BY FS_EmptySet
  <2>2. cpeer.notes = 0 /\ cnode.said = 0
    BY <1>5, <1>7
  <2>3. Owed({})
    BY <1>10, <2>1, <2>2 DEF Owed
  <2> QED BY <2>1, <2>3 DEF NoticesOwed
<1> QED BY <1>9, <1>11, <1>12 DEF CtlInv

\* Every step keeps it.
LEMMA CtlStepHolds == CtlInv /\ [CtlNext]_ctlVars => CtlInv'
<1> SUFFICES ASSUME CtlInv, [CtlNext]_ctlVars PROVE CtlInv'
  OBVIOUS
<1>1. CASE ReportCapture
  BY <1>1, CaptureStep
<1>2. ASSUME NEW k \in OneOffs, SetOneOff(k) PROVE CtlInv'
  BY <1>2, SetStep
<1>3. CASE Tick
  BY <1>3, TickStep
<1>4. CASE SaveLater
  BY <1>4, SaveStep
<1>5. CASE BackoffEnds
  BY <1>5, BackoffStep
<1>6. ASSUME NEW moved \in BOOLEAN, Restart(moved) PROVE CtlInv'
  BY <1>6, RestartStep
<1>7. CASE TakeControlRound
  BY <1>7, TakeRoundStep
<1>8. CASE RunControlSend
  BY <1>8, RunStep
<1>9. CASE ApplyRoundDone
  BY <1>9, ApplyStep
<1>10. CASE PeerReadsDirect \/ PeerPolls
  BY <1>10, ReadStep
<1>11. CASE ContactUpdates
  BY <1>11, UpdateStep
<1>12. CASE ReceiveBack
  BY <1>12, BackStep
<1>13. CASE UNCHANGED ctlVars
  <2>1. UNCHANGED <<ccase, cnode, cdisk, cout, cround, cdirect, crelay, cpeer, cback, cauth>>
    BY <1>13 DEF ctlVars
  <2>2. CtlTypes' /\ Underway' = Underway
    BY <2>1 DEF CtlInv, CtlTypes, Underway
  <2>3. AddressesOurs'
    BY <2>1, <2>2 DEF CtlInv, AddressesOurs
  <2>4. NoticesOwed'
    <3>1. NewFrames
      BY <2>2 DEF NewFrames
    <3> QED BY <3>1, <2>1, NoticesFlow DEF CtlInv
  <2> QED BY <2>2, <2>3, <2>4 DEF CtlInv
<1> QED BY <1>1, <1>2, <1>3, <1>4, <1>5, <1>6, <1>7, <1>8, <1>9, <1>10, <1>11, <1>12, <1>13 DEF CtlNext

\* It gives the property.
LEMMA CtlInvGives == CtlInv => ControlHolds
<1> SUFFICES ASSUME CtlInv PROVE ControlHolds
  OBVIOUS
<1>1. PICK N \in SUBSET CtlFrame : IsFiniteSet(N) /\ Owed(N)
  BY DEF CtlInv, NoticesOwed
<1>2. cnode.said \in Nat /\ cnode.seal \in Nat /\ cpeer.notes \in Nat /\ cnode.delay \in 0 .. HeldCap
  BY DEF CtlInv, CtlTypes, NodeOk, CtlNode, CtlPeer
<1>3. NoticedOnce
  <2>1. Cardinality(N) \in Nat /\ cpeer.notes + Cardinality(N) <= cnode.said
    BY <1>1, FS_CardinalityType DEF Owed
  <2> QED BY <2>1, <1>2 DEF NoticedOnce
<1>4. CtlTypeOK
  BY <1>2 DEF CtlTypeOK, CtlInv, CtlTypes, NodeOk, AddressesOurs
<1> QED BY <1>3, <1>4 DEF ControlHolds

-----------------------------------------------------------------------------
(* The theorem on control frames                                           *)

\* A capture the contact reads of was one, counted once, however many copies of
\* its frame a failure, a kill or a second route made, and no key but one for an
\* onion of ours is admitted (send_capture_notice, flush_pending_control_for,
\* apply_send_outcomes, ClientKeySealed).
THEOREM NoticesCountOnce == CtlSpec => []ControlHolds
<1>1. CtlInit => CtlInv
  BY CtlInitHolds
<1>2. CtlInv /\ [CtlNext]_ctlVars => CtlInv'
  BY CtlStepHolds
<1>3. CtlInv => ControlHolds
  BY CtlInvGives
<1> QED BY <1>1, <1>2, <1>3, PTL DEF CtlSpec

-----------------------------------------------------------------------------
(* The mail the device polls for.                                          *)

\* Clocks are off by no more than the margin, a take answers with all the mail
\* of its handles, and a directory only adds relays.
HonestPeers ==
    \A c \in EpochCases : c.skews \subseteq -SkewMargin .. SkewMargin /\ ~c.partial /\ ~c.drops

Rounds == [jobs : SUBSET (RelayNames \X Int), settles : Int, settleOk : BOOLEAN,
           ok : SUBSET RelayNames, failed : [RelayNames -> Nat], running : BOOLEAN]
EpTypes == EpTypeOK /\ round \in Rounds /\ epLeft \in EpochCase /\ slot >= EpochSlots
EpCaseOK == epLeft.skews \subseteq -SkewMargin .. SkewMargin /\ ~epLeft.partial /\ ~epLeft.drops

\* An entry that stands for the relay of m is on the list, or drains for as
\* long as the relay keeps m.
HeldBy(m) ==
    \/ \E e \in ToSet(myList) : m.relay \in ExpandRelaySet({e}, myDir)
    \/ \E d \in draining : /\ d.until >= m.posted + RelayTtl
                         /\ m.relay \in ExpandRelaySet({d.entry}, myDir)
\* No mail of epoch e is posted any more.
Settled(e) == e < Today /\ (e = Today - 1 => IntoDay >= SkewMargin)

MailKept == \A m \in mail : m.epoch >= 0 /\ m.posted <= slot /\ m.posted + RelayTtl > slot
MailHeld == \A m \in mail : m.ours => HeldBy(m) /\ m.epoch # drained
\* While a round that may retire an epoch is off the lock, the mail of that
\* epoch is behind the jobs that are left.
RoundSound ==
    round.settleOk =>
        /\ Settled(round.settles)
        /\ \A m \in mail : m.ours /\ m.epoch = round.settles => <<m.relay, m.epoch>> \in round.jobs

\* The inductive invariant.
EpInv == EpTypes /\ EpCaseOK /\ MailKept /\ MailHeld /\ Settled(drained) /\ RoundSound

LEMMA EpochBounds ==
    /\ EpochSlots \in Nat \ {0} /\ RelayTtl \in Nat \ {0} /\ MaxSlots \in Nat
    /\ SkewMargin \in Nat /\ MaxListed \in Nat \ {0} /\ 2 * SkewMargin < EpochSlots
    /\ EpochSlots <= MaxSlots /\ NightDrop \in Entries /\ Primary \in RelayNames
BY EpochsAssumption DEF Entries, RelayNames

\* Division by the length of a day.
LEMMA RemainderIsBelow ==
    ASSUME NEW d \in Nat \ {0}, NEW n \in Int
    PROVE  n % d < d
OBVIOUS

LEMMA QuotientAndRemainder ==
    ASSUME NEW d \in Nat \ {0}, NEW n \in Int
    PROVE  n = d * (n \div d) + (n % d)
OBVIOUS

LEMMA Division ==
    ASSUME NEW n \in Int
    PROVE  /\ n \div EpochSlots \in Int /\ n % EpochSlots \in 0 .. (EpochSlots - 1)
           /\ n = EpochSlots * (n \div EpochSlots) + (n % EpochSlots)
<1>1. EpochSlots \in Nat \ {0}
  BY EpochBounds
<1>2. n \div EpochSlots \in Int
  BY <1>1
<1>3. n % EpochSlots \in Int /\ n % EpochSlots >= 0
  BY <1>1
<1>4. n % EpochSlots < EpochSlots
  BY <1>1, RemainderIsBelow, Zenon
<1>5. n = EpochSlots * (n \div EpochSlots) + (n % EpochSlots)
  BY <1>1, QuotientAndRemainder, Zenon
<1>6. n % EpochSlots \in 0 .. (EpochSlots - 1)
  BY <1>1, <1>3, <1>4
<1>7. QED BY <1>2, <1>5, <1>6

LEMMA DivisionIsUnique ==
    ASSUME NEW n \in Int, NEW q \in Int, NEW r \in 0 .. (EpochSlots - 1), n = EpochSlots * q + r
    PROVE  n \div EpochSlots = q /\ n % EpochSlots = r
<1> DEFINE a == n \div EpochSlots
           b == n % EpochSlots
<1>1. /\ a \in Int /\ b \in 0 .. (EpochSlots - 1) /\ EpochSlots * a + b = EpochSlots * q + r
      /\ EpochSlots \in Nat \ {0}
  BY Division, EpochBounds
<1> HIDE DEF a, b
<1>2. CASE a < q
  <2>1. EpochSlots * a + EpochSlots = EpochSlots * (a + 1) /\ EpochSlots * (a + 1) <= EpochSlots * q
    BY <1>1, <1>2
  <2>2. QED BY <1>1, <2>1
<1>3. CASE q < a
  <2>1. EpochSlots * q + EpochSlots = EpochSlots * (q + 1) /\ EpochSlots * (q + 1) <= EpochSlots * a
    BY <1>1, <1>3
  <2>2. QED BY <1>1, <2>1
<1>4. a = q /\ b = r
  BY <1>1, <1>2, <1>3
<1>5. QED BY <1>4 DEF a, b

LEMMA TheDay ==
    ASSUME slot \in Nat, slot >= EpochSlots
    PROVE  /\ Today \in Nat /\ Today >= 1 /\ IntoDay \in 0 .. (EpochSlots - 1)
           /\ slot = EpochSlots * Today + IntoDay
<1>1. Today \in Int /\ IntoDay \in 0 .. (EpochSlots - 1) /\ slot = EpochSlots * Today + IntoDay
  <2>1. slot \in Int
    OBVIOUS
  <2>2. /\ slot \div EpochSlots \in Int /\ slot % EpochSlots \in 0 .. (EpochSlots - 1)
        /\ slot = EpochSlots * (slot \div EpochSlots) + (slot % EpochSlots)
    BY <2>1, Division
  <2>3. QED BY <2>2 DEF Today, IntoDay
<1>2. Today >= 1
  <2>1. SUFFICES ASSUME Today <= 0 PROVE FALSE
    BY <1>1
  <2>2. EpochSlots * Today <= 0
    BY <1>1, <2>1, EpochBounds
  <2>3. QED BY <1>1, <2>2, EpochBounds
<1>3. QED BY <1>1, <1>2

\* A slot later it is the same day or the next one.
LEMMA TimePasses ==
    ASSUME slot \in Nat, slot >= EpochSlots, slot' = slot + 1
    PROVE  \/ Today' = Today /\ IntoDay' = IntoDay + 1
           \/ Today' = Today + 1 /\ IntoDay' = 0
<1>1. /\ Today \in Nat /\ IntoDay \in 0 .. (EpochSlots - 1) /\ slot = EpochSlots * Today + IntoDay
      /\ EpochSlots \in Nat \ {0}
  BY TheDay, EpochBounds
<1>2. CASE IntoDay + 1 < EpochSlots
  <2>1. IntoDay + 1 \in 0 .. (EpochSlots - 1) /\ slot + 1 = EpochSlots * Today + (IntoDay + 1)
    BY <1>1, <1>2
  <2>2. (slot + 1) \div EpochSlots = Today /\ (slot + 1) % EpochSlots = IntoDay + 1
    BY <1>1, <2>1, DivisionIsUnique
  <2>3. QED BY <2>2 DEF Today, IntoDay
<1>3. CASE ~(IntoDay + 1 < EpochSlots)
  <2>1. EpochSlots * (Today + 1) = EpochSlots * Today + EpochSlots
    BY <1>1
  <2>2. 0 \in 0 .. (EpochSlots - 1) /\ slot + 1 = EpochSlots * (Today + 1) + 0
    BY <1>1, <1>3, <2>1
  <2>3. (slot + 1) \div EpochSlots = Today + 1 /\ (slot + 1) % EpochSlots = 0
    BY <1>1, <2>2, DivisionIsUnique
  <2>4. QED BY <2>3 DEF Today, IntoDay
<1>4. QED BY <1>2, <1>3

LEMMA SettledStays ==
    ASSUME slot \in Nat, slot >= EpochSlots, slot' = slot + 1, NEW e \in Int, Settled(e)
    PROVE  Settled(e)'
<1>1. Today \in Nat /\ IntoDay \in Nat /\ SkewMargin \in Nat
  BY TheDay, EpochBounds
<1>2. CASE Today' = Today /\ IntoDay' = IntoDay + 1
  BY <1>1, <1>2 DEF Settled
<1>3. CASE Today' = Today + 1 /\ IntoDay' = 0
  BY <1>1, <1>3 DEF Settled
<1>4. QED BY <1>2, <1>3, TimePasses

\* The day on a clock that is off by no more than the margin is no earlier than
\* yesterday, and yesterday only within the margin.
LEMMA SkewedDay ==
    ASSUME slot \in Nat, slot >= EpochSlots, NEW skew \in -SkewMargin .. SkewMargin, slot + skew >= 0
    PROVE  LET e == (slot + skew) \div EpochSlots
           IN  /\ e \in Nat /\ \A old \in Int : Settled(old) => e # old
<1> DEFINE e == (slot + skew) \div EpochSlots
<1>1. /\ Today \in Nat /\ Today >= 1 /\ IntoDay \in 0 .. (EpochSlots - 1)
      /\ slot = EpochSlots * Today + IntoDay
      /\ EpochSlots \in Nat \ {0} /\ SkewMargin \in Nat /\ 2 * SkewMargin < EpochSlots
  BY TheDay, EpochBounds
<1>2. CASE IntoDay + skew < 0
  <2>1. EpochSlots * (Today - 1) = EpochSlots * Today - EpochSlots
    BY <1>1
  <2>2. /\ IntoDay + skew + EpochSlots \in 0 .. (EpochSlots - 1)
        /\ slot + skew = EpochSlots * (Today - 1) + (IntoDay + skew + EpochSlots)
        /\ slot + skew \in Int /\ Today - 1 \in Int
    BY <1>1, <1>2, <2>1
  <2>3. e = Today - 1
    BY <2>2, DivisionIsUnique
  <2>4. IntoDay < SkewMargin
    BY <1>1, <1>2
  <2>5. QED BY <1>1, <2>3, <2>4 DEF Settled
<1>3. CASE IntoDay + skew \in 0 .. (EpochSlots - 1)
  <2>1. slot + skew = EpochSlots * Today + (IntoDay + skew) /\ slot + skew \in Int
    BY <1>1, <1>3
  <2>2. e = Today
    BY <1>1, <1>3, <2>1, DivisionIsUnique
  <2>3. QED BY <1>1, <2>2 DEF Settled
<1>4. CASE IntoDay + skew >= EpochSlots
  <2>1. EpochSlots * (Today + 1) = EpochSlots * Today + EpochSlots
    BY <1>1
  <2>2. /\ IntoDay + skew - EpochSlots \in 0 .. (EpochSlots - 1)
        /\ slot + skew = EpochSlots * (Today + 1) + (IntoDay + skew - EpochSlots)
        /\ slot + skew \in Int /\ Today + 1 \in Int
    BY <1>1, <1>4, <2>1
  <2>3. e = Today + 1
    BY <2>2, DivisionIsUnique
  <2>4. QED BY <1>1, <2>3 DEF Settled
<1>5. IntoDay + skew < 0 \/ IntoDay + skew \in 0 .. (EpochSlots - 1) \/ IntoDay + skew >= EpochSlots
  BY <1>1
<1>6. QED BY <1>2, <1>3, <1>4, <1>5

-----------------------------------------------------------------------------
\* normalize_relays: the k-th of the entries that are first of their kind.
\* Each of the positions from 1 on is the rank of one of them.
LEMMA EachRankIsTaken ==
    ASSUME NEW S \in SUBSET Nat, IsFiniteSet(S), NEW k \in 1 .. Cardinality(S)
    PROVE  \E i \in S : Cardinality({j \in S : j <= i}) = k
<1> DEFINE rank == [i \in S |-> Cardinality({j \in S : j <= i})]
<1>1. Cardinality(S) \in Nat
  BY FS_CardinalityType
<1>2. ASSUME NEW i \in S
      PROVE  /\ IsFiniteSet({j \in S : j <= i}) /\ rank[i] = Cardinality({j \in S : j <= i})
             /\ rank[i] \in 1 .. Cardinality(S)
  <2> DEFINE T == {j \in S : j <= i}
  <2>1. T \in SUBSET S /\ i \in T
    OBVIOUS
  <2>2. IsFiniteSet(T) /\ Cardinality(T) <= Cardinality(S) /\ Cardinality(T) \in Nat
    BY <2>1, FS_Subset, FS_CardinalityType
  <2>3. Cardinality(T) # 0
    BY <2>1, <2>2, FS_EmptySet
  <2>4. QED BY <1>1, <2>2, <2>3
<1>3. ASSUME NEW i \in S, NEW j \in S, i < j PROVE rank[i] # rank[j]
  <2> DEFINE T == {x \in S : x <= i}
             U == {x \in S : x <= j}
  <2>1. T \in SUBSET U /\ j \in U /\ j \notin T
    <3>1. i \in Nat /\ j \in Nat /\ \A x \in S : x \in Nat
      OBVIOUS
    <3>2. j <= j /\ ~(j <= i)
      BY <1>3, <3>1
    <3>3. ASSUME NEW x \in S, x <= i PROVE x <= j
      BY <1>3, <3>1, <3>3
    <3>4. T \in SUBSET U
      BY <3>3
    <3>5. QED BY <3>2, <3>4
  <2>2. IsFiniteSet(U) /\ (Cardinality(T) = Cardinality(U) => T = U)
    BY <1>2, <2>1, FS_Subset
  <2>3. QED BY <1>2, <2>1, <2>2
<1>4. rank \in Injection(S, 1 .. Cardinality(S))
  <2>1. rank \in [S -> 1 .. Cardinality(S)]
    BY <1>2
  <2>2. \A i, j \in S : rank[i] = rank[j] => i = j
    <3> SUFFICES ASSUME NEW i \in S, NEW j \in S, rank[i] = rank[j], i # j PROVE FALSE
      OBVIOUS
    <3>1. i < j \/ j < i
      OBVIOUS
    <3>2. QED BY <1>3, <3>1
  <2> HIDE DEF rank
  <2>3. QED BY <2>1, <2>2 DEF Injection, IsInjective
<1>5. IsFiniteSet(1 .. Cardinality(S)) /\ Cardinality(1 .. Cardinality(S)) = Cardinality(S)
  <2>1. 1 \in Int /\ Cardinality(S) \in Int
    BY <1>1
  <2>2. QED BY <1>1, <2>1, FS_Interval
<1>6. rank \in Surjection(S, 1 .. Cardinality(S))
  <2> HIDE DEF rank
  <2>1. QED BY <1>4, <1>5, FS_Injection
<1>7. \E i \in S : rank[i] = k
  <2> HIDE DEF rank
  <2>1. QED BY <1>6 DEF Surjection
<1>8. QED BY <1>7

LEMMA NormalizedList ==
    ASSUME NEW l \in Seq(Entries)
    PROVE  /\ NormalizeRelays(l).kept \in Seq(Entries)
           /\ Len(NormalizeRelays(l).kept) <= MaxListed
           /\ NormalizeRelays(l).overflow \subseteq Entries
<1> DEFINE first == {i \in DOMAIN l : \A j \in 1 .. (i - 1) : l[j] # l[i]}
           n == Cardinality(first)
           all == [k \in 1 .. n |-> l[CHOOSE i \in first : Cardinality({j \in first : j <= i}) = k]]
           upTo == IF Len(all) < MaxListed THEN Len(all) ELSE MaxListed
<1>1. /\ first \in SUBSET Nat /\ first \in SUBSET (1 .. Len(l)) /\ Len(l) \in Nat
      /\ \A i \in first : l[i] \in Entries
  OBVIOUS
<1>2. IsFiniteSet(first) /\ n \in Nat
  <2>1. IsFiniteSet(1 .. Len(l))
    <3>1. 1 \in Int /\ Len(l) \in Int
      BY <1>1
    <3>2. QED BY <3>1, FS_Interval
  <2> HIDE DEF first
  <2>2. QED BY <1>1, <2>1, FS_Subset, FS_CardinalityType
<1>3. ASSUME NEW k \in 1 .. n PROVE all[k] \in Entries
  <2> HIDE DEF first
  <2>1. \E i \in first : Cardinality({j \in first : j <= i}) = k
    BY <1>1, <1>2, EachRankIsTaken
  <2>2. QED BY <1>1, <2>1
<1>4. all \in Seq(Entries) /\ Len(all) = n
  <2> HIDE DEF first
  <2>1. all \in [1 .. n -> Entries]
    BY <1>3
  <2> HIDE DEF all, n
  <2>2. QED BY <1>2, <2>1
<1>5. /\ NormalizeRelays(l).kept = SubSeq(all, 1, upTo)
      /\ NormalizeRelays(l).overflow = ToSet(SubSeq(all, MaxListed + 1, Len(all)))
  BY DEF NormalizeRelays
<1> HIDE DEF all, n, first
<1>6. MaxListed \in Nat
  BY EpochBounds
<1>7. upTo \in Nat /\ upTo <= Len(all) /\ upTo <= MaxListed
  BY <1>4, <1>6, <1>2
<1> HIDE DEF upTo
<1>8. SubSeq(all, 1, upTo) \in Seq(Entries) /\ Len(SubSeq(all, 1, upTo)) <= MaxListed
  BY <1>4, <1>6, <1>7
<1>9. SubSeq(all, MaxListed + 1, Len(all)) \in Seq(Entries)
  BY <1>4, <1>6
<1>10. ToSet(SubSeq(all, MaxListed + 1, Len(all))) \subseteq Entries
  BY <1>9 DEF ToSet
<1>11. QED BY <1>5, <1>8, <1>10

\* The relays of a set of entries are those of its entries.
LEMMA RelaysOfEntries ==
    ASSUME NEW S \in SUBSET Entries, NEW dir \in SUBSET Discovered, NEW r
    PROVE  r \in ExpandRelaySet(S, dir) <=> \E e \in S : r \in ExpandRelaySet({e}, dir)
BY DEF ExpandRelaySet, Entries

LEMMA RelayTypes ==
    ASSUME NEW S, NEW dir \in SUBSET Discovered
    PROVE  ExpandRelaySet(S, dir) \subseteq RelayNames
BY DEF ExpandRelaySet, RelayNames

LEMMA MoreRelays ==
    ASSUME NEW S, NEW dir, NEW more, dir \subseteq more
    PROVE  ExpandRelaySet(S, dir) \subseteq ExpandRelaySet(S, more)
BY DEF ExpandRelaySet

-----------------------------------------------------------------------------
\* The invariant says that mail is polled.
LEMMA HeldIsPolled ==
    ASSUME EpTypes, NEW m \in mail, HeldBy(m), m.posted + RelayTtl > slot
    PROVE  m.relay \in PolledRelays
<1> DEFINE S == ToSet(myList) \cup {d.entry : d \in {x \in draining : x.until > slot}}
<1>1. S \in SUBSET Entries /\ myDir \in SUBSET Discovered
  <2>1. ToSet(myList) \subseteq Entries
    BY DEF EpTypes, EpTypeOK, ToSet
  <2>2. \A d \in draining : d.entry \in Entries
    BY DEF EpTypes, EpTypeOK
  <2>3. QED BY <2>1, <2>2 DEF EpTypes, EpTypeOK
<1>2. \E e \in S : m.relay \in ExpandRelaySet({e}, myDir)
  <2>1. CASE \E e \in ToSet(myList) : m.relay \in ExpandRelaySet({e}, myDir)
    BY <2>1
  <2>2. ASSUME NEW d \in draining, d.until >= m.posted + RelayTtl,
               m.relay \in ExpandRelaySet({d.entry}, myDir)
        PROVE  \E e \in S : m.relay \in ExpandRelaySet({e}, myDir)
    <3>1. d.until > slot
      <4>1. d.until \in Nat /\ slot \in Nat /\ m.posted \in Nat /\ RelayTtl \in Nat
        BY EpochBounds DEF EpTypes, EpTypeOK, Mail
      <4>2. QED BY <2>2, <4>1
    <3>2. d.entry \in S
      BY <3>1
    <3>3. QED BY <2>2, <3>2
  <2>3. QED BY <2>1, <2>2 DEF HeldBy
<1> HIDE DEF S
<1>3. m.relay \in ExpandRelaySet(S, myDir)
  BY <1>1, <1>2, RelaysOfEntries
<1>4. QED BY <1>3 DEF PolledRelays, S

LEMMA InvariantIsEnough ==
    ASSUME EpInv PROVE MailIsPolled
<1> USE DEF EpInv
<1>1. EpTypeOK
  BY DEF EpTypes
<1>2. Today \in Nat /\ Today >= 1
  BY TheDay DEF EpTypes, EpTypeOK
<1>3. QueuedIsPolled
  <2> SUFFICES ASSUME NEW m \in mail, m.ours, m.epoch >= Today - 1
               PROVE  /\ m.relay \in PolledRelays
                      /\ m.epoch \in PolledEpochs \/ m.epoch > Today
    BY DEF QueuedIsPolled
  <2>1. HeldBy(m) /\ m.epoch # drained /\ m.posted + RelayTtl > slot /\ m.epoch \in Int
    BY DEF EpTypes, EpTypeOK, Mail, MailHeld, MailKept
  <2>2. m.relay \in PolledRelays
    BY <2>1, HeldIsPolled
  <2>3. m.epoch = Today - 1 \/ m.epoch = Today \/ m.epoch > Today
    BY <1>2, <2>1
  <2>4. QED BY <1>2, <2>1, <2>2, <2>3 DEF PolledEpochs
<1>4. RetiredIsEmpty
  BY DEF RetiredIsEmpty, MailHeld
<1>5. QED BY <1>1, <1>3, <1>4 DEF MailIsPolled

LEMMA EpStarts ==
    ASSUME HonestPeers, EpInit PROVE EpInv
<1> USE DEF EpInit
<1>1. EpochSlots \in Nat /\ EpochSlots <= MaxSlots /\ MaxSlots \in Nat /\ slot = EpochSlots
  BY EpochBounds
<1>2. Today \in Nat /\ Today >= 1
  BY <1>1, TheDay
<1>3. EpTypes
  <2>1. slot \in 0 .. MaxSlots /\ slot >= EpochSlots
    BY <1>1
  <2>2. myList \in Seq(Entries) /\ told \in Seq(Entries) /\ Len(myList) <= MaxListed
    BY EpochBounds
  <2>3. round \in Rounds
    BY DEF NoRoundYet, Rounds, NoEpoch
  <2>4. epLeft \in EpochCase
    BY EpochsAssumption
  <2>5. draining = {} /\ myDir = {} /\ peerDir = {} /\ mail = {} /\ drained \in Int /\ round.jobs = {}
    BY DEF NoRoundYet, NoEpoch
  <2>6. QED BY <2>1, <2>2, <2>3, <2>4, <2>5 DEF EpTypes, EpTypeOK
<1>4. EpCaseOK
  BY DEF EpCaseOK, HonestPeers
<1>5. Settled(drained)
  BY <1>2 DEF Settled, NoEpoch
<1>6. MailKept /\ MailHeld
  BY DEF MailKept, MailHeld
<1>7. RoundSound
  BY DEF RoundSound, NoRoundYet
<1>8. QED BY <1>3, <1>4, <1>5, <1>6, <1>7 DEF EpInv

LEMMA EditKeeps ==
    ASSUME EpInv, EditRelays PROVE EpInv'
<1> USE DEF EpInv
<1>1. PICK l \in BoundedSeq(Entries, MaxListed + 1) : SetRelayList(l)
  BY DEF EditRelays
<1>2. l \in Seq(Entries)
  <2>1. MaxListed + 1 \in Nat
    BY EpochBounds
  <2>2. QED BY <2>1 DEF BoundedSeq, SeqOf
<1> DEFINE n == NormalizeRelays(l)
           leaving == (ToSet(myList) \ ToSet(n.kept)) \cup n.overflow
           until == slot + RelayTtl
<1>3. /\ n.kept \in Seq(Entries) /\ Len(n.kept) <= MaxListed /\ n.overflow \subseteq Entries
  BY <1>2, NormalizedList
<1>4. /\ myList' = n.kept
      /\ draining' = {d \in {x \in draining : x.entry \notin leaving}
                              \cup {[entry |-> g, until |-> until] : g \in leaving} :
                          d.entry \notin ToSet(n.kept) /\ d.until > slot}
  BY <1>1 DEF SetRelayList
<1> HIDE DEF n
<1>5. slot \in Nat /\ RelayTtl \in Nat \ {0} /\ until \in Nat /\ until > slot
  BY EpochBounds DEF EpTypes, EpTypeOK
<1>6. leaving \subseteq Entries
  BY <1>3 DEF EpTypes, EpTypeOK, ToSet
<1> HIDE DEF leaving, until
<1>7. draining' \subseteq [entry : Entries, until : Nat]
  <2>1. draining \subseteq [entry : Entries, until : Nat]
    BY DEF EpTypes, EpTypeOK
  <2>2. {[entry |-> g, until |-> until] : g \in leaving} \subseteq [entry : Entries, until : Nat]
    BY <1>5, <1>6
  <2>3. QED BY <1>4, <2>1, <2>2
<1>8. /\ UNCHANGED <<slot, myDir, drained, round, told, peerDir, mail>>
      /\ epLeft \in EpochCase /\ epLeft' = [epLeft EXCEPT !.edits = @ - 1] /\ epLeft.edits > 0
  BY DEF EditRelays, EpTypes
<1>9. /\ epLeft' \in EpochCase /\ epLeft'.skews = epLeft.skews
      /\ epLeft'.partial = epLeft.partial /\ epLeft'.drops = epLeft.drops
  BY <1>8 DEF EpochCase
<1>10. EpTypes'
  BY <1>3, <1>4, <1>7, <1>8, <1>9 DEF EpTypes, EpTypeOK
<1>11. EpCaseOK'
  BY <1>9 DEF EpCaseOK
<1>12. Settled(drained)'
  BY <1>8 DEF Settled, Today, IntoDay
<1>13. MailKept' /\ RoundSound'
  BY <1>8, <1>12 DEF MailKept, RoundSound, Settled, Today, IntoDay
<1>14. ASSUME NEW m \in mail, m.ours PROVE HeldBy(m)'
  <2>1. /\ m.posted \in Nat /\ m.posted <= slot /\ m.posted + RelayTtl > slot
        /\ until >= m.posted + RelayTtl
    BY <1>5 DEF EpTypes, EpTypeOK, Mail, MailKept, until
  <2>2. ASSUME NEW e \in leaving, e \notin ToSet(n.kept), m.relay \in ExpandRelaySet({e}, myDir)
        PROVE  HeldBy(m)'
    <3>1. [entry |-> e, until |-> until] \in draining'
      BY <1>4, <1>5, <2>2
    <3>2. QED BY <1>8, <2>1, <2>2, <3>1 DEF HeldBy
  <2>3. ASSUME NEW e \in ToSet(n.kept), m.relay \in ExpandRelaySet({e}, myDir)
        PROVE  HeldBy(m)'
    BY <1>4, <1>8, <2>3 DEF HeldBy
  <2>4. ASSUME NEW e \in ToSet(myList), m.relay \in ExpandRelaySet({e}, myDir)
        PROVE  HeldBy(m)'
    <3>1. CASE e \in ToSet(n.kept)
      BY <2>3, <2>4, <3>1
    <3>2. CASE e \notin ToSet(n.kept)
      <4>1. e \in leaving
        BY <3>2 DEF leaving
      <4>2. QED BY <2>2, <2>4, <3>2, <4>1
    <3>3. QED BY <3>1, <3>2
  <2>5. ASSUME NEW d \in draining, d.until >= m.posted + RelayTtl,
               m.relay \in ExpandRelaySet({d.entry}, myDir)
        PROVE  HeldBy(m)'
    <3>1. CASE d.entry \in ToSet(n.kept)
      BY <2>3, <2>5, <3>1
    <3>2. CASE d.entry \notin ToSet(n.kept) /\ d.entry \in leaving
      BY <2>2, <2>5, <3>2
    <3>3. CASE d.entry \notin ToSet(n.kept) /\ d.entry \notin leaving
      <4>1. d.until > slot
        <5>1. d.until \in Nat
          BY DEF EpTypes, EpTypeOK
        <5>2. QED BY <1>5, <2>1, <2>5, <5>1
      <4>2. d \in draining'
        BY <1>4, <3>3, <4>1
      <4>3. QED BY <1>8, <2>5, <4>2 DEF HeldBy
    <3>4. QED BY <3>1, <3>2, <3>3
  <2>6. HeldBy(m)
    BY <1>14 DEF MailHeld
  <2>7. QED BY <2>4, <2>5, <2>6 DEF HeldBy
<1>15. MailHeld'
  BY <1>8, <1>14 DEF MailHeld
<1>16. QED BY <1>10, <1>11, <1>12, <1>13, <1>15

LEMMA ToldKeeps ==
    ASSUME EpInv, PeerIsTold \/ AdoptTheirs \/ UNCHANGED epVars PROVE EpInv'
<1> USE DEF EpInv
<1>1. /\ UNCHANGED <<slot, myList, draining, myDir, drained, round, mail, epLeft>>
      /\ told' \in Seq(Entries) /\ peerDir' \subseteq Discovered
  BY DEF PeerIsTold, AdoptTheirs, epVars, EpTypes, EpTypeOK
<1>2. EpTypes'
  BY <1>1 DEF EpTypes, EpTypeOK
<1>3. EpCaseOK' /\ MailKept'
  BY <1>1 DEF EpCaseOK, MailKept
<1>4. MailHeld'
  BY <1>1 DEF MailHeld, HeldBy
<1>5. Settled(drained)' /\ RoundSound'
  BY <1>1 DEF Settled, RoundSound, Today, IntoDay
<1>6. QED BY <1>2, <1>3, <1>4, <1>5

\* What the directory adds leaves every relay that held mail in place.
LEMMA AdoptKeeps ==
    ASSUME EpInv, AdoptOurs PROVE EpInv'
<1> USE DEF EpInv
<1>1. /\ UNCHANGED <<slot, myList, draining, drained, round, told, peerDir, mail>>
      /\ myDir' \subseteq Discovered /\ myDir \subseteq myDir'
      /\ epLeft \in EpochCase /\ epLeft' = [epLeft EXCEPT !.lists = @ - 1] /\ epLeft.lists > 0
  BY DEF AdoptOurs, NewDirectory, EpCaseOK, EpTypes
<1>2. /\ epLeft' \in EpochCase /\ epLeft'.skews = epLeft.skews
      /\ epLeft'.partial = epLeft.partial /\ epLeft'.drops = epLeft.drops
  BY <1>1 DEF EpochCase
<1>3. EpTypes'
  BY <1>1, <1>2 DEF EpTypes, EpTypeOK
<1>4. EpCaseOK' /\ MailKept'
  BY <1>1, <1>2 DEF EpCaseOK, MailKept
<1>5. Settled(drained)' /\ RoundSound'
  BY <1>1 DEF Settled, RoundSound, Today, IntoDay
<1>6. MailHeld'
  <2>1. \A S : ExpandRelaySet(S, myDir) \subseteq ExpandRelaySet(S, myDir')
    BY <1>1, MoreRelays
  <2>2. QED BY <1>1, <2>1 DEF MailHeld, HeldBy
<1>7. QED BY <1>3, <1>4, <1>5, <1>6

LEMMA PostKeeps ==
    ASSUME EpInv, PeerPosts PROVE EpInv'
<1> USE DEF EpInv
<1>1. PICK skew \in epLeft.skews,
           taken \in (SUBSET ExpandRelaySet(ToSet(told), peerDir)) \ {{}} :
          /\ slot + skew >= 0
          /\ mail' = mail \cup {[id |-> epLeft.posts, relay |-> r,
                                 epoch |-> (slot + skew) \div EpochSlots, posted |-> slot,
                                 ours |-> r \in ExpandRelaySet(ToSet(myList), myDir)] : r \in taken}
  BY DEF PeerPosts
<1> DEFINE day == (slot + skew) \div EpochSlots
           Copy(r) == [id |-> epLeft.posts, relay |-> r, epoch |-> day, posted |-> slot,
                       ours |-> r \in ExpandRelaySet(ToSet(myList), myDir)]
<1>2. /\ UNCHANGED <<slot, myList, draining, myDir, drained, round, told, peerDir>>
      /\ epLeft \in EpochCase /\ epLeft' = [epLeft EXCEPT !.posts = @ - 1] /\ epLeft.posts > 0
  BY DEF PeerPosts, EpTypes
<1>3. /\ epLeft' \in EpochCase /\ epLeft'.skews = epLeft.skews
      /\ epLeft'.partial = epLeft.partial /\ epLeft'.drops = epLeft.drops
  BY <1>2 DEF EpochCase
<1>4. /\ slot \in Nat /\ slot >= EpochSlots /\ skew \in -SkewMargin .. SkewMargin
      /\ drained \in Int /\ round.settles \in Int /\ epLeft.posts \in Nat
      /\ RelayTtl \in Nat \ {0}
  BY EpochBounds DEF EpTypes, EpTypeOK, EpCaseOK, Rounds, EpochCase
<1>5. day \in Nat /\ \A old \in Int : Settled(old) => day # old
  BY <1>1, <1>4, SkewedDay
<1> HIDE DEF day
<1>6. mail' = mail \cup {Copy(r) : r \in taken}
  BY <1>1 DEF day
<1>7. \A r \in taken : r \in RelayNames
  <2>1. peerDir \in SUBSET Discovered
    BY DEF EpTypes, EpTypeOK
  <2>2. QED BY <2>1, RelayTypes
<1>8. ASSUME NEW r \in taken
      PROVE  /\ Copy(r) \in Mail /\ Copy(r).posted = slot /\ Copy(r).epoch = day
             /\ Copy(r).relay = r /\ (Copy(r).ours <=> r \in ExpandRelaySet(ToSet(myList), myDir))
  <2>1. (r \in ExpandRelaySet(ToSet(myList), myDir)) \in BOOLEAN
    OBVIOUS
  <2>2. r \in RelayNames /\ day \in Int
    BY <1>5, <1>7
  <2>3. QED BY <1>4, <2>1, <2>2, Zenon DEF Mail
<1> HIDE DEF Copy
<1>9. EpTypes'
  <2>1. mail' \subseteq Mail
    BY <1>6, <1>8 DEF EpTypes, EpTypeOK
  <2>2. QED BY <1>2, <1>3, <2>1 DEF EpTypes, EpTypeOK
<1>10. EpCaseOK'
  BY <1>3 DEF EpCaseOK
<1>11. MailKept'
  BY <1>2, <1>4, <1>5, <1>6, <1>8 DEF MailKept
<1>12. Settled(drained)'
  BY <1>2 DEF Settled, Today, IntoDay
<1>13. MailHeld'
  <2>1. ASSUME NEW m \in mail, m.ours PROVE HeldBy(m)' /\ m.epoch # drained'
    BY <1>2, <2>1 DEF MailHeld, HeldBy
  <2>2. ASSUME NEW r \in taken, NEW m, m = Copy(r), m.ours PROVE HeldBy(m)' /\ m.epoch # drained'
    <3>1. r \in ExpandRelaySet(ToSet(myList), myDir)
      BY <1>8, <2>2
    <3>2. ToSet(myList) \in SUBSET Entries /\ myDir \in SUBSET Discovered
      BY DEF EpTypes, EpTypeOK, ToSet
    <3>3. \E e \in ToSet(myList) : r \in ExpandRelaySet({e}, myDir)
      BY <3>1, <3>2, RelaysOfEntries
    <3>4. HeldBy(m)'
      BY <1>2, <1>8, <2>2, <3>3 DEF HeldBy
    <3>5. QED BY <1>2, <1>4, <1>5, <1>8, <2>2, <3>4
  <2>3. QED BY <1>6, <2>1, <2>2 DEF MailHeld
<1>14. RoundSound'
  <2>1. SUFFICES ASSUME round.settleOk
                 PROVE  /\ Settled(round.settles)'
                        /\ \A m \in mail' : m.ours /\ m.epoch = round.settles =>
                                               <<m.relay, m.epoch>> \in round.jobs
    BY <1>2 DEF RoundSound
  <2>2. Settled(round.settles) /\ Settled(round.settles)'
    BY <1>2, <2>1 DEF RoundSound, Settled, Today, IntoDay
  <2>3. \A r \in taken : Copy(r).epoch # round.settles
    BY <1>4, <1>5, <1>8, <2>2
  <2>4. QED BY <1>6, <2>1, <2>2, <2>3 DEF RoundSound
<1>15. QED BY <1>9, <1>10, <1>11, <1>12, <1>13, <1>14

LEMMA PassKeeps ==
    ASSUME EpInv, Pass PROVE EpInv'
<1> USE DEF EpInv
<1>1. /\ slot \in Nat /\ slot >= EpochSlots /\ slot' = slot + 1 /\ slot < MaxSlots
      /\ MaxSlots \in Nat /\ EpochSlots \in Nat /\ RelayTtl \in Nat
      /\ drained \in Int /\ round.settles \in Int
      /\ mail' = {m \in mail : m.posted + RelayTtl > slot + 1}
      /\ UNCHANGED <<myList, draining, myDir, drained, round, told, peerDir, epLeft>>
      /\ \A m \in mail : m.posted \in Nat
  BY EpochBounds DEF Pass, EpTypes, EpTypeOK, Rounds, Mail
<1>2. EpTypes'
  <2>1. slot' \in 0 .. MaxSlots /\ slot' >= EpochSlots
    BY <1>1
  <2>2. mail' \subseteq Mail
    BY <1>1 DEF EpTypes, EpTypeOK
  <2>3. QED BY <1>1, <2>1, <2>2 DEF EpTypes, EpTypeOK
<1>3. EpCaseOK'
  BY <1>1 DEF EpCaseOK
<1>4. MailKept'
  BY <1>1 DEF MailKept
<1>5. MailHeld'
  BY <1>1 DEF MailHeld, HeldBy
<1>6. \A e \in Int : Settled(e) => Settled(e)'
  BY <1>1, SettledStays
<1>7. Settled(drained)'
  BY <1>1, <1>6 DEF Settled
<1>8. RoundSound'
  BY <1>1, <1>6 DEF RoundSound, Settled
<1>9. QED BY <1>2, <1>3, <1>4, <1>5, <1>7, <1>8

-----------------------------------------------------------------------------
\* The rounds.
LEMMA StartKeeps ==
    ASSUME EpInv, StartDrain PROVE EpInv'
<1> USE DEF EpInv
<1> DEFINE rd == [NoRoundYet EXCEPT !.running = TRUE, !.jobs = PolledRelays \X PolledEpochs,
                     !.settles = SettlingEpoch, !.settleOk = SettlingEpoch # NoEpoch]
<1>1. UNCHANGED <<slot, myList, draining, myDir, drained, told, peerDir, mail, epLeft>> /\ round' = rd
  BY DEF StartDrain
<1>2. /\ Today \in Nat /\ Today >= 1 /\ IntoDay \in 0 .. (EpochSlots - 1)
      /\ drained \in Int /\ EpochSlots \in Nat
  BY TheDay, EpochBounds DEF EpTypes, EpTypeOK
<1>3. PolledRelays \subseteq RelayNames /\ PolledEpochs \subseteq Int /\ SettlingEpoch \in Int
  <2>1. myDir \in SUBSET Discovered
    BY DEF EpTypes, EpTypeOK
  <2>2. PolledRelays \subseteq RelayNames
    BY <2>1, RelayTypes DEF PolledRelays
  <2>3. QED BY <1>2, <2>2 DEF PolledEpochs, SettlingEpoch, NoEpoch
<1>4. (SettlingEpoch # NoEpoch) \in BOOLEAN /\ PolledRelays \X PolledEpochs \in SUBSET (RelayNames \X Int)
  BY <1>3
<1>5. /\ rd \in Rounds /\ rd.jobs = PolledRelays \X PolledEpochs /\ rd.settles = SettlingEpoch
      /\ rd.settleOk = (SettlingEpoch # NoEpoch)
  <2> DEFINE b == SettlingEpoch # NoEpoch
             js == PolledRelays \X PolledEpochs
  <2>1. rd = [NoRoundYet EXCEPT !.running = TRUE, !.jobs = js, !.settles = SettlingEpoch, !.settleOk = b]
    BY Zenon
  <2>2. b \in BOOLEAN /\ js \in SUBSET (RelayNames \X Int) /\ SettlingEpoch \in Int
    BY <1>3, <1>4
  <2> HIDE DEF b, js, rd
  <2>3. rd \in Rounds /\ rd.jobs = js /\ rd.settles = SettlingEpoch /\ rd.settleOk = b
    BY <2>1, <2>2 DEF NoRoundYet, Rounds
  <2>4. QED BY <2>3 DEF b, js
<1> HIDE DEF rd
<1>6. EpTypes'
  BY <1>1, <1>5 DEF EpTypes, EpTypeOK, Rounds
<1>7. EpCaseOK' /\ MailKept'
  BY <1>1 DEF EpCaseOK, MailKept
<1>8. MailHeld'
  BY <1>1 DEF MailHeld, HeldBy
<1>9. Settled(drained)'
  BY <1>1 DEF Settled, Today, IntoDay
<1>10. RoundSound'
  <2>1. SUFFICES ASSUME SettlingEpoch # NoEpoch
                 PROVE  /\ Settled(SettlingEpoch)
                        /\ \A m \in mail : m.ours /\ m.epoch = SettlingEpoch =>
                                               <<m.relay, m.epoch>> \in PolledRelays \X PolledEpochs
    BY <1>1, <1>5 DEF RoundSound, Settled, Today, IntoDay
  <2>2. SettlingEpoch = Today - 1 /\ IntoDay >= SkewMargin /\ Today - 1 \in PolledEpochs
    BY <2>1 DEF SettlingEpoch
  <2>3. Settled(SettlingEpoch)
    BY <1>2, <2>2 DEF Settled
  <2>4. ASSUME NEW m \in mail, m.ours PROVE m.relay \in PolledRelays
    BY <2>4, HeldIsPolled DEF MailHeld, MailKept
  <2>5. QED BY <2>2, <2>3, <2>4
<1>11. QED BY <1>6, <1>7, <1>8, <1>9, <1>10

LEMMA MissedTypes ==
    ASSUME round \in Rounds, NEW j \in round.jobs
    PROVE  /\ Missed(round, j) \in Rounds
           /\ Missed(round, j).jobs = round.jobs \ {j} /\ Missed(round, j).settles = round.settles
           /\ Missed(round, j).failed = round.failed
           /\ Missed(round, j).settleOk <=> round.settleOk /\ j[2] # round.settles
<1>1. (round.settleOk /\ j[2] # round.settles) \in BOOLEAN
  OBVIOUS
<1>2. round.jobs \ {j} \in SUBSET (RelayNames \X Int)
  BY DEF Rounds
<1> DEFINE b == round.settleOk /\ j[2] # round.settles
           js == round.jobs \ {j}
<1>3. Missed(round, j) = [round EXCEPT !.jobs = js, !.settleOk = b]
  BY Zenon DEF Missed
<1>4. b \in BOOLEAN /\ js \in SUBSET (RelayNames \X Int)
  BY <1>1, <1>2
<1> HIDE DEF b, js
<1>5. /\ Missed(round, j) \in Rounds /\ Missed(round, j).jobs = js
      /\ Missed(round, j).settleOk = b
      /\ Missed(round, j).settles = round.settles /\ Missed(round, j).failed = round.failed
  BY <1>3, <1>4 DEF Rounds
<1>6. b <=> round.settleOk /\ j[2] # round.settles
  BY DEF b
<1>7. QED BY <1>5, <1>6 DEF js

\* A round that loses a job loses the epoch of that job.
LEMMA MissedKeeps ==
    ASSUME EpInv, NEW j \in round.jobs, round' \in Rounds,
           round'.jobs = round.jobs \ {j}, round'.settles = round.settles,
           round'.settleOk <=> round.settleOk /\ j[2] # round.settles,
           epLeft' \in EpochCase, epLeft'.skews = epLeft.skews,
           epLeft'.partial = epLeft.partial, epLeft'.drops = epLeft.drops,
           UNCHANGED <<slot, myList, draining, myDir, drained, told, peerDir, mail>>
    PROVE  EpInv'
<1> USE DEF EpInv
<1>1. EpTypes'
  BY DEF EpTypes, EpTypeOK, Rounds
<1>2. EpCaseOK' /\ MailKept'
  BY DEF EpCaseOK, MailKept
<1>3. MailHeld'
  BY DEF MailHeld, HeldBy
<1>4. Settled(drained)'
  BY DEF Settled, Today, IntoDay
<1>5. RoundSound'
  <2>1. SUFFICES ASSUME round'.settleOk
                 PROVE  /\ Settled(round.settles)
                        /\ \A m \in mail : m.ours /\ m.epoch = round.settles =>
                                               <<m.relay, m.epoch>> \in round.jobs \ {j}
    BY DEF RoundSound, Settled, Today, IntoDay
  <2>2. round.settleOk /\ j[2] # round.settles
    BY <2>1
  <2>3. QED BY <2>2 DEF RoundSound
<1>6. QED BY <1>1, <1>2, <1>3, <1>4, <1>5

LEMMA MissKeeps ==
    ASSUME EpInv, SkipJob \/ FailJob PROVE EpInv'
<1>1. round \in Rounds /\ epLeft \in EpochCase
  BY DEF EpInv, EpTypes
<1>2. CASE SkipJob
  <2>1. PICK j \in round.jobs : round' = Missed(round, j)
    BY <1>2 DEF SkipJob
  <2>2. UNCHANGED <<slot, myList, draining, myDir, drained, told, peerDir, mail, epLeft>>
    BY <1>2 DEF SkipJob
  <2>3. QED BY <1>1, <2>1, <2>2, MissedTypes, MissedKeeps
<1>3. CASE FailJob
  <2>1. PICK j \in round.jobs : round' = [Missed(round, j) EXCEPT !.failed[j[1]] = @ + 1]
    BY <1>3 DEF FailJob
  <2>2. /\ UNCHANGED <<slot, myList, draining, myDir, drained, told, peerDir, mail>>
        /\ epLeft' = [epLeft EXCEPT !.fails = @ - 1] /\ epLeft.fails > 0
    BY <1>3 DEF FailJob
  <2>3. /\ epLeft' \in EpochCase /\ epLeft'.skews = epLeft.skews
        /\ epLeft'.partial = epLeft.partial /\ epLeft'.drops = epLeft.drops
    BY <1>1, <2>2 DEF EpochCase
  <2> DEFINE rd == Missed(round, j)
  <2>4. /\ rd \in Rounds /\ rd.jobs = round.jobs \ {j} /\ rd.settles = round.settles
        /\ rd.settleOk <=> round.settleOk /\ j[2] # round.settles
    BY <1>1, MissedTypes
  <2> HIDE DEF rd
  <2>5. j[1] \in RelayNames
    BY <1>1 DEF Rounds
  <2>6. /\ round' \in Rounds /\ round'.jobs = rd.jobs /\ round'.settles = rd.settles
        /\ round'.settleOk = rd.settleOk
    BY <2>1, <2>4, <2>5 DEF rd, Rounds
  <2>7. QED BY <2>2, <2>3, <2>4, <2>6, MissedKeeps
<1>4. QED BY <1>2, <1>3

LEMMA TakeMailKeeps ==
    ASSUME EpInv, TakeJob PROVE EpInv'
<1> USE DEF EpInv
<1>1. PICK j \in round.jobs :
          /\ mail' = mail \ {m \in mail : m.relay = j[1] /\ m.epoch = j[2]}
          /\ round' = [round EXCEPT !.jobs = @ \ {j}, !.ok = @ \cup {j[1]}]
  BY DEF TakeJob, EpCaseOK
<1>2. UNCHANGED <<slot, myList, draining, myDir, drained, told, peerDir, epLeft>> /\ round \in Rounds
  BY DEF TakeJob, EpTypes
<1>3. j[1] \in RelayNames /\ j[2] \in Int /\ j = <<j[1], j[2]>>
  BY <1>2 DEF Rounds
<1>4. /\ round' \in Rounds /\ round'.jobs = round.jobs \ {j} /\ round'.settles = round.settles
      /\ round'.settleOk = round.settleOk
  BY <1>1, <1>2, <1>3 DEF Rounds
<1>5. EpTypes'
  BY <1>1, <1>2, <1>4 DEF EpTypes, EpTypeOK, Rounds
<1>6. EpCaseOK' /\ MailKept'
  BY <1>1, <1>2 DEF EpCaseOK, MailKept
<1>7. MailHeld'
  BY <1>1, <1>2 DEF MailHeld, HeldBy
<1>8. Settled(drained)'
  BY <1>2 DEF Settled, Today, IntoDay
<1>9. RoundSound'
  <2>1. SUFFICES ASSUME round.settleOk
                 PROVE  /\ Settled(round.settles)
                        /\ \A m \in mail' : m.ours /\ m.epoch = round.settles =>
                                                <<m.relay, m.epoch>> \in round.jobs \ {j}
    BY <1>2, <1>4 DEF RoundSound, Settled, Today, IntoDay
  <2>2. ASSUME NEW m \in mail', m.ours, m.epoch = round.settles
        PROVE  <<m.relay, m.epoch>> \in round.jobs \ {j}
    <3>1. m \in mail /\ ~(m.relay = j[1] /\ m.epoch = j[2])
      BY <1>1
    <3>2. QED BY <1>3, <2>1, <2>2, <3>1 DEF RoundSound
  <2>3. QED BY <2>1, <2>2 DEF RoundSound
<1>10. QED BY <1>5, <1>6, <1>7, <1>8, <1>9

LEMMA RoundEndKeeps ==
    ASSUME EpInv, ApplyHarvest \/ RestartDevice PROVE EpInv'
<1> USE DEF EpInv
<1>1. /\ UNCHANGED <<slot, myList, draining, myDir, told, peerDir, mail>> /\ round' = NoRoundYet
      /\ round \in Rounds /\ epLeft \in EpochCase /\ drained \in Int
  BY DEF ApplyHarvest, RestartDevice, EpTypes, EpTypeOK
<1>2. /\ epLeft' \in EpochCase /\ epLeft'.skews = epLeft.skews
      /\ epLeft'.partial = epLeft.partial /\ epLeft'.drops = epLeft.drops
  BY <1>1 DEF ApplyHarvest, RestartDevice, EpochCase
<1>3. NoRoundYet \in Rounds /\ NoRoundYet.jobs = {} /\ ~NoRoundYet.settleOk
  BY DEF NoRoundYet, Rounds, NoEpoch
<1>4. /\ drained' \in Int /\ Settled(drained')
      /\ \A m \in mail : m.ours => m.epoch # drained'
  <2>1. CASE drained' = drained
    BY <1>1, <2>1 DEF MailHeld
  <2>2. CASE ApplyHarvest /\ round.settleOk
    <3>1. drained' = round.settles /\ round.jobs = {}
      BY <2>2 DEF ApplyHarvest
    <3>2. QED BY <1>1, <2>2, <3>1 DEF RoundSound, Rounds
  <2>3. CASE RestartDevice
    <3>1. drained' = -1 /\ Today \in Nat /\ Today >= 1
      BY <2>3, TheDay DEF RestartDevice, NoEpoch, EpTypes, EpTypeOK
    <3>2. \A m \in mail : m.epoch \in Int /\ m.epoch >= 0
      BY DEF MailKept, EpTypes, EpTypeOK, Mail
    <3>3. QED BY <3>1, <3>2 DEF Settled
  <2>4. QED BY <2>1, <2>2, <2>3 DEF ApplyHarvest
<1>5. EpTypes'
  BY <1>1, <1>2, <1>3, <1>4 DEF EpTypes, EpTypeOK
<1>6. EpCaseOK' /\ MailKept'
  BY <1>1, <1>2 DEF EpCaseOK, MailKept
<1>7. MailHeld'
  BY <1>1, <1>4 DEF MailHeld, HeldBy
<1>8. Settled(drained)'
  BY <1>1, <1>4 DEF Settled, Today, IntoDay
<1>9. RoundSound'
  BY <1>1, <1>3 DEF RoundSound
<1>10. QED BY <1>5, <1>6, <1>7, <1>8, <1>9

\* With clocks off by no more than the margin, whole answers and a directory
\* that only grows, mail a relay took while it was listed is never left in a
\* mailbox the device does not ask (polled_epochs, settling_epoch,
\* apply_relay_harvest, set_relay_list_at, polled_relay_set).
THEOREM MailIsAlwaysPolled == HonestPeers => (EpSpec => []MailIsPolled)
<1> SUFFICES ASSUME HonestPeers PROVE EpSpec => []MailIsPolled
  OBVIOUS
<1>1. EpInit => EpInv
  BY EpStarts
<1>2. EpInv /\ [EpNext]_epVars => EpInv'
  <2> SUFFICES ASSUME EpInv, [EpNext]_epVars PROVE EpInv'
    OBVIOUS
  <2>1. CASE EditRelays
    BY <2>1, EditKeeps
  <2>2. CASE PeerIsTold \/ AdoptTheirs \/ UNCHANGED epVars
    BY <2>2, ToldKeeps
  <2>3. CASE AdoptOurs
    BY <2>3, AdoptKeeps
  <2>4. CASE PeerPosts
    BY <2>4, PostKeeps
  <2>5. CASE Pass
    BY <2>5, PassKeeps
  <2>6. CASE StartDrain
    BY <2>6, StartKeeps
  <2>7. CASE SkipJob \/ FailJob
    BY <2>7, MissKeeps
  <2>8. CASE TakeJob
    BY <2>8, TakeMailKeeps
  <2>9. CASE ApplyHarvest \/ RestartDevice
    BY <2>9, RoundEndKeeps
  <2>10. QED BY <2>1, <2>2, <2>3, <2>4, <2>5, <2>6, <2>7, <2>8, <2>9 DEF EpNext
<1>3. EpInv => MailIsPolled
  BY InvariantIsEnough
<1>4. QED BY <1>1, <1>2, <1>3, PTL DEF EpSpec
===============================================================================
