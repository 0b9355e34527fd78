----------------------------- MODULE BridgeFetch ----------------------------
(***************************************************************************)
(* Fetching bridge lines while Tor does not work (moat/): one or two       *)
(* requests to the bridge service, each a TLS session carried in meek      *)
(* round trips through fronts that may be blocked.                         *)
(*                                                                         *)
(* A round trip is tried again on the next front with the same bytes and   *)
(* the same session id.  Where the first copy had arrived and only its     *)
(* answer was lost, the far end gets the bytes twice and the client misses *)
(* some: neither TLS session goes on from there.                           *)
(***************************************************************************)
EXTENDS Integers, Sequences

CONSTANTS
    Fronts,       \* how many fronts the targets name
    MaxAttempts,  \* tries of one round trip
    UpPieces,     \* round trips the request takes up
    DownPieces,   \* round trips the answer takes down
    MaxIdle       \* idle polls, a bound

ASSUME FetchAssumption ==
    /\ {Fronts, MaxAttempts, UpPieces, DownPieces} \subseteq Nat \ {0}
    /\ MaxIdle \in Nat

\* lines: usable ones; empty: Tor works there without help; unknown: 406;
\* none: 404; broken: another error, another status, or not the expected JSON.
Answers == {"lines", "empty", "unknown", "none", "broken"}

VARIABLES
    fcall,    \* the fetch: which request, and its result
    fmeek,    \* the tunnel: front, tries, pieces sent up and taken down
    ffar,     \* the far end of this tunnel: pieces it got, pieces it answered
    fanswer   \* what the service answers to each request
fetchVars == <<fcall, fmeek, ffar, fanswer>>

NewTunnel == [front |-> 1, tries |-> 0, again |-> FALSE, up |-> 0, down |-> 0, idle |-> 0]
NewFar == [got |-> <<>>, down |-> 0]

\* The far end's session stands while every piece came once and in order.
Intact(far) == far.got = [i \in 1..Len(far.got) |-> i]
RequestArrived(far) == Intact(far) /\ Len(far.got) = UpPieces

\* What a POST of piece p (0: an idle poll) leaves at the far end, and the piece
\* its reply carries: 0 for none, Closed once the destination hung up.  ready: the
\* service has the next piece of its answer.
Closed == -1
AfterPost(far, p, ready) ==
    LET f == IF p = 0 \/ ~Intact(far) THEN far ELSE [far EXCEPT !.got = Append(@, p)]
    IN IF ready /\ RequestArrived(f) /\ f.down < DownPieces THEN [f EXCEPT !.down = @ + 1] ELSE f
Carried(far, p, ready) ==
    LET f == AfterPost(far, p, ready)
    IN IF ~Intact(f) \/ far.down = DownPieces THEN Closed
       ELSE IF f.down > far.down THEN f.down ELSE 0

Piece(m) == IF m.up < UpPieces THEN m.up + 1 ELSE 0

End(result) == fcall' = [fcall EXCEPT !.at = result]

\* http::parse: nothing until the buffer holds a whole response.
Whole(down) == down = DownPieces

\* moat::fetch: the settings for the country, and the defaults where the service
\* has no recommendation; the second request opens a tunnel of its own.
Judge ==
    LET a == fanswer[fcall.at] IN
    /\ IF a = "lines" THEN End("fetched")
       ELSE IF fcall.at = "settings" /\ a \in {"empty", "unknown"}
       THEN fcall' = [at |-> "defaults", from |-> "defaults"]
       ELSE End("failed")
    /\ fmeek' = NewTunnel /\ ffar' = NewFar

\* A round trip succeeds (try_once, https_post): what came down goes through TLS
\* and the parser.
RoundTrip(ready) ==
    /\ fcall.at \in {"settings", "defaults"}
    /\ ~ready => fmeek.idle < MaxIdle
    /\ LET p == Piece(fmeek)
           got == Carried(ffar, p, ready)
           m == [fmeek EXCEPT !.tries = 0, !.again = FALSE, !.up = IF p = 0 THEN @ ELSE p,
                              !.down = IF got > 0 THEN got ELSE @,
                              !.idle = IF ready THEN @ ELSE @ + 1]
       IN IF got > 0 /\ got # fmeek.down + 1
          THEN End("failed") /\ UNCHANGED <<fmeek, ffar>>      \* TLS failed
          ELSE IF Whole(m.down) THEN Judge
          ELSE IF got = Closed THEN End("failed") /\ UNCHANGED <<fmeek, ffar>>
          ELSE fmeek' = m /\ ffar' = AfterPost(ffar, p, ready) /\ fcall' = fcall
    /\ UNCHANGED fanswer

\* Mutant: the tries are not counted.
NextFrontForever(m) == [m EXCEPT !.front = (@ % Fronts) + 1, !.again = TRUE]

\* round_trip: drop the connection and move to the next front.
NextFront(m) == [m EXCEPT !.front = (@ % Fronts) + 1, !.again = TRUE, !.tries = @ + 1]

\* A try fails; arrived: the bytes had reached the reflector, and only the answer
\* was lost.
TryFails(arrived, ready) ==
    /\ fcall.at \in {"settings", "defaults"}
    /\ ffar' = IF arrived THEN AfterPost(ffar, Piece(fmeek), ready) ELSE ffar
    /\ LET m == NextFront(fmeek) IN
       IF m.tries = MaxAttempts THEN End("failed") /\ UNCHANGED fmeek
       ELSE fmeek' = m /\ fcall' = fcall
    /\ UNCHANGED fanswer

\* The deadline, looked at between round trips only.
Deadline ==
    /\ fcall.at \in {"settings", "defaults"} /\ ~fmeek.again
    /\ End("failed")
    /\ UNCHANGED <<fmeek, ffar, fanswer>>

FetchInit ==
    /\ fcall = [at |-> "settings", from |-> "settings"]
    /\ fmeek = NewTunnel /\ ffar = NewFar
    /\ fanswer \in [{"settings", "defaults"} -> Answers]

Try == \E ready \in BOOLEAN : RoundTrip(ready) \/ \E arrived \in BOOLEAN : TryFails(arrived, ready)

FetchNext == Try \/ Deadline

FetchSpec == FetchInit /\ [][FetchNext]_fetchVars

\* The loop goes on until it returns, and the deadline passes some time.
FetchFairness ==
    /\ WF_fetchVars(Try)
    /\ SF_fetchVars(Deadline)
FetchFairSpec == FetchSpec /\ FetchFairness

----------------------------------------------------------------------------
(* Properties *)

FetchTypeOK ==
    /\ fcall.at \in {"settings", "defaults", "fetched", "failed"}
    /\ fmeek.front \in 1..Fronts /\ fmeek.tries \in 0..MaxAttempts
    /\ fmeek.up \in 0..UpPieces /\ fmeek.down \in 0..DownPieces

\* The fetch ends, whichever fronts are blocked (MAX_ATTEMPTS, REQUEST_TIMEOUT).
FetchEnds == <>(fcall.at \in {"fetched", "failed"})

=============================================================================
