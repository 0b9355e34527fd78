------------------------------- MODULE Media -------------------------------
(***************************************************************************)
(* Attachments (core/src/node/messaging.rs, frames.rs): sealed into one    *)
(* file each, announced by a pre-signal with a preview, completed by the   *)
(* payload, opened as a decrypted copy for the system player, and removed  *)
(* with their message.  "a" sends to "b"; a payload may arrive directly    *)
(* and again from a relay copy.  The state file is written after the       *)
(* files, so a kill may fall between.                                      *)
(***************************************************************************)
EXTENDS Naturals, FiniteSets

CONSTANTS
    Transfers,     \* transfer ids
    Kinds,         \* what is sent: "image", "video", "burn"
    MaxAllowance,  \* items the receiver's daily allowance has left
    MaxMediaKills, \* bound on kills
    InOrder        \* TRUE when the pre-signal and the payload take the same route

ASSUME MediaAssumption ==
    /\ Kinds \subseteq {"image", "video", "burn"}
    /\ MaxAllowance \in Nat /\ MaxMediaKills \in Nat /\ InOrder \in BOOLEAN

VARIABLES
    box,      \* per device: history, files, decrypted copies, spent keys
    saved,    \* per device: what its state file holds
    flying,   \* frames under way
    sent,     \* transfers sent so far
    removed,  \* ghost: per device, the transfers whose message was deleted
    kills
medVars == <<box, saved, flying, sent, removed, kills>>

Ends2 == {"a", "b"}
Payload(t) == <<"payload", t>>
Preview(t) == <<"preview", t>>

\* An entry of the history: the sealed files it names, if any.
MediaMsg(t, mine, kind, file, thumb) ==
    [t |-> t, mine |-> mine, kind |-> kind, file |-> file, thumb |-> thumb]
Refs(history) ==
    {Payload(m.t) : m \in {h \in history : h.file}} \cup {Preview(m.t) : m \in {h \in history : h.thumb}}

MedInit ==
    /\ \E left \in 0..MaxAllowance :
          box = [d \in Ends2 |-> [up |-> TRUE, history |-> {}, files |-> {}, scratch |-> {},
                                  spent |-> {}, left |-> left]]
    /\ saved = [d \in Ends2 |-> [history |-> {}, spent |-> {}, gone |-> {}]]
    /\ flying = {} /\ sent = {} /\ removed = [d \in Ends2 |-> {}] /\ kills = 0

---------------------------------------------------------------------------
\* send_burn_media: no preview and no pre-signal for a message still hidden.
Shows(kind, thumb) == thumb => kind # "burn"

\* The pre-signal of a video, and the payload on every route it takes.
PreSignal(t, kind, thumb) ==
    IF kind = "video" THEN {[kind |-> "incoming", t |-> t, route |-> "direct", thumb |-> thumb]} ELSE {}
PayloadFrames(t, kind, copies) == {[kind |-> kind, t |-> t, route |-> r] : r \in copies}

\* send_media_inner: scrub (module Scrub), pre-signal a video, seal the payload
\* and its preview, record the message, hand the frames over.  The api call
\* saves before it returns.
SendMedia(t, kind, thumb, copies) ==
    /\ box["a"].up /\ t \notin sent /\ Shows(kind, thumb)
    /\ LET m == MediaMsg(t, TRUE, kind, TRUE, thumb)
       IN  /\ box' = [box EXCEPT !["a"].history = @ \cup {m}, !["a"].files = @ \cup Refs({m})]
           /\ saved' = [saved EXCEPT !["a"] = [history |-> box["a"].history \cup {m},
                                               spent |-> box["a"].spent, gone |-> removed["a"]]]
    /\ flying' = flying \cup PayloadFrames(t, kind, copies) \cup PreSignal(t, kind, thumb)
    /\ sent' = sent \cup {t}
    /\ UNCHANGED <<removed, kills>>

---------------------------------------------------------------------------
(* Receiving.  A ciphertext opens once: its key is spent with it.          *)

Cipher(f) == IF f.kind = "incoming" THEN <<"pre", f.t>> ELSE <<"media", f.t>>

\* Mutant: a second copy of a ciphertext opens as well.
OpensAlways(d, f) == TRUE

Opens(d, f) == Cipher(f) \notin box[d].spent
Consume(f) == flying' = flying \ {f}
Admitted(d) == box[d].left > 0

Undecryptable(f) ==
    /\ box["b"].up /\ f \in flying /\ ~Opens("b", f)
    /\ Consume(f)
    /\ UNCHANGED <<box, saved, sent, removed, kills>>

\* A placeholder with its preview; over the allowance, nothing.
RecvIncoming(f) ==
    /\ box["b"].up /\ f \in flying /\ f.kind = "incoming" /\ Opens("b", f)
    /\ LET m == MediaMsg(f.t, FALSE, "video", FALSE, f.thumb)
       IN  box' = [box EXCEPT !["b"].spent = @ \cup {Cipher(f)},
                     !["b"].left    = IF Admitted("b") THEN @ - 1 ELSE 0,
                     !["b"].history = IF Admitted("b") THEN @ \cup {m} ELSE @,
                     !["b"].files   = IF Admitted("b") THEN @ \cup Refs({m}) ELSE @]
    /\ Consume(f)
    /\ UNCHANGED <<saved, sent, removed, kills>>

Waits(m, t) == m.t = t /\ ~m.mine /\ ~m.file

\* Over the allowance the placeholder goes and nothing is stored.
RefusePayload(f) ==
    /\ box' = [box EXCEPT !["b"].spent = @ \cup {Cipher(f)},
                          !["b"].history = {m \in @ : ~Waits(m, f.t)}]

\* Mutant: the payload is always a new message.
NeverCompletes(f) ==
    LET done == MediaMsg(f.t, FALSE, f.kind, TRUE, FALSE)
    IN  box' = [box EXCEPT !["b"].spent = @ \cup {Cipher(f)}, !["b"].left = @ - 1,
                  !["b"].history = {m \in @ : ~Waits(m, f.t)} \cup {done},
                  !["b"].files = @ \cup {Payload(f.t)}]

\* Sealed, then the placeholder of its transfer completed, or a new message.
KeepPayload(f) ==
    LET open == {m \in box["b"].history : Waits(m, f.t)}
        done == IF open = {} THEN {MediaMsg(f.t, FALSE, f.kind, TRUE, FALSE)}
                ELSE {[m EXCEPT !.file = TRUE] : m \in open}
    IN  box' = [box EXCEPT !["b"].spent = @ \cup {Cipher(f)}, !["b"].left = @ - 1,
                  !["b"].history = (@ \ open) \cup done,
                  !["b"].files = @ \cup {Payload(f.t)}]

RecvMedia(f) ==
    /\ box["b"].up /\ f \in flying /\ f.kind # "incoming" /\ Opens("b", f)
    /\ IF \E m \in box["b"].history : m.t = f.t /\ ~m.mine /\ m.file
       THEN box' = [box EXCEPT !["b"].spent = @ \cup {Cipher(f)}]
       ELSE IF ~Admitted("b") THEN RefusePayload(f) ELSE KeepPayload(f)
    /\ Consume(f)
    /\ UNCHANGED <<saved, sent, removed, kills>>

\* A frame lost with its connection, or aged off the relay.
LoseMedia(f) ==
    /\ f \in flying
    /\ Consume(f)
    /\ UNCHANGED <<box, saved, sent, removed, kills>>

---------------------------------------------------------------------------
\* media_to_file: the decrypted copy the system player opens.
OpenMedia(d, t) ==
    /\ box[d].up /\ Payload(t) \in box[d].files
    /\ \E m \in box[d].history : m.t = t /\ m.file
    /\ box' = [box EXCEPT ![d].scratch = @ \cup {t}]
    /\ UNCHANGED <<saved, flying, sent, removed, kills>>

ClearOpenCache(d) ==
    /\ box[d].up /\ box[d].scratch # {}
    /\ box' = [box EXCEPT ![d].scratch = {}]
    /\ UNCHANGED <<saved, flying, sent, removed, kills>>

\* Mutant: the sealed file goes and the decrypted copy stays.
ForgetSealedOnly(b, refs) == [b EXCEPT !.files = @ \ refs]

\* forget_media: the sealed file and any decrypted copy.
ForgetMedia(b, refs) ==
    [b EXCEPT !.files = @ \ refs, !.scratch = {t \in @ : Payload(t) \notin refs}]

\* A burn, a timer, an unsend, a view receipt or a deleted chat takes a message
\* and the files it names.
RemoveMessage(d, m) ==
    /\ box[d].up /\ m \in box[d].history
    /\ box' = [box EXCEPT ![d] = ForgetMedia([box[d] EXCEPT !.history = @ \ {m}], Refs({m}))]
    /\ removed' = [removed EXCEPT ![d] = IF m.file THEN @ \cup {m.t} ELSE @]
    /\ UNCHANGED <<saved, flying, sent, kills>>

SaveState(d) ==
    /\ box[d].up
    /\ saved' = [saved EXCEPT ![d] = [history |-> box[d].history, spent |-> box[d].spent,
                                       gone |-> removed[d]]]
    /\ saved' # saved
    /\ UNCHANGED <<box, flying, sent, removed, kills>>

\* A kill leaves the files and the state file; the launch sweeps the decrypted
\* copies of the previous run before anything reads them.
KillMedia(d) ==
    /\ box[d].up /\ kills < MaxMediaKills
    /\ kills' = kills + 1
    /\ box' = [box EXCEPT ![d].up = FALSE]
    /\ UNCHANGED <<saved, flying, sent, removed>>

LaunchMedia(d) ==
    /\ ~box[d].up
    /\ box' = [box EXCEPT ![d].up = TRUE, ![d].history = saved[d].history,
                          ![d].spent = saved[d].spent, ![d].scratch = {},
                          ![d].left = MaxAllowance]
    /\ removed' = [removed EXCEPT ![d] = saved[d].gone]
    /\ UNCHANGED <<saved, flying, sent, kills>>

MedNext ==
    \/ \E t \in Transfers, kind \in Kinds, thumb \in BOOLEAN,
          copies \in {{"direct"}, {"relay"}, {"direct", "relay"}} : SendMedia(t, kind, thumb, copies)
    \/ \E f \in flying :
          \/ RecvIncoming(f)
          \/ (InOrder => \A g \in flying : g.t = f.t => g.kind # "incoming") /\ RecvMedia(f)
          \/ Undecryptable(f) \/ LoseMedia(f)
    \/ \E d \in Ends2 :
          \/ \E t \in Transfers : OpenMedia(d, t)
          \/ \E m \in box[d].history : RemoveMessage(d, m)
          \/ ClearOpenCache(d) \/ SaveState(d) \/ KillMedia(d) \/ LaunchMedia(d)

MedSpec == MedInit /\ [][MedNext]_medVars

---------------------------------------------------------------------------

\* One message per transfer and device.
MedTypeOK ==
    /\ sent \subseteq Transfers
    /\ \A d \in Ends2 : \A m, n \in box[d].history : m.t = n.t => m = n

\* No attachment is stranded: without a kill, and within the allowance, the
\* sealed files are exactly those the history names, whatever copies arrive
\* and whatever is deleted (the Media handler, store_media, forget_media).
NothingStranded ==
    kills = 0 /\ box["b"].left > 0 => \A d \in Ends2 : box[d].files = Refs(box[d].history)

\* A decrypted copy never outlives its sealed original in a running app
\* (forget_media, set_media_store's sweep).
PlainCopiesFollow ==
    \A d \in Ends2 : box[d].up => \A t \in box[d].scratch : Payload(t) \in box[d].files

\* A deleted attachment stays deleted once that is saved, though its relay copy
\* arrives later and the app is killed in between (the spent key is saved with
\* the history that lost the message).
GoneStaysGone ==
    \A d \in Ends2 : \A m \in box[d].history : m.file => m.t \notin removed[d]

\* NothingStranded, PlainCopiesFollow and GoneStaysGone: attachments live and go with
\* the messages that name them.
AttachmentsHold == MedTypeOK /\ NothingStranded /\ PlainCopiesFollow /\ GoneStaysGone
=============================================================================
