------------------------------- MODULE Scrub -------------------------------
(***************************************************************************)
(* What leaves and enters with an attachment: the sender's scrubber        *)
(* (core/src/node/media_scrub.rs) and the recipient's checks               *)
(* (core/src/node/media_kind.rs).  A container is abstracted to the        *)
(* elements the two walk over, in file order; an element either still      *)
(* holds what was recorded or has been blanked in place.  A scrub edits    *)
(* elements and never moves one, so positions are not modelled.            *)
(***************************************************************************)
EXTENDS Naturals, Sequences, SequencesExt

CONSTANTS
    MaxElements,   \* bound on the elements of a container
    Containers,    \* the kinds of attachment looked at: "jpeg", "iso", "matroska", "avi"
    Unwalkable     \* TRUE to include files whose walk stops early

ASSUME ScrubAssumption ==
    MaxElements \in Nat /\ Containers \subseteq {"jpeg", "iso", "matroska", "avi"} /\ Unwalkable \in BOOLEAN

VARIABLES
    original,   \* the attachment the user picked
    wire,       \* what was sent: a file, or the refusal
    seen        \* what became of it at the other end
scrubVars == <<original, wire, seen>>

Refused == [is |-> "refused"]
Nothing == [is |-> "nothing"]
IsFile(f) == f.is \notin {"refused", "nothing"}

\* The first index of s whose element satisfies P, or one past the end.
FirstIndex(s, P(_)) ==
    LET hits == {i \in 1..Len(s) : P(s[i])} IN IF hits = {} THEN Len(s) + 1 ELSE CHOOSE i \in hits : \A j \in hits : i <= j

---------------------------------------------------------------------------
(* JPEG: marker segments before the scan, the scan with what lies between  *)
(* it and the end-of-image marker, and bytes after that marker.            *)

Coding == {"app0", "dqt", "rst", "frame"}
MetaSegments == {"exif", "comment"}
OtherFrames == {"lossless", "huge"}

\* jpeg_frame: the walk to the frame header; only fill, stand-alone markers and
\* other segments may precede it.
FrameAt(f) == FirstIndex(f.segments, LAMBDA s : s \notin {"app0", "dqt", "rst", "exif", "comment"})

\* displayable_image: a Huffman-coded frame of sane size.
DisplayableImage(f) ==
    /\ f.is = "jpeg" /\ f.magic
    /\ FrameAt(f) <= Len(f.segments) /\ f.segments[FrameAt(f)] = "frame"

\* Mutant: the frame header counts as a segment to drop.
ScrubKeepsNoFrame(f) ==
    IF ~DisplayableImage(f) THEN Refused
    ELSE [f EXCEPT !.segments = SelectSeq(@, LAMBDA s : s \in {"app0", "dqt", "rst"}), !.after = FALSE]

\* scrub_jpeg: metadata segments before the scan go, the scan stays as it is up
\* to the end-of-image marker, and nothing after it.
ScrubJpeg(f) ==
    IF ~DisplayableImage(f) \/ \E i \in 1..Len(f.segments) : f.segments[i] = "broken" THEN Refused
    ELSE [f EXCEPT !.segments = SelectSeq(@, LAMBDA s : s \notin MetaSegments), !.after = FALSE]

---------------------------------------------------------------------------
(* ISO base media: the top-level boxes, one movie header, and a tail that  *)
(* is no box: a trailer, less than a box header, or a box cut short.       *)

IsoMetadata == {"udta", "uuid"}
Leading == {"ftyp", "moov", "mdat", "free"}
HasMoov(f) == \E i \in 1..Len(f.top) : f.top[i] = "moov"

\* scrub_moov: header, track and media header times, user data and metadata
\* boxes of the movie and of the track.
MoovWhole(v) == v.whole /\ v.trackWhole /\ v.mediaWhole
\* Mutant: the movie header's walk ends at the first level.
ScrubMoovTop(v) == [v EXCEPT !.times = FALSE, !.meta = FALSE]

ScrubMoov(v) ==
    [v EXCEPT !.times = FALSE, !.trackTimes = FALSE, !.mediaTimes = FALSE, !.meta = FALSE, !.trackMeta = FALSE]

\* scrub_iso.
ScrubIso(f) ==
    IF \/ f.top = <<>> \/ f.top[1] \notin Leading
       \/ ~HasMoov(f) \/ ~MoovWhole(f.moov)
    THEN Refused
    ELSE [f EXCEPT !.top = [i \in DOMAIN @ |-> IF @[i] \in IsoMetadata THEN "free" ELSE @[i]],
                   !.moov = ScrubMoov(@),
                   !.tail = IF @ \in {"trailer", "short"} THEN @ \o "0" ELSE @]

\* boxes, iso_bmff_is_self_contained, drefs_self_contained: every size adds up
\* (zeros read as one last box, given room for its header) and every data
\* reference is the file itself.
SelfContained(f) ==
    /\ f.tail \in {"none", "trailer0"}
    /\ HasMoov(f) /\ MoovWhole(f.moov) /\ ~f.moov.remote

---------------------------------------------------------------------------
(* Matroska: the segment's elements up to the first the walk cannot pass   *)
(* (unknown size, or one that does not fit).  AVI: the same over chunks.   *)

Stops(e) == e \in {"open", "cut"}
Walked(s) == SubSeq(s, 1, FirstIndex(s, Stops) - 1)

\* ebml_void, INFO_DATE_UTC: the tags, attachments, title and date.
Blanked(e) == IF e \in {"tags", "info"} THEN e \o "0" ELSE e

\* scrub_matroska, ebml_at.
ScrubMatroska(f) ==
    IF ~f.header THEN Refused
    ELSE [f EXCEPT !.elements = [i \in DOMAIN @ |-> IF i <= Len(Walked(@)) THEN Blanked(@[i]) ELSE @[i]]]

\* scrub_avi, riff_chunks: LIST INFO and the recording date in LIST hdrl.
ScrubAvi(f) ==
    [f EXCEPT !.elements = [i \in DOMAIN @ |-> IF i <= Len(Walked(@)) THEN Blanked(@[i]) ELSE @[i]]]

\* scrub_video.
ScrubVideo(f) ==
    CASE f.is = "matroska" -> ScrubMatroska(f)
      [] f.is = "avi"      -> ScrubAvi(f)
      [] f.is = "iso"      -> ScrubIso(f)

---------------------------------------------------------------------------
(* The two ends.                                                           *)

UpTo(S) == UNION {[1..n -> S] : n \in 0..MaxElements}
Moovs == [times : {TRUE}, meta : BOOLEAN, whole : BOOLEAN, trackTimes : {TRUE}, trackMeta : BOOLEAN,
          trackWhole : BOOLEAN, mediaTimes : {TRUE}, mediaWhole : BOOLEAN, remote : BOOLEAN]

Photos == [is : {"jpeg"}, magic : BOOLEAN, after : BOOLEAN,
           segments : UpTo(Coding \cup MetaSegments \cup OtherFrames \cup {"broken"})]
IsoFiles == [is : {"iso"}, top : UpTo({"ftyp", "moov", "mdat", "uuid", "alien"}), moov : Moovs,
             tail : {"none", "trailer", "short"} \cup (IF Unwalkable THEN {"cut"} ELSE {})]
Lists == UpTo({"tags", "info", "cluster"} \cup (IF Unwalkable THEN {"open", "cut"} ELSE {}))
Files ==
    UNION {CASE c = "jpeg"     -> Photos
             [] c = "iso"      -> IsoFiles
             [] c = "matroska" -> [is : {"matroska"}, header : BOOLEAN, elements : Lists]
             [] c = "avi"      -> [is : {"avi"}, elements : Lists] : c \in Containers}

ScrubInit == original \in Files /\ wire = Nothing /\ seen = "nothing"

\* send_media_inner: a photo is scrubbed or refused, a video likewise.
SendScrubbed ==
    /\ wire = Nothing
    /\ wire' = IF original.is = "jpeg" THEN ScrubJpeg(original) ELSE ScrubVideo(original)
    /\ UNCHANGED <<original, seen>>

\* The preview of a video: one that does not clean is dropped, not the video.
SendPreview ==
    /\ wire = Nothing /\ original.is = "jpeg"
    /\ wire' = IF ScrubJpeg(original) = Refused THEN [is |-> "dropped"] ELSE ScrubJpeg(original)
    /\ UNCHANGED <<original, seen>>

\* video_ext: the container by its own bytes, ISO files only if self-contained.
VideoExt(f) == (f.is = "iso" /\ f.top # <<>> /\ f.top[1] \in Leading) => SelfContained(f)

\* media_bytes draws a photo, media_to_file opens a video.
Receive ==
    /\ IsFile(wire) /\ wire.is # "dropped" /\ seen = "nothing"
    /\ seen' = IF wire.is = "jpeg"
               THEN (IF DisplayableImage(wire) THEN "drawn" ELSE "unavailable")
               ELSE (IF VideoExt(wire) THEN "opened" ELSE "unavailable")
    /\ UNCHANGED <<original, wire>>

\* Forwarding sends what was received through the same scrub.
Forward ==
    /\ seen \in {"drawn", "opened"}
    /\ original' = wire
    /\ wire' = Nothing /\ seen' = "nothing"

ScrubNext == SendScrubbed \/ SendPreview \/ Receive \/ Forward
ScrubSpec == ScrubInit /\ [][ScrubNext]_scrubVars

---------------------------------------------------------------------------

\* The states of an attachment.
ScrubTypeOK ==
    /\ IsFile(original)
    /\ seen \in {"nothing", "drawn", "opened", "unavailable"}

\* The recording details of a file, wherever the scrubber knows to look.
Reveals(f) ==
    CASE f.is = "jpeg" -> f.after \/ \E i \in DOMAIN f.segments : f.segments[i] \in MetaSegments
      [] f.is = "iso"  -> \/ \E i \in DOMAIN f.top : f.top[i] \in IsoMetadata
                          \/ f.tail \in {"trailer", "short"}
                          \/ f.moov.times \/ f.moov.meta \/ f.moov.trackTimes \/ f.moov.trackMeta \/ f.moov.mediaTimes
      [] f.is \in {"matroska", "avi"} -> \E i \in DOMAIN f.elements : f.elements[i] \in {"tags", "info"}
      [] OTHER -> FALSE

\* Whatever is sent carries none of the recording details its container can be
\* walked to (scrub_video, scrub_jpeg).
SentIsClean == IsFile(wire) => ~Reveals(wire)

\* "not a JPEG the recipient would draw": a photo that is sent is drawn by the
\* recipient, and forwarded again as it is (scrub_jpeg, displayable_image).
SentPhotoIsDrawn ==
    wire.is = "jpeg" => /\ DisplayableImage(wire)
                        /\ ScrubJpeg(wire) = wire

\* SentIsClean and SentPhotoIsDrawn: what is sent has no recording details and is drawn.
SentHolds == ScrubTypeOK /\ SentIsClean /\ SentPhotoIsDrawn
=============================================================================
