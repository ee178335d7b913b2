-------------------------------- MODULE Media -------------------------------
(***************************************************************************)
(* One image field of a user's profile and the images stored for it        *)
(* (mediaStore.js), as signUp, updateProfile and deleteAccount of          *)
(* AuthController.js use them. Updates of the same user may overlap, and   *)
(* any of them may fail between two steps.                                 *)
(***************************************************************************)
EXTENDS FiniteSets

CONSTANTS
    Images,  \* the ids new images are given
    NoImage, \* the empty field
    Updates  \* updateProfile requests that can be under way at once

ASSUME MediaAssumption == NoImage \notin Images

VARIABLES
    holder,    \* the account: "none", "new", "member", "leaving" or "gone"
    pic,     \* the field of the User document
    media,   \* the images stored
    made,    \* ids given so far
    ups,     \* updates under way
    \* history
    messy,   \* updates overlapped, or a step failed
    stale    \* a URL was set again after another update had replaced it

mediaVars == <<holder, pic, media, made, ups, messy, stale>>

NoUpdate == [stage |-> "none", image |-> NoImage, fresh |-> FALSE, before |-> NoImage]

MediaTypeOK ==
    /\ holder \in {"none", "new", "member", "leaving", "gone"}
    /\ pic \in Images \cup {NoImage} /\ media \subseteq made /\ made \subseteq Images
    /\ ups \in [Updates -> [stage : {"none", "checked", "read", "stored", "set"},
                            image : Images \cup {NoImage}, fresh : BOOLEAN,
                            before : Images \cup {NoImage}]]
    /\ messy \in BOOLEAN /\ stale \in BOOLEAN

MediaInit ==
    /\ holder = "none" /\ pic = NoImage /\ media = {} /\ made = {}
    /\ ups = [u \in Updates |-> NoUpdate] /\ messy = FALSE /\ stale = FALSE

NoUpdates == \A u \in Updates : ups[u] = NoUpdate

\* Mutant: an image that is kept is deleted too.
ReplacedAlways(old, new) == media \ {old}

\* deleteReplacedImage
Replaced(old, new) == IF old = new THEN media ELSE media \ {old}

-----------------------------------------------------------------------------
\* signUp: the image is stored (commitImageInput), then the account is saved.
PictureStored ==
    /\ holder = "none"
    /\ holder' = "new"
    /\ \E image \in (Images \ made) \cup {NoImage} :
        /\ pic' = image
        /\ made' = made \cup ({image} \ {NoImage}) /\ media' = media \cup ({image} \ {NoImage})
    /\ UNCHANGED <<ups, messy, stale>>

PictureSaved ==
    /\ holder = "new"
    /\ holder' = "member"
    /\ UNCHANGED <<pic, media, made, ups, messy, stale>>

\* The save is refused: the image goes with it.
PictureRefused ==
    /\ holder = "new"
    /\ holder' = "none" /\ pic' = NoImage /\ media' = Replaced(pic, NoImage)
    /\ UNCHANGED <<made, ups, messy, stale>>

-----------------------------------------------------------------------------
(* updateProfile *)

UpdateMoves(u, stage) == ups' = [ups EXCEPT ![u].stage = stage]

\* prepareImageInput: new image data, an image already stored, or nothing
UpdateChecks(u) ==
    /\ holder \in {"member", "leaving"} /\ ups[u] = NoUpdate
    /\ \/ \E image \in Images \ made :
            /\ ups' = [ups EXCEPT ![u] =
                            [@ EXCEPT !.stage = "checked", !.image = image, !.fresh = TRUE]]
            /\ made' = made \cup {image}
       \/ \E image \in media \cup {NoImage} :
            /\ ups' = [ups EXCEPT ![u] = [@ EXCEPT !.stage = "checked", !.image = image]]
            /\ UNCHANGED made
    /\ messy' = (messy \/ ~NoUpdates \/ holder = "leaving")
    /\ UNCHANGED <<holder, pic, media, stale>>

\* User.findById: `previous`, or 404
UpdateReads(u) ==
    /\ ups[u].stage = "checked"
    /\ ups' = [ups EXCEPT ![u] = IF holder = "gone" THEN NoUpdate
                                 ELSE [@ EXCEPT !.stage = "read", !.before = pic]]
    /\ UNCHANGED <<holder, pic, media, made, messy, stale>>

\* commitImageInput
UpdateStores(u) ==
    /\ ups[u].stage = "read"
    /\ media' = IF ups[u].fresh THEN media \cup {ups[u].image} ELSE media
    /\ UpdateMoves(u, "stored")
    /\ UNCHANGED <<holder, pic, made, messy, stale>>

\* User.findByIdAndUpdate, or 404
UpdateSets(u) ==
    /\ ups[u].stage = "stored"
    /\ IF holder = "gone"
       THEN ups' = [ups EXCEPT ![u] = NoUpdate] /\ UNCHANGED <<pic, stale>>
       ELSE /\ pic' = ups[u].image
            /\ stale' = (stale \/ (~ups[u].fresh /\ ups[u].image \notin {pic, NoImage}))
            /\ UpdateMoves(u, "set")
    /\ UNCHANGED <<holder, media, made, messy>>

\* deleteReplacedImage, with the images the request itself read and wrote
UpdateDeletes(u) ==
    /\ ups[u].stage = "set"
    /\ media' = Replaced(ups[u].before, ups[u].image)
    /\ ups' = [ups EXCEPT ![u] = NoUpdate]
    /\ UNCHANGED <<holder, pic, made, messy, stale>>

\* A query of it fails, or the server restarts.
UpdateFails(u) ==
    /\ ups[u] # NoUpdate
    /\ ups' = [ups EXCEPT ![u] = NoUpdate] /\ messy' = TRUE
    /\ UNCHANGED <<holder, pic, media, made, stale>>

-----------------------------------------------------------------------------
\* deleteAccount: Media.deleteMany first, the User document last. It can be repeated.
AccountWipes ==
    /\ holder \in {"member", "leaving"}
    /\ holder' = "leaving" /\ media' = {} /\ messy' = (messy \/ ~NoUpdates)
    /\ UNCHANGED <<pic, made, ups, stale>>

AccountGone ==
    /\ holder = "leaving"
    /\ holder' = "gone" /\ pic' = NoImage
    /\ UNCHANGED <<media, made, ups, messy, stale>>

MediaNext ==
    \/ PictureStored \/ PictureSaved \/ PictureRefused \/ AccountWipes \/ AccountGone
    \/ \E u \in Updates :
        \/ UpdateChecks(u) \/ UpdateReads(u) \/ UpdateStores(u) \/ UpdateSets(u)
        \/ UpdateDeletes(u) \/ UpdateFails(u)

MediaSpec == MediaInit /\ [][MediaNext]_mediaVars

-----------------------------------------------------------------------------
\* The image a profile shows is stored, however updates overlap and wherever they fail,
\* unless one of them set a URL again that another had replaced since it was checked
\* (prepareImageInput). Updates that neither overlapped nor failed leave no image behind
\* that no profile shows.
MediaMatchesProfile ==
    /\ holder \in {"new", "member"} /\ pic # NoImage /\ ~stale => pic \in media
    /\ NoUpdates /\ ~messy => media \subseteq {pic}
=============================================================================
