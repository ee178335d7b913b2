---------------------------- MODULE ProfilePage -----------------------------
(***************************************************************************)
(* A user's own profile page (fullProfile.tsx, AddLink.tsx) beside the     *)
(* profile on the server (updateProfile of AuthController.js). The page is *)
(* filled when the profile has been fetched, may be edited before, and     *)
(* saves every edit at once; most saves are not waited for. The hero, a    *)
(* text on a picture, is edited on a screen of its own (HeroCanvas.tsx).   *)
(* What becomes of the pictures is in Media.                               *)
(*                                                                         *)
(* A text or a link is the number of the edit that made it: 0 is an empty  *)
(* one, 1 one from before.                                                 *)
(***************************************************************************)
EXTENDS Naturals, Sequences, SequencesExt

CONSTANTS
    Platforms, \* those of the social links
    MaxEdits,  \* bound: edits
    MaxSaves   \* bound: saves under way, besides that of a picture

ASSUME PageAssumption == {MaxEdits, MaxSaves} \subseteq Nat

VARIABLES
    profile, \* the server's
    saves,   \* saves under way, in the order they were made
    picking, \* the picture being saved, and the one shown before
    mounted, \* the page is mounted
    load,    \* its request for the profile
    page,    \* what it shows
    nameRef, \* savedNameRef
    links,   \* what AddLink shows
    me,      \* the heroData of the signed-in user in AuthProvider (NoHero: not there)
    canvas,  \* the HeroCanvas screen
    \* history
    edits,   \* edits so far
    entered, \* what the user last saw or entered on this page
    early,   \* a save was under way when the page was opened, or made before it was filled
    amiss    \* what of it has not been saved as entered, and why is known: see ProfileIsKept

pageVars == <<profile, saves, picking, mounted, load, page, nameRef, links, me, canvas, edits,
              entered, early, amiss>>
heroVars == <<me, canvas>>

Texts == 0..(MaxEdits + 1)
HeroParts == {"text", "image"}
Heroes == [HeroParts -> Texts]
NoHero == [h \in HeroParts |-> 0]
Shown == [name : Texts, urls : [Platforms -> Texts], picture : Texts, hero : Heroes]
Blank == [name |-> 0, urls |-> [p \in Platforms |-> 0], picture |-> 0, hero |-> NoHero]
NoCanvas == [stage |-> "closed", hero |-> NoHero, mine |-> {}, left |-> FALSE]
Nothing == [name |-> 0, urls |-> [p \in Platforms |-> 0], hero |-> NoHero]
NotLoading == [stage |-> "none", got |-> Blank]
NoPicture == [stage |-> "none", new |-> 0, old |-> 0]

PageTypeOK ==
    /\ profile \in [name : Texts, urls : [Platforms -> Texts], picture : Texts,
                    hero : Heroes, links : SUBSET Texts]
    /\ Len(saves) <= MaxSaves
    /\ \A i \in DOMAIN saves : saves[i].of \in {"name", "urls", "links"}
    /\ picking \in [stage : {"none", "sent", "stored"}, new : Texts, old : Texts]
    /\ load \in [stage : {"none", "sent", "answered", "landed"}, got : Shown]
    /\ {mounted, early} \subseteq BOOLEAN
    /\ page \in Shown /\ nameRef \in Texts /\ edits \in 0..MaxEdits
    /\ links \in SUBSET Texts
    /\ me \in Heroes
    /\ canvas \in [stage : {"closed", "open", "saving", "stored"}, hero : Heroes,
                   mine : SUBSET HeroParts, left : BOOLEAN]
    /\ entered \in [name : Texts, urls : [Platforms -> Texts], hero : Heroes]
    /\ amiss \subseteq {"name", "urls", "links", "picture", "hero"}

PageInit ==
    /\ profile = [name |-> 1, urls |-> [p \in Platforms |-> 1], picture |-> 1,
                  hero |-> [h \in HeroParts |-> 1], links |-> {1}]
    /\ me \in {NoHero, profile.hero} /\ canvas = NoCanvas
    /\ saves = << >> /\ picking = NoPicture
    /\ mounted = FALSE /\ load = NotLoading /\ page = Blank /\ nameRef = 0 /\ links = {}
    /\ edits = 0 /\ entered = Nothing
    /\ early = FALSE /\ amiss = {}

Landed == load.stage = "landed"

\* Until the page has been filled nothing is known of what the user entered: see LoadLands.
Enters(what) == entered' = IF Landed THEN what ELSE entered
Amiss(parts) == amiss' = IF Landed THEN parts ELSE amiss

\* The page is the screen in front.
OnTop == mounted /\ (canvas.stage = "closed" \/ canvas.left)

-----------------------------------------------------------------------------
(* The page is opened *)

\* AddLink takes the links it is mounted with for good, and there are none yet. The hero
\* is that of the signed-in user until the profile is there.
OpenProfile ==
    /\ ~mounted
    /\ mounted' = TRUE
    /\ load' = [NotLoading EXCEPT !.stage = "sent"]
    /\ page' = [Blank EXCEPT !.hero = me] /\ nameRef' = 0 /\ links' = {}
    /\ early' = (saves # << >> \/ picking # NoPicture \/ canvas # NoCanvas)
    /\ saves' = [i \in DOMAIN saves |-> [saves[i] EXCEPT !.heals = FALSE]]
    /\ UNCHANGED <<profile, heroVars, picking, edits, entered, amiss>>

Unmounted ==
    /\ mounted' = FALSE /\ load' = NotLoading
    /\ page' = Blank /\ nameRef' = 0 /\ links' = {}
    /\ entered' = Nothing /\ early' = FALSE /\ amiss' = {}

\* The saves go on.
CloseProfile ==
    /\ OnTop
    /\ Unmounted
    /\ UNCHANGED <<profile, heroVars, saves, picking, edits>>

\* getUserProfile
LoadIsAnswered ==
    /\ load.stage = "sent"
    /\ load' = [stage |-> "answered", got |-> [name |-> profile.name, urls |-> profile.urls,
                                               picture |-> profile.picture,
                                               hero |-> profile.hero]]
    /\ UNCHANGED <<profile, heroVars, saves, picking, mounted, page, nameRef, links, edits,
                   entered, early, amiss>>

ProfileLoadFails ==
    /\ load.stage = "sent"
    /\ load' = NotLoading
    /\ UNCHANGED <<profile, heroVars, saves, picking, mounted, page, nameRef, links, edits,
                   entered, early, amiss>>

\* The page shows what was fetched, whatever has been typed.
LoadLands ==
    /\ load.stage = "answered"
    /\ load' = [load EXCEPT !.stage = "landed", !.got = Blank]
    /\ page' = load.got /\ nameRef' = load.got.name
    /\ entered' = [name |-> load.got.name, urls |-> load.got.urls, hero |-> load.got.hero]
    /\ amiss' = IF early THEN {"name", "urls", "links", "picture", "hero"} ELSE {"links"}
    /\ UNCHANGED <<profile, heroVars, saves, picking, mounted, links, edits, early>>

-----------------------------------------------------------------------------
(* Edits *)

Edits == edits < MaxEdits /\ edits' = edits + 1
New == edits' + 1

\* updateProfile, not waited for.
Saves(of, value) ==
    /\ Len(saves) < MaxSaves
    /\ saves' = Append([i \in DOMAIN saves |->
                          [saves[i] EXCEPT !.heals = @ /\ saves[i].of # of]],
                       [of |-> of, value |-> value, heals |-> Landed])
    /\ early' = (early \/ ~Landed)

TypeName ==
    /\ OnTop /\ Edits
    /\ page' = [page EXCEPT !.name = New]
    /\ UNCHANGED <<profile, heroVars, saves, picking, mounted, load, nameRef, links, entered,
                   early, amiss>>

\* The field is left. (The bio is as the name, and may be empty.)
BlurName ==
    /\ mounted /\ page.name \notin {0, nameRef}
    /\ nameRef' = page.name
    /\ Saves("name", page.name)
    /\ Enters([entered EXCEPT !.name = page.name])
    /\ UNCHANGED <<profile, heroVars, picking, mounted, load, page, links, edits, amiss>>

\* Mutant: only the link that was edited is sent.
SaveSocialAlone(p) ==
    /\ OnTop /\ Edits
    /\ page' = [page EXCEPT !.urls[p] = New]
    /\ Saves("urls", [Blank.urls EXCEPT ![p] = New])
    /\ Enters([entered EXCEPT !.urls[p] = New])
    /\ UNCHANGED <<profile, heroVars, picking, mounted, load, nameRef, links, amiss>>

\* All the social links are sent, as the page has them.
SaveSocial(p) ==
    /\ OnTop /\ Edits
    /\ page' = [page EXCEPT !.urls[p] = New]
    /\ Saves("urls", page'.urls)
    /\ Enters([entered EXCEPT !.urls[p] = New])
    /\ UNCHANGED <<profile, heroVars, picking, mounted, load, nameRef, links, amiss>>

\* And all of AddLink's links, as it has them.
AddNewLink ==
    /\ OnTop /\ Edits
    /\ links' = links \cup {New}
    /\ Saves("links", links')
    /\ UNCHANGED <<profile, heroVars, picking, mounted, load, page, nameRef, entered, amiss>>

EditLink(l) ==
    /\ OnTop /\ Edits
    /\ links' = (links \ {l}) \cup {New}
    /\ Saves("links", links')
    /\ UNCHANGED <<profile, heroVars, picking, mounted, load, page, nameRef, entered, amiss>>

DeleteLink(l) ==
    /\ OnTop
    /\ links' = links \ {l}
    /\ Saves("links", links')
    /\ UNCHANGED <<profile, heroVars, picking, mounted, load, page, nameRef, edits, entered, amiss>>

\* handlePickAvatar: shown at once, one at a time.
PickAvatar ==
    /\ picking = NoPicture
    /\ OnTop /\ Edits
    /\ picking' = [stage |-> "sent", new |-> New, old |-> page.picture]
    /\ page' = [page EXCEPT !.picture = New]
    /\ early' = (early \/ ~Landed)
    /\ UNCHANGED <<profile, heroVars, saves, mounted, load, nameRef, links, entered, amiss>>

-----------------------------------------------------------------------------
(* The hero *)

\* handleHeroPress: the screen starts from what the page shows. (Bound: one at a time.)
OpenCanvas ==
    /\ OnTop /\ canvas = NoCanvas
    /\ canvas' = [NoCanvas EXCEPT !.stage = "open", !.hero = page.hero]
    /\ early' = (early \/ ~Landed)
    /\ UNCHANGED <<profile, saves, picking, mounted, load, page, nameRef, links, me, edits,
                   entered, amiss>>

EditHero(h) ==
    /\ canvas.stage = "open"
    /\ Edits
    /\ canvas' = [canvas EXCEPT !.hero[h] = New, !.mine = @ \cup {h}]
    /\ UNCHANGED <<profile, saves, picking, mounted, load, page, nameRef, links, me, entered,
                   early, amiss>>

\* handleSave sends all of it, and waits.
SaveHero ==
    /\ canvas.stage = "open"
    /\ canvas' = [canvas EXCEPT !.stage = "saving"]
    /\ Enters([entered EXCEPT !.hero =
                  [h \in HeroParts |-> IF h \in canvas.mine THEN canvas.hero[h] ELSE @[h]]])
    /\ UNCHANGED <<profile, saves, picking, mounted, load, page, nameRef, links, me, edits,
                   early, amiss>>

\* The close button: a save goes on.
LeaveCanvas ==
    /\ canvas.stage # "closed" /\ ~canvas.left
    /\ canvas' = IF canvas.stage = "open" THEN NoCanvas ELSE [canvas EXCEPT !.left = TRUE]
    /\ UNCHANGED <<profile, saves, picking, mounted, load, page, nameRef, links, me, edits,
                   entered, early, amiss>>

HeroIsStored ==
    /\ canvas.stage = "saving"
    /\ profile' = [profile EXCEPT !.hero = canvas.hero]
    /\ canvas' = [canvas EXCEPT !.stage = "stored"]
    /\ UNCHANGED <<saves, picking, mounted, load, page, nameRef, links, me, edits, entered,
                   early, amiss>>

\* updateUser, which the page shows; and goBack, of whichever screen is on top.
HeroLands ==
    /\ canvas.stage = "stored"
    /\ canvas' = NoCanvas
    /\ me' = canvas.hero
    /\ \/ canvas.left /\ Unmounted
       \/ /\ ~canvas.left
          /\ page' = [page EXCEPT !.hero = me']
          /\ UNCHANGED <<mounted, load, nameRef, links, entered, early, amiss>>
    /\ UNCHANGED <<profile, saves, picking, edits>>

HeroFails ==
    /\ canvas.stage \in {"saving", "stored"}
    /\ canvas' = IF canvas.left THEN NoCanvas ELSE [canvas EXCEPT !.stage = "open"]
    /\ Amiss(amiss \cup {"hero"})
    /\ UNCHANGED <<profile, saves, picking, mounted, load, page, nameRef, links, me, edits,
                   entered, early>>

-----------------------------------------------------------------------------
(* The server *)

\* Unawaited saves may overtake each other. The newest one, of what the page then has,
\* heals what failed before.
SaveIsDone(i) ==
    LET s == saves[i]
        overtakes == \E j \in 1..(i - 1) : saves[j].of = s.of IN
    /\ profile' = CASE s.of = "name" -> [profile EXCEPT !.name = s.value]
                    [] s.of = "urls" -> [profile EXCEPT !.urls = s.value]
                    [] s.of = "links" -> [profile EXCEPT !.links = s.value]
    /\ saves' = RemoveAt(saves, i)
    /\ Amiss(IF overtakes THEN amiss \cup {s.of}
             ELSE IF s.heals /\ ~(early /\ s.of = "urls") THEN amiss \ {s.of}
             ELSE amiss)
    /\ UNCHANGED <<heroVars, picking, mounted, load, page, nameRef, links, edits, entered, early>>

\* The connection is lost, or the server refuses what was entered: nobody is told.
SaveFails(i) ==
    /\ saves' = RemoveAt(saves, i)
    /\ Amiss(amiss \cup {saves[i].of})
    /\ UNCHANGED <<profile, heroVars, picking, mounted, load, page, nameRef, links, edits, entered,
                   early>>

PictureIsStored ==
    /\ picking.stage = "sent"
    /\ profile' = [profile EXCEPT !.picture = picking.new]
    /\ picking' = [picking EXCEPT !.stage = "stored"]
    /\ UNCHANGED <<heroVars, saves, mounted, load, page, nameRef, links, edits, entered, early,
                   amiss>>

\* Then the page shows the stored one (again).
PictureLands ==
    /\ picking.stage = "stored"
    /\ picking' = NoPicture
    /\ page' = IF mounted THEN [page EXCEPT !.picture = picking.new] ELSE page
    /\ UNCHANGED <<profile, heroVars, saves, mounted, load, nameRef, links, edits, entered,
                   early, amiss>>

\* Or, after a failure, the one before.
PictureFails ==
    /\ picking # NoPicture
    /\ picking' = NoPicture
    /\ page' = IF mounted THEN [page EXCEPT !.picture = picking.old] ELSE page
    /\ Amiss(IF picking.stage = "stored" THEN amiss \cup {"picture"} ELSE amiss)
    /\ UNCHANGED <<profile, heroVars, saves, mounted, load, nameRef, links, edits, entered,
                   early>>

-----------------------------------------------------------------------------
PageNext ==
    \/ OpenProfile \/ CloseProfile \/ LoadIsAnswered \/ ProfileLoadFails \/ LoadLands
    \/ TypeName \/ BlurName \/ \E p \in Platforms : SaveSocial(p)
    \/ AddNewLink \/ \E l \in links : EditLink(l) \/ DeleteLink(l)
    \/ OpenCanvas \/ \E h \in HeroParts : EditHero(h)
    \/ SaveHero \/ LeaveCanvas \/ HeroIsStored \/ HeroLands \/ HeroFails
    \/ PickAvatar \/ PictureIsStored \/ PictureLands \/ PictureFails
    \/ \E i \in DOMAIN saves : SaveIsDone(i) \/ SaveFails(i)

PageSpec == PageInit /\ [][PageNext]_pageVars

-----------------------------------------------------------------------------
(* Properties *)

(***************************************************************************)
(* With nothing under way, the server has the name, the social links and   *)
(* the hero the user entered last, also what was not touched of them, the  *)
(* page shows the links, the hero and the picture the server has, and      *)
(* savedNameRef is what was saved; unless a save failed or was overtaken   *)
(* and none came after it, or a save was under way when the page was       *)
(* opened or was made before it was filled. AddLink shows the server's     *)
(* list from the first save of it on (and not before: see OpenProfile).    *)
(***************************************************************************)
ProfileIsKept ==
    mounted /\ Landed /\ saves = << >> /\ picking = NoPicture /\ canvas = NoCanvas =>
        /\ "name" \notin amiss => profile.name = entered.name /\ nameRef = profile.name
        /\ "urls" \notin amiss => profile.urls = entered.urls /\ page.urls = profile.urls
        /\ "links" \notin amiss => profile.links = links
        /\ "picture" \notin amiss => page.picture = profile.picture
        /\ "hero" \notin amiss => profile.hero = entered.hero /\ page.hero = profile.hero
=============================================================================
