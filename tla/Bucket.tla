-------------------------------- MODULE Bucket --------------------------------
(***************************************************************************)
(* One process, one public bucket: the media library whose images the      *)
(* galleries show, and the gallery itself.  The code does not connect the  *)
(* two; the couple does, in the way DELETE /media asks them to: an image   *)
(* that sections still reference shows as broken, "update them first".     *)
(***************************************************************************)
EXTENDS MediaLibrary, Gallery

ASSUME GalleriesAssumption == Contents = SUBSET Images

VARIABLE blind \* history: images deleted while the gallery showed them, or may come to

vars == <<library, gallery, blind>>

Init == LibraryInit /\ GalleryInit /\ manifest \in {Missing, {}} /\ blind = {}

\* What the gallery shows, and what it shows if a save lands that was given up.
Showing == UNION (({manifest} \cup late) \ {Missing})

\* A gallery of images that it shows already or that the library lists, none of
\* which the couple is deleting.
Composed(c) == c \subseteq (panel.mine \cup rows) \ unwanted

\* An image that the gallery was seen not to show, and no save tried to add.
Unused(i) == panel.at \in {"open", "saved"} /\ i \notin panel.mine

LibraryNext == \E t \in Tasks, i \in Images :
  \/ LibraryStep(t, i) /\ UNCHANGED blind
  \/ Unused(i) /\ DeleteImage(t, i) /\ blind' = blind \cup ({i} \cap Showing)

GalleryNext ==
  \/ VisitorStep \/ Editable \/ DropCopy \/ Tick
  \/ \E c \in Contents : LandsLate(c) \/ (Composed(c) /\ (Upload(c) \/ UploadFails(c)))

Restart == LibraryRestart /\ GalleryRestart

Next ==
  \/ LibraryNext /\ UNCHANGED gallery
  \/ GalleryNext /\ UNCHANGED <<library, blind>>
  \/ Restart /\ UNCHANGED blind

Spec == Init /\ [][Next]_vars

-----------------------------------------------------------------------------
\* Every part has a value the code can give it.
TypeOK ==
  /\ GalleryTypeOK
  /\ objects \subseteq named /\ rows \subseteq named /\ named \subseteq Images
  /\ stray \subseteq named /\ unwanted \subseteq named /\ answered \subseteq unwanted
  /\ blind \subseteq unwanted
  /\ \A t \in Tasks :
       \/ task[t] = NoTask
       \/ \E i \in named : \E at \in {"put", "insert", "remove", "delete"} : At(t, at, i)

\* DELETE /media's description: a couple that updates the gallery first breaks no
\* image in it, although an upload, a deletion or a save may break off anywhere: a
\* visitor who is shown the saved gallery is shown all of it.  The couple is misled
\* by a bucket that showed the panel no gallery where there is one, and by a save
\* that lands after the panel was shown it had not: only an image deleted then is
\* excepted.
SavedGalleryIsWhole == manifest \in Contents => manifest \ objects \subseteq blind
=============================================================================
