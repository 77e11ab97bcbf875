----------------------------- MODULE VisitProofs -----------------------------
(***************************************************************************)
(* What is registered as a proof is the photo the driver saw, for any      *)
(* number of photos, uploads and faults.                                   *)
(***************************************************************************)
EXTENDS DriverVisit, TLAPS

VisitTypeOK ==
  /\ form \in FormState \cup {None} /\ draft \in Photos \cup {None}
  /\ uploads \subseteq UploadState
  /\ change # None => DOMAIN change = {"status", "done", "here"}

\* A delivery is only confirmed on a form whose proof is registered.
ConfirmsRegistered ==
  change # None /\ change.here /\ change.status = "DELIVERED" => form # None /\ form.registered

\* The form that waits for an upload shows the photo that is uploaded, and takes no other:
\* it is uploading, or has a proof already.
UploadsAreShown ==
  ~disturbed =>
    \A u \in uploads :
      /\ u.photo = u.shot
      /\ u.here => /\ form # None /\ form.file # None /\ u.photo = form.file
                   /\ Uploading \/ form.registered

OneUploadIsHere == ~disturbed => \A u, v \in uploads : u.here /\ v.here => u = v

\* An object kept for a retry is that of the photo on the screen.
ObjectIsShown == ~disturbed /\ form # None /\ form.object # None => form.object = form.file

VisitInvariant ==
  VisitTypeOK /\ ConfirmsRegistered /\ UploadsAreShown /\ OneUploadIsHere /\ ObjectIsShown

LEMMA VisitInitially == Init => VisitInvariant
  BY DEF Init, VisitInvariant, VisitTypeOK, ConfirmsRegistered, UploadsAreShown,
         OneUploadIsHere, ObjectIsShown

LEMMA VisitUnmoved ==
  ASSUME VisitInvariant, UNCHANGED <<form, draft, uploads, disturbed>>,
         \/ change' = change
         \/ change' = None
         \/ change # None /\ change' = [change EXCEPT !.done = TRUE]
  PROVE  VisitInvariant'
  <1>1. VisitTypeOK' /\ ConfirmsRegistered'
    BY DEF VisitInvariant, VisitTypeOK, ConfirmsRegistered
  <1> QED BY <1>1 DEF VisitInvariant, UploadsAreShown, OneUploadIsHere, ObjectIsShown, Uploading

-----------------------------------------------------------------------------
(* A status is shown to the form.                                          *)

\* The form says nothing else about its photo.
SamePhoto(f, g) ==
  /\ g.file = f.file /\ g.object = f.object /\ g.registered = f.registered /\ g.phase = f.phase

LEMMA FormsAreFollowed ==
  ASSUME NEW f \in FormState, NEW status
  PROVE  Follow(f, status) \in FormState /\ SamePhoto(f, Follow(f, status))
  <1>1. f # None
    BY NoneAssumption
  <1>2. Follow(f, status) = [f EXCEPT !.arrived = @ \/ status = "ARRIVED",
                                      !.lookup = IF status = shown THEN @ ELSE status = "ARRIVED"]
    BY <1>1 DEF Follow
  <1> QED BY <1>2 DEF FormState, SamePhoto

LEMMA FormsAreMounted ==
  ASSUME VisitTypeOK, NEW status
  PROVE  Follow(None, status) \in FormState /\ Follow(None, status).object = None
  BY DEF Follow, Mount, FormState, VisitTypeOK

LEMMA VisitShows ==
  ASSUME VisitInvariant, NEW f, NEW status, NEW just, Shows(f, status, just),
         \/ form = None /\ f = None
         \/ form # None /\ f \in FormState /\ SamePhoto(form, f),
         uploads' = UploadsLeft(uploads), change' \in {None, Left(change)},
         draft' = draft, disturbed' = disturbed
  PROVE  VisitInvariant'
  <1>1. form' = IF Displayed(status, just) THEN Follow(f, status) ELSE None
    BY DEF Shows
  <1>2. VisitTypeOK
    BY DEF VisitInvariant
  <1>3. form' \in FormState \cup {None}
    BY <1>1, <1>2, FormsAreFollowed, FormsAreMounted
  <1>4. CASE form' = None
    <2>1. \A u \in uploads : /\ Left(u) \in UploadState /\ Left(u).here = FALSE
                             /\ Left(u).photo = u.photo /\ Left(u).shot = u.shot
      <3>1. \A u \in uploads : u \in UploadState /\ u # None
        BY <1>2, NoneAssumption DEF VisitTypeOK
      <3>2. \A u \in uploads : Left(u) = [u EXCEPT !.here = FALSE]
        BY <3>1, <1>4 DEF Left
      <3> QED BY <3>1, <3>2 DEF UploadState
    <2>2. uploads' \subseteq UploadState /\ \A v \in uploads' : ~v.here
      BY <2>1 DEF UploadsLeft
    <2>3. change' # None => DOMAIN change' = {"status", "done", "here"} /\ ~change'.here
      BY <1>2, <1>4 DEF VisitTypeOK, Left
    <2>4. VisitTypeOK'
      BY <1>2, <1>3, <2>2, <2>3 DEF VisitTypeOK
    <2>5. UploadsAreShown'
      <3>1. ASSUME ~disturbed' PROVE \A v \in uploads' : v.photo = v.shot
        BY <3>1, <2>1 DEF UploadsLeft, VisitInvariant, UploadsAreShown
      <3> QED BY <3>1, <2>2 DEF UploadsAreShown
    <2> QED BY <1>4, <2>2, <2>3, <2>4, <2>5
            DEF VisitInvariant, ConfirmsRegistered, OneUploadIsHere, ObjectIsShown
  <1>5. CASE form' # None
    <2>1. uploads' = uploads /\ change' \in {None, change}
      BY <1>5 DEF UploadsLeft, Left
    <2>2. VisitTypeOK'
      BY <1>2, <1>3, <2>1 DEF VisitTypeOK
    <2>3. form' = Follow(f, status)
      BY <1>1, <1>5
    <2>4. CASE form = None
      <3>1. form'.object = None
        BY <2>3, <2>4, <1>2, FormsAreMounted, NoneAssumption
      <3> QED BY <2>1, <2>2, <2>4, <3>1
              DEF VisitInvariant, ConfirmsRegistered, UploadsAreShown, OneUploadIsHere,
                  ObjectIsShown
    <2>5. CASE form # None
      <3>1. SamePhoto(form, form')
        BY <2>3, <2>5, FormsAreFollowed DEF SamePhoto
      <3> QED BY <1>5, <2>1, <2>2, <2>5, <3>1
              DEF VisitInvariant, ConfirmsRegistered, UploadsAreShown, OneUploadIsHere,
                  ObjectIsShown, SamePhoto, Uploading
    <2> QED BY <2>4, <2>5
  <1> QED BY <1>4, <1>5

-----------------------------------------------------------------------------
(* The steps of the page and of the form.                                  *)

LEMMA VisitTells ==
  ASSUME VisitInvariant, change # None, Told, draft' = draft, disturbed' = disturbed
  PROVE  VisitInvariant'
  <1> DEFINE f == IF Mine(change) /\ change.status = "ARRIVED"
                  THEN [form EXCEPT !.arrived = TRUE] ELSE form
             just == recent \/ change.status = "DELIVERED"
  <1>1. Shows(f, change.status, just) /\ change' = None /\ uploads' = UploadsLeft(uploads)
    BY DEF Told
  <1>2. \/ form = None /\ f = None
        \/ form # None /\ f \in FormState /\ SamePhoto(form, f)
    <2>1. CASE form = None
      BY <2>1 DEF Mine
    <2>2. CASE form # None
      <3>1. form \in FormState
        BY <2>2 DEF VisitInvariant, VisitTypeOK
      <3>2. /\ [form EXCEPT !.arrived = TRUE] \in FormState
            /\ SamePhoto(form, [form EXCEPT !.arrived = TRUE])
        BY <3>1 DEF FormState, SamePhoto
      <3>3. SamePhoto(form, form)
        BY DEF SamePhoto
      <3> QED BY <2>2, <3>1, <3>2, <3>3
    <2> QED BY <2>1, <2>2
  <1> HIDE DEF f, just
  <1> QED BY <1>1, <1>2, VisitShows

\* A form that keeps its photo, and its phase unless a proof is registered or no upload waits.
LEMMA FormKept ==
  ASSUME VisitInvariant, VisitTypeOK', form # None, form' # None,
         form'.file = form.file, form'.object = form.object,
         form.registered => form'.registered,
         \/ form'.phase = form.phase
         \/ form'.registered
         \/ \A u \in uploads' : ~u.here,
         uploads' \subseteq uploads, change' \in {change, None}, disturbed' = disturbed
  PROVE  VisitInvariant'
  BY DEF VisitInvariant, ConfirmsRegistered, UploadsAreShown, OneUploadIsHere, ObjectIsShown,
         Uploading

LEMMA VisitTaps ==
  ASSUME VisitInvariant, NEW status, Tap(status)
  PROVE  VisitInvariant'
  <1>1. /\ form \in FormState /\ form # None /\ draft' = draft /\ uploads' = uploads
        /\ disturbed' = disturbed
        /\ change' = [status |-> status, done |-> FALSE, here |-> TRUE]
        /\ status = "DELIVERED" => form.registered
    BY DEF Tap, Open, Offered, VisitInvariant, VisitTypeOK, device, history
  <1>2. CASE status = "DELIVERED"
    <2>1. form' = [form EXCEPT !.phase = "confirming"]
      BY <1>2 DEF Tap
    <2>2. /\ form' \in FormState /\ form'.registered /\ form'.file = form.file
          /\ form'.object = form.object
      BY <1>1, <1>2, <2>1 DEF FormState
    <2>3. form' # None
      BY <2>2, NoneAssumption
    <2> QED BY <1>1, <2>2, <2>3
            DEF VisitInvariant, VisitTypeOK, ConfirmsRegistered, UploadsAreShown,
                OneUploadIsHere, ObjectIsShown
  <1>3. CASE status # "DELIVERED"
    <2>1. form' = form
      BY <1>3 DEF Tap
    <2> QED BY <1>1, <1>3, <2>1
            DEF VisitInvariant, VisitTypeOK, ConfirmsRegistered, UploadsAreShown,
                OneUploadIsHere, ObjectIsShown, Uploading
  <1> QED BY <1>2, <1>3

LEMMA VisitUnsettled ==
  ASSUME VisitInvariant, change # None, Unsettled
  PROVE  VisitInvariant'
  <1>1. /\ change' = None /\ uploads' = uploads /\ draft' = draft /\ disturbed' = disturbed
        /\ form' = IF Mine(change) /\ change.status = "DELIVERED" THEN AfterFailure(form) ELSE form
    BY DEF Unsettled, device, history
  <1>2. CASE Mine(change) /\ change.status = "DELIVERED"
    <2>1. form \in FormState /\ form # None /\ form.registered
      BY <1>2 DEF Mine, VisitInvariant, VisitTypeOK, ConfirmsRegistered
    <2>2. /\ form' \in FormState /\ form'.registered /\ form'.file = form.file
          /\ form'.object = form.object
      BY <1>1, <1>2, <2>1 DEF AfterFailure, FormState
    <2>3. form' # None
      BY <2>2, NoneAssumption
    <2>4. VisitTypeOK'
      BY <1>1, <2>2 DEF VisitInvariant, VisitTypeOK
    <2> QED BY <1>1, <2>1, <2>2, <2>3, <2>4, FormKept
  <1>3. CASE ~(Mine(change) /\ change.status = "DELIVERED")
    BY <1>1, <1>3, VisitUnmoved
  <1> QED BY <1>2, <1>3

LEMMA VisitLooksUp ==
  ASSUME VisitInvariant, LookUp \/ LookUpFails
  PROVE  VisitInvariant'
  <1>1. /\ form \in FormState /\ form # None /\ draft' = draft /\ uploads' = uploads
        /\ change' = change /\ disturbed' = disturbed
    BY DEF LookUp, LookUpFails, VisitInvariant, VisitTypeOK, device, history
  <1>2. /\ form' \in FormState /\ form'.file = form.file /\ form'.object = form.object
        /\ form.registered => form'.registered
        /\ form'.phase = form.phase \/ form'.registered
    <2>1. CASE LookUp
      BY <2>1, <1>1 DEF LookUp, FormState
    <2>2. CASE LookUpFails
      BY <2>2, <1>1 DEF LookUpFails, FormState
    <2> QED BY <2>1, <2>2
  <1>3. form' # None
    BY <1>2, NoneAssumption
  <1>4. VisitTypeOK'
    BY <1>1, <1>2 DEF VisitInvariant, VisitTypeOK
  <1> QED BY <1>1, <1>2, <1>3, <1>4, FormKept

-----------------------------------------------------------------------------
(* The photo.                                                              *)

LEMMA VisitRecovers ==
  ASSUME VisitInvariant, RecoverDraft
  PROVE  VisitInvariant'
  <1>1. /\ form \in FormState /\ form # None /\ form.found # None
        /\ form' = [form EXCEPT !.file = form.found, !.found = None]
        /\ draft' = IF form.registered THEN draft ELSE form.found
        /\ disturbed' = (disturbed \/ form.file \notin {None, form.found})
        /\ uploads' = uploads /\ change' = change
    BY DEF RecoverDraft, VisitInvariant, VisitTypeOK
  <1>2. /\ form' \in FormState /\ form'.file = form.found /\ form'.object = form.object
        /\ form'.registered = form.registered /\ form'.phase = form.phase
    BY <1>1 DEF FormState
  <1>3. form' # None
    BY <1>2, NoneAssumption
  <1>4. VisitTypeOK'
    BY <1>1, <1>2 DEF VisitInvariant, VisitTypeOK, FormState
  <1>5. ConfirmsRegistered'
    BY <1>1, <1>2, <1>3 DEF VisitInvariant, ConfirmsRegistered
  <1>6. CASE disturbed'
    BY <1>4, <1>5, <1>6 DEF VisitInvariant, UploadsAreShown, OneUploadIsHere, ObjectIsShown
  <1>7. CASE ~disturbed' /\ form.file = form.found
    BY <1>1, <1>2, <1>3, <1>4, <1>5, <1>7
       DEF VisitInvariant, UploadsAreShown, OneUploadIsHere, ObjectIsShown, Uploading
  <1>8. CASE ~disturbed' /\ form.file = None
    <2>1. ~disturbed /\ form.object = None /\ \A u \in uploads : ~u.here
      BY <1>1, <1>8 DEF VisitInvariant, UploadsAreShown, ObjectIsShown
    <2> QED BY <1>1, <1>2, <1>4, <1>5, <2>1
            DEF VisitInvariant, UploadsAreShown, OneUploadIsHere, ObjectIsShown
  <1> QED BY <1>1, <1>6, <1>7, <1>8

LEMMA VisitPhotographs ==
  ASSUME VisitInvariant, NEW photo \in Photos, SelectProof(photo)
  PROVE  VisitInvariant'
  <1>1. /\ form \in FormState /\ form # None /\ ~form.registered /\ ~Uploading
        /\ form' = Photographed(form, photo) /\ draft' = photo
        /\ disturbed' = disturbed /\ uploads' = uploads /\ change' = change
    BY DEF SelectProof, Capturing, Open, VisitInvariant, VisitTypeOK
  <1>2. form' \in FormState /\ form'.object = None /\ ~form'.registered
    BY <1>1 DEF Photographed, FormState
  <1>3. VisitTypeOK'
    BY <1>1, <1>2 DEF VisitInvariant, VisitTypeOK
  <1>4. ConfirmsRegistered'
    BY <1>1 DEF VisitInvariant, ConfirmsRegistered
  <1>5. ~disturbed => \A u \in uploads : ~u.here
    BY <1>1 DEF VisitInvariant, UploadsAreShown
  <1> QED BY <1>1, <1>2, <1>3, <1>4, <1>5
          DEF VisitInvariant, UploadsAreShown, OneUploadIsHere, ObjectIsShown

LEMMA VisitRemoves ==
  ASSUME VisitInvariant, RemoveProof
  PROVE  VisitInvariant'
  <1>1. /\ form \in FormState /\ form # None /\ ~form.registered
        /\ form' = [form EXCEPT !.file = None, !.object = None, !.phase = "idle"]
        /\ draft' = None /\ disturbed' = (disturbed \/ uploads # {})
        /\ uploads' = uploads /\ change' = change
    BY DEF RemoveProof, Capturing, Open, VisitInvariant, VisitTypeOK
  <1>2. form' \in FormState /\ form'.object = None
    BY <1>1 DEF FormState
  <1>3. VisitTypeOK'
    BY <1>1, <1>2 DEF VisitInvariant, VisitTypeOK
  <1>4. ConfirmsRegistered'
    BY <1>1 DEF VisitInvariant, ConfirmsRegistered
  <1> QED BY <1>1, <1>2, <1>3, <1>4
          DEF VisitInvariant, UploadsAreShown, OneUploadIsHere, ObjectIsShown

LEMMA VisitUploads ==
  ASSUME VisitInvariant, Upload
  PROVE  VisitInvariant'
  <1> DEFINE again == form.object # None
             photo == IF again THEN form.object ELSE form.file
             new == [photo |-> photo, shot |-> form.file, here |-> TRUE,
                     at |-> IF again THEN "registering" ELSE "uploading"]
  <1>1. /\ form \in FormState /\ form # None /\ form.file # None
        /\ ~form.registered /\ ~Uploading
        /\ uploads' = uploads \cup {new}
        /\ form' = [form EXCEPT !.phase = IF again THEN "registering" ELSE "uploading"]
        /\ draft' = draft /\ disturbed' = disturbed /\ change' = change
    BY DEF Upload, Capturing, Open, VisitInvariant, VisitTypeOK, device, history
  <1>2. /\ form' \in FormState /\ form'.file = form.file /\ form'.object = form.object
        /\ form'.registered = form.registered /\ Uploading'
    BY <1>1 DEF FormState, Uploading
  <1>3. form' # None
    BY <1>2, NoneAssumption
  <1>4. /\ new \in UploadState /\ new.shot = form.file /\ new.photo = photo /\ new.here
        /\ ~disturbed => photo = form.file
    BY <1>1 DEF UploadState, FormState, VisitInvariant, ObjectIsShown
  <1>5. ~disturbed => \A u \in uploads : ~u.here
    BY <1>1 DEF VisitInvariant, UploadsAreShown
  <1> HIDE DEF new, photo, again
  <1>6. VisitTypeOK'
    BY <1>1, <1>2, <1>4 DEF VisitInvariant, VisitTypeOK
  <1>7. ConfirmsRegistered'
    BY <1>1, <1>2, <1>3 DEF VisitInvariant, ConfirmsRegistered
  <1>8. UploadsAreShown'
    BY <1>1, <1>2, <1>3, <1>4, <1>5 DEF VisitInvariant, UploadsAreShown
  <1>9. OneUploadIsHere'
    BY <1>1, <1>5 DEF OneUploadIsHere
  <1>10. ObjectIsShown'
    BY <1>1, <1>2 DEF VisitInvariant, ObjectIsShown
  <1> QED BY <1>6, <1>7, <1>8, <1>9, <1>10 DEF VisitInvariant

-----------------------------------------------------------------------------
(* The uploads under way.                                                  *)

\* An upload that goes on is the same upload.
LEMMA UploadGoesOn ==
  ASSUME uploads \subseteq UploadState, NEW u \in uploads, NEW at,
         at \in {"registering", "registered"}, Becomes(u, at)
  PROVE  \E v \in UploadState :
           /\ uploads' = (uploads \ {u}) \cup {v}
           /\ v.photo = u.photo /\ v.shot = u.shot /\ v.here = u.here
  <1>1. u \in UploadState
    OBVIOUS
  <1>2. [u EXCEPT !.at = at] \in UploadState
    BY <1>1 DEF UploadState
  <1>3. /\ [u EXCEPT !.at = at].photo = u.photo /\ [u EXCEPT !.at = at].shot = u.shot
        /\ [u EXCEPT !.at = at].here = u.here
    BY <1>1 DEF UploadState
  <1> QED BY <1>2, <1>3 DEF Becomes

LEMMA VisitGoesOn ==
  ASSUME VisitInvariant, NEW u \in uploads, NEW at, at \in {"registering", "registered"},
         Becomes(u, at), draft' = draft, disturbed' = disturbed, change' = change,
         \/ form' = form
         \/ /\ Mine(u)
            /\ form' = [form EXCEPT !.object = u.photo, !.phase = "registering"]
  PROVE  VisitInvariant'
  <1>1. PICK v \in UploadState :
          /\ uploads' = (uploads \ {u}) \cup {v}
          /\ v.photo = u.photo /\ v.shot = u.shot /\ v.here = u.here
    BY UploadGoesOn DEF VisitInvariant, VisitTypeOK
  <1>2. /\ ~disturbed => \A w \in uploads' :
             /\ w.photo = w.shot
             /\ w.here => /\ form # None /\ form.file # None /\ w.photo = form.file
                          /\ Uploading \/ form.registered
        /\ ~disturbed => \A w, x \in uploads' : w.here /\ x.here => w = x
    BY <1>1 DEF VisitInvariant, UploadsAreShown, OneUploadIsHere
  <1>3. CASE form' = form
    BY <1>1, <1>2, <1>3 DEF VisitInvariant, VisitTypeOK, ConfirmsRegistered, UploadsAreShown,
                            OneUploadIsHere, ObjectIsShown, Uploading
  <1>4. CASE /\ Mine(u)
             /\ form' = [form EXCEPT !.object = u.photo, !.phase = "registering"]
    <2>1. /\ form \in FormState /\ form # None /\ u.here
          /\ u.photo \in Photos \cup {None}
      BY <1>4 DEF Mine, VisitInvariant, VisitTypeOK, UploadState
    <2>2. /\ form' \in FormState /\ form'.file = form.file /\ form'.object = u.photo
          /\ form'.registered = form.registered /\ Uploading'
      BY <1>4, <2>1 DEF FormState, Uploading
    <2>3. form' # None
      BY <2>2, NoneAssumption
    <2>4. ~disturbed => u.photo = form.file
      BY <2>1 DEF VisitInvariant, UploadsAreShown
    <2>5. VisitTypeOK'
      BY <1>1, <2>2 DEF VisitInvariant, VisitTypeOK
    <2>6. ConfirmsRegistered'
      BY <2>2, <2>3 DEF VisitInvariant, ConfirmsRegistered
    <2>7. UploadsAreShown' /\ OneUploadIsHere'
      BY <1>2, <2>2, <2>3 DEF UploadsAreShown, OneUploadIsHere
    <2>8. ObjectIsShown'
      BY <2>2, <2>4 DEF ObjectIsShown
    <2> QED BY <2>5, <2>6, <2>7, <2>8 DEF VisitInvariant
  <1> QED BY <1>3, <1>4

LEMMA VisitEndsUpload ==
  ASSUME VisitInvariant, NEW u \in uploads, NEW registered \in BOOLEAN,
         NEW phase \in {"ready", "upload-error"},
         uploads' = uploads \ {u}, draft' \in {None, draft}, disturbed' = disturbed,
         change' = change,
         form' = IF Mine(u)
                 THEN [form EXCEPT !.registered = registered \/ @, !.phase = phase]
                 ELSE form
  PROVE  VisitInvariant'
  <1>1. CASE Mine(u)
    <2>1. form \in FormState /\ form # None /\ u.here
      BY <1>1 DEF Mine, VisitInvariant, VisitTypeOK
    <2>2. /\ form' \in FormState /\ form'.file = form.file /\ form'.object = form.object
          /\ form.registered => form'.registered
      BY <1>1, <2>1 DEF FormState
    <2>3. form' # None
      BY <2>2, NoneAssumption
    <2>4. VisitTypeOK'
      BY <2>2 DEF VisitInvariant, VisitTypeOK
    <2>5. ConfirmsRegistered'
      BY <2>1, <2>2, <2>3 DEF VisitInvariant, ConfirmsRegistered
    <2>6. ~disturbed => \A v \in uploads' : ~v.here
      BY <2>1 DEF VisitInvariant, OneUploadIsHere
    <2> QED BY <2>1, <2>2, <2>3, <2>4, <2>5, <2>6
            DEF VisitInvariant, UploadsAreShown, OneUploadIsHere, ObjectIsShown
  <1>2. CASE ~Mine(u)
    <2>1. form' = form
      BY <1>2
    <2> QED BY <2>1 DEF VisitInvariant, VisitTypeOK, ConfirmsRegistered, UploadsAreShown,
                        OneUploadIsHere, ObjectIsShown, Uploading
  <1> QED BY <1>1, <1>2

LEMMA VisitUploadStep ==
  ASSUME VisitInvariant, NEW u \in uploads,
         Put(u) \/ Register(u) \/ Registered(u) \/ UploadFails(u)
  PROVE  VisitInvariant'
  <1>1. CASE Put(u)
    BY <1>1, VisitGoesOn DEF Put, device, history
  <1>2. CASE Register(u)
    BY <1>2, VisitGoesOn DEF Register, page, device, history
  <1>3. CASE Registered(u)
    <2>1. PICK removed \in BOOLEAN :
            /\ draft' = IF removed THEN None ELSE draft
            /\ form' = IF Mine(u)
                       THEN [form EXCEPT !.registered = TRUE,
                                         !.phase = IF removed THEN "ready" ELSE "upload-error"]
                       ELSE form
      BY <1>3, Zenon DEF Registered
    <2>2. uploads' = uploads \ {u} /\ disturbed' = disturbed /\ change' = change
      BY <1>3 DEF Registered
    <2> DEFINE phase == IF removed THEN "ready" ELSE "upload-error"
    <2>3. phase \in {"ready", "upload-error"} /\ draft' \in {None, draft}
      BY <2>1
    <2>4. form' = IF Mine(u) THEN [form EXCEPT !.registered = TRUE \/ @, !.phase = phase]
                  ELSE form
      BY <2>1
    <2> HIDE DEF phase
    <2> QED BY <2>2, <2>3, <2>4, VisitEndsUpload, Zenon
  <1>4. CASE UploadFails(u)
    <2>1. /\ uploads' = uploads \ {u} /\ disturbed' = disturbed /\ change' = change
          /\ draft' = draft
          /\ form' = IF Mine(u) THEN [form EXCEPT !.phase = "upload-error"] ELSE form
      BY <1>4 DEF UploadFails, device
    <2>2. Mine(u) => form \in FormState
      BY DEF Mine, VisitInvariant, VisitTypeOK
    <2>3. form' = IF Mine(u) THEN [form EXCEPT !.registered = FALSE \/ @,
                                               !.phase = "upload-error"]
                  ELSE form
      BY <2>1, <2>2 DEF FormState
    <2> QED BY <2>1, <2>3, VisitEndsUpload, Zenon
  <1> QED BY <1>1, <1>2, <1>3, <1>4

-----------------------------------------------------------------------------
LEMMA VisitStep ==
  ASSUME VisitInvariant, [Next]_vars
  PROVE  VisitInvariant'
  <1>1. CASE UNCHANGED vars \/ Poll \/ Flush \/ AssignAgain
    BY <1>1, VisitUnmoved DEF vars, Poll, Flush, AssignAgain, page, device, history
  <1>2. CASE Serve
    BY <1>2, VisitUnmoved DEF Serve, page, device, history
  <1>3. ASSUME NEW status, Tap(status) PROVE VisitInvariant'
    BY <1>3, VisitTaps
  <1>4. CASE LookUp \/ LookUpFails
    BY <1>4, VisitLooksUp
  <1>5. CASE RecoverDraft \/ RemoveProof \/ Upload
    BY <1>5, VisitRecovers, VisitRemoves, VisitUploads
  <1>6. ASSUME NEW photo \in Photos, SelectProof(photo) PROVE VisitInvariant'
    BY <1>6, VisitPhotographs
  <1>7. ASSUME NEW u \in uploads, Put(u) \/ Register(u) \/ Registered(u) \/ UploadFails(u)
        PROVE  VisitInvariant'
    BY <1>7, VisitUploadStep
  <1>8. CASE Answered
    BY <1>8, VisitTells DEF Answered, device, history
  <1>9. CASE Unanswered
    BY <1>9, VisitTells DEF Unanswered
  <1>10. CASE Refused \/ Fails
    BY <1>10, VisitUnsettled DEF Refused, Fails
  <1>11. form = None \/ (form \in FormState /\ SamePhoto(form, form))
    BY DEF VisitInvariant, VisitTypeOK, SamePhoto
  <1>12. CASE Land
    <2>1. PICK status \in loads : Shows(form, status, recent)
      BY <1>12 DEF Land
    <2>2. /\ change' = Left(change) /\ uploads' = UploadsLeft(uploads)
          /\ draft' = draft /\ disturbed' = disturbed
      BY <1>12 DEF Land, device, history
    <2> QED BY <2>1, <2>2, <1>11, VisitShows
  <1>13. CASE Continue
    <2>1. Shows(form, shown, FALSE)
      BY <1>13 DEF Continue
    <2>2. /\ change' = Left(change) /\ uploads' = UploadsLeft(uploads)
          /\ draft' = draft /\ disturbed' = disturbed
      BY <1>13 DEF Continue, device, history
    <2> QED BY <2>1, <2>2, <1>11, VisitShows
  <1>14. CASE Reload
    BY <1>14 DEF Reload, device, VisitInvariant, VisitTypeOK, ConfirmsRegistered,
                 UploadsAreShown, OneUploadIsHere, ObjectIsShown
  <1> QED BY <1>1, <1>2, <1>3, <1>4, <1>5, <1>6, <1>7, <1>8, <1>9, <1>10, <1>12, <1>13, <1>14
          DEF Next, Works

\* What is sent to be registered is the photo that was on the screen when the driver pressed
\* Upload, on a retry too, whatever is answered late, reloaded, queued or refused meanwhile,
\* unless a photo was removed under an upload or a draft came late.
THEOREM ReviewedPhotosAreUploaded == Spec => []UploadIsReviewed
  <1>1. VisitInvariant /\ [Next]_vars => VisitInvariant'
    BY VisitStep
  <1>2. VisitInvariant => UploadIsReviewed
    BY DEF VisitInvariant, UploadsAreShown, UploadIsReviewed
  <1> QED BY VisitInitially, <1>1, <1>2, PTL DEF Spec
=============================================================================
