------------------------------- MODULE Photos -------------------------------
(***************************************************************************)
(* Photographs: a row in the database and a file under storage/photos,     *)
(* written in two steps by api/photos and removed in two steps by          *)
(* api/photos/[id], read by api/photos/[id]/file, with the gallery pages   *)
(* of the panel (PhotoGallery.tsx) and the images that guests and          *)
(* invitations refer to.  Database and disk fail independently, a commit   *)
(* may lose its acknowledgment, and the process may die between any two    *)
(* steps.                                                                  *)
(*                                                                         *)
(* A photo stands for its row's id and its file's name, both drawn afresh. *)
(* Weddings, mime types, sizes and the bytes are left out.                 *)
(***************************************************************************)
EXTENDS FiniteSets

CONSTANTS
  Photos,     \* ids
  Handlers,   \* request handlers in flight
  Pages,      \* open gallery pages
  Faults      \* which of "disk", "database", "ack" (lost), "crash" may happen

VARIABLES
  rows,    \* table Photo
  files,   \* the storage directory
  refs,    \* images that a guest's profile or an invitation refers to
  shown,   \* state "photos" of each gallery page
  hand,    \* handlers
  stale,   \* bookkeeping: per page, photos its last answers did not tell about
  parted   \* bookkeeping: photos of which a fault left, or may leave, only one half

photoVars == <<rows, files, refs, shown, hand, stale, parted>>

Purposes == {"gallery", "asset"}    \* "asset": profile or invitation
NoRow == [live |-> FALSE, purpose |-> "gallery"]
Row == [live : BOOLEAN, purpose : Purposes]

Idle == [op |-> "none"]
Upload == [op : {"upload"}, pc : {"save", "row", "undo", "ok", "failed"},
           photo : Photos, purpose : Purposes, page : Pages]
Delete == [op : {"delete"}, pc : {"find", "row", "unlink", "ok", "failed"},
           photo : Photos, page : Pages]
\* "missing" and "unreadable" are one answer, 'file missing', with two causes.
Serve == [op : {"serve"}, pc : {"find", "read", "ok", "failed", "missing", "unreadable"},
          photo : Photos]

Init ==
  /\ rows = [p \in Photos |-> NoRow]
  /\ files = {}
  /\ refs = {}
  /\ shown = [g \in Pages |-> {}]
  /\ hand = [h \in Handlers |-> Idle]
  /\ stale = [g \in Pages |-> {}]
  /\ parted = {}

Live(p) == rows[p].live
At(h, op, pc) == hand[h].op = op /\ hand[h].pc = pc
Goto(h, pc) == hand' = [hand EXCEPT ![h].pc = pc]

\* A page hears of its own changes; the other pages do not.
Unheard(p, g) ==
  stale' = [k \in Pages |-> IF k = g THEN stale[k] ELSE stale[k] \cup {p}]

\* A change that its own page is told has failed.
UnheardByAll(p) == stale' = [k \in Pages |-> stale[k] \cup {p}]

----------------------------------------------------------------------------
(* POST /api/photos *)

Fresh(p) ==
  /\ ~Live(p) /\ p \notin files /\ p \notin refs /\ p \notin parted
  /\ \A h \in Handlers : hand[h] # Idle => hand[h].photo # p
  /\ \A g \in Pages : p \notin shown[g] \cup stale[g]

\* The query parameter "purpose"; anything unknown, or none, is the gallery.
Asked == Purposes \cup {"unknown"}
PurposeOf(asked) == IF asked \in Purposes THEN asked ELSE "gallery"

StartUpload(h, p, asked, g) ==
  /\ hand[h] = Idle
  /\ Fresh(p)
  /\ hand' = [hand EXCEPT ![h] = [op |-> "upload", pc |-> "save", photo |-> p,
                                 purpose |-> PurposeOf(asked), page |-> g]]
  /\ UNCHANGED <<rows, files, refs, shown, stale, parted>>

\* savePhoto; a write that fails may leave part of the file, and nobody removes it.
Save(h) ==
  /\ At(h, "upload", "save")
  /\ \/ Goto(h, "row") /\ files' = files \cup {hand[h].photo} /\ UNCHANGED parted
     \/ /\ "disk" \in Faults
        /\ Goto(h, "failed")
        /\ \/ UNCHANGED <<files, parted>>
           \/ files' = files \cup {hand[h].photo} /\ parted' = parted \cup {hand[h].photo}
  /\ UNCHANGED <<rows, refs, shown, stale>>

\* A row that was stored without an acknowledgment is taken for a failure.
Insert(h) ==
  /\ At(h, "upload", "row")
  /\ LET p == hand[h].photo
         stored == [rows EXCEPT ![p] = [live |-> TRUE, purpose |-> hand[h].purpose]]
     IN
       \/ /\ rows' = stored /\ Goto(h, "ok")
          /\ Unheard(p, hand[h].page) /\ UNCHANGED parted
       \/ "database" \in Faults /\ Goto(h, "undo") /\ UNCHANGED <<rows, stale, parted>>
       \/ /\ "ack" \in Faults
          /\ rows' = stored /\ Goto(h, "undo")
          /\ UnheardByAll(p) /\ parted' = parted \cup {p}
  /\ UNCHANGED <<files, refs, shown>>

Forgotten(h) == UNCHANGED <<files, parted>>

\* deletePhoto, best effort.
Unlinked(h) ==
  \/ files' = files \ {hand[h].photo} /\ UNCHANGED parted
  \/ /\ "disk" \in Faults
     /\ parted' = parted \cup ({hand[h].photo} \cap files)
     /\ UNCHANGED files

Undo(h) ==
  /\ At(h, "upload", "undo")
  /\ Unlinked(h)
  /\ Goto(h, "failed")
  /\ UNCHANGED <<rows, refs, shown, stale>>

----------------------------------------------------------------------------
(* DELETE /api/photos/[id] *)

\* handleDelete: a photo the page shows.
StartDelete(h, p, g) ==
  /\ hand[h] = Idle
  /\ p \in shown[g]
  /\ hand' = [hand EXCEPT ![h] = [op |-> "delete", pc |-> "find", photo |-> p, page |-> g]]
  /\ UNCHANGED <<rows, files, refs, shown, stale, parted>>

Find(h) ==
  /\ At(h, "delete", "find")
  /\ \/ Live(hand[h].photo) /\ Goto(h, "row")
     \/ (~Live(hand[h].photo) \/ "database" \in Faults) /\ Goto(h, "failed")
  /\ UNCHANGED <<rows, files, refs, shown, stale, parted>>

FileFirst(h) ==
  /\ At(h, "delete", "row")
  /\ Goto(h, "unlink")
  /\ files' = files \ {hand[h].photo}
  /\ UNCHANGED <<rows, refs, shown, stale, parted>>

\* The row first; deleting one that is gone is an error, and so is a deletion that
\* is not acknowledged: the file stays.
RemoveRow(h) ==
  /\ At(h, "delete", "row")
  /\ LET p == hand[h].photo
         removed == [rows EXCEPT ![p].live = FALSE]
     IN
       \/ /\ Live(p)
          /\ rows' = removed /\ Goto(h, "unlink")
          /\ Unheard(p, hand[h].page) /\ UNCHANGED parted
       \/ /\ ~Live(p) \/ "database" \in Faults
          /\ Goto(h, "failed")
          /\ UNCHANGED <<rows, stale, parted>>
       \/ /\ Live(p) /\ "ack" \in Faults
          /\ rows' = removed /\ Goto(h, "failed")
          /\ UnheardByAll(p) /\ parted' = parted \cup ({p} \cap files)
  /\ UNCHANGED <<files, refs, shown>>

Unlink(h) ==
  /\ At(h, "delete", "unlink")
  /\ Unlinked(h)
  /\ Goto(h, "ok")
  /\ UNCHANGED <<rows, refs, shown, stale>>

----------------------------------------------------------------------------
(* GET /api/photos/[id]/file *)

StartServe(h, p) ==
  /\ hand[h] = Idle
  /\ hand' = [hand EXCEPT ![h] = [op |-> "serve", pc |-> "find", photo |-> p]]
  /\ UNCHANGED <<rows, files, refs, shown, stale, parted>>

Look(h) ==
  /\ At(h, "serve", "find")
  /\ \/ Live(hand[h].photo) /\ Goto(h, "read")
     \/ (~Live(hand[h].photo) \/ "database" \in Faults) /\ Goto(h, "failed")
  /\ UNCHANGED <<rows, files, refs, shown, stale, parted>>

\* Whatever keeps the file from being read, the answer is 'file missing'.
Read(h) ==
  /\ At(h, "serve", "read")
  /\ \/ Goto(h, IF hand[h].photo \in files THEN "ok" ELSE "missing")
     \/ "disk" \in Faults /\ Goto(h, "unreadable")
  /\ UNCHANGED <<rows, files, refs, shown, stale, parted>>

----------------------------------------------------------------------------
(* Pages *)

\* The answer: the page adds or removes the photo; the form that uploaded an asset
\* may save a reference to it.
Answered(h) ==
  /\ hand[h] # Idle
  /\ hand[h].pc \in {"ok", "failed", "missing", "unreadable"}
  /\ LET p == hand[h].photo
         done == hand[h].pc = "ok"
     IN
       /\ shown' =
            IF done /\ hand[h].op = "upload" /\ hand[h].purpose = "gallery"
              THEN [shown EXCEPT ![hand[h].page] = @ \cup {p}]
            ELSE IF done /\ hand[h].op = "delete"
              THEN [shown EXCEPT ![hand[h].page] = @ \ {p}]
            ELSE shown
       /\ \/ UNCHANGED refs
          \/ /\ done /\ hand[h].op = "upload" /\ hand[h].purpose = "asset"
             /\ refs' = refs \cup {p}
  /\ hand' = [hand EXCEPT ![h] = Idle]
  /\ UNCHANGED <<rows, files, stale, parted>>

\* The reference is replaced by another; the image stays.
Unrefer(p) ==
  /\ refs' = refs \ {p}
  /\ p \in refs
  /\ UNCHANGED <<rows, files, shown, hand, stale, parted>>

AllListed == {p \in Photos : Live(p)}

\* What the gallery lists: never the images of guests and invitations.
Listed == {p \in Photos : Live(p) /\ rows[p].purpose = "gallery"}

\* The page is loaded, while no request of it is in flight.
LoadPage(g) ==
  /\ \A h \in Handlers : hand[h].op \in {"upload", "delete"} => hand[h].page # g
  /\ shown' = [shown EXCEPT ![g] = Listed]
  /\ stale' = [stale EXCEPT ![g] = {}]
  /\ UNCHANGED <<rows, files, refs, hand, parted>>

\* The process dies: handlers are gone, what they had not finished stays, and their
\* pages see the request fail.
DropHandlers ==
  /\ parted' = parted \cup {p \in files : ~Live(p)}
  /\ stale' = [g \in Pages |-> stale[g] \cup
       {p \in Photos : \E h \in Handlers : hand[h].op \in {"upload", "delete"}
                                             /\ hand[h].page = g /\ hand[h].photo = p}]
  /\ hand' = [h \in Handlers |-> Idle]
  /\ UNCHANGED <<rows, files, refs, shown>>

Crash == "crash" \in Faults /\ DropHandlers

Handle(h) ==
  \/ Save(h) \/ Insert(h) \/ Undo(h)
  \/ Find(h) \/ RemoveRow(h) \/ Unlink(h)
  \/ Look(h) \/ Read(h)

ServerStep ==
  \/ \E h \in Handlers : Handle(h) \/ Answered(h)
  \/ \E h \in Handlers, p \in Photos, g \in Pages :
       \/ \E asked \in Asked : StartUpload(h, p, asked, g)
       \/ StartDelete(h, p, g)
  \/ \E h \in Handlers, p \in Photos : StartServe(h, p)
  \/ \E g \in Pages : LoadPage(g)
  \/ \E p \in Photos : Unrefer(p)

Next == ServerStep \/ Crash

Spec == Init /\ [][Next]_photoVars

----------------------------------------------------------------------------
(* Properties *)

\* Type invariant.
TypeOK ==
  /\ rows \in [Photos -> Row]
  /\ files \in SUBSET Photos
  /\ refs \in SUBSET Photos
  /\ shown \in [Pages -> SUBSET Photos]
  /\ hand \in [Handlers -> {Idle} \cup Upload \cup Delete \cup Serve]
  /\ stale \in [Pages -> SUBSET Photos]
  /\ parted \in SUBSET Photos

\* Every row has its file, whatever fails and whenever the process dies: the file
\* is written before its row and removed after it.  Only a row whose insertion was
\* taken for a failure, for want of the acknowledgment, may lose it.
RowsHaveFiles == \A p \in Photos : Live(p) => p \in files \/ p \in parted

\* A reader whose file is not there, though the disk could be read, had its photo
\* deleted since it found the row, or the row's file was never to stay.
MissingMeansDeleted ==
  \A h \in Handlers : At(h, "serve", "missing") =>
    ~Live(hand[h].photo) \/ hand[h].photo \in parted

\* Whoever asks for a photo gets its file until it is deleted: every row has its
\* file, and a reader told that the file is missing lost a race with the deletion,
\* or met a disk that could not be read, or a row whose insertion was taken for a
\* failure.
FilesServed == RowsHaveFiles /\ MissingMeansDeleted

\* "Avoid leaving an orphan file behind if the DB write fails" (photos/route.ts): a
\* file without a row is still in the hands of a handler, or was left behind when
\* the process died, the disk refused or the database's acknowledgment was lost.
OrphansExplained ==
  \A p \in files :
    Live(p) \/ p \in parted
    \/ \E h \in Handlers :
         /\ At(h, "upload", "row") \/ At(h, "upload", "undo") \/ At(h, "delete", "unlink")
         /\ hand[h].photo = p

\* An image that a guest or an invitation refers to is never deleted: the gallery,
\* from where photos are deleted, does not list it.
ReferencedImagesKept == \A p \in refs : Live(p)

\* A gallery page with nothing in flight shows a photo that changed through no other
\* page, and whose answers it got, exactly when it is in the gallery.
GalleryAgrees ==
  \A g \in Pages : \A p \in Photos \ stale[g] :
    (\A h \in Handlers : hand[h].op \in {"upload", "delete"} => hand[h].photo # p)
      => (p \in shown[g] <=> p \in Listed)
=============================================================================
