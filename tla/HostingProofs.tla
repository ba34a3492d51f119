--------------------------- MODULE HostingProofs ---------------------------
(***************************************************************************)
(* Theorems about photos and deployments, for any number of photos,        *)
(* handlers, pages and versions, and whatever fails.                       *)
(*                                                                         *)
(* For the photos, the invariant says that a photo being uploaded is known *)
(* to nobody else (at most a reader looks for it in vain), so that its row *)
(* appears only with its file, and that what a page can delete, and what a *)
(* guest or an invitation refers to, are told apart by the purpose of the  *)
(* row.  A second invariant follows what the galleries show and the        *)
(* answers on their way.  A step of the host is a step of the photos, or   *)
(* drops all handlers, or leaves the photos alone.  For the script, the    *)
(* invariant says what is known at each command.                           *)
(***************************************************************************)
EXTENDS Hosting, TLAPS

\* Until the row may have been stored.
Uploading(h) ==
  /\ hand[h].op = "upload"
  /\ hand[h].pc \in {"save", "row"} \/ (hand[h].pc = "undo" /\ hand[h].photo \notin parted)

\* Who else may hold the id of a photo being uploaded: a reader in vain.
InVain(k, p) ==
  hand[k] # Idle /\ hand[k].photo = p
    => hand[k].op = "serve" /\ hand[k].pc \in {"find", "failed"}

UploadsAlone ==
  \A h \in Handlers : Uploading(h) =>
    /\ ~Live(hand[h].photo) /\ hand[h].photo \notin refs
    /\ hand[h].pc = "row" => hand[h].photo \in files
    /\ \A g \in Pages : hand[h].photo \notin shown[g]
    /\ \A k \in Handlers \ {h} : InVain(k, hand[h].photo)

StoredAsAsked ==
  \A h \in Handlers : At(h, "upload", "ok") =>
    /\ rows[hand[h].photo].purpose = hand[h].purpose
    /\ hand[h].purpose = "asset" => Live(hand[h].photo)

DeletesGallery ==
  \A h \in Handlers : hand[h].op = "delete" =>
    /\ rows[hand[h].photo].purpose = "gallery"
    /\ hand[h].pc = "unlink" => ~Live(hand[h].photo)

ShowsGallery == \A g \in Pages : \A p \in shown[g] : rows[p].purpose = "gallery"

RefersToAssets == \A p \in refs : Live(p) /\ rows[p].purpose = "asset"

Known == /\ UploadsAlone /\ StoredAsAsked /\ DeletesGallery /\ ShowsGallery /\ RefersToAssets
         /\ RowsHaveFiles /\ MissingMeansDeleted

PhotosInv == TypeOK /\ Known /\ OrphansExplained

----------------------------------------------------------------------------
(* Handlers *)

Handler == {Idle} \cup Upload \cup Delete \cup Serve

\* The operation of a handler tells its fields.
LEMMA HandlerFields ==
  ASSUME TypeOK, NEW h \in Handlers
  PROVE  /\ hand[h] # Idle => hand[h].photo \in Photos
         /\ hand[h].op = "upload" => hand[h] \in Upload
         /\ hand[h].op = "delete" => hand[h] \in Delete
         /\ hand[h].op = "serve" => hand[h] \in Serve
         /\ hand[h].op \in {"none", "upload", "delete", "serve"}
         /\ hand[h].op = "none" <=> hand[h] = Idle
  BY DEF TypeOK, Idle, Upload, Delete, Serve

\* Moving on changes nothing but the program counter.
LEMMA Moved ==
  ASSUME TypeOK, NEW h \in Handlers, NEW to, Goto(h, to), hand[h] # Idle,
         \/ hand[h].op = "upload" /\ to \in {"save", "row", "undo", "ok", "failed"}
         \/ hand[h].op = "delete" /\ to \in {"find", "row", "unlink", "ok", "failed"}
         \/ /\ hand[h].op = "serve"
            /\ to \in {"find", "read", "ok", "failed", "missing", "unreadable"}
  PROVE  /\ hand' \in [Handlers -> Handler]
         /\ hand'[h].op = hand[h].op /\ hand'[h].photo = hand[h].photo /\ hand'[h].pc = to
         /\ hand[h].op = "upload" => hand'[h].purpose = hand[h].purpose
         /\ hand[h].op \in {"upload", "delete"} => hand'[h].page = hand[h].page
         /\ hand'[h] # Idle
         /\ \A k \in Handlers \ {h} : hand'[k] = hand[k]
<1>1. PICK x : x = [hand[h] EXCEPT !.pc = to]
  OBVIOUS
<1>2. hand \in [Handlers -> Handler]
  BY DEF TypeOK, Handler
<1>3. hand' = [hand EXCEPT ![h] = x]
  BY <1>1, <1>2 DEF Goto
<1>4. CASE hand[h].op = "upload"
  <2>1. hand[h] \in Upload /\ to \in {"save", "row", "undo", "ok", "failed"}
    BY <1>4, HandlerFields
  <2>2. x \in Upload /\ x.op = "upload" /\ x.photo = hand[h].photo /\ x.pc = to
        /\ x.purpose = hand[h].purpose /\ x.page = hand[h].page
    BY <1>1, <2>1 DEF Upload
  <2>3. x # Idle /\ x \in Handler
    BY <2>2 DEF Idle, Handler
  <2> QED
    BY <1>2, <1>3, <1>4, <2>2, <2>3
<1>5. CASE hand[h].op = "delete"
  <2>1. hand[h] \in Delete /\ to \in {"find", "row", "unlink", "ok", "failed"}
    BY <1>5, HandlerFields
  <2>2. x \in Delete /\ x.op = "delete" /\ x.photo = hand[h].photo /\ x.pc = to
        /\ x.page = hand[h].page
    BY <1>1, <2>1 DEF Delete
  <2>3. x # Idle /\ x \in Handler
    BY <2>2 DEF Idle, Handler
  <2> QED
    BY <1>2, <1>3, <1>5, <2>2, <2>3
<1>6. CASE hand[h].op = "serve"
  <2>1. hand[h] \in Serve /\ to \in {"find", "read", "ok", "failed", "missing", "unreadable"}
    BY <1>6, HandlerFields
  <2>2. x \in Serve /\ x.op = "serve" /\ x.photo = hand[h].photo /\ x.pc = to
    BY <1>1, <2>1 DEF Serve
  <2>3. x # Idle /\ x \in Handler
    BY <2>2 DEF Idle, Handler
  <2> QED
    BY <1>2, <1>3, <1>6, <2>2, <2>3
<1> QED
  BY <1>4, <1>5, <1>6

\* A slot taken by a new handler, or freed.
LEMMA Placed ==
  ASSUME TypeOK, NEW h \in Handlers, NEW x \in Handler, hand' = [hand EXCEPT ![h] = x]
  PROVE  /\ hand' \in [Handlers -> Handler] /\ hand'[h] = x
         /\ \A k \in Handlers \ {h} : hand'[k] = hand[k]
  BY DEF TypeOK, Handler

----------------------------------------------------------------------------
(* Steps of the handlers *)

LEMMA FindStep ==
  ASSUME PhotosInv, NEW h \in Handlers, Find(h)
  PROVE  PhotosInv'
<1>0. TypeOK /\ Known /\ OrphansExplained
  BY DEF PhotosInv
<1>1. /\ hand[h].op = "delete" /\ hand[h].pc = "find"
      /\ hand[h] # Idle /\ hand[h].photo \in Photos /\ hand[h] \in Delete
  <2>1. hand[h].op = "delete" /\ hand[h].pc = "find"
    BY DEF Find, At
  <2> QED
    BY <1>0, <2>1, HandlerFields DEF Idle
<1>2. PICK to \in {"row", "failed"} : Goto(h, to)
  BY DEF Find
<1>3. /\ hand' \in [Handlers -> Handler] /\ hand'[h] # Idle
      /\ hand'[h].op = hand[h].op /\ hand'[h].photo = hand[h].photo /\ hand'[h].pc = to
      /\ hand[h].op = "upload" => hand'[h].purpose = hand[h].purpose
      /\ \A k \in Handlers \ {h} : hand'[k] = hand[k]
  BY <1>0, <1>1, <1>2, Moved
<1>4. \A k \in Handlers : hand[k] # Idle => hand[k].photo \in Photos
  BY <1>0, HandlerFields
<1>5. /\ hand[h].op = "upload" => hand[h].purpose \in Purposes /\ hand[h].page \in Pages
      /\ \A k \in Handlers : hand[k].op \in {"upload", "delete", "serve"} => hand[k] # Idle
  BY <1>0, <1>1, HandlerFields DEF Upload, Idle
<1>6. TypeOK'
  BY <1>0, <1>1, <1>2, <1>3, <1>4, <1>5 DEF TypeOK, Find, Handler, Goto
<1>7. UploadsAlone'
  BY <1>0, <1>1, <1>2, <1>3, <1>4, <1>5
  DEF Known, UploadsAlone, Uploading, InVain, Live, Find, Handler, Goto
<1>8. StoredAsAsked'
  BY <1>0, <1>1, <1>2, <1>3, <1>4, <1>5
  DEF Known, UploadsAlone, StoredAsAsked, DeletesGallery, Uploading, InVain, At, Live,
      Find, Handler, Goto
<1>9. DeletesGallery'
  BY <1>0, <1>1, <1>2, <1>3, <1>4, <1>5
  DEF Known, UploadsAlone, DeletesGallery, ShowsGallery, Uploading, InVain, Live, At,
      Find, Handler, Goto
<1>10. ShowsGallery'
  BY <1>0, <1>1, <1>2, <1>3, <1>4, <1>5
  DEF Known, UploadsAlone, StoredAsAsked, ShowsGallery, Uploading, InVain, Listed, At,
      Live, Find, Handler, Goto
<1>11. RefersToAssets'
  BY <1>0, <1>1, <1>2, <1>3, <1>4, <1>5
  DEF Known, UploadsAlone, StoredAsAsked, DeletesGallery, RefersToAssets, Uploading,
      InVain, At, Live, Find, Handler, Goto
<1>12. RowsHaveFiles'
  BY <1>0, <1>1, <1>2, <1>3, <1>4, <1>5
  DEF Known, UploadsAlone, DeletesGallery, RowsHaveFiles, Uploading, Live, At, TypeOK,
      Find, Handler, Goto
<1>13. MissingMeansDeleted'
  BY <1>0, <1>1, <1>2, <1>3, <1>4, <1>5
  DEF Known, UploadsAlone, RowsHaveFiles, MissingMeansDeleted, Uploading, InVain, At,
      Live, Find, Handler, Goto
<1>14. OrphansExplained'
  BY <1>0, <1>1, <1>2, <1>3, <1>4, <1>5
  DEF OrphansExplained, Known, UploadsAlone, Uploading, At, Live, TypeOK, Find, Handler,
      Goto
<1> QED
  BY <1>6, <1>7, <1>8, <1>9, <1>10, <1>11, <1>12, <1>13, <1>14 DEF PhotosInv, Known

LEMMA UnlinkStep ==
  ASSUME PhotosInv, NEW h \in Handlers, Unlink(h)
  PROVE  PhotosInv'
<1>0. TypeOK /\ Known /\ OrphansExplained
  BY DEF PhotosInv
<1>1. /\ hand[h].op = "delete" /\ hand[h].pc = "unlink"
      /\ hand[h] # Idle /\ hand[h].photo \in Photos /\ hand[h] \in Delete
  <2>1. hand[h].op = "delete" /\ hand[h].pc = "unlink"
    BY DEF Unlink, At
  <2> QED
    BY <1>0, <2>1, HandlerFields DEF Idle
<1>2. PICK to \in {"ok"} : Goto(h, to)
  BY DEF Unlink
<1>3. /\ hand' \in [Handlers -> Handler] /\ hand'[h] # Idle
      /\ hand'[h].op = hand[h].op /\ hand'[h].photo = hand[h].photo /\ hand'[h].pc = to
      /\ hand[h].op = "upload" => hand'[h].purpose = hand[h].purpose
      /\ \A k \in Handlers \ {h} : hand'[k] = hand[k]
  BY <1>0, <1>1, <1>2, Moved
<1>4. \A k \in Handlers : hand[k] # Idle => hand[k].photo \in Photos
  BY <1>0, HandlerFields
<1>5. /\ hand[h].op = "upload" => hand[h].purpose \in Purposes /\ hand[h].page \in Pages
      /\ \A k \in Handlers : hand[k].op \in {"upload", "delete", "serve"} => hand[k] # Idle
  BY <1>0, <1>1, HandlerFields DEF Upload, Idle
<1>6. TypeOK'
  BY <1>0, <1>1, <1>2, <1>3, <1>4, <1>5 DEF TypeOK, Unlink, Unlinked, Handler, Goto
<1>7. UploadsAlone'
  BY <1>0, <1>1, <1>2, <1>3, <1>4, <1>5
  DEF Known, UploadsAlone, Uploading, InVain, Live, Unlink, Unlinked, Handler, Goto
<1>8. StoredAsAsked'
  BY <1>0, <1>1, <1>2, <1>3, <1>4, <1>5
  DEF Known, UploadsAlone, StoredAsAsked, DeletesGallery, Uploading, InVain, At, Live,
      Unlink, Unlinked, Handler, Goto
<1>9. DeletesGallery'
  BY <1>0, <1>1, <1>2, <1>3, <1>4, <1>5
  DEF Known, UploadsAlone, DeletesGallery, ShowsGallery, Uploading, InVain, Live, At,
      Unlink, Unlinked, Handler, Goto
<1>10. ShowsGallery'
  BY <1>0, <1>1, <1>2, <1>3, <1>4, <1>5
  DEF Known, UploadsAlone, StoredAsAsked, ShowsGallery, Uploading, InVain, Listed, At,
      Live, Unlink, Unlinked, Handler, Goto
<1>11. RefersToAssets'
  BY <1>0, <1>1, <1>2, <1>3, <1>4, <1>5
  DEF Known, UploadsAlone, StoredAsAsked, DeletesGallery, RefersToAssets, Uploading,
      InVain, At, Live, Unlink, Unlinked, Handler, Goto
<1>12. RowsHaveFiles'
  BY <1>0, <1>1, <1>2, <1>3, <1>4, <1>5
  DEF Known, UploadsAlone, DeletesGallery, RowsHaveFiles, Uploading, Live, At, TypeOK,
      Unlink, Unlinked, Handler, Goto
<1>13. MissingMeansDeleted'
  BY <1>0, <1>1, <1>2, <1>3, <1>4, <1>5
  DEF Known, UploadsAlone, RowsHaveFiles, MissingMeansDeleted, Uploading, InVain, At,
      Live, Unlink, Unlinked, Handler, Goto
<1>14. OrphansExplained'
  BY <1>0, <1>1, <1>2, <1>3, <1>4, <1>5
  DEF OrphansExplained, Known, UploadsAlone, Uploading, At, Live, TypeOK, Unlink,
      Unlinked, Handler, Goto
<1> QED
  BY <1>6, <1>7, <1>8, <1>9, <1>10, <1>11, <1>12, <1>13, <1>14 DEF PhotosInv, Known

LEMMA RemoveRowStep ==
  ASSUME PhotosInv, NEW h \in Handlers, RemoveRow(h)
  PROVE  PhotosInv'
<1>0. TypeOK /\ Known /\ OrphansExplained
  BY DEF PhotosInv
<1>1. /\ hand[h].op = "delete" /\ hand[h].pc = "row"
      /\ hand[h] # Idle /\ hand[h].photo \in Photos /\ hand[h] \in Delete
  <2>1. hand[h].op = "delete" /\ hand[h].pc = "row"
    BY DEF RemoveRow, At
  <2> QED
    BY <1>0, <2>1, HandlerFields DEF Idle
<1>2. PICK to \in {"unlink", "failed"}, gone \in BOOLEAN :
         /\ Goto(h, to)
         /\ gone => rows' = [rows EXCEPT ![hand[h].photo].live = FALSE]
         /\ ~gone => UNCHANGED rows
         /\ to = "unlink" => gone
         /\ parted' = parted \/ parted' = parted \cup ({hand[h].photo} \cap files)
         /\ to = "failed" /\ gone => parted' = parted \cup ({hand[h].photo} \cap files)
  BY DEF RemoveRow
<1>3. /\ hand' \in [Handlers -> Handler] /\ hand'[h] # Idle
      /\ hand'[h].op = hand[h].op /\ hand'[h].photo = hand[h].photo /\ hand'[h].pc = to
      /\ hand[h].op = "upload" => hand'[h].purpose = hand[h].purpose
      /\ \A k \in Handlers \ {h} : hand'[k] = hand[k]
  BY <1>0, <1>1, <1>2, Moved
<1>4. \A k \in Handlers : hand[k] # Idle => hand[k].photo \in Photos
  BY <1>0, HandlerFields
<1>5. /\ hand[h].op = "upload" => hand[h].purpose \in Purposes /\ hand[h].page \in Pages
      /\ \A k \in Handlers : hand[k].op \in {"upload", "delete", "serve"} => hand[k] # Idle
  BY <1>0, <1>1, HandlerFields DEF Upload, Idle
<1>6. /\ rows' \in [Photos -> Row] /\ \A q \in Photos \ {hand[h].photo} : rows'[q] = rows[q]
      /\ gone => /\ rows'[hand[h].photo].live = FALSE
              /\ rows'[hand[h].photo].purpose = rows[hand[h].photo].purpose
      /\ ~gone => rows' = rows
  <2>1. rows \in [Photos -> Row] /\ hand[h].photo \in Photos
    BY <1>0, <1>1 DEF TypeOK
  <2>2. hand[h].op = "upload" => hand[h].purpose \in Purposes
    BY <1>5
  <2> QED
    BY <1>1, <1>2, <2>1, <2>2 DEF Row
<1>7. UNCHANGED <<files, refs, shown>> /\ stale' \in [Pages -> SUBSET Photos]
  BY <1>0, <1>1 DEF RemoveRow, Unheard, UnheardByAll, TypeOK
<1>8. refs \subseteq Photos /\ (\A g \in Pages : shown[g] \subseteq Photos)
  BY <1>0 DEF TypeOK
<1>9. TypeOK'
  BY <1>0, <1>1, <1>2, <1>3, <1>4, <1>5, <1>6, <1>7, <1>8 DEF TypeOK, Handler
<1>10. UploadsAlone'
  BY <1>0, <1>1, <1>2, <1>3, <1>4, <1>5, <1>6, <1>7, <1>8
  DEF Known, UploadsAlone, Uploading, InVain, Live, Handler
<1>11. StoredAsAsked'
  BY <1>0, <1>1, <1>2, <1>3, <1>4, <1>5, <1>6, <1>7, <1>8
  DEF Known, UploadsAlone, StoredAsAsked, DeletesGallery, Uploading, InVain, At, Live,
      Handler
<1>12. DeletesGallery'
  BY <1>0, <1>1, <1>2, <1>3, <1>4, <1>5, <1>6, <1>7, <1>8
  DEF Known, UploadsAlone, DeletesGallery, ShowsGallery, Uploading, InVain, Live, At,
      Handler
<1>13. ShowsGallery'
  BY <1>0, <1>1, <1>2, <1>3, <1>4, <1>5, <1>6, <1>7, <1>8
  DEF Known, UploadsAlone, StoredAsAsked, ShowsGallery, Uploading, InVain, Listed, At,
      Live, Handler
<1>14. RefersToAssets'
  BY <1>0, <1>1, <1>2, <1>3, <1>4, <1>5, <1>6, <1>7, <1>8
  DEF Known, UploadsAlone, StoredAsAsked, DeletesGallery, RefersToAssets, Uploading,
      InVain, At, Live, Handler
<1>15. RowsHaveFiles'
  BY <1>0, <1>1, <1>2, <1>3, <1>4, <1>5, <1>6, <1>7, <1>8
  DEF Known, UploadsAlone, DeletesGallery, RowsHaveFiles, Uploading, Live, At, TypeOK,
      Handler
<1>16. MissingMeansDeleted'
  BY <1>0, <1>1, <1>2, <1>3, <1>4, <1>5, <1>6, <1>7, <1>8
  DEF Known, UploadsAlone, RowsHaveFiles, MissingMeansDeleted, Uploading, InVain, At,
      Live, Handler
<1>17. OrphansExplained'
  BY <1>0, <1>1, <1>2, <1>3, <1>4, <1>5, <1>6, <1>7, <1>8
  DEF OrphansExplained, Known, UploadsAlone, Uploading, At, Live, TypeOK, Handler
<1> QED
  BY <1>9, <1>10, <1>11, <1>12, <1>13, <1>14, <1>15, <1>16, <1>17 DEF PhotosInv, Known

LEMMA LookStep ==
  ASSUME PhotosInv, NEW h \in Handlers, Look(h)
  PROVE  PhotosInv'
<1>0. TypeOK /\ Known /\ OrphansExplained
  BY DEF PhotosInv
<1>1. /\ hand[h].op = "serve" /\ hand[h].pc = "find"
      /\ hand[h] # Idle /\ hand[h].photo \in Photos /\ hand[h] \in Serve
  <2>1. hand[h].op = "serve" /\ hand[h].pc = "find"
    BY DEF Look, At
  <2> QED
    BY <1>0, <2>1, HandlerFields DEF Idle
<1>2. PICK to \in {"read", "failed"} : Goto(h, to) /\ (to = "read" => Live(hand[h].photo))
  BY DEF Look
<1>3. /\ hand' \in [Handlers -> Handler] /\ hand'[h] # Idle
      /\ hand'[h].op = hand[h].op /\ hand'[h].photo = hand[h].photo /\ hand'[h].pc = to
      /\ hand[h].op = "upload" => hand'[h].purpose = hand[h].purpose
      /\ \A k \in Handlers \ {h} : hand'[k] = hand[k]
  BY <1>0, <1>1, <1>2, Moved
<1>4. \A k \in Handlers : hand[k] # Idle => hand[k].photo \in Photos
  BY <1>0, HandlerFields
<1>5. /\ hand[h].op = "upload" => hand[h].purpose \in Purposes /\ hand[h].page \in Pages
      /\ \A k \in Handlers : hand[k].op \in {"upload", "delete", "serve"} => hand[k] # Idle
  BY <1>0, <1>1, HandlerFields DEF Upload, Idle
<1>6. TypeOK'
  BY <1>0, <1>1, <1>2, <1>3, <1>4, <1>5 DEF TypeOK, Look, Handler, Goto
<1>7. UploadsAlone'
  <2>1. UNCHANGED <<rows, files, refs, shown, parted>>
    BY DEF Look
  <2> QED
    BY <1>0, <1>1, <1>2, <1>3, <1>4, <1>5, <2>1
    DEF Known, UploadsAlone, Uploading, InVain, Live
<1>8. StoredAsAsked'
  BY <1>0, <1>1, <1>2, <1>3, <1>4, <1>5
  DEF Known, UploadsAlone, StoredAsAsked, DeletesGallery, Uploading, InVain, At, Live,
      Look, Handler, Goto
<1>9. DeletesGallery'
  BY <1>0, <1>1, <1>2, <1>3, <1>4, <1>5
  DEF Known, UploadsAlone, DeletesGallery, ShowsGallery, Uploading, InVain, Live, At,
      Look, Handler, Goto
<1>10. ShowsGallery'
  BY <1>0, <1>1, <1>2, <1>3, <1>4, <1>5
  DEF Known, UploadsAlone, StoredAsAsked, ShowsGallery, Uploading, InVain, Listed, At,
      Live, Look, Handler, Goto
<1>11. RefersToAssets'
  BY <1>0, <1>1, <1>2, <1>3, <1>4, <1>5
  DEF Known, UploadsAlone, StoredAsAsked, DeletesGallery, RefersToAssets, Uploading,
      InVain, At, Live, Look, Handler, Goto
<1>12. RowsHaveFiles'
  BY <1>0, <1>1, <1>2, <1>3, <1>4, <1>5
  DEF Known, UploadsAlone, DeletesGallery, RowsHaveFiles, Uploading, Live, At, TypeOK,
      Look, Handler, Goto
<1>13. MissingMeansDeleted'
  BY <1>0, <1>1, <1>2, <1>3, <1>4, <1>5
  DEF Known, UploadsAlone, RowsHaveFiles, MissingMeansDeleted, Uploading, InVain, At,
      Live, Look, Handler, Goto
<1>14. OrphansExplained'
  BY <1>0, <1>1, <1>2, <1>3, <1>4, <1>5
  DEF OrphansExplained, Known, UploadsAlone, Uploading, At, Live, TypeOK, Look, Handler,
      Goto
<1> QED
  BY <1>6, <1>7, <1>8, <1>9, <1>10, <1>11, <1>12, <1>13, <1>14 DEF PhotosInv, Known

LEMMA ReadStep ==
  ASSUME PhotosInv, NEW h \in Handlers, Read(h)
  PROVE  PhotosInv'
<1>0. TypeOK /\ Known /\ OrphansExplained
  BY DEF PhotosInv
<1>1. /\ hand[h].op = "serve" /\ hand[h].pc = "read"
      /\ hand[h] # Idle /\ hand[h].photo \in Photos /\ hand[h] \in Serve
  <2>1. hand[h].op = "serve" /\ hand[h].pc = "read"
    BY DEF Read, At
  <2> QED
    BY <1>0, <2>1, HandlerFields DEF Idle
<1>2. PICK to \in {"ok", "missing", "unreadable"} :
         Goto(h, to) /\ (to = "missing" => hand[h].photo \notin files)
  BY DEF Read
<1>3. /\ hand' \in [Handlers -> Handler] /\ hand'[h] # Idle
      /\ hand'[h].op = hand[h].op /\ hand'[h].photo = hand[h].photo /\ hand'[h].pc = to
      /\ hand[h].op = "upload" => hand'[h].purpose = hand[h].purpose
      /\ \A k \in Handlers \ {h} : hand'[k] = hand[k]
  BY <1>0, <1>1, <1>2, Moved
<1>4. \A k \in Handlers : hand[k] # Idle => hand[k].photo \in Photos
  BY <1>0, HandlerFields
<1>5. /\ hand[h].op = "upload" => hand[h].purpose \in Purposes /\ hand[h].page \in Pages
      /\ \A k \in Handlers : hand[k].op \in {"upload", "delete", "serve"} => hand[k] # Idle
  BY <1>0, <1>1, HandlerFields DEF Upload, Idle
<1>6. TypeOK'
  BY <1>0, <1>1, <1>2, <1>3, <1>4, <1>5 DEF TypeOK, Read, Handler, Goto
<1>7. UploadsAlone'
  BY <1>0, <1>1, <1>2, <1>3, <1>4, <1>5
  DEF Known, UploadsAlone, Uploading, InVain, Live, Read, Handler, Goto
<1>8. StoredAsAsked'
  BY <1>0, <1>1, <1>2, <1>3, <1>4, <1>5
  DEF Known, UploadsAlone, StoredAsAsked, DeletesGallery, Uploading, InVain, At, Live,
      Read, Handler, Goto
<1>9. DeletesGallery'
  BY <1>0, <1>1, <1>2, <1>3, <1>4, <1>5
  DEF Known, UploadsAlone, DeletesGallery, ShowsGallery, Uploading, InVain, Live, At,
      Read, Handler, Goto
<1>10. ShowsGallery'
  BY <1>0, <1>1, <1>2, <1>3, <1>4, <1>5
  DEF Known, UploadsAlone, StoredAsAsked, ShowsGallery, Uploading, InVain, Listed, At,
      Live, Read, Handler, Goto
<1>11. RefersToAssets'
  BY <1>0, <1>1, <1>2, <1>3, <1>4, <1>5
  DEF Known, UploadsAlone, StoredAsAsked, DeletesGallery, RefersToAssets, Uploading,
      InVain, At, Live, Read, Handler, Goto
<1>12. RowsHaveFiles'
  BY <1>0, <1>1, <1>2, <1>3, <1>4, <1>5
  DEF Known, UploadsAlone, DeletesGallery, RowsHaveFiles, Uploading, Live, At, TypeOK,
      Read, Handler, Goto
<1>13. MissingMeansDeleted'
  <2>1. UNCHANGED <<rows, files, parted>>
    BY DEF Read
  <2>2. to = "missing" => ~Live(hand[h].photo) \/ hand[h].photo \in parted
    BY <1>0, <1>1, <1>2 DEF Known, RowsHaveFiles
  <2> QED
    BY <1>0, <1>3, <2>1, <2>2 DEF Known, MissingMeansDeleted, At, Live
<1>14. OrphansExplained'
  BY <1>0, <1>1, <1>2, <1>3, <1>4, <1>5
  DEF OrphansExplained, Known, UploadsAlone, Uploading, At, Live, TypeOK, Read, Handler,
      Goto
<1> QED
  BY <1>6, <1>7, <1>8, <1>9, <1>10, <1>11, <1>12, <1>13, <1>14 DEF PhotosInv, Known

LEMMA SaveStep ==
  ASSUME PhotosInv, NEW h \in Handlers, Save(h)
  PROVE  PhotosInv'
<1>0. TypeOK /\ Known /\ OrphansExplained
  BY DEF PhotosInv
<1>1. /\ hand[h].op = "upload" /\ hand[h].pc = "save"
      /\ hand[h] # Idle /\ hand[h].photo \in Photos /\ hand[h] \in Upload
  <2>1. hand[h].op = "upload" /\ hand[h].pc = "save"
    BY DEF Save, At
  <2> QED
    BY <1>0, <2>1, HandlerFields DEF Idle
<1>2. PICK to \in {"row", "failed"} :
         /\ Goto(h, to)
         /\ to = "row" => files' = files \cup {hand[h].photo} /\ UNCHANGED parted
         /\ to = "failed" => \/ UNCHANGED <<files, parted>>
                              \/ /\ files' = files \cup {hand[h].photo}
                                 /\ parted' = parted \cup {hand[h].photo}
  BY DEF Save
<1>3. /\ hand' \in [Handlers -> Handler] /\ hand'[h] # Idle
      /\ hand'[h].op = hand[h].op /\ hand'[h].photo = hand[h].photo /\ hand'[h].pc = to
      /\ hand[h].op = "upload" => hand'[h].purpose = hand[h].purpose
      /\ \A k \in Handlers \ {h} : hand'[k] = hand[k]
  BY <1>0, <1>1, <1>2, Moved
<1>4. \A k \in Handlers : hand[k] # Idle => hand[k].photo \in Photos
  BY <1>0, HandlerFields
<1>5. /\ hand[h].op = "upload" => hand[h].purpose \in Purposes /\ hand[h].page \in Pages
      /\ \A k \in Handlers : hand[k].op \in {"upload", "delete", "serve"} => hand[k] # Idle
  BY <1>0, <1>1, HandlerFields DEF Upload, Idle
<1>6. UNCHANGED <<rows, refs, shown, stale>>
  BY DEF Save
<1>7. TypeOK'
  BY <1>0, <1>1, <1>2, <1>3, <1>4, <1>5, <1>6 DEF TypeOK, Handler
<1>8. UploadsAlone'
  BY <1>0, <1>1, <1>2, <1>3, <1>4, <1>5, <1>6
  DEF Known, UploadsAlone, Uploading, InVain, Live, Handler
<1>9. StoredAsAsked'
  BY <1>0, <1>1, <1>2, <1>3, <1>4, <1>5, <1>6
  DEF Known, UploadsAlone, StoredAsAsked, DeletesGallery, Uploading, InVain, At, Live,
      Handler
<1>10. DeletesGallery'
  BY <1>0, <1>1, <1>2, <1>3, <1>4, <1>5, <1>6
  DEF Known, UploadsAlone, DeletesGallery, ShowsGallery, Uploading, InVain, Live, At,
      Handler
<1>11. ShowsGallery'
  BY <1>0, <1>1, <1>2, <1>3, <1>4, <1>5, <1>6
  DEF Known, UploadsAlone, StoredAsAsked, ShowsGallery, Uploading, InVain, Listed, At,
      Live, Handler
<1>12. RefersToAssets'
  BY <1>0, <1>1, <1>2, <1>3, <1>4, <1>5, <1>6
  DEF Known, UploadsAlone, StoredAsAsked, DeletesGallery, RefersToAssets, Uploading,
      InVain, At, Live, Handler
<1>13. RowsHaveFiles'
  BY <1>0, <1>1, <1>2, <1>3, <1>4, <1>5, <1>6
  DEF Known, UploadsAlone, DeletesGallery, RowsHaveFiles, Uploading, Live, At, TypeOK,
      Handler
<1>14. MissingMeansDeleted'
  BY <1>0, <1>1, <1>2, <1>3, <1>4, <1>5, <1>6
  DEF Known, UploadsAlone, RowsHaveFiles, MissingMeansDeleted, Uploading, InVain, At,
      Live, Handler
<1>15. OrphansExplained'
  BY <1>0, <1>1, <1>2, <1>3, <1>4, <1>5, <1>6
  DEF OrphansExplained, Known, UploadsAlone, Uploading, At, Live, TypeOK, Handler
<1> QED
  BY <1>7, <1>8, <1>9, <1>10, <1>11, <1>12, <1>13, <1>14, <1>15 DEF PhotosInv, Known

LEMMA InsertStep ==
  ASSUME PhotosInv, NEW h \in Handlers, Insert(h)
  PROVE  PhotosInv'
<1>0. TypeOK /\ Known /\ OrphansExplained
  BY DEF PhotosInv
<1>1. /\ hand[h].op = "upload" /\ hand[h].pc = "row"
      /\ hand[h] # Idle /\ hand[h].photo \in Photos /\ hand[h] \in Upload
  <2>1. hand[h].op = "upload" /\ hand[h].pc = "row"
    BY DEF Insert, At
  <2> QED
    BY <1>0, <2>1, HandlerFields DEF Idle
<1>2. PICK to \in {"ok", "undo"}, born \in BOOLEAN :
         /\ Goto(h, to)
         /\ born => rows' = [rows EXCEPT ![hand[h].photo] =
                               [live |-> TRUE, purpose |-> hand[h].purpose]]
         /\ ~born => UNCHANGED rows
         /\ to = "ok" => born
         /\ parted' = parted \/ parted' = parted \cup {hand[h].photo}
         /\ to = "undo" /\ born => parted' = parted \cup {hand[h].photo}
  BY DEF Insert
<1>3. /\ hand' \in [Handlers -> Handler] /\ hand'[h] # Idle
      /\ hand'[h].op = hand[h].op /\ hand'[h].photo = hand[h].photo /\ hand'[h].pc = to
      /\ hand[h].op = "upload" => hand'[h].purpose = hand[h].purpose
      /\ \A k \in Handlers \ {h} : hand'[k] = hand[k]
  BY <1>0, <1>1, <1>2, Moved
<1>4. \A k \in Handlers : hand[k] # Idle => hand[k].photo \in Photos
  BY <1>0, HandlerFields
<1>5. /\ hand[h].op = "upload" => hand[h].purpose \in Purposes /\ hand[h].page \in Pages
      /\ \A k \in Handlers : hand[k].op \in {"upload", "delete", "serve"} => hand[k] # Idle
  BY <1>0, <1>1, HandlerFields DEF Upload, Idle
<1>6. /\ rows' \in [Photos -> Row] /\ \A q \in Photos \ {hand[h].photo} : rows'[q] = rows[q]
      /\ born => /\ rows'[hand[h].photo].live = TRUE
              /\ rows'[hand[h].photo].purpose = hand[h].purpose
      /\ ~born => rows' = rows
  <2>1. rows \in [Photos -> Row] /\ hand[h].photo \in Photos
    BY <1>0, <1>1 DEF TypeOK
  <2>2. hand[h].op = "upload" => hand[h].purpose \in Purposes
    BY <1>5
  <2>3. PICK r : r = [live |-> TRUE, purpose |-> hand[h].purpose]
    OBVIOUS
  <2>4. r \in Row /\ r.live = TRUE /\ r.purpose = hand[h].purpose
    BY <1>1, <2>2, <2>3 DEF Row
  <2>5. born => rows' = [rows EXCEPT ![hand[h].photo] = r]
    BY <1>2, <2>3
  <2> QED
    BY <1>2, <2>1, <2>4, <2>5
<1>7. UNCHANGED <<files, refs, shown>> /\ stale' \in [Pages -> SUBSET Photos]
  BY <1>0, <1>1 DEF Insert, Unheard, UnheardByAll, TypeOK
<1>8. refs \subseteq Photos /\ (\A g \in Pages : shown[g] \subseteq Photos)
  BY <1>0 DEF TypeOK
<1>9. TypeOK'
  BY <1>0, <1>1, <1>2, <1>3, <1>4, <1>5, <1>6, <1>7, <1>8 DEF TypeOK, Handler
<1>10. UploadsAlone'
  BY <1>0, <1>1, <1>2, <1>3, <1>4, <1>5, <1>6, <1>7, <1>8
  DEF Known, UploadsAlone, Uploading, InVain, Live, Handler
<1>11. StoredAsAsked'
  BY <1>0, <1>1, <1>2, <1>3, <1>4, <1>5, <1>6, <1>7, <1>8
  DEF Known, UploadsAlone, StoredAsAsked, DeletesGallery, Uploading, InVain, At, Live,
      Handler
<1>12. DeletesGallery'
  BY <1>0, <1>1, <1>2, <1>3, <1>4, <1>5, <1>6, <1>7, <1>8
  DEF Known, UploadsAlone, DeletesGallery, ShowsGallery, Uploading, InVain, Live, At,
      Handler
<1>13. ShowsGallery'
  BY <1>0, <1>1, <1>2, <1>3, <1>4, <1>5, <1>6, <1>7, <1>8
  DEF Known, UploadsAlone, StoredAsAsked, ShowsGallery, Uploading, InVain, Listed, At,
      Live, Handler
<1>14. RefersToAssets'
  BY <1>0, <1>1, <1>2, <1>3, <1>4, <1>5, <1>6, <1>7, <1>8
  DEF Known, UploadsAlone, StoredAsAsked, DeletesGallery, RefersToAssets, Uploading,
      InVain, At, Live, Handler
<1>15. RowsHaveFiles'
  BY <1>0, <1>1, <1>2, <1>3, <1>4, <1>5, <1>6, <1>7, <1>8
  DEF Known, UploadsAlone, DeletesGallery, RowsHaveFiles, Uploading, Live, At, TypeOK,
      Handler
<1>16. MissingMeansDeleted'
  BY <1>0, <1>1, <1>2, <1>3, <1>4, <1>5, <1>6, <1>7, <1>8
  DEF Known, UploadsAlone, RowsHaveFiles, MissingMeansDeleted, Uploading, InVain, At,
      Live, Handler
<1>17. OrphansExplained'
  BY <1>0, <1>1, <1>2, <1>3, <1>4, <1>5, <1>6, <1>7, <1>8
  DEF OrphansExplained, Known, UploadsAlone, Uploading, At, Live, TypeOK, Handler
<1> QED
  BY <1>9, <1>10, <1>11, <1>12, <1>13, <1>14, <1>15, <1>16, <1>17 DEF PhotosInv, Known

LEMMA UndoStep ==
  ASSUME PhotosInv, NEW h \in Handlers, Undo(h)
  PROVE  PhotosInv'
<1>0. TypeOK /\ Known /\ OrphansExplained
  BY DEF PhotosInv
<1>1. /\ hand[h].op = "upload" /\ hand[h].pc = "undo"
      /\ hand[h] # Idle /\ hand[h].photo \in Photos /\ hand[h] \in Upload
  <2>1. hand[h].op = "upload" /\ hand[h].pc = "undo"
    BY DEF Undo, At
  <2> QED
    BY <1>0, <2>1, HandlerFields DEF Idle
<1>2. PICK to \in {"failed"} : Goto(h, to)
  BY DEF Undo
<1>3. /\ hand' \in [Handlers -> Handler] /\ hand'[h] # Idle
      /\ hand'[h].op = hand[h].op /\ hand'[h].photo = hand[h].photo /\ hand'[h].pc = to
      /\ hand[h].op = "upload" => hand'[h].purpose = hand[h].purpose
      /\ \A k \in Handlers \ {h} : hand'[k] = hand[k]
  BY <1>0, <1>1, <1>2, Moved
<1>4. \A k \in Handlers : hand[k] # Idle => hand[k].photo \in Photos
  BY <1>0, HandlerFields
<1>5. /\ hand[h].op = "upload" => hand[h].purpose \in Purposes /\ hand[h].page \in Pages
      /\ \A k \in Handlers : hand[k].op \in {"upload", "delete", "serve"} => hand[k] # Idle
  BY <1>0, <1>1, HandlerFields DEF Upload, Idle
<1>6. TypeOK'
  BY <1>0, <1>1, <1>2, <1>3, <1>4, <1>5 DEF TypeOK, Undo, Unlinked, Handler, Goto
<1>7. UploadsAlone'
  BY <1>0, <1>1, <1>2, <1>3, <1>4, <1>5
  DEF Known, UploadsAlone, Uploading, InVain, Live, Undo, Unlinked, Handler, Goto
<1>8. StoredAsAsked'
  BY <1>0, <1>1, <1>2, <1>3, <1>4, <1>5
  DEF Known, UploadsAlone, StoredAsAsked, DeletesGallery, Uploading, InVain, At, Live,
      Undo, Unlinked, Handler, Goto
<1>9. DeletesGallery'
  BY <1>0, <1>1, <1>2, <1>3, <1>4, <1>5
  DEF Known, UploadsAlone, DeletesGallery, ShowsGallery, Uploading, InVain, Live, At,
      Undo, Unlinked, Handler, Goto
<1>10. ShowsGallery'
  BY <1>0, <1>1, <1>2, <1>3, <1>4, <1>5
  DEF Known, UploadsAlone, StoredAsAsked, ShowsGallery, Uploading, InVain, Listed, At,
      Live, Undo, Unlinked, Handler, Goto
<1>11. RefersToAssets'
  BY <1>0, <1>1, <1>2, <1>3, <1>4, <1>5
  DEF Known, UploadsAlone, StoredAsAsked, DeletesGallery, RefersToAssets, Uploading,
      InVain, At, Live, Undo, Unlinked, Handler, Goto
<1>12. RowsHaveFiles'
  BY <1>0, <1>1, <1>2, <1>3, <1>4, <1>5
  DEF Known, UploadsAlone, DeletesGallery, RowsHaveFiles, Uploading, Live, At, TypeOK,
      Undo, Unlinked, Handler, Goto
<1>13. MissingMeansDeleted'
  BY <1>0, <1>1, <1>2, <1>3, <1>4, <1>5
  DEF Known, UploadsAlone, RowsHaveFiles, MissingMeansDeleted, Uploading, InVain, At,
      Live, Undo, Unlinked, Handler, Goto
<1>14. OrphansExplained'
  BY <1>0, <1>1, <1>2, <1>3, <1>4, <1>5
  DEF OrphansExplained, Known, UploadsAlone, Uploading, At, Live, TypeOK, Undo, Unlinked,
      Handler, Goto
<1> QED
  BY <1>6, <1>7, <1>8, <1>9, <1>10, <1>11, <1>12, <1>13, <1>14 DEF PhotosInv, Known

----------------------------------------------------------------------------
(* Requests and answers *)

LEMMA StartUploadStep ==
  ASSUME PhotosInv, NEW h \in Handlers, NEW p \in Photos, NEW g \in Pages, NEW asked \in Asked,
         StartUpload(h, p, asked, g)
  PROVE  PhotosInv'
<1>0. TypeOK /\ Known /\ OrphansExplained
  BY DEF PhotosInv
<1>1. PICK x \in Handler :
         /\ x.op = "upload" /\ x.pc = "save" /\ x.photo = p /\ x # Idle
         /\ hand' = [hand EXCEPT ![h] = x]
  <2>1. PICK x : x = [op |-> "upload", pc |-> "save", photo |-> p,
                      purpose |-> PurposeOf(asked), page |-> g]
    OBVIOUS
  <2>2. PurposeOf(asked) \in Purposes
    BY DEF PurposeOf, Purposes
  <2>3. x \in Upload /\ x.op = "upload" /\ x.pc = "save" /\ x.photo = p
    BY <2>1, <2>2 DEF Upload
  <2>4. x # Idle /\ x \in Handler
    BY <2>3 DEF Idle, Handler
  <2> QED
    BY <2>1, <2>3, <2>4 DEF StartUpload
<1>2. /\ hand' \in [Handlers -> Handler] /\ hand'[h] = x
      /\ \A k \in Handlers \ {h} : hand'[k] = hand[k]
  BY <1>0, <1>1, Placed
<1>3. \A k \in Handlers : hand[k] # Idle => hand[k].photo \in Photos
  BY <1>0, HandlerFields
<1>4. /\ \A k \in Handlers : hand[k].op \in {"upload", "delete", "serve"} => hand[k] # Idle
      /\ refs \subseteq Photos /\ (\A k \in Pages : shown[k] \subseteq Photos)
  BY <1>0 DEF Idle, TypeOK
<1>5. /\ ~Live(p) /\ p \notin files /\ p \notin refs
      /\ \A k \in Handlers : hand[k] # Idle => hand[k].photo # p
      /\ \A k \in Pages : p \notin shown[k]
      /\ UNCHANGED <<rows, files, refs, shown, stale, parted>> /\ hand[h] = Idle
  BY DEF StartUpload, Fresh
<1>6. TypeOK'
  BY <1>0, <1>1, <1>2, <1>3, <1>4, <1>5 DEF TypeOK, Handler, Idle
<1>7. UploadsAlone'
  BY <1>0, <1>1, <1>2, <1>3, <1>4, <1>5
  DEF Known, UploadsAlone, Uploading, InVain, Live, Handler, Idle
<1>8. StoredAsAsked'
  BY <1>0, <1>1, <1>2, <1>3, <1>4, <1>5
  DEF Known, UploadsAlone, StoredAsAsked, DeletesGallery, Uploading, InVain, At, Live,
      Handler, Idle
<1>9. DeletesGallery'
  BY <1>0, <1>1, <1>2, <1>3, <1>4, <1>5
  DEF Known, UploadsAlone, DeletesGallery, ShowsGallery, Uploading, InVain, Live, At,
      Handler, Idle
<1>10. ShowsGallery'
  BY <1>0, <1>1, <1>2, <1>3, <1>4, <1>5
  DEF Known, UploadsAlone, StoredAsAsked, ShowsGallery, Uploading, InVain, Listed, At,
      Live, Handler, Idle
<1>11. RefersToAssets'
  BY <1>0, <1>1, <1>2, <1>3, <1>4, <1>5
  DEF Known, UploadsAlone, StoredAsAsked, DeletesGallery, RefersToAssets, Uploading,
      InVain, At, Live, Handler, Idle
<1>12. RowsHaveFiles'
  BY <1>0, <1>1, <1>2, <1>3, <1>4, <1>5
  DEF Known, UploadsAlone, DeletesGallery, RowsHaveFiles, Uploading, Live, At, TypeOK,
      Handler, Idle
<1>13. MissingMeansDeleted'
  BY <1>0, <1>1, <1>2, <1>3, <1>4, <1>5
  DEF Known, UploadsAlone, RowsHaveFiles, MissingMeansDeleted, Uploading, InVain, At,
      Live, Handler, Idle
<1>14. OrphansExplained'
  BY <1>0, <1>1, <1>2, <1>3, <1>4, <1>5
  DEF OrphansExplained, Known, UploadsAlone, Uploading, At, Live, TypeOK, Handler, Idle
<1> QED
  BY <1>6, <1>7, <1>8, <1>9, <1>10, <1>11, <1>12, <1>13, <1>14 DEF PhotosInv, Known

LEMMA StartDeleteStep ==
  ASSUME PhotosInv, NEW h \in Handlers, NEW p \in Photos, NEW g \in Pages, StartDelete(h, p, g)
  PROVE  PhotosInv'
<1>0. TypeOK /\ Known /\ OrphansExplained
  BY DEF PhotosInv
<1>1. PICK x \in Handler :
         /\ x.op = "delete" /\ x.pc = "find" /\ x.photo = p /\ x # Idle
         /\ hand' = [hand EXCEPT ![h] = x]
  <2>1. PICK x : x = [op |-> "delete", pc |-> "find", photo |-> p, page |-> g]
    OBVIOUS
  <2>2. x \in Delete /\ x.op = "delete" /\ x.pc = "find" /\ x.photo = p
    BY <2>1 DEF Delete
  <2>3. x # Idle /\ x \in Handler
    BY <2>2 DEF Idle, Handler
  <2> QED
    BY <2>1, <2>2, <2>3 DEF StartDelete
<1>2. /\ hand' \in [Handlers -> Handler] /\ hand'[h] = x
      /\ \A k \in Handlers \ {h} : hand'[k] = hand[k]
  BY <1>0, <1>1, Placed
<1>3. \A k \in Handlers : hand[k] # Idle => hand[k].photo \in Photos
  BY <1>0, HandlerFields
<1>4. /\ \A k \in Handlers : hand[k].op \in {"upload", "delete", "serve"} => hand[k] # Idle
      /\ refs \subseteq Photos /\ (\A k \in Pages : shown[k] \subseteq Photos)
  BY <1>0 DEF Idle, TypeOK
<1>5. /\ p \in shown[g] /\ rows[p].purpose = "gallery"
      /\ UNCHANGED <<rows, files, refs, shown, stale, parted>> /\ hand[h] = Idle
  BY <1>0 DEF StartDelete, Known, ShowsGallery
<1>6. TypeOK'
  BY <1>0, <1>1, <1>2, <1>3, <1>4, <1>5 DEF TypeOK, Handler, Idle
<1>7. UploadsAlone'
  BY <1>0, <1>1, <1>2, <1>3, <1>4, <1>5
  DEF Known, UploadsAlone, Uploading, InVain, Live, Handler, Idle
<1>8. StoredAsAsked'
  BY <1>0, <1>1, <1>2, <1>3, <1>4, <1>5
  DEF Known, UploadsAlone, StoredAsAsked, DeletesGallery, Uploading, InVain, At, Live,
      Handler, Idle
<1>9. DeletesGallery'
  BY <1>0, <1>1, <1>2, <1>3, <1>4, <1>5
  DEF Known, UploadsAlone, DeletesGallery, ShowsGallery, Uploading, InVain, Live, At,
      Handler, Idle
<1>10. ShowsGallery'
  BY <1>0, <1>1, <1>2, <1>3, <1>4, <1>5
  DEF Known, UploadsAlone, StoredAsAsked, ShowsGallery, Uploading, InVain, Listed, At,
      Live, Handler, Idle
<1>11. RefersToAssets'
  BY <1>0, <1>1, <1>2, <1>3, <1>4, <1>5
  DEF Known, UploadsAlone, StoredAsAsked, DeletesGallery, RefersToAssets, Uploading,
      InVain, At, Live, Handler, Idle
<1>12. RowsHaveFiles'
  BY <1>0, <1>1, <1>2, <1>3, <1>4, <1>5
  DEF Known, UploadsAlone, DeletesGallery, RowsHaveFiles, Uploading, Live, At, TypeOK,
      Handler, Idle
<1>13. MissingMeansDeleted'
  BY <1>0, <1>1, <1>2, <1>3, <1>4, <1>5
  DEF Known, UploadsAlone, RowsHaveFiles, MissingMeansDeleted, Uploading, InVain, At,
      Live, Handler, Idle
<1>14. OrphansExplained'
  BY <1>0, <1>1, <1>2, <1>3, <1>4, <1>5
  DEF OrphansExplained, Known, UploadsAlone, Uploading, At, Live, TypeOK, Handler, Idle
<1> QED
  BY <1>6, <1>7, <1>8, <1>9, <1>10, <1>11, <1>12, <1>13, <1>14 DEF PhotosInv, Known

LEMMA StartServeStep ==
  ASSUME PhotosInv, NEW h \in Handlers, NEW p \in Photos, StartServe(h, p)
  PROVE  PhotosInv'
<1>0. TypeOK /\ Known /\ OrphansExplained
  BY DEF PhotosInv
<1>1. PICK x \in Handler :
         /\ x.op = "serve" /\ x.pc = "find" /\ x.photo = p /\ x # Idle
         /\ hand' = [hand EXCEPT ![h] = x]
  <2>1. PICK x : x = [op |-> "serve", pc |-> "find", photo |-> p]
    OBVIOUS
  <2>2. x \in Serve /\ x.op = "serve" /\ x.pc = "find" /\ x.photo = p
    BY <2>1 DEF Serve
  <2>3. x # Idle /\ x \in Handler
    BY <2>2 DEF Idle, Handler
  <2> QED
    BY <2>1, <2>2, <2>3 DEF StartServe
<1>2. /\ hand' \in [Handlers -> Handler] /\ hand'[h] = x
      /\ \A k \in Handlers \ {h} : hand'[k] = hand[k]
  BY <1>0, <1>1, Placed
<1>3. \A k \in Handlers : hand[k] # Idle => hand[k].photo \in Photos
  BY <1>0, HandlerFields
<1>4. /\ \A k \in Handlers : hand[k].op \in {"upload", "delete", "serve"} => hand[k] # Idle
      /\ refs \subseteq Photos /\ (\A k \in Pages : shown[k] \subseteq Photos)
  BY <1>0 DEF Idle, TypeOK
<1>5. UNCHANGED <<rows, files, refs, shown, stale, parted>> /\ hand[h] = Idle
  BY DEF StartServe
<1>6. TypeOK'
  BY <1>0, <1>1, <1>2, <1>3, <1>4, <1>5 DEF TypeOK, Handler, Idle
<1>7. UploadsAlone'
  BY <1>0, <1>1, <1>2, <1>3, <1>4, <1>5
  DEF Known, UploadsAlone, Uploading, InVain, Live, Handler, Idle
<1>8. StoredAsAsked'
  BY <1>0, <1>1, <1>2, <1>3, <1>4, <1>5
  DEF Known, UploadsAlone, StoredAsAsked, DeletesGallery, Uploading, InVain, At, Live,
      Handler, Idle
<1>9. DeletesGallery'
  BY <1>0, <1>1, <1>2, <1>3, <1>4, <1>5
  DEF Known, UploadsAlone, DeletesGallery, ShowsGallery, Uploading, InVain, Live, At,
      Handler, Idle
<1>10. ShowsGallery'
  BY <1>0, <1>1, <1>2, <1>3, <1>4, <1>5
  DEF Known, UploadsAlone, StoredAsAsked, ShowsGallery, Uploading, InVain, Listed, At,
      Live, Handler, Idle
<1>11. RefersToAssets'
  BY <1>0, <1>1, <1>2, <1>3, <1>4, <1>5
  DEF Known, UploadsAlone, StoredAsAsked, DeletesGallery, RefersToAssets, Uploading,
      InVain, At, Live, Handler, Idle
<1>12. RowsHaveFiles'
  BY <1>0, <1>1, <1>2, <1>3, <1>4, <1>5
  DEF Known, UploadsAlone, DeletesGallery, RowsHaveFiles, Uploading, Live, At, TypeOK,
      Handler, Idle
<1>13. MissingMeansDeleted'
  BY <1>0, <1>1, <1>2, <1>3, <1>4, <1>5
  DEF Known, UploadsAlone, RowsHaveFiles, MissingMeansDeleted, Uploading, InVain, At,
      Live, Handler, Idle
<1>14. OrphansExplained'
  BY <1>0, <1>1, <1>2, <1>3, <1>4, <1>5
  DEF OrphansExplained, Known, UploadsAlone, Uploading, At, Live, TypeOK, Handler, Idle
<1> QED
  BY <1>6, <1>7, <1>8, <1>9, <1>10, <1>11, <1>12, <1>13, <1>14 DEF PhotosInv, Known

LEMMA AnsweredStep ==
  ASSUME PhotosInv, NEW h \in Handlers, Answered(h)
  PROVE  PhotosInv'
<1>0. TypeOK /\ Known /\ OrphansExplained
  BY DEF PhotosInv
<1>1. PICK x \in Handler : x = Idle /\ x.op = "none" /\ hand' = [hand EXCEPT ![h] = x]
  BY DEF Answered, Handler, Idle
<1>2. /\ hand' \in [Handlers -> Handler] /\ hand'[h] = x
      /\ \A k \in Handlers \ {h} : hand'[k] = hand[k]
  BY <1>0, <1>1, Placed
<1>3. \A k \in Handlers : hand[k] # Idle => hand[k].photo \in Photos
  BY <1>0, HandlerFields
<1>4. /\ \A k \in Handlers : hand[k].op \in {"upload", "delete", "serve"} => hand[k] # Idle
      /\ refs \subseteq Photos /\ (\A k \in Pages : shown[k] \subseteq Photos)
  BY <1>0 DEF Idle, TypeOK
<1>5. /\ hand[h].op \in {"upload", "delete", "serve"} /\ hand[h].photo \in Photos
      /\ hand[h].pc \in {"ok", "failed", "missing", "unreadable"}
      /\ hand[h].op \in {"upload", "delete"} => hand[h].page \in Pages
  BY <1>0, HandlerFields DEF Answered, Upload, Delete
<1>6. UNCHANGED <<rows, files, stale, parted>>
  BY DEF Answered
<1>7. /\ shown' \in [Pages -> SUBSET Photos]
      /\ \A g \in Pages : \A p \in shown'[g] :
           \/ p \in shown[g]
           \/ At(h, "upload", "ok") /\ hand[h].purpose = "gallery" /\ p = hand[h].photo
  <2>1. shown \in [Pages -> SUBSET Photos]
    BY <1>0 DEF TypeOK
  <2> QED
    BY <1>5, <2>1 DEF Answered, At
<1>8. /\ refs' \subseteq Photos
      /\ \A p \in refs' :
           \/ p \in refs
           \/ At(h, "upload", "ok") /\ hand[h].purpose = "asset" /\ p = hand[h].photo
  <2>1. \/ refs' = refs
        \/ /\ hand[h].pc = "ok" /\ hand[h].op = "upload" /\ hand[h].purpose = "asset"
           /\ refs' = refs \cup {hand[h].photo}
    BY DEF Answered
  <2>2. CASE refs' = refs
    BY <1>4, <2>2
  <2>3. CASE /\ hand[h].pc = "ok" /\ hand[h].op = "upload" /\ hand[h].purpose = "asset"
             /\ refs' = refs \cup {hand[h].photo}
    BY <1>4, <1>5, <2>3 DEF At
  <2> QED
    BY <2>1, <2>2, <2>3
<1>9. TypeOK'
  BY <1>0, <1>1, <1>2, <1>3, <1>4, <1>5, <1>6, <1>7, <1>8
  DEF TypeOK, Handler, Idle, RowsHaveFiles
<1>10. UploadsAlone'
  <2> SUFFICES ASSUME NEW k \in Handlers, Uploading(k)', NEW p, p = hand'[k].photo
               PROVE  /\ ~(Live(p)') /\ p \notin refs'
                      /\ hand'[k].pc = "row" => p \in files'
                      /\ \A g \in Pages : p \notin shown'[g]
                      /\ \A j \in Handlers \ {k} : InVain(j, p)'
    BY DEF UploadsAlone, InVain, Live
  <2>1. k # h /\ hand'[k] = hand[k] /\ Uploading(k) /\ p = hand[k].photo
    BY <1>1, <1>2, <1>6 DEF Uploading, Idle
  <2>2. /\ ~Live(p) /\ p \notin refs
        /\ hand[k].pc = "row" => p \in files
        /\ \A g \in Pages : p \notin shown[g]
        /\ \A j \in Handlers \ {k} : InVain(j, p)
    BY <1>0, <2>1 DEF Known, UploadsAlone
  <2>3. ~(At(h, "upload", "ok") /\ hand[h].photo = p)
    BY <1>4, <2>1, <2>2 DEF At, InVain
  <2>4. \A j \in Handlers \ {k} : InVain(j, p)'
    BY <1>1, <1>2, <2>1, <2>2 DEF InVain, Idle
  <2>5. p \notin refs' /\ \A g \in Pages : p \notin shown'[g]
    BY <1>7, <1>8, <2>2, <2>3
  <2> QED
    BY <1>6, <2>1, <2>2, <2>4, <2>5 DEF Live
<1>11. StoredAsAsked'
  BY <1>0, <1>1, <1>2, <1>3, <1>4, <1>5, <1>6, <1>7, <1>8
  DEF Known, UploadsAlone, StoredAsAsked, DeletesGallery, Uploading, InVain, At, Live,
      Handler, Idle, RowsHaveFiles
<1>12. DeletesGallery'
  BY <1>0, <1>1, <1>2, <1>3, <1>4, <1>5, <1>6, <1>7, <1>8
  DEF Known, UploadsAlone, DeletesGallery, ShowsGallery, Uploading, InVain, Live, At,
      Handler, Idle, RowsHaveFiles
<1>13. ShowsGallery'
  BY <1>0, <1>1, <1>2, <1>3, <1>4, <1>5, <1>6, <1>7, <1>8
  DEF Known, UploadsAlone, StoredAsAsked, ShowsGallery, Uploading, InVain, Listed, At,
      Live, Handler, Idle, RowsHaveFiles
<1>14. RefersToAssets'
  BY <1>0, <1>1, <1>2, <1>3, <1>4, <1>5, <1>6, <1>7, <1>8
  DEF Known, UploadsAlone, StoredAsAsked, DeletesGallery, RefersToAssets, Uploading,
      InVain, At, Live, Handler, Idle, RowsHaveFiles
<1>15. RowsHaveFiles'
  BY <1>0, <1>1, <1>2, <1>3, <1>4, <1>5, <1>6, <1>7, <1>8
  DEF Known, UploadsAlone, DeletesGallery, RowsHaveFiles, Uploading, Live, At, TypeOK,
      Handler, Idle, RowsHaveFiles
<1>16. MissingMeansDeleted'
  BY <1>0, <1>1, <1>2, <1>3, <1>4, <1>5, <1>6, <1>7, <1>8
  DEF Known, UploadsAlone, RowsHaveFiles, MissingMeansDeleted, Uploading, InVain, At,
      Live, Handler, Idle, RowsHaveFiles
<1>17. OrphansExplained'
  BY <1>0, <1>1, <1>2, <1>3, <1>4, <1>5, <1>6, <1>7, <1>8
  DEF OrphansExplained, Known, UploadsAlone, Uploading, At, Live, TypeOK, Handler, Idle,
      RowsHaveFiles
<1> QED
  BY <1>9, <1>10, <1>11, <1>12, <1>13, <1>14, <1>15, <1>16, <1>17 DEF PhotosInv, Known

----------------------------------------------------------------------------
(* Pages, and what the host does *)

LEMMA PageStep ==
  ASSUME PhotosInv,
         (\E g \in Pages : LoadPage(g)) \/ (\E p \in Photos : Unrefer(p))
  PROVE  PhotosInv'
<1>0. TypeOK /\ Known /\ OrphansExplained
  BY DEF PhotosInv
<1>1. UNCHANGED <<rows, files, hand, parted>> /\ refs' \subseteq refs
  BY DEF LoadPage, Unrefer
<1>2. /\ shown' \in [Pages -> SUBSET Photos] /\ stale' \in [Pages -> SUBSET Photos]
      /\ \A g \in Pages : \A p \in shown'[g] :
           p \in shown[g] \/ (Live(p) /\ rows[p].purpose = "gallery")
  BY <1>0 DEF LoadPage, Unrefer, TypeOK, Listed
<1>3. TypeOK' /\ OrphansExplained' /\ RowsHaveFiles' /\ MissingMeansDeleted'
  BY <1>0, <1>1, <1>2 DEF TypeOK, OrphansExplained, Known, RowsHaveFiles,
     MissingMeansDeleted, Live, At
<1>4. UploadsAlone'
  BY <1>0, <1>1, <1>2 DEF Known, UploadsAlone, Uploading, InVain, Live
<1>5. StoredAsAsked' /\ DeletesGallery' /\ ShowsGallery' /\ RefersToAssets'
  BY <1>0, <1>1, <1>2 DEF Known, StoredAsAsked, DeletesGallery, ShowsGallery,
     RefersToAssets, Live, At
<1> QED
  BY <1>3, <1>4, <1>5 DEF PhotosInv, Known

\* The process dies, or is stopped: every file without a row counts as left behind.
LEMMA DropStep ==
  ASSUME PhotosInv, DropHandlers
  PROVE  PhotosInv'
<1>0. TypeOK /\ Known
  BY DEF PhotosInv
<1>1. /\ hand' = [h \in Handlers |-> Idle]
      /\ parted' = parted \cup {p \in files : ~Live(p)}
      /\ UNCHANGED <<rows, files, refs, shown>>
      /\ stale' \in [Pages -> SUBSET Photos]
  BY <1>0 DEF DropHandlers, TypeOK
<1>2. TypeOK' /\ OrphansExplained'
  BY <1>0, <1>1 DEF TypeOK, OrphansExplained, Live
<1>3. Known'
  BY <1>0, <1>1 DEF Known, UploadsAlone, StoredAsAsked, DeletesGallery, ShowsGallery,
     RefersToAssets, RowsHaveFiles, MissingMeansDeleted, Uploading, At, Live, Idle
<1> QED
  BY <1>2, <1>3 DEF PhotosInv

LEMMA ServerKeeps == PhotosInv /\ ServerStep => PhotosInv'
<1> SUFFICES ASSUME PhotosInv, ServerStep PROVE PhotosInv'
  OBVIOUS
<1>1. ASSUME NEW h \in Handlers, Handle(h) PROVE PhotosInv'
  BY <1>1, FindStep, RemoveRowStep, UnlinkStep, LookStep, ReadStep, SaveStep, InsertStep,
     UndoStep DEF Handle
<1>2. ASSUME NEW h \in Handlers, Answered(h) PROVE PhotosInv'
  BY <1>2, AnsweredStep
<1>3. ASSUME NEW h \in Handlers, NEW p \in Photos, NEW g \in Pages,
             (\E asked \in Asked : StartUpload(h, p, asked, g)) \/ StartDelete(h, p, g)
      PROVE  PhotosInv'
  BY <1>3, StartUploadStep, StartDeleteStep
<1>4. ASSUME NEW h \in Handlers, NEW p \in Photos, StartServe(h, p) PROVE PhotosInv'
  BY <1>4, StartServeStep
<1> QED
  BY <1>1, <1>2, <1>3, <1>4, PageStep DEF ServerStep

\* Whatever the host does is one of these to the photos.
LEMMA HostingKeeps == PhotosInv /\ [HostingNext]_hostingVars => PhotosInv'
<1> SUFFICES ASSUME PhotosInv, [HostingNext]_hostingVars PROVE PhotosInv'
  OBVIOUS
<1>1. CASE ServerStep
  BY <1>1, ServerKeeps
<1>2. CASE DropHandlers
  BY <1>2, DropStep
<1>3. CASE UNCHANGED photoVars
  BY <1>3 DEF PhotosInv, Known, TypeOK, OrphansExplained, UploadsAlone, StoredAsAsked,
     DeletesGallery, ShowsGallery, RefersToAssets, RowsHaveFiles, MissingMeansDeleted,
     Uploading, InVain, At, Live, photoVars
<1>4. CASE FetchCode
  BY <1>3, <1>4 DEF FetchCode, Cleaned, photoVars
<1> QED
  BY <1>1, <1>2, <1>3, <1>4 DEF HostingNext, AppStep, ProcessDies, Crash, StopApp,
     OtherCommand, hostingVars

LEMMA InitPhotos == Init => PhotosInv
  BY DEF Init, PhotosInv, Known, TypeOK, OrphansExplained, UploadsAlone, StoredAsAsked,
     DeletesGallery, ShowsGallery, RefersToAssets, RowsHaveFiles, MissingMeansDeleted,
     Uploading, InVain, At, Live, NoRow, Row, Purposes, Idle

\* The state of the photos keeps its type.
THEOREM PhotosTypeCorrect == HostingSpec => []TypeOK
<1>1. PhotosInv => TypeOK
  BY DEF PhotosInv
<1> QED
  BY <1>1, InitPhotos, HostingKeeps, PTL DEF HostingSpec, HostingInit

\* Whoever asks for a photo gets its file until it is deleted.
THEOREM PhotosServed == HostingSpec => []FilesServed
<1>1. PhotosInv => FilesServed
  BY DEF PhotosInv, Known, FilesServed
<1> QED
  BY <1>1, InitPhotos, HostingKeeps, PTL DEF HostingSpec, HostingInit

\* A file without a row is in the hands of a handler or was left by a fault.
THEOREM NoSilentOrphans == HostingSpec => []OrphansExplained
<1>1. PhotosInv => OrphansExplained
  BY DEF PhotosInv
<1> QED
  BY <1>1, InitPhotos, HostingKeeps, PTL DEF HostingSpec, HostingInit

\* Images that guests and invitations refer to are never deleted.
THEOREM ReferencedKept == HostingSpec => []ReferencedImagesKept
<1>1. PhotosInv => ReferencedImagesKept
  BY DEF PhotosInv, Known, RefersToAssets, ReferencedImagesKept
<1> QED
  BY <1>1, InitPhotos, HostingKeeps, PTL DEF HostingSpec, HostingInit

----------------------------------------------------------------------------
(* What the galleries show                                                 *)
(*                                                                         *)
(* A page that was told of every change of a photo shows it if and only if *)
(* it is listed, unless an answer that is on its way will say so.  A photo *)
(* that a page uploads is not on that page before the answer, so that the  *)
(* page cannot delete it meanwhile.                                        *)

\* The answer of h will add p to page g, or remove it.
Decides(h, g, p) ==
  /\ At(h, "upload", "ok") \/ At(h, "delete", "unlink") \/ At(h, "delete", "ok")
  /\ hand[h].op = "upload" => hand[h].purpose = "gallery"
  /\ hand[h].page = g /\ hand[h].photo = p

Settled ==
  \A g \in Pages : \A p \in Photos \ stale[g] :
    (\A h \in Handlers : ~Decides(h, g, p)) => (p \in shown[g] <=> p \in Listed)

UploadsHidden ==
  \A h \in Handlers : hand[h].op = "upload" =>
    /\ hand[h].photo \notin shown[hand[h].page]
    /\ \A k \in Handlers \ {h} :
         hand[k].op \in {"upload", "delete"} /\ hand[k].photo = hand[h].photo
           => hand[k].op = "delete" /\ hand[k].page # hand[h].page

UploadsLive ==
  \A h \in Handlers :
    At(h, "upload", "ok") /\ hand[h].photo \notin stale[hand[h].page] => Live(hand[h].photo)

DeletesDone ==
  \A h \in Handlers : At(h, "delete", "unlink") \/ At(h, "delete", "ok") => ~Live(hand[h].photo)

GalleryInv == Settled /\ UploadsHidden /\ UploadsLive /\ DeletesDone

\* A handler that moves on without deciding anything new.
LEMMA QuietStep ==
  ASSUME GalleryInv, UNCHANGED <<rows, shown, stale>>, NEW h \in Handlers,
         hand'[h].op = hand[h].op, hand'[h].photo = hand[h].photo,
         hand[h].op = "upload" => hand'[h].purpose = hand[h].purpose,
         hand[h].op \in {"upload", "delete"} => hand'[h].page = hand[h].page,
         \A k \in Handlers \ {h} : hand'[k] = hand[k],
         hand[h].op = "upload" => hand'[h].pc # "ok",
         hand[h].op = "delete" =>
           (hand'[h].pc \in {"unlink", "ok"} <=> hand[h].pc \in {"unlink", "ok"}),
         hand[h].op = "upload" => hand[h].pc # "ok"
  PROVE  GalleryInv'
<1>1. \A k \in Handlers : \A g, p : Decides(k, g, p)' <=> Decides(k, g, p)
  BY DEF Decides, At
<1>2. Settled'
  BY <1>1 DEF GalleryInv, Settled, Listed, Live
<1>3. UploadsHidden'
  BY DEF GalleryInv, UploadsHidden
<1>4. UploadsLive'
  BY DEF GalleryInv, UploadsLive, At, Live
<1>5. DeletesDone'
  BY DEF GalleryInv, DeletesDone, At, Live
<1> QED
  BY <1>2, <1>3, <1>4, <1>5 DEF GalleryInv

\* A change of the database that the handler takes for a failure.
LEMMA ToldAFailure ==
  ASSUME TypeOK, GalleryInv, NEW h \in Handlers, NEW p \in Photos,
         UNCHANGED shown, UnheardByAll(p),
         \A q \in Photos \ {p} : rows'[q] = rows[q],
         hand[h].op \in {"upload", "delete"}, hand[h].pc = "row", hand[h].photo = p,
         hand'[h].op = hand[h].op, hand'[h].photo = p, hand'[h].page = hand[h].page,
         hand'[h].pc \in {"undo", "failed"},
         \A k \in Handlers \ {h} : hand'[k] = hand[k],
         \A k \in Handlers \ {h} :
           hand[k].op = "delete" /\ hand[k].photo = p => ~rows'[p].live
  PROVE  GalleryInv'
<1>1. \A k \in Handlers : \A j, q : Decides(k, j, q)' <=> Decides(k, j, q)
  BY DEF Decides, At
<1>2. \A j \in Pages : stale'[j] = stale[j] \cup {p}
  BY DEF UnheardByAll
<1>3. Settled'
  <2> SUFFICES ASSUME NEW j \in Pages, NEW q \in Photos \ stale'[j],
                      \A k \in Handlers : ~Decides(k, j, q)'
               PROVE  q \in shown[j] <=> q \in Listed'
    BY DEF Settled
  <2>1. q # p /\ q \notin stale[j]
    BY <1>2
  <2>2. q \in Listed' <=> q \in Listed
    BY <2>1 DEF Listed, Live
  <2> QED
    BY <1>1, <2>1, <2>2 DEF GalleryInv, Settled
<1>4. UploadsHidden'
  BY DEF GalleryInv, UploadsHidden
<1>5. UploadsLive'
  <2> SUFFICES ASSUME NEW k \in Handlers, At(k, "upload", "ok")',
                      hand'[k].photo \notin stale'[hand'[k].page]
               PROVE  rows'[hand'[k].photo].live
    BY DEF UploadsLive, Live
  <2>1. k # h /\ hand'[k] = hand[k] /\ hand[k].op = "upload" /\ hand[k].pc = "ok"
    BY DEF At
  <2>2. hand[k] \in Upload
    BY <2>1, HandlerFields
  <2>3. hand[k].photo \in Photos /\ hand[k].page \in Pages
    BY <2>2 DEF Upload
  <2>4. hand[k].photo # p /\ hand[k].photo \notin stale[hand[k].page]
    BY <1>2, <2>1, <2>3
  <2> QED
    BY <2>1, <2>3, <2>4 DEF GalleryInv, UploadsLive, At, Live
<1>6. DeletesDone'
  <2> SUFFICES ASSUME NEW k \in Handlers, hand'[k].op = "delete",
                      hand'[k].pc \in {"unlink", "ok"}
               PROVE  ~rows'[hand'[k].photo].live
    BY DEF DeletesDone, At, Live
  <2>1. k # h /\ hand'[k] = hand[k]
    OBVIOUS
  <2>2. hand[k].photo \in Photos
    BY <2>1, HandlerFields DEF Idle
  <2>3. ~rows[hand[k].photo].live
    BY <2>1 DEF GalleryInv, DeletesDone, At, Live
  <2> QED
    BY <2>1, <2>2, <2>3
<1> QED
  BY <1>3, <1>4, <1>5, <1>6 DEF GalleryInv

LEMMA HandleGallery ==
  ASSUME PhotosInv, GalleryInv, NEW h \in Handlers, Handle(h)
  PROVE  GalleryInv'
<1>0. TypeOK /\ Known
  BY DEF PhotosInv
<1>1. CASE Save(h)
  <2>1. PICK to \in {"row", "failed"} : Goto(h, to)
    BY <1>1 DEF Save
  <2>2. hand[h].op = "upload" /\ hand[h].pc = "save" /\ hand[h] # Idle
        /\ UNCHANGED <<rows, shown, stale>>
    BY <1>1 DEF Save, At, Idle
  <2> QED
    BY <1>0, <2>1, <2>2, Moved, QuietStep
<1>2. CASE Insert(h) /\ ~Goto(h, "ok")
  <2>1. /\ Goto(h, "undo") /\ UNCHANGED shown
        /\ \/ UNCHANGED <<rows, stale>>
           \/ /\ \E r : rows' = [rows EXCEPT ![hand[h].photo] = r]
              /\ UnheardByAll(hand[h].photo)
    BY <1>2 DEF Insert
  <2>2. hand[h].op = "upload" /\ hand[h].pc = "row" /\ hand[h] # Idle
    BY <1>2 DEF Insert, At, Idle
  <2>3. hand[h].photo \in Photos
    BY <1>0, <2>2, HandlerFields
  <2>4. CASE UNCHANGED <<rows, stale>>
    BY <1>0, <2>1, <2>2, <2>4, Moved, QuietStep
  <2>5. CASE UnheardByAll(hand[h].photo)
    <3>1. \A q \in Photos \ {hand[h].photo} : rows'[q] = rows[q]
      BY <1>0, <2>1 DEF TypeOK
    <3>2. \A k \in Handlers \ {h} : hand[k].op = "delete" => hand[k].photo # hand[h].photo
      BY <1>0, <2>2 DEF Known, UploadsAlone, Uploading, InVain, Idle
    <3> QED
      BY <1>0, <2>1, <2>2, <2>3, <2>5, <3>1, <3>2, Moved, ToldAFailure
  <2> QED
    BY <2>1, <2>4, <2>5
<1>3. CASE Insert(h) /\ Goto(h, "ok")
  <2>1. hand[h].op = "upload" /\ hand[h].pc = "row" /\ hand[h] # Idle
        /\ UNCHANGED shown
    BY <1>3 DEF Insert, At, Idle
  <2>2. PICK p \in Photos, g \in Pages, u \in Purposes :
          p = hand[h].photo /\ g = hand[h].page /\ u = hand[h].purpose
    BY <1>0, <2>1, HandlerFields DEF Upload
  <2>3. /\ hand'[h].op = "upload" /\ hand'[h].photo = p /\ hand'[h].pc = "ok"
        /\ hand'[h].purpose = u /\ hand'[h].page = g
        /\ \A k \in Handlers \ {h} : hand'[k] = hand[k]
    BY <1>0, <1>3, <2>1, <2>2, Moved
  <2>4. rows' = [rows EXCEPT ![p] = [live |-> TRUE, purpose |-> u]] /\ Unheard(p, g)
    <3>1. ~Goto(h, "undo")
      BY <1>0, <2>1, <2>3, Moved
    <3> QED
      BY <1>3, <2>2, <3>1 DEF Insert
  <2>5. /\ rows'[p].live = TRUE /\ rows'[p].purpose = u
        /\ \A q \in Photos \ {p} : rows'[q] = rows[q]
    BY <1>0, <2>4 DEF TypeOK
  <2>6. /\ stale'[g] = stale[g] /\ \A k \in Pages \ {g} : stale'[k] = stale[k] \cup {p}
        /\ p \notin shown[g]
    BY <2>1, <2>2, <2>4 DEF Unheard, GalleryInv, UploadsHidden
  <2>7. \A k \in Handlers \ {h} : hand[k].op \in {"upload", "delete"} => hand[k].photo # p
    BY <1>0, <2>1, <2>2 DEF Known, UploadsAlone, Uploading, InVain, Idle
  <2>8. \A k \in Handlers \ {h} : \A j, q : Decides(k, j, q)' <=> Decides(k, j, q)
    BY <2>3 DEF Decides, At
  <2>9. Settled'
    <3> SUFFICES ASSUME NEW j \in Pages, NEW q \in Photos \ stale'[j],
                        \A k \in Handlers : ~Decides(k, j, q)'
                 PROVE  q \in shown[j] <=> q \in Listed'
      BY <2>1 DEF Settled
    <3>1. CASE q = p
      <4>1. j = g
        BY <2>6, <3>1
      <4>2. u # "gallery"
        BY <2>3, <3>1, <4>1 DEF Decides, At
      <4> QED
        BY <2>5, <2>6, <3>1, <4>1, <4>2 DEF Listed
    <3>2. CASE q # p
      <4>1. q \notin stale[j] /\ ~Decides(h, j, q)
        BY <2>2, <2>6, <3>2 DEF Decides
      <4>2. q \in Listed' <=> q \in Listed
        BY <2>5, <3>2 DEF Listed, Live
      <4> QED
        BY <2>8, <4>1, <4>2 DEF GalleryInv, Settled
    <3> QED
      BY <3>1, <3>2
  <2>10. UploadsHidden'
    BY <2>1, <2>2, <2>3, <2>6, <2>7 DEF GalleryInv, UploadsHidden
  <2>11. UploadsLive'
    <3> SUFFICES ASSUME NEW k \in Handlers, At(k, "upload", "ok")',
                        hand'[k].photo \notin stale'[hand'[k].page]
                 PROVE  rows'[hand'[k].photo].live
      BY DEF UploadsLive, Live
    <3>1. CASE k = h
      BY <2>3, <2>5, <3>1
    <3>2. CASE k # h
      <4>1. hand'[k] = hand[k] /\ hand[k].op = "upload" /\ hand[k].pc = "ok"
        BY <2>3, <3>2 DEF At
      <4>2. hand[k] \in Upload
        BY <1>0, <4>1, HandlerFields
      <4>3. hand[k].photo \in Photos \ {p} /\ hand[k].page \in Pages
        BY <2>7, <3>2, <4>1, <4>2 DEF Upload
      <4>4. hand[k].photo \notin stale[hand[k].page]
        BY <2>6, <4>1, <4>3
      <4> QED
        BY <2>5, <4>1, <4>3, <4>4 DEF GalleryInv, UploadsLive, At, Live
    <3> QED
      BY <3>1, <3>2
  <2>12. DeletesDone'
    <3> SUFFICES ASSUME NEW k \in Handlers, hand'[k].op = "delete",
                        hand'[k].pc \in {"unlink", "ok"}
                 PROVE  ~rows'[hand'[k].photo].live
      BY DEF DeletesDone, At, Live
    <3>1. k # h /\ hand'[k] = hand[k] /\ hand[k].photo \in Photos \ {p}
      BY <1>0, <2>3, <2>7, HandlerFields DEF Idle
    <3> QED
      BY <2>5, <3>1 DEF GalleryInv, DeletesDone, At, Live
  <2> QED
    BY <2>9, <2>10, <2>11, <2>12 DEF GalleryInv
<1>4. CASE Undo(h)
  <2>1. Goto(h, "failed") /\ UNCHANGED <<rows, shown, stale>>
    BY <1>4 DEF Undo
  <2>2. hand[h].op = "upload" /\ hand[h].pc = "undo" /\ hand[h] # Idle
    BY <1>4 DEF Undo, At, Idle
  <2> QED
    BY <1>0, <2>1, <2>2, Moved, QuietStep
<1>5. CASE Find(h)
  <2>1. PICK to \in {"row", "failed"} : Goto(h, to)
    BY <1>5 DEF Find
  <2>2. hand[h].op = "delete" /\ hand[h].pc = "find" /\ hand[h] # Idle
        /\ UNCHANGED <<rows, shown, stale>>
    BY <1>5 DEF Find, At, Idle
  <2> QED
    BY <1>0, <2>1, <2>2, Moved, QuietStep
<1>6. CASE RemoveRow(h) /\ ~Goto(h, "unlink")
  <2>1. /\ Goto(h, "failed") /\ UNCHANGED shown
        /\ \/ UNCHANGED <<rows, stale>>
           \/ /\ rows' = [rows EXCEPT ![hand[h].photo].live = FALSE]
              /\ UnheardByAll(hand[h].photo)
    BY <1>6 DEF RemoveRow
  <2>2. hand[h].op = "delete" /\ hand[h].pc = "row" /\ hand[h] # Idle
    BY <1>6 DEF RemoveRow, At, Idle
  <2>3. hand[h].photo \in Photos
    BY <1>0, <2>2, HandlerFields
  <2>4. CASE UNCHANGED <<rows, stale>>
    BY <1>0, <2>1, <2>2, <2>4, Moved, QuietStep
  <2>5. CASE /\ rows' = [rows EXCEPT ![hand[h].photo].live = FALSE]
             /\ UnheardByAll(hand[h].photo)
    <3>1. /\ \A q \in Photos \ {hand[h].photo} : rows'[q] = rows[q]
          /\ ~rows'[hand[h].photo].live
      BY <1>0, <2>3, <2>5 DEF TypeOK, Row
    <3> QED
      BY <1>0, <2>1, <2>2, <2>3, <2>5, <3>1, Moved, ToldAFailure
  <2> QED
    BY <2>1, <2>4, <2>5
<1>7. CASE RemoveRow(h) /\ Goto(h, "unlink")
  <2>1. hand[h].op = "delete" /\ hand[h].pc = "row" /\ hand[h] # Idle
        /\ UNCHANGED shown
    BY <1>7 DEF RemoveRow, At, Idle
  <2>2. PICK p \in Photos, g \in Pages : p = hand[h].photo /\ g = hand[h].page
    BY <1>0, <2>1, HandlerFields DEF Delete
  <2>3. /\ hand'[h].op = "delete" /\ hand'[h].photo = p /\ hand'[h].pc = "unlink"
        /\ hand'[h].page = g
        /\ \A k \in Handlers \ {h} : hand'[k] = hand[k]
    BY <1>0, <1>7, <2>1, <2>2, Moved
  <2>4. rows' = [rows EXCEPT ![p].live = FALSE] /\ Unheard(p, g)
    <3>1. ~Goto(h, "failed")
      BY <1>0, <2>1, <2>3, Moved
    <3> QED
      BY <1>7, <2>2, <3>1 DEF RemoveRow
  <2>5. /\ rows'[p].live = FALSE
        /\ \A q \in Photos \ {p} : rows'[q] = rows[q]
    BY <1>0, <2>4 DEF TypeOK, Row
  <2>6. /\ stale'[g] = stale[g] /\ \A k \in Pages \ {g} : stale'[k] = stale[k] \cup {p}
    BY <2>4 DEF Unheard
  <2>7. Decides(h, g, p)'
    BY <2>3 DEF Decides, At
  <2>8. \A k \in Handlers \ {h} : \A j, q : Decides(k, j, q)' <=> Decides(k, j, q)
    BY <2>3 DEF Decides, At
  <2>9. Settled'
    <3> SUFFICES ASSUME NEW j \in Pages, NEW q \in Photos \ stale'[j],
                        \A k \in Handlers : ~Decides(k, j, q)'
                 PROVE  q \in shown[j] <=> q \in Listed'
      BY <2>1 DEF Settled
    <3>1. q # p
      BY <2>6, <2>7
    <3>2. q \notin stale[j] /\ ~Decides(h, j, q)
      BY <2>2, <2>6, <3>1 DEF Decides
    <3>3. q \in Listed' <=> q \in Listed
      BY <2>5, <3>1 DEF Listed, Live
    <3> QED
      BY <2>8, <3>2, <3>3 DEF GalleryInv, Settled
  <2>10. UploadsHidden'
    BY <2>1, <2>2, <2>3 DEF GalleryInv, UploadsHidden
  <2>11. UploadsLive'
    <3> SUFFICES ASSUME NEW k \in Handlers, At(k, "upload", "ok")',
                        hand'[k].photo \notin stale'[hand'[k].page]
                 PROVE  rows'[hand'[k].photo].live
      BY DEF UploadsLive, Live
    <3>1. k # h /\ hand'[k] = hand[k] /\ hand[k].op = "upload" /\ hand[k].pc = "ok"
      BY <2>3 DEF At
    <3>2. hand[k] \in Upload
      BY <1>0, <3>1, HandlerFields
    <3>3. hand[k].photo \in Photos /\ hand[k].page \in Pages
      BY <3>2 DEF Upload
    <3>4. hand[k].photo = p => hand[k].page # g
      BY <2>1, <2>2, <3>1 DEF GalleryInv, UploadsHidden
    <3>5. hand[k].photo # p /\ hand[k].photo \notin stale[hand[k].page]
      BY <2>6, <3>1, <3>3, <3>4
    <3> QED
      BY <2>5, <3>1, <3>3, <3>5 DEF GalleryInv, UploadsLive, At, Live
  <2>12. DeletesDone'
    <3> SUFFICES ASSUME NEW k \in Handlers, hand'[k].op = "delete",
                        hand'[k].pc \in {"unlink", "ok"}
                 PROVE  ~rows'[hand'[k].photo].live
      BY DEF DeletesDone, At, Live
    <3>1. CASE k = h
      BY <2>3, <2>5, <3>1
    <3>2. CASE k # h
      <4>1. hand'[k] = hand[k] /\ hand[k].photo \in Photos
        BY <1>0, <2>3, <3>2, HandlerFields DEF Idle
      <4>2. ~rows[hand[k].photo].live
        BY <4>1 DEF GalleryInv, DeletesDone, At, Live
      <4> QED
        BY <2>5, <4>1, <4>2
    <3> QED
      BY <3>1, <3>2
  <2> QED
    BY <2>9, <2>10, <2>11, <2>12 DEF GalleryInv
<1>8. CASE Unlink(h)
  <2>1. Goto(h, "ok") /\ UNCHANGED <<rows, shown, stale>>
    BY <1>8 DEF Unlink
  <2>2. hand[h].op = "delete" /\ hand[h].pc = "unlink" /\ hand[h] # Idle
    BY <1>8 DEF Unlink, At, Idle
  <2>3. hand'[h].pc = "ok"
    BY <1>0, <2>1, <2>2, Moved
  <2> QED
    BY <1>0, <2>1, <2>2, <2>3, Moved, QuietStep
<1>9. CASE Look(h)
  <2>1. PICK to \in {"read", "failed"} : Goto(h, to)
    BY <1>9 DEF Look
  <2>2. hand[h].op = "serve" /\ hand[h] # Idle /\ UNCHANGED <<rows, shown, stale>>
    BY <1>9 DEF Look, At, Idle
  <2> QED
    BY <1>0, <2>1, <2>2, Moved, QuietStep
<1>10. CASE Read(h)
  <2>1. PICK to \in {"ok", "missing", "unreadable"} : Goto(h, to)
    BY <1>10 DEF Read
  <2>2. hand[h].op = "serve" /\ hand[h] # Idle /\ UNCHANGED <<rows, shown, stale>>
    BY <1>10 DEF Read, At, Idle
  <2> QED
    BY <1>0, <2>1, <2>2, Moved, QuietStep
<1> QED
  BY <1>1, <1>2, <1>3, <1>4, <1>5, <1>6, <1>7, <1>8, <1>9, <1>10 DEF Handle

\* A request takes a free slot.
LEMMA StartGallery ==
  ASSUME PhotosInv, GalleryInv, NEW h \in Handlers, NEW p \in Photos,
         \/ \E g \in Pages, asked \in Asked : StartUpload(h, p, asked, g)
         \/ \E g \in Pages : StartDelete(h, p, g)
         \/ StartServe(h, p)
  PROVE  GalleryInv'
<1>0. TypeOK
  BY DEF PhotosInv
<1>1. PICK x \in Handler :
         /\ hand' = [hand EXCEPT ![h] = x] /\ x.photo = p
         /\ \/ /\ x.op = "upload" /\ x.pc = "save" /\ Fresh(p) /\ x.page \in Pages
            \/ x.op = "delete" /\ x.pc = "find" /\ p \in shown[x.page]
            \/ x.op = "serve"
  <2>1. CASE \E g \in Pages, asked \in Asked : StartUpload(h, p, asked, g)
    <3>1. PICK g \in Pages, asked \in Asked : StartUpload(h, p, asked, g)
      BY <2>1
    <3>2. PICK x : x = [op |-> "upload", pc |-> "save", photo |-> p,
                        purpose |-> PurposeOf(asked), page |-> g]
      OBVIOUS
    <3>3. PurposeOf(asked) \in Purposes
      BY DEF PurposeOf, Purposes
    <3>4. x \in Upload /\ x.op = "upload" /\ x.pc = "save" /\ x.photo = p /\ x.page = g
      BY <3>2, <3>3 DEF Upload
    <3>5. x \in Handler
      BY <3>4 DEF Handler
    <3> QED
      BY <3>1, <3>2, <3>4, <3>5 DEF StartUpload
  <2>2. CASE \E g \in Pages : StartDelete(h, p, g)
    <3>1. PICK g \in Pages : StartDelete(h, p, g)
      BY <2>2
    <3>2. PICK x : x = [op |-> "delete", pc |-> "find", photo |-> p, page |-> g]
      OBVIOUS
    <3>3. x \in Delete /\ x.op = "delete" /\ x.pc = "find" /\ x.photo = p /\ x.page = g
      BY <3>2 DEF Delete
    <3>4. x \in Handler
      BY <3>3 DEF Handler
    <3> QED
      BY <3>1, <3>2, <3>3, <3>4 DEF StartDelete
  <2>3. CASE StartServe(h, p)
    <3>1. PICK x : x = [op |-> "serve", pc |-> "find", photo |-> p]
      OBVIOUS
    <3>2. x \in Serve /\ x.op = "serve" /\ x.photo = p
      BY <3>1 DEF Serve
    <3>3. x \in Handler
      BY <3>2 DEF Handler
    <3> QED
      BY <2>3, <3>1, <3>2, <3>3 DEF StartServe
  <2> QED
    BY <2>1, <2>2, <2>3
<1>2. hand'[h] = x /\ \A k \in Handlers \ {h} : hand'[k] = hand[k]
  BY <1>0, <1>1, Placed
<1>3. hand[h] = Idle /\ UNCHANGED <<rows, shown, stale>>
  BY DEF StartUpload, StartDelete, StartServe
<1>4. \A k \in Handlers : \A g, q : Decides(k, g, q)' <=> Decides(k, g, q)
  <2>1. \A g, q : ~Decides(h, g, q) /\ ~Decides(h, g, q)'
    BY <1>1, <1>2, <1>3 DEF Decides, At, Idle
  <2> QED
    BY <1>2, <2>1 DEF Decides, At
<1>5. Settled'
  BY <1>3, <1>4 DEF GalleryInv, Settled, Listed, Live
<1>6. UploadsHidden'
  <2>1. CASE x.op = "upload"
    <3>1. /\ \A g \in Pages : p \notin shown[g]
          /\ \A k \in Handlers : hand[k] # Idle => hand[k].photo # p
      BY <1>1, <2>1 DEF Fresh
    <3>2. \A k \in Handlers : hand[k].op \in {"upload", "delete"} => hand[k].photo # p
      BY <3>1 DEF Idle
    <3> QED
      BY <1>1, <1>2, <1>3, <2>1, <3>1, <3>2 DEF GalleryInv, UploadsHidden
  <2>2. CASE x.op = "delete"
    BY <1>1, <1>2, <1>3, <2>2 DEF GalleryInv, UploadsHidden
  <2>3. CASE x.op = "serve"
    BY <1>1, <1>2, <1>3, <2>3 DEF GalleryInv, UploadsHidden
  <2> QED
    BY <1>1, <2>1, <2>2, <2>3
<1>7. UploadsLive'
  BY <1>1, <1>2, <1>3 DEF GalleryInv, UploadsLive, At, Live
<1>8. DeletesDone'
  BY <1>1, <1>2, <1>3 DEF GalleryInv, DeletesDone, At, Live
<1> QED
  BY <1>5, <1>6, <1>7, <1>8 DEF GalleryInv

\* The page does as the answer says.
LEMMA AnsweredGallery ==
  ASSUME PhotosInv, GalleryInv, NEW h \in Handlers, Answered(h)
  PROVE  GalleryInv'
<1>0. TypeOK /\ Known
  BY DEF PhotosInv
<1>1. /\ hand'[h] = Idle /\ \A k \in Handlers \ {h} : hand'[k] = hand[k]
      /\ UNCHANGED <<rows, stale>> /\ hand[h] # Idle /\ hand[h].photo \in Photos
  <2>1. hand' = [hand EXCEPT ![h] = Idle] /\ Idle \in Handler
    BY DEF Answered, Handler
  <2>2. UNCHANGED <<rows, stale>> /\ hand[h] # Idle
    BY DEF Answered
  <2> QED
    BY <1>0, <2>1, <2>2, Placed, HandlerFields
<1>2. PICK p \in Photos : p = hand[h].photo
  BY <1>1
<1>3. \A k \in Handlers \ {h} : \A g, q : Decides(k, g, q)' <=> Decides(k, g, q)
  BY <1>1 DEF Decides, At
<1>4. \A g, q : ~Decides(h, g, q)'
  BY <1>1 DEF Decides, At, Idle
<1>5. hand[h].op \in {"upload", "delete"} => hand[h].page \in Pages
  BY <1>0, HandlerFields DEF Upload, Delete
<1>6. \A g \in Pages : \A q \in Photos :
        \/ ~Decides(h, g, q) /\ (q \in shown'[g] <=> q \in shown[g])
        \/ Decides(h, g, q) /\ hand[h].op = "upload" /\ hand[h].pc = "ok" /\ q \in shown'[g]
        \/ Decides(h, g, q) /\ hand[h].op = "delete" /\ q \notin shown'[g]
  <2> SUFFICES ASSUME NEW g \in Pages, NEW q \in Photos
               PROVE  \/ ~Decides(h, g, q) /\ (q \in shown'[g] <=> q \in shown[g])
                      \/ /\ Decides(h, g, q) /\ q \in shown'[g]
                         /\ hand[h].op = "upload" /\ hand[h].pc = "ok"
                      \/ Decides(h, g, q) /\ hand[h].op = "delete" /\ q \notin shown'[g]
    OBVIOUS
  <2>1. CASE hand[h].op = "upload" /\ hand[h].pc = "ok" /\ hand[h].purpose = "gallery"
    <3>1. shown' = [shown EXCEPT ![hand[h].page] = @ \cup {p}]
      BY <1>2, <2>1 DEF Answered
    <3>2. shown'[g] = IF g = hand[h].page THEN shown[g] \cup {p} ELSE shown[g]
      BY <1>0, <3>1 DEF TypeOK
    <3>3. Decides(h, g, q) <=> g = hand[h].page /\ q = p
      BY <1>2, <2>1 DEF Decides, At
    <3> QED
      BY <2>1, <3>2, <3>3
  <2>2. CASE hand[h].op = "delete" /\ hand[h].pc = "ok"
    <3>1. shown' = [shown EXCEPT ![hand[h].page] = @ \ {p}]
      BY <1>2, <2>2 DEF Answered
    <3>2. shown'[g] = IF g = hand[h].page THEN shown[g] \ {p} ELSE shown[g]
      BY <1>0, <3>1 DEF TypeOK
    <3>3. Decides(h, g, q) <=> g = hand[h].page /\ q = p
      BY <1>2, <2>2 DEF Decides, At
    <3> QED
      BY <2>2, <3>2, <3>3
  <2>3. CASE /\ ~(hand[h].op = "upload" /\ hand[h].pc = "ok" /\ hand[h].purpose = "gallery")
             /\ ~(hand[h].op = "delete" /\ hand[h].pc = "ok")
    <3>1. shown' = shown /\ hand[h].pc \in {"ok", "failed", "missing", "unreadable"}
      BY <2>3 DEF Answered
    <3>2. ~Decides(h, g, q)
      BY <2>3, <3>1 DEF Decides, At
    <3> QED
      BY <3>1, <3>2
  <2> QED
    BY <2>1, <2>2, <2>3
<1>7. Settled'
  <2> SUFFICES ASSUME NEW g \in Pages, NEW q \in Photos \ stale[g],
                      \A k \in Handlers : ~Decides(k, g, q)'
               PROVE  q \in shown'[g] <=> q \in Listed'
    BY <1>1 DEF Settled
  <2>1. Listed' = Listed
    BY <1>1 DEF Listed, Live
  <2>2. CASE ~Decides(h, g, q)
    <3>1. \A k \in Handlers : ~Decides(k, g, q)
      BY <1>3, <2>2
    <3> QED
      BY <1>6, <2>1, <2>2, <3>1 DEF GalleryInv, Settled
  <2>3. CASE Decides(h, g, q) /\ hand[h].op = "upload" /\ hand[h].pc = "ok" /\ q \in shown'[g]
    <3>1. Live(q) /\ rows[q].purpose = "gallery"
      BY <1>0, <2>3 DEF GalleryInv, UploadsLive, Known, StoredAsAsked, Decides, At
    <3> QED
      BY <2>1, <2>3, <3>1 DEF Listed
  <2>4. CASE Decides(h, g, q) /\ hand[h].op = "delete" /\ q \notin shown'[g]
    <3>1. ~Live(q)
      BY <2>4 DEF GalleryInv, DeletesDone, Decides, At
    <3> QED
      BY <2>1, <2>4, <3>1 DEF Listed
  <2> QED
    BY <1>6, <2>2, <2>3, <2>4
<1>8. UploadsHidden'
  <2> SUFFICES ASSUME NEW k \in Handlers, hand'[k].op = "upload"
               PROVE  /\ hand'[k].photo \notin shown'[hand'[k].page]
                      /\ \A j \in Handlers \ {k} :
                           hand'[j].op \in {"upload", "delete"} /\ hand'[j].photo = hand'[k].photo
                             => hand'[j].op = "delete" /\ hand'[j].page # hand'[k].page
    BY DEF UploadsHidden
  <2>1. k # h /\ hand'[k] = hand[k]
    BY <1>1 DEF Idle
  <2>2. hand[k].photo \in Photos /\ hand[k].page \in Pages
    BY <1>0, <2>1, HandlerFields DEF Upload
  <2>3. ~(Decides(h, hand[k].page, hand[k].photo) /\ hand[h].op = "upload")
    BY <2>1 DEF GalleryInv, UploadsHidden, Decides
  <2>4. hand[k].photo \notin shown[hand[k].page]
    BY <2>1 DEF GalleryInv, UploadsHidden
  <2>5. hand[k].photo \notin shown'[hand[k].page]
    BY <1>6, <2>2, <2>3, <2>4
  <2>6. \A j \in Handlers \ {k} :
           hand'[j].op \in {"upload", "delete"} /\ hand'[j].photo = hand[k].photo
             => hand'[j].op = "delete" /\ hand'[j].page # hand[k].page
    BY <1>1, <2>1 DEF GalleryInv, UploadsHidden, Idle
  <2> QED
    BY <2>1, <2>5, <2>6
<1>9. UploadsLive'
  BY <1>1 DEF GalleryInv, UploadsLive, At, Live, Idle
<1>10. DeletesDone'
  BY <1>1 DEF GalleryInv, DeletesDone, At, Live, Idle
<1> QED
  BY <1>7, <1>8, <1>9, <1>10 DEF GalleryInv

\* A page that loads has no answer to wait for.
LEMMA LoadGallery ==
  ASSUME PhotosInv, GalleryInv, NEW g \in Pages, LoadPage(g)
  PROVE  GalleryInv'
<1>1. /\ \A k \in Pages \ {g} : shown'[k] = shown[k] /\ stale'[k] = stale[k]
      /\ shown'[g] = Listed /\ UNCHANGED <<rows, hand>>
      /\ \A h \in Handlers : hand[h].op \in {"upload", "delete"} => hand[h].page # g
  BY DEF LoadPage, PhotosInv, TypeOK
<1>2. \A h \in Handlers : \A k, q : Decides(h, k, q)' <=> Decides(h, k, q)
  BY <1>1 DEF Decides, At
<1>3. \A h \in Handlers : hand[h].op = "upload" => hand[h].page \in Pages \ {g}
  BY <1>1, HandlerFields DEF PhotosInv, Upload
<1>4. Settled'
  BY <1>1, <1>2 DEF GalleryInv, Settled, Listed, Live
<1>5. UploadsHidden'
  BY <1>1, <1>3 DEF GalleryInv, UploadsHidden
<1>6. UploadsLive'
  BY <1>1, <1>3 DEF GalleryInv, UploadsLive, At, Live
<1>7. DeletesDone'
  BY <1>1 DEF GalleryInv, DeletesDone, At, Live
<1> QED
  BY <1>4, <1>5, <1>6, <1>7 DEF GalleryInv

\* Requests that fail with the process leave their pages in doubt.
LEMMA DropGallery ==
  ASSUME PhotosInv, GalleryInv, DropHandlers
  PROVE  GalleryInv'
<1>1. /\ \A h \in Handlers : hand'[h] = Idle
      /\ UNCHANGED <<rows, shown>>
      /\ \A g \in Pages : \A p \in Photos \ stale'[g] :
           p \notin stale[g] /\ \A h \in Handlers : ~Decides(h, g, p)
  BY DEF DropHandlers, Decides, At
<1>2. Settled'
  BY <1>1 DEF GalleryInv, Settled, Listed, Live
<1>3. UploadsHidden' /\ UploadsLive' /\ DeletesDone'
  BY <1>1 DEF UploadsHidden, UploadsLive, DeletesDone, At, Idle
<1> QED
  BY <1>2, <1>3 DEF GalleryInv

LEMMA SameGallery ==
  ASSUME GalleryInv, UNCHANGED <<rows, shown, stale, hand>>
  PROVE  GalleryInv'
BY DEF GalleryInv, Settled, UploadsHidden, UploadsLive, DeletesDone, Decides, At, Listed,
   Live

LEMMA GalleryKeeps == PhotosInv /\ GalleryInv /\ [HostingNext]_hostingVars => GalleryInv'
<1> SUFFICES ASSUME PhotosInv, GalleryInv, [HostingNext]_hostingVars PROVE GalleryInv'
  OBVIOUS
<1>1. CASE AppStep
  <2>1. ServerStep
    BY <1>1 DEF AppStep
  <2>2. CASE \E h \in Handlers : Handle(h) \/ Answered(h)
    BY <2>2, HandleGallery, AnsweredGallery
  <2>3. CASE \E h \in Handlers, p \in Photos, g \in Pages :
               \/ \E asked \in Asked : StartUpload(h, p, asked, g)
               \/ StartDelete(h, p, g)
    BY <2>3, StartGallery
  <2>4. CASE \E h \in Handlers, p \in Photos : StartServe(h, p)
    BY <2>4, StartGallery
  <2>5. CASE \E g \in Pages : LoadPage(g)
    BY <2>5, LoadGallery
  <2>6. CASE \E p \in Photos : Unrefer(p)
    BY <2>6, SameGallery DEF Unrefer
  <2> QED
    BY <2>1, <2>2, <2>3, <2>4, <2>5, <2>6 DEF ServerStep
<1>2. CASE ProcessDies \/ StopApp
  BY <1>2, DropGallery DEF ProcessDies, StopApp, Crash
<1>3. CASE FetchCode \/ OtherCommand \/ UNCHANGED hostingVars
  BY <1>3, SameGallery DEF FetchCode, OtherCommand, hostingVars, photoVars
<1> QED
  BY <1>1, <1>2, <1>3 DEF HostingNext

\* A gallery page with nothing in flight shows a photo that changed through no other
\* page, and whose answers it got, exactly when it is in the gallery: what the page
\* adds and removes on an answer (PhotoGallery.tsx) is what the handlers did.
THEOREM GalleryTrue == HostingSpec => []GalleryAgrees
<1>1. Init => GalleryInv
  BY DEF Init, GalleryInv, Settled, UploadsHidden, UploadsLive, DeletesDone, Decides, At,
     Idle, Listed, Live, NoRow
<1>2. GalleryInv => GalleryAgrees
  BY DEF GalleryInv, Settled, GalleryAgrees, Decides, At
<1> QED
  BY <1>1, <1>2, InitPhotos, HostingKeeps, GalleryKeeps, PTL DEF HostingSpec, HostingInit

----------------------------------------------------------------------------
(* The script *)

Fetched == {"snapshot", "build", "migrate", "stop", "start", "probe", "assert",
            "retag", "restop", "restart", "reprobe"}

Untouched == {"fetch", "snapshot", "build", "migrate", "stop"}

\* A running container has an image, and the database the migrations of it.
Sound ==
  /\ pc \in Fetched => code # 0
  /\ app.up => app.image # 0
  /\ before.up => before.image # 0
  /\ SchemaCoversApp

\* Until the swap the app is what it was, and its image, or none, is remembered.
SameApp ==
  /\ pc \in Untouched => app = before
  /\ pc = "start" => app.image = before.image
  /\ pc \in Fetched \ {"snapshot"} =>
       prev \in {0, before.image} /\ Schema(prev) \subseteq schema

\* What the swap starts, and what the way back starts.
Swapping ==
  /\ pc \in {"migrate", "stop", "start"} => latest = code
  /\ pc \in {"stop", "start"} => Schema(code) \subseteq schema
  /\ pc \in {"retag", "restop", "restart", "reprobe"} => prev # 0
  /\ pc \in {"restop", "restart", "reprobe"} => latest = prev
  /\ pc = "reprobe" => app.image = prev /\ app.up
  /\ pc = "assert" => Answers(app)

DeployInv ==
  /\ DeployTypeOK
  /\ Sound
  /\ SameApp
  /\ Swapping
  /\ FailureLeavesAnApp
  /\ RollbackRestores

\* No image, no migrations.
LEMMA SchemaType == Schema(0) = {} /\ \A v \in Versions : Schema(v) \in SUBSET Nat
  BY DeployAssumption DEF Schema, Versions

LEMMA BeginDeploys ==
  ASSUME DeployInv, Begin
  PROVE  DeployInv'
<1> USE DeployAssumption, SchemaType DEF DeployInv, Versions, End
<1>1. DeployTypeOK'
  BY DEF Begin, DeployTypeOK, Container, Commands, Exits
<1>2. Sound'
  BY DEF Begin, DeployTypeOK, Sound, SchemaCoversApp, SameApp, Swapping, Container, Fetched,
     Untouched
<1>3. SameApp'
  BY DEF Begin, DeployTypeOK, Sound, SchemaCoversApp, SameApp, Swapping, Container, Fetched,
     Untouched
<1>4. Swapping'
  BY DEF Begin, DeployTypeOK, Sound, SchemaCoversApp, SameApp, Swapping, Container, Fetched,
     Untouched, Answers
<1>5. FailureLeavesAnApp'
  BY DEF Begin, DeployTypeOK, Sound, SchemaCoversApp, SameApp, Swapping, FailureLeavesAnApp,
     Container, Fetched, Untouched, Answers
<1>6. RollbackRestores'
  BY DEF Begin, DeployTypeOK, SameApp, Swapping, RollbackRestores, Container, Fetched,
     Untouched
<1> QED
  BY <1>1, <1>2, <1>3, <1>4, <1>5, <1>6

LEMMA CutDeploys ==
  ASSUME DeployInv, Cut
  PROVE  DeployInv'
<1> USE DeployAssumption, SchemaType DEF DeployInv, Versions, End
<1>1. DeployTypeOK'
  BY DEF Cut, DeployTypeOK, Container, Commands, Exits
<1>2. Sound'
  BY DEF Cut, DeployTypeOK, Sound, SchemaCoversApp, SameApp, Swapping, Container, Fetched,
     Untouched
<1>3. SameApp'
  BY DEF Cut, DeployTypeOK, Sound, SchemaCoversApp, SameApp, Swapping, Container, Fetched,
     Untouched
<1>4. Swapping'
  BY DEF Cut, DeployTypeOK, Sound, SchemaCoversApp, SameApp, Swapping, Container, Fetched,
     Untouched, Answers
<1>5. FailureLeavesAnApp'
  BY DEF Cut, DeployTypeOK, Sound, SchemaCoversApp, SameApp, Swapping, FailureLeavesAnApp,
     Container, Fetched, Untouched, Answers
<1>6. RollbackRestores'
  BY DEF Cut, DeployTypeOK, SameApp, Swapping, RollbackRestores, Container, Fetched,
     Untouched
<1> QED
  BY <1>1, <1>2, <1>3, <1>4, <1>5, <1>6

LEMMA FetchDeploys ==
  ASSUME DeployInv, Fetch
  PROVE  DeployInv'
<1> USE DeployAssumption, SchemaType DEF DeployInv, Versions, End
<1>1. DeployTypeOK'
  BY DEF Fetch, DeployTypeOK, Container, Commands, Exits
<1>2. Sound'
  BY DEF Fetch, DeployTypeOK, Sound, SchemaCoversApp, SameApp, Swapping, Container, Fetched,
     Untouched
<1>3. SameApp'
  BY DEF Fetch, DeployTypeOK, Sound, SchemaCoversApp, SameApp, Swapping, Container, Fetched,
     Untouched
<1>4. Swapping'
  BY DEF Fetch, DeployTypeOK, Sound, SchemaCoversApp, SameApp, Swapping, Container, Fetched,
     Untouched, Answers
<1>5. FailureLeavesAnApp'
  BY DEF Fetch, DeployTypeOK, Sound, SchemaCoversApp, SameApp, Swapping, FailureLeavesAnApp,
     Container, Fetched, Untouched, Answers
<1>6. RollbackRestores'
  BY DEF Fetch, DeployTypeOK, SameApp, Swapping, RollbackRestores, Container, Fetched,
     Untouched
<1> QED
  BY <1>1, <1>2, <1>3, <1>4, <1>5, <1>6

LEMMA SnapshotDeploys ==
  ASSUME DeployInv, Snapshot
  PROVE  DeployInv'
<1> USE DeployAssumption, SchemaType DEF DeployInv, Versions, End
<1>1. DeployTypeOK'
  BY DEF Snapshot, DeployTypeOK, Container, Commands, Exits
<1>2. Sound'
  BY DEF Snapshot, DeployTypeOK, Sound, SchemaCoversApp, SameApp, Swapping, Container,
     Fetched, Untouched
<1>3. SameApp'
  BY DEF Snapshot, DeployTypeOK, Sound, SchemaCoversApp, SameApp, Swapping, Container,
     Fetched, Untouched
<1>4. Swapping'
  BY
  DEF Snapshot, DeployTypeOK, Sound, SchemaCoversApp, SameApp, Swapping, Container, Fetched,
      Untouched, Answers
<1>5. FailureLeavesAnApp'
  BY DEF Snapshot, DeployTypeOK, Sound, SchemaCoversApp, SameApp, Swapping,
     FailureLeavesAnApp, Container, Fetched, Untouched, Answers
<1>6. RollbackRestores'
  BY DEF Snapshot, DeployTypeOK, SameApp, Swapping, RollbackRestores, Container, Fetched,
     Untouched
<1> QED
  BY <1>1, <1>2, <1>3, <1>4, <1>5, <1>6

LEMMA BuildDeploys ==
  ASSUME DeployInv, Build
  PROVE  DeployInv'
<1> USE DeployAssumption, SchemaType DEF DeployInv, Versions, End
<1>1. DeployTypeOK'
  BY DEF Build, DeployTypeOK, Container, Commands, Exits
<1>2. Sound'
  BY DEF Build, DeployTypeOK, Sound, SchemaCoversApp, SameApp, Swapping, Container, Fetched,
     Untouched
<1>3. SameApp'
  BY DEF Build, DeployTypeOK, Sound, SchemaCoversApp, SameApp, Swapping, Container, Fetched,
     Untouched
<1>4. Swapping'
  BY DEF Build, DeployTypeOK, Sound, SchemaCoversApp, SameApp, Swapping, Container, Fetched,
     Untouched, Answers
<1>5. FailureLeavesAnApp'
  BY DEF Build, DeployTypeOK, Sound, SchemaCoversApp, SameApp, Swapping, FailureLeavesAnApp,
     Container, Fetched, Untouched, Answers
<1>6. RollbackRestores'
  BY DEF Build, DeployTypeOK, SameApp, Swapping, RollbackRestores, Container, Fetched,
     Untouched
<1> QED
  BY <1>1, <1>2, <1>3, <1>4, <1>5, <1>6

LEMMA MigrateDeploys ==
  ASSUME DeployInv, Migrate
  PROVE  DeployInv'
<1> USE DeployAssumption, SchemaType DEF DeployInv, Versions, End
<1>1. DeployTypeOK'
  BY DEF Migrate, DeployTypeOK, Container, Commands, Exits
<1>2. Sound'
  BY DEF Migrate, DeployTypeOK, Sound, SchemaCoversApp, SameApp, Swapping, Container,
     Fetched, Untouched
<1>3. SameApp'
  BY DEF Migrate, DeployTypeOK, Sound, SchemaCoversApp, SameApp, Swapping, Container,
     Fetched, Untouched
<1>4. Swapping'
  BY DEF Migrate, DeployTypeOK, Sound, SchemaCoversApp, SameApp, Swapping, Container,
     Fetched, Untouched, Answers
<1>5. FailureLeavesAnApp'
  BY DEF Migrate, DeployTypeOK, Sound, SchemaCoversApp, SameApp, Swapping,
     FailureLeavesAnApp, Container, Fetched, Untouched, Answers
<1>6. RollbackRestores'
  BY DEF Migrate, DeployTypeOK, SameApp, Swapping, RollbackRestores, Container, Fetched,
     Untouched
<1> QED
  BY <1>1, <1>2, <1>3, <1>4, <1>5, <1>6

LEMMA NoSwapDeploys ==
  ASSUME DeployInv, NoSwap
  PROVE  DeployInv'
<1> USE DeployAssumption, SchemaType DEF DeployInv, Versions, End
<1>1. DeployTypeOK'
  BY DEF NoSwap, DeployTypeOK, Container, Commands, Exits
<1>2. Sound'
  BY DEF NoSwap, DeployTypeOK, Sound, SchemaCoversApp, SameApp, Swapping, Container,
     Fetched, Untouched
<1>3. SameApp'
  BY DEF NoSwap, DeployTypeOK, Sound, SchemaCoversApp, SameApp, Swapping, Container,
     Fetched, Untouched
<1>4. Swapping'
  BY DEF NoSwap, DeployTypeOK, Sound, SchemaCoversApp, SameApp, Swapping, Container,
     Fetched, Untouched, Answers
<1>5. FailureLeavesAnApp'
  BY DEF NoSwap, DeployTypeOK, Sound, SchemaCoversApp, SameApp, Swapping,
     FailureLeavesAnApp, Container, Fetched, Untouched, Answers
<1>6. RollbackRestores'
  BY DEF NoSwap, DeployTypeOK, SameApp, Swapping, RollbackRestores, Container, Fetched,
     Untouched
<1> QED
  BY <1>1, <1>2, <1>3, <1>4, <1>5, <1>6

LEMMA StopDeploys ==
  ASSUME DeployInv, Stop
  PROVE  DeployInv'
<1> USE DeployAssumption, SchemaType DEF DeployInv, Versions, End
<1>1. DeployTypeOK'
  BY DEF Stop, DeployTypeOK, Container, Commands, Exits
<1>2. Sound'
  BY DEF Stop, DeployTypeOK, Sound, SchemaCoversApp, SameApp, Swapping, Container, Fetched,
     Untouched
<1>3. SameApp'
  BY DEF Stop, DeployTypeOK, Sound, SchemaCoversApp, SameApp, Swapping, Container, Fetched,
     Untouched
<1>4. Swapping'
  BY DEF Stop, DeployTypeOK, Sound, SchemaCoversApp, SameApp, Swapping, Container, Fetched,
     Untouched, Answers
<1>5. FailureLeavesAnApp'
  BY DEF Stop, DeployTypeOK, Sound, SchemaCoversApp, SameApp, Swapping, FailureLeavesAnApp,
     Container, Fetched, Untouched, Answers
<1>6. RollbackRestores'
  BY DEF Stop, DeployTypeOK, SameApp, Swapping, RollbackRestores, Container, Fetched,
     Untouched
<1> QED
  BY <1>1, <1>2, <1>3, <1>4, <1>5, <1>6

LEMMA StartDeploys ==
  ASSUME DeployInv, Start
  PROVE  DeployInv'
<1> USE DeployAssumption, SchemaType DEF DeployInv, Versions, End
<1>1. DeployTypeOK'
  <2>1. app' \in Container
    <3>1. [image |-> latest, compose |-> code, up |-> TRUE] \in Container
      BY DEF DeployTypeOK, Container
    <3>2. [image |-> latest, compose |-> code, up |-> FALSE] \in Container
      BY DEF DeployTypeOK, Container
    <3> QED
      BY <3>1, <3>2 DEF Start, DeployTypeOK
  <2>2. pc' \in Commands /\ exit' \in Exits
    BY DEF Start, DeployTypeOK, Commands, Exits
  <2> QED
    BY <2>1, <2>2 DEF Start, DeployTypeOK
<1>2. Sound'
  BY DEF Start, DeployTypeOK, Sound, SchemaCoversApp, SameApp, Swapping, Container, Fetched,
     Untouched
<1>3. SameApp'
  BY DEF Start, DeployTypeOK, Sound, SchemaCoversApp, SameApp, Swapping, Container, Fetched,
     Untouched
<1>4. Swapping'
  BY DEF Start, DeployTypeOK, Sound, SchemaCoversApp, SameApp, Swapping, Container, Fetched,
     Untouched, Answers
<1>5. FailureLeavesAnApp'
  BY DEF Start, DeployTypeOK, Sound, SchemaCoversApp, SameApp, Swapping, FailureLeavesAnApp,
     Container, Fetched, Untouched, Answers
<1>6. RollbackRestores'
  BY DEF Start, DeployTypeOK, SameApp, Swapping, RollbackRestores, Container, Fetched,
     Untouched
<1> QED
  BY <1>1, <1>2, <1>3, <1>4, <1>5, <1>6

LEMMA ProbeDeploys ==
  ASSUME DeployInv, Probe
  PROVE  DeployInv'
<1> USE DeployAssumption, SchemaType DEF DeployInv, Versions, End
<1>1. DeployTypeOK'
  BY DEF Probe, DeployTypeOK, Container, Commands, Exits
<1>2. Sound'
  BY DEF Probe, DeployTypeOK, Sound, SchemaCoversApp, SameApp, Swapping, Container, Fetched,
     Untouched
<1>3. SameApp'
  BY DEF Probe, DeployTypeOK, Sound, SchemaCoversApp, SameApp, Swapping, Container, Fetched,
     Untouched
<1>4. Swapping'
  BY DEF Probe, DeployTypeOK, Sound, SchemaCoversApp, SameApp, Swapping, Container, Fetched,
     Untouched, Answers
<1>5. FailureLeavesAnApp'
  BY DEF Probe, DeployTypeOK, Sound, SchemaCoversApp, SameApp, Swapping, FailureLeavesAnApp,
     Container, Fetched, Untouched, Answers
<1>6. RollbackRestores'
  BY DEF Probe, DeployTypeOK, SameApp, Swapping, RollbackRestores, Container, Fetched,
     Untouched
<1> QED
  BY <1>1, <1>2, <1>3, <1>4, <1>5, <1>6

LEMMA RetagDeploys ==
  ASSUME DeployInv, Retag
  PROVE  DeployInv'
<1> USE DeployAssumption, SchemaType DEF DeployInv, Versions, End
<1>1. DeployTypeOK'
  BY DEF Retag, DeployTypeOK, Container, Commands, Exits
<1>2. Sound'
  BY DEF Retag, DeployTypeOK, Sound, SchemaCoversApp, SameApp, Swapping, Container, Fetched,
     Untouched
<1>3. SameApp'
  BY DEF Retag, DeployTypeOK, Sound, SchemaCoversApp, SameApp, Swapping, Container, Fetched,
     Untouched
<1>4. Swapping'
  BY DEF Retag, DeployTypeOK, Sound, SchemaCoversApp, SameApp, Swapping, Container, Fetched,
     Untouched, Answers
<1>5. FailureLeavesAnApp'
  BY DEF Retag, DeployTypeOK, Sound, SchemaCoversApp, SameApp, Swapping, FailureLeavesAnApp,
     Container, Fetched, Untouched, Answers
<1>6. RollbackRestores'
  BY DEF Retag, DeployTypeOK, SameApp, Swapping, RollbackRestores, Container, Fetched,
     Untouched
<1> QED
  BY <1>1, <1>2, <1>3, <1>4, <1>5, <1>6

LEMMA ReprobeDeploys ==
  ASSUME DeployInv, Reprobe
  PROVE  DeployInv'
<1> USE DeployAssumption, SchemaType DEF DeployInv, Versions, End
<1>1. DeployTypeOK'
  BY DEF Reprobe, DeployTypeOK, Container, Commands, Exits
<1>2. Sound'
  BY DEF Reprobe, DeployTypeOK, Sound, SchemaCoversApp, SameApp, Swapping, Container,
     Fetched, Untouched
<1>3. SameApp'
  BY DEF Reprobe, DeployTypeOK, Sound, SchemaCoversApp, SameApp, Swapping, Container,
     Fetched, Untouched
<1>4. Swapping'
  BY DEF Reprobe, DeployTypeOK, Sound, SchemaCoversApp, SameApp, Swapping, Container,
     Fetched, Untouched, Answers
<1>5. FailureLeavesAnApp'
  BY DEF Reprobe, DeployTypeOK, Sound, SchemaCoversApp, SameApp, Swapping,
     FailureLeavesAnApp, Container, Fetched, Untouched, Answers
<1>6. RollbackRestores'
  BY DEF Reprobe, DeployTypeOK, SameApp, Swapping, RollbackRestores, Container, Fetched,
     Untouched
<1> QED
  BY <1>1, <1>2, <1>3, <1>4, <1>5, <1>6

LEMMA AssertPortDeploys ==
  ASSUME DeployInv, AssertPort
  PROVE  DeployInv'
<1> USE DeployAssumption, SchemaType DEF DeployInv, Versions, End
<1>1. DeployTypeOK'
  BY DEF AssertPort, DeployTypeOK, Container, Commands, Exits
<1>2. Sound'
  BY DEF AssertPort, DeployTypeOK, Sound, SchemaCoversApp, SameApp, Swapping, Container,
     Fetched, Untouched
<1>3. SameApp'
  BY DEF AssertPort, DeployTypeOK, Sound, SchemaCoversApp, SameApp, Swapping, Container,
     Fetched, Untouched
<1>4. Swapping'
  BY
  DEF AssertPort, DeployTypeOK, Sound, SchemaCoversApp, SameApp, Swapping, Container, Fetched,
      Untouched, Answers
<1>5. FailureLeavesAnApp'
  BY DEF AssertPort, DeployTypeOK, Sound, SchemaCoversApp, SameApp, Swapping,
     FailureLeavesAnApp, Container, Fetched, Untouched, Answers
<1>6. RollbackRestores'
  BY DEF AssertPort, DeployTypeOK, SameApp, Swapping, RollbackRestores, Container, Fetched,
     Untouched
<1> QED
  BY <1>1, <1>2, <1>3, <1>4, <1>5, <1>6

\* Photos do not move the script, and every other step is a command of it.
LEMMA DeployKeeps == DeployInv /\ [HostingNext]_hostingVars => DeployInv'
<1> SUFFICES ASSUME DeployInv, [HostingNext]_hostingVars PROVE DeployInv'
  OBVIOUS
<1>1. CASE UNCHANGED deployVars
  BY <1>1 DEF deployVars, DeployInv, DeployTypeOK, Sound, SchemaCoversApp, SameApp,
     Swapping, Answers, FailureLeavesAnApp, RollbackRestores
<1>2. CASE StopApp
  BY <1>2, StopDeploys DEF StopApp
<1>3. CASE FetchCode
  BY <1>3, FetchDeploys DEF FetchCode
<1>4. CASE OtherCommand
  BY <1>4, BeginDeploys, CutDeploys, SnapshotDeploys, BuildDeploys, MigrateDeploys,
     NoSwapDeploys, StartDeploys, ProbeDeploys, RetagDeploys, ReprobeDeploys,
     AssertPortDeploys DEF OtherCommand
<1> QED
  BY <1>1, <1>2, <1>3, <1>4 DEF HostingNext, AppStep, ProcessDies, hostingVars

LEMMA InitDeploy == DeployInit => DeployInv
  BY DeployAssumption, SchemaType DEF DeployInit, DeployInv, DeployTypeOK, Sound,
     SchemaCoversApp, SameApp, Swapping, FailureLeavesAnApp, RollbackRestores, Versions,
     Container, Commands, Exits, Fetched, Untouched, Answers

\* Whatever fails, and wherever the script is cut.
LEMMA DeployAlways == HostingSpec => []DeployInv
  BY InitDeploy, DeployKeeps, PTL DEF HostingSpec, HostingInit

\* The state of the script and of the host keeps its type.
THEOREM DeployTypeCorrect == HostingSpec => []DeployTypeOK
<1>1. DeployInv => DeployTypeOK
  BY DEF DeployInv
<1> QED
  BY <1>1, DeployAlways, PTL

\* No container ever runs on a schema older than its image.
THEOREM SchemaAlwaysCovers == HostingSpec => []SchemaCoversApp
<1>1. DeployInv => SchemaCoversApp
  BY DEF DeployInv, Sound
<1> QED
  BY <1>1, DeployAlways, PTL

\* A failed deployment leaves an app that answers, for any set of broken versions.
THEOREM AppSurvivesFailure == HostingSpec => []FailureLeavesAnApp
<1>1. DeployInv => FailureLeavesAnApp
  BY DEF DeployInv
<1> QED
  BY <1>1, DeployAlways, PTL

\* A rollback brings back the image and the tag of before.
THEOREM RollbackIsExact == HostingSpec => []RollbackRestores
<1>1. DeployInv => RollbackRestores
  BY DEF DeployInv
<1> QED
  BY <1>1, DeployAlways, PTL

----------------------------------------------------------------------------
(* The two parts of the composition, each by itself *)

\* The photos of a process that may be started again at any moment.
PhotosRestarted == Init /\ [][ServerStep \/ DropHandlers]_photoVars

\* To the photos a deployment is nothing but restarts of the process, wherever the
\* script is and however it ends: neither the cleaning of the checkout nor another
\* command touches a file or a row.
THEOREM DeploymentsAreRestarts == HostingSpec => PhotosRestarted
<1>1. HostingInit => Init
  BY DEF HostingInit
<1>2. [HostingNext]_hostingVars => [ServerStep \/ DropHandlers]_photoVars
  <2> SUFFICES ASSUME HostingNext \/ UNCHANGED hostingVars
               PROVE  ServerStep \/ DropHandlers \/ UNCHANGED photoVars
    OBVIOUS
  <2>1. CASE AppStep \/ ProcessDies
    BY <2>1 DEF AppStep, ProcessDies, Crash
  <2>2. CASE StopApp
    BY <2>2 DEF StopApp
  <2>3. CASE FetchCode
    BY <2>3 DEF FetchCode, Cleaned, photoVars
  <2>4. CASE OtherCommand \/ UNCHANGED hostingVars
    BY <2>4 DEF OtherCommand, hostingVars
  <2> QED
    BY <2>1, <2>2, <2>3, <2>4 DEF HostingNext
<1> QED
  BY <1>1, <1>2, PTL DEF HostingSpec, PhotosRestarted

\* So the composition implements Photos by itself wherever that reckons with the
\* death of the process.
THEOREM HostingImplementsPhotos == "crash" \in Faults => (HostingSpec => Spec)
<1> SUFFICES ASSUME "crash" \in Faults PROVE HostingSpec => Spec
  OBVIOUS
<1>1. [ServerStep \/ DropHandlers]_photoVars => [Next]_photoVars
  BY DEF Next, Crash
<1> QED
  BY <1>1, DeploymentsAreRestarts, PTL DEF PhotosRestarted, Spec

\* And the script runs as it would without photos: what requests do never holds a
\* command up, nor changes what it does.
THEOREM HostingImplementsDeploy ==
  HostingSpec => DeployInit /\ [][DeployNext]_deployVars
<1>1. HostingInit => DeployInit
  BY DEF HostingInit
<1>2. [HostingNext]_hostingVars => [DeployNext]_deployVars
  <2> SUFFICES ASSUME HostingNext \/ UNCHANGED hostingVars
               PROVE  DeployNext \/ UNCHANGED deployVars
    OBVIOUS
  <2>1. CASE AppStep \/ ProcessDies \/ UNCHANGED hostingVars
    BY <2>1 DEF AppStep, ProcessDies, hostingVars
  <2>2. CASE StopApp \/ FetchCode \/ OtherCommand
    BY <2>2 DEF StopApp, FetchCode, OtherCommand, DeployNext, Script
  <2> QED
    BY <2>1, <2>2 DEF HostingNext
<1> QED
  BY <1>1, <1>2, PTL DEF HostingSpec
=============================================================================
