----------------------------- MODULE TextsProofs -----------------------------
(***************************************************************************)
(* Theorems about InvitationTexts, for any number of editors, pages and    *)
(* invitations.                                                            *)
(*                                                                         *)
(* Publications: the invariant says that at most one transaction is past   *)
(* its write of the bank account, and that one about to commit has read    *)
(* the row and the version that are still the last ones.                   *)
(*                                                                         *)
(* Lists: while the functions of a page on an invitation follow one        *)
(* another, the page is right about it except for what the one function in *)
(* flight changed early, or the handler wrote and the page is yet to hear. *)
(***************************************************************************)
EXTENDS InvitationTexts, SequenceTheorems, TLAPS

Holding(e) == pub[e].pc \in {"read", "commit"}

Row1 == Len(templates) = 1 /\ templates[1].version = published /\ published # 0
NoRows == templates = <<>> /\ published = 0

Rows ==
  /\ templates \in Seq(Template)
  /\ published \in Nat
  /\ bank \in Bank
  /\ NoRows \/ Row1
  /\ bank.since = published

Editing ==
  /\ pub \in [Editors -> {Quiet} \cup Publication]
  /\ \A e, k \in Editors : Holding(e) /\ Holding(k) => e = k
  /\ \A e \in Editors : pub[e].pc = "commit" =>
       /\ pub[e].latest = Len(templates)
       /\ pub[e].version = published + 1

PubInv == Rows /\ Editing

\* The latest of at most one row.
LEMMA LatestIsLast ==
  ASSUME Rows
  PROVE  Latest = Len(templates) /\ NextVersion = published + 1
<1>1. CASE NoRows
  BY <1>1 DEF NoRows, Latest, NextVersion, Rows
<1>2. CASE Row1
  <2>1. DOMAIN templates = {1}
    BY <1>2 DEF Row1, Rows
  <2>2. templates[1].version <= templates[1].version
    BY <1>2 DEF Row1, Rows
  <2>3. Latest = 1
    BY <1>2, <2>1, <2>2 DEF Row1, Latest
  <2> QED
    BY <1>2, <2>3 DEF Row1, NextVersion
<1> QED
  BY <1>1, <1>2 DEF Rows

\* What an editor that is not quiet holds.
LEMMA EditorFields ==
  ASSUME Editing, NEW e \in Editors, pub[e] # Quiet
  PROVE  pub[e] \in Publication
  BY DEF Editing

TemplateSide == <<templates, bank, pub, published>>

\* No step of a list touches the template, the bank account or a publication.
LEMMA ListsApart ==
  ASSUME ListStep
  PROVE  UNCHANGED TemplateSide
<1>1. ASSUME NEW s \in Slots,
             Check(s) \/ Write(s) \/ Fail(s) \/ PatchGuest(s)
      PROVE  UNCHANGED TemplateSide
  <2>1. CASE Check(s)
    BY <2>1 DEF Check, TemplateSide
  <2>2. CASE Write(s)
    BY <2>2 DEF Write, TemplateSide
  <2>3. CASE Fail(s)
    BY <2>3 DEF Fail, TemplateSide
  <2>4. CASE PatchGuest(s)
    BY <2>4 DEF PatchGuest, TemplateSide
  <2> QED
    BY <1>1, <2>1, <2>2, <2>3, <2>4
<1>2. ASSUME NEW s \in Slots, Answered(s) \/ Saved(s) \/ Lose(s) \/ Unread(s)
      PROVE  UNCHANGED TemplateSide
  <2>1. CASE Answered(s)
    BY <2>1 DEF Answered, TemplateSide
  <2>2. CASE Saved(s)
    BY <2>2 DEF Saved, TemplateSide
  <2>3. CASE Lose(s)
    BY <2>3 DEF Lose, TemplateSide
  <2>4. CASE Unread(s)
    BY <2>4 DEF Unread, TemplateSide
  <2> QED
    BY <1>2, <2>1, <2>2, <2>3, <2>4
<1>3. ASSUME NEW s \in Slots, NEW q, NEW item, Start(s, q, item)
      PROVE  UNCHANGED TemplateSide
  BY <1>3 DEF Start, TemplateSide
<1>4. ASSUME NEW s \in Slots, NEW i \in Invs,
             \/ Create(s, i) \/ Toggle(s, i) \/ Delete(s, i)
             \/ \E content \in Drafts, name \in Opt(Names) : Save(s, i, content, name)
      PROVE  UNCHANGED TemplateSide
  BY <1>3, <1>4 DEF Create, Toggle, Delete, Save
<1>5. ASSUME NEW i \in Invs, NEW name \in Opt(Names), Rsvp(i, name)
      PROVE  UNCHANGED TemplateSide
  BY <1>5 DEF Rsvp, TemplateSide
<1>6. ASSUME NEW p \in Pages, Load(p)
      PROVE  UNCHANGED TemplateSide
  BY <1>6 DEF Load, TemplateSide
<1> QED
  BY <1>1, <1>2, <1>4, <1>5, <1>6 DEF ListStep

LEMMA PubStutters ==
  ASSUME PubInv, UNCHANGED TemplateSide
  PROVE  PubInv'
  BY DEF TemplateSide, PubInv, Rows, Editing, NoRows, Row1, Holding

LEMMA PublishKeeps ==
  ASSUME PubInv, NEW e \in Editors, NEW content \in Drafts, NEW account \in Banks,
         Publish(e, content, account)
  PROVE  PubInv'
<1>1. PICK x : x = [pc |-> "bank", content |-> content, account |-> account,
                    latest |-> 0, version |-> 0]
  OBVIOUS
<1>2. pub' = [pub EXCEPT ![e] = x] /\ UNCHANGED <<templates, bank, published>>
  BY <1>1 DEF Publish
<1>3. x \in Publication /\ x.pc = "bank"
  BY <1>1, TextsAssumption DEF Publication, Opt
<1>4. Rows'
  BY <1>2 DEF PubInv, Rows, NoRows, Row1
<1>5. Editing'
  BY <1>2, <1>3 DEF PubInv, Editing, Holding
<1> QED
  BY <1>4, <1>5 DEF PubInv

LEMMA UpdateBankKeeps ==
  ASSUME PubInv, NEW e \in Editors, UpdateBank(e)
  PROVE  PubInv'
<1>1. PICK x : x = [pub[e] EXCEPT !.pc = "read"]
  OBVIOUS
<1>2. pub' = [pub EXCEPT ![e] = x] /\ UNCHANGED <<templates, bank, published>>
  BY <1>1 DEF UpdateBank
<1>3. pub[e] \in Publication
  BY EditorFields DEF UpdateBank, Quiet, PubInv
<1>4. x \in Publication /\ x.pc = "read"
  BY <1>1, <1>3 DEF Publication
<1>5. \A k \in Editors : ~Holding(k)
  BY DEF UpdateBank, Locked, Holding
<1>6. Rows'
  BY <1>2 DEF PubInv, Rows, NoRows, Row1
<1>7. Editing'
  BY <1>2, <1>4, <1>5 DEF PubInv, Editing, Holding
<1> QED
  BY <1>6, <1>7 DEF PubInv

LEMMA ReadLatestKeeps ==
  ASSUME PubInv, NEW e \in Editors, ReadLatest(e)
  PROVE  PubInv'
<1>1. Latest = Len(templates) /\ NextVersion = published + 1
  BY LatestIsLast DEF PubInv
<1>2. PICK x : x = [pub[e] EXCEPT !.pc = "commit", !.latest = Len(templates),
                     !.version = published + 1]
  OBVIOUS
<1>3. pub' = [pub EXCEPT ![e] = x] /\ UNCHANGED <<templates, bank, published>>
  BY <1>1, <1>2 DEF ReadLatest
<1>4. pub[e] \in Publication
  BY EditorFields DEF ReadLatest, Quiet, PubInv
<1>5. Len(templates) \in Nat /\ published + 1 \in Nat
  BY DEF PubInv, Rows
<1>6. x \in Publication /\ x.pc = "commit" /\ x.latest = Len(templates)
      /\ x.version = published + 1
  BY <1>2, <1>4, <1>5 DEF Publication
<1>7. \A k \in Editors : Holding(k) => k = e
  BY DEF PubInv, Editing, Holding, ReadLatest
<1>8. Rows'
  BY <1>3 DEF PubInv, Rows, NoRows, Row1
<1>9. Editing'
  BY <1>3, <1>6, <1>7 DEF PubInv, Editing, Holding
<1> QED
  BY <1>8, <1>9 DEF PubInv

LEMMA CommitKeeps ==
  ASSUME PubInv, NEW e \in Editors, Commit(e)
  PROVE  PubInv'
<1>1. pub[e] \in Publication
  BY EditorFields DEF Commit, Quiet, PubInv
<1>2. pub[e].latest = Len(templates) /\ pub[e].version = published + 1
  BY DEF Commit, PubInv, Editing
<1>3. PICK r : r = Row(e)
  OBVIOUS
<1>4. r \in Template /\ r.version = published + 1
  BY <1>1, <1>2, <1>3 DEF Row, Template, Publication, PubInv, Rows
<1>5. published' = published + 1 /\ pub' = [pub EXCEPT ![e] = Quiet]
      /\ bank' = [account |-> pub[e].account, since |-> published + 1]
  BY <1>2 DEF Commit
<1>6. bank' \in Bank /\ bank'.since = published'
  BY <1>1, <1>5 DEF Bank, Publication, PubInv, Rows
<1>7. templates' \in Seq(Template) /\ Len(templates') = 1 /\ templates'[1] = r
  <2>1. CASE NoRows
    <3>1. templates' = Append(templates, r)
      BY <1>2, <1>3, <2>1 DEF Commit, Upserted, NoRows
    <3> QED
      BY <1>4, <2>1, <3>1 DEF NoRows
  <2>2. CASE Row1
    <3>1. templates' = [templates EXCEPT ![1] = r]
      BY <1>2, <1>3, <2>2 DEF Commit, Upserted, Row1
    <3>2. templates \in Seq(Template) /\ Len(templates) = 1 /\ 1 \in 1 .. Len(templates)
      BY <2>2 DEF Row1, PubInv, Rows
    <3> QED
      BY <1>4, <3>1, <3>2, ExceptSeq
  <2> QED
    BY <2>1, <2>2 DEF PubInv, Rows
<1>8. Rows'
  <2>1. published' \in Nat /\ published' # 0
    BY <1>5 DEF PubInv, Rows
  <2> QED
    BY <1>4, <1>5, <1>6, <1>7, <2>1 DEF Rows, Row1
<1>9. Editing'
  BY <1>5 DEF PubInv, Editing, Holding, Commit, Quiet
<1> QED
  BY <1>8, <1>9 DEF PubInv

LEMMA AbortKeeps ==
  ASSUME PubInv, NEW e \in Editors, Abort(e)
  PROVE  PubInv'
<1>1. pub' = [pub EXCEPT ![e] = Quiet] /\ UNCHANGED <<templates, bank, published>>
  BY DEF Abort
<1>2. Rows'
  BY <1>1 DEF PubInv, Rows, NoRows, Row1
<1>3. Editing'
  BY <1>1 DEF PubInv, Editing, Holding, Quiet
<1> QED
  BY <1>2, <1>3 DEF PubInv

LEMMA PatchBankKeeps ==
  ASSUME PubInv, NEW account \in Opt(Banks), PatchBank(account)
  PROVE  PubInv'
<1>1. bank' = [bank EXCEPT !.account = account]
      /\ UNCHANGED <<templates, pub, published>>
  BY DEF PatchBank
<1>2. bank' \in Bank /\ bank'.since = bank.since
  BY <1>1 DEF PubInv, Rows, Bank
<1>3. Rows'
  BY <1>1, <1>2 DEF PubInv, Rows, NoRows, Row1
<1>4. Editing'
  BY <1>1 DEF PubInv, Editing, Holding
<1> QED
  BY <1>3, <1>4 DEF PubInv

LEMMA PubKept == PubInv /\ [Next]_vars => PubInv'
<1> SUFFICES ASSUME PubInv, [Next]_vars PROVE PubInv'
  OBVIOUS
<1>1. CASE ListStep
  BY <1>1, ListsApart, PubStutters
<1>2. CASE EditorStep
  BY <1>2, PublishKeeps, UpdateBankKeeps, ReadLatestKeeps, CommitKeeps, AbortKeeps,
     PatchBankKeeps DEF EditorStep
<1>3. CASE UNCHANGED vars
  BY <1>3, PubStutters DEF vars, TemplateSide
<1> QED
  BY <1>1, <1>2, <1>3 DEF Next

LEMMA PubStarts == Init => PubInv
  BY DEF Init, PubInv, Rows, Editing, NoRows, Holding, Quiet, Bank, Opt

\* However many couples' browsers publish at once, every publication gets a version of
\* its own and there is one template.
THEOREM PublicationsCount == Spec => []EveryPublicationCounts
<1>1. PubInv => EveryPublicationCounts
  <2>1. NoRows => EveryPublicationCounts
    BY DEF NoRows, EveryPublicationCounts
  <2>2. Row1 => EveryPublicationCounts
    BY DEF Row1, EveryPublicationCounts
  <2> QED
    BY <2>1, <2>2 DEF PubInv, Rows
<1> QED
  BY <1>1, PubStarts, PubKept, PTL DEF Spec

\* The bank account and the template are published together or not at all.
THEOREM PublishedTogether == Spec => []NothingHalfPublished
<1>1. PubInv => NothingHalfPublished
  <2> SUFFICES ASSUME PubInv PROVE NothingHalfPublished
    OBVIOUS
  <2>1. Latest = Len(templates)
    BY LatestIsLast DEF PubInv
  <2> QED
    BY <2>1 DEF PubInv, Rows, NoRows, Row1, NothingHalfPublished
<1> QED
  BY <1>1, PubStarts, PubKept, PTL DEF Spec

----------------------------------------------------------------------------
(* Types *)

ListSide == <<invs, guest, list, hand, off>>

Typed ==
  /\ invs \in [Invs -> Invitation]
  /\ guest \in [Invs -> Guest]
  /\ list \in [Pages -> [Invs -> {NoItem} \cup Item]]
  /\ hand \in [Slots -> {Quiet} \cup Busy]
  /\ off \in [Pages -> SUBSET Invs]

\* What a function in flight holds.
LEMMA Working ==
  ASSUME Typed, NEW s \in Slots, hand[s] # Quiet
  PROVE  /\ hand[s] \in Busy /\ hand[s].q \in Request /\ hand[s].q.inv \in Invs
         /\ hand[s].content \in Content /\ PageOf[s] \in Pages
<1>1. hand[s] \in Busy
  BY DEF Typed
<1>2. hand[s].q \in Request /\ hand[s].content \in Content
  BY <1>1 DEF Busy
<1>3. hand[s].q.inv \in Invs
  BY <1>2 DEF Request
<1> QED
  BY <1>1, <1>2, <1>3, TextsAssumption

\* The fields of a draft and of a toggle.
LEMMA RequestFields ==
  ASSUME NEW q \in Request
  PROVE  /\ q.op = "save" => q.content \in Content /\ q.name \in Opt(Names)
         /\ q.op = "toggle" => q.sent \in BOOLEAN
         /\ q.op \in {"create", "save", "toggle", "delete"}
  BY DEF Request

LEMMA BaseTyped ==
  ASSUME PubInv
  PROVE  Base \in Content
<1>1. Blank \in Content
  BY DEF Blank, Content, Opt
<1>2. CASE NoRows
  BY <1>1, <1>2 DEF NoRows, Base
<1>3. CASE Row1
  <2>1. Latest = Len(templates)
    BY LatestIsLast DEF PubInv
  <2>2. templates \in Seq(Template) /\ Len(templates) = 1
    BY <1>3 DEF Row1, PubInv, Rows
  <2> QED
    <3>1. templates[1] \in Template
      BY <2>2
    <3>2. Base = templates[1].content
      BY <2>1, <2>2 DEF Base
    <3> QED
      BY <3>1, <3>2 DEF Template
<1> QED
  BY <1>2, <1>3 DEF PubInv, Rows

LEMMA ItemTyped ==
  ASSUME Typed, NEW i \in Invs
  PROVE  ItemOf(i) \in {NoItem} \cup Item
<1>1. invs[i] \in Invitation /\ guest[i] \in Guest
  BY DEF Typed
<1>2. CASE Live(i)
  <2>1. PICK x : x = [shown |-> TRUE, content |-> invs[i].content, sent |-> invs[i].sent,
                      name |-> guest[i].name, allowed |-> guest[i].allowed]
    OBVIOUS
  <2>2. x \in Item
    BY <1>1, <2>1 DEF Item, Invitation, Guest
  <2> QED
    BY <1>2, <2>1, <2>2 DEF ItemOf
<1> QED
  BY <1>2 DEF ItemOf

\* A function that goes on with another step.
LEMMA Onward ==
  ASSUME Typed, NEW s \in Slots, hand[s] # Quiet,
         NEW pc \in {"check", "write", "answer", "guest", "saved"},
         NEW c \in Content, NEW ok \in BOOLEAN, NEW heard \in BOOLEAN
  PROVE  [hand EXCEPT ![s].pc = pc, ![s].content = c, ![s].ok = ok, ![s].heard = heard]
           \in [Slots -> {Quiet} \cup Busy]
<1>1. PICK x : x = [hand[s] EXCEPT !.pc = pc, !.content = c, !.ok = ok, !.heard = heard]
  OBVIOUS
<1>2. x \in Busy
  BY <1>1, Working DEF Busy
<1>3. [hand EXCEPT ![s].pc = pc, ![s].content = c, ![s].ok = ok, ![s].heard = heard]
        = [hand EXCEPT ![s] = x]
  BY <1>1 DEF Typed
<1> QED
  BY <1>2, <1>3 DEF Typed

LEMMA AnswerTyped ==
  ASSUME Typed, NEW s \in Slots, hand[s] # Quiet, NEW ok \in BOOLEAN, Answer(s, ok)
  PROVE  hand' \in [Slots -> {Quiet} \cup Busy]
<1>1. PICK c : c = IF ok /\ hand[s].q.op = "create" THEN hand[s].content ELSE Blank
  OBVIOUS
<1>2. c \in Content
  BY <1>1, Working DEF Blank, Content, Opt
<1>3. PICK x : x = [hand[s] EXCEPT !.pc = "answer", !.ok = ok, !.content = c]
  OBVIOUS
<1>4. x \in Busy
  BY <1>2, <1>3, Working DEF Busy
<1>5. hand' = [hand EXCEPT ![s] = x]
  BY <1>1, <1>3 DEF Answer, Typed
<1> QED
  BY <1>4, <1>5 DEF Typed

LEMMA StartTyped ==
  ASSUME Typed, NEW s \in Slots, NEW q \in Request, NEW item \in {NoItem} \cup Item,
         Start(s, q, item)
  PROVE  Typed'
<1>1. PageOf[s] \in Pages /\ q.inv \in Invs
  BY TextsAssumption DEF Request
<1>2. PICK x : x = [pc |-> "check", q |-> q, content |-> Blank, ok |-> FALSE,
                    heard |-> TRUE]
  OBVIOUS
<1>3. x \in Busy
  BY <1>2 DEF Busy, Blank, Content, Opt
<1>4. hand' = [hand EXCEPT ![s] = x]
  BY <1>2 DEF Start
<1>5. list' \in [Pages -> [Invs -> {NoItem} \cup Item]]
  BY <1>1 DEF Start, Typed
<1>6. off' \in [Pages -> SUBSET Invs]
  BY <1>1 DEF Start, Typed
<1>7. hand' \in [Slots -> {Quiet} \cup Busy]
  BY <1>3, <1>4 DEF Typed
<1>8. UNCHANGED <<invs, guest>>
  BY DEF Start
<1> QED
  BY <1>5, <1>6, <1>7, <1>8 DEF Typed

\* What the couple asks for is a request.
LEMMA AskTyped ==
  ASSUME Typed, NEW s \in Slots, NEW i \in Invs,
         \/ Create(s, i) \/ Toggle(s, i) \/ Delete(s, i)
         \/ \E content \in Drafts, name \in Opt(Names) : Save(s, i, content, name)
  PROVE  Typed'
<1>1. PICK item : item = list[PageOf[s]][i]
  OBVIOUS
<1>2. item \in {NoItem} \cup Item
  BY <1>1, TextsAssumption DEF Typed
<1>3. CASE Create(s, i)
  <2>1. [op |-> "create", inv |-> i] \in Request
    BY DEF Request
  <2> QED
    BY <1>3, <2>1, StartTyped DEF Create
<1>4. CASE Toggle(s, i)
  <2>1. item \in Item
    BY <1>1, <1>2, <1>4 DEF Toggle, NoItem
  <2>2. [item EXCEPT !.sent = ~item.sent] \in Item
    BY <2>1 DEF Item
  <2>3. [op |-> "toggle", inv |-> i, sent |-> ~item.sent] \in Request
    BY <2>1 DEF Request, Item
  <2>4. Start(s, [op |-> "toggle", inv |-> i, sent |-> ~item.sent],
              [item EXCEPT !.sent = ~item.sent])
    BY <1>1, <1>4 DEF Toggle
  <2> QED
    BY <2>2, <2>3, <2>4, StartTyped
<1>5. CASE Delete(s, i)
  <2>1. [op |-> "delete", inv |-> i] \in Request
    BY DEF Request
  <2>2. Start(s, [op |-> "delete", inv |-> i], item)
    BY <1>1, <1>5 DEF Delete
  <2> QED
    BY <1>2, <2>1, <2>2, StartTyped
<1>6. ASSUME NEW content \in Drafts, NEW name \in Opt(Names), Save(s, i, content, name)
      PROVE  Typed'
  <2>1. item \in Item
    BY <1>1, <1>2, <1>6 DEF Save, NoItem
  <2>2. content \in Content
    BY TextsAssumption
  <2>3. item.allowed \in BOOLEAN
    BY <2>1 DEF Item
  <2>4. [op |-> "save", inv |-> i, content |-> content, name |-> name,
         allowed |-> item.allowed] \in Request
    BY <2>2, <2>3 DEF Request
  <2>5. Start(s, [op |-> "save", inv |-> i, content |-> content, name |-> name,
                  allowed |-> item.allowed], item)
    BY <1>1, <1>6 DEF Save
  <2> QED
    BY <1>2, <2>4, <2>5, StartTyped
<1> QED
  BY <1>3, <1>4, <1>5, <1>6

LEMMA CheckTyped ==
  ASSUME PubInv, Typed, NEW s \in Slots, Check(s)
  PROVE  Typed'
<1>1. hand[s] # Quiet
  BY DEF Check, Quiet
<1>2. PICK c : c = IF hand[s].q.op = "create" THEN Base ELSE invs[hand[s].q.inv].content
  OBVIOUS
<1>3. c \in Content
  BY <1>1, <1>2, Working, BaseTyped DEF Typed, Invitation
<1>4. PICK x : x = [hand[s] EXCEPT !.pc = "write", !.content = c]
  OBVIOUS
<1>5. x \in Busy
  BY <1>1, <1>3, <1>4, Working DEF Busy
<1>6. hand' = [hand EXCEPT ![s] = x] \/ Answer(s, FALSE)
  BY <1>2, <1>4 DEF Check, Typed
<1>7. hand' \in [Slots -> {Quiet} \cup Busy]
  BY <1>1, <1>5, <1>6, AnswerTyped DEF Typed
<1> QED
  BY <1>7 DEF Check, Typed

LEMMA WrittenTyped ==
  ASSUME Typed, NEW s \in Slots, hand[s] # Quiet
  PROVE  Written(s) \in Invitation
<1>1. hand[s].q \in Request /\ hand[s].q.inv \in Invs /\ hand[s].content \in Content
  BY Working
<1>2. invs[hand[s].q.inv] \in Invitation
  BY <1>1 DEF Typed
<1>3. Merged(s) \in Content
  BY <1>1, RequestFields DEF Merged
<1>4. Updated(s) \in Invitation
  <2>1. CASE hand[s].q.op = "toggle"
    <3>1. hand[s].q.sent \in BOOLEAN
      BY <1>1, <2>1, RequestFields
    <3> QED
      BY <1>2, <1>3, <2>1, <3>1 DEF Updated, Invitation
  <2>2. CASE hand[s].q.op # "toggle"
    BY <1>2, <1>3, <2>2 DEF Updated, Invitation
  <2> QED
    BY <2>1, <2>2
<1>5. [state |-> "live", content |-> hand[s].content, sent |-> FALSE] \in Invitation
  BY <1>1 DEF Invitation, States
<1>6. [invs[hand[s].q.inv] EXCEPT !.state = "gone"] \in Invitation
  BY <1>2 DEF Invitation, States
<1> QED
  BY <1>4, <1>5, <1>6 DEF Written

LEMMA WriteTyped ==
  ASSUME Typed, NEW s \in Slots, Write(s)
  PROVE  Typed'
<1>1. hand[s] # Quiet
  BY DEF Write, Quiet
<1>2. hand' \in [Slots -> {Quiet} \cup Busy]
  BY <1>1, AnswerTyped DEF Write
<1>3. PICK w : w = Written(s)
  OBVIOUS
<1>4. w \in Invitation
  BY <1>1, <1>3, WrittenTyped
<1>5. invs' = invs \/ invs' = [invs EXCEPT ![hand[s].q.inv] = w]
  BY <1>3 DEF Write
<1>6. invs' \in [Invs -> Invitation]
  BY <1>4, <1>5 DEF Typed
<1>7. off' \in [Pages -> SUBSET Invs]
  <2>1. PICK i \in Invs : i = hand[s].q.inv
    BY <1>1, Working
  <2>2. off' = off \/ off' = [p \in Pages |-> IF p = PageOf[s] THEN off[p] ELSE off[p] \cup {i}]
    BY <2>1 DEF Write, Unheard
  <2> QED
    BY <2>2 DEF Typed
<1> QED
  BY <1>2, <1>6, <1>7 DEF Write, Typed

LEMMA FailTyped ==
  ASSUME Typed, NEW s \in Slots, Fail(s)
  PROVE  Typed'
<1>1. hand[s] # Quiet
  BY DEF Fail, Quiet
<1>2. hand' \in [Slots -> {Quiet} \cup Busy]
  BY <1>1, AnswerTyped DEF Fail
<1> QED
  BY <1>2 DEF Fail, Typed

\* Only a save goes on with the guest.
LEMMA PatchGuestTyped ==
  ASSUME Typed, NEW s \in Slots, hand[s].q.name \in Opt(Names), PatchGuest(s)
  PROVE  Typed'
<1>1. hand[s] # Quiet
  BY DEF PatchGuest, Quiet
<1>2. PICK x : x = [hand[s] EXCEPT !.pc = "saved"]
  OBVIOUS
<1>3. x \in Busy /\ hand' = [hand EXCEPT ![s] = x]
  BY <1>1, <1>2, Working DEF Busy, PatchGuest, Typed
<1>4. guest' \in [Invs -> Guest]
  <2>1. [allowed |-> FALSE, name |-> hand[s].q.name] \in Guest
    BY DEF Guest
  <2>2. \/ guest' = guest
        \/ guest' = [guest EXCEPT ![hand[s].q.inv] =
                       [allowed |-> FALSE, name |-> hand[s].q.name]]
    BY DEF PatchGuest
  <2> QED
    BY <2>1, <2>2 DEF Typed
<1>5. off' \in [Pages -> SUBSET Invs]
  BY <1>1, Working DEF PatchGuest, Unheard, Typed
<1> QED
  BY <1>3, <1>4, <1>5 DEF PatchGuest, Typed

LEMMA RsvpTyped ==
  ASSUME Typed, NEW i \in Invs, NEW name \in Opt(Names), Rsvp(i, name)
  PROVE  Typed'
<1>1. guest[i] \in Guest
  BY DEF Typed
<1>2. [guest[i] EXCEPT !.name = name] \in Guest
  BY <1>1 DEF Guest
<1>3. guest' = [guest EXCEPT ![i] = [guest[i] EXCEPT !.name = name]]
  BY DEF Rsvp, Typed
<1> QED
  BY <1>2, <1>3 DEF Rsvp, Typed

LEMMA LoadTyped ==
  ASSUME Typed, NEW p \in Pages, Load(p)
  PROVE  Typed'
<1>1. [i \in Invs |-> ItemOf(i)] \in [Invs -> {NoItem} \cup Item]
  BY ItemTyped
<1>2. PICK f : f = [i \in Invs |-> ItemOf(i)]
  OBVIOUS
<1>3. list' = [list EXCEPT ![p] = f]
  BY <1>2 DEF Load
<1> QED
  BY <1>1, <1>2, <1>3 DEF Load, Typed

\* What an answer leaves in the list.
LEMMA RevertTyped ==
  ASSUME Typed, NEW s \in Slots, hand[s] # Quiet, Revert(s)
  PROVE  list' \in [Pages -> [Invs -> {NoItem} \cup Item]]
<1>1. PICK p \in Pages, i \in Invs : p = PageOf[s] /\ i = hand[s].q.inv
  BY Working
<1>2. CASE list[p][i].shown
  <2>1. list[p][i] \in Item
    BY <1>2 DEF Typed, NoItem
  <2>2. PICK x : x = [list[p][i] EXCEPT !.sent = ~list[p][i].sent]
    OBVIOUS
  <2>3. x \in Item
    BY <2>1, <2>2 DEF Item
  <2>4. list' = list \/ list' = [list EXCEPT ![p][i] = x]
    BY <1>1, <2>2 DEF Revert, Typed
  <2> QED
    <3>1. x \in {NoItem} \cup Item
      BY <2>3
    <3>2. CASE list' = list
      BY <3>2 DEF Typed
    <3>3. CASE list' = [list EXCEPT ![p][i] = x]
      BY <3>1, <3>3 DEF Typed
    <3> QED
      BY <2>4, <3>2, <3>3
<1>3. CASE ~list[p][i].shown
  BY <1>1, <1>3 DEF Revert, Typed
<1> QED
  BY <1>2, <1>3

LEMMA ConfirmTyped ==
  ASSUME Typed, NEW s \in Slots, hand[s] # Quiet, Confirm(s)
  PROVE  list' \in [Pages -> [Invs -> {NoItem} \cup Item]]
<1>1. PICK p \in Pages, i \in Invs : p = PageOf[s] /\ i = hand[s].q.inv
  BY Working
<1>2. PICK q \in Request : q = hand[s].q
  BY Working
<1>3. hand[s].content \in Content /\ guest[i] \in Guest /\ list[p][i] \in {NoItem} \cup Item
  BY Working DEF Typed
<1>4. PICK x : x = Confirmed(s)
  OBVIOUS
<1>5. x \in {NoItem} \cup Item
  <2>1. CASE q.op = "create"
    <3>1. x = [shown |-> TRUE, content |-> hand[s].content, sent |-> FALSE,
               name |-> guest[i].name, allowed |-> guest[i].allowed]
      BY <1>1, <1>2, <1>4, <2>1 DEF Confirmed
    <3> QED
      BY <1>3, <3>1 DEF Item, Guest
  <2>2. CASE q.op = "save" /\ list[p][i].shown
    <3>1. x = [list[p][i] EXCEPT !.content = q.content, !.name = q.name]
      BY <1>1, <1>2, <1>4, <2>2 DEF Confirmed
    <3>2. list[p][i] \in Item
      BY <1>3, <2>2 DEF NoItem
    <3>3. q.content \in Content /\ q.name \in Opt(Names)
      BY <2>2, RequestFields
    <3> QED
      BY <3>1, <3>2, <3>3 DEF Item
  <2>3. CASE q.op = "delete"
    BY <1>1, <1>2, <1>4, <2>3 DEF Confirmed
  <2>4. CASE q.op \in {"save", "toggle"} /\ ~(q.op = "save" /\ list[p][i].shown)
    BY <1>1, <1>2, <1>3, <1>4, <2>4 DEF Confirmed
  <2> QED
    BY <2>1, <2>2, <2>3, <2>4, RequestFields
<1>6. list' = [list EXCEPT ![p][i] = x]
  BY <1>1, <1>4 DEF Confirm
<1> QED
  BY <1>5, <1>6 DEF Typed

LEMMA AnsweredTyped ==
  ASSUME Typed, NEW s \in Slots, Answered(s)
  PROVE  Typed'
<1>1. hand[s] # Quiet
  BY DEF Answered, Quiet
<1>2. PICK x : x = [hand[s] EXCEPT !.pc = "guest"]
  OBVIOUS
<1>3. x \in Busy
  BY <1>1, <1>2, Working DEF Busy
<1>4. hand' = [hand EXCEPT ![s] = x] \/ hand' = [hand EXCEPT ![s] = Quiet]
  BY <1>2 DEF Answered, Typed
<1>5. hand' \in [Slots -> {Quiet} \cup Busy]
  BY <1>3, <1>4 DEF Typed
<1>6. list' = list \/ Confirm(s) \/ Revert(s)
  BY DEF Answered
<1>7. list' \in [Pages -> [Invs -> {NoItem} \cup Item]]
  BY <1>1, <1>6, ConfirmTyped, RevertTyped DEF Typed
<1> QED
  BY <1>5, <1>7 DEF Answered, Typed

LEMMA SavedTyped ==
  ASSUME Typed, NEW s \in Slots, Saved(s)
  PROVE  Typed'
<1>1. hand[s] # Quiet
  BY DEF Saved, Quiet
<1>2. list' \in [Pages -> [Invs -> {NoItem} \cup Item]]
  BY <1>1, ConfirmTyped DEF Saved
<1> QED
  BY <1>2 DEF Saved, Typed

LEMMA LoseTyped ==
  ASSUME Typed, NEW s \in Slots, Lose(s)
  PROVE  Typed'
<1>1. hand[s] # Quiet
  BY DEF Lose
<1>2. PICK x : x = [hand[s] EXCEPT !.heard = FALSE]
  OBVIOUS
<1>3. x \in Busy
  BY <1>1, <1>2, Working DEF Busy
<1>4. hand' = [hand EXCEPT ![s] = x] \/ hand' = [hand EXCEPT ![s] = Quiet]
  BY <1>2 DEF Lose, Typed
<1>5. hand' \in [Slots -> {Quiet} \cup Busy]
  BY <1>3, <1>4 DEF Typed
<1>6. list' \in [Pages -> [Invs -> {NoItem} \cup Item]]
  BY <1>1, RevertTyped DEF Lose
<1>7. off' \in [Pages -> SUBSET Invs]
  BY <1>1, Working DEF Lose, Typed
<1> QED
  BY <1>5, <1>6, <1>7 DEF Lose, Typed

LEMMA UnreadTyped ==
  ASSUME Typed, NEW s \in Slots, Unread(s)
  PROVE  Typed'
  BY DEF Unread, Typed

----------------------------------------------------------------------------
(* Only a save goes on with the guest *)

Phases == \A s \in Slots : hand[s].pc \in {"guest", "saved"} => hand[s].q.op = "save"

LEMMA Quieted ==
  ASSUME Typed, Phases, NEW s \in Slots, hand' = [hand EXCEPT ![s] = Quiet]
  PROVE  Phases'
<1>1. Quiet.pc = "idle"
  BY DEF Quiet
<1>2. PICK x : x = Quiet
  OBVIOUS
<1>3. hand' = [hand EXCEPT ![s] = x] /\ x.pc = "idle"
  BY <1>1, <1>2
<1>4. \A k \in Slots : hand'[k] = IF k = s THEN x ELSE hand[k]
  BY <1>3 DEF Typed
<1> QED
  BY <1>3, <1>4 DEF Phases

LEMMA PhasesKept ==
  ASSUME Typed, Phases, ListStep
  PROVE  Phases'
<1>1. ASSUME NEW s \in Slots, NEW ok \in BOOLEAN, Answer(s, ok)
      PROVE  Phases'
  BY <1>1 DEF Answer, Phases, Typed
<1>2. ASSUME NEW s \in Slots, Check(s) \/ Write(s) \/ Fail(s)
      PROVE  Phases'
  <2>1. \/ Answer(s, TRUE) \/ Answer(s, FALSE)
        \/ \E c : hand' = [hand EXCEPT ![s].pc = "write", ![s].content = c]
    BY <1>2 DEF Check, Write, Fail
  <2>2. ASSUME NEW c, hand' = [hand EXCEPT ![s].pc = "write", ![s].content = c]
        PROVE  Phases'
    BY <2>2 DEF Phases, Typed
  <2> QED
    BY <1>1, <2>1, <2>2
<1>3. ASSUME NEW s \in Slots, PatchGuest(s)
      PROVE  Phases'
  BY <1>3 DEF PatchGuest, Phases, Typed
<1>4. ASSUME NEW s \in Slots, Answered(s)
      PROVE  Phases'
  <2>1. \/ hand[s].q.op = "save" /\ hand' = [hand EXCEPT ![s].pc = "guest"]
        \/ hand' = [hand EXCEPT ![s] = Quiet]
    BY <1>4 DEF Answered
  <2>2. CASE hand[s].q.op = "save" /\ hand' = [hand EXCEPT ![s].pc = "guest"]
    BY <2>2 DEF Phases, Typed
  <2>3. CASE hand' = [hand EXCEPT ![s] = Quiet]
    BY <2>3, Quieted
  <2> QED
    BY <2>1, <2>2, <2>3
<1>5. ASSUME NEW s \in Slots, Saved(s) \/ Unread(s) \/ Lose(s)
      PROVE  Phases'
  <2>1. \/ hand' = [hand EXCEPT ![s] = Quiet]
        \/ hand' = [hand EXCEPT ![s].heard = FALSE]
    BY <1>5 DEF Saved, Unread, Lose
  <2>2. CASE hand' = [hand EXCEPT ![s] = Quiet]
    BY <2>2, Quieted
  <2>3. CASE hand' = [hand EXCEPT ![s].heard = FALSE]
    BY <2>3 DEF Phases, Typed
  <2> QED
    BY <2>1, <2>2, <2>3
<1>6. ASSUME NEW s \in Slots, NEW q, NEW item, Start(s, q, item)
      PROVE  Phases'
  BY <1>6 DEF Start, Phases, Typed
<1>7. ASSUME NEW s \in Slots, NEW i \in Invs,
             \/ Create(s, i) \/ Toggle(s, i) \/ Delete(s, i)
             \/ \E content \in Drafts, name \in Opt(Names) : Save(s, i, content, name)
      PROVE  Phases'
  BY <1>6, <1>7 DEF Create, Toggle, Delete, Save
<1>8. ASSUME NEW i \in Invs, NEW name \in Opt(Names), Rsvp(i, name)
      PROVE  Phases'
  BY <1>8 DEF Rsvp, Phases
<1>9. ASSUME NEW p \in Pages, Load(p)
      PROVE  Phases'
  BY <1>9 DEF Load, Phases
<1> QED
  BY <1>2, <1>3, <1>4, <1>5, <1>7, <1>8, <1>9 DEF ListStep

----------------------------------------------------------------------------
(* The invariant of the whole *)

TextsInv == PubInv /\ Typed /\ Phases /\ count \in Nat

LEMMA ListTyped ==
  ASSUME TextsInv, ListStep
  PROVE  Typed'
<1>1. ASSUME NEW s \in Slots, PatchGuest(s)
      PROVE  hand[s].q.name \in Opt(Names)
  BY <1>1, Working, RequestFields DEF PatchGuest, Quiet, TextsInv, Phases
<1> QED
  BY <1>1, CheckTyped, WriteTyped, FailTyped, PatchGuestTyped, AnsweredTyped, SavedTyped,
     LoseTyped, UnreadTyped, AskTyped, RsvpTyped, LoadTyped DEF ListStep, TextsInv

\* No step of an editor touches the lists and what they work on.
LEMMA EditorsApart ==
  ASSUME EditorStep
  PROVE  UNCHANGED ListSide
  BY DEF EditorStep, Publish, UpdateBank, ReadLatest, Commit, Abort, PatchBank, ListSide

LEMMA Counting ==
  ASSUME count \in Nat, Next
  PROVE  count' \in Nat
<1>1. UNCHANGED count \/ count' = count + 1
  <2>1. CASE EditorStep
    BY <2>1 DEF EditorStep, Publish, UpdateBank, ReadLatest, Commit, Abort, PatchBank,
       Counted
  <2>2. CASE ListStep
    <3>1. ASSUME NEW s \in Slots,
                 \/ Check(s) \/ Write(s) \/ Fail(s) \/ PatchGuest(s)
                 \/ Answered(s) \/ Saved(s) \/ Lose(s) \/ Unread(s)
          PROVE  UNCHANGED count
      BY <3>1 DEF Check, Write, Fail, PatchGuest, Answered, Saved, Lose, Unread
    <3>2. ASSUME NEW s \in Slots, NEW q, NEW item, Start(s, q, item)
          PROVE  count' = count + 1
      BY <3>2 DEF Start, Counted
    <3>3. ASSUME NEW s \in Slots, NEW i \in Invs,
                 \/ Create(s, i) \/ Toggle(s, i) \/ Delete(s, i)
                 \/ \E content \in Drafts, name \in Opt(Names) : Save(s, i, content, name)
          PROVE  count' = count + 1
      BY <3>2, <3>3 DEF Create, Toggle, Delete, Save
    <3> QED
      BY <2>2, <3>1, <3>3 DEF ListStep, Rsvp, Load, Counted
  <2> QED
    BY <2>1, <2>2 DEF Next
<1> QED
  BY <1>1

LEMMA TextsKept == TextsInv /\ [Next]_vars => TextsInv'
<1> SUFFICES ASSUME TextsInv, [Next]_vars PROVE TextsInv'
  OBVIOUS
<1>1. PubInv'
  BY PubKept DEF TextsInv
<1>2. CASE UNCHANGED vars
  <2>1. Typed' /\ Phases' /\ count' \in Nat
    BY <1>2 DEF vars, TextsInv, Typed, Phases
  <2> QED
    BY <1>1, <2>1 DEF TextsInv
<1>3. CASE EditorStep
  <2>1. Typed' /\ Phases'
    BY <1>3, EditorsApart DEF ListSide, TextsInv, Typed, Phases
  <2> QED
    BY <1>1, <1>3, <2>1, Counting DEF TextsInv, Next
<1>4. CASE ListStep
  <2>1. Typed' /\ Phases'
    BY <1>4, ListTyped, PhasesKept DEF TextsInv
  <2> QED
    BY <1>1, <1>4, <2>1, Counting DEF TextsInv, Next
<1> QED
  BY <1>2, <1>3, <1>4 DEF Next

LEMMA TextsStart == Init => TextsInv
<1> SUFFICES ASSUME Init PROVE TextsInv
  OBVIOUS
<1>1. PubInv
  BY PubStarts
<1>2. invs \in [Invs -> Invitation]
  <2>1. Newborn \in Invitation /\ [Newborn EXCEPT !.state = "live"] \in Invitation
    BY DEF Newborn, Invitation, States, Blank, Content, Opt
  <2> QED
    BY <2>1 DEF Init
<1>3. guest \in [Invs -> Guest]
  BY DEF Init, Guest, Opt
<1>4. \A i \in Invs : ItemOf(i) \in {NoItem} \cup Item
  BY <1>2, <1>3 DEF ItemOf, Item, Invitation, Guest
<1>5. list \in [Pages -> [Invs -> {NoItem} \cup Item]]
  BY <1>4 DEF Init
<1>6. hand \in [Slots -> {Quiet} \cup Busy] /\ off \in [Pages -> SUBSET Invs] /\ count \in Nat
      /\ Phases
  BY DEF Init, Phases, Quiet
<1> QED
  BY <1>1, <1>2, <1>3, <1>5, <1>6 DEF TextsInv, Typed

LEMMA TextsAlways == Spec => []TextsInv
  BY TextsStart, TextsKept, PTL DEF Spec

\* Type correctness, for any number of editors, pages and invitations.
THEOREM TextsTypeCorrect == Spec => []TypeOK
<1>1. TextsInv => TypeOK
  BY DEF TextsInv, PubInv, Rows, Editing, Typed, TypeOK
<1> QED
  BY <1>1, TextsAlways, PTL

----------------------------------------------------------------------------
(* The mark *)

\* Nothing but the write of a request changes an invitation.
LEMMA OnlyWrites ==
  ASSUME [Next]_vars, invs' # invs
  PROVE  \E s \in Slots : Write(s)
<1>1. ~UNCHANGED vars
  BY DEF vars
<1>2. ~EditorStep
  BY EditorsApart DEF ListSide
<1>3. ASSUME NEW s \in Slots,
             \/ Check(s) \/ Fail(s) \/ PatchGuest(s)
             \/ Answered(s) \/ Saved(s) \/ Lose(s) \/ Unread(s)
      PROVE  FALSE
  BY <1>3 DEF Check, Fail, PatchGuest, Answered, Saved, Lose, Unread
<1>4. ASSUME NEW s \in Slots, NEW q, NEW item, Start(s, q, item)
      PROVE  FALSE
  BY <1>4 DEF Start
<1>5. ASSUME NEW s \in Slots, NEW i \in Invs,
             \/ Create(s, i) \/ Toggle(s, i) \/ Delete(s, i)
             \/ \E content \in Drafts, name \in Opt(Names) : Save(s, i, content, name)
      PROVE  FALSE
  BY <1>4, <1>5 DEF Create, Toggle, Delete, Save
<1>6. ASSUME NEW i \in Invs, NEW name \in Opt(Names), Rsvp(i, name)
      PROVE  FALSE
  BY <1>6 DEF Rsvp
<1>7. ASSUME NEW p \in Pages, Load(p)
      PROVE  FALSE
  BY <1>7 DEF Load
<1> QED
  BY <1>1, <1>2, <1>3, <1>5, <1>6, <1>7 DEF Next, ListStep

Creating(s) == hand[s].pc \in {"check", "write"} /\ hand[s].q.op = "create"

Born(i) == invs[i].state # "new"

\* The id of a creation under way is new, and nobody else's.
CreatesNew ==
  \A s \in Slots : Creating(s) =>
    /\ ~Born(hand[s].q.inv)
    /\ \A k \in Slots \ {s} : hand[k] # Quiet => hand[k].q.inv # hand[s].q.inv

\* Whatever else anybody knows of has been created.
KnowsBorn ==
  /\ \A p \in Pages, i \in Invs : list[p][i].shown => Born(i)
  /\ \A s \in Slots : hand[s] # Quiet /\ ~Creating(s) /\ (hand[s].ok \/ hand[s].q.op # "create")
       => Born(hand[s].q.inv)

Ids == CreatesNew /\ KnowsBorn

LEMMA StaysBorn ==
  ASSUME TextsInv, [Next]_vars
  PROVE  \A i \in Invs : Born(i) => Born(i)'
<1>1. CASE invs' = invs
  BY <1>1 DEF Born
<1>2. ASSUME NEW s \in Slots, Write(s)
      PROVE  \A i \in Invs : Born(i) => Born(i)'
  <2>1. hand[s] # Quiet
    BY <1>2 DEF Write, Quiet
  <2>2. PICK j \in Invs : j = hand[s].q.inv
    BY <2>1, Working DEF TextsInv
  <2>3. PICK w : w = Written(s)
    OBVIOUS
  <2>4. Born(j) => w.state # "new"
    BY <2>2, <2>3 DEF Written, Updated, Born, TextsInv, Typed, Invitation
  <2>5. invs' = invs \/ invs' = [invs EXCEPT ![j] = w]
    BY <1>2, <2>2, <2>3 DEF Write
  <2> QED
    BY <2>4, <2>5 DEF Born, TextsInv, Typed
<1> QED
  BY <1>1, <1>2, OnlyWrites

\* A step of a function in flight: it ends, or goes on with the same request; it creates
\* no more once it is answered, and only its own write answers that it did.
Moves(k) ==
  \/ hand'[k] = Quiet
  \/ /\ hand[k] # Quiet /\ hand'[k].q = hand[k].q
     /\ Creating(k)' => Creating(k) /\ ~Write(k)
     /\ ~Creating(k)' /\ hand'[k].ok => Write(k) \/ (~Creating(k) /\ hand[k].ok)

Handling(s) == Check(s) \/ Write(s) \/ Fail(s) \/ PatchGuest(s)
Answering(s) == Answered(s) \/ Saved(s) \/ Lose(s) \/ Unread(s)

LEMMA HandlingMoves ==
  ASSUME TextsInv, NEW s \in Slots, Handling(s)
  PROVE  \A k \in Slots : hand'[k] = hand[k] \/ Moves(k)
<1>1. hand[s] # Quiet /\ hand[s] \in Busy
  <2>1. hand[s].pc \in {"check", "write", "guest"}
    BY DEF Handling, Check, Write, Fail, PatchGuest
  <2>2. hand[s] # Quiet
    BY <2>1 DEF Quiet
  <2> QED
    BY <2>2, Working DEF TextsInv
<1>2. \A k \in Slots \ {s} : hand'[k] = hand[k]
  BY DEF Handling, Check, Write, Fail, PatchGuest, Answer, TextsInv, Typed
<1>3. CASE Check(s)
  <2>1. \/ hand'[s].pc = "write" /\ hand'[s].ok = hand[s].ok
        \/ hand'[s].pc = "answer" /\ hand'[s].ok = FALSE
    BY <1>1, <1>3 DEF Check, Answer, TextsInv, Typed, Busy
  <2>2. hand'[s].q = hand[s].q /\ ~Write(s)
    BY <1>1, <1>3 DEF Check, Write, Answer, TextsInv, Typed, Busy
  <2>3. hand[s].pc = "check" /\ (hand'[s].pc = "answer" => hand[s].q.op # "create")
    BY <1>1, <1>3 DEF Check, Answer, TextsInv, Typed, Busy
  <2> QED
    BY <1>1, <1>2, <2>1, <2>2, <2>3 DEF Moves, Creating
<1>4. CASE Write(s)
  <2>1. hand'[s].pc = "answer" /\ hand'[s].q = hand[s].q
    BY <1>1, <1>4 DEF Write, Answer, TextsInv, Typed, Busy
  <2>2. ~Creating(s)'
    BY <2>1 DEF Creating
  <2>3. Moves(s)
    BY <1>1, <1>4, <2>1, <2>2 DEF Moves
  <2> QED
    BY <1>2, <2>3
<1>5. CASE Fail(s)
  <2>1. hand'[s].pc = "answer" /\ hand'[s].q = hand[s].q /\ hand'[s].ok = FALSE
    BY <1>1, <1>5 DEF Fail, Answer, TextsInv, Typed, Busy
  <2> QED
    BY <1>1, <1>2, <2>1 DEF Moves, Creating
<1>6. CASE PatchGuest(s)
  <2>1. hand[s].pc = "guest" /\ hand'[s].pc = "saved" /\ hand'[s].q = hand[s].q
        /\ hand'[s].ok = hand[s].ok
    BY <1>1, <1>6 DEF PatchGuest, TextsInv, Typed, Busy
  <2> QED
    BY <1>1, <1>2, <2>1 DEF Moves, Creating
<1> QED
  BY <1>3, <1>4, <1>5, <1>6 DEF Handling

LEMMA AnsweringMoves ==
  ASSUME TextsInv, NEW s \in Slots, Answering(s)
  PROVE  \A k \in Slots : hand'[k] = hand[k] \/ Moves(k)
<1>1. hand[s] # Quiet /\ hand[s] \in Busy
  BY Working DEF Answering, Answered, Saved, Lose, Unread, Quiet, TextsInv
<1>2. \/ hand' = [hand EXCEPT ![s] = Quiet]
      \/ (hand' = [hand EXCEPT ![s].heard = FALSE] /\ Lose(s))
      \/ (hand' = [hand EXCEPT ![s].pc = "guest"] /\ hand[s].pc = "answer")
  BY DEF Answering, Answered, Saved, Lose, Unread
<1>3. CASE hand' = [hand EXCEPT ![s] = Quiet]
  BY <1>3 DEF Moves, TextsInv, Typed
<1>4. CASE hand' = [hand EXCEPT ![s].heard = FALSE] /\ Lose(s)
  <2>1. hand'[s].pc = hand[s].pc /\ hand'[s].q = hand[s].q /\ hand'[s].ok = hand[s].ok
        /\ hand'[s].heard = FALSE /\ hand[s].heard
    BY <1>1, <1>4 DEF Lose, TextsInv, Typed, Busy
  <2>2. ~Write(s)
    <3>1. Write(s) => hand'[s].pc = "answer" /\ hand[s].pc = "write"
      BY <1>1 DEF Write, Answer, TextsInv, Typed, Busy
    <3> QED
      BY <2>1, <3>1
  <2> QED
    BY <1>1, <1>4, <2>1, <2>2 DEF Moves, Creating, TextsInv, Typed
<1>5. CASE hand' = [hand EXCEPT ![s].pc = "guest"] /\ hand[s].pc = "answer"
  <2>1. hand'[s].pc = "guest" /\ hand'[s].q = hand[s].q /\ hand'[s].ok = hand[s].ok
    BY <1>1, <1>5 DEF TextsInv, Typed, Busy
  <2> QED
    BY <1>1, <1>5, <2>1 DEF Moves, Creating, TextsInv, Typed
<1> QED
  BY <1>2, <1>3, <1>4, <1>5

\* A successful creation is in the table.
LEMMA WriteCreates ==
  ASSUME TextsInv, NEW s \in Slots, Write(s), hand'[s].ok
  PROVE  Born(hand[s].q.inv)'
<1>1. hand[s] # Quiet /\ hand[s] \in Busy
  BY Working DEF Write, Quiet, TextsInv
<1>2. PICK i \in Invs : i = hand[s].q.inv
  BY <1>1, Working DEF TextsInv
<1>3. Answer(s, FALSE) => ~hand'[s].ok
  BY <1>1 DEF Answer, TextsInv, Typed, Busy
<1>4. PICK w : w = Written(s)
  OBVIOUS
<1>5. invs' = [invs EXCEPT ![i] = w] /\ (hand[s].q.op = "create" \/ Live(i))
  BY <1>2, <1>3, <1>4 DEF Write
<1>6. w.state # "new"
  BY <1>2, <1>4, <1>5 DEF Written, Updated, Live, TextsInv, Typed, Invitation
<1>7. invs'[i] = w
  BY <1>5 DEF TextsInv, Typed
<1>8. hand'[s].q = hand[s].q
  BY <1>1 DEF Write, Answer, TextsInv, Typed, Busy
<1> QED
  BY <1>2, <1>6, <1>7, <1>8 DEF Born

\* Ids are kept by every step of functions in flight.
LEMMA IdsOfMoves ==
  ASSUME TextsInv, Ids, [Next]_vars,
         \A k \in Slots : hand'[k] = hand[k] \/ Moves(k),
         \A k \in Slots : Write(k) => hand'[k] # hand[k],
         \A p \in Pages, i \in Invs : list'[p][i].shown => Born(i)'
  PROVE  Ids'
<1>1. \A s \in Slots : Creating(s)' => Creating(s) /\ ~Write(s) /\ hand'[s].q = hand[s].q
  BY DEF Moves, Creating, Quiet
<1>2. \A k \in Slots : hand'[k] # Quiet => hand[k] # Quiet /\ hand'[k].q = hand[k].q
  BY DEF Moves
<1>3. ASSUME NEW s \in Slots, Creating(s)'
      PROVE  ~Born(hand[s].q.inv)'
  <2>1. Creating(s) /\ ~Write(s) /\ hand'[s].q = hand[s].q
    BY <1>1, <1>3
  <2>2. hand[s] # Quiet
    BY <2>1 DEF Creating, Quiet
  <2>3. PICK i \in Invs : i = hand[s].q.inv
    BY <2>2, Working DEF TextsInv
  <2>4. ~Born(i)
    BY <2>1, <2>3 DEF Ids, CreatesNew
  <2>5. ASSUME NEW k \in Slots \ {s}, Write(k)
        PROVE  invs'[i] = invs[i]
    <3>1. hand[k] # Quiet
      BY <2>5 DEF Write, Quiet
    <3>2. PICK j \in Invs : j = hand[k].q.inv
      BY <3>1, Working DEF TextsInv
    <3>3. j # i
      BY <2>1, <2>3, <3>1, <3>2 DEF Ids, CreatesNew
    <3>4. PICK w : w = Written(k)
      OBVIOUS
    <3>5. invs' = invs \/ invs' = [invs EXCEPT ![j] = w]
      BY <2>5, <3>2, <3>4 DEF Write
    <3> QED
      BY <3>3, <3>5 DEF TextsInv, Typed
  <2>6. invs'[i] = invs[i]
    BY <2>1, <2>5, OnlyWrites
  <2> QED
    BY <2>1, <2>3, <2>4, <2>6 DEF Born
<1>4. CreatesNew'
  BY <1>1, <1>2, <1>3 DEF CreatesNew, Ids
<1>5. ASSUME NEW s \in Slots, hand'[s] # Quiet, ~Creating(s)',
             hand'[s].ok \/ hand'[s].q.op # "create"
      PROVE  Born(hand[s].q.inv)' /\ hand'[s].q = hand[s].q
  <2>1. hand[s] # Quiet /\ hand'[s].q = hand[s].q
    BY <1>2, <1>5
  <2>2. hand[s].q.inv \in Invs
    BY <2>1, Working DEF TextsInv
  <2>3. CASE hand[s].q.op # "create"
    <3>1. Born(hand[s].q.inv)
      BY <2>1, <2>3 DEF Ids, KnowsBorn, Creating
    <3>2. PICK i \in Invs : i = hand[s].q.inv
      BY <2>2
    <3> QED
      BY <2>1, <3>1, <3>2, StaysBorn DEF Born
  <2>4. CASE hand[s].q.op = "create"
    <3>1. hand'[s].ok
      BY <1>5, <2>1, <2>4
    <3>2. CASE Write(s)
      BY <2>1, <3>1, <3>2, WriteCreates
    <3>3. CASE ~Write(s)
      <4>1. ~Creating(s) /\ hand[s].ok
        BY <1>5, <3>1, <3>3 DEF Moves, Creating
      <4>2. Born(hand[s].q.inv)
        BY <2>1, <4>1 DEF Ids, KnowsBorn
      <4>3. PICK i \in Invs : i = hand[s].q.inv
        BY <2>2
      <4> QED
        BY <2>1, <4>2, <4>3, StaysBorn DEF Born
    <3> QED
      BY <3>2, <3>3
  <2> QED
    BY <2>3, <2>4
<1>6. KnowsBorn'
  BY <1>5 DEF KnowsBorn, Born
<1> QED
  BY <1>4, <1>6 DEF Ids

\* What a page shows has been created.
LEMMA ListBorn ==
  ASSUME TextsInv, Ids, [Next]_vars, NEW s \in Slots, Handling(s) \/ Answering(s)
  PROVE  \A p \in Pages, i \in Invs : list'[p][i].shown => Born(i)'
<1>1. ASSUME \A p \in Pages, i \in Invs : list'[p][i].shown => list[p][i].shown
      PROVE  \A p \in Pages, i \in Invs : list'[p][i].shown => Born(i)'
  BY <1>1, StaysBorn DEF Ids, KnowsBorn
<1>2. CASE UNCHANGED list
  BY <1>1, <1>2
<1>3. ASSUME hand[s] # Quiet, Revert(s)
      PROVE  \A p \in Pages, i \in Invs : list'[p][i].shown => list[p][i].shown
  <2>1. PICK p \in Pages, i \in Invs : p = PageOf[s] /\ i = hand[s].q.inv
    BY <1>3, Working DEF TextsInv
  <2>2. CASE UNCHANGED list
    BY <2>2
  <2>3. CASE ~UNCHANGED list
    <3>1. list[p][i].shown /\ list' = [list EXCEPT ![p][i].sent = ~list[p][i].sent]
      BY <1>3, <2>1, <2>3 DEF Revert
    <3>2. \A x \in Pages, y \in Invs : (x # p \/ y # i) => list'[x][y] = list[x][y]
      BY <3>1 DEF TextsInv, Typed
    <3> QED
      BY <3>1, <3>2
  <2> QED
    BY <2>2, <2>3
<1>4. ASSUME hand[s] # Quiet, ~Creating(s), hand[s].ok \/ hand[s].q.op # "create", Confirm(s)
      PROVE  \A p \in Pages, i \in Invs : list'[p][i].shown => Born(i)'
  <2>1. PICK p \in Pages, i \in Invs : p = PageOf[s] /\ i = hand[s].q.inv
    BY <1>4, Working DEF TextsInv
  <2>2. Born(i)'
    BY <1>4, <2>1, StaysBorn DEF Ids, KnowsBorn
  <2>3. \A x \in Pages, y \in Invs : (x # p \/ y # i) => list'[x][y] = list[x][y]
    BY <1>4, <2>1 DEF Confirm, TextsInv, Typed
  <2> QED
    BY <2>1, <2>2, <2>3, StaysBorn DEF Ids, KnowsBorn
<1>5. CASE Handling(s)
  BY <1>2, <1>5 DEF Handling, Check, Write, Fail, PatchGuest
<1>6. CASE Answered(s)
  <2>1. hand[s] # Quiet /\ hand[s].pc = "answer"
    BY <1>6 DEF Answered, Quiet
  <2>2. UNCHANGED list \/ Revert(s) \/ (Confirm(s) /\ hand[s].ok)
    BY <1>6 DEF Answered
  <2> QED
    BY <1>1, <1>2, <1>3, <1>4, <2>1, <2>2 DEF Creating
<1>7. CASE Saved(s)
  <2>1. hand[s] # Quiet /\ hand[s].pc = "saved" /\ hand[s].q.op = "save"
    BY <1>7 DEF Saved, Quiet, TextsInv, Phases
  <2> QED
    BY <1>4, <1>7, <2>1 DEF Saved, Creating
<1>8. CASE Lose(s)
  BY <1>1, <1>3, <1>8 DEF Lose
<1>9. CASE Unread(s)
  BY <1>2, <1>9 DEF Unread
<1> QED
  BY <1>5, <1>6, <1>7, <1>8, <1>9 DEF Answering

\* A function that starts: a creation under a new id, anything else on what is shown.
LEMMA IdsOfStart ==
  ASSUME TextsInv, Ids, [Next]_vars, NEW s \in Slots, NEW q \in Request, NEW item,
         Start(s, q, item),
         \/ /\ q.op = "create" /\ ~Born(q.inv) /\ ~item.shown
            /\ \A k \in Slots : hand[k] # Quiet => hand[k].q.inv # q.inv
         \/ q.op # "create" /\ list[PageOf[s]][q.inv].shown
  PROVE  Ids'
<1>1. PageOf[s] \in Pages /\ q.inv \in Invs
  BY TextsAssumption DEF Request
<1>2. PICK x : x = [pc |-> "check", q |-> q, content |-> Blank, ok |-> FALSE, heard |-> TRUE]
  OBVIOUS
<1>3. hand' = [hand EXCEPT ![s] = x] /\ hand[s] = Quiet /\ UNCHANGED invs
  BY <1>2 DEF Start
<1>4. x.pc = "check" /\ x.q = q /\ x.ok = FALSE /\ x # Quiet
  BY <1>2 DEF Quiet
<1>5. \A k \in Slots : hand'[k] = IF k = s THEN x ELSE hand[k]
  BY <1>3 DEF TextsInv, Typed
<1>6. \A i \in Invs : Born(i)' = Born(i)
  BY <1>3 DEF Born
<1>7. Quiet.pc \notin {"check", "write"}
  BY DEF Quiet
<1>8. ~Creating(s)
  BY <1>3, <1>7 DEF Creating
<1>9. q.op # "create" => Born(q.inv)
  BY <1>1 DEF Ids, KnowsBorn
<1>10. \A k \in Slots : hand[k] # Quiet => hand[k].q.inv \in Invs
  BY Working DEF TextsInv
<1>11. \A k \in Slots \ {s} : (Creating(k)' <=> Creating(k)) /\ (Creating(k) => hand[k] # Quiet)
  BY <1>5, <1>7 DEF Creating
<1>12. Creating(s)' <=> q.op = "create"
  BY <1>4, <1>5 DEF Creating
<1>13. CreatesNew'
  <2>1. ASSUME NEW k \in Slots \ {s}, Creating(k)'
        PROVE  /\ invs'[hand'[k].q.inv].state = "new"
               /\ \A j \in Slots \ {k} : hand'[j] # Quiet => hand'[j].q.inv # hand'[k].q.inv
    <3>1. Creating(k) /\ hand'[k] = hand[k] /\ hand[k] # Quiet
      BY <1>5, <1>11, <2>1
    <3>2. ~Born(hand[k].q.inv) /\ hand[k].q.inv \in Invs
      BY <1>10, <3>1 DEF Ids, CreatesNew
    <3>3. q.inv # hand[k].q.inv
      BY <1>9, <3>1, <3>2
    <3>4. \A j \in Slots \ {k} : hand[j] # Quiet => hand[j].q.inv # hand[k].q.inv
      BY <3>1 DEF Ids, CreatesNew
    <3>5. \A j \in Slots \ {k} : hand'[j] # Quiet => hand'[j].q.inv # hand'[k].q.inv
      BY <1>4, <1>5, <3>1, <3>3, <3>4
    <3> QED
      BY <1>3, <3>1, <3>2, <3>5 DEF Born
  <2>2. ASSUME q.op = "create"
        PROVE  /\ invs'[q.inv].state = "new"
               /\ \A j \in Slots \ {s} : hand'[j] # Quiet => hand'[j].q.inv # q.inv
    BY <1>3, <1>5, <2>2 DEF Born
  <2> QED
    BY <1>4, <1>5, <1>12, <2>1, <2>2 DEF CreatesNew, Born
<1>14. KnowsBorn'
  <2>1. \A p \in Pages, i \in Invs : list'[p][i].shown => Born(i)
    <3>1. \A p \in Pages, i \in Invs :
            list'[p][i] = IF p = PageOf[s] /\ i = q.inv THEN item ELSE list[p][i]
      BY <1>1 DEF Start, TextsInv, Typed
    <3> QED
      BY <1>9, <3>1 DEF Ids, KnowsBorn
  <2>2. \A k \in Slots : hand'[k] # Quiet /\ ~Creating(k)'
            /\ (hand'[k].ok \/ hand'[k].q.op # "create") => Born(hand'[k].q.inv)
    BY <1>4, <1>5, <1>9, <1>11, <1>12 DEF Ids, KnowsBorn
  <2> QED
    BY <1>3, <2>1, <2>2 DEF KnowsBorn, Born
<1> QED
  BY <1>13, <1>14 DEF Ids

\* A write is noticed: its function goes on to the answer.
LEMMA WritesMove ==
  ASSUME TextsInv, NEW s \in Slots, Write(s)
  PROVE  hand'[s] # hand[s]
<1>1. hand[s] # Quiet /\ hand[s] \in Busy /\ hand[s].pc = "write"
  BY Working DEF Write, Quiet, TextsInv
<1>2. hand'[s].pc = "answer"
  BY <1>1 DEF Write, Answer, TextsInv, Typed, Busy
<1> QED
  BY <1>1, <1>2

LEMMA IdsKept ==
  ASSUME TextsInv, Ids, [Next]_vars
  PROVE  Ids'
<1>1. ASSUME UNCHANGED ListSide
      PROVE  Ids'
  BY <1>1 DEF ListSide, Ids, CreatesNew, KnowsBorn, Creating, Born
<1>2. ASSUME NEW s \in Slots, Handling(s) \/ Answering(s)
      PROVE  Ids'
  BY <1>2, HandlingMoves, AnsweringMoves, WritesMove, ListBorn, IdsOfMoves
<1>3. ASSUME NEW s \in Slots, NEW i \in Invs,
             \/ Create(s, i) \/ Toggle(s, i) \/ Delete(s, i)
             \/ \E content \in Drafts, name \in Opt(Names) : Save(s, i, content, name)
      PROVE  Ids'
  <2>1. PICK item : item = list[PageOf[s]][i]
    OBVIOUS
  <2>2. item \in {NoItem} \cup Item
    BY <2>1, TextsAssumption DEF TextsInv, Typed
  <2>3. item.shown => item \in Item
    BY <2>2 DEF NoItem
  <2>4. CASE Create(s, i)
    <3>1. PICK q : q = [op |-> "create", inv |-> i]
      OBVIOUS
    <3>2. q \in Request /\ q.op = "create" /\ q.inv = i
      BY <3>1 DEF Request
    <3>3. ~NoItem.shown
      BY DEF NoItem
    <3>4. Start(s, q, NoItem) /\ ~Born(i)
          /\ \A k \in Slots : hand[k] # Quiet => hand[k].q.inv # i
      BY <2>4, <3>1 DEF Create, Born
    <3> QED
      BY <3>2, <3>3, <3>4, IdsOfStart
  <2>5. CASE Toggle(s, i)
    <3>1. PICK q : q = [op |-> "toggle", inv |-> i, sent |-> ~item.sent]
      OBVIOUS
    <3>2. item.shown /\ Start(s, q, [item EXCEPT !.sent = ~item.sent])
      BY <2>1, <2>5, <3>1 DEF Toggle
    <3>3. q \in Request /\ q.op # "create" /\ q.inv = i
      BY <2>3, <3>1, <3>2 DEF Request, Item
    <3> QED
      BY <2>1, <3>2, <3>3, IdsOfStart
  <2>6. CASE Delete(s, i)
    <3>1. PICK q : q = [op |-> "delete", inv |-> i]
      OBVIOUS
    <3>2. item.shown /\ Start(s, q, item)
      BY <2>1, <2>6, <3>1 DEF Delete
    <3>3. q \in Request /\ q.op # "create" /\ q.inv = i
      BY <3>1 DEF Request
    <3> QED
      BY <2>1, <3>2, <3>3, IdsOfStart
  <2>7. ASSUME NEW content \in Drafts, NEW name \in Opt(Names), Save(s, i, content, name)
        PROVE  Ids'
    <3>1. PICK q : q = [op |-> "save", inv |-> i, content |-> content, name |-> name,
                        allowed |-> item.allowed]
      OBVIOUS
    <3>2. item.shown /\ Start(s, q, item)
      BY <2>1, <2>7, <3>1 DEF Save
    <3>3. content \in Content /\ item.allowed \in BOOLEAN
      BY <2>3, <3>2, TextsAssumption DEF Item
    <3>4. q \in Request /\ q.op # "create" /\ q.inv = i
      BY <3>1, <3>3 DEF Request
    <3> QED
      BY <2>1, <3>2, <3>4, IdsOfStart
  <2> QED
    BY <1>3, <2>4, <2>5, <2>6, <2>7
<1>4. ASSUME NEW i \in Invs, NEW name \in Opt(Names), Rsvp(i, name)
      PROVE  Ids'
  BY <1>4 DEF Rsvp, Ids, CreatesNew, KnowsBorn, Creating, Born
<1>5. ASSUME NEW p \in Pages, Load(p)
      PROVE  Ids'
  <2>1. \A i \in Invs : ItemOf(i).shown => Born(i)
    BY DEF ItemOf, NoItem, Live, Born
  <2>2. UNCHANGED <<invs, hand>>
    BY <1>5 DEF Load
  <2>3. \A x \in Pages, i \in Invs : list'[x][i] = IF x = p THEN ItemOf(i) ELSE list[x][i]
    BY <1>5 DEF Load, TextsInv, Typed
  <2>4. CreatesNew'
    BY <2>2 DEF Ids, CreatesNew, Creating, Born
  <2>5. \A x \in Pages, i \in Invs : list'[x][i].shown => Born(i)
    BY <2>1, <2>3 DEF Ids, KnowsBorn
  <2>6. KnowsBorn'
    BY <2>2, <2>5 DEF Ids, KnowsBorn, Creating, Born
  <2> QED
    BY <2>4, <2>6 DEF Ids
<1>6. CASE ListStep
  BY <1>2, <1>3, <1>4, <1>5, <1>6 DEF ListStep, Handling, Answering
<1>7. CASE EditorStep
  BY <1>1, <1>7, EditorsApart
<1>8. CASE UNCHANGED vars
  BY <1>1, <1>8 DEF vars, ListSide
<1> QED
  BY <1>6, <1>7, <1>8 DEF Next

LEMMA IdsStart == Init => Ids
<1> SUFFICES ASSUME Init PROVE Ids
  OBVIOUS
<1>1. CreatesNew
  BY DEF Init, CreatesNew, Creating, Quiet
<1>2. \A i \in Invs : ItemOf(i).shown => Born(i)
  BY DEF ItemOf, NoItem, Live, Born
<1>3. KnowsBorn
  BY <1>2 DEF Init, KnowsBorn
<1> QED
  BY <1>1, <1>3 DEF Ids

MarkStep ==
  \A i \in Invs : Live(i) /\ invs'[i].sent # invs[i].sent
    => \E s \in Slots : hand[s].pc = "write" /\ hand[s].q.op = "toggle"
                        /\ hand[s].q.inv = i /\ hand[s].q.sent = invs'[i].sent

LEMMA Marking == TextsInv /\ Ids /\ [Next]_vars => MarkStep
<1> SUFFICES ASSUME TextsInv, Ids, [Next]_vars, NEW i \in Invs, Live(i),
                    invs'[i].sent # invs[i].sent
             PROVE  \E s \in Slots : hand[s].pc = "write" /\ hand[s].q.op = "toggle"
                              /\ hand[s].q.inv = i /\ hand[s].q.sent = invs'[i].sent
  BY DEF MarkStep
<1>1. PICK s \in Slots : Write(s)
  BY OnlyWrites
<1>2. hand[s] # Quiet /\ hand[s].pc = "write"
  BY <1>1 DEF Write, Quiet
<1>3. PICK j \in Invs : j = hand[s].q.inv
  BY <1>2, Working DEF TextsInv
<1>4. PICK w : w = Written(s)
  OBVIOUS
<1>5. invs' = [invs EXCEPT ![j] = w]
  BY <1>1, <1>3, <1>4 DEF Write
<1>6. j = i /\ invs'[i] = w
  BY <1>5 DEF TextsInv, Typed
<1>7. hand[s].q.op # "create"
  BY <1>2, <1>3, <1>6 DEF Ids, CreatesNew, Creating, Live, Born
<1>8. invs[i] \in Invitation /\ w.sent # invs[i].sent
  BY <1>6 DEF TextsInv, Typed
<1>9. hand[s].q.op # "delete"
  BY <1>3, <1>4, <1>6, <1>8 DEF Written, Invitation
<1>10. w = Updated(s)
  BY <1>4, <1>7, <1>9 DEF Written
<1>11. hand[s].q.op = "toggle" /\ w.sent = hand[s].q.sent
  BY <1>3, <1>6, <1>8, <1>10 DEF Updated, Invitation
<1> QED
  BY <1>2, <1>3, <1>6, <1>11

\* Whatever pages and requests overlap, an invitation's mark changes by a toggle only.
THEOREM MarkedByTogglesOnly == Spec => MarkedByToggle
<1>1. TextsInv /\ Ids /\ [Next]_vars => TextsInv' /\ Ids'
  BY TextsKept, IdsKept
<1>2. Init => TextsInv /\ Ids
  BY TextsStart, IdsStart
<1>3. TextsInv /\ Ids /\ [Next]_vars => [MarkStep]_vars
  BY Marking
<1>4. Spec => [][MarkStep]_vars
  BY <1>1, <1>2, <1>3, PTL DEF Spec
<1> QED
  BY <1>4 DEF MarkedByToggle, MarkStep

----------------------------------------------------------------------------
(* What the lists show                                                     *)
(*                                                                         *)
(* A list is followed through the life of the one function that works on   *)
(* an invitation: until the write the item is true (a toggled mark turned  *)
(* back), from then on what the answer will make of the item is true.      *)

Truth(item, i) ==
  /\ item.shown <=> Live(i)
  /\ Live(i) => /\ item.content = invs[i].content
                /\ item.sent = invs[i].sent
                /\ item.name = guest[i].name

Undone(h) == h.pc \in {"check", "write"} \/ (h.pc = "answer" /\ ~h.ok)

Before(h, item) == IF h.q.op = "toggle" THEN [item EXCEPT !.sent = ~item.sent] ELSE item

Edited(h, item) ==
  [item EXCEPT !.content = h.q.content,
               !.name = IF h.pc = "saved" THEN h.q.name ELSE item.name]

After(h, item, i) ==
  /\ h.q.op = "create" => Live(i) /\ invs[i].content = h.content /\ invs[i].sent = FALSE
  /\ h.q.op = "save" => Truth(Edited(h, item), i)
  /\ h.q.op = "toggle" => Truth(item, i)
  /\ h.q.op = "delete" => ~Live(i)

Expects(h, item, i) ==
  /\ h.heard
  /\ h.q.op \in {"save", "toggle"} => item.shown
  /\ h.q.op = "toggle" => h.q.sent = item.sent
  /\ h.q.op = "save" /\ ~h.q.allowed => h.q.name = item.name
  /\ h.pc = "write" /\ h.q.op # "create" => h.content = invs[i].content
  /\ IF Undone(h) THEN Truth(Before(h, item), i) ELSE After(h, item, i)

View(p, i) ==
  i \notin off[p] =>
    /\ \A s, t \in OnPage(p, i) : s = t
    /\ OnPage(p, i) = {} => Truth(list[p][i], i)
    /\ \A s \in OnPage(p, i) : Expects(hand[s], list[p][i], i)

ListInv == \A p \in Pages, i \in Invs : View(p, i)

\* What is said of an invitation depends on its row and its guest alone.
LEMMA SameRow ==
  ASSUME NEW i, invs'[i] = invs[i], guest'[i] = guest[i]
  PROVE  /\ \A item : Truth(item, i)' <=> Truth(item, i)
         /\ \A h, item : Expects(h, item, i)' <=> Expects(h, item, i)
<1>1. Live(i)' <=> Live(i)
  BY DEF Live
<1>2. \A item : Truth(item, i)' <=> Truth(item, i)
  BY <1>1 DEF Truth
<1>3. \A h, item : After(h, item, i)' <=> After(h, item, i)
  BY <1>1, <1>2 DEF After, Edited
<1>4. \A h, item : Expects(h, item, i)' <=> Expects(h, item, i)
  BY <1>2, <1>3 DEF Expects, Undone, Before
<1> QED
  BY <1>2, <1>4

\* A page that may still be right about an invitation has seen no change of it.
Unchanged(p, i) ==
  i \notin off'[p] => i \notin off[p] /\ invs'[i] = invs[i] /\ guest'[i] = guest[i]

\* So a page is as right as before, where its item and its functions are the same.
LEMMA SameView ==
  ASSUME NEW p, NEW i, View(p, i), Unchanged(p, i), list'[p][i] = list[p][i],
         OnPage(p, i)' = OnPage(p, i), \A s \in OnPage(p, i) : hand'[s] = hand[s]
  PROVE  View(p, i)'
<1> SUFFICES ASSUME i \notin off'[p]
             PROVE  /\ \A s, t \in OnPage(p, i)' : s = t
                    /\ OnPage(p, i)' = {} => Truth(list[p][i], i)'
                    /\ \A s \in OnPage(p, i)' : Expects(hand[s], list[p][i], i)'
  BY DEF View
<1>1. i \notin off[p] /\ invs'[i] = invs[i] /\ guest'[i] = guest[i]
  BY DEF Unchanged
<1>2. PICK item : item = list[p][i] /\ item = list'[p][i]
  OBVIOUS
<1>3. /\ \A s, t \in OnPage(p, i) : s = t
      /\ OnPage(p, i) = {} => Truth(item, i)
      /\ \A s \in OnPage(p, i) : Expects(hand[s], item, i)
  BY <1>1, <1>2 DEF View
<1>4. OnPage(p, i)' = {} => Truth(list[p][i], i)'
  <2>1. OnPage(p, i)' = {} => Truth(item, i)'
    BY <1>1, <1>3, SameRow
  <2> QED
    BY <1>2, <2>1 DEF Truth
<1>5. ASSUME NEW s \in OnPage(p, i)' PROVE Expects(hand[s], list[p][i], i)'
  <2>1. PICK h : h = hand[s] /\ h = hand'[s]
    BY <1>5
  <2>2. Expects(h, item, i)'
    BY <1>1, <1>3, <1>5, <2>1, SameRow
  <2> QED
    BY <1>2, <2>1, <2>2 DEF Expects, After, Before, Edited, Undone, Truth
<1> QED
  BY <1>3, <1>4, <1>5

\* Steps that leave the lists and their functions alone.
LEMMA ListsStill ==
  ASSUME ListInv, UNCHANGED <<list, hand>>, \A p \in Pages, i \in Invs : Unchanged(p, i)
  PROVE  ListInv'
<1> SUFFICES ASSUME NEW p \in Pages, NEW i \in Invs PROVE View(p, i)'
  BY DEF ListInv
<1>1. View(p, i) /\ Unchanged(p, i)
  BY DEF ListInv
<1>2. OnPage(p, i)' = OnPage(p, i)
  BY DEF OnPage
<1> QED
  BY <1>1, <1>2, SameView

At(h, item, i) == IF h = Quiet THEN Truth(item, i) ELSE Expects(h, item, i)

\* A step of slot s, which works on i: the slot becomes h and the page shows item.
Leads(s, i, h, item) ==
  /\ hand' = [hand EXCEPT ![s] = h] /\ list' = [list EXCEPT ![PageOf[s]][i] = item]
  /\ hand[s] # Quiet => hand[s].q.inv = i
  /\ h # Quiet => h.q.inv = i
  /\ \A p \in Pages, k \in Invs : p # PageOf[s] \/ k # i => Unchanged(p, k)
  /\ i \notin off'[PageOf[s]] =>
       i \notin off[PageOf[s]] /\ OnPage(PageOf[s], i) \subseteq {s} /\ At(h, item, i)'

LEMMA LeadsOn ==
  ASSUME Typed, ListInv, NEW s \in Slots, NEW i \in Invs, NEW h, NEW item, Leads(s, i, h, item)
  PROVE  ListInv'
<1> SUFFICES ASSUME NEW p \in Pages, NEW k \in Invs PROVE View(p, k)'
  BY DEF ListInv
<1>1. PICK b \in Pages : b = PageOf[s]
  BY TextsAssumption
<1>2. /\ hand[s] # Quiet => hand[s].q.inv = i
      /\ h # Quiet => h.q.inv = i
      /\ p # b \/ k # i => Unchanged(p, k)
      /\ i \notin off'[b] => i \notin off[b] /\ OnPage(b, i) \subseteq {s} /\ At(h, item, i)'
  BY <1>1 DEF Leads
<1>3. /\ hand'[s] = h /\ \A t \in Slots \ {s} : hand'[t] = hand[t]
      /\ list'[p][k] = IF p = b /\ k = i THEN item ELSE list[p][k]
  BY <1>1 DEF Leads, Typed
<1>4. CASE p # b \/ k # i
  <2>1. s \notin OnPage(p, k) /\ s \notin OnPage(p, k)'
    BY <1>1, <1>2, <1>3, <1>4 DEF OnPage
  <2>2. OnPage(p, k)' = OnPage(p, k) /\ \A t \in OnPage(p, k) : hand'[t] = hand[t]
    BY <1>3, <2>1 DEF OnPage
  <2>3. View(p, k) /\ Unchanged(p, k) /\ list'[p][k] = list[p][k]
    BY <1>2, <1>3, <1>4 DEF ListInv
  <2> QED
    BY <2>2, <2>3, SameView
<1>5. CASE p = b /\ k = i
  <2> SUFFICES ASSUME i \notin off'[b]
               PROVE  /\ \A u, t \in OnPage(b, i)' : u = t
                      /\ OnPage(b, i)' = {} => Truth(list[b][i], i)'
                      /\ \A t \in OnPage(b, i)' : Expects(hand[t], list[b][i], i)'
    BY <1>5 DEF View
  <2>1. At(h, item, i)' /\ OnPage(b, i) \subseteq {s} /\ list'[b][i] = item
    BY <1>2, <1>3, <1>5
  <2>2. OnPage(b, i)' \subseteq {s} /\ (s \in OnPage(b, i)' <=> h # Quiet)
    BY <1>1, <1>2, <1>3, <2>1 DEF OnPage
  <2>3. OnPage(b, i)' = {} => Truth(list[b][i], i)'
    <3>1. OnPage(b, i)' = {} => Truth(item, i)'
      BY <2>1, <2>2 DEF At
    <3> QED
      BY <2>1, <3>1 DEF Truth
  <2>4. ASSUME h # Quiet PROVE Expects(hand[s], list[b][i], i)'
    <3>1. Expects(h, item, i)'
      BY <2>1, <2>4 DEF At
    <3> QED
      BY <1>3, <2>1, <3>1 DEF Expects, After, Before, Edited, Undone, Truth
  <2> QED
    BY <2>2, <2>3, <2>4
<1> QED
  BY <1>4, <1>5

\* The slot, the request, the page and the item of a function in flight.
LEMMA WorkingOn ==
  ASSUME TextsInv, ListInv, NEW s \in Slots, hand[s] # Quiet
  PROVE  \E h \in Busy, i \in Invs, p \in Pages, item \in {NoItem} \cup Item :
           /\ h = hand[s] /\ i = h.q.inv /\ p = PageOf[s] /\ item = list[p][i]
           /\ h.q \in Request /\ h.q.op \in {"create", "save", "toggle", "delete"}
           /\ item.shown => item \in Item
           /\ list = [list EXCEPT ![p][i] = item]
           /\ i \notin off[p] => OnPage(p, i) \subseteq {s} /\ Expects(h, item, i)
<1>1. PICK h \in Busy, i \in Invs, p \in Pages : h = hand[s] /\ i = h.q.inv /\ p = PageOf[s]
  BY Working DEF TextsInv
<1>2. PICK item \in {NoItem} \cup Item : item = list[p][i]
  BY DEF TextsInv, Typed
<1>3. h.q \in Request /\ h.q.op \in {"create", "save", "toggle", "delete"}
  BY <1>1, RequestFields DEF Busy
<1>4. item.shown => item \in Item
  BY DEF NoItem
<1>5. list = [list EXCEPT ![p][i] = item]
  BY <1>2 DEF TextsInv, Typed
<1>6. s \in OnPage(p, i)
  BY <1>1 DEF OnPage
<1>7. i \notin off[p] => OnPage(p, i) \subseteq {s} /\ Expects(h, item, i)
  BY <1>1, <1>2, <1>6 DEF ListInv, View
<1> QED
  BY <1>1, <1>2, <1>3, <1>4, <1>5, <1>7

LEMMA LoadView ==
  ASSUME TextsInv, ListInv, NEW b \in Pages, Load(b)
  PROVE  ListInv'
<1> SUFFICES ASSUME NEW p \in Pages, NEW i \in Invs PROVE View(p, i)'
  BY DEF ListInv
<1>1. /\ UNCHANGED <<invs, guest, hand>>
      /\ list'[p][i] = IF p = b THEN ItemOf(i) ELSE list[p][i]
      /\ off'[p] = IF p = b THEN {} ELSE off[p]
  BY DEF Load, TextsInv, Typed
<1>2. OnPage(p, i)' = OnPage(p, i)
  BY <1>1 DEF OnPage
<1>3. CASE p # b
  <2>1. View(p, i) /\ Unchanged(p, i)
    BY <1>1, <1>3 DEF ListInv, Unchanged
  <2> QED
    BY <1>1, <1>2, <1>3, <2>1, SameView
<1>4. CASE p = b
  <2>1. OnPage(p, i)' = {}
    BY <1>2, <1>4 DEF OnPage, Load
  <2>2. PICK item : item = ItemOf(i)
    OBVIOUS
  <2>3. Truth(item, i)'
    BY <1>1, <2>2 DEF Truth, ItemOf, Live, NoItem
  <2>4. Truth(list[p][i], i)'
    BY <1>1, <1>4, <2>2, <2>3 DEF Truth
  <2> QED
    BY <2>1, <2>4 DEF View
<1> QED
  BY <1>3, <1>4

\* A function starts: what it shows, undone, is what was true.
LEMMA StartView ==
  ASSUME TextsInv, ListInv, NEW s \in Slots, NEW q \in Request, NEW item, Start(s, q, item),
         NEW old, old = list[PageOf[s]][q.inv],
         q.op \in {"save", "toggle"} => item.shown,
         q.op = "toggle" => q.sent = item.sent /\ [item EXCEPT !.sent = ~item.sent] = old,
         q.op \in {"save", "delete"} => item = old,
         q.op = "save" /\ ~q.allowed => q.name = item.name,
         q.op = "create" => ~Live(q.inv) /\ ~item.shown
  PROVE  ListInv'
<1>1. PICK i \in Invs, b \in Pages : i = q.inv /\ b = PageOf[s]
  BY TextsAssumption DEF Request
<1>2. PICK h : h = [pc |-> "check", q |-> q, content |-> Blank, ok |-> FALSE, heard |-> TRUE]
  OBVIOUS
<1>3. h # Quiet /\ h.pc = "check" /\ h.q = q /\ h.heard = TRUE
  BY <1>2 DEF Quiet
<1>4. /\ hand[s] = Quiet /\ hand' = [hand EXCEPT ![s] = h]
      /\ list' = [list EXCEPT ![b][i] = item] /\ UNCHANGED <<invs, guest>>
      /\ off' = IF OnPage(b, i) = {} THEN off ELSE [off EXCEPT ![b] = @ \cup {i}]
  BY <1>1, <1>2 DEF Start
<1>5. \A p \in Pages, k \in Invs : p # b \/ k # i => Unchanged(p, k)
  BY <1>4 DEF Unchanged, TextsInv, Typed
<1>6. ASSUME i \notin off'[b]
      PROVE  i \notin off[b] /\ OnPage(b, i) = {} /\ At(h, item, i)'
  <2>1. i \notin off[b] /\ OnPage(b, i) = {}
    BY <1>4, <1>6 DEF TextsInv, Typed
  <2>2. Truth(old, i)
    BY <1>1, <2>1 DEF ListInv, View
  <2>3. Truth(Before(h, item), i)
    <3>1. CASE q.op = "create"
      <4>1. ~Live(i) /\ ~item.shown /\ Before(h, item) = item
        BY <1>1, <1>3, <3>1 DEF Before
      <4> QED
        BY <4>1 DEF Truth
    <3>2. CASE q.op \in {"save", "delete"}
      BY <1>3, <2>2, <3>2 DEF Before
    <3>3. CASE q.op = "toggle"
      BY <1>3, <2>2, <3>3 DEF Before
    <3> QED
      BY <3>1, <3>2, <3>3, RequestFields
  <2>4. Expects(h, item, i)
    BY <1>3, <2>3 DEF Expects, Undone
  <2>5. Expects(h, item, i)'
    BY <1>4, <2>4, SameRow
  <2> QED
    BY <1>3, <2>1, <2>5 DEF At
<1>7. Leads(s, i, h, item)
  BY <1>1, <1>3, <1>4, <1>5, <1>6 DEF Leads
<1> QED
  BY <1>7, LeadsOn DEF TextsInv

LEMMA AskView ==
  ASSUME TextsInv, ListInv, NEW s \in Slots, NEW i \in Invs,
         \/ Create(s, i) \/ Toggle(s, i) \/ Delete(s, i)
         \/ \E content \in Drafts, name \in Opt(Names) : Save(s, i, content, name)
  PROVE  ListInv'
<1>1. PICK old \in {NoItem} \cup Item : old = list[PageOf[s]][i]
  BY TextsAssumption DEF TextsInv, Typed
<1>2. old.shown => old \in Item
  BY DEF NoItem
<1>3. CASE Create(s, i)
  <2>1. PICK q : q = [op |-> "create", inv |-> i]
    OBVIOUS
  <2>2. q \in Request /\ q.op = "create" /\ q.inv = i
    BY <2>1 DEF Request
  <2>3. Start(s, q, NoItem) /\ ~Live(i) /\ ~NoItem.shown
    BY <1>3, <2>1 DEF Create, Live, NoItem
  <2> QED
    BY <1>1, <2>2, <2>3, StartView
<1>4. CASE Toggle(s, i)
  <2>1. PICK q, item : q = [op |-> "toggle", inv |-> i, sent |-> ~old.sent]
                       /\ item = [old EXCEPT !.sent = ~old.sent]
    OBVIOUS
  <2>2. old \in Item /\ Start(s, q, item)
    BY <1>1, <1>2, <1>4, <2>1 DEF Toggle
  <2>3. old.sent \in BOOLEAN /\ old.shown = TRUE
    BY <2>2 DEF Item
  <2>4. q \in Request /\ q.op = "toggle" /\ q.inv = i /\ q.sent = ~old.sent
    BY <2>1, <2>3 DEF Request
  <2>5. item.shown = TRUE /\ item.sent = ~old.sent /\ [item EXCEPT !.sent = ~item.sent] = old
    BY <2>1, <2>2, <2>3 DEF Item
  <2> QED
    BY <1>1, <2>2, <2>4, <2>5, StartView
<1>5. CASE Delete(s, i)
  <2>1. PICK q : q = [op |-> "delete", inv |-> i]
    OBVIOUS
  <2>2. q \in Request /\ q.op = "delete" /\ q.inv = i
    BY <2>1 DEF Request
  <2>3. Start(s, q, old)
    BY <1>1, <1>5, <2>1 DEF Delete
  <2> QED
    BY <1>1, <2>2, <2>3, StartView
<1>6. ASSUME NEW content \in Drafts, NEW name \in Opt(Names), Save(s, i, content, name)
      PROVE  ListInv'
  <2>1. PICK q : q = [op |-> "save", inv |-> i, content |-> content, name |-> name,
                      allowed |-> old.allowed]
    OBVIOUS
  <2>2. old.shown /\ (old.allowed \/ name = old.name) /\ Start(s, q, old)
    BY <1>1, <1>6, <2>1 DEF Save
  <2>3. content \in Content /\ old.allowed \in BOOLEAN
    BY <1>2, <2>2, TextsAssumption DEF Item
  <2>4. /\ q \in Request /\ q.op = "save" /\ q.inv = i /\ q.name = name
        /\ q.allowed = old.allowed
    BY <2>1, <2>3 DEF Request
  <2> QED
    BY <1>1, <2>2, <2>4, StartView
<1> QED
  BY <1>3, <1>4, <1>5, <1>6

\* What an answer of a handler leaves of its function.
LEMMA AnswerOf ==
  ASSUME Typed, NEW s \in Slots, NEW h \in Busy, h = hand[s], NEW ok \in BOOLEAN, Answer(s, ok)
  PROVE  \E x \in Busy :
           /\ hand' = [hand EXCEPT ![s] = x] /\ x # Quiet
           /\ x.pc = "answer" /\ x.ok = ok /\ x.q = h.q /\ x.heard = h.heard
           /\ ok /\ h.q.op = "create" => x.content = h.content
<1>1. PICK c : c = IF ok /\ h.q.op = "create" THEN h.content ELSE Blank
  OBVIOUS
<1>2. c \in Content
  BY <1>1 DEF Busy, Blank, Content, Opt
<1>3. PICK x : x = [h EXCEPT !.pc = "answer", !.ok = ok, !.content = c]
  OBVIOUS
<1>4. x \in Busy /\ x.pc = "answer" /\ x.ok = ok /\ x.q = h.q /\ x.heard = h.heard
      /\ x.content = c
  BY <1>2, <1>3 DEF Busy
<1>5. x # Quiet
  BY <1>4 DEF Quiet
<1>6. hand' = [hand EXCEPT ![s] = x]
  BY <1>1, <1>3 DEF Answer, Typed
<1> QED
  BY <1>1, <1>4, <1>5, <1>6

\* A handler that goes on without a write.
LEMMA UnwrittenView ==
  ASSUME TextsInv, ListInv, NEW s \in Slots, hand[s].pc \in {"check", "write"},
         UNCHANGED <<invs, guest, list, off>>,
         \/ Answer(s, FALSE)
         \/ \E c : /\ hand' = [hand EXCEPT ![s].pc = "write", ![s].content = c]
                   /\ hand[s].q.op # "create" => c = invs[hand[s].q.inv].content
  PROVE  ListInv'
<1>0. hand[s] # Quiet
  BY DEF Quiet
<1>1. PICK h \in Busy, i \in Invs, b \in Pages, item \in {NoItem} \cup Item :
        /\ h = hand[s] /\ i = h.q.inv /\ b = PageOf[s]
        /\ list = [list EXCEPT ![b][i] = item]
        /\ i \notin off[b] => OnPage(b, i) \subseteq {s} /\ Expects(h, item, i)
  BY <1>0, WorkingOn
<1>2. PICK x : /\ hand' = [hand EXCEPT ![s] = x] /\ x # Quiet
               /\ x.q = h.q /\ x.heard = h.heard
               /\ \/ x.pc = "answer" /\ ~x.ok
                  \/ x.pc = "write" /\ (x.q.op # "create" => x.content = invs[i].content)
  <2>1. CASE Answer(s, FALSE)
    <3>1. PICK ok \in BOOLEAN : ok = FALSE
      OBVIOUS
    <3>2. Answer(s, ok) /\ Typed
      BY <2>1, <3>1 DEF TextsInv
    <3>3. PICK x \in Busy :
            /\ hand' = [hand EXCEPT ![s] = x] /\ x # Quiet
            /\ x.pc = "answer" /\ x.ok = ok /\ x.q = h.q /\ x.heard = h.heard
      BY <1>1, <3>2, AnswerOf
    <3> QED
      BY <3>1, <3>3
  <2>2. ASSUME NEW c, hand' = [hand EXCEPT ![s].pc = "write", ![s].content = c],
               h.q.op # "create" => c = invs[i].content
        PROVE  \E x : /\ hand' = [hand EXCEPT ![s] = x] /\ x # Quiet
                      /\ x.q = h.q /\ x.heard = h.heard
                      /\ x.pc = "write" /\ (x.q.op # "create" => x.content = invs[i].content)
    <3>1. PICK x : x = [h EXCEPT !.pc = "write", !.content = c]
      OBVIOUS
    <3>2. x.pc = "write" /\ x.q = h.q /\ x.heard = h.heard /\ x.content = c
      BY <3>1 DEF Busy
    <3>3. x # Quiet
      BY <3>2 DEF Quiet
    <3>4. hand' = [hand EXCEPT ![s] = x]
      BY <1>1, <2>2, <3>1 DEF TextsInv, Typed
    <3>5. x.q.op # "create" => x.content = invs[i].content
      BY <2>2, <3>2
    <3> QED
      BY <3>2, <3>3, <3>4, <3>5, Zenon
  <2> QED
    BY <1>1, <2>1, <2>2
<1>3. \A p \in Pages, k \in Invs : Unchanged(p, k)
  BY DEF Unchanged
<1>4. ASSUME i \notin off'[b] PROVE i \notin off[b] /\ OnPage(b, i) \subseteq {s} /\ At(x, item, i)'
  <2>1. Expects(h, item, i) /\ OnPage(b, i) \subseteq {s}
    BY <1>1, <1>4
  <2>2. Undone(h) /\ h.pc \in {"check", "write"} /\ Undone(x)
    BY <1>1, <1>2 DEF Undone
  <2>3. Expects(x, item, i)
    BY <1>2, <2>1, <2>2 DEF Expects, Before
  <2>4. Expects(x, item, i)'
    BY <2>3, SameRow
  <2> QED
    BY <1>2, <1>4, <2>1, <2>4 DEF At
<1>5. Leads(s, i, x, item)
  BY <1>1, <1>2, <1>3, <1>4 DEF Leads
<1> QED
  BY <1>5, LeadsOn DEF TextsInv

LEMMA CheckView ==
  ASSUME TextsInv, ListInv, NEW s \in Slots, Check(s) \/ Fail(s)
  PROVE  ListInv'
<1>1. CASE Check(s)
  <2>1. hand[s].pc = "check" /\ UNCHANGED <<invs, guest, list, off>>
    BY <1>1 DEF Check
  <2>2. \/ Answer(s, FALSE)
        \/ \E c : /\ hand' = [hand EXCEPT ![s].pc = "write", ![s].content = c]
                  /\ hand[s].q.op # "create" => c = invs[hand[s].q.inv].content
    BY <1>1 DEF Check
  <2> QED
    BY <2>1, <2>2, UnwrittenView
<1>2. CASE Fail(s)
  BY <1>2, UnwrittenView DEF Fail
<1> QED
  BY <1>1, <1>2

LEMMA WriteView ==
  ASSUME TextsInv, ListInv, NEW s \in Slots, Write(s)
  PROVE  ListInv'
<1>0. hand[s] # Quiet /\ hand[s].pc = "write" /\ UNCHANGED <<guest, list>>
  BY DEF Quiet, Write
<1>1. PICK h \in Busy, i \in Invs, b \in Pages, item \in {NoItem} \cup Item :
        /\ h = hand[s] /\ i = h.q.inv /\ b = PageOf[s]
        /\ h.q \in Request /\ h.q.op \in {"create", "save", "toggle", "delete"}
        /\ item.shown => item \in Item
        /\ list = [list EXCEPT ![b][i] = item]
        /\ i \notin off[b] => OnPage(b, i) \subseteq {s} /\ Expects(h, item, i)
  BY <1>0, WorkingOn
<1>2. CASE Answer(s, FALSE) /\ UNCHANGED <<invs, off>>
  BY <1>0, <1>2, UnwrittenView
<1>3. ASSUME ~UNCHANGED <<invs, off>> \/ ~Answer(s, FALSE)
      PROVE  ListInv'
  <2>1. PICK w : w = Written(s)
    OBVIOUS
  <2>2. /\ h.q.op = "create" \/ Live(i)
        /\ invs' = [invs EXCEPT ![i] = w] /\ Answer(s, TRUE)
        /\ off' = [p \in Pages |-> IF p = b THEN off[p] ELSE off[p] \cup {i}]
    BY <1>1, <1>3, <2>1 DEF Write, Unheard
  <2>3. PICK x \in Busy :
          /\ hand' = [hand EXCEPT ![s] = x] /\ x # Quiet
          /\ x.pc = "answer" /\ x.ok = TRUE /\ x.q = h.q /\ x.heard = h.heard
          /\ h.q.op = "create" => x.content = h.content
    <3>1. PICK ok \in BOOLEAN : ok = TRUE
      OBVIOUS
    <3>2. Answer(s, ok) /\ Typed
      BY <2>2, <3>1 DEF TextsInv
    <3>3. PICK x \in Busy :
            /\ hand' = [hand EXCEPT ![s] = x] /\ x # Quiet
            /\ x.pc = "answer" /\ x.ok = ok /\ x.q = h.q /\ x.heard = h.heard
            /\ ok /\ h.q.op = "create" => x.content = h.content
      BY <1>1, <3>2, AnswerOf
    <3> QED
      BY <3>1, <3>3
  <2>4. invs[i] \in Invitation /\ invs'[i] = w /\ \A k \in Invs \ {i} : invs'[k] = invs[k]
    BY <2>2 DEF TextsInv, Typed
  <2>5. \A p \in Pages, k \in Invs : p # b \/ k # i => Unchanged(p, k)
    BY <1>0, <2>2, <2>4 DEF Unchanged
  <2>6. ASSUME i \notin off[b] PROVE Expects(x, item, i)'
    <3>1. Expects(h, item, i) /\ Undone(h) /\ ~Undone(x)
      BY <1>0, <1>1, <2>3, <2>6 DEF Undone
    <3>2. Truth(Before(h, item), i)
      BY <3>1 DEF Expects
    <3>3. After(x, item, i)'
      <4>1. CASE h.q.op = "create"
        <5>1. w.state = "live" /\ w.content = h.content /\ w.sent = FALSE
          BY <1>1, <2>1, <4>1 DEF Written
        <5> QED
          BY <2>3, <2>4, <4>1, <5>1 DEF After, Live
      <4>2. CASE h.q.op = "save"
        <5>1. w.state = "live" /\ w.content = h.q.content /\ w.sent = invs[i].sent
          BY <1>1, <2>1, <2>2, <2>4, <4>2 DEF Written, Updated, Merged, Invitation, Live
        <5>2. Before(h, item) = item /\ item \in Item /\ item.shown = TRUE
          BY <1>1, <3>1, <4>2 DEF Before, Expects, Item
        <5>3. item.sent = invs[i].sent /\ item.name = guest[i].name
          BY <2>2, <3>2, <4>2, <5>2 DEF Truth
        <5>4. PICK y : y = Edited(x, item)
          OBVIOUS
        <5>5. y.shown = TRUE /\ y.content = h.q.content /\ y.name = item.name
              /\ y.sent = item.sent
          BY <2>3, <5>2, <5>4 DEF Edited, Item
        <5>6. Truth(y, i)'
          BY <1>0, <2>4, <5>1, <5>3, <5>5 DEF Truth, Live
        <5>7. Truth(Edited(x, item), i)'
          BY <5>4, <5>6 DEF Truth
        <5> QED
          BY <2>3, <4>2, <5>7 DEF After
      <4>3. CASE h.q.op = "toggle"
        <5>1. w.state = "live" /\ w.content = h.content /\ w.sent = h.q.sent
          BY <1>1, <2>1, <2>2, <2>4, <4>3 DEF Written, Updated, Merged, Invitation, Live
        <5>2. /\ h.q.sent = item.sent /\ h.content = invs[i].content
              /\ item \in Item /\ item.shown = TRUE
          BY <1>0, <1>1, <3>1, <4>3 DEF Expects, Item
        <5>3. Before(h, item) = [item EXCEPT !.sent = ~item.sent]
          BY <4>3 DEF Before
        <5>4. item.content = invs[i].content /\ item.name = guest[i].name
          BY <2>2, <3>2, <4>3, <5>2, <5>3 DEF Truth, Item
        <5>5. Truth(item, i)'
          BY <1>0, <2>4, <5>1, <5>2, <5>4 DEF Truth, Live
        <5> QED
          BY <2>3, <4>3, <5>5 DEF After
      <4>4. CASE h.q.op = "delete"
        <5>1. w.state = "gone"
          BY <1>1, <2>1, <2>4, <4>4 DEF Written, Invitation
        <5> QED
          BY <2>3, <2>4, <4>4, <5>1 DEF After, Live
      <4> QED
        BY <1>1, <4>1, <4>2, <4>3, <4>4
    <3> QED
      BY <2>3, <3>1, <3>3 DEF Expects
  <2>7. Leads(s, i, x, item)
    <3>1. i \notin off'[b] => i \notin off[b] /\ OnPage(b, i) \subseteq {s} /\ At(x, item, i)'
      BY <1>1, <2>2, <2>3, <2>6 DEF At
    <3> QED
      BY <1>0, <1>1, <2>3, <2>5, <3>1 DEF Leads
  <2> QED
    BY <2>7, LeadsOn DEF TextsInv
<1> QED
  BY <1>2, <1>3

LEMMA PatchGuestView ==
  ASSUME TextsInv, ListInv, NEW s \in Slots, PatchGuest(s)
  PROVE  ListInv'
<1>0. hand[s] # Quiet /\ hand[s].pc = "guest" /\ hand[s].q.op = "save" /\ UNCHANGED <<invs, list>>
  BY DEF Quiet, PatchGuest, TextsInv, Phases
<1>1. PICK h \in Busy, i \in Invs, b \in Pages, item \in {NoItem} \cup Item :
        /\ h = hand[s] /\ i = h.q.inv /\ b = PageOf[s]
        /\ item.shown => item \in Item
        /\ list = [list EXCEPT ![b][i] = item]
        /\ i \notin off[b] => OnPage(b, i) \subseteq {s} /\ Expects(h, item, i)
  BY <1>0, WorkingOn
<1>2. PICK x : x = [h EXCEPT !.pc = "saved"]
  OBVIOUS
<1>3. /\ hand' = [hand EXCEPT ![s] = x] /\ x # Quiet
      /\ x.pc = "saved" /\ x.q = h.q /\ x.heard = h.heard
  <2>1. x.pc = "saved" /\ x.q = h.q /\ x.heard = h.heard
    BY <1>2 DEF Busy
  <2> QED
    BY <1>1, <1>2, <2>1 DEF PatchGuest, Quiet, TextsInv, Typed
<1>4. CASE /\ guest' = [guest EXCEPT ![i] = [allowed |-> FALSE, name |-> h.q.name]]
           /\ off' = [p \in Pages |-> IF p = b THEN off[p] ELSE off[p] \cup {i}]
  <2>1. guest'[i].name = h.q.name /\ \A k \in Invs \ {i} : guest'[k] = guest[k]
    BY <1>4 DEF TextsInv, Typed
  <2>2. \A p \in Pages, k \in Invs : p # b \/ k # i => Unchanged(p, k)
    BY <1>0, <1>4, <2>1 DEF Unchanged
  <2>3. ASSUME i \notin off[b] PROVE Expects(x, item, i)'
    <3>1. Expects(h, item, i) /\ ~Undone(h) /\ ~Undone(x)
      BY <1>0, <1>1, <1>3, <2>3 DEF Undone
    <3>2. item \in Item /\ item.shown = TRUE
      BY <1>0, <1>1, <3>1 DEF Expects, Item
    <3>3. Truth(Edited(h, item), i)
      BY <1>0, <1>1, <3>1 DEF Expects, After
    <3>4. PICK y, z : y = Edited(h, item) /\ z = Edited(x, item)
      OBVIOUS
    <3>5. /\ y.shown = TRUE /\ y.content = h.q.content /\ y.sent = item.sent
          /\ z.shown = TRUE /\ z.content = h.q.content /\ z.sent = item.sent
          /\ z.name = h.q.name
      BY <1>3, <3>2, <3>4 DEF Edited, Item
    <3>6. Truth(z, i)'
      BY <1>0, <2>1, <3>3, <3>4, <3>5 DEF Truth, Live
    <3>7. Truth(Edited(x, item), i)'
      BY <3>4, <3>6 DEF Truth
    <3>8. After(x, item, i)'
      BY <1>0, <1>1, <1>3, <3>7 DEF After
    <3> QED
      BY <1>0, <1>1, <1>3, <3>1, <3>8 DEF Expects
  <2>4. Leads(s, i, x, item)
    <3>1. i \notin off'[b] => i \notin off[b] /\ OnPage(b, i) \subseteq {s} /\ At(x, item, i)'
      BY <1>1, <1>3, <1>4, <2>3 DEF At
    <3> QED
      BY <1>0, <1>1, <1>3, <2>2, <3>1 DEF Leads
  <2> QED
    BY <2>4, LeadsOn DEF TextsInv
<1>5. CASE UNCHANGED guest /\ off' = [off EXCEPT ![b] = @ \cup {i}]
  <2>1. i \in off'[b] /\ \A p \in Pages, k \in Invs : Unchanged(p, k)
    BY <1>0, <1>5 DEF Unchanged, TextsInv, Typed
  <2>2. Leads(s, i, x, item)
    BY <1>0, <1>1, <1>3, <2>1 DEF Leads
  <2> QED
    BY <2>2, LeadsOn DEF TextsInv
<1> QED
  BY <1>1, <1>4, <1>5 DEF PatchGuest, Unheard

\* The end of a function: the page then shows item.
LEMMA EndView ==
  ASSUME TextsInv, ListInv, NEW s \in Slots, NEW h \in Busy, h = hand[s],
         NEW i \in Invs, i = h.q.inv, NEW b \in Pages, b = PageOf[s], NEW x, NEW item,
         hand' = [hand EXCEPT ![s] = x], list' = [list EXCEPT ![b][i] = item],
         UNCHANGED <<invs, guest>>, off' = off \/ off' = [off EXCEPT ![b] = @ \cup {i}],
         x = Quiet \/ (x.q.inv = i /\ i \in off'[b]),
         i \notin off'[b] => Truth(item, i)
  PROVE  ListInv'
<1>1. h # Quiet
  BY DEF Quiet, Busy
<1>2. i \notin off[b] => OnPage(b, i) \subseteq {s}
  <2>1. s \in OnPage(b, i)
    BY <1>1 DEF OnPage
  <2> QED
    BY <2>1 DEF ListInv, View
<1>3. \A p \in Pages, k \in Invs : Unchanged(p, k)
  BY DEF Unchanged, TextsInv, Typed
<1>4. i \notin off'[b] => i \notin off[b] /\ OnPage(b, i) \subseteq {s} /\ At(x, item, i)'
  <2>1. Truth(item, i) => Truth(item, i)'
    BY SameRow
  <2>2. i \notin off'[b] => i \notin off[b]
    BY DEF TextsInv, Typed
  <2> QED
    BY <1>2, <2>1, <2>2 DEF At
<1>5. Leads(s, i, x, item)
  BY <1>1, <1>3, <1>4 DEF Leads
<1> QED
  BY <1>5, LeadsOn DEF TextsInv

\* revertSent on the page: the item is what it was before the change that was shown.
Reverted(h, item) ==
  IF h.q.op = "toggle" /\ item.shown THEN [item EXCEPT !.sent = ~item.sent] ELSE item

LEMMA RevertedItem ==
  ASSUME TextsInv, NEW s \in Slots, hand[s] # Quiet, Revert(s)
  PROVE  list' = [list EXCEPT ![PageOf[s]][hand[s].q.inv] =
                    Reverted(hand[s], list[PageOf[s]][hand[s].q.inv])]
<1>1. PICK p \in Pages, i \in Invs, h \in Busy :
        p = PageOf[s] /\ i = hand[s].q.inv /\ h = hand[s]
  BY Working DEF TextsInv
<1>2. list' = [list EXCEPT ![p][i] = Reverted(h, list[p][i])]
  <2>1. CASE h.q.op = "toggle" /\ list[p][i].shown
    BY <1>1, <2>1 DEF Revert, Reverted, TextsInv, Typed
  <2>2. CASE ~(h.q.op = "toggle" /\ list[p][i].shown)
    BY <1>1, <2>2 DEF Revert, Reverted, TextsInv, Typed
  <2> QED
    BY <2>1, <2>2
<1> QED
  BY <1>1, <1>2

LEMMA RevertedTrue ==
  ASSUME NEW h, NEW item, NEW i, Expects(h, item, i), Undone(h)
  PROVE  Truth(Reverted(h, item), i)
<1>1. Reverted(h, item) = Before(h, item)
  BY DEF Expects, Reverted, Before
<1> QED
  BY <1>1 DEF Expects

LEMMA AnsweringView ==
  ASSUME TextsInv, ListInv, NEW s \in Slots, Answered(s) \/ Saved(s)
  PROVE  ListInv'
<1>0. /\ hand[s] # Quiet /\ UNCHANGED <<invs, guest, off>>
      /\ \/ hand[s].pc = "answer"
         \/ hand[s].pc = "saved" /\ hand[s].q.op = "save"
  BY DEF Quiet, Answered, Saved, TextsInv, Phases
<1>1. PICK h \in Busy, i \in Invs, b \in Pages, item \in {NoItem} \cup Item :
        /\ h = hand[s] /\ i = h.q.inv /\ b = PageOf[s] /\ item = list[b][i]
        /\ h.q \in Request /\ h.q.op \in {"create", "save", "toggle", "delete"}
        /\ item.shown => item \in Item
        /\ list = [list EXCEPT ![b][i] = item]
        /\ i \notin off[b] => OnPage(b, i) \subseteq {s} /\ Expects(h, item, i)
  BY <1>0, WorkingOn
<1>2. CASE hand' = [hand EXCEPT ![s] = Quiet] /\ Revert(s) /\ Answered(s) /\ ~h.ok
  <2>1. PICK y : y = Reverted(h, item)
    OBVIOUS
  <2>2. list' = [list EXCEPT ![b][i] = y]
    BY <1>0, <1>1, <1>2, <2>1, RevertedItem
  <2>3. Undone(h)
    BY <1>1, <1>2 DEF Answered, Undone
  <2>4. i \notin off[b] => Truth(y, i)
    BY <1>1, <2>1, <2>3, RevertedTrue
  <2> QED
    BY <1>0, <1>1, <1>2, <2>2, <2>4, EndView
<1>3. CASE /\ hand' = [hand EXCEPT ![s] = Quiet] /\ Confirm(s)
           /\ ~Undone(h) /\ (h.q.op = "save" => h.pc = "saved" \/ ~h.q.allowed)
  <2>1. PICK y : y = Confirmed(s)
    OBVIOUS
  <2>2. list' = [list EXCEPT ![b][i] = y]
    BY <1>1, <1>3, <2>1 DEF Confirm
  <2>3. ASSUME i \notin off[b] PROVE Truth(y, i)
    <3>1. Expects(h, item, i) /\ After(h, item, i)
      BY <1>1, <1>3, <2>3 DEF Expects
    <3>2. CASE h.q.op = "create"
      <4>1. y.shown = TRUE /\ y.content = h.content /\ y.sent = FALSE /\ y.name = guest[i].name
        BY <1>1, <2>1, <3>2 DEF Confirmed
      <4> QED
        BY <3>1, <3>2, <4>1 DEF After, Truth
    <3>3. CASE h.q.op = "save"
      <4>1. item \in Item /\ y = [item EXCEPT !.content = h.q.content, !.name = h.q.name]
        BY <1>1, <2>1, <3>1, <3>3 DEF Confirmed, Expects
      <4>2. Truth(Edited(h, item), i)
        BY <3>1, <3>3 DEF After
      <4>3. h.pc # "saved" => h.q.name = item.name
        BY <1>3, <3>1, <3>3 DEF Expects
      <4>4. Edited(h, item) = y
        BY <4>1, <4>3 DEF Edited
      <4> QED
        BY <4>2, <4>4
    <3>4. CASE h.q.op = "toggle"
      <4>1. y = item
        BY <1>1, <2>1, <3>4 DEF Confirmed
      <4> QED
        BY <3>1, <3>4, <4>1 DEF After
    <3>5. CASE h.q.op = "delete"
      <4>1. y = NoItem
        BY <1>1, <2>1, <3>5 DEF Confirmed
      <4> QED
        BY <3>1, <3>5, <4>1 DEF After, Truth, NoItem
    <3> QED
      BY <1>1, <3>2, <3>3, <3>4, <3>5
  <2> QED
    BY <1>0, <1>1, <1>3, <2>2, <2>3, EndView
<1>4. CASE h.ok /\ h.pc = "answer" /\ h.q.op = "save" /\ UNCHANGED list
           /\ hand' = [hand EXCEPT ![s].pc = "guest"]
  <2>1. PICK x : x = [h EXCEPT !.pc = "guest"]
    OBVIOUS
  <2>2. x.pc = "guest" /\ x.q = h.q /\ x.heard = h.heard
    BY <2>1 DEF Busy
  <2>3. hand' = [hand EXCEPT ![s] = x] /\ x # Quiet
    BY <1>1, <1>4, <2>1, <2>2 DEF Quiet, TextsInv, Typed
  <2>4. ASSUME i \notin off[b] PROVE Expects(x, item, i)'
    <3>1. Expects(h, item, i) /\ ~Undone(h) /\ ~Undone(x)
      BY <1>1, <1>4, <2>2, <2>4 DEF Undone
    <3>2. Edited(x, item) = Edited(h, item)
      BY <1>4, <2>2 DEF Edited
    <3>3. After(x, item, i)
      BY <1>4, <2>2, <3>1, <3>2 DEF Expects, After
    <3>4. Expects(x, item, i)
      BY <1>4, <2>2, <3>1, <3>3 DEF Expects
    <3> QED
      BY <1>0, <3>4, SameRow
  <2>5. \A p \in Pages, k \in Invs : Unchanged(p, k)
    BY <1>0 DEF Unchanged
  <2>6. i \notin off'[b] => i \notin off[b] /\ OnPage(b, i) \subseteq {s} /\ At(x, item, i)'
    BY <1>0, <1>1, <2>3, <2>4 DEF At
  <2>7. Leads(s, i, x, item)
    BY <1>1, <1>4, <2>2, <2>3, <2>5, <2>6 DEF Leads
  <2> QED
    BY <2>7, LeadsOn DEF TextsInv
<1>5. CASE Answered(s)
  <2>1. h.pc = "answer"
    BY <1>1, <1>5 DEF Answered
  <2>2. CASE h.ok /\ h.q.op = "save" /\ h.q.allowed
    BY <1>1, <1>4, <1>5, <2>1, <2>2 DEF Answered
  <2>3. CASE ~(h.ok /\ h.q.op = "save" /\ h.q.allowed)
    <3>1. hand' = [hand EXCEPT ![s] = Quiet] /\ IF h.ok THEN Confirm(s) ELSE Revert(s)
      BY <1>1, <1>5, <2>3 DEF Answered
    <3> QED
      BY <1>2, <1>3, <1>5, <2>1, <2>3, <3>1 DEF Undone
  <2> QED
    BY <2>2, <2>3
<1>6. CASE Saved(s)
  <2>1. h.pc = "saved" /\ hand' = [hand EXCEPT ![s] = Quiet] /\ Confirm(s)
    BY <1>1, <1>6 DEF Saved
  <2> QED
    BY <1>3, <2>1 DEF Undone
<1> QED
  BY <1>5, <1>6

LEMMA LostView ==
  ASSUME TextsInv, ListInv, NEW s \in Slots, Lose(s) \/ Unread(s)
  PROVE  ListInv'
<1>0. hand[s] # Quiet /\ UNCHANGED <<invs, guest>>
  BY DEF Quiet, Lose, Unread
<1>1. PICK h \in Busy, i \in Invs, b \in Pages, item \in {NoItem} \cup Item :
        /\ h = hand[s] /\ i = h.q.inv /\ b = PageOf[s] /\ item = list[b][i]
        /\ list = [list EXCEPT ![b][i] = item]
        /\ i \notin off[b] => OnPage(b, i) \subseteq {s} /\ Expects(h, item, i)
  BY <1>0, WorkingOn
<1>2. CASE Lose(s)
  <2>1. PICK y : y = Reverted(h, item) /\ list' = [list EXCEPT ![b][i] = y]
    BY <1>0, <1>1, <1>2, RevertedItem DEF Lose
  <2>2. off' = [off EXCEPT ![b] = @ \cup {i}] /\ i \in off'[b]
    BY <1>1, <1>2 DEF Lose, TextsInv, Typed
  <2>3. PICK x : hand' = [hand EXCEPT ![s] = x] /\ (x = Quiet \/ x.q.inv = i)
    <3>1. CASE hand' = [hand EXCEPT ![s].heard = FALSE]
      <4>1. PICK x : x = [h EXCEPT !.heard = FALSE]
        OBVIOUS
      <4>2. x.q.inv = i
        BY <1>1, <4>1 DEF Busy
      <4>3. hand' = [hand EXCEPT ![s] = x]
        BY <1>1, <3>1, <4>1 DEF TextsInv, Typed
      <4> QED
        BY <4>2, <4>3, Zenon
    <3>2. CASE hand' = [hand EXCEPT ![s] = Quiet]
      BY <3>2, Zenon
    <3> QED
      BY <1>2, <3>1, <3>2 DEF Lose
  <2> QED
    BY <1>0, <1>1, <2>1, <2>2, <2>3, EndView
<1>3. CASE Unread(s)
  <2>1. /\ hand' = [hand EXCEPT ![s] = Quiet] /\ off' = off
        /\ list' = [list EXCEPT ![b][i] = item] /\ ~h.heard
    BY <1>1, <1>3 DEF Unread
  <2>2. i \in off[b]
    BY <1>1, <2>1 DEF Expects
  <2> QED
    BY <1>0, <1>1, <2>1, <2>2, EndView
<1> QED
  BY <1>2, <1>3

LEMMA ListKept == TextsInv /\ ListInv /\ [Next]_vars => ListInv'
<1> SUFFICES ASSUME TextsInv, ListInv, [Next]_vars PROVE ListInv'
  OBVIOUS
<1>1. CASE UNCHANGED ListSide
  BY <1>1, ListsStill DEF ListSide, Unchanged
<1>2. ASSUME NEW s \in Slots, Check(s) \/ Fail(s) PROVE ListInv'
  BY <1>2, CheckView
<1>3. ASSUME NEW s \in Slots, Write(s) PROVE ListInv'
  BY <1>3, WriteView
<1>4. ASSUME NEW s \in Slots, PatchGuest(s) PROVE ListInv'
  BY <1>4, PatchGuestView
<1>5. ASSUME NEW s \in Slots, Answered(s) \/ Saved(s) PROVE ListInv'
  BY <1>5, AnsweringView
<1>6. ASSUME NEW s \in Slots, Lose(s) \/ Unread(s) PROVE ListInv'
  BY <1>6, LostView
<1>7. ASSUME NEW s \in Slots, NEW i \in Invs,
             \/ Create(s, i) \/ Toggle(s, i) \/ Delete(s, i)
             \/ \E content \in Drafts, name \in Opt(Names) : Save(s, i, content, name)
      PROVE  ListInv'
  BY <1>7, AskView
<1>8. ASSUME NEW j \in Invs, NEW name \in Opt(Names), Rsvp(j, name) PROVE ListInv'
  <2>1. UNCHANGED <<list, hand, invs>>
    BY <1>8 DEF Rsvp
  <2>2. \A p \in Pages, i \in Invs : Unchanged(p, i)
    BY <1>8, <2>1 DEF Rsvp, Unchanged, TextsInv, Typed
  <2> QED
    BY <2>1, <2>2, ListsStill
<1>9. ASSUME NEW p \in Pages, Load(p) PROVE ListInv'
  BY <1>9, LoadView
<1>10. CASE ListStep
  BY <1>2, <1>3, <1>4, <1>5, <1>6, <1>7, <1>8, <1>9, <1>10 DEF ListStep
<1>11. CASE EditorStep \/ UNCHANGED vars
  BY <1>1, <1>11, EditorsApart DEF vars, ListSide
<1> QED
  BY <1>10, <1>11 DEF Next

LEMMA ListStart == Init => ListInv
<1> SUFFICES ASSUME Init, NEW p \in Pages, NEW i \in Invs PROVE View(p, i)
  BY DEF ListInv
<1>1. OnPage(p, i) = {}
  BY DEF Init, OnPage
<1>2. list[p][i] = ItemOf(i)
  BY DEF Init
<1>3. Truth(ItemOf(i), i)
  BY DEF Truth, ItemOf, NoItem
<1> QED
  BY <1>1, <1>2, <1>3 DEF View

\* A page that waits for nothing on an invitation, and that has nothing to make up for,
\* shows it as the guests see it, whatever pages, requests and publications overlap.
THEOREM ListsTrue == Spec => []ListAgrees
<1>1. ListInv => ListAgrees
  <2> SUFFICES ASSUME ListInv, NEW p \in Pages, NEW i \in Invs \ off[p], OnPage(p, i) = {}
               PROVE  /\ list[p][i].shown <=> Live(i)
                      /\ Live(i) =>
                           /\ list[p][i].sent = invs[i].sent
                           /\ list[p][i].name = guest[i].name
                           /\ list[p][i].content.image = Shown(i).image
                           /\ list[p][i].content.text \in {None, Shown(i).text}
    BY DEF ListAgrees
  <2>1. Truth(list[p][i], i)
    BY DEF ListInv, View
  <2>2. Shown(i).image = invs[i].content.image
    BY DEF Shown
  <2>3. invs[i].content.text \in {None, Shown(i).text}
    BY DEF Shown
  <2> QED
    BY <2>1, <2>2, <2>3 DEF Truth
<1>2. TextsInv /\ ListInv /\ [Next]_vars => TextsInv' /\ ListInv'
  BY TextsKept, ListKept
<1>3. Init => TextsInv /\ ListInv
  BY TextsStart, ListStart
<1> QED
  BY <1>1, <1>2, <1>3, PTL DEF Spec
=============================================================================
