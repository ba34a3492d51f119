--------------------------- MODULE InvitationTexts ---------------------------
(***************************************************************************)
(* What the invitations say: the published template with the couple's bank *)
(* account (api/invitation-template, TemplateEditor.tsx), the texts of     *)
(* each invitation with its "sent" mark (api/invitations/[id]), its        *)
(* companion (api/guests/[id], api/rsvp), the lists of invitations that    *)
(* the couple has open (InvitationsManager.tsx, InvitationDetail.tsx) and  *)
(* what the guests are shown (lib/invitation-public.ts).                   *)
(*                                                                         *)
(* Of the ten fields of an invitation the model keeps one text and the     *)
(* image, the two kinds that buildInvitationView treats differently, and   *)
(* of its guests the one who may bring a companion.  Who is grouped and    *)
(* who may open an invitation are the matters of Invitations and OtpFlow.  *)
(***************************************************************************)
EXTENDS Naturals, Sequences, FiniteSets

CONSTANTS
  Invs,
  Texts, Images, Names, Banks, None,   \* what a field may hold; None: empty, or null
  Drafts,      \* the contents the couple may type
  Editors,     \* template pages, one publication of each in flight
  Slots,       \* functions of the lists that may wait at once
  Pages, PageOf,   \* open lists; the list of a slot
  Faults,      \* which of "error" (the database), "lost" (the network) may happen
  MaxRequests  \* bound: requests ever made

VARIABLES
  templates,  \* table InvitationTemplate, in order of creation
  bank,       \* Wedding.bankAccount, and the publication that last wrote it
  invs,       \* table Invitation
  guest,      \* per invitation, the columns of its guest
  list,       \* state "invitations" of each page
  pub,        \* the publications in flight
  hand,       \* the functions of the lists in flight
  off,        \* bookkeeping: per page, invitations it may be wrong about
  published,  \* bookkeeping: publications committed
  count       \* requests made

vars == <<templates, bank, invs, guest, list, pub, hand, off, published, count>>

Opt(S) == S \cup {None}
Content == [text : Opt(Texts), image : Opt(Images)]
Blank == [text |-> None, image |-> None]

ASSUME TextsAssumption ==
  /\ Drafts \subseteq Content
  /\ PageOf \in [Slots -> Pages]

Template == [version : Nat \ {0}, content : Content]
Bank == [account : Opt(Banks), since : Nat]

States == {"new", "live", "gone"}
Invitation == [state : States, content : Content, sent : BOOLEAN]
Newborn == [state |-> "new", content |-> Blank, sent |-> FALSE]

\* plusOneAllowed, plusOneName.
Guest == [allowed : BOOLEAN, name : Opt(Names)]

NoItem == [shown |-> FALSE]
Item == [shown : {TRUE}, content : Content, sent : BOOLEAN, name : Opt(Names),
         allowed : BOOLEAN]

Quiet == [pc |-> "idle"]
Publication == [pc : {"bank", "read", "commit"}, content : Content, account : Opt(Banks),
                latest : Nat, version : Nat]

Request == [op : {"create"}, inv : Invs]
           \cup [op : {"save"}, inv : Invs, content : Content, name : Opt(Names),
                 allowed : BOOLEAN]
           \cup [op : {"toggle"}, inv : Invs, sent : BOOLEAN]
           \cup [op : {"delete"}, inv : Invs]

\* content: what the handler has read; heard: does the function still wait?
Busy == [pc : {"check", "write", "answer", "guest", "saved"}, q : Request,
         content : Content, ok : BOOLEAN, heard : BOOLEAN]

----------------------------------------------------------------------------
(* The rows *)

\* findFirst by descending version; 0 if there is none.
Latest ==
  IF Len(templates) = 0 THEN 0
  ELSE CHOOSE n \in DOMAIN templates :
         \A k \in DOMAIN templates : templates[k].version <= templates[n].version

\* normalizeTemplateContent: nothing published is the default template.
Base == IF Len(templates) = 0 THEN Blank ELSE templates[Latest].content

Live(i) == invs[i].state = "live"

\* buildInvitationView: an empty text is the template's, a removed image is none.
Shown(i) ==
  [text  |-> IF invs[i].content.text = None THEN Base.text ELSE invs[i].content.text,
   image |-> invs[i].content.image]

ItemOf(i) ==
  IF Live(i) THEN [shown |-> TRUE, content |-> invs[i].content, sent |-> invs[i].sent,
                   name |-> guest[i].name, allowed |-> guest[i].allowed]
  ELSE NoItem

\* Some invitations were sent out before anything was published.
Init ==
  /\ templates = <<>>
  /\ bank = [account |-> None, since |-> 0]
  /\ \E old \in SUBSET Invs :
       invs = [i \in Invs |-> IF i \in old THEN [Newborn EXCEPT !.state = "live"] ELSE Newborn]
  /\ guest = [i \in Invs |-> [allowed |-> TRUE, name |-> None]]
  /\ list = [p \in Pages |-> [i \in Invs |-> ItemOf(i)]]
  /\ pub = [e \in Editors |-> Quiet]
  /\ hand = [s \in Slots |-> Quiet]
  /\ off = [p \in Pages |-> {}]
  /\ published = 0
  /\ count = 0

Counted == count < MaxRequests /\ count' = count + 1

----------------------------------------------------------------------------
(* POST /api/invitation-template *)

\* handleSave posts the whole draft, and the bank account with it.
Publish(e, content, account) ==
  /\ pub[e] = Quiet
  /\ Counted
  /\ pub' = [pub EXCEPT ![e] = [pc |-> "bank", content |-> content, account |-> account,
                                latest |-> 0, version |-> 0]]
  /\ UNCHANGED <<templates, bank, invs, guest, list, hand, off, published>>

\* Writing the Wedding row locks it until the transaction ends.
Locked == \E e \in Editors : pub[e].pc \in {"read", "commit"}

BankUnlocked(e) ==
  /\ pub[e].pc = "bank"
  /\ pub' = [pub EXCEPT ![e].pc = "read"]
  /\ UNCHANGED <<templates, bank, invs, guest, list, hand, off, published, count>>

UpdateBank(e) ==
  /\ pub[e].pc = "bank"
  /\ ~Locked
  /\ pub' = [pub EXCEPT ![e].pc = "read"]
  /\ UNCHANGED <<templates, bank, invs, guest, list, hand, off, published, count>>

FirstFromZero == IF Latest = 0 THEN 0 ELSE templates[Latest].version + 1

\* DEFAULT_TEMPLATE_VERSION, or incrementVersion.
NextVersion == IF Latest = 0 THEN 1 ELSE templates[Latest].version + 1

\* findFirst.
ReadLatest(e) ==
  /\ pub[e].pc = "read"
  /\ pub' = [pub EXCEPT ![e].pc = "commit", ![e].latest = Latest, ![e].version = NextVersion]
  /\ UNCHANGED <<templates, bank, invs, guest, list, hand, off, published, count>>

Row(e) == [version |-> pub[e].version, content |-> pub[e].content]

\* The update, or the creation.
Upserted(e) ==
  IF pub[e].latest = 0 THEN Append(templates, Row(e))
  ELSE [templates EXCEPT ![pub[e].latest] = Row(e)]

CommitApart(e) ==
  /\ pub[e].pc = "commit"
  /\ templates' = Upserted(e)
  /\ published' = published + 1
  /\ pub' = [pub EXCEPT ![e] = Quiet]
  /\ UNCHANGED <<bank, invs, guest, list, hand, off, count>>

\* Both writes become visible at the end of the transaction.
Commit(e) ==
  /\ pub[e].pc = "commit"
  /\ templates' = Upserted(e)
  /\ bank' = [account |-> pub[e].account, since |-> pub[e].version]
  /\ published' = published + 1
  /\ pub' = [pub EXCEPT ![e] = Quiet]
  /\ UNCHANGED <<invs, guest, list, hand, off, count>>

\* A statement fails or the process dies: the transaction leaves nothing.
Abort(e) ==
  /\ "error" \in Faults
  /\ pub[e] # Quiet
  /\ pub' = [pub EXCEPT ![e] = Quiet]
  /\ UNCHANGED <<templates, bank, invs, guest, list, hand, off, published, count>>

\* PATCH /api/wedding, which waits for the lock.
PatchBank(account) ==
  /\ Counted
  /\ ~Locked
  /\ bank' = [bank EXCEPT !.account = account]
  /\ UNCHANGED <<templates, invs, guest, list, pub, hand, off, published>>

----------------------------------------------------------------------------
(* What the couple does in a list *)

OnPage(p, i) == {s \in Slots : PageOf[s] = p /\ hand[s] # Quiet /\ hand[s].q.inv = i}

\* Two functions of one page on one invitation overlap: it may end up wrong.
Start(s, q, item) ==
  /\ hand[s] = Quiet
  /\ Counted
  /\ hand' = [hand EXCEPT ![s] = [pc |-> "check", q |-> q, content |-> Blank, ok |-> FALSE,
                                  heard |-> TRUE]]
  /\ list' = [list EXCEPT ![PageOf[s]][q.inv] = item]
  /\ off' = IF OnPage(PageOf[s], q.inv) = {} THEN off
            ELSE [off EXCEPT ![PageOf[s]] = @ \cup {q.inv}]
  /\ UNCHANGED <<templates, bank, invs, guest, pub, published>>

\* handleCreate, for an invitation with a new id.
Create(s, i) ==
  /\ invs[i].state = "new"
  /\ \A k \in Slots : hand[k] # Quiet => hand[k].q.inv # i
  /\ Start(s, [op |-> "create", inv |-> i], NoItem)

\* handleSave of the detail: the whole draft, and the companion if the page knows that
\* there may be one.
Save(s, i, content, name) ==
  LET item == list[PageOf[s]][i] IN
    /\ item.shown
    /\ item.allowed \/ name = item.name
    /\ Start(s, [op |-> "save", inv |-> i, content |-> content, name |-> name,
                 allowed |-> item.allowed], item)

\* toggleSent: the mark changes at once.
Toggle(s, i) ==
  LET item == list[PageOf[s]][i] IN
    /\ item.shown
    /\ Start(s, [op |-> "toggle", inv |-> i, sent |-> ~item.sent],
             [item EXCEPT !.sent = ~item.sent])

\* handleDelete.
Delete(s, i) ==
  /\ list[PageOf[s]][i].shown
  /\ Start(s, [op |-> "delete", inv |-> i], list[PageOf[s]][i])

----------------------------------------------------------------------------
(* The handlers of POST /api/invitations, PATCH and DELETE /api/invitations/[id] *)

\* What one page changes the others do not hear of.
Unheard(s, i) ==
  off' = [p \in Pages |-> IF p = PageOf[s] THEN off[p] ELSE off[p] \cup {i}]

\* The page of a creation gets the content back; the others know what they sent.
Answer(s, ok) ==
  hand' = [hand EXCEPT ![s].pc = "answer", ![s].ok = ok,
             ![s].content = IF ok /\ hand[s].q.op = "create" THEN @ ELSE Blank]

\* The row is read, for a creation the template: what will be written is known now.
Check(s) ==
  /\ hand[s].pc = "check"
  /\ LET q == hand[s].q IN
       IF q.op # "create" /\ ~Live(q.inv) THEN Answer(s, FALSE)
       ELSE hand' = [hand EXCEPT ![s].pc = "write",
                       ![s].content = IF q.op = "create" THEN Base ELSE invs[q.inv].content]
  /\ UNCHANGED <<templates, bank, invs, guest, list, pub, off, published, count>>

\* A draft brings every field, {sent} none.
MergedAnew(s) == IF hand[s].q.op = "save" THEN hand[s].q.content ELSE Blank
Merged(s) == IF hand[s].q.op = "save" THEN hand[s].q.content ELSE hand[s].content

UpdatedWhole(s) ==
  [invs[hand[s].q.inv] EXCEPT !.content = Merged(s),
     !.sent = hand[s].q.op = "toggle" /\ hand[s].q.sent]

\* {sent} sets the mark; a draft does not touch it.
Updated(s) ==
  [invs[hand[s].q.inv] EXCEPT !.content = Merged(s),
     !.sent = IF hand[s].q.op = "toggle" THEN hand[s].q.sent ELSE @]

Written(s) ==
  LET op == hand[s].q.op IN
    CASE op = "create" -> [state |-> "live", content |-> hand[s].content, sent |-> FALSE]
      [] op = "delete" -> [invs[hand[s].q.inv] EXCEPT !.state = "gone"]
      [] OTHER -> Updated(s)

\* Updating or deleting a row that is gone is an error.
Write(s) ==
  /\ hand[s].pc = "write"
  /\ LET q == hand[s].q IN
       IF q.op # "create" /\ ~Live(q.inv)
         THEN Answer(s, FALSE) /\ UNCHANGED <<invs, off>>
         ELSE /\ invs' = [invs EXCEPT ![q.inv] = Written(s)]
              /\ Answer(s, TRUE)
              /\ Unheard(s, q.inv)
  /\ UNCHANGED <<templates, bank, guest, list, pub, published, count>>

\* A statement fails: the route answers 500.
Fail(s) ==
  /\ "error" \in Faults
  /\ hand[s].pc \in {"check", "write"}
  /\ Answer(s, FALSE)
  /\ UNCHANGED <<templates, bank, invs, guest, list, pub, off, published, count>>

\* PATCH /api/guests/[id] {plusOneName}, after the texts are saved.  The schema's
\* defaults come with it and take the permission away.  A refusal goes unnoticed.
PatchGuest(s) ==
  /\ hand[s].pc = "guest"
  /\ hand' = [hand EXCEPT ![s].pc = "saved"]
  /\ LET i == hand[s].q.inv IN
       \/ /\ guest' = [guest EXCEPT ![i] = [allowed |-> FALSE, name |-> hand[s].q.name]]
          /\ Unheard(s, i)
       \/ /\ "error" \in Faults
          /\ off' = [off EXCEPT ![PageOf[s]] = @ \cup {i}]
          /\ UNCHANGED guest
  /\ UNCHANGED <<templates, bank, invs, list, pub, published, count>>

\* POST /api/rsvp with a companion's name, which is stored whether one is allowed or
\* not.
Rsvp(i, name) ==
  /\ Counted
  /\ Live(i)
  /\ guest' = [guest EXCEPT ![i].name = name]
  /\ off' = [p \in Pages |-> off[p] \cup {i}]
  /\ UNCHANGED <<templates, bank, invs, list, pub, hand, published>>

----------------------------------------------------------------------------
(* Answers *)

\* revertSent turns the mark again, whatever it is now; other failures change nothing.
Revert(s) ==
  LET i == hand[s].q.inv  p == PageOf[s] IN
    list' = IF hand[s].q.op = "toggle" /\ list[p][i].shown
              THEN [list EXCEPT ![p][i].sent = ~list[p][i].sent] ELSE list

\* What a success puts into the list: onSaved keeps the mark.
Confirmed(s) ==
  LET q == hand[s].q  item == list[PageOf[s]][q.inv] IN
    CASE q.op = "create" -> [shown |-> TRUE, content |-> hand[s].content, sent |-> FALSE,
                             name |-> guest[q.inv].name, allowed |-> guest[q.inv].allowed]
      [] q.op = "save" /\ item.shown -> [item EXCEPT !.content = q.content, !.name = q.name]
      [] q.op = "delete" -> NoItem
      [] OTHER -> item

Confirm(s) == list' = [list EXCEPT ![PageOf[s]][hand[s].q.inv] = Confirmed(s)]

\* A detail that knows of a companion goes on with the guest.
Answered(s) ==
  /\ hand[s].pc = "answer" /\ hand[s].heard
  /\ LET q == hand[s].q IN
       IF hand[s].ok /\ q.op = "save" /\ q.allowed
         THEN hand' = [hand EXCEPT ![s].pc = "guest"] /\ UNCHANGED list
         ELSE hand' = [hand EXCEPT ![s] = Quiet] /\ IF hand[s].ok THEN Confirm(s) ELSE Revert(s)
  /\ UNCHANGED <<templates, bank, invs, guest, pub, off, published, count>>

Saved(s) ==
  /\ hand[s].pc = "saved" /\ hand[s].heard
  /\ hand' = [hand EXCEPT ![s] = Quiet]
  /\ Confirm(s)
  /\ UNCHANGED <<templates, bank, invs, guest, pub, off, published, count>>

\* The network fails: the function gives up, and the handler, if it got the request,
\* goes on to the end of it.
Lose(s) ==
  /\ "lost" \in Faults
  /\ hand[s] # Quiet /\ hand[s].heard
  /\ Revert(s)
  /\ \/ hand' = [hand EXCEPT ![s].heard = FALSE]
     \/ hand[s].pc \in {"check", "guest"} /\ hand' = [hand EXCEPT ![s] = Quiet]
  /\ off' = [off EXCEPT ![PageOf[s]] = @ \cup {hand[s].q.inv}]
  /\ UNCHANGED <<templates, bank, invs, guest, pub, published, count>>

Unread(s) ==
  /\ hand[s].pc \in {"answer", "saved"} /\ ~hand[s].heard
  /\ hand' = [hand EXCEPT ![s] = Quiet]
  /\ UNCHANGED <<templates, bank, invs, guest, list, pub, off, published, count>>

\* The page is loaded again, while nothing of it is in flight.
Load(p) ==
  /\ \A s \in Slots : PageOf[s] = p => hand[s] = Quiet
  /\ list' = [list EXCEPT ![p] = [i \in Invs |-> ItemOf(i)]]
  /\ off' = [off EXCEPT ![p] = {}]
  /\ UNCHANGED <<templates, bank, invs, guest, pub, hand, published, count>>

EditorStep ==
  \/ \E e \in Editors : UpdateBank(e) \/ ReadLatest(e) \/ Commit(e) \/ Abort(e)
  \/ \E e \in Editors, content \in Drafts, account \in Banks : Publish(e, content, account)
  \/ \E account \in Opt(Banks) : PatchBank(account)

ListStep ==
  \/ \E s \in Slots :
       \/ Check(s) \/ Write(s) \/ Fail(s) \/ PatchGuest(s)
       \/ Answered(s) \/ Saved(s) \/ Lose(s) \/ Unread(s)
  \/ \E s \in Slots, i \in Invs :
       \/ Create(s, i) \/ Toggle(s, i) \/ Delete(s, i)
       \/ \E content \in Drafts, name \in Opt(Names) : Save(s, i, content, name)
  \/ \E i \in Invs, name \in Opt(Names) : Rsvp(i, name)
  \/ \E p \in Pages : Load(p)

Next == EditorStep \/ ListStep

Spec == Init /\ [][Next]_vars

----------------------------------------------------------------------------
(* Properties *)

\* Type invariant.
TypeOK ==
  /\ templates \in Seq(Template)
  /\ bank \in Bank
  /\ invs \in [Invs -> Invitation]
  /\ guest \in [Invs -> Guest]
  /\ list \in [Pages -> [Invs -> {NoItem} \cup Item]]
  /\ pub \in [Editors -> {Quiet} \cup Publication]
  /\ hand \in [Slots -> {Quiet} \cup Busy]
  /\ off \in [Pages -> SUBSET Invs]
  /\ published \in Nat /\ count \in Nat

\* However many publications overlap, there is one template row and its version counts
\* them: no two write the same version and no two create the first row.  What keeps
\* them apart is only that each writes the bank account first.
EveryPublicationCounts ==
  /\ Len(templates) <= 1
  /\ published = IF Len(templates) = 0 THEN 0 ELSE templates[1].version

\* "Either both the Wedding.bankAccount update and the template write commit, or
\* neither does" (invitation-template/route.ts): the bank account is the one of the
\* template's publication, or was set apart from any.
NothingHalfPublished ==
  bank.since = IF Len(templates) = 0 THEN 0 ELSE templates[Latest].version

\* A page that waits for nothing on an invitation, and whose functions on it followed
\* one another and were answered, shows what the guests see, whether it is marked as
\* sent, and who comes along, unless somebody else changed it.
ListAgrees ==
  \A p \in Pages : \A i \in Invs \ off[p] :
    OnPage(p, i) = {} =>
      /\ list[p][i].shown <=> Live(i)
      /\ Live(i) =>
           /\ list[p][i].sent = invs[i].sent
           /\ list[p][i].name = guest[i].name
           /\ list[p][i].content.image = Shown(i).image
           /\ list[p][i].content.text \in {None, Shown(i).text}

\* Saving texts, on however old a page, never changes the mark of an invitation: only
\* a toggle does, and only to what it asked for.
MarkedByToggle ==
  [][\A i \in Invs : Live(i) /\ invs'[i].sent # invs[i].sent
       => \E s \in Slots : hand[s].pc = "write" /\ hand[s].q.op = "toggle"
                           /\ hand[s].q.inv = i /\ hand[s].q.sent = invs'[i].sent]_vars
=============================================================================
