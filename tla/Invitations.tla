----------------------------- MODULE Invitations -----------------------------
(***************************************************************************)
(* Invitations of one wedding: the guests they group, the phones they      *)
(* accept and the answers that come back through them                      *)
(* (src/app/api/guests, src/app/api/invitations, src/app/api/rsvp and      *)
(* src/lib/invitation-public-db.ts).                                       *)
(*                                                                         *)
(* Both partners use the panel at once (hand), while the guests' devices   *)
(* answer from pages that were loaded some time ago (devs).  A handler     *)
(* reads, and writes later; everything runs in between.  A browser has one *)
(* cookie, and its answers count for the invitation the cookie names,      *)
(* whatever page they are sent from (cookie).  Who may open an invitation  *)
(* is the matter of OtpFlow: here a device opens any.                      *)
(***************************************************************************)
EXTENDS Integers, FiniteSets

CONSTANTS Guests, Invs, Phones,
          Answers,       \* what a guest may answer: confirmed, declined
          Handlers,      \* slots for in-flight requests of the panel
          Devices,       \* the guests' browsers
          MaxRequests,   \* bound on the requests of the panel
          Null

ASSUME InvitationsAssumption ==
  /\ Null \notin Invs \cup Phones \cup Devices
  /\ "pending" \notin Answers
  /\ MaxRequests \in Nat

VARIABLES
  guests,    \* Guest rows
  invs,      \* Invitation rows
  hand,      \* the requests of the panel
  cookie,    \* the invitation each browser has access to
  devs,      \* the guests' pages and their POST /api/rsvp
  asked,     \* how many requests the panel has made
  contested  \* the guests that two creations found without invitation at once

vars == <<guests, invs, hand, cookie, devs, asked, contested>>

States == {"new", "live", "gone"}

\* by and from are the invitation and the browser of the last answer, was the
\* invitations that have grouped the guest: all are kept for the properties only,
\* like contested.
Guest == [state : States, phone : Phones \cup {Null}, inv : Invs \cup {Null},
          rsvp : Answers \cup {"pending"}, by : Invs \cup {Null},
          from : Devices \cup {Null}, was : SUBSET Invs]
Invitation == [state : States, phones : SUBSET Phones]

Requests ==
  [op : {"add", "edit"}, guest : Guests, phone : Phones \cup {Null}]
  \cup [op : {"drop"}, guest : Guests]
  \cup [op : {"create"}, inv : Invs, group : SUBSET Guests \ {{}}]
  \cup [op : {"delete"}, inv : Invs]

Idle == [pc |-> "idle"]
Handler == [pc : {"check"}, q : Requests]
           \cup [pc : {"write"}, q : Requests, phones : SUBSET Phones]

\* A page: the invitation it shows, all guests on it, and (for the properties)
\* those of them that the invitation grouped when it was loaded.
Page == [inv : Invs, shown : SUBSET Guests, own : SUBSET Guests]

Away == [pc |-> "away"]
OnPage(page) == [pc |-> "page", page |-> page]
Posting == {"lookup", "members", "store", "view"}
Choices(page) == [page.shown -> Answers]

\* A POST /api/rsvp in flight: the invitation of its cookie, and the guests it
\* will update once it has read them.
Post == UNION {[pc : Posting, page : {p}, inv : Invs, answer : Choices(p),
                valid : SUBSET p.shown] : p \in Page}

Newborn == [state |-> "new", phone |-> Null, inv |-> Null, rsvp |-> "pending",
            by |-> Null, from |-> Null, was |-> {}]
Listed(phone) == [Newborn EXCEPT !.state = "live", !.phone = phone]

\* Some guests are in the list from the start.
Init ==
  /\ \E listed \in SUBSET Guests : \E phone \in [listed -> Phones \cup {Null}] :
       guests = [g \in Guests |-> IF g \in listed THEN Listed(phone[g]) ELSE Newborn]
  /\ invs = [i \in Invs |-> [state |-> "new", phones |-> {}]]
  /\ hand = [h \in Handlers |-> Idle]
  /\ cookie = [d \in Devices |-> Null]
  /\ devs = [d \in Devices |-> Away]
  /\ asked = 0
  /\ contested = {}

Present(g) == guests[g].state = "live"
Open(i) == invs[i].state = "live"

----------------------------------------------------------------------------
(* The panel *)

UninvitedOrNot(group) == \A g \in group : Present(g)

\* Everybody chosen is in the guest list and has no invitation yet.
Uninvited(group) == \A g \in group : Present(g) /\ guests[g].inv = Null

\* What a handler reads before it writes; otherwise it answers 404 or 409.
Passes(q) ==
  CASE q.op = "add" -> TRUE
    [] q.op \in {"edit", "drop"} -> Present(q.guest)
    [] q.op = "create" -> Uninvited(q.group)
    [] q.op = "delete" -> Open(q.inv)

PhonesOrNull(q) ==
  IF q.op = "create" THEN {guests[g].phone : g \in q.group} ELSE {}

\* acceptedPhones of a new invitation, from the rows as they were read.
AcceptedPhones(q) ==
  IF q.op = "create" THEN {guests[g].phone : g \in q.group} \ {Null} ELSE {}

\* A request arrives.  The ids of new rows are fresh.
Arrive(h, q) ==
  /\ hand[h] = Idle
  /\ asked < MaxRequests
  /\ LET queued == {hand[k].q : k \in {k \in Handlers : hand[k] # Idle}} IN
       /\ q.op = "add" => /\ guests[q.guest].state = "new"
                          /\ \A o \in queued : o.op = "add" => o.guest # q.guest
       /\ q.op = "create" => /\ invs[q.inv].state = "new"
                             /\ \A o \in queued : o.op = "create" => o.inv # q.inv
  /\ hand' = [hand EXCEPT ![h] = [pc |-> "check", q |-> q]]
  /\ asked' = asked + 1
  /\ UNCHANGED <<guests, invs, cookie, devs, contested>>

\* The guests that creations about to write have found uninvited.
Taken == UNION {hand[k].q.group :
                  k \in {k \in Handlers : hand[k].pc = "write" /\ hand[k].q.op = "create"}}

Check(h) ==
  /\ hand[h].pc = "check"
  /\ LET q == hand[h].q IN
       hand' = [hand EXCEPT ![h] =
         IF Passes(q) THEN [pc |-> "write", q |-> q, phones |-> AcceptedPhones(q)]
                      ELSE Idle]
  /\ contested' = contested \cup
       (IF hand[h].q.op = "create" /\ Passes(hand[h].q) THEN hand[h].q.group \cap Taken
                                                       ELSE {})
  /\ UNCHANGED <<guests, invs, cookie, devs, asked>>

AddGuest(q) ==
  /\ guests' = [guests EXCEPT ![q.guest].state = "live", ![q.guest].phone = q.phone]
  /\ UNCHANGED invs

\* The phones that the guest's invitation accepts stay as they are.
EditGuest(q) ==
  /\ Present(q.guest)
  /\ guests' = [guests EXCEPT ![q.guest].phone = q.phone]
  /\ UNCHANGED invs

DropGuest(q) ==
  /\ Present(q.guest)
  /\ guests' = [guests EXCEPT ![q.guest].state = "gone", ![q.guest].inv = Null]
  /\ UNCHANGED invs

Joined(g, i) == [guests[g] EXCEPT !.inv = i, !.was = @ \cup {i}]

\* The row and its guests in one transaction.  Guests are connected by id,
\* whatever they are connected to by now; one that is gone undoes it all.
CreateInvitation(q, phones) ==
  /\ \A g \in q.group : Present(g)
  /\ guests' = [g \in Guests |-> IF g \in q.group THEN Joined(g, q.inv) ELSE guests[g]]
  /\ invs' = [invs EXCEPT ![q.inv] = [state |-> "live", phones |-> phones]]

StillGrouped(i) == guests

\* The guests without invitation i.
Ungrouped(i) ==
  [g \in Guests |-> IF guests[g].inv = i THEN [guests[g] EXCEPT !.inv = Null]
                                         ELSE guests[g]]

DeleteInvitation(q) ==
  /\ Open(q.inv)
  /\ guests' = Ungrouped(q.inv)
  /\ invs' = [invs EXCEPT ![q.inv].state = "gone"]

\* Do the rows the statement needs still exist?
Applies(q) ==
  CASE q.op = "add" -> TRUE
    [] q.op \in {"edit", "drop"} -> Present(q.guest)
    [] q.op = "create" -> \A g \in q.group : Present(g)
    [] q.op = "delete" -> Open(q.inv)

Write(h) ==
  /\ hand[h].pc = "write"
  /\ LET q == hand[h].q IN
       \/ q.op = "add" /\ AddGuest(q)
       \/ q.op = "edit" /\ EditGuest(q)
       \/ q.op = "drop" /\ DropGuest(q)
       \/ q.op = "create" /\ CreateInvitation(q, hand[h].phones)
       \/ q.op = "delete" /\ DeleteInvitation(q)
       \/ ~Applies(q) /\ UNCHANGED <<guests, invs>>
  /\ hand' = [hand EXCEPT ![h] = Idle]
  /\ UNCHANGED <<cookie, devs, asked, contested>>

\* A database error: nothing is written.
FailPanel(h) ==
  /\ hand[h] # Idle
  /\ hand' = [hand EXCEPT ![h] = Idle]
  /\ UNCHANGED <<guests, invs, cookie, devs, asked, contested>>

----------------------------------------------------------------------------
(* The guests *)

Members(i) == {g \in Guests : guests[g].inv = i}

\* The page also shows whoever has one of the accepted phones.
Shown(i) == Members(i) \cup {g \in Guests : Present(g) /\ guests[g].phone \in invs[i].phones}

\* A tab of the browser passes the gate of invitation i: its cookie replaces the
\* one of another invitation, while pages and requests in flight stay.
Enter(d, i) ==
  /\ Open(i) /\ cookie[d] # i
  /\ cookie' = [cookie EXCEPT ![d] = i]
  /\ UNCHANGED <<guests, invs, hand, devs, asked, contested>>

\* GET /w/[slug]/invitation, shown to a browser with the cookie of i only.
Load(d, i) ==
  /\ devs[d].pc \in {"away", "page"}
  /\ Open(i) /\ cookie[d] = i
  /\ devs' = [devs EXCEPT ![d] =
                OnPage([inv |-> i, shown |-> Shown(i), own |-> Members(i)])]
  /\ UNCHANGED <<guests, invs, hand, cookie, asked, contested>>

\* The page posts an answer for everybody it shows, with the browser's cookie:
\* the button is disabled while one of them is pending.
Submit(d) ==
  /\ devs[d].pc = "page" /\ devs[d].page.shown # {}
  /\ \E answer \in Choices(devs[d].page) :
       devs' = [devs EXCEPT ![d] = [pc |-> "lookup", page |-> devs[d].page, inv |-> cookie[d],
                                    answer |-> answer, valid |-> {}]]
  /\ UNCHANGED <<guests, invs, hand, cookie, asked, contested>>

\* The device is back on its page, with an error or the result.
Return(d) == devs' = [devs EXCEPT ![d] = OnPage(devs[d].page)]

\* The invitation looked up is the cookie's, not the page's.
Lookup(d) ==
  /\ devs[d].pc = "lookup"
  /\ IF Open(devs[d].inv) THEN devs' = [devs EXCEPT ![d].pc = "members"]
                          ELSE Return(d)
  /\ UNCHANGED <<guests, invs, hand, cookie, asked, contested>>

AllPosted(post) == post.page.shown

\* Only guests of the invitation are updated, not those shown for their phone.
Valid(post) == post.page.shown \cap Members(post.inv)

ReadMembers(d) ==
  /\ devs[d].pc = "members"
  /\ devs' = [devs EXCEPT ![d].pc = "store", ![d].valid = Valid(devs[d])]
  /\ UNCHANGED <<guests, invs, hand, cookie, asked, contested>>

Answered(g, answer, i, d) ==
  [guests[g] EXCEPT !.rsvp = answer[g], !.by = i, !.from = d]

\* One transaction for the family: if one of the rows is gone, nobody's answer
\* is stored.
Store(d) ==
  /\ devs[d].pc = "store"
  /\ \/ /\ \A g \in devs[d].valid : Present(g)
        /\ guests' = [g \in Guests |->
             IF g \in devs[d].valid THEN Answered(g, devs[d].answer, devs[d].inv, d)
                                    ELSE guests[g]]
        /\ devs' = [devs EXCEPT ![d].pc = "view"]
     \/ /\ \E g \in devs[d].valid : ~Present(g)
        /\ Return(d)
        /\ UNCHANGED guests
  /\ UNCHANGED <<invs, hand, cookie, asked, contested>>

\* The answer is ok: true if the invitation can still be shown, 404 otherwise.
View(d) ==
  /\ devs[d].pc = "view"
  /\ Return(d)
  /\ UNCHANGED <<guests, invs, hand, cookie, asked, contested>>

FailRsvp(d) ==
  /\ devs[d].pc \in Posting
  /\ Return(d)
  /\ UNCHANGED <<guests, invs, hand, cookie, asked, contested>>

----------------------------------------------------------------------------
Next ==
  \/ \E h \in Handlers : \/ \E q \in Requests : Arrive(h, q)
                         \/ Check(h) \/ Write(h) \/ FailPanel(h)
  \/ \E d \in Devices : \/ \E i \in Invs : Enter(d, i) \/ Load(d, i)
                        \/ Submit(d) \/ Lookup(d) \/ ReadMembers(d) \/ Store(d)
                        \/ View(d) \/ FailRsvp(d)

Spec == Init /\ [][Next]_vars

----------------------------------------------------------------------------
(* Properties *)

\* Type invariant.
TypeOK ==
  /\ guests \in [Guests -> Guest]
  /\ invs \in [Invs -> Invitation]
  /\ hand \in [Handlers -> {Idle} \cup Handler]
  /\ cookie \in [Devices -> Invs \cup {Null}]
  /\ devs \in [Devices -> {Away} \cup {OnPage(p) : p \in Page} \cup Post]
  /\ asked \in 0 .. MaxRequests
  /\ contested \subseteq Guests

\* DELETE /api/invitations/[id] clears the links of its guests "so guests stay
\* on the panel and can be regrouped later": nobody is left in an invitation
\* that is not there, whatever creation or deletion races with it.
LinkedIsLive == \A g \in Guests : guests[g].inv # Null => Open(guests[g].inv)

\* An answer is only ever stored through an invitation that grouped its guest,
\* although the page shows, and posts, guests of other invitations that share a
\* phone, and although the group may change while the request is in flight.
AnswersFromOwnLink == \A g \in Guests : guests[g].by # Null => guests[g].by \in guests[g].was

\* d is about to be told ok: true.
Confirmed(d) == devs[d].pc = "view" /\ Open(devs[d].inv)

\* The answer d sent for g is stored, unless another browser's took its place.
Kept(d, g) == guests[g].rsvp = devs[d].answer[g] \/ guests[g].from \in Devices \ {d}

\* A device that is told ok has had its answer stored for everybody it sent one
\* for whom the cookie's invitation groups.  If the cookie is still that of the
\* page, nobody of the group the page was loaded with is left out, however long
\* ago that was and whatever the panel did meanwhile: only two creations that
\* both found a guest free can take the guest to another invitation.
OkMeansStored ==
  \A d \in Devices : Confirmed(d) =>
    \A g \in devs[d].page.shown :
      \/ guests[g].inv = devs[d].inv
      \/ /\ devs[d].inv = devs[d].page.inv /\ g \in devs[d].page.own
         /\ Present(g) /\ g \notin contested
      => g \in devs[d].valid /\ Kept(d, g)

\* src/src/lib/invitation-public-db.ts:35-36: the invitation "covers all
\* matching guests, and they RSVP together ... phone matching is the link".
\* Even with the cookie of the page and without competing creations.
FamilyAnswersTogether ==
  \A d \in Devices : Confirmed(d) /\ devs[d].inv = devs[d].page.inv =>
    \A g \in devs[d].page.shown : Present(g) /\ g \notin contested => Kept(d, g)
=============================================================================
