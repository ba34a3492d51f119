-------------------------- MODULE InvitationsProofs --------------------------
(***************************************************************************)
(* Theorems about Invitations, for any number of guests, invitations,      *)
(* phones, requests and devices.                                           *)
(*                                                                         *)
(* RowsInv speaks of the rows; its own contribution is that an invitation  *)
(* that groups a guest is counted among those that ever did (LinksCounted).*)
(* PostsInv is what a request of a guest knows between reading the group   *)
(* and storing the answers: the guests it will update have been grouped by *)
(* its invitation, and that stays true when the group changes.  GroupInv,  *)
(* in the second part, says what pages and requests know of the groups.    *)
(***************************************************************************)
EXTENDS Invitations, TLAPS

RowsType == guests \in [Guests -> Guest] /\ invs \in [Invs -> Invitation]

LinksCounted == \A g \in Guests : guests[g].inv # Null => guests[g].inv \in guests[g].was

RowsInv == RowsType /\ LinkedIsLive /\ LinksCounted /\ AnswersFromOwnLink

\* The guests a request will update have been in its invitation's group.
PostsInv ==
  \A d \in Devices : devs[d].pc \in Posting =>
    \A g \in devs[d].valid : devs[d].inv \in guests[g].was

Device == {Away} \cup {OnPage(p) : p \in Page} \cup Post

PanelType == /\ hand \in [Handlers -> {Idle} \cup Handler]
             /\ asked \in 0 .. MaxRequests
             /\ contested \in SUBSET Guests

\* A browser with a page has a cookie.
CookieInv == /\ cookie \in [Devices -> Invs \cup {Null}]
             /\ \A d \in Devices : devs[d] # Away => cookie[d] # Null

Inv == RowsInv /\ PostsInv /\ PanelType /\ CookieInv /\ devs \in [Devices -> Device]

\* No step takes an invitation out of a guest's past.
PastKept == \A g \in Guests : guests[g].was \subseteq guests'[g].was

----------------------------------------------------------------------------
(* The fields of requests, handlers and devices *)

LEMMA RequestFields ==
  ASSUME NEW q \in Requests
  PROVE  /\ q.op \in {"add", "edit"} => q.guest \in Guests /\ q.phone \in Phones \cup {Null}
         /\ q.op = "drop" => q.guest \in Guests
         /\ q.op = "create" => q.inv \in Invs /\ q.group \in SUBSET Guests
         /\ q.op = "delete" => q.inv \in Invs
         /\ q.op \in {"add", "edit", "drop", "create", "delete"}
BY DEF Requests

LEMMA HandlerFields ==
  ASSUME NEW r \in {Idle} \cup Handler
  PROVE  /\ r.pc \in {"check", "write"} => r.q \in Requests
         /\ r.pc = "write" => r.phones \in SUBSET Phones
         /\ r # Idle => r.pc \in {"check", "write"}
         /\ Idle.pc = "idle"
BY DEF Idle, Handler

LEMMA DeviceFields ==
  ASSUME NEW r \in Device
  PROVE  /\ r # Away => r.page \in Page
         /\ r.pc \in Posting => /\ r.page \in Page
                                /\ r.inv \in Invs
                                /\ r.answer \in Choices(r.page)
                                /\ r.valid \in SUBSET r.page.shown
                                /\ r = [pc |-> r.pc, page |-> r.page, inv |-> r.inv,
                                        answer |-> r.answer, valid |-> r.valid]
         /\ r = Away \/ r = OnPage(r.page) \/ r.pc \in Posting
         /\ Away.pc \notin Posting
         /\ \A p \in Page : OnPage(p).pc \notin Posting /\ OnPage(p).page = p
BY DEF Device, Away, OnPage, Post, Posting, Choices

LEMMA PostMade ==
  ASSUME NEW pc \in Posting, NEW p \in Page, NEW inv \in Invs,
         NEW answer \in Choices(p), NEW valid \in SUBSET p.shown
  PROVE  [pc |-> pc, page |-> p, inv |-> inv, answer |-> answer, valid |-> valid] \in Device
BY DEF Device, Post

\* A request that moves on keeps what it was sent with.
LEMMA PostMoves ==
  ASSUME NEW r \in Device, r.pc \in Posting, NEW pc \in Posting,
         NEW valid \in SUBSET r.page.shown
  PROVE  /\ [r EXCEPT !.pc = pc, !.valid = valid]
              = [pc |-> pc, page |-> r.page, inv |-> r.inv, answer |-> r.answer, valid |-> valid]
         /\ [r EXCEPT !.pc = pc]
              = [pc |-> pc, page |-> r.page, inv |-> r.inv, answer |-> r.answer, valid |-> r.valid]
         /\ [pc |-> pc, page |-> r.page, inv |-> r.inv, answer |-> r.answer, valid |-> valid] \in Device
<1>1. r.page \in Page /\ r.inv \in Invs /\ r.answer \in Choices(r.page)
  BY DeviceFields
<1>2. [pc |-> pc, page |-> r.page, inv |-> r.inv, answer |-> r.answer, valid |-> valid] \in Device
  BY <1>1, PostMade
<1>3. PICK p \in Page :
        r \in [pc : Posting, page : {p}, inv : Invs, answer : Choices(p),
             valid : SUBSET p.shown]
  <2>1. r \in Post
    BY DEF Device, Away, OnPage, Posting
  <2> QED
    BY <2>1 DEF Post
<1>4. [r EXCEPT !.pc = pc, !.valid = valid]
        = [pc |-> pc, page |-> r.page, inv |-> r.inv, answer |-> r.answer, valid |-> valid]
  <2> DEFINE moved == [r EXCEPT !.pc = pc, !.valid = valid]
  <2>1. moved \in [pc : Posting, page : {p}, inv : Invs, answer : Choices(p),
             valid : SUBSET p.shown]
    BY <1>3
  <2>2. /\ moved.pc = pc /\ moved.page = r.page /\ moved.inv = r.inv
       /\ moved.answer = r.answer /\ moved.valid = valid
    BY <1>3
  <2> HIDE DEF moved
  <2>3. moved = [pc |-> pc, page |-> r.page, inv |-> r.inv, answer |-> r.answer, valid |-> valid]
    BY <2>1, <2>2
  <2> QED
    BY <2>3 DEF moved
<1>5. [r EXCEPT !.pc = pc]
        = [pc |-> pc, page |-> r.page, inv |-> r.inv, answer |-> r.answer, valid |-> r.valid]
  <2> DEFINE moved == [r EXCEPT !.pc = pc]
  <2>1. moved \in [pc : Posting, page : {p}, inv : Invs, answer : Choices(p),
             valid : SUBSET p.shown]
    BY <1>3
  <2>2. /\ moved.pc = pc /\ moved.page = r.page /\ moved.inv = r.inv
       /\ moved.answer = r.answer /\ moved.valid = r.valid
    BY <1>3
  <2> HIDE DEF moved
  <2>3. moved = [pc |-> pc, page |-> r.page, inv |-> r.inv, answer |-> r.answer, valid |-> r.valid]
    BY <2>1, <2>2
  <2> QED
    BY <2>3 DEF moved
<1> QED
  BY <1>2, <1>4, <1>5

----------------------------------------------------------------------------
(* The statements that write *)

\* Every statement of the panel keeps the rows in order and nobody's past.
LEMMA PanelKeeps ==
  ASSUME RowsInv, NEW q \in Requests, NEW phones \in SUBSET Phones,
         \/ q.op = "add" /\ AddGuest(q)
         \/ q.op = "edit" /\ EditGuest(q)
         \/ q.op = "drop" /\ DropGuest(q)
         \/ q.op = "create" /\ CreateInvitation(q, phones)
         \/ q.op = "delete" /\ DeleteInvitation(q)
  PROVE  RowsInv' /\ PastKept
<1> USE InvitationsAssumption DEF RowsInv, RowsType
<1>1. CASE \/ q.op = "add" /\ AddGuest(q)
           \/ q.op = "edit" /\ EditGuest(q)
           \/ q.op = "drop" /\ DropGuest(q)
  <2>1. q.guest \in Guests /\ guests[q.guest] \in Guest
    BY <1>1, RequestFields
  <2>2. PICK row \in Guest : /\ guests' = [guests EXCEPT ![q.guest] = row]
                             /\ row.inv \in {Null, guests[q.guest].inv}
                             /\ row.was = guests[q.guest].was
                             /\ row.by = guests[q.guest].by
    <3>1. CASE q.op \in {"add", "edit"} /\ (AddGuest(q) \/ EditGuest(q))
      <4>1. PICK state \in {"live", guests[q.guest].state} :
              guests' = [guests EXCEPT ![q.guest] =
                           [guests[q.guest] EXCEPT !.state = state, !.phone = q.phone]]
        BY <2>1, <3>1 DEF AddGuest, EditGuest, Guest
      <4> DEFINE new == [guests[q.guest] EXCEPT !.state = state, !.phone = q.phone]
      <4>2. /\ new \in Guest /\ new.inv = guests[q.guest].inv
            /\ new.was = guests[q.guest].was /\ new.by = guests[q.guest].by
        BY <2>1, <3>1, RequestFields DEF Guest, States
      <4> QED
        BY <4>1, <4>2
    <3>2. CASE q.op = "drop" /\ DropGuest(q)
      <4> DEFINE new == [guests[q.guest] EXCEPT !.state = "gone", !.inv = Null]
      <4>1. /\ new \in Guest /\ new.inv = Null
            /\ new.was = guests[q.guest].was /\ new.by = guests[q.guest].by
        BY <2>1 DEF Guest, States
      <4>2. guests' = [guests EXCEPT ![q.guest] = new]
        BY <2>1, <3>2 DEF DropGuest
      <4> QED
        BY <4>1, <4>2
    <3> QED
      BY <1>1, <3>1, <3>2
  <2>3. guests' \in [Guests -> Guest] /\ invs' = invs
    BY <1>1, <2>1, <2>2 DEF AddGuest, EditGuest, DropGuest
  <2> QED
    BY <2>1, <2>2, <2>3 DEF LinkedIsLive, LinksCounted, AnswersFromOwnLink, Open, PastKept
<1>2. CASE q.op = "create" /\ CreateInvitation(q, phones)
  <2> DEFINE i == q.inv
  <2>1. i \in Invs /\ i # Null /\ q.group \in SUBSET Guests
    BY <1>2, RequestFields
  <2>2. \A g \in Guests : /\ Joined(g, i) \in Guest /\ Joined(g, i).inv = i
                          /\ Joined(g, i).was = guests[g].was \cup {i}
                          /\ Joined(g, i).by = guests[g].by
    BY <2>1 DEF Joined, Guest
  <2>3. guests' \in [Guests -> Guest]
    BY <1>2, <2>2 DEF CreateInvitation
  <2>4. \A g \in Guests : IF g \in q.group THEN guests'[g] = Joined(g, i)
                                           ELSE guests'[g] = guests[g]
    BY <1>2 DEF CreateInvitation
  <2>5. [state |-> "live", phones |-> phones] \in Invitation
    BY DEF Invitation, States
  <2>6. /\ invs' \in [Invs -> Invitation] /\ invs'[i].state = "live"
        /\ \A j \in Invs \ {i} : invs'[j] = invs[j]
    BY <1>2, <2>1, <2>5 DEF CreateInvitation
  <2>7. \A g \in Guests : guests[g].inv \in Invs \cup {Null}
    BY DEF Guest
  <2>8. LinkedIsLive'
    BY <2>1, <2>2, <2>4, <2>6, <2>7 DEF LinkedIsLive, Open
  <2> QED
    BY <2>2, <2>3, <2>4, <2>6, <2>8 DEF LinksCounted, AnswersFromOwnLink, PastKept
<1>3. CASE q.op = "delete" /\ DeleteInvitation(q)
  <2> DEFINE i == q.inv
             without(g) == IF guests[g].inv = i THEN [guests[g] EXCEPT !.inv = Null]
                                                ELSE guests[g]
  <2>1. i \in Invs
    BY <1>3, RequestFields
  <2>2. \A g \in Guests : /\ without(g) \in Guest
                          /\ without(g).inv \in {Null, guests[g].inv} \ {i}
                          /\ without(g).was = guests[g].was
                          /\ without(g).by = guests[g].by
    BY <2>1 DEF Guest
  <2>3. guests' = [g \in Guests |-> without(g)]
    BY <1>3 DEF DeleteInvitation, Ungrouped
  <2> HIDE DEF without
  <2>4. /\ guests' \in [Guests -> Guest]
        /\ \A g \in Guests : /\ guests'[g].inv \in {Null, guests[g].inv} \ {i}
                             /\ guests'[g].was = guests[g].was
                             /\ guests'[g].by = guests[g].by
    BY <2>2, <2>3
  <2>5. /\ invs' \in [Invs -> Invitation]
        /\ \A j \in Invs \ {i} : invs'[j] = invs[j]
    BY <1>3, <2>1 DEF DeleteInvitation, Invitation, States
  <2>6. \A g \in Guests : guests[g].inv \in Invs \cup {Null}
    BY DEF Guest
  <2>7. LinkedIsLive'
    BY <2>4, <2>5, <2>6 DEF LinkedIsLive, Open
  <2> QED
    BY <2>4, <2>5, <2>7 DEF LinksCounted, AnswersFromOwnLink, PastKept
<1> QED
  BY <1>1, <1>2, <1>3

\* Storing answers keeps the rows in order, and everybody's invitations.
LEMMA StoreKeeps ==
  ASSUME RowsInv, PostsInv, devs \in [Devices -> Device],
         NEW d \in Devices, devs[d].pc = "store",
         guests' = [g \in Guests |->
                      IF g \in devs[d].valid THEN Answered(g, devs[d].answer, devs[d].inv, d)
                                             ELSE guests[g]],
         invs' = invs
  PROVE  RowsInv' /\ \A g \in Guests : /\ guests'[g].was = guests[g].was
                                       /\ guests'[g].inv = guests[g].inv
                                       /\ guests'[g].state = guests[g].state
<1> DEFINE i == devs[d].inv
           valid == devs[d].valid
           new(g) == IF g \in valid THEN Answered(g, devs[d].answer, i, d) ELSE guests[g]
<1>1. /\ i \in Invs /\ valid \in SUBSET devs[d].page.shown
      /\ devs[d].answer \in [devs[d].page.shown -> Answers]
  BY DeviceFields DEF Posting, Choices, Page
<1>2. \A g \in valid : devs[d].answer[g] \in Answers
  BY <1>1
<1>3. \A g \in Guests : guests[g] \in Guest
  BY DEF RowsInv, RowsType
<1>4. \A g \in Guests : /\ new(g) \in Guest
                        /\ new(g).inv = guests[g].inv /\ new(g).was = guests[g].was
                        /\ new(g).state = guests[g].state
                        /\ new(g).by = IF g \in valid THEN i ELSE guests[g].by
  BY <1>1, <1>2, <1>3 DEF Answered, Guest
<1>5. guests' = [g \in Guests |-> new(g)]
  OBVIOUS
<1>6. \A g \in valid : i \in guests[g].was
  BY DEF PostsInv, Posting
<1> HIDE DEF new, valid, i
<1> QED
  BY <1>1, <1>4, <1>5, <1>6
     DEF RowsInv, RowsType, LinkedIsLive, LinksCounted, AnswersFromOwnLink, Open

----------------------------------------------------------------------------
(* The invariant *)

LEMMA InitGuests ==
  Init => /\ guests \in [Guests -> Guest]
          /\ \A g \in Guests : guests[g].inv = Null /\ guests[g].by = Null
<1> SUFFICES ASSUME Init
             PROVE  /\ guests \in [Guests -> Guest]
                    /\ \A g \in Guests : guests[g].inv = Null /\ guests[g].by = Null
  OBVIOUS
<1>1. PICK listed \in SUBSET Guests : \E phone \in [listed -> Phones \cup {Null}] :
        guests = [g \in Guests |-> IF g \in listed THEN Listed(phone[g]) ELSE Newborn]
  BY DEF Init
<1>2. PICK phone \in [listed -> Phones \cup {Null}] :
        guests = [g \in Guests |-> IF g \in listed THEN Listed(phone[g]) ELSE Newborn]
  BY <1>1
<1>3. Newborn \in Guest /\ \A p \in Phones \cup {Null} : Listed(p) \in Guest
  BY DEF Newborn, Listed, Guest, States
<1>4. /\ Newborn.inv = Null /\ Newborn.by = Null
      /\ \A p \in Phones \cup {Null} : Listed(p).inv = Null /\ Listed(p).by = Null
  BY DEF Newborn, Listed
<1> QED
  BY <1>2, <1>3, <1>4

LEMMA InvInit == Init => Inv
<1> SUFFICES ASSUME Init PROVE Inv
  OBVIOUS
<1> USE InvitationsAssumption DEF Init
<1>5. guests \in [Guests -> Guest] /\ \A g \in Guests : guests[g].inv = Null /\ guests[g].by = Null
  BY InitGuests
<1>6. invs \in [Invs -> Invitation]
  BY DEF Invitation, States
<1>7. devs \in [Devices -> Device] /\ PostsInv
  BY DeviceFields DEF Device, PostsInv
<1>8. PanelType
  <2>1. hand = [h \in Handlers |-> Idle] /\ asked = 0 /\ contested = {}
    OBVIOUS
  <2>2. asked \in 0 .. MaxRequests
    BY <2>1
  <2> QED
    BY <2>1, <2>2 DEF PanelType
<1>9. CookieInv
  BY DEF CookieInv
<1> QED
  BY <1>5, <1>6, <1>7, <1>8, <1>9
     DEF Inv, RowsInv, RowsType, LinkedIsLive, LinksCounted, AnswersFromOwnLink

LEMMA InvNext == Inv /\ [Next]_vars => Inv'
<1> SUFFICES ASSUME Inv, [Next]_vars PROVE Inv'
  OBVIOUS
<1>1. UNCHANGED <<guests, invs>> => RowsInv' /\ PastKept
  BY DEF Inv, RowsInv, RowsType, LinkedIsLive, LinksCounted, AnswersFromOwnLink, Open,
         PastKept
<1>2. PastKept /\ devs' = devs => PostsInv' /\ devs' \in [Devices -> Device]
  <2> SUFFICES ASSUME PastKept, devs' = devs, NEW d \in Devices, devs[d].pc \in Posting,
                      NEW g \in devs[d].valid
               PROVE  devs[d].inv \in guests'[g].was
    BY DEF PostsInv, Inv
  <2>1. g \in Guests
    BY DeviceFields DEF Inv, Page
  <2> QED
    BY <2>1 DEF Inv, PostsInv, PastKept
<1>3. ASSUME NEW h \in Handlers,
             NEW r \in {Idle} \cup Handler, hand' = [hand EXCEPT ![h] = r]
      PROVE  hand' \in [Handlers -> {Idle} \cup Handler]
  BY <1>3 DEF Inv, PanelType
<1>4. /\ UNCHANGED <<hand, asked, contested>> => PanelType'
      /\ UNCHANGED <<devs, cookie>> => CookieInv'
  BY DEF Inv, PanelType, CookieInv
\* A device that is not posting, or has just begun to, knows no group yet.
<1>5. ASSUME NEW d \in Devices, NEW r \in Device, devs' = [devs EXCEPT ![d] = r],
             r.pc \in Posting => \A g \in r.valid : r.inv \in guests'[g].was,
             PastKept, cookie' = cookie, cookie[d] # Null
      PROVE  PostsInv' /\ CookieInv' /\ devs' \in [Devices -> Device]
  <2>1. devs' \in [Devices -> Device]
    BY <1>5 DEF Inv
  <2>4. CookieInv'
    BY <1>5 DEF Inv, CookieInv
  <2> SUFFICES ASSUME NEW e \in Devices, devs'[e].pc \in Posting, NEW g \in devs'[e].valid
               PROVE  devs'[e].inv \in guests'[g].was
    BY <2>1, <2>4 DEF PostsInv
  <2>2. CASE e = d
    BY <1>5, <2>2 DEF Inv
  <2>3. CASE e # d
    <3>2. devs'[e] = devs[e] /\ devs[e] \in Device
      BY <1>5, <2>3 DEF Inv
    <3>1. devs'[e] = devs[e] /\ g \in Guests
      BY <3>2, DeviceFields DEF Page
    <3> QED
      BY <1>5, <3>1 DEF Inv, PostsInv, PastKept
  <2> QED
    BY <2>2, <2>3
<1>6. ASSUME NEW h \in Handlers, NEW q \in Requests, Arrive(h, q) PROVE Inv'
  <2>1. [pc |-> "check", q |-> q] \in Handler
    BY DEF Handler
  <2>2. PanelType'
    BY <1>3, <1>6, <2>1, InvitationsAssumption DEF Arrive, Inv, PanelType
  <2> QED
    BY <1>1, <1>2, <1>4, <1>6, <2>2 DEF Arrive, Inv
<1>7. ASSUME NEW h \in Handlers, Check(h) PROVE Inv'
  <2> DEFINE q == hand[h].q
  <2>1. q \in Requests
    BY <1>7, HandlerFields DEF Check, Inv, PanelType
  <2>2. AcceptedPhones(q) \in SUBSET Phones
    BY <2>1, RequestFields DEF AcceptedPhones, Inv, RowsInv, RowsType, Guest
  <2>3. [pc |-> "write", q |-> q, phones |-> AcceptedPhones(q)] \in Handler
    BY <2>1, <2>2 DEF Handler
  <2>5. contested' \in SUBSET Guests
    BY <1>7, <2>1, RequestFields DEF Check, Inv, PanelType
  <2>4. PanelType'
    BY <1>3, <1>7, <2>3, <2>5 DEF Check, Inv, PanelType
  <2> QED
    BY <1>1, <1>2, <1>4, <1>7, <2>4 DEF Check, Inv
<1>8. ASSUME NEW h \in Handlers, Write(h) PROVE Inv'
  <2>1. hand[h].q \in Requests /\ hand[h].phones \in SUBSET Phones
    BY <1>8, HandlerFields DEF Write, Inv, PanelType
  <2>2. RowsInv' /\ PastKept
    BY <1>1, <1>8, <2>1, PanelKeeps DEF Write, Inv
  <2>3. PanelType'
    BY <1>3, <1>8 DEF Write, Inv, PanelType
  <2> QED
    BY <1>2, <1>4, <1>8, <2>2, <2>3 DEF Write, Inv
<1>9. ASSUME NEW h \in Handlers, FailPanel(h) PROVE Inv'
  BY <1>1, <1>2, <1>3, <1>4, <1>9 DEF FailPanel, Inv, PanelType
<1>10. ASSUME NEW d \in Devices, NEW i \in Invs, Load(d, i) PROVE Inv'
  <2> DEFINE p == [inv |-> i, shown |-> Shown(i), own |-> Members(i)]
  <2>1. p \in Page
    BY DEF Page, Shown, Members
  <2>2. OnPage(p) \in Device /\ OnPage(p).pc \notin Posting
    BY <2>1, DeviceFields DEF Device
  <2>3. cookie[d] # Null
    BY <1>10, InvitationsAssumption DEF Load
  <2> QED
    BY <1>1, <1>4, <1>5, <1>10, <2>2, <2>3 DEF Load, Inv
<1>18. ASSUME NEW d \in Devices, NEW i \in Invs, Enter(d, i) PROVE Inv'
  <2>1. CookieInv'
    BY <1>18, InvitationsAssumption DEF Enter, Inv, CookieInv
  <2> QED
    BY <1>1, <1>2, <1>4, <1>18, <2>1 DEF Enter, Inv
<1>11. ASSUME NEW d \in Devices, Return(d), devs[d] # Away, cookie' = cookie PROVE
         PastKept => PostsInv' /\ CookieInv' /\ devs' \in [Devices -> Device]
  <2>1. OnPage(devs[d].page) \in Device /\ OnPage(devs[d].page).pc \notin Posting
    BY <1>11, DeviceFields DEF Device, Inv
  <2> QED
    BY <1>5, <1>11, <2>1 DEF Return, Inv, CookieInv
<1>12. ASSUME NEW d \in Devices, Submit(d) PROVE Inv'
  <2>1. devs[d].page \in Page
    <3>1. devs[d] \in Device /\ devs[d] # Away
      BY <1>12 DEF Submit, Away, Inv
    <3> QED
      BY <3>1, DeviceFields
  <2>2. PICK answer \in Choices(devs[d].page) :
          devs' = [devs EXCEPT ![d] = [pc |-> "lookup", page |-> devs[d].page,
                                       inv |-> cookie[d], answer |-> answer, valid |-> {}]]
    BY <1>12 DEF Submit
  <2>5. cookie[d] # Null
    BY <1>12 DEF Submit, Away, Inv, CookieInv
  <2>6. cookie[d] \in Invs
    BY <2>5 DEF Inv, CookieInv
  <2>3. [pc |-> "lookup", page |-> devs[d].page, inv |-> cookie[d], answer |-> answer,
         valid |-> {}] \in Device
    BY <2>1, <2>6, PostMade DEF Posting
  <2>4. PanelType'
    BY <1>12 DEF Submit, Inv, PanelType
  <2> QED
    BY <1>1, <1>5, <1>12, <2>2, <2>3, <2>4, <2>5 DEF Submit, Inv
<1>13. ASSUME NEW d \in Devices, Lookup(d) PROVE Inv'
  <2>1. CASE devs' = [devs EXCEPT ![d].pc = "members"]
    <3> DEFINE r == [pc |-> "members", page |-> devs[d].page, inv |-> devs[d].inv,
                     answer |-> devs[d].answer,
                     valid |-> devs[d].valid]
    <3> devs[d] \in Device /\ devs[d].pc \in Posting /\ cookie[d] # Null
      BY <1>13 DEF Lookup, Inv, CookieInv, Posting, Away
    <3>1. r \in Device /\ devs' = [devs EXCEPT ![d] = r]
      BY <2>1, DeviceFields, PostMoves DEF Posting
    <3>2. \A g \in r.valid : r.inv \in guests'[g].was
      BY <1>13 DEF Lookup, Inv, PostsInv, Posting
    <3> QED
      BY <1>1, <1>4, <1>5, <1>13, <3>1, <3>2 DEF Lookup, Inv
  <2>2. CASE Return(d)
    BY <1>1, <1>4, <1>11, <1>13, <2>2 DEF Lookup, Inv, Away
  <2> QED
    BY <1>13, <2>1, <2>2 DEF Lookup
<1>14. ASSUME NEW d \in Devices, ReadMembers(d) PROVE Inv'
  <2> DEFINE r == [pc |-> "store", page |-> devs[d].page, inv |-> devs[d].inv,
                   answer |-> devs[d].answer, valid |-> Valid(devs[d])]
  <2> devs[d] \in Device /\ devs[d].pc \in Posting /\ cookie[d] # Null
    BY <1>14 DEF ReadMembers, Inv, CookieInv, Posting, Away
  <2>1. r \in Device /\ devs' = [devs EXCEPT ![d] = r]
    <3>1. Valid(devs[d]) \in SUBSET devs[d].page.shown
      BY DEF Valid
    <3>2. devs' = [devs EXCEPT ![d] = [devs[d] EXCEPT !.pc = "store", !.valid = Valid(devs[d])]]
      BY <1>14 DEF ReadMembers
    <3> QED
      BY <3>1, <3>2, PostMoves DEF Posting
  <2>2. r.inv \in Invs
    BY <1>14, DeviceFields DEF ReadMembers, Inv, Posting
  <2>3. \A g \in r.valid : r.inv \in guests'[g].was
    BY <1>14, <2>2, InvitationsAssumption
       DEF ReadMembers, Valid, Members, Inv, RowsInv, LinksCounted
  <2> QED
    BY <1>1, <1>4, <1>5, <1>14, <2>1, <2>3 DEF ReadMembers, Inv
<1>15. ASSUME NEW d \in Devices, Store(d) PROVE Inv'
  <2>1. CASE devs' = [devs EXCEPT ![d].pc = "view"] /\ UNCHANGED invs /\ ~Return(d)
    <3> DEFINE r == [pc |-> "view", page |-> devs[d].page, inv |-> devs[d].inv,
                     answer |-> devs[d].answer,
                     valid |-> devs[d].valid]
    <3> devs[d] \in Device /\ devs[d].pc \in Posting /\ cookie[d] # Null
      BY <1>15 DEF Store, Inv, CookieInv, Posting, Away
    <3>1. r \in Device /\ devs' = [devs EXCEPT ![d] = r]
      BY <2>1, DeviceFields, PostMoves DEF Posting
    <3>2. RowsInv' /\ \A g \in Guests : guests'[g].was = guests[g].was
      BY <1>15, <2>1, StoreKeeps DEF Store, Inv
    <3>3. \A g \in r.valid : r.inv \in guests'[g].was
      <4>1. devs[d].valid \in SUBSET Guests
        BY <1>15, DeviceFields DEF Store, Inv, Posting, Page
      <4> QED
        BY <1>15, <3>2, <4>1 DEF Store, Inv, PostsInv, Posting
    <3> QED
      BY <1>4, <1>5, <1>15, <3>1, <3>2, <3>3 DEF Store, Inv, PastKept
  <2>2. CASE Return(d) /\ UNCHANGED <<guests, invs>>
    BY <1>1, <1>4, <1>11, <1>15, <2>2 DEF Store, Inv, Away
  <2>3. devs[d].pc = "store" /\ devs[d] # Away
    BY <1>15 DEF Store, Away
  <2>4. devs' = [devs EXCEPT ![d].pc = "view"] => ~Return(d)
    BY <2>3, DeviceFields DEF Return, OnPage, Inv
  <2> QED
    BY <1>15, <2>1, <2>2, <2>4 DEF Store
<1>16. ASSUME NEW d \in Devices, View(d) \/ FailRsvp(d) PROVE Inv'
  BY <1>1, <1>4, <1>11, <1>16, DeviceFields DEF View, FailRsvp, Inv, Away, Posting
<1>17. CASE UNCHANGED vars
  BY <1>1, <1>2, <1>4, <1>17 DEF vars, Inv
<1> QED
  BY <1>6, <1>7, <1>8, <1>9, <1>10, <1>12, <1>13, <1>14, <1>15, <1>16, <1>17, <1>18 DEF Next

LEMMA InvHolds == Spec => []Inv
<1> QED
  BY InvInit, InvNext, PTL DEF Spec

\* Every row, request and page has its type, whatever the interleaving.
THEOREM TypeCorrect == Spec => []TypeOK
<1>1. Inv => TypeOK
  BY DEF Inv, RowsInv, RowsType, PanelType, CookieInv, Device, TypeOK
<1> QED
  BY <1>1, InvHolds, PTL

\* Nobody is left in an invitation that was deleted, whatever raced with it.
THEOREM NobodyLeftBehind == Spec => []LinkedIsLive
<1>1. Inv => LinkedIsLive
  BY DEF Inv, RowsInv
<1> QED
  BY <1>1, InvHolds, PTL

\* No answer comes through an invitation that never grouped its guest.
THEOREM NoForeignAnswers == Spec => []AnswersFromOwnLink
<1>1. Inv => AnswersFromOwnLink
  BY DEF Inv, RowsInv
<1> QED
  BY <1>1, InvHolds, PTL

----------------------------------------------------------------------------
(* What ok: true means.  The groups change in few ways (Calm): guests join *)
(* an invitation as it is created, and leave it when it or they are        *)
(* deleted, or when they are contested.  So a page of an invitation that   *)
(* is still there shows its group as it is, but for the contested guests,  *)
(* and what a request has read of the group stays true until it has stored *)
(* its answers.  Handlers that are about to write know enough of the rows  *)
(* for every step to be calm (HandlersInv).                                *)

Posts(d) == devs[d].pc \in Posting

LinkedIsPresent == \A g \in Guests : guests[g].inv # Null => Present(g)

\* What is known of the rows that request r of the panel is about to write.
Known(r) ==
  /\ r.q.op = "add" => guests[r.q.guest].state = "new"
  /\ r.q.op = "create" => invs[r.q.inv].state = "new"
  /\ r.q.op = "create" /\ r.pc = "write" =>
       \A g \in r.q.group : guests[g].inv = Null \/ g \in contested

\* Two requests add different rows, and contest the guests they both chose.
Apart(r, s) ==
  /\ r.q.op = "add" /\ s.q.op = "add" => r.q.guest # s.q.guest
  /\ r.q.op = "create" /\ s.q.op = "create" => r.q.inv # s.q.inv
  /\ r.q.op = "create" /\ s.q.op = "create" /\ r.pc = "write" /\ s.pc = "write" =>
       r.q.group \cap s.q.group \subseteq contested

HandlersInv ==
  /\ \A h \in Handlers : hand[h] # Idle => Known(hand[h])
  /\ \A h, k \in Handlers : h # k /\ hand[h] # Idle /\ hand[k] # Idle =>
       Apart(hand[h], hand[k])

\* The invitations of cookies and requests have been created.
HeldInv ==
  \A d \in Devices :
    /\ cookie[d] # Null => invs[cookie[d]].state # "new"
    /\ Posts(d) => invs[devs[d].inv].state # "new"

\* A page whose invitation is still there shows its group as it is.
GoodPage(p) ==
  /\ invs[p.inv].state # "new"
  /\ p.own \subseteq p.shown
  /\ \A g \in p.own : guests[g].state # "new"
  /\ Open(p.inv) => \A g \in p.own : Present(g) /\ g \notin contested => guests[g].inv = p.inv

PagesInv == \A d \in Devices : devs[d] # Away => GoodPage(devs[d].page)

\* What d has read of the group, and what it has stored.
Read(d) ==
  \A g \in devs[d].page.shown :
    /\ devs[d].pc \in {"store", "view"} /\ guests[g].inv = devs[d].inv => g \in devs[d].valid
    /\ devs[d].pc = "view" /\ g \in devs[d].valid => Kept(d, g)

ReadInv == \A d \in Devices : Posts(d) => Read(d)

\* A step that brings nothing back and regroups only contested guests.
Calm ==
  /\ contested \subseteq contested'
  /\ \A i \in Invs : invs[i].state # "new" =>
       invs'[i].state # "new" /\ (invs'[i].state = "live" => Open(i))
  /\ \A g \in Guests : guests[g].state # "new" =>
       guests'[g].state # "new" /\ (guests'[g].state = "live" => Present(g))
  /\ \A g \in Guests \ contested : LET i == guests[g].inv IN
       i \in Invs /\ invs'[i].state = "live" /\ guests'[g].state = "live" => guests'[g].inv = i
  /\ \A g \in Guests, i \in Invs :
       guests'[g].inv = i => guests[g].inv = i \/ invs[i].state = "new"

\* No answer changes.
Silent == \A g \in Guests : guests'[g].rsvp = guests[g].rsvp /\ guests'[g].from = guests[g].from

LEMMA GoodStays ==
  ASSUME NEW p \in Page, GoodPage(p), Calm
  PROVE  GoodPage(p)'
BY DEF Page, GoodPage, Calm, Open, Present

\* Every statement of the panel is calm, and silent, if its request was known to
\* be in order.
LEMMA WriteCalm ==
  ASSUME RowsInv, contested' = contested,
         NEW r, r.q \in Requests, r.phones \in SUBSET Phones, r.pc = "write", Known(r),
         \/ r.q.op = "add" /\ AddGuest(r.q)
         \/ r.q.op = "edit" /\ EditGuest(r.q)
         \/ r.q.op = "drop" /\ DropGuest(r.q)
         \/ r.q.op = "create" /\ CreateInvitation(r.q, r.phones)
         \/ r.q.op = "delete" /\ DeleteInvitation(r.q)
  PROVE  Calm /\ Silent
<1> USE InvitationsAssumption DEF RowsInv, RowsType
<1>0. \A g \in Guests : guests[g] \in Guest
  OBVIOUS
<1>1. CASE \/ r.q.op = "add" /\ AddGuest(r.q)
           \/ r.q.op = "edit" /\ EditGuest(r.q)
  <2>1. r.q.guest \in Guests /\ invs' = invs
    BY <1>1, RequestFields DEF AddGuest, EditGuest
  <2>2. \A g \in Guests : /\ guests'[g].inv = guests[g].inv
                          /\ guests'[g].rsvp = guests[g].rsvp
                          /\ guests'[g].from = guests[g].from
                          /\ guests[g].state # "new" => guests'[g].state = guests[g].state
    BY <1>0, <1>1, <2>1 DEF AddGuest, EditGuest, Guest, Known
  <2>3. Calm
    BY <2>1, <2>2 DEF Calm, Open, Present
  <2> QED
    BY <2>2, <2>3 DEF Silent
<1>2. CASE r.q.op = "drop" /\ DropGuest(r.q)
  <2>1. r.q.guest \in Guests /\ invs' = invs
    BY <1>2, RequestFields DEF DropGuest
  <2>2. \A g \in Guests : \/ guests'[g] = guests[g]
                          \/ guests'[g].state = "gone" /\ guests'[g].inv = Null
    BY <1>0, <1>2, <2>1 DEF DropGuest, Guest
  <2>3. \A g \in Guests : /\ guests'[g].rsvp = guests[g].rsvp
                          /\ guests'[g].from = guests[g].from
    BY <1>0, <1>2, <2>1 DEF DropGuest, Guest
  <2>4. Calm
    BY <2>1, <2>2 DEF Calm, Open, Present
  <2> QED
    BY <2>3, <2>4 DEF Silent
<1>3. CASE r.q.op = "create" /\ CreateInvitation(r.q, r.phones)
  <2> DEFINE i == r.q.inv
  <2>1. /\ i \in Invs /\ invs[i].state = "new"
        /\ \A g \in r.q.group : guests[g].inv = Null \/ g \in contested
    BY <1>3, RequestFields DEF Known
  <2>2. \A j \in Invs \ {i} : invs'[j] = invs[j]
    BY <1>3, <2>1 DEF CreateInvitation
  <2>3. \A g \in Guests : guests'[g] = IF g \in r.q.group THEN Joined(g, i) ELSE guests[g]
    BY <1>3 DEF CreateInvitation
  <2>4. \A g \in Guests : /\ Joined(g, i).state = guests[g].state /\ Joined(g, i).inv = i
                          /\ Joined(g, i).rsvp = guests[g].rsvp
                          /\ Joined(g, i).from = guests[g].from
    BY <1>0 DEF Joined, Guest
  <2>5. \A g \in Guests : guests'[g].state = guests[g].state
    BY <2>3, <2>4
  <2>6. \A j \in Invs : invs[j].state # "new" => j # i /\ invs'[j] = invs[j]
    BY <2>1, <2>2
  <2>7. \A g \in Guests \ contested : guests[g].inv # Null => guests'[g].inv = guests[g].inv
    BY <2>1, <2>3
  <2>8. \A g \in Guests : guests'[g].inv = i \/ guests'[g].inv = guests[g].inv
    BY <2>3, <2>4
  <2>9. Calm
    <3> HIDE DEF i
    <3> QED
      BY <2>1, <2>5, <2>6, <2>7, <2>8 DEF Calm, Open, Present
  <2> QED
    BY <2>3, <2>4, <2>9 DEF Silent
<1>4. CASE r.q.op = "delete" /\ DeleteInvitation(r.q)
  <2> DEFINE i == r.q.inv
             without(g) == IF guests[g].inv = i THEN [guests[g] EXCEPT !.inv = Null]
                                                ELSE guests[g]
  <2>1. i \in Invs
    BY <1>4, RequestFields
  <2>2. /\ invs'[i].state = "gone"
        /\ \A j \in Invs \ {i} : invs'[j] = invs[j]
    BY <1>4, <2>1 DEF DeleteInvitation, Invitation
  <2>3. guests' = [g \in Guests |-> without(g)]
    BY <1>4 DEF DeleteInvitation, Ungrouped
  <2>4. \A g \in Guests : /\ without(g).state = guests[g].state
                          /\ guests[g].inv # i => without(g).inv = guests[g].inv
                          /\ without(g).inv \in {Null, guests[g].inv}
                          /\ without(g).rsvp = guests[g].rsvp
                          /\ without(g).from = guests[g].from
    BY <1>0 DEF Guest
  <2> HIDE DEF without
  <2>5. Calm
    BY <2>1, <2>2, <2>3, <2>4 DEF Calm, Open, Present
  <2> QED
    BY <2>3, <2>4, <2>5 DEF Silent
<1> QED
  BY <1>1, <1>2, <1>3, <1>4

\* What another request s knows stays true while r writes.
LEMMA WriteKnown ==
  ASSUME RowsInv, contested' = contested,
         NEW r, r.q \in Requests, r.pc = "write", NEW phones \in SUBSET Phones,
         NEW s, s.q \in Requests, Known(s), Apart(r, s),
         \/ r.q.op = "add" /\ AddGuest(r.q)
         \/ r.q.op = "edit" /\ EditGuest(r.q)
         \/ r.q.op = "drop" /\ DropGuest(r.q)
         \/ r.q.op = "create" /\ CreateInvitation(r.q, phones)
         \/ r.q.op = "delete" /\ DeleteInvitation(r.q)
  PROVE  Known(s)'
<1> USE InvitationsAssumption DEF RowsInv, RowsType
<1>0. \A g \in Guests : guests[g] \in Guest
  OBVIOUS
<1>1. /\ s.q.op = "add" => s.q.guest \in Guests /\ guests[s.q.guest].state = "new"
      /\ s.q.op = "create" => /\ s.q.inv \in Invs /\ invs[s.q.inv].state = "new"
                              /\ s.q.group \in SUBSET Guests
      /\ s.q.op = "create" /\ s.pc = "write" =>
           \A g \in s.q.group : guests[g].inv = Null \/ g \in contested
  BY RequestFields DEF Known
<1>2. s.q.op = "add" => guests'[s.q.guest].state = "new"
  <2> SUFFICES ASSUME s.q.op = "add" PROVE guests'[s.q.guest].state = "new"
    OBVIOUS
  <2>1. CASE r.q.op \in {"add", "edit", "drop"}
    <3>1. r.q.guest \in Guests /\ r.q.guest # s.q.guest
      BY <1>1, <2>1, RequestFields DEF Apart, EditGuest, DropGuest, Present
    <3> QED
      BY <1>1, <2>1, <3>1 DEF AddGuest, EditGuest, DropGuest
  <2>2. CASE r.q.op = "create"
    <3>1. s.q.guest \notin r.q.group
      BY <1>1, <2>2 DEF CreateInvitation, Present
    <3> QED
      BY <1>1, <2>2, <3>1 DEF CreateInvitation
  <2>3. CASE r.q.op = "delete"
    <3>1. guests'[s.q.guest].state = guests[s.q.guest].state
      BY <1>0, <1>1, <2>3 DEF DeleteInvitation, Ungrouped, Guest
    <3> QED
      BY <1>1, <3>1
  <2> QED
    BY <2>1, <2>2, <2>3
<1>3. s.q.op = "create" => invs'[s.q.inv].state = "new"
  <2> SUFFICES ASSUME s.q.op = "create" PROVE invs'[s.q.inv].state = "new"
    OBVIOUS
  <2>1. CASE r.q.op \in {"add", "edit", "drop"}
    BY <1>1, <2>1 DEF AddGuest, EditGuest, DropGuest
  <2>2. CASE r.q.op \in {"create", "delete"}
    <3>1. r.q.inv \in Invs /\ r.q.inv # s.q.inv
      BY <1>1, <2>2, RequestFields DEF Apart, DeleteInvitation, Open
    <3> QED
      BY <1>1, <2>2, <3>1 DEF CreateInvitation, DeleteInvitation
  <2> QED
    BY <2>1, <2>2
<1>4. s.q.op = "create" /\ s.pc = "write" =>
        \A g \in s.q.group : guests'[g].inv = Null \/ g \in contested'
  <2> SUFFICES ASSUME s.q.op = "create", s.pc = "write", NEW g \in s.q.group, g \notin contested
               PROVE  guests'[g].inv = Null
    OBVIOUS
  <2>1. g \in Guests /\ guests[g] \in Guest /\ guests[g].inv = Null
    BY <1>0, <1>1
  <2>2. CASE r.q.op \in {"add", "edit", "drop"}
    <3>1. r.q.guest \in Guests
      BY <2>2, RequestFields
    <3> QED
      BY <1>0, <2>1, <2>2, <3>1 DEF AddGuest, EditGuest, DropGuest, Guest
  <2>3. CASE r.q.op = "create"
    <3>1. g \notin r.q.group
      BY <2>3 DEF Apart
    <3> QED
      BY <2>1, <2>3, <3>1 DEF CreateInvitation
  <2>4. CASE r.q.op = "delete"
    BY <2>1, <2>4 DEF DeleteInvitation, Ungrouped, Guest
  <2> QED
    BY <2>2, <2>3, <2>4
<1> QED
  BY <1>2, <1>3, <1>4 DEF Known

\* Guests in an invitation are in the guest list, whatever overlaps.
LEMMA LinkedNext == Inv /\ LinkedIsPresent /\ [Next]_vars => LinkedIsPresent'
<1> SUFFICES ASSUME Inv, LinkedIsPresent, [Next]_vars PROVE LinkedIsPresent'
  OBVIOUS
<1> USE InvitationsAssumption
<1>0. guests \in [Guests -> Guest] /\ \A g \in Guests : guests[g] \in Guest
  BY DEF Inv, RowsInv, RowsType
<1>1. guests' = guests => LinkedIsPresent'
  BY DEF LinkedIsPresent, Present
<1>2. ASSUME NEW h \in Handlers, Write(h) PROVE LinkedIsPresent'
  <2> DEFINE q == hand[h].q
  <2>1. q \in Requests
    BY <1>2, HandlerFields DEF Write, Inv, PanelType
  <2>2. CASE q.op \in {"add", "edit", "drop"} /\ (AddGuest(q) \/ EditGuest(q) \/ DropGuest(q))
    <3>1. q.guest \in Guests
      BY <2>1, <2>2, RequestFields
    <3>2. CASE AddGuest(q) \/ EditGuest(q)
      <4>1. \A g \in Guests : guests'[g] = guests[g] \/ guests'[g].state = "live"
        BY <1>0, <3>1, <3>2 DEF AddGuest, EditGuest, Present, Guest
      <4> QED
        BY <4>1 DEF LinkedIsPresent, Present
    <3>3. CASE DropGuest(q)
      <4>1. \A g \in Guests : guests'[g] = guests[g] \/ guests'[g].inv = Null
        BY <1>0, <3>1, <3>3 DEF DropGuest, Guest
      <4> QED
        BY <4>1 DEF LinkedIsPresent, Present
    <3> QED
      BY <2>2, <3>2, <3>3
  <2>3. CASE q.op = "create" /\ CreateInvitation(q, hand[h].phones)
    <3>1. \A g \in Guests : Joined(g, q.inv).state = guests[g].state
      BY <1>0 DEF Joined, Guest
    <3>2. \A g \in Guests : guests'[g] = IF g \in q.group THEN Joined(g, q.inv) ELSE guests[g]
      BY <2>3 DEF CreateInvitation
    <3>3. \A g \in q.group : Present(g)
      BY <2>3 DEF CreateInvitation
    <3> QED
      BY <3>1, <3>2, <3>3 DEF LinkedIsPresent, Present
  <2>4. CASE q.op = "delete" /\ DeleteInvitation(q)
    <3>1. \A g \in Guests : guests'[g] = guests[g] \/ guests'[g].inv = Null
      BY <1>0, <2>4 DEF DeleteInvitation, Ungrouped, Guest
    <3> QED
      BY <3>1 DEF LinkedIsPresent, Present
  <2> QED
    BY <1>1, <1>2, <2>2, <2>3, <2>4 DEF Write
<1>3. ASSUME NEW d \in Devices, Store(d) PROVE LinkedIsPresent'
  <2>1. \A g \in Guests : guests'[g].inv = guests[g].inv /\ guests'[g].state = guests[g].state
    BY <1>3, StoreKeeps DEF Store, Inv
  <2> QED
    BY <2>1 DEF LinkedIsPresent, Present
<1>4. CASE UNCHANGED vars
  BY <1>1, <1>4 DEF vars
<1> QED
  BY <1>1, <1>2, <1>3, <1>4
     DEF Next, Arrive, Check, FailPanel, Enter, Load, Submit, Lookup, ReadMembers, View, FailRsvp

\* What the requests of the panel know stays true: every other one adds or
\* creates other rows, and a guest that two of them connect is contested.
LEMMA HandlersNext == Inv /\ HandlersInv /\ [Next]_vars => HandlersInv'
<1> SUFFICES ASSUME Inv, HandlersInv, [Next]_vars PROVE HandlersInv'
  OBVIOUS
<1>1. ASSUME UNCHANGED <<hand, invs, contested>>,
             \A g \in Guests : guests'[g].inv = guests[g].inv /\ guests'[g].state = guests[g].state
      PROVE  HandlersInv'
  <2>1. \A h \in Handlers : hand[h] # Idle =>
          /\ hand[h].q.op = "add" => hand[h].q.guest \in Guests
          /\ hand[h].q.op = "create" => hand[h].q.group \in SUBSET Guests
    BY HandlerFields, RequestFields DEF Inv, PanelType
  <2>2. ASSUME NEW h \in Handlers, hand[h] # Idle PROVE Known(hand[h])'
    BY <1>1, <2>1, <2>2 DEF HandlersInv, Known
  <2> QED
    BY <1>1, <2>2 DEF HandlersInv, Apart
\* Handler h goes on with r.
<1>2. ASSUME NEW h \in Handlers, NEW r, hand' = [hand EXCEPT ![h] = r],
             r # Idle => Known(r)',
             \A k \in Handlers \ {h} : hand[k] # Idle => Known(hand[k])',
             \A k \in Handlers \ {h} : hand[k] # Idle /\ r # Idle =>
               Apart(r, hand[k])' /\ Apart(hand[k], r)',
             contested \subseteq contested'
      PROVE  HandlersInv'
  <2>1. hand'[h] = r /\ \A k \in Handlers \ {h} : hand'[k] = hand[k]
    BY <1>2 DEF Inv, PanelType
  <2>2. \A k \in Handlers : hand'[k] # Idle => Known(hand[k])'
    <3> SUFFICES ASSUME NEW k \in Handlers, hand'[k] # Idle PROVE Known(hand[k])'
      OBVIOUS
    <3>1. CASE k = h
      BY <1>2, <2>1, <3>1 DEF Known
    <3>2. CASE k # h
      BY <1>2, <2>1, <3>2 DEF Known
    <3> QED
      BY <3>1, <3>2
  <2>3. ASSUME NEW k \in Handlers, NEW l \in Handlers, k # l, hand'[k] # Idle, hand'[l] # Idle
        PROVE  Apart(hand[k], hand[l])'
    <3>1. CASE k = h
      BY <1>2, <2>1, <2>3, <3>1 DEF Apart
    <3>2. CASE l = h
      BY <1>2, <2>1, <2>3, <3>2 DEF Apart
    <3>3. CASE k # h /\ l # h
      <4>1. Apart(hand[k], hand[l])
        BY <2>1, <2>3, <3>3 DEF HandlersInv
      <4> QED
        BY <1>2, <2>1, <3>3, <4>1 DEF Apart
    <3> QED
      BY <3>1, <3>2, <3>3
  <2> QED
    BY <2>2, <2>3 DEF HandlersInv
<1>3. ASSUME UNCHANGED <<guests, invs>>, contested \subseteq contested', NEW r, Known(r)
      PROVE  Known(r)'
  BY <1>3 DEF Known
<1>4. ASSUME NEW h \in Handlers, NEW q \in Requests, Arrive(h, q) PROVE HandlersInv'
  <2> DEFINE r == [pc |-> "check", q |-> q]
  <2>1. hand' = [hand EXCEPT ![h] = r]
    BY <1>4 DEF Arrive
  <2>2. r.pc = "check" /\ r.q = q
    OBVIOUS
  <2>3. ASSUME NEW k \in Handlers, hand[k] # Idle
        PROVE  /\ q.op = "add" /\ hand[k].q.op = "add" => q.guest # hand[k].q.guest
               /\ q.op = "create" /\ hand[k].q.op = "create" => q.inv # hand[k].q.inv
    BY <1>4, <2>3 DEF Arrive
  <2>4. Known(r)'
    BY <1>4 DEF Arrive, Known
  <2> HIDE DEF r
  <2>5. \A k \in Handlers \ {h} : hand[k] # Idle => Known(hand[k])'
    BY <1>3, <1>4 DEF Arrive, HandlersInv
  <2>6. \A k \in Handlers \ {h} : hand[k] # Idle => Apart(r, hand[k])' /\ Apart(hand[k], r)'
    <3> SUFFICES ASSUME NEW k \in Handlers \ {h}, hand[k] # Idle
                 PROVE  Apart(r, hand[k])' /\ Apart(hand[k], r)'
      OBVIOUS
    <3>1. hand'[k] = hand[k]
      BY <2>1
    <3> QED
      BY <2>2, <2>3, <3>1 DEF Apart
  <2> QED
    BY <1>2, <1>4, <2>1, <2>4, <2>5, <2>6 DEF Arrive
<1>5. ASSUME NEW h \in Handlers, Check(h) PROVE HandlersInv'
  <2>0. PICK q, r : /\ q = hand[h].q
                    /\ r = IF Passes(q)
                            THEN [pc |-> "write", q |-> q, phones |-> AcceptedPhones(q)]
                            ELSE Idle
    OBVIOUS
  <2>1. hand[h] # Idle /\ hand[h].pc = "check" /\ Known(hand[h])
    BY <1>5 DEF Check, Idle, HandlersInv
  <2>2. hand' = [hand EXCEPT ![h] = r] /\ UNCHANGED <<guests, invs>>
    BY <1>5, <2>0 DEF Check
  <2>3. r # Idle => Passes(q) /\ r.q = q /\ r.pc = "write"
    BY <2>0
  <2>4. contested \subseteq contested'
    BY <1>5 DEF Check
  <2>5. r # Idle => Known(r)'
    <3> SUFFICES ASSUME r # Idle PROVE Known(r)'
      OBVIOUS
    <3>1. q.op = "create" => \A g \in q.group : guests[g].inv = Null
      BY <2>3 DEF Passes, Uninvited
    <3> QED
      BY <2>0, <2>1, <2>2, <2>3, <3>1 DEF Known
  <2>6. \A k \in Handlers \ {h} : hand[k] # Idle => Known(hand[k])'
    BY <1>3, <2>2, <2>4 DEF HandlersInv
  <2>7. ASSUME NEW k \in Handlers \ {h}, hand[k] # Idle, r # Idle
        PROVE  Apart(r, hand[k])' /\ Apart(hand[k], r)'
    <3>1. hand'[k] = hand[k]
      BY <2>2
    <3>2. Apart(hand[h], hand[k]) /\ Apart(hand[k], hand[h])
      BY <2>1, <2>7 DEF HandlersInv
    <3>3. q.op = "create" /\ hand[k].q.op = "create" /\ hand[k].pc = "write" =>
            q.group \cap hand[k].q.group \subseteq contested'
      <4> SUFFICES ASSUME q.op = "create", hand[k].q.op = "create", hand[k].pc = "write"
                   PROVE  q.group \cap hand[k].q.group \subseteq contested'
        OBVIOUS
      <4>1. hand[k].q.group \subseteq Taken
        BY DEF Taken
      <4>2. contested' = contested \cup (q.group \cap Taken)
        BY <1>5, <2>0, <2>3, <2>7 DEF Check
      <4> QED
        BY <4>1, <4>2
    <3>4. hand[h].q = r.q /\ r.q = q
      BY <2>0, <2>3, <2>7
    <3>5. Apart(r, hand[k])'
      BY <3>1, <3>2, <3>3, <3>4 DEF Apart
    <3>6. Apart(hand[k], r)'
      BY <3>1, <3>2, <3>3, <3>4 DEF Apart
    <3> QED
      BY <3>5, <3>6
  <2> QED
    BY <1>2, <2>2, <2>4, <2>5, <2>6, <2>7
\* A handler that is done leaves the others as they were.
<1>6. ASSUME NEW h \in Handlers, hand' = [hand EXCEPT ![h] = Idle], contested' = contested,
             \A k \in Handlers \ {h} : hand[k] # Idle => Known(hand[k])'
      PROVE  HandlersInv'
  <2>1. PICK r : r = Idle
    OBVIOUS
  <2> QED
    BY <1>2, <1>6, <2>1
<1>7. ASSUME NEW h \in Handlers, Write(h) PROVE HandlersInv'
  <2>1. hand[h] # Idle /\ hand[h].pc = "write"
    BY <1>7 DEF Write, Idle
  <2>2. hand[h].q \in Requests /\ hand[h].phones \in SUBSET Phones
    BY <2>1, HandlerFields DEF Inv, PanelType
  <2>3. ASSUME NEW k \in Handlers \ {h}, hand[k] # Idle PROVE Known(hand[k])'
    <3>1. hand[k].q \in Requests /\ hand'[k] = hand[k]
      BY <1>7, <2>3, HandlerFields DEF Write, Inv, PanelType
    <3>2. PICK r, s : r = hand[h] /\ s = hand[k]
      OBVIOUS
    <3>3. Known(s) /\ Apart(r, s)
      BY <2>1, <2>3, <3>2 DEF HandlersInv
    <3>4. Known(s)'
      <4>1. CASE UNCHANGED <<guests, invs>>
        BY <1>3, <1>7, <3>3, <4>1 DEF Write
      <4>2. CASE ~UNCHANGED <<guests, invs>>
        BY <1>7, <2>1, <2>2, <3>1, <3>2, <3>3, <4>2, WriteKnown DEF Write, Inv
      <4> QED
        BY <4>1, <4>2
    <3> QED
      BY <3>1, <3>2, <3>4 DEF Known
  <2> QED
    BY <1>6, <1>7, <2>3 DEF Write
<1>8. ASSUME NEW h \in Handlers, FailPanel(h) PROVE HandlersInv'
  <2>1. hand' = [hand EXCEPT ![h] = Idle] /\ UNCHANGED <<guests, invs, contested>>
    BY <1>8 DEF FailPanel
  <2>2. ASSUME NEW k \in Handlers \ {h}, hand[k] # Idle PROVE Known(hand[k])'
    <3>1. Known(hand[k]) /\ hand'[k] = hand[k]
      BY <2>1, <2>2 DEF HandlersInv
    <3> QED
      BY <2>1, <3>1 DEF Known
  <2> QED
    BY <1>6, <2>1, <2>2
<1>9. ASSUME NEW d \in Devices, Store(d) PROVE HandlersInv'
  <2>1. \A g \in Guests : guests'[g].inv = guests[g].inv /\ guests'[g].state = guests[g].state
    BY <1>9, StoreKeeps DEF Store, Inv
  <2> QED
    BY <1>1, <1>9, <2>1 DEF Store
<1> QED
  BY <1>1, <1>4, <1>5, <1>7, <1>8, <1>9
     DEF Next, Enter, Load, Submit, Lookup, ReadMembers, View, FailRsvp, vars

\* Every step is calm, and only a device that stores its answers is not silent.
LEMMA CalmNext ==
  ASSUME Inv, HandlersInv, [Next]_vars
  PROVE  Calm /\ (Silent \/ \E d \in Devices : Store(d))
<1>1. ASSUME UNCHANGED <<guests, invs>>, contested \subseteq contested' PROVE Calm /\ Silent
  BY <1>1 DEF Calm, Silent, Open, Present
<1>2. ASSUME NEW h \in Handlers, Write(h) PROVE Calm /\ Silent
  <2>1. hand[h] # Idle /\ hand[h].pc = "write" /\ Known(hand[h])
    BY <1>2 DEF Write, Idle, HandlersInv
  <2>2. hand[h].q \in Requests /\ hand[h].phones \in SUBSET Phones
    BY <2>1, HandlerFields DEF Inv, PanelType
  <2> QED
    BY <1>1, <1>2, <2>1, <2>2, WriteCalm DEF Write, Inv
<1>3. ASSUME NEW d \in Devices, Store(d) PROVE Calm
  <2>1. /\ \A g \in Guests : guests'[g].inv = guests[g].inv /\ guests'[g].state = guests[g].state
        /\ UNCHANGED <<invs, contested>>
    BY <1>3, StoreKeeps DEF Store, Inv
  <2> QED
    BY <2>1 DEF Calm, Open, Present
<1> QED
  BY <1>1, <1>2, <1>3
     DEF Next, Arrive, Check, FailPanel, Enter, Load, Submit, Lookup, ReadMembers, View,
         FailRsvp, vars

\* A request that goes on keeps its page, its invitation and its answers.
LEMMA PostGoesOn ==
  ASSUME Inv, NEW d \in Devices,
         Lookup(d) \/ ReadMembers(d) \/ Store(d) \/ View(d) \/ FailRsvp(d)
  PROVE  /\ Posts(d) /\ devs[d] \in Device /\ devs'[d] # Away
         /\ devs'[d].page = devs[d].page
         /\ Posts(d)' => devs'[d].inv = devs[d].inv /\ devs'[d].answer = devs[d].answer
<1>1. devs[d].pc \in Posting /\ Posts(d) /\ devs[d] \in Device
  BY DEF Lookup, ReadMembers, Store, View, FailRsvp, Posts, Posting, Inv
<1>2. CASE Return(d)
  <2>1. devs'[d] = OnPage(devs[d].page)
    BY <1>2 DEF Return, Inv
  <2> QED
    BY <1>1, <2>1 DEF Posts, OnPage, Posting, Away
<1>3. CASE ~Return(d)
  <2>1. PICK pc \in Posting, valid \in SUBSET devs[d].page.shown :
          devs' = [devs EXCEPT ![d] = [devs[d] EXCEPT !.pc = pc, !.valid = valid]]
    <3>1. CASE \E pc \in Posting : devs' = [devs EXCEPT ![d] = [devs[d] EXCEPT !.pc = pc]]
      <4>1. PICK pc \in Posting : devs' = [devs EXCEPT ![d] = [devs[d] EXCEPT !.pc = pc]]
        BY <3>1
      <4>2. devs[d].valid \in SUBSET devs[d].page.shown
        BY <1>1, DeviceFields
      <4>3. [devs[d] EXCEPT !.pc = pc] = [devs[d] EXCEPT !.pc = pc, !.valid = devs[d].valid]
        BY <1>1, <4>2, PostMoves
      <4> QED
        BY <4>1, <4>2, <4>3
    <3>2. CASE ReadMembers(d)
      BY <3>2 DEF ReadMembers, Valid, Posting
    <3> QED
      BY <1>3, <3>1, <3>2 DEF Lookup, Store, View, FailRsvp, Posting
  <2>2. devs'[d] = [pc |-> pc, page |-> devs[d].page, inv |-> devs[d].inv,
                    answer |-> devs[d].answer, valid |-> valid]
    BY <1>1, <2>1, PostMoves DEF Inv
  <2> QED
    BY <1>1, <2>2 DEF Away, Posting
<1> QED
  BY <1>2, <1>3

\* Every step of the system leaves device d alone, or is one of d's.
LEMMA DeviceSteps ==
  ASSUME Inv, [Next]_vars, NEW d \in Devices
  PROVE  \/ devs'[d] = devs[d]
         \/ \E i \in Invs : Load(d, i)
         \/ Submit(d)
         \/ Lookup(d) \/ ReadMembers(d) \/ Store(d) \/ View(d) \/ FailRsvp(d)
<1>1. ASSUME NEW e \in Devices,
             \/ \E i \in Invs : Enter(e, i) \/ Load(e, i)
             \/ Submit(e) \/ Lookup(e) \/ ReadMembers(e) \/ Store(e) \/ View(e) \/ FailRsvp(e)
      PROVE  \/ devs'[d] = devs[d]
             \/ \E i \in Invs : Load(d, i)
             \/ Submit(d)
             \/ Lookup(d) \/ ReadMembers(d) \/ Store(d) \/ View(d) \/ FailRsvp(d)
  <2>1. CASE e = d
    BY <1>1, <2>1 DEF Enter
  <2>2. CASE e # d
    BY <1>1, <2>2
       DEF Enter, Load, Submit, Lookup, ReadMembers, Store, View, FailRsvp, Return, Inv
  <2> QED
    BY <2>1, <2>2
<1>2. ASSUME NEW h \in Handlers,
             (\E q \in Requests : Arrive(h, q)) \/ Check(h) \/ Write(h) \/ FailPanel(h)
      PROVE  devs'[d] = devs[d]
  BY <1>2 DEF Arrive, Check, Write, FailPanel
<1> QED
  BY <1>1, <1>2 DEF Next, vars

LEMMA HeldNext ==
  ASSUME Inv, HeldInv, Calm, [Next]_vars
  PROVE  HeldInv'
<1>1. \A i \in Invs : invs[i].state # "new" => invs'[i].state # "new"
  BY DEF Calm
<1>2. ASSUME NEW d \in Devices PROVE cookie'[d] # Null => invs'[cookie'[d]].state # "new"
  <2>1. ASSUME NEW e \in Devices, NEW i \in Invs, Enter(e, i)
        PROVE  cookie'[d] # Null => invs'[cookie'[d]].state # "new"
    BY <1>1, <2>1 DEF Enter, Open, HeldInv, Inv, CookieInv
  <2>2. CASE cookie' = cookie
    BY <1>1, <2>2 DEF HeldInv, Inv, CookieInv
  <2> QED
    BY <2>1, <2>2
       DEF Next, Arrive, Check, Write, FailPanel, Load, Submit, Lookup, ReadMembers, Store,
           View, FailRsvp, vars
<1>3. ASSUME NEW d \in Devices PROVE Posts(d)' => invs'[devs'[d].inv].state # "new"
  <2>1. Posts(d) => devs[d].inv \in Invs
    BY DeviceFields DEF Posts, Inv
  <2>2. CASE devs'[d] = devs[d]
    BY <1>1, <2>1, <2>2 DEF Posts, HeldInv
  <2>3. CASE Submit(d)
    <3>1. devs'[d].inv = cookie[d] /\ devs[d] # Away
      BY <2>3 DEF Submit, Inv, Away
    <3>2. cookie[d] \in Invs
      BY <3>1 DEF Inv, CookieInv
    <3> QED
      BY <1>1, <3>1, <3>2, InvitationsAssumption DEF HeldInv
  <2>4. CASE Lookup(d) \/ ReadMembers(d) \/ Store(d) \/ View(d) \/ FailRsvp(d)
    BY <1>1, <2>1, <2>4, PostGoesOn DEF HeldInv
  <2>5. CASE \E i \in Invs : Load(d, i)
    BY <2>5 DEF Load, Posts, OnPage, Posting, Inv
  <2> QED
    BY <2>2, <2>3, <2>4, <2>5, DeviceSteps
<1> QED
  BY <1>2, <1>3 DEF HeldInv

\* A page whose invitation is still there keeps showing its group.
LEMMA PagesNext ==
  ASSUME Inv, LinkedIsPresent, PagesInv, Calm, [Next]_vars
  PROVE  PagesInv'
<1> SUFFICES ASSUME NEW d \in Devices, devs'[d] # Away PROVE GoodPage(devs[d].page)'
  BY DEF PagesInv
<1>1. ASSUME devs[d] # Away, devs'[d].page = devs[d].page PROVE GoodPage(devs[d].page)'
  <2>1. PICK p \in Page : p = devs[d].page
    BY <1>1, DeviceFields DEF Inv
  <2>2. GoodPage(p)'
    BY <1>1, <2>1, GoodStays DEF PagesInv
  <2> QED
    BY <1>1, <2>1, <2>2
<1>2. CASE devs'[d] = devs[d]
  BY <1>1, <1>2
<1>3. CASE Submit(d)
  BY <1>1, <1>3 DEF Submit, Inv, Away
<1>4. CASE Lookup(d) \/ ReadMembers(d) \/ Store(d) \/ View(d) \/ FailRsvp(d)
  BY <1>1, <1>4, PostGoesOn DEF Posts, Away, Posting
<1>5. ASSUME NEW i \in Invs, Load(d, i) PROVE GoodPage(devs[d].page)'
  <2> DEFINE p == [inv |-> i, shown |-> Shown(i), own |-> Members(i)]
  <2>1. \A g \in Members(i) : Present(g) /\ guests[g].inv = i
    BY <1>5, InvitationsAssumption DEF Members, LinkedIsPresent
  <2>2. GoodPage(p)
    BY <1>5, <2>1 DEF Load, GoodPage, Open, Shown, Present
  <2>3. OnPage(p).page = p
    BY DEF OnPage
  <2> HIDE DEF p
  <2>4. devs'[d].page = p /\ UNCHANGED <<guests, invs, contested>>
    BY <1>5, <2>3 DEF Load, p, Inv
  <2> QED
    BY <2>2, <2>4 DEF GoodPage, Open, Present
<1> QED
  BY <1>2, <1>3, <1>4, <1>5, DeviceSteps

\* What has been read of the group stays true, and what is stored stays stored.
LEMMA ReadNext ==
  ASSUME Inv, HeldInv, ReadInv, Calm, Silent \/ \E d \in Devices : Store(d), [Next]_vars
  PROVE  ReadInv'
<1> SUFFICES ASSUME NEW d \in Devices, Posts(d)' PROVE Read(d)'
  BY DEF ReadInv
<1>1. CASE devs'[d] = devs[d]
  <2>1. /\ Posts(d) /\ devs[d] \in Device /\ devs[d].page \in Page /\ devs[d].inv \in Invs
        /\ devs[d].page.shown \in SUBSET Guests
    BY <1>1, DeviceFields DEF Posts, Inv, Page
  <2>2. Read(d) /\ invs[devs[d].inv].state # "new"
    BY <2>1 DEF ReadInv, HeldInv
  <2>3. \A g \in devs[d].page.shown : guests'[g].inv = devs[d].inv => guests[g].inv = devs[d].inv
    BY <2>1, <2>2 DEF Calm
  <2>4. CASE Silent
    <3>1. \A g \in devs[d].page.shown : Kept(d, g) => Kept(d, g)'
      BY <1>1, <2>1, <2>4 DEF Kept, Silent
    <3> QED
      BY <1>1, <2>2, <2>3, <3>1 DEF Read
  <2>5. ASSUME NEW e \in Devices, Store(e) PROVE Read(d)'
    <3>1. CASE UNCHANGED guests
      <4>1. Silent
        BY <3>1 DEF Silent
      <4> QED
        BY <2>4, <4>1
    <3>2. CASE ~UNCHANGED guests
      <4>1. /\ guests' = [g \in Guests |->
                 IF g \in devs[e].valid THEN Answered(g, devs[e].answer, devs[e].inv, e)
                                        ELSE guests[g]]
            /\ devs' = [devs EXCEPT ![e].pc = "view"] /\ devs[e].pc = "store"
        BY <2>5, <3>2 DEF Store
      <4>2. e # d
        <5> SUFFICES ASSUME e = d PROVE FALSE
          OBVIOUS
        <5>1. devs'[d].pc = "view"
          BY <2>1, <4>1, PostMoves DEF Inv, Posting
        <5> QED
          BY <1>1, <4>1, <5>1
      <4>3. \A g \in devs[d].page.shown : Kept(d, g) => Kept(d, g)'
        <5> SUFFICES ASSUME NEW g \in devs[d].page.shown, Kept(d, g) PROVE Kept(d, g)'
          OBVIOUS
        <5>1. g \in Guests /\ guests[g] \in Guest
          BY <2>1 DEF Inv, RowsInv, RowsType
        <5>2. CASE g \in devs[e].valid
          <6>1. guests'[g].from = e
            BY <4>1, <5>1, <5>2 DEF Answered, Guest
          <6> QED
            BY <4>2, <6>1 DEF Kept
        <5>3. CASE g \notin devs[e].valid
          <6>1. guests'[g] = guests[g]
            BY <4>1, <5>1, <5>3
          <6> QED
            BY <1>1, <6>1 DEF Kept
        <5> QED
          BY <5>2, <5>3
      <4> QED
        BY <1>1, <2>2, <2>3, <4>3 DEF Read
    <3> QED
      BY <3>1, <3>2
  <2> QED
    BY <2>4, <2>5
<1>2. CASE Submit(d)
  BY <1>2 DEF Submit, Read, Inv
<1>3. CASE \E i \in Invs : Load(d, i)
  BY <1>3 DEF Load, Posts, OnPage, Posting, Inv
<1>4. CASE Lookup(d) \/ View(d) \/ FailRsvp(d)
  <2>1. devs[d].pc \in Posting /\ devs[d] \in Device /\ devs[d].valid \in SUBSET devs[d].page.shown
    BY <1>4, PostGoesOn, DeviceFields DEF Posts
  <2>2. CASE Return(d)
    BY <2>2 DEF Return, Posts, OnPage, Posting, Inv
  <2>3. CASE devs' = [devs EXCEPT ![d] = [devs[d] EXCEPT !.pc = "members"]]
    <3>1. devs'[d].pc = "members"
      <4>1. [devs[d] EXCEPT !.pc = "members"]
              = [pc |-> "members", page |-> devs[d].page, inv |-> devs[d].inv,
                 answer |-> devs[d].answer, valid |-> devs[d].valid]
        BY <2>1, PostMoves DEF Posting
      <4>2. devs'[d] = [devs[d] EXCEPT !.pc = "members"]
        BY <2>3 DEF Inv
      <4> QED
        BY <4>1, <4>2
    <3> QED
      BY <3>1 DEF Read
  <2> QED
    BY <1>4, <2>2, <2>3 DEF Lookup, View, FailRsvp
<1>5. CASE ReadMembers(d)
  <2>1. devs[d].pc \in Posting /\ devs[d] \in Device
    BY <1>5, PostGoesOn DEF Posts
  <2>2. Valid(devs[d]) \in SUBSET devs[d].page.shown
    BY DEF Valid
  <2>3. devs'[d] = [pc |-> "store", page |-> devs[d].page, inv |-> devs[d].inv,
                    answer |-> devs[d].answer, valid |-> Valid(devs[d])]
    BY <1>5, <2>1, <2>2, PostMoves DEF ReadMembers, Inv, Posting
  <2>4. devs[d].page.shown \in SUBSET Guests
    BY <2>1, DeviceFields DEF Page
  <2> QED
    BY <1>5, <2>3, <2>4 DEF ReadMembers, Read, Valid, Members
<1>6. CASE Store(d)
  <2>1. /\ devs[d].pc \in Posting /\ devs[d].pc = "store" /\ devs[d] \in Device /\ Read(d)
        /\ devs[d].valid \in SUBSET devs[d].page.shown
    BY <1>6, PostGoesOn, DeviceFields DEF Posts, Store, ReadInv
  <2>2. CASE Return(d)
    BY <2>2 DEF Return, Posts, OnPage, Posting, Inv
  <2>3. CASE /\ devs' = [devs EXCEPT ![d].pc = "view"]
             /\ guests' = [g \in Guests |->
                  IF g \in devs[d].valid THEN Answered(g, devs[d].answer, devs[d].inv, d)
                                         ELSE guests[g]]
    <3>1. devs'[d] = [pc |-> "view", page |-> devs[d].page, inv |-> devs[d].inv,
                      answer |-> devs[d].answer, valid |-> devs[d].valid]
      <4>1. [devs[d] EXCEPT !.pc = "view"]
              = [pc |-> "view", page |-> devs[d].page, inv |-> devs[d].inv,
                 answer |-> devs[d].answer, valid |-> devs[d].valid]
        BY <2>1, PostMoves DEF Posting
      <4>2. devs'[d] = [devs[d] EXCEPT !.pc = "view"]
        BY <2>3 DEF Inv
      <4> QED
        BY <4>1, <4>2
    <3>2. devs[d].page.shown \in SUBSET Guests
      BY <2>1, DeviceFields DEF Page
    <3>3. \A g \in Guests : guests'[g].inv = guests[g].inv
      BY <1>6, <2>1, <2>3, StoreKeeps DEF Store, Inv
    <3>4. ASSUME NEW g \in devs[d].valid PROVE guests'[g].rsvp = devs[d].answer[g]
      <4>1. g \in Guests /\ guests[g] \in Guest
        BY <2>1, <3>2 DEF Inv, RowsInv, RowsType
      <4> QED
        BY <2>3, <4>1 DEF Answered, Guest
    <3>5. \A g \in devs[d].valid : Kept(d, g)'
      BY <3>1, <3>4 DEF Kept
    <3>6. \A g \in devs[d].page.shown : guests'[g].inv = devs[d].inv => g \in devs[d].valid
      BY <2>1, <3>2, <3>3 DEF Read
    <3> QED
      BY <3>1, <3>5, <3>6 DEF Read
  <2> QED
    BY <1>6, <2>2, <2>3 DEF Store
<1> QED
  BY <1>1, <1>2, <1>3, <1>4, <1>5, <1>6, DeviceSteps

GroupInv == LinkedIsPresent /\ HandlersInv /\ HeldInv /\ PagesInv /\ ReadInv

LEMMA GroupInit == Init => GroupInv
<1> SUFFICES ASSUME Init PROVE GroupInv
  OBVIOUS
<1>1. \A g \in Guests : guests[g].inv = Null
  BY InitGuests
<1>2. /\ \A h \in Handlers : hand[h] = Idle
      /\ \A d \in Devices : devs[d] = Away /\ cookie[d] = Null
  BY DEF Init
<1>3. \A d \in Devices : ~Posts(d)
  BY <1>2 DEF Posts, Away, Posting
<1> QED
  BY <1>1, <1>2, <1>3
     DEF GroupInv, LinkedIsPresent, HandlersInv, HeldInv, PagesInv, ReadInv

LEMMA GroupNext == Inv /\ GroupInv /\ [Next]_vars => GroupInv'
BY LinkedNext, HandlersNext, CalmNext, HeldNext, PagesNext, ReadNext DEF GroupInv

\* Whoever is told ok: true has answered for everybody of the page that the
\* cookie's invitation groups; and with the cookie of the page, for the whole
\* group the page was loaded with, but for guests that two creations contested.
THEOREM OkIsTrue == Spec => []OkMeansStored
<1>1. Inv /\ GroupInv => OkMeansStored
  <2> SUFFICES ASSUME Inv, GroupInv, NEW d \in Devices, Confirmed(d),
                      NEW g \in devs[d].page.shown,
                      \/ guests[g].inv = devs[d].inv
                      \/ /\ devs[d].inv = devs[d].page.inv /\ g \in devs[d].page.own
                         /\ Present(g) /\ g \notin contested
               PROVE  g \in devs[d].valid /\ Kept(d, g)
    BY DEF OkMeansStored
  <2>1. devs[d].pc = "view" /\ Open(devs[d].inv) /\ Posts(d) /\ devs[d] # Away
    BY DEF Confirmed, Posts, Posting, Away
  <2>2. GoodPage(devs[d].page) /\ Read(d)
    BY <2>1 DEF GroupInv, PagesInv, ReadInv
  <2>3. guests[g].inv = devs[d].inv
    BY <2>1, <2>2 DEF GoodPage
  <2> QED
    BY <2>1, <2>2, <2>3 DEF Read
<1>2. Spec => [](Inv /\ GroupInv)
  BY InvInit, InvNext, GroupInit, GroupNext, PTL DEF Spec
<1> QED
  BY <1>1, <1>2, PTL
=============================================================================
