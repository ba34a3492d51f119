--------------------------- MODULE SeatingCanvas ---------------------------
(***************************************************************************)
(* The seating planner in the browser (SeatingCanvas.tsx) on top of the    *)
(* server of module Seating: a drop is shown at once, sent to the server,  *)
(* and taken back by restoring the state the component had when the drop   *)
(* was made if the answer is an error or never comes.                      *)
(*                                                                         *)
(* Each handler slot is one asynchronous function of the component.  While *)
(* one waits for its answer the couple may make the next drop.  The hero   *)
(* panel (a copy of one table) and the feedback line are left out.         *)
(***************************************************************************)
EXTENDS Seating

CONSTANT Me    \* the wedding of the planner

\* The planner and its server alone: what other weddings do is in Seating.  A
\* request may name any chair of any table.
ASSUME CanvasAssumption ==
  /\ Me \in Weddings /\ \A g \in Guests : WeddingOf[g] = Me
  /\ Caps \subseteq Seats

VARIABLES
  shown,       \* state "tables": the tables on the canvas and their chips
  unassigned,  \* state "unassigned": the chips in the list of guests
  ops,         \* per slot: what the waiting function closed over
  faulted      \* bookkeeping: did an answer get lost, or an error leave traces?

cvars == <<shown, unassigned, ops, faulted>>

\* A guest as the canvas holds it.
Chip == [guest : Guests, seat : Seats]
Hidden == [on |-> FALSE]
ShownTable == [on : {TRUE}, cap : Caps, place : Places, chips : SUBSET Chip]
ShownAs(cap, place, chips) == [on |-> TRUE, cap |-> cap, place |-> place, chips |-> chips]

\* What a waiting function closed over: its request and the snapshots it will
\* restore.  Functions that do not touch the list of guests keep only the tables.
NoOp == [restores |-> "idle"]
Waiting == [restores : {"nothing"}, q : Requests]
           \cup [restores : {"tables"}, q : Requests,
                 tables : [Tables -> {Hidden} \cup ShownTable]]
           \cup [restores : {"both"}, q : Requests,
                 tables : [Tables -> {Hidden} \cup ShownTable],
                 unassigned : SUBSET Chip]

\* The function gave up on a request the server still works on.
Abandoned == [restores |-> "abandoned"]

CInit ==
  /\ Init
  /\ shown = [t \in Tables |-> Hidden]
  /\ unassigned = [guest : Guests, seat : {0}]
  /\ ops = [h \in Handlers |-> NoOp]
  /\ faulted = FALSE

----------------------------------------------------------------------------
(* Finding chips and chairs *)

Without(chips, g) == {c \in chips : c.guest # g}

ChipsAt(place) ==
  IF place = Null THEN unassigned
  ELSE IF shown[place].on THEN shown[place].chips ELSE {}

Sightings(g) ==
  {l \in [chip : Chip, at : Tables \cup {Null}] :
     l.chip.guest = g /\ l.chip \in ChipsAt(l.at)}

\* locateGuest: the list of guests first, then the tables.
Located(g) ==
  LET listed == {l \in Sightings(g) : l.at = Null}
  IN IF listed # {} THEN listed ELSE Sightings(g)

Taken(t) == {c.seat : c \in shown[t].chips}
FreeSeats(t) == {s \in 1 .. shown[t].cap : s \notin Taken(t)}

\* The first free chair of a table, 0 if there is none.
FirstFree(t) ==
  IF FreeSeats(t) = {} THEN 0
  ELSE CHOOSE s \in FreeSeats(t) : \A r \in FreeSeats(t) : s <= r

----------------------------------------------------------------------------
(* What the couple does.  Every action shows its effect and sends the      *)
(* request in the same step.                                               *)

Keeping(q, what) ==
  CASE what = "nothing" -> [restores |-> what, q |-> q]
    [] what = "tables" -> [restores |-> what, q |-> q, tables |-> shown]
    [] what = "both" -> [restores |-> what, q |-> q, tables |-> shown,
                         unassigned |-> unassigned]

\* (Bound of the model: once the canvas may be wrong the couple reloads it.)
Start(h, q, what) ==
  /\ ops[h] = NoOp
  /\ ~faulted
  /\ Arrive(h, q)
  /\ ops' = [ops EXCEPT ![h] = Keeping(q, what)]
  /\ UNCHANGED faulted

\* The chip of c on chair s; without a chair it keeps the number it had.
Seat(c, s) == [guest |-> c.guest, seat |-> IF s = 0 THEN c.seat ELSE s]

\* assignToTable, to another table: on the table (s = 0) or on a chair.
DropOnTable(h, g, t, s) ==
  /\ shown[t].on
  /\ s <= shown[t].cap
  /\ \E l \in Located(g) :
       LET seat == IF s = 0 THEN FirstFree(t) ELSE s IN
         /\ l.at # t
         /\ unassigned' = Without(unassigned, g)
         /\ shown' = [u \in Tables |->
              IF u = t /\ \A d \in shown[t].chips : d.guest # g
                THEN [shown[t] EXCEPT !.chips = @ \cup {Seat(l.chip, seat)}]
              ELSE IF u = l.at THEN [shown[u] EXCEPT !.chips = Without(@, g)]
              ELSE shown[u]]
         /\ Start(h, [op |-> "assign", w |-> Me, table |-> t, guest |-> g, seat |-> seat],
                  "both")

\* assignToTable, to another chair of the guest's own table.
Reseat(h, g, t, s) ==
  /\ shown[t].on
  /\ s \in 1 .. shown[t].cap
  /\ \E l \in Located(g) :
       /\ l.at = t /\ s # l.chip.seat
       /\ shown' = [shown EXCEPT ![t].chips =
                      {IF d.guest = g THEN Seat(d, s) ELSE d : d \in @}]
       /\ Start(h, [op |-> "patchGuest", w |-> Me, guest |-> g, seat |-> s], "tables")
  /\ UNCHANGED unassigned

\* clearGuest.
Clear(h, g) ==
  \E l \in Located(g) :
    /\ l.at # Null
    /\ shown' = [shown EXCEPT ![l.at].chips = Without(@, g)]
    /\ unassigned' = unassigned \cup {l.chip}
    /\ Start(h, [op |-> "unseat", w |-> Me, table |-> l.at, guest |-> g], "both")

\* removeTable.
Remove(h, t) ==
  /\ shown[t].on
  /\ shown' = [shown EXCEPT ![t] = Hidden]
  /\ unassigned' = unassigned \cup shown[t].chips
  /\ Start(h, [op |-> "deleteTable", w |-> Me, table |-> t], "both")

\* A drag of a table, from pointer down to pointer up.
Drag(h, t, p) ==
  /\ shown[t].on
  /\ shown[t].place # p
  /\ shown' = [shown EXCEPT ![t].place = p]
  /\ Start(h, [op |-> "move", w |-> Me, table |-> t, place |-> p], "tables")
  /\ UNCHANGED unassigned

\* changeCapacity: shown only when the server has answered.
ChangeCapacity(h, t, n) ==
  /\ shown[t].on
  /\ Start(h, [op |-> "resize", w |-> Me, table |-> t, cap |-> n], "tables")
  /\ UNCHANGED <<shown, unassigned>>

\* addTable.
AddTable(h, t, d) ==
  /\ Start(h, [op |-> "createTable", w |-> Me, table |-> t, deco |-> d],
           "nothing")
  /\ UNCHANGED <<shown, unassigned>>

----------------------------------------------------------------------------
(* Answers *)

RestoreTablesOnly(h) ==
  /\ shown' = IF ops[h].restores = "nothing" THEN shown ELSE ops[h].tables
  /\ UNCHANGED unassigned

\* An error: the snapshots are put back.
Rollback(h) ==
  /\ shown' = IF ops[h].restores = "nothing" THEN shown ELSE ops[h].tables
  /\ unassigned' = IF ops[h].restores = "both" THEN ops[h].unassigned ELSE unassigned

\* What a success still changes on the canvas.
Confirmed(q) ==
  CASE q.op = "createTable" -> [shown EXCEPT ![q.table] = ShownAs(FirstCap, FirstPlace, {})]
    [] q.op = "resize" /\ shown[q.table].on -> [shown EXCEPT ![q.table].cap = q.cap]
    [] q.op = "move" /\ shown[q.table].on -> [shown EXCEPT ![q.table].place = q.place]
    [] OTHER -> shown

Confirm(q) == shown' = Confirmed(q) /\ UNCHANGED unassigned

WaitingOn(h) == ops[h] \notin {NoOp, Abandoned}

\* The answer arrives.
Answered(h) ==
  /\ WaitingOn(h)
  /\ Respond(h)
  /\ IF hand[h].ok THEN Confirm(ops[h].q) ELSE Rollback(h)
  /\ ops' = [ops EXCEPT ![h] = NoOp]
  /\ UNCHANGED faulted

\* fetch throws: the request never got to the server,
RequestLost(h) ==
  /\ WaitingOn(h)
  /\ Drop(h)
  /\ Rollback(h)
  /\ ops' = [ops EXCEPT ![h] = NoOp]
  /\ UNCHANGED faulted

\* or it did, and only the answer is lost.
AnswerLost(h) ==
  /\ "lost" \in Faults
  /\ WaitingOn(h)
  /\ Rollback(h)
  /\ ops' = [ops EXCEPT ![h] = Abandoned]
  /\ faulted' = TRUE
  /\ UNCHANGED vars

Unread(h) ==
  /\ ops[h] = Abandoned
  /\ Respond(h)
  /\ ops' = [ops EXCEPT ![h] = NoOp]
  /\ UNCHANGED <<shown, unassigned, faulted>>

\* The chips of the guests whose rows name a place.
ChipsOf(rows, place) ==
  {[guest |-> g, seat |-> rows[g].seat] : g \in {k \in Guests : rows[k].table = place}}

\* The page is loaded again and the canvas starts from the database.  (The page
\* reads tables and unassigned guests with two queries; the model loads it while
\* the server is quiet, when they cannot disagree.)
Reload ==
  /\ \A h \in Handlers : hand[h] = Idle
  /\ shown' = [t \in Tables |->
       IF tables[t].live THEN ShownAs(tables[t].cap, tables[t].place, ChipsOf(guests, t))
                         ELSE Hidden]
  /\ unassigned' = ChipsOf(guests, Null)
  /\ faulted' = FALSE
  /\ UNCHANGED <<vars, ops>>

\* The server works on a request.
Serve(h) ==
  /\ ServerStep(h)
  /\ faulted' = (faulted \/ (hand[h].pc = "remove" /\ ~hand'[h].ok))
  /\ UNCHANGED <<shown, unassigned, ops>>

CNext ==
  Reload \/ \E h \in Handlers :
    \/ Serve(h) \/ Answered(h) \/ RequestLost(h) \/ AnswerLost(h) \/ Unread(h)
    \/ \E g \in Guests : Clear(h, g)
    \/ \E g \in Guests, t \in Tables : \/ \E s \in Seats : DropOnTable(h, g, t, s)
                                      \/ \E s \in Seats \ {0} : Reseat(h, g, t, s)
    \/ \E t \in Tables : \/ Remove(h, t)
                         \/ \E p \in Places : Drag(h, t, p)
                         \/ \E n \in Caps : ChangeCapacity(h, t, n)
                         \/ \E d \in Decos : AddTable(h, t, d)

CSpec == CInit /\ [][CNext]_<<vars, cvars>>

----------------------------------------------------------------------------
(* Properties *)

\* Type invariant.
CTypeOK ==
  /\ TypeOK
  /\ shown \in [Tables -> {Hidden} \cup ShownTable]
  /\ unassigned \in SUBSET Chip
  /\ ops \in [Handlers -> {NoOp, Abandoned} \cup Waiting]
  /\ faulted \in BOOLEAN

\* Every guest is on the canvas exactly once: at one table or in the list.
ShownOnce == \A g \in Guests : Cardinality(Sightings(g)) = 1

\* Once everything is answered, and unless since the page was loaded an answer
\* was lost or a deletion broke down half way, the canvas shows what the database
\* holds.
AgreesWithServer ==
  (~faulted /\ \A h \in Handlers : ops[h] = NoOp) =>
    /\ \A t \in Tables :
         /\ shown[t].on = tables[t].live
         /\ shown[t].on => shown[t].cap = tables[t].cap /\ shown[t].place = tables[t].place
    /\ \A g \in Guests : [guest |-> g, seat |-> guests[g].seat] \in ChipsAt(guests[g].table)
=============================================================================
