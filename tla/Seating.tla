------------------------------ MODULE Seating ------------------------------
(***************************************************************************)
(* The server side of the seating planner: tables, the guests seated at    *)
(* them and the decorations attached to them (src/app/api/tables,          *)
(* guests/[id] and decorations), for several weddings that share one       *)
(* database.                                                               *)
(*                                                                         *)
(* Every handler first reads what it is about to change, scoped to the     *)
(* wedding of the session, and then writes by id: Check is the reads,      *)
(* Write and RemoveTable the statements that change rows.  Other handlers  *)
(* run in between.                                                         *)
(***************************************************************************)
EXTENDS Integers, FiniteSets

CONSTANTS Weddings, Tables, Guests, Decos,
          WeddingOf,     \* the wedding a row belongs to, fixed at creation
          MaxSeat,       \* seat numbers are 1 .. MaxSeat
          Caps, Places,  \* capacities and positions of tables
          Spots,         \* positions of decorations, those of tables among them
          FirstCap, FirstPlace,   \* what a table is created with
          Faults,        \* the failures considered: "midway", "lost"
          Handlers,      \* slots for in-flight requests
          Null

Rows == Tables \cup Guests \cup Decos

ASSUME SeatingAssumption ==
  /\ WeddingOf \in [Rows -> Weddings]
  /\ MaxSeat \in Nat
  /\ FirstCap \in Caps /\ FirstPlace \in Places
  /\ Places \subseteq Spots
  /\ Faults \subseteq {"midway", "lost"}
  /\ Null \notin Rows

VARIABLES
  tables,    \* Table rows: not created yet, live or deleted
  guests,    \* Guest rows
  decos,     \* Decoration rows
  hand       \* the in-flight requests

vars == <<tables, guests, decos, hand>>

\* Seat numbers; 0 stands for null (in a row) and for "not sent" (in a request).
Seats == 0 .. MaxSeat

\* Capacity and position stand for all that PATCH writes (name and shape too).
Table == [live : BOOLEAN, born : BOOLEAN, cap : Caps, place : Places]

\* answers: do the fields the guest filled in (allergies, music and the flags
\* with a default in guestSchema) still hold what was entered?
Guest == [live : BOOLEAN, table : Tables \cup {Null}, seat : Seats,
          answers : BOOLEAN]
Deco == [live : BOOLEAN, born : BOOLEAN, table : Tables \cup {Null}, place : Spots]

----------------------------------------------------------------------------
(* Requests: the session's wedding w, and the rows and values they name.   *)

Request(w) ==
  [op : {"createTable"}, w : {w}, table : Tables, deco : Decos]
  \cup [op : {"deleteTable"}, w : {w}, table : Tables]
  \cup [op : {"resize"}, w : {w}, table : Tables, cap : Caps]
  \cup [op : {"move"}, w : {w}, table : Tables, place : Places]
  \cup [op : {"assign"}, w : {w}, table : Tables, guest : Guests, seat : Seats]
  \cup [op : {"unseat"}, w : {w}, table : Tables, guest : Guests]
  \cup [op : {"patchGuest"}, w : {w}, guest : Guests, seat : Seats]
  \cup [op : {"deleteGuest"}, w : {w}, guest : Guests]
  \cup [op : {"createDeco"}, w : {w}, deco : Decos, place : Spots]
  \cup [op : {"moveDeco"}, w : {w}, deco : Decos, place : Spots]
  \cup [op : {"attach"}, w : {w}, deco : Decos, table : Tables \cup {Null}, place : Spots]
  \cup [op : {"deleteDeco"}, w : {w}, deco : Decos]

Requests == UNION {Request(w) : w \in Weddings}

Idle == [pc |-> "idle"]

\* "remove" is the second statement of DELETE /api/tables/[id].
Handler == [pc : {"check", "write"}, q : Requests]
           \cup [pc : {"remove"}, q : {q \in Requests : q.op = "deleteTable"}]
           \cup [pc : {"done"}, ok : BOOLEAN]

NewTable(born) ==
  [live |-> born, born |-> born, cap |-> FirstCap, place |-> FirstPlace]

\* No row, now (born) or never yet.
NoDeco(born) == [live |-> FALSE, born |-> born, table |-> Null, place |-> FirstPlace]
NewDeco(table, place) == [live |-> TRUE, born |-> TRUE, table |-> table, place |-> place]

Init ==
  /\ tables = [t \in Tables |-> NewTable(FALSE)]
  /\ guests = [g \in Guests |-> [live |-> TRUE, table |-> Null, seat |-> 0,
                                 answers |-> TRUE]]
  /\ decos = [d \in Decos |-> NoDeco(FALSE)]
  /\ hand = [h \in Handlers |-> Idle]

TableOfAnyone(t, w) == tables[t].live
OwnedTable(t, w) == tables[t].live /\ WeddingOf[t] = w

OwnedGuest(g, w) == guests[g].live /\ WeddingOf[g] = w

OwnedDeco(d, w) == decos[d].live /\ WeddingOf[d] = w

\* What a handler reads before it writes; a request that fails it is answered
\* with 404.
Passes(q) ==
  CASE q.op \in {"createTable", "createDeco"} -> TRUE
    [] q.op \in {"deleteTable", "resize", "move"} -> OwnedTable(q.table, q.w)
    [] q.op = "assign" -> OwnedTable(q.table, q.w) /\ OwnedGuest(q.guest, q.w)
    [] q.op = "unseat" -> /\ OwnedTable(q.table, q.w)
                          /\ OwnedGuest(q.guest, q.w)
                          /\ guests[q.guest].table = q.table
    [] q.op \in {"patchGuest", "deleteGuest"} -> OwnedGuest(q.guest, q.w)
    [] q.op = "attach" -> /\ OwnedDeco(q.deco, q.w)
                          /\ q.table # Null => OwnedTable(q.table, q.w)
    [] q.op \in {"moveDeco", "deleteDeco"} -> OwnedDeco(q.deco, q.w)

Answer(h, ok) == hand' = [hand EXCEPT ![h] = [pc |-> "done", ok |-> ok]]

\* The requests in flight that create rows.
Creating ==
  {hand[h].q : h \in {k \in Handlers : /\ hand[k].pc \in {"check", "write"}
                                      /\ hand[k].q.op \in {"createTable", "createDeco"}}}

\* A request reaches the server.  The ids of new rows are fresh.
Arrive(h, q) ==
  /\ hand[h] = Idle
  /\ q.op = "createTable" =>
       /\ ~tables[q.table].born /\ WeddingOf[q.table] = q.w
       /\ \A c \in Creating : c.op = "createTable" => c.table # q.table
  /\ q.op \in {"createTable", "createDeco"} =>
       /\ ~decos[q.deco].born /\ WeddingOf[q.deco] = q.w
       /\ \A c \in Creating : c.deco # q.deco
  /\ hand' = [hand EXCEPT ![h] = [pc |-> "check", q |-> q]]
  /\ UNCHANGED <<tables, guests, decos>>

Check(h) ==
  /\ hand[h].pc = "check"
  /\ IF Passes(hand[h].q) THEN hand' = [hand EXCEPT ![h].pc = "write"]
                          ELSE Answer(h, FALSE)
  /\ UNCHANGED <<tables, guests, decos>>

----------------------------------------------------------------------------
(* The writes.  A statement that finds its row gone, or a foreign key that *)
(* no longer holds, fails and changes nothing: the handler answers 500.    *)

\* POST /api/tables: the table and its centerpiece, in one transaction.
CreateTable(q) ==
  /\ tables' = [tables EXCEPT ![q.table] = NewTable(TRUE)]
  /\ decos' = [decos EXCEPT ![q.deco] = NewDeco(q.table, FirstPlace)]
  /\ UNCHANGED guests

\* PATCH /api/tables/[id] writes only the fields that were sent.
Resize(q) ==
  /\ tables[q.table].live
  /\ tables' = [tables EXCEPT ![q.table].cap = q.cap]
  /\ UNCHANGED <<guests, decos>>

MoveResets(q) ==
  /\ tables[q.table].live
  /\ tables' = [tables EXCEPT ![q.table].place = q.place, ![q.table].cap = FirstCap]
  /\ UNCHANGED <<guests, decos>>

Move(q) ==
  /\ tables[q.table].live
  /\ tables' = [tables EXCEPT ![q.table].place = q.place]
  /\ UNCHANGED <<guests, decos>>

\* The seat POST /api/tables/[id]/guests writes: the old one if none is sent.
AssignedSeat(q) == IF q.seat = 0 THEN guests[q.guest].seat ELSE q.seat

Assign(q) ==
  /\ guests[q.guest].live /\ tables[q.table].live
  /\ guests' = [guests EXCEPT ![q.guest].table = q.table,
                              ![q.guest].seat = AssignedSeat(q)]
  /\ UNCHANGED <<tables, decos>>

\* DELETE /api/tables/[id]/guests: by id, wherever the guest sits by now.  The
\* seat number stays.
Unseat(q) ==
  /\ guests[q.guest].live
  /\ guests' = [guests EXCEPT ![q.guest].table = Null]
  /\ UNCHANGED <<tables, decos>>

\* PATCH /api/guests/[id] {seatNumber}, as the canvas sends it.  A partial
\* schema of fields with defaults fills these in when they are not sent (zod 4).
PatchGuest(q) ==
  /\ guests[q.guest].live
  /\ guests' = [guests EXCEPT ![q.guest].seat = q.seat, ![q.guest].answers = FALSE]
  /\ UNCHANGED <<tables, decos>>

DeleteGuest(q) ==
  /\ guests[q.guest].live
  /\ guests' = [guests EXCEPT ![q.guest].live = FALSE, ![q.guest].table = Null]
  /\ UNCHANGED <<tables, decos>>

CreateDeco(q) ==
  /\ decos' = [decos EXCEPT ![q.deco] = NewDeco(Null, q.place)]
  /\ UNCHANGED <<tables, guests>>

\* PATCH /api/decorations/[id]: the position, or a table (or none) with it, as the
\* decoration layer sends them.  There is no foreign key.
MoveDeco(q) ==
  /\ decos[q.deco].live
  /\ decos' = [decos EXCEPT ![q.deco].place = q.place]
  /\ UNCHANGED <<tables, guests>>

Attach(q) ==
  /\ decos[q.deco].live
  /\ decos' = [decos EXCEPT ![q.deco].table = q.table, ![q.deco].place = q.place]
  /\ UNCHANGED <<tables, guests>>

DeleteDeco(q) ==
  /\ decos[q.deco].live
  /\ decos' = [decos EXCEPT ![q.deco] = NoDeco(TRUE)]
  /\ UNCHANGED <<tables, guests>>

Apply(q) ==
  \/ q.op = "createTable" /\ CreateTable(q)
  \/ q.op = "resize" /\ Resize(q)
  \/ q.op = "move" /\ Move(q)
  \/ q.op = "assign" /\ Assign(q)
  \/ q.op = "unseat" /\ Unseat(q)
  \/ q.op = "patchGuest" /\ PatchGuest(q)
  \/ q.op = "deleteGuest" /\ DeleteGuest(q)
  \/ q.op = "createDeco" /\ CreateDeco(q)
  \/ q.op = "moveDeco" /\ MoveDeco(q)
  \/ q.op = "attach" /\ Attach(q)
  \/ q.op = "deleteDeco" /\ DeleteDeco(q)

\* Do the rows the statement needs still exist?
Applies(q) ==
  CASE q.op \in {"createTable", "createDeco"} -> TRUE
    [] q.op \in {"resize", "move"} -> tables[q.table].live
    [] q.op = "assign" -> guests[q.guest].live /\ tables[q.table].live
    [] q.op \in {"unseat", "patchGuest", "deleteGuest"} -> guests[q.guest].live
    [] OTHER -> decos[q.deco].live

Write(h) ==
  /\ hand[h].pc = "write" /\ hand[h].q.op # "deleteTable"
  /\ \/ Apply(hand[h].q) /\ Answer(h, TRUE)
     \/ ~Applies(hand[h].q) /\ Answer(h, FALSE) /\ UNCHANGED <<tables, guests, decos>>

\* The guests of a table after it is gone.
Released(t) ==
  [g \in Guests |-> IF guests[g].table = t THEN [guests[g] EXCEPT !.table = Null]
                                           ELSE guests[g]]

\* First statement of DELETE /api/tables/[id].
ReleaseGuests(h) ==
  /\ hand[h].pc = "write" /\ hand[h].q.op = "deleteTable"
  /\ guests' = Released(hand[h].q.table)
  /\ hand' = [hand EXCEPT ![h].pc = "remove"]
  /\ UNCHANGED <<tables, decos>>

KeepSeated(t) == guests
Cascaded(t) ==
  [g \in Guests |-> IF guests[g].table = t
                      THEN [guests[g] EXCEPT !.table = Null, !.live = FALSE]
                      ELSE guests[g]]

\* ON DELETE SET NULL of Guest.tableId frees whoever was seated meanwhile.
SetNull(t) == Released(t)

\* Second statement; decorations have no foreign key and keep the id.
RemoveTable(h) ==
  /\ hand[h].pc = "remove"
  /\ LET t == hand[h].q.table IN
       \/ /\ tables[t].live
          /\ tables' = [tables EXCEPT ![t].live = FALSE]
          /\ guests' = SetNull(t)
          /\ Answer(h, TRUE)
       \/ /\ ~tables[t].live
          /\ Answer(h, FALSE)
          /\ UNCHANGED <<tables, guests>>
  /\ UNCHANGED decos

\* A database error: 500, and what the earlier statements wrote stays.
Fail(h) ==
  /\ \/ hand[h].pc \in {"check", "write"}
     \/ hand[h].pc = "remove" /\ "midway" \in Faults
  /\ Answer(h, FALSE)
  /\ UNCHANGED <<tables, guests, decos>>

\* A request that never reaches the handler.
Drop(h) ==
  /\ "lost" \in Faults
  /\ hand[h].pc = "check"
  /\ hand' = [hand EXCEPT ![h] = Idle]
  /\ UNCHANGED <<tables, guests, decos>>

\* The response leaves the server.
Respond(h) ==
  /\ hand[h].pc = "done"
  /\ hand' = [hand EXCEPT ![h] = Idle]
  /\ UNCHANGED <<tables, guests, decos>>

ServerStep(h) == Check(h) \/ Write(h) \/ Fail(h) \/ ReleaseGuests(h) \/ RemoveTable(h)

Next ==
  \E h \in Handlers :
    ServerStep(h) \/ Drop(h) \/ Respond(h) \/ \E q \in Requests : Arrive(h, q)

Spec == Init /\ [][Next]_vars

----------------------------------------------------------------------------
(* Properties *)

\* Type invariant.
TypeOK ==
  /\ tables \in [Tables -> Table]
  /\ guests \in [Guests -> Guest]
  /\ decos \in [Decos -> Deco]
  /\ hand \in [Handlers -> {Idle} \cup Handler]

\* Nobody sits at a table that is not there, whatever races with its deletion.
SeatedAtLiveTables ==
  \A g \in Guests : guests[g].table # Null => tables[guests[g].table].live

\* The weddings in the database never touch: no guest is seated at, and no
\* decoration attached to, a table of another wedding.
TenantsApart ==
  \A r \in Guests \cup Decos :
    LET t == IF r \in Guests THEN guests[r].table ELSE decos[r].table
    IN t # Null => WeddingOf[t] = WeddingOf[r]

\* Seating implements SeatingPlan: whatever is read before it is written, retried
\* or cut off half way, every statement changes the plan by one step of it.
Room == {t \in Tables : tables[t].live}
Removed == {t \in Tables : tables[t].born /\ ~tables[t].live}
Seated == [g \in Guests |-> guests[g].table]
Gone == {g \in Guests : ~guests[g].live}
Decor == {d \in Decos : decos[d].live}
Discarded == {d \in Decos : decos[d].born /\ ~decos[d].live}
Attached == [d \in Decos |-> decos[d].table]

Plan == INSTANCE SeatingPlan
          WITH room <- Room, removed <- Removed, seating <- Seated, gone <- Gone,
               decor <- Decor, discarded <- Discarded, attached <- Attached
PlanKept == Plan!Spec
=============================================================================
