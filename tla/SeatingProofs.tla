---------------------------- MODULE SeatingProofs ----------------------------
(***************************************************************************)
(* Theorems about Seating and its clients DecorationLayer and              *)
(* SeatingCanvas, for every set of weddings, tables, guests, decorations   *)
(* and handlers, every capacity and every fault.                           *)
(*                                                                         *)
(* The invariant of the server has two halves. RowsInv speaks of the rows  *)
(* only. HandInv says what a handler knows between its reads and its       *)
(* writes: that the rows it is about to connect belong to one wedding.     *)
(* That is true when the reads are done and stays true, because the        *)
(* wedding of a row is never written again; whether the rows still exist   *)
(* is not known, and the statements look again.                            *)
(***************************************************************************)
EXTENDS DecorationLayer, SeatingCanvas, FiniteSetTheorems, WellFoundedInduction, TLAPS

GuestsApart ==
  \A g \in Guests : guests[g].table # Null => WeddingOf[guests[g].table] = WeddingOf[g]

DecosApart ==
  \A d \in Decos : decos[d].table # Null => WeddingOf[decos[d].table] = WeddingOf[d]

RowsType ==
  /\ tables \in [Tables -> Table]
  /\ guests \in [Guests -> Guest]
  /\ decos \in [Decos -> Deco]

RowsInv == RowsType /\ SeatedAtLiveTables /\ GuestsApart /\ DecosApart

\* What the reads of a request have established when it comes to write.
Within(q) ==
  /\ q.op = "assign" => WeddingOf[q.table] = WeddingOf[q.guest]
  /\ q.op = "attach" /\ q.table # Null => WeddingOf[q.table] = WeddingOf[q.deco]

\* A table and its centerpiece are created for the wedding of the session.
OwnPiece(q) == q.op = "createTable" => WeddingOf[q.table] = WeddingOf[q.deco]

HandInv ==
  \A h \in Handlers :
    /\ hand[h].pc \in {"check", "write"} => OwnPiece(hand[h].q)
    /\ hand[h].pc = "write" => Within(hand[h].q)

Inv == RowsInv /\ HandInv /\ hand \in [Handlers -> {Idle} \cup Handler]

----------------------------------------------------------------------------
(* The fields of requests and handlers *)

\* What a request names, by its operation.
LEMMA RequestFields ==
  ASSUME NEW q \in Requests
  PROVE  /\ q.w \in Weddings
         /\ q.op = "createTable" => q.table \in Tables /\ q.deco \in Decos
         /\ q.op = "deleteTable" => q.table \in Tables
         /\ q.op = "resize" => q.table \in Tables /\ q.cap \in Caps
         /\ q.op = "move" => q.table \in Tables /\ q.place \in Places
         /\ q.op = "assign" => /\ q.table \in Tables /\ q.guest \in Guests
                               /\ q.seat \in Seats
         /\ q.op = "unseat" => q.table \in Tables /\ q.guest \in Guests
         /\ q.op = "patchGuest" => q.guest \in Guests /\ q.seat \in Seats
         /\ q.op = "deleteGuest" => q.guest \in Guests
         /\ q.op \in {"createDeco", "moveDeco"} => q.deco \in Decos /\ q.place \in Spots
         /\ q.op = "attach" => /\ q.deco \in Decos /\ q.table \in Tables \cup {Null}
                               /\ q.place \in Spots
         /\ q.op = "deleteDeco" => q.deco \in Decos
<1>1. PICK w \in Weddings : q \in Request(w)
  BY DEF Requests
<1> QED
  BY <1>1 DEF Request

\* A handler that waits at a read or a write has a request, and the next place
\* it waits at is one of a handler.
LEMMA HandlerFields ==
  ASSUME NEW r \in {Idle} \cup Handler
  PROVE  /\ r.pc \in {"check", "write", "remove"} => r.q \in Requests
         /\ r.pc = "check" => [r EXCEPT !.pc = "write"] = [pc |-> "write", q |-> r.q]
         /\ r.pc = "write" /\ r.q.op = "deleteTable" =>
              /\ [r EXCEPT !.pc = "remove"] = [pc |-> "remove", q |-> r.q]
              /\ [r EXCEPT !.pc = "remove"] \in Handler
         /\ r.pc = "remove" => r.q.op = "deleteTable"
         /\ \A q \in Requests : [pc |-> "check", q |-> q] \in Handler
                                /\ [pc |-> "write", q |-> q] \in Handler
         /\ \A ok \in BOOLEAN : [pc |-> "done", ok |-> ok] \in Handler
<1>1. CASE r = Idle
  BY <1>1 DEF Idle, Handler
<1>2. CASE r \in [pc : {"check", "write"}, q : Requests]
  BY <1>2 DEF Handler
<1>3. CASE r \in [pc : {"remove"}, q : {q \in Requests : q.op = "deleteTable"}]
  BY <1>3 DEF Handler
<1>4. CASE r \in [pc : {"done"}, ok : BOOLEAN]
  BY <1>4 DEF Handler
<1> QED
  BY <1>1, <1>2, <1>3, <1>4 DEF Handler

\* A handler that has answered, or whose answer has left, knows nothing.
LEMMA NothingKnown ==
  ASSUME Inv, NEW h \in Handlers,
         \/ \E ok \in BOOLEAN : Answer(h, ok)
         \/ hand' = [hand EXCEPT ![h] = Idle]
  PROVE  HandInv' /\ hand' \in [Handlers -> {Idle} \cup Handler]
<1>1. PICK r \in {Idle} \cup Handler :
        /\ r.pc \notin {"check", "write"}
        /\ hand' = [hand EXCEPT ![h] = r]
  BY HandlerFields DEF Answer, Idle
<1> QED
  BY <1>1 DEF Inv, HandInv, OwnPiece, Within

----------------------------------------------------------------------------
(* The statements that write *)

\* Every write of a request whose reads came out keeps the rows in order.
LEMMA ApplyKeeps ==
  ASSUME RowsInv, NEW q \in Requests, OwnPiece(q), Within(q), Apply(q)
  PROVE  RowsInv'
<1> USE SeatingAssumption DEF RowsInv, RowsType
<1>1. CASE q.op = "createTable" /\ CreateTable(q)
  <2>1. NewTable(TRUE) \in Table /\ NewTable(TRUE).live
    BY DEF NewTable, Table
  <2>2. tables' \in [Tables -> Table] /\ \A t \in Tables : tables[t].live => tables'[t].live
    BY <1>1, <2>1, RequestFields DEF CreateTable
  <2>3. NewDeco(q.table, FirstPlace) \in Deco /\ NewDeco(q.table, FirstPlace).table = q.table
    BY <1>1, RequestFields DEF NewDeco, Deco
  <2>4. decos' \in [Decos -> Deco]
    BY <1>1, <2>3, RequestFields DEF CreateTable
  <2>5. DecosApart'
    BY <1>1, <2>3, RequestFields DEF CreateTable, DecosApart, OwnPiece
  <2>6. guests' = guests /\ GuestsApart'
    BY <1>1 DEF CreateTable, GuestsApart
  <2>7. \A g \in Guests : guests[g].table \in Tables \cup {Null}
    BY DEF Guest
  <2>8. SeatedAtLiveTables'
    BY <2>2, <2>6, <2>7 DEF SeatedAtLiveTables
  <2> QED
    BY <2>2, <2>4, <2>5, <2>6, <2>8
<1>2. CASE \/ q.op = "resize" /\ Resize(q)
           \/ q.op = "move" /\ Move(q)
  <2>1. PICK row \in Table : /\ tables' = [tables EXCEPT ![q.table] = row]
                             /\ row.live = tables[q.table].live
    BY <1>2, RequestFields DEF Resize, Move, Table
  <2>2. tables' \in [Tables -> Table] /\ \A t \in Tables : tables[t].live => tables'[t].live
    BY <1>2, <2>1, RequestFields
  <2>3. UNCHANGED <<guests, decos>>
    BY <1>2 DEF Resize, Move
  <2> QED
    BY <2>2, <2>3 DEF SeatedAtLiveTables, GuestsApart, DecosApart, Guest
<1>3. CASE q.op = "assign" /\ Assign(q)
  <2>1. q.table \in Tables /\ q.guest \in Guests /\ AssignedSeat(q) \in Seats
    BY <1>3, RequestFields DEF AssignedSeat, Guest
  <2>2. PICK row \in Guest : /\ guests' = [guests EXCEPT ![q.guest] = row]
                             /\ row.table = q.table
    <3> DEFINE new == [guests[q.guest] EXCEPT !.table = q.table, !.seat = AssignedSeat(q)]
    <3>1. new \in Guest /\ new.table = q.table
      BY <2>1 DEF Guest
    <3>2. guests' = [guests EXCEPT ![q.guest] = new]
      BY <1>3, <2>1 DEF Assign
    <3> QED
      BY <3>1, <3>2
  <2>3. guests' \in [Guests -> Guest] /\ UNCHANGED <<tables, decos>>
    BY <1>3, <2>1, <2>2 DEF Assign
  <2>4. SeatedAtLiveTables'
    BY <1>3, <2>1, <2>2, <2>3 DEF Assign, SeatedAtLiveTables
  <2>5. GuestsApart'
    BY <1>3, <2>1, <2>2, <2>3 DEF Within, GuestsApart
  <2> QED
    BY <2>3, <2>4, <2>5 DEF DecosApart
<1>4. CASE \/ q.op = "unseat" /\ Unseat(q)
           \/ q.op = "patchGuest" /\ PatchGuest(q)
           \/ q.op = "deleteGuest" /\ DeleteGuest(q)
  <2>1. q.guest \in Guests
    BY <1>4, RequestFields
  <2>2. PICK row \in Guest : /\ guests' = [guests EXCEPT ![q.guest] = row]
                             /\ row.table \in {Null, guests[q.guest].table}
    <3> guests[q.guest] \in Guest
      BY <2>1
    <3>1. CASE q.op = "unseat" /\ Unseat(q)
      <4> DEFINE new == [guests[q.guest] EXCEPT !.table = Null]
      <4>1. new \in Guest /\ new.table = Null
        BY DEF Guest
      <4>2. guests' = [guests EXCEPT ![q.guest] = new]
        BY <2>1, <3>1 DEF Unseat
      <4> QED
        BY <4>1, <4>2
    <3>2. CASE q.op = "patchGuest" /\ PatchGuest(q)
      <4> DEFINE new == [guests[q.guest] EXCEPT !.seat = q.seat, !.answers = FALSE]
      <4>1. new \in Guest /\ new.table = guests[q.guest].table
        BY <3>2, RequestFields DEF Guest
      <4>2. guests' = [guests EXCEPT ![q.guest] = new]
        BY <2>1, <3>2 DEF PatchGuest
      <4> QED
        BY <4>1, <4>2
    <3>3. CASE q.op = "deleteGuest" /\ DeleteGuest(q)
      <4> DEFINE new == [guests[q.guest] EXCEPT !.live = FALSE, !.table = Null]
      <4>1. new \in Guest /\ new.table = Null
        BY DEF Guest
      <4>2. guests' = [guests EXCEPT ![q.guest] = new]
        BY <2>1, <3>3 DEF DeleteGuest
      <4> QED
        BY <4>1, <4>2
    <3> QED
      BY <1>4, <3>1, <3>2, <3>3
  <2>3. guests' \in [Guests -> Guest] /\ UNCHANGED <<tables, decos>>
    BY <1>4, <2>1, <2>2 DEF Unseat, PatchGuest, DeleteGuest
  <2> QED
    BY <2>1, <2>2, <2>3 DEF SeatedAtLiveTables, GuestsApart, DecosApart
<1>5. CASE \/ q.op = "createDeco" /\ CreateDeco(q)
           \/ q.op = "deleteDeco" /\ DeleteDeco(q)
           \/ q.op = "moveDeco" /\ MoveDeco(q)
           \/ q.op = "attach" /\ Attach(q)
  <2>1. q.deco \in Decos
    BY <1>5, RequestFields
  <2>2. PICK row \in Deco :
          /\ decos' = [decos EXCEPT ![q.deco] = row]
          /\ \/ row.table \in {Null, decos[q.deco].table}
             \/ q.op = "attach" /\ row.table = q.table
    <3> decos[q.deco] \in Deco
      BY <2>1
    <3>1. CASE q.op = "createDeco" /\ CreateDeco(q)
      <4> DEFINE new == NewDeco(Null, q.place)
      <4>1. new \in Deco /\ new.table = Null
        BY <3>1, RequestFields DEF NewDeco, Deco
      <4>2. decos' = [decos EXCEPT ![q.deco] = new]
        BY <2>1, <3>1 DEF CreateDeco
      <4> QED
        BY <4>1, <4>2
    <3>2. CASE q.op = "deleteDeco" /\ DeleteDeco(q)
      <4> DEFINE new == NoDeco(TRUE)
      <4>1. new \in Deco /\ new.table = Null
        BY DEF NoDeco, Deco
      <4>2. decos' = [decos EXCEPT ![q.deco] = new]
        BY <2>1, <3>2 DEF DeleteDeco
      <4> QED
        BY <4>1, <4>2
    <3>3. CASE q.op = "attach" /\ Attach(q)
      <4> DEFINE new == [decos[q.deco] EXCEPT !.table = q.table, !.place = q.place]
      <4>1. new \in Deco /\ new.table = q.table
        BY <3>3, RequestFields DEF Deco
      <4>2. decos' = [decos EXCEPT ![q.deco] = new]
        BY <2>1, <3>3 DEF Attach
      <4> QED
        BY <3>3, <4>1, <4>2
    <3>4. CASE q.op = "moveDeco" /\ MoveDeco(q)
      <4> DEFINE new == [decos[q.deco] EXCEPT !.place = q.place]
      <4>1. new \in Deco /\ new.table = decos[q.deco].table
        BY <3>4, RequestFields DEF Deco
      <4>2. decos' = [decos EXCEPT ![q.deco] = new]
        BY <2>1, <3>4 DEF MoveDeco
      <4> QED
        BY <4>1, <4>2
    <3> QED
      BY <1>5, <3>1, <3>2, <3>3, <3>4
  <2>3. decos' \in [Decos -> Deco] /\ UNCHANGED <<tables, guests>>
    BY <1>5, <2>1, <2>2 DEF CreateDeco, DeleteDeco, MoveDeco, Attach
  <2>4. DecosApart'
    BY <2>1, <2>2, <2>3 DEF DecosApart, Within
  <2> QED
    BY <2>3, <2>4 DEF SeatedAtLiveTables, GuestsApart
<1> QED
  BY <1>1, <1>2, <1>3, <1>4, <1>5 DEF Apply

\* Freeing the guests of a table seats nobody anywhere else.
LEMMA ReleasedKeeps ==
  ASSUME RowsInv, NEW t \in Tables
  PROVE  /\ Released(t) \in [Guests -> Guest]
         /\ \A g \in Guests : Released(t)[g].table \in {Null, guests[g].table} \ {t}
<1> DEFINE new(g) == IF guests[g].table = t THEN [guests[g] EXCEPT !.table = Null]
                                           ELSE guests[g]
<1>1. \A g \in Guests : new(g) \in Guest /\ new(g).table \in {Null, guests[g].table} \ {t}
  BY SeatingAssumption DEF RowsInv, RowsType, Guest, Rows
<1> QED
  BY <1>1 DEF Released

----------------------------------------------------------------------------
(* The invariant *)

LEMMA InvInit == Init => Inv
<1> SUFFICES ASSUME Init PROVE Inv
  OBVIOUS
<1> USE SeatingAssumption DEF Init
<1>1. tables \in [Tables -> Table]
  BY DEF NewTable, Table
<1>2. guests \in [Guests -> Guest] /\ \A g \in Guests : guests[g].table = Null
  BY DEF Guest, Seats
<1>3. decos \in [Decos -> Deco] /\ \A d \in Decos : decos[d].table = Null
  BY DEF NoDeco, Deco
<1>4. HandInv /\ hand \in [Handlers -> {Idle} \cup Handler]
  BY DEF HandInv, Idle
<1> QED
  BY <1>1, <1>2, <1>3, <1>4
     DEF Inv, RowsInv, RowsType, SeatedAtLiveTables, GuestsApart, DecosApart

LEMMA InvNext == Inv /\ [Next]_vars => Inv'
<1> SUFFICES ASSUME Inv, [Next]_vars PROVE Inv'
  OBVIOUS
<1> DEFINE RowsKept == UNCHANGED <<tables, guests, decos>>
<1>0. RowsKept => RowsInv'
  BY DEF Inv, RowsInv, RowsType, SeatedAtLiveTables, GuestsApart, DecosApart
<1>1. ASSUME NEW h \in Handlers, NEW q \in Requests, Arrive(h, q) PROVE Inv'
  <2>1. [pc |-> "check", q |-> q] \in Handler
    BY HandlerFields
  <2>2. OwnPiece(q)
    BY <1>1 DEF Arrive, OwnPiece
  <2>3. HandInv' /\ hand' \in [Handlers -> {Idle} \cup Handler]
    BY <1>1, <2>1, <2>2 DEF Arrive, Inv, HandInv
  <2> QED
    BY <1>0, <1>1, <2>3 DEF Arrive, Inv
<1>2. ASSUME NEW h \in Handlers, Check(h) PROVE Inv'
  <2> DEFINE q == hand[h].q
  <2>1. CASE Passes(q) /\ hand' = [hand EXCEPT ![h].pc = "write"]
    <3>1. /\ hand[h].pc = "check" /\ hand[h] \in {Idle} \cup Handler
          /\ q \in Requests /\ OwnPiece(q)
      BY <1>2, HandlerFields DEF Check, Inv, HandInv
    <3>2. q.op = "assign" => WeddingOf[q.table] = WeddingOf[q.guest]
      BY <2>1 DEF Passes, OwnedTable, OwnedGuest
    <3>3. q.op = "attach" /\ q.table # Null => WeddingOf[q.table] = WeddingOf[q.deco]
      BY <2>1 DEF Passes, OwnedTable, OwnedDeco
    <3>4. /\ hand' = [hand EXCEPT ![h] = [pc |-> "write", q |-> q]]
          /\ [pc |-> "write", q |-> q] \in Handler
      BY <2>1, <3>1, HandlerFields
    <3>5. HandInv' /\ hand' \in [Handlers -> {Idle} \cup Handler]
      BY <3>1, <3>2, <3>3, <3>4 DEF Inv, HandInv, Within
    <3> QED
      BY <1>0, <1>2, <3>5 DEF Check, Inv
  <2>2. CASE Answer(h, FALSE)
    BY <1>0, <1>2, <2>2, NothingKnown DEF Check, Inv
  <2> QED
    BY <1>2, <2>1, <2>2 DEF Check
<1>3. ASSUME NEW h \in Handlers, Write(h) PROVE Inv'
  <2>1. hand[h].q \in Requests /\ OwnPiece(hand[h].q) /\ Within(hand[h].q)
    BY <1>3, HandlerFields DEF Write, Inv, HandInv
  <2>2. RowsInv'
    BY <1>0, <1>3, <2>1, ApplyKeeps DEF Write, Inv
  <2> QED
    BY <1>3, <2>2, NothingKnown DEF Write, Inv
<1>4. ASSUME NEW h \in Handlers, Fail(h) PROVE Inv'
  BY <1>0, <1>4, NothingKnown DEF Fail, Inv
<1>5. ASSUME NEW h \in Handlers, ReleaseGuests(h) PROVE Inv'
  <2> DEFINE t == hand[h].q.table
  <2>1. t \in Tables /\ [hand[h] EXCEPT !.pc = "remove"] \in Handler
        /\ [hand[h] EXCEPT !.pc = "remove"].pc = "remove"
    BY <1>5, HandlerFields, RequestFields DEF ReleaseGuests, Inv
  <2>2. HandInv' /\ hand' \in [Handlers -> {Idle} \cup Handler]
    BY <1>5, <2>1 DEF ReleaseGuests, Inv, HandInv
  <2>3. RowsInv'
    <3>1. RowsInv /\ UNCHANGED <<tables, decos>> /\ guests' = Released(t)
      BY <1>5 DEF ReleaseGuests, Inv
    <3>2. /\ guests' \in [Guests -> Guest]
          /\ \A g \in Guests : guests'[g].table \in {Null, guests[g].table}
      BY <2>1, <3>1, ReleasedKeeps
    <3> QED
      BY <3>1, <3>2
         DEF RowsInv, RowsType, SeatedAtLiveTables, GuestsApart, DecosApart
  <2> QED
    BY <2>2, <2>3 DEF Inv
<1>6. ASSUME NEW h \in Handlers, RemoveTable(h) PROVE Inv'
  <2> DEFINE t == hand[h].q.table
  <2>1. t \in Tables
    BY <1>6, HandlerFields, RequestFields DEF RemoveTable, Inv
  <2>2. HandInv' /\ hand' \in [Handlers -> {Idle} \cup Handler]
    BY <1>6, NothingKnown DEF RemoveTable
  <2>3. CASE /\ tables' = [tables EXCEPT ![t].live = FALSE]
             /\ guests' = SetNull(t) /\ decos' = decos
    <3>1. tables' \in [Tables -> Table]
      BY <2>1, <2>3 DEF Inv, RowsInv, RowsType, Table
    <3>2. \A s \in Tables \ {t} : tables'[s] = tables[s]
      BY <2>1, <2>3 DEF Inv, RowsInv, RowsType
    <3>3. /\ guests' \in [Guests -> Guest]
          /\ \A g \in Guests : guests'[g].table \in {Null, guests[g].table} \ {t}
      BY <2>1, <2>3, ReleasedKeeps DEF SetNull, Inv
    <3>4. \A g \in Guests : guests[g].table \in Tables \cup {Null}
      BY DEF Inv, RowsInv, RowsType, Guest
    <3>5. SeatedAtLiveTables'
      BY <3>2, <3>3, <3>4 DEF Inv, RowsInv, SeatedAtLiveTables
    <3>6. GuestsApart' /\ DecosApart'
      BY <2>3, <3>3 DEF Inv, RowsInv, GuestsApart, DecosApart
    <3> QED
      BY <2>2, <2>3, <3>1, <3>3, <3>5, <3>6 DEF Inv, RowsInv, RowsType
  <2>4. CASE RowsKept
    BY <1>0, <2>2, <2>4 DEF Inv
  <2> QED
    BY <1>6, <2>3, <2>4 DEF RemoveTable
<1>7. ASSUME NEW h \in Handlers, Respond(h) PROVE Inv'
  BY <1>0, <1>7, NothingKnown DEF Respond, Inv
<1>8. ASSUME NEW h \in Handlers, Drop(h) PROVE Inv'
  BY <1>0, <1>8, NothingKnown DEF Drop, Inv
<1>9. CASE UNCHANGED vars
  BY <1>0, <1>9 DEF vars, Inv, HandInv
<1> QED
  BY <1>1, <1>2, <1>3, <1>4, <1>5, <1>6, <1>7, <1>8, <1>9 DEF Next, ServerStep

LEMMA InvHolds == Spec => []Inv
<1> QED
  BY InvInit, InvNext, PTL DEF Spec

\* Every row and every handler has its type, whatever the interleaving.
THEOREM TypeCorrect == Spec => []TypeOK
<1>1. Inv => TypeOK
  BY DEF Inv, RowsInv, RowsType, TypeOK
<1> QED
  BY <1>1, InvHolds, PTL

\* Nobody ever sits at a table that is not there: DELETE /api/tables/[id] frees
\* its guests before the row goes, and whoever is seated in between is freed
\* with the row.
THEOREM NoGhostTables == Spec => []SeatedAtLiveTables
<1>1. Inv => SeatedAtLiveTables
  BY DEF Inv, RowsInv
<1> QED
  BY <1>1, InvHolds, PTL

\* No request, however it interleaves with others, connects rows of two
\* weddings.
THEOREM WeddingsApart == Spec => []TenantsApart
<1>1. Inv => TenantsApart
  BY DEF Inv, RowsInv, GuestsApart, DecosApart, TenantsApart
<1> QED
  BY <1>1, InvHolds, PTL

(***************************************************************************)
(* The seating server implements SeatingPlan.                              *)
(*                                                                         *)
(* A step of the plan needs more than what a handler read: the ids of new  *)
(* rows are new when they are inserted, and a table a decoration is        *)
(* attached to was there once, whatever has become of it since.            *)
(***************************************************************************)

\* A row that is live was created, and a decoration that is not belongs nowhere.
Born == \A t \in Tables : tables[t].live => tables[t].born

DecosBorn ==
  \A d \in Decos : /\ decos[d].live => decos[d].born
                   /\ decos[d].live \/ decos[d].table = Null

\* The requests in flight that insert rows.
Inserts(h) ==
  /\ hand[h].pc \in {"check", "write"}
  /\ hand[h].q.op \in {"createTable", "createDeco"}

IdsFree ==
  \A h \in Handlers : Inserts(h) =>
    /\ ~decos[hand[h].q.deco].born
    /\ hand[h].q.op = "createTable" => ~tables[hand[h].q.table].born

IdsDiffer ==
  \A h, k \in Handlers : h # k /\ Inserts(h) /\ Inserts(k) =>
    /\ hand[h].q.deco # hand[k].q.deco
    /\ hand[h].q.op = "createTable" /\ hand[k].q.op = "createTable" =>
         hand[h].q.table # hand[k].q.table

AttachesToTables ==
  \A h \in Handlers :
    hand[h].pc = "write" /\ hand[h].q.op = "attach" /\ hand[h].q.table # Null =>
      tables[hand[h].q.table].born

PlanInv == Born /\ DecosBorn /\ IdsFree /\ IdsDiffer /\ AttachesToTables

----------------------------------------------------------------------------
(* What the parts of the plan depend on *)

LEMMA SameTables ==
  ASSUME \A t \in Tables : tables'[t].live = tables[t].live /\ tables'[t].born = tables[t].born
  PROVE  Room' = Room /\ Removed' = Removed
BY DEF Room, Removed

LEMMA SameDecos ==
  ASSUME \A d \in Decos : /\ decos'[d].live = decos[d].live /\ decos'[d].born = decos[d].born
                          /\ decos'[d].table = decos[d].table
  PROVE  Decor' = Decor /\ Discarded' = Discarded /\ Attached' = Attached
BY DEF Decor, Discarded, Attached

LEMMA SameGuests ==
  ASSUME \A g \in Guests : guests'[g].live = guests[g].live /\ guests'[g].table = guests[g].table
  PROVE  Seated' = Seated /\ Gone' = Gone
BY DEF Seated, Gone

LEMMA SamePlan ==
  ASSUME Room' = Room, Removed' = Removed, Seated' = Seated, Gone' = Gone,
         Decor' = Decor, Discarded' = Discarded, Attached' = Attached
  PROVE  UNCHANGED Plan!vars
BY DEF Plan!vars

LEMMA SameRows == UNCHANGED <<tables, guests, decos>> => UNCHANGED Plan!vars
BY SameTables, SameDecos, SameGuests, SamePlan

----------------------------------------------------------------------------
(* One statement, one step of the plan *)

\* The inserting statements.
LEMMA InsertsPlan ==
  ASSUME RowsInv, Born, DecosBorn, NEW q \in Requests, OwnPiece(q), ~decos[q.deco].born,
         \/ q.op = "createTable" /\ CreateTable(q) /\ ~tables[q.table].born
         \/ q.op = "createDeco" /\ CreateDeco(q)
  PROVE  Plan!Next
<1> DEFINE t == q.table
           d == q.deco
<1>0. d \in Decos /\ (q.op = "createTable" => t \in Tables)
  BY RequestFields
<1>1. d \notin Decor \cup Discarded /\ decos[d].table = Null
  BY <1>0 DEF Decor, Discarded, DecosBorn
<1>2. guests' = guests
  BY DEF CreateTable, CreateDeco
<1>3. Seated' = Seated /\ Gone' = Gone
  BY <1>2, SameGuests
<1>4. CASE q.op = "createTable" /\ CreateTable(q)
  <2>1. /\ tables' = [tables EXCEPT ![t] = NewTable(TRUE)] /\ t \in Tables /\ ~tables[t].born
        /\ decos' = [decos EXCEPT ![d] = NewDeco(t, FirstPlace)]
    BY <1>0, <1>4 DEF CreateTable
  <2>2. tables \in [Tables -> Table] /\ decos \in [Decos -> Deco]
    BY DEF RowsInv, RowsType
  <2>3. ~tables[t].live
    BY <2>1 DEF Born
  <2>4. t \notin Room \cup Removed
    BY <2>1, <2>3 DEF Room, Removed
  <2>5. tables'[t].live /\ \A s \in Tables \ {t} : tables'[s] = tables[s]
    BY <2>1, <2>2 DEF NewTable
  <2>6. Room' = Room \cup {t} /\ Removed' = Removed
    BY <2>1, <2>3, <2>5 DEF Room, Removed
  <2>7. /\ decos'[d].live /\ decos'[d].table = t
        /\ \A e \in Decos \ {d} : decos'[e] = decos[e]
    BY <1>0, <2>1, <2>2 DEF NewDeco
  <2>8. Decor' = Decor \cup {d} /\ Discarded' = Discarded
    BY <1>0, <1>1, <2>7 DEF Decor, Discarded
  <2>9. Attached' = [Attached EXCEPT ![d] = t]
    BY <1>0, <2>7 DEF Attached
  <2>10. WeddingOf[d] = WeddingOf[t]
    BY <1>4 DEF OwnPiece
  <2>11. Plan!PutTable(t, d)
    BY <1>1, <1>3, <2>4, <2>6, <2>8, <2>9, <2>10 DEF Plan!PutTable, Plan!Together
  <2> QED
    BY <1>0, <2>1, <2>11 DEF Plan!Next
<1>5. CASE q.op = "createDeco" /\ CreateDeco(q)
  <2>1. decos' = [decos EXCEPT ![d] = NewDeco(Null, q.place)] /\ tables' = tables
    BY <1>5 DEF CreateDeco
  <2>2. decos \in [Decos -> Deco]
    BY DEF RowsInv, RowsType
  <2>3. /\ decos'[d].live /\ decos'[d].table = Null
        /\ \A e \in Decos \ {d} : decos'[e] = decos[e]
    BY <1>0, <2>1, <2>2 DEF NewDeco
  <2>4. Decor' = Decor \cup {d} /\ Discarded' = Discarded /\ Attached' = Attached
    BY <1>0, <1>1, <2>3 DEF Decor, Discarded, Attached
  <2>5. Plan!AddDeco(d)
    BY <1>1, <1>3, <2>1, <2>4, SameTables DEF Plan!AddDeco
  <2> QED
    BY <1>0, <2>5 DEF Plan!Next
<1> QED
  BY <1>4, <1>5

\* The statements about one guest.
LEMMA GuestsPlan ==
  ASSUME RowsInv, NEW q \in Requests, Within(q),
         \/ q.op = "assign" /\ Assign(q)
         \/ q.op = "unseat" /\ Unseat(q)
         \/ q.op = "patchGuest" /\ PatchGuest(q)
         \/ q.op = "deleteGuest" /\ DeleteGuest(q)
  PROVE  Plan!Next \/ UNCHANGED Plan!vars
<1> DEFINE g == q.guest
<1>0. g \in Guests /\ (q.op = "assign" => q.table \in Tables)
  BY RequestFields
<1>1. UNCHANGED <<tables, decos>> /\ guests[g].live
  BY DEF Assign, Unseat, PatchGuest, DeleteGuest
<1>2. /\ Room' = Room /\ Removed' = Removed
      /\ Decor' = Decor /\ Discarded' = Discarded /\ Attached' = Attached
  BY <1>1, SameTables, SameDecos
<1>3. guests \in [Guests -> Guest] /\ g \notin Gone
  BY <1>1 DEF RowsInv, RowsType, Gone
<1>4. CASE q.op = "assign" /\ Assign(q)
  <2>1. /\ guests'[g].live = guests[g].live /\ guests'[g].table = q.table
        /\ \A f \in Guests \ {g} : guests'[f] = guests[f]
    BY <1>0, <1>3, <1>4 DEF Assign, Guest
  <2>2. Seated' = [Seated EXCEPT ![g] = q.table] /\ Gone' = Gone
    BY <1>0, <2>1 DEF Seated, Gone
  <2>3. q.table \in Room /\ WeddingOf[g] = WeddingOf[q.table]
    BY <1>0, <1>4 DEF Assign, Room, Within
  <2>4. Plan!Sit(g, q.table)
    BY <1>2, <1>3, <2>2, <2>3 DEF Plan!Sit, Plan!Together
  <2> QED
    BY <1>0, <1>4, <2>4 DEF Plan!Next
<1>5. CASE q.op = "unseat" /\ Unseat(q)
  <2>1. /\ guests'[g].live = guests[g].live /\ guests'[g].table = Null
        /\ \A f \in Guests \ {g} : guests'[f] = guests[f]
    BY <1>0, <1>3, <1>5 DEF Unseat, Guest
  <2>2. Seated' = Plan!Standing({g}) /\ Gone' = Gone
    BY <1>0, <2>1 DEF Seated, Gone, Plan!Standing
  <2>3. Plan!Rise(g)
    BY <1>2, <2>2 DEF Plan!Rise
  <2> QED
    BY <1>0, <2>3 DEF Plan!Next
<1>6. CASE q.op = "patchGuest" /\ PatchGuest(q)
  <2>1. \A f \in Guests : guests'[f].live = guests[f].live /\ guests'[f].table = guests[f].table
    BY <1>0, <1>3, <1>6 DEF PatchGuest, Guest
  <2> QED
    BY <1>2, <2>1, SameGuests, SamePlan
<1>7. CASE q.op = "deleteGuest" /\ DeleteGuest(q)
  <2>1. /\ ~guests'[g].live /\ guests'[g].table = Null
        /\ \A f \in Guests \ {g} : guests'[f] = guests[f]
    BY <1>0, <1>3, <1>7 DEF DeleteGuest, Guest
  <2>2. Seated' = Plan!Standing({g}) /\ Gone' = Gone \cup {g}
    BY <1>0, <2>1 DEF Seated, Gone, Plan!Standing
  <2>3. Plan!Leave(g)
    BY <1>2, <1>3, <2>2 DEF Plan!Leave
  <2> QED
    BY <1>0, <2>3 DEF Plan!Next
<1> QED
  BY <1>4, <1>5, <1>6, <1>7

\* The statements about one decoration that is there.
LEMMA DecosPlan ==
  ASSUME RowsInv, Born, DecosBorn, NEW q \in Requests, Within(q),
         q.op = "attach" /\ q.table # Null => tables[q.table].born,
         \/ q.op = "moveDeco" /\ MoveDeco(q)
         \/ q.op = "attach" /\ Attach(q)
         \/ q.op = "deleteDeco" /\ DeleteDeco(q)
  PROVE  Plan!Next \/ UNCHANGED Plan!vars
<1> DEFINE d == q.deco
<1>0. d \in Decos /\ (q.op = "attach" => q.table \in Tables \cup {Null})
  BY RequestFields
<1>1. UNCHANGED <<tables, guests>> /\ decos[d].live
  BY DEF MoveDeco, Attach, DeleteDeco
<1>2. Room' = Room /\ Removed' = Removed /\ Seated' = Seated /\ Gone' = Gone
  BY <1>1, SameTables, SameGuests
<1>3. decos \in [Decos -> Deco] /\ d \in Decor /\ d \notin Discarded
  BY <1>0, <1>1 DEF RowsInv, RowsType, Decor, Discarded
<1>4. CASE q.op = "moveDeco" /\ MoveDeco(q)
  <2>1. \A e \in Decos : /\ decos'[e].live = decos[e].live /\ decos'[e].born = decos[e].born
                         /\ decos'[e].table = decos[e].table
    BY <1>0, <1>3, <1>4 DEF MoveDeco, Deco
  <2> QED
    BY <1>2, <2>1, SameDecos, SamePlan
<1>5. CASE q.op = "attach" /\ Attach(q)
  <2>1. /\ decos'[d].live = decos[d].live /\ decos'[d].born = decos[d].born
        /\ decos'[d].table = q.table
        /\ \A e \in Decos \ {d} : decos'[e] = decos[e]
    BY <1>0, <1>3, <1>5 DEF Attach, Deco
  <2>2. /\ Decor' = Decor /\ Discarded' = Discarded
        /\ Attached' = [Attached EXCEPT ![d] = q.table]
    BY <1>0, <2>1 DEF Decor, Discarded, Attached
  <2>3. q.table # Null => q.table \in Room \cup Removed /\ WeddingOf[d] = WeddingOf[q.table]
    BY <1>0, <1>5 DEF Room, Removed, Within
  <2>4. Plan!Attach(d, q.table)
    BY <1>2, <1>3, <2>2, <2>3 DEF Plan!Attach, Plan!Together
  <2> QED
    BY <1>0, <1>5, <2>4 DEF Plan!Next
<1>6. CASE q.op = "deleteDeco" /\ DeleteDeco(q)
  <2>1. /\ decos'[d] = NoDeco(TRUE)
        /\ \A e \in Decos \ {d} : decos'[e] = decos[e]
    BY <1>0, <1>3, <1>6 DEF DeleteDeco
  <2>2. ~decos'[d].live /\ decos'[d].born /\ decos'[d].table = Null
    BY <2>1 DEF NoDeco
  <2>3. /\ Decor' = Decor \ {d} /\ Discarded' = Discarded \cup {d}
        /\ Attached' = [Attached EXCEPT ![d] = Null]
    BY <1>0, <2>1, <2>2 DEF Decor, Discarded, Attached
  <2>4. Plan!DiscardDeco(d)
    BY <1>2, <1>3, <2>3 DEF Plan!DiscardDeco
  <2> QED
    BY <1>0, <2>4 DEF Plan!Next
<1> QED
  BY <1>4, <1>5, <1>6

\* The two statements of a table's deletion.  The first finds nobody when the
\* table has gone already.
LEMMA ReleasePlan ==
  ASSUME RowsInv, NEW t \in Tables, guests' = Released(t), UNCHANGED <<tables, decos>>
  PROVE  Plan!Next \/ UNCHANGED Plan!vars
<1>1. /\ Room' = Room /\ Removed' = Removed
      /\ Decor' = Decor /\ Discarded' = Discarded /\ Attached' = Attached
  BY SameTables, SameDecos
<1>2. /\ guests \in [Guests -> Guest]
      /\ \A g \in Guests : guests[g].table = t => tables[t].live
  BY SeatingAssumption DEF RowsInv, RowsType, SeatedAtLiveTables, Rows
<1>3. \A g \in Guests :
        /\ guests'[g].live = guests[g].live
        /\ guests'[g].table = IF guests[g].table = t THEN Null ELSE guests[g].table
  BY <1>2 DEF Released, Guest
<1>4. Seated' = Plan!Standing(Plan!At(t)) /\ Gone' = Gone
  BY <1>3 DEF Seated, Gone, Plan!Standing, Plan!At
<1>5. CASE t \in Room
  <2>1. Plan!Clear(t)
    BY <1>1, <1>4, <1>5 DEF Plan!Clear
  <2> QED
    BY <2>1 DEF Plan!Next
<1>6. CASE t \notin Room
  <2>1. Seated' = Seated
    BY <1>2, <1>3, <1>6 DEF Room, Seated
  <2> QED
    BY <1>1, <1>4, <2>1, SamePlan
<1> QED
  BY <1>5, <1>6

LEMMA RemovePlan ==
  ASSUME RowsInv, Born, NEW t \in Tables, tables[t].live,
         tables' = [tables EXCEPT ![t].live = FALSE], guests' = SetNull(t), decos' = decos
  PROVE  Plan!TakeTable(t)
<1>1. tables \in [Tables -> Table] /\ guests \in [Guests -> Guest]
  BY DEF RowsInv, RowsType
<1>2. /\ ~tables'[t].live /\ tables'[t].born
      /\ \A s \in Tables \ {t} : tables'[s] = tables[s]
  BY <1>1 DEF Table, Born
<1>3. t \in Room /\ Room' = Room \ {t} /\ Removed' = Removed \cup {t}
  BY <1>2 DEF Room, Removed
<1>4. \A g \in Guests :
        /\ guests'[g].live = guests[g].live
        /\ guests'[g].table = IF guests[g].table = t THEN Null ELSE guests[g].table
  BY <1>1 DEF SetNull, Released, Guest
<1>5. Seated' = Plan!Standing(Plan!At(t)) /\ Gone' = Gone
  BY <1>4 DEF Seated, Gone, Plan!Standing, Plan!At
<1> QED
  BY <1>3, <1>5, SameDecos DEF Plan!TakeTable

----------------------------------------------------------------------------
(* The invariant of the plan *)

\* Rows are created once and for all, and only by the statement that inserts them.
TablesStay == \A t \in Tables : tables[t].born => tables'[t].born

NewTables(q) ==
  \A t \in Tables :
    ~tables[t].born /\ tables'[t].born => q.op = "createTable" /\ t = q.table

NewDecos(q) ==
  \A d \in Decos :
    ~decos[d].born /\ decos'[d].born =>
      q.op \in {"createTable", "createDeco"} /\ d = q.deco

LEMMA ApplyBorn ==
  ASSUME RowsInv, DecosBorn, NEW q \in Requests, Apply(q)
  PROVE  TablesStay /\ NewTables(q) /\ NewDecos(q) /\ DecosBorn'
<1>0. tables \in [Tables -> Table] /\ decos \in [Decos -> Deco]
  BY DEF RowsInv, RowsType
<1>t. (\A t \in Tables : tables'[t].born = tables[t].born) => TablesStay /\ NewTables(q)
  BY DEF TablesStay, NewTables
<1>d. UNCHANGED decos => NewDecos(q) /\ DecosBorn'
  BY DEF NewDecos, DecosBorn
<1>1. CASE q.op = "createTable" /\ CreateTable(q)
  <2>1. q.table \in Tables /\ q.deco \in Decos
    BY <1>1, RequestFields
  <2>2. /\ tables'[q.table].born /\ \A t \in Tables \ {q.table} : tables'[t] = tables[t]
        /\ decos'[q.deco].born /\ decos'[q.deco].live
        /\ \A d \in Decos \ {q.deco} : decos'[d] = decos[d]
    BY <1>0, <1>1, <2>1 DEF CreateTable, NewTable, NewDeco
  <2>3. TablesStay /\ NewTables(q)
    BY <1>1, <2>2 DEF TablesStay, NewTables
  <2>4. NewDecos(q)
    BY <1>1, <2>2 DEF NewDecos
  <2>5. DecosBorn'
    BY <2>2 DEF DecosBorn
  <2> QED
    BY <2>3, <2>4, <2>5
<1>2. CASE q.op = "createDeco" /\ CreateDeco(q)
  <2>1. q.deco \in Decos
    BY <1>2, RequestFields
  <2>2. /\ decos'[q.deco].born /\ decos'[q.deco].live /\ tables' = tables
        /\ \A d \in Decos \ {q.deco} : decos'[d] = decos[d]
    BY <1>0, <1>2, <2>1 DEF CreateDeco, NewDeco
  <2>3. NewDecos(q)
    BY <1>2, <2>2 DEF NewDecos
  <2>4. DecosBorn'
    BY <2>2 DEF DecosBorn
  <2> QED
    BY <1>t, <2>2, <2>3, <2>4
<1>3. CASE Resize(q) \/ Move(q)
  <2>1. decos' = decos /\ \A t \in Tables : tables'[t].born = tables[t].born
    BY <1>0, <1>3 DEF Resize, Move, Table
  <2> QED
    BY <1>t, <1>d, <2>1
<1>4. CASE Assign(q) \/ Unseat(q) \/ PatchGuest(q) \/ DeleteGuest(q)
  <2>1. UNCHANGED <<tables, decos>>
    BY <1>4 DEF Assign, Unseat, PatchGuest, DeleteGuest
  <2> QED
    BY <1>t, <1>d, <2>1
<1>5. CASE MoveDeco(q) \/ Attach(q)
  <2>1. tables' = tables /\ decos[q.deco].live
    BY <1>5 DEF MoveDeco, Attach
  <2>2. \A d \in Decos : /\ decos'[d].born = decos[d].born /\ decos'[d].live = decos[d].live
                         /\ decos[d].live \/ decos'[d].table = decos[d].table
    BY <1>0, <1>5, <2>1 DEF MoveDeco, Attach, Deco
  <2>3. NewDecos(q)
    BY <2>2 DEF NewDecos
  <2>4. DecosBorn'
    BY <2>2 DEF DecosBorn
  <2> QED
    BY <1>t, <2>1, <2>3, <2>4
<1>6. CASE DeleteDeco(q)
  <2>1. tables' = tables /\ decos[q.deco].live
    BY <1>6 DEF DeleteDeco
  <2>2. \A d \in Decos : decos'[d] = IF d = q.deco THEN NoDeco(TRUE) ELSE decos[d]
    BY <1>0, <1>6 DEF DeleteDeco
  <2>3. NewDecos(q)
    BY <2>1, <2>2 DEF NewDecos, DecosBorn
  <2>4. DecosBorn'
    BY <2>2 DEF DecosBorn, NoDeco
  <2> QED
    BY <1>t, <2>1, <2>3, <2>4
<1> QED
  BY <1>1, <1>2, <1>3, <1>4, <1>5, <1>6 DEF Apply

\* A handler that is done with its request leaves the others what they knew.
LEMMA PlanInvKept ==
  ASSUME PlanInv, Inv, NEW h \in Handlers,
         hand'[h].pc \notin {"check", "write"},
         \A k \in Handlers \ {h} : hand'[k] = hand[k],
         \/ hand[h].pc = "write" /\ TablesStay /\ NewTables(hand[h].q) /\ NewDecos(hand[h].q)
         \/ /\ UNCHANGED decos
            /\ \A t \in Tables : tables'[t].born = tables[t].born,
         Born', DecosBorn'
  PROVE  PlanInv'
<1>s. TablesStay
  BY DEF TablesStay
<1>t. \A t \in Tables :
        ~tables[t].born /\ tables'[t].born =>
          Inserts(h) /\ hand[h].q.op = "createTable" /\ t = hand[h].q.table
  BY DEF NewTables, Inserts
<1>d. \A d \in Decos : ~decos[d].born /\ decos'[d].born => Inserts(h) /\ d = hand[h].q.deco
  BY DEF NewDecos, Inserts
<1>1. \A k \in Handlers : Inserts(k) =>
        /\ hand[k].q.deco \in Decos
        /\ hand[k].q.op = "createTable" => hand[k].q.table \in Tables
  BY HandlerFields, RequestFields DEF Inserts, Inv
<1>2. \A k \in Handlers : Inserts(k)' => k # h /\ Inserts(k) /\ hand'[k] = hand[k]
  BY DEF Inserts
<1>3. IdsFree'
  <2> SUFFICES ASSUME NEW k \in Handlers, Inserts(k)'
               PROVE  /\ ~decos'[hand'[k].q.deco].born
                      /\ hand'[k].q.op = "createTable" => ~tables'[hand'[k].q.table].born
    BY DEF IdsFree
  <2>1. k # h /\ Inserts(k) /\ hand'[k] = hand[k]
    BY <1>2
  <2>2. ~decos[hand[k].q.deco].born
        /\ (hand[k].q.op = "createTable" => ~tables[hand[k].q.table].born)
    BY <2>1 DEF PlanInv, IdsFree
  <2>3. Inserts(h) => /\ hand[h].q.deco # hand[k].q.deco
                      /\ hand[h].q.op = "createTable" /\ hand[k].q.op = "createTable" =>
                           hand[h].q.table # hand[k].q.table
    BY <2>1 DEF PlanInv, IdsDiffer
  <2> QED
    BY <1>t, <1>d, <1>1, <2>1, <2>2, <2>3
<1>4. IdsDiffer'
  BY <1>2 DEF PlanInv, IdsDiffer
<1>5. AttachesToTables'
  <2> SUFFICES ASSUME NEW k \in Handlers, hand'[k].pc = "write", hand'[k].q.op = "attach",
                      hand'[k].q.table # Null
               PROVE  tables'[hand'[k].q.table].born
    BY DEF AttachesToTables
  <2>1. hand'[k] = hand[k]
    OBVIOUS
  <2>2. tables[hand[k].q.table].born
    BY <2>1 DEF PlanInv, AttachesToTables
  <2>3. hand[k].q.table \in Tables
    BY <2>1, HandlerFields, RequestFields DEF Inv
  <2> QED
    BY <1>s, <2>1, <2>2, <2>3 DEF TablesStay
<1> QED
  BY <1>3, <1>4, <1>5 DEF PlanInv

\* A table that is live was created, by POST /api/tables.
LEMMA BornNext == Inv /\ Born /\ [Next]_vars => Born'
<1> SUFFICES ASSUME Inv, Born, [Next]_vars PROVE Born'
  OBVIOUS
<1>0. tables \in [Tables -> Table] /\ (UNCHANGED tables => Born')
  BY DEF Inv, RowsInv, RowsType, Born
<1>1. CASE UNCHANGED vars
  BY <1>0, <1>1 DEF vars
<1>2. ASSUME NEW h \in Handlers, ServerStep(h) PROVE Born'
  <2>1. CASE Check(h) \/ Fail(h) \/ ReleaseGuests(h)
    BY <1>0, <2>1 DEF Check, Fail, ReleaseGuests
  <2>2. CASE RemoveTable(h)
    <3>1. \/ UNCHANGED tables
          \/ \E t : tables' = [tables EXCEPT ![t].live = FALSE]
      BY <2>2, Zenon DEF RemoveTable
    <3>2. ASSUME NEW t, tables' = [tables EXCEPT ![t].live = FALSE] PROVE Born'
      BY <1>0, <3>2 DEF Born, Table
    <3> QED
      BY <1>0, <3>1, <3>2
  <2>3. CASE Write(h)
    <3>1. UNCHANGED tables \/ Apply(hand[h].q)
      BY <2>3 DEF Write
    <3>2. PICK q : q = hand[h].q
      OBVIOUS
    <3>3. \/ UNCHANGED tables
          \/ CreateTable(q) \/ Resize(q) \/ Move(q)
      BY <3>1, <3>2 DEF Apply, Assign, Unseat, PatchGuest, DeleteGuest, CreateDeco,
                        MoveDeco, Attach, DeleteDeco
    <3>4. CASE CreateTable(q)
      BY <1>0, <3>4 DEF CreateTable, Born, NewTable
    <3>5. CASE Resize(q)
      BY <1>0, <3>5 DEF Resize, Born, Table
    <3>6. CASE Move(q)
      BY <1>0, <3>6 DEF Move, Born, Table
    <3> QED
      BY <1>0, <3>3, <3>4, <3>5, <3>6
  <2> QED
    BY <1>2, <2>1, <2>2, <2>3 DEF ServerStep
<1>3. ASSUME NEW h \in Handlers, Drop(h) \/ Respond(h) \/ \E q \in Requests : Arrive(h, q)
      PROVE  Born'
  BY <1>0, <1>3 DEF Drop, Respond, Arrive
<1> QED
  BY <1>1, <1>2, <1>3 DEF Next

LEMMA PlanInvInit == Init => PlanInv
BY DEF Init, PlanInv, Born, DecosBorn, IdsFree, IdsDiffer, AttachesToTables, Inserts,
       NewTable, NoDeco, Idle

LEMMA PlanInvNext == Inv /\ PlanInv /\ [Next]_vars => PlanInv'
<1> SUFFICES ASSUME Inv, PlanInv, [Next]_vars PROVE PlanInv'
  OBVIOUS
<1>0. /\ tables \in [Tables -> Table] /\ decos \in [Decos -> Deco]
      /\ hand \in [Handlers -> {Idle} \cup Handler] /\ RowsInv
  BY DEF Inv, RowsInv, RowsType
<1>1. Born'
  BY BornNext DEF PlanInv
<1>2. UNCHANGED decos => DecosBorn'
  BY DEF PlanInv, DecosBorn
<1>3. ASSUME NEW h \in Handlers, UNCHANGED decos,
             \A t \in Tables : tables'[t].born = tables[t].born,
             hand'[h].pc \notin {"check", "write"},
             \A k \in Handlers \ {h} : hand'[k] = hand[k]
      PROVE  PlanInv'
  BY <1>1, <1>2, <1>3, PlanInvKept
<1>4. ASSUME NEW h \in Handlers, \E ok \in BOOLEAN : Answer(h, ok) \/ hand' = [hand EXCEPT ![h] = Idle]
      PROVE  /\ hand'[h].pc \notin {"check", "write"}
             /\ \A k \in Handlers \ {h} : hand'[k] = hand[k]
  BY <1>0, <1>4 DEF Answer, Idle
<1>5. ASSUME NEW h \in Handlers, NEW q \in Requests, Arrive(h, q) PROVE PlanInv'
  <2>1. /\ UNCHANGED <<tables, guests, decos>>
        /\ hand'[h] = [pc |-> "check", q |-> q]
        /\ \A k \in Handlers \ {h} : hand'[k] = hand[k]
    BY <1>0, <1>5 DEF Arrive
  <2>2. \A k \in Handlers : Inserts(k) => hand[k].q \in Creating
    BY DEF Inserts, Creating
  <2>3. Inserts(h)' =>
          /\ ~decos[q.deco].born /\ (q.op = "createTable" => ~tables[q.table].born)
          /\ \A k \in Handlers : Inserts(k) =>
               /\ hand[k].q.deco # q.deco
               /\ hand[k].q.op = "createTable" /\ q.op = "createTable" =>
                    hand[k].q.table # q.table
    BY <1>5, <2>1, <2>2 DEF Arrive, Inserts
  <2>4. \A k \in Handlers \ {h} : Inserts(k)' = Inserts(k)
    BY <2>1 DEF Inserts
  <2>5. IdsFree'
    BY <2>1, <2>3, <2>4 DEF IdsFree, PlanInv
  <2>6. IdsDiffer'
    BY <2>1, <2>3, <2>4 DEF IdsDiffer, PlanInv
  <2>7. AttachesToTables'
    BY <2>1 DEF AttachesToTables, PlanInv
  <2> QED
    BY <1>1, <1>2, <2>1, <2>5, <2>6, <2>7 DEF PlanInv
<1>6. ASSUME NEW h \in Handlers, Check(h) PROVE PlanInv'
  <2>1. CASE Passes(hand[h].q) /\ hand' = [hand EXCEPT ![h].pc = "write"]
    <3>1. /\ UNCHANGED <<tables, guests, decos>> /\ hand[h].pc = "check"
          /\ hand'[h] = [pc |-> "write", q |-> hand[h].q]
          /\ \A k \in Handlers \ {h} : hand'[k] = hand[k]
      BY <1>0, <1>6, <2>1, HandlerFields DEF Check
    <3>2. \A k \in Handlers : Inserts(k)' = Inserts(k) /\ hand'[k].q = hand[k].q
      BY <3>1 DEF Inserts
    <3>3. IdsFree' /\ IdsDiffer'
      BY <3>1, <3>2 DEF IdsFree, IdsDiffer, PlanInv
    <3>4. hand[h].q.op = "attach" /\ hand[h].q.table # Null => tables[hand[h].q.table].born
      <4> SUFFICES ASSUME hand[h].q.op = "attach", hand[h].q.table # Null
                   PROVE  tables[hand[h].q.table].born
        OBVIOUS
      <4>1. hand[h].q.table \in Tables
        BY <1>0, <3>1, HandlerFields, RequestFields
      <4>2. tables[hand[h].q.table].live
        BY <2>1 DEF Passes, OwnedTable
      <4> QED
        BY <4>1, <4>2 DEF PlanInv, Born
    <3>5. AttachesToTables'
      BY <3>1, <3>4 DEF AttachesToTables, PlanInv
    <3> QED
      BY <1>1, <1>2, <3>1, <3>3, <3>5 DEF PlanInv
  <2>2. CASE Answer(h, FALSE)
    BY <1>3, <1>4, <1>6, <2>2 DEF Check
  <2> QED
    BY <1>6, <2>1, <2>2 DEF Check
<1>7. ASSUME NEW h \in Handlers, Write(h) PROVE PlanInv'
  <2>1. CASE Apply(hand[h].q) /\ Answer(h, TRUE)
    <3>1. hand[h].pc = "write" /\ hand[h].q \in Requests
      BY <1>0, <1>7, HandlerFields DEF Write
    <3>2. PICK q \in Requests : q = hand[h].q
      BY <3>1
    <3>3. Apply(q)
      BY <2>1, <3>2
    <3>4. DecosBorn
      BY DEF PlanInv
    <3>5. TablesStay /\ NewTables(q) /\ NewDecos(q) /\ DecosBorn'
      BY <1>0, <3>3, <3>4, ApplyBorn
    <3>6. /\ hand'[h].pc \notin {"check", "write"}
          /\ \A k \in Handlers \ {h} : hand'[k] = hand[k]
      BY <1>4, <2>1
    <3> QED
      BY <1>1, <3>1, <3>2, <3>5, <3>6, PlanInvKept
  <2>2. CASE Answer(h, FALSE) /\ UNCHANGED <<tables, guests, decos>>
    BY <1>3, <1>4, <2>2
  <2> QED
    BY <1>7, <2>1, <2>2 DEF Write
<1>8. ASSUME NEW h \in Handlers, ReleaseGuests(h) PROVE PlanInv'
  <2>1. hand'[h].pc = "remove" /\ \A k \in Handlers \ {h} : hand'[k] = hand[k]
    BY <1>0, <1>8, HandlerFields DEF ReleaseGuests
  <2> QED
    BY <1>3, <1>8, <2>1 DEF ReleaseGuests
<1>9. ASSUME NEW h \in Handlers, RemoveTable(h) PROVE PlanInv'
  <2>1. \A t \in Tables : tables'[t].born = tables[t].born
    <3>1. CASE tables' = [tables EXCEPT ![hand[h].q.table].live = FALSE]
      BY <1>0, <3>1 DEF Table
    <3>2. CASE tables' = tables
      BY <3>2
    <3> QED
      BY <1>9, <3>1, <3>2 DEF RemoveTable
  <2>2. (\E ok \in BOOLEAN : Answer(h, ok)) /\ decos' = decos
    BY <1>9 DEF RemoveTable
  <2> QED
    BY <1>3, <1>4, <2>1, <2>2
<1>10. ASSUME NEW h \in Handlers, Fail(h) \/ Drop(h) \/ Respond(h) PROVE PlanInv'
  BY <1>3, <1>4, <1>10 DEF Fail, Drop, Respond
<1>11. CASE UNCHANGED vars
  BY <1>11 DEF vars, PlanInv, Born, DecosBorn, IdsFree, IdsDiffer, AttachesToTables, Inserts
<1> QED
  BY <1>5, <1>6, <1>7, <1>8, <1>9, <1>10, <1>11 DEF Next, ServerStep

----------------------------------------------------------------------------
(* The refinement *)

LEMMA PlanInit == Init => Plan!Init
<1> SUFFICES ASSUME Init PROVE Plan!Init
  OBVIOUS
<1>1. \A t \in Tables : ~tables[t].live /\ ~tables[t].born
  BY DEF Init, NewTable
<1>2. \A d \in Decos : ~decos[d].live /\ ~decos[d].born /\ decos[d].table = Null
  BY DEF Init, NoDeco
<1>3. \A g \in Guests : guests[g].live /\ guests[g].table = Null
  BY DEF Init
<1> QED
  BY <1>1, <1>2, <1>3
     DEF Plan!Init, Room, Removed, Seated, Gone, Decor, Discarded, Attached

LEMMA PlanNext == Inv /\ PlanInv /\ [Next]_vars => [Plan!Next]_(Plan!vars)
<1> SUFFICES ASSUME Inv, PlanInv, [Next]_vars PROVE Plan!Next \/ UNCHANGED Plan!vars
  OBVIOUS
<1>0. RowsInv /\ hand \in [Handlers -> {Idle} \cup Handler] /\ Born /\ DecosBorn
  BY DEF Inv, PlanInv
<1>1. CASE UNCHANGED <<tables, guests, decos>>
  BY <1>1, SameRows
<1>2. ASSUME NEW h \in Handlers, Write(h), Apply(hand[h].q)
      PROVE  Plan!Next \/ UNCHANGED Plan!vars
  <2>1. hand[h].pc = "write" /\ hand[h].q \in Requests
    BY <1>0, <1>2, HandlerFields DEF Write
  <2>2. PICK q \in Requests : q = hand[h].q
    BY <2>1
  <2>3. OwnPiece(q) /\ Within(q)
    BY <2>1, <2>2 DEF Inv, HandInv
  <2>4. q.op \in {"createTable", "createDeco"} =>
          ~decos[q.deco].born /\ (q.op = "createTable" => ~tables[q.table].born)
    BY <2>1, <2>2 DEF PlanInv, IdsFree, Inserts
  <2>5. q.op = "attach" /\ q.table # Null => tables[q.table].born
    BY <2>1, <2>2 DEF PlanInv, AttachesToTables
  <2>6. Apply(q)
    BY <1>2, <2>2
  <2>7. CASE \/ q.op = "createTable" /\ CreateTable(q)
             \/ q.op = "createDeco" /\ CreateDeco(q)
    BY <1>0, <2>3, <2>4, <2>7, InsertsPlan
  <2>8. CASE \/ q.op = "assign" /\ Assign(q)
             \/ q.op = "unseat" /\ Unseat(q)
             \/ q.op = "patchGuest" /\ PatchGuest(q)
             \/ q.op = "deleteGuest" /\ DeleteGuest(q)
    BY <1>0, <2>3, <2>8, GuestsPlan
  <2>9. CASE \/ q.op = "moveDeco" /\ MoveDeco(q)
             \/ q.op = "attach" /\ Attach(q)
             \/ q.op = "deleteDeco" /\ DeleteDeco(q)
    BY <1>0, <2>3, <2>5, <2>9, DecosPlan
  <2>10. CASE Resize(q) \/ Move(q)
    <3>1. UNCHANGED <<guests, decos>>
          /\ \A t \in Tables : tables'[t].live = tables[t].live /\ tables'[t].born = tables[t].born
      BY <1>0, <2>10 DEF Resize, Move, RowsInv, RowsType, Table
    <3> QED
      BY <3>1, SameTables, SameDecos, SameGuests, SamePlan
  <2> QED
    BY <2>6, <2>7, <2>8, <2>9, <2>10 DEF Apply
<1>3. ASSUME NEW h \in Handlers, ReleaseGuests(h) PROVE Plan!Next \/ UNCHANGED Plan!vars
  <2>1. hand[h].q.table \in Tables
    BY <1>0, <1>3, HandlerFields, RequestFields DEF ReleaseGuests
  <2> QED
    BY <1>0, <1>3, <2>1, ReleasePlan DEF ReleaseGuests
<1>4. ASSUME NEW h \in Handlers, RemoveTable(h) PROVE Plan!Next \/ UNCHANGED Plan!vars
  <2>1. hand[h].q.table \in Tables
    BY <1>0, <1>4, HandlerFields, RequestFields DEF RemoveTable
  <2>2. PICK t \in Tables : t = hand[h].q.table
    BY <2>1
  <2>3. CASE /\ tables[t].live /\ tables' = [tables EXCEPT ![t].live = FALSE]
             /\ guests' = SetNull(t) /\ decos' = decos
    <3>1. Plan!TakeTable(t)
      BY <1>0, <2>3, RemovePlan
    <3> QED
      BY <3>1 DEF Plan!Next
  <2> QED
    BY <1>1, <1>4, <2>2, <2>3 DEF RemoveTable
<1>5. ASSUME NEW h \in Handlers,
             \/ Check(h) \/ Fail(h) \/ Drop(h) \/ Respond(h)
             \/ \E q \in Requests : Arrive(h, q)
             \/ Write(h) /\ ~Apply(hand[h].q)
      PROVE  UNCHANGED <<tables, guests, decos>>
  BY <1>5 DEF Check, Fail, Drop, Respond, Arrive, Write
<1> QED
  BY <1>1, <1>2, <1>3, <1>4, <1>5 DEF Next, ServerStep, vars

\* However requests interleave, and wherever they are cut off, every statement of
\* the server changes the plan as one step of somebody who has it to himself: a
\* table goes with nobody at it and never comes back, a guest sits down only at a
\* table of the own wedding that is in the room, and a decoration only ever names
\* a table of its wedding that was there once.
THEOREM SeatingImplementsPlan == Spec => PlanKept
<1>1. Init => Inv /\ PlanInv
  BY InvInit, PlanInvInit
<1>2. Inv /\ PlanInv /\ [Next]_vars => (Inv /\ PlanInv)'
  BY InvNext, PlanInvNext
<1> QED
  BY <1>1, <1>2, PlanInit, PlanNext, PTL DEF Spec, PlanKept, Plan!Spec

(***************************************************************************)
(* The decoration layer is a client of the seating server: every behaviour *)
(* of the layer is one of Seating, so that what is proved of the server    *)
(* holds whatever the page does and whatever answers it misses.            *)
(*                                                                         *)
(* And the layer shows what the rows hold.  The invariant says, while a    *)
(* function waits, which list is right: the one it will put back until the *)
(* server has done its work, and the one it will show from then on.        *)
(***************************************************************************)

\* What the functions of the layer ask for.
LayerOps == {"createDeco", "deleteDeco", "moveDeco", "attach"}

\* The list on the screen is one step ahead of the list that will be put back.
Ahead(q, list, visible) ==
  \/ q.op = "createDeco" /\ visible = list
  \/ q.op = "deleteDeco" /\ visible = [list EXCEPT ![q.deco] = NoCard]
  \/ /\ q.op = "moveDeco"
     /\ list[q.deco].on /\ list[q.deco].table = Null
     /\ visible = [list EXCEPT ![q.deco] = OnCard(Null, q.place)]
  \/ /\ q.op = "attach"
     /\ list[q.deco].on
     /\ visible = [list EXCEPT ![q.deco] = OnCard(q.table, q.place)]

\* The request of the waiting function h, and the list that agrees with the rows.
Underway(h) ==
  /\ calls[h].q.w = Couple /\ calls[h].q.op \in LayerOps
  /\ calls[h].q.op = "createDeco" => WeddingOf[calls[h].q.deco] = Couple
  /\ Ahead(calls[h].q, calls[h].before, cards)
  /\ \/ hand[h].pc \in {"check", "write"} /\ hand[h].q = calls[h].q
     \/ hand[h].pc = "done" /\ hand[h].ok \in BOOLEAN
  /\ \A d \in Decos \ missed :
       IF hand[h].pc = "done" /\ hand[h].ok THEN Added(calls[h].q)[d] = CardOf(d)
                                            ELSE calls[h].before[d] = CardOf(d)

LayerType ==
  /\ page \in [places : [Tables -> Places \cup {Null}], cards : Cards]
  /\ cards \in Cards
  /\ calls \in [Handlers -> {NoCall, Left} \cup Call]

LayerInv ==
  /\ LayerType
  /\ \A h, k \in Handlers : Waits(h) /\ Waits(k) => h = k
  /\ \A h \in Handlers : Waits(h) => Underway(h)
  /\ LayerAgrees

----------------------------------------------------------------------------
(* Fields *)

LEMMA CallFields ==
  ASSUME LayerType, NEW h \in Handlers
  PROVE  /\ Waits(h) => calls[h].q \in Requests /\ calls[h].before \in Cards
         /\ calls[h] \in {NoCall, Left} => ~Waits(h)
  BY DEF LayerType, Call, NoCall, Left, Waits

LEMMA Fresh ==
  /\ \A q \in Requests, list \in Cards :
       [st |-> "waiting", q |-> q, before |-> list] \in Call
  /\ \A t \in Tables \cup {Null}, p \in Spots : OnCard(t, p) \in Card
  /\ \A c \in Card : c = OnCard(c.table, c.place) /\ c.on
  /\ ~NoCard.on
  /\ NoCall.st = "none" /\ Left.st = "left"
<1>1. ASSUME NEW t \in Tables \cup {Null}, NEW p \in Spots PROVE OnCard(t, p) \in Card
  BY DEF OnCard, Card
<1>2. ASSUME NEW c \in Card PROVE c = OnCard(c.table, c.place) /\ c.on
  <2>1. c = [on |-> c.on, table |-> c.table, place |-> c.place] /\ c.on = TRUE
    BY DEF Card
  <2> QED
    BY <2>1 DEF OnCard
<1> QED
  BY <1>1, <1>2 DEF Call, NoCard, NoCall, Left

LEMMA CardType ==
  ASSUME decos \in [Decos -> Deco], NEW d \in Decos
  PROVE  CardOf(d) \in {NoCard} \cup Card
<1>1. decos[d].table \in Tables \cup {Null} /\ decos[d].place \in Spots
  BY DEF Deco
<1> QED
  BY <1>1, Fresh DEF CardOf

\* A request the layer makes is one of the server's, and it is the only one in
\* its slot.
LEMMA BeginFields ==
  ASSUME NEW h \in Handlers, NEW q, Begin(h, q)
  PROVE  /\ hand' = [hand EXCEPT ![h] = [pc |-> "check", q |-> q]]
         /\ q.op = "createDeco" => WeddingOf[q.deco] = q.w
         /\ calls' = [calls EXCEPT ![h] = [st |-> "waiting", q |-> q, before |-> cards]]
         /\ \A k \in Handlers : ~Waits(k)
         /\ UNCHANGED <<tables, guests, decos, page, missed>>
  BY DEF Begin, Arrive

----------------------------------------------------------------------------
(* What the couple asks for *)

\* The functions of the layer make requests of the couple's, and show them ahead
\* of the answer.
Asks(h) ==
  \E d \in Decos :
    \/ RemoveDecoration(h, d)
    \/ \E p \in Spots : \/ AddDecoration(h, d, p)
                        \/ MoveDecoration(h, d, p)
                        \/ DetachFromTable(h, d, p)
    \/ \E t \in Tables : AttachToTable(h, d, t)

LEMMA Asked ==
  ASSUME LayerType, NEW h \in Handlers, Asks(h)
  PROVE  \E q \in Requests :
           /\ Begin(h, q)
           /\ q.w = Couple /\ q.op \in LayerOps
           /\ Ahead(q, cards, cards')
           /\ cards' \in Cards
<1> USE LayerAssumption, SeatingAssumption DEF LayerType
<1>0. \A q \in Request(Couple) : q \in Requests
  BY DEF Requests
<1>1. ASSUME NEW d \in Decos, RemoveDecoration(h, d)
      PROVE  \E q \in Requests : /\ Begin(h, q)
                                 /\ q.w = Couple /\ q.op \in LayerOps
                                 /\ Ahead(q, cards, cards') /\ cards' \in Cards
  <2> DEFINE q == [op |-> "deleteDeco", w |-> Couple, deco |-> d]
  <2>1. q \in Request(Couple)
    BY DEF Request
  <2>2. cards' \in Cards
    BY <1>1 DEF RemoveDecoration, Cards
  <2> QED
    BY <1>0, <1>1, <2>1, <2>2 DEF RemoveDecoration, Ahead, LayerOps
<1>2. ASSUME NEW d \in Decos, NEW p \in Spots, AddDecoration(h, d, p)
      PROVE  \E q \in Requests : /\ Begin(h, q)
                                 /\ q.w = Couple /\ q.op \in LayerOps
                                 /\ Ahead(q, cards, cards') /\ cards' \in Cards
  <2> DEFINE q == [op |-> "createDeco", w |-> Couple, deco |-> d, place |-> p]
  <2>1. q \in Request(Couple)
    BY DEF Request
  <2> QED
    BY <1>0, <1>2, <2>1 DEF AddDecoration, Ahead, LayerOps
<1>3. ASSUME NEW d \in Decos, NEW p \in Spots, MoveDecoration(h, d, p)
      PROVE  \E q \in Requests : /\ Begin(h, q)
                                 /\ q.w = Couple /\ q.op \in LayerOps
                                 /\ Ahead(q, cards, cards') /\ cards' \in Cards
  <2> DEFINE q == [op |-> "moveDeco", w |-> Couple, deco |-> d, place |-> p]
  <2>1. q \in Request(Couple)
    BY DEF Request
  <2>2. cards' \in Cards
    BY <1>3, Fresh DEF MoveDecoration, Cards
  <2> QED
    BY <1>0, <1>3, <2>1, <2>2 DEF MoveDecoration, Ahead, LayerOps
<1>4. ASSUME NEW d \in Decos, NEW p \in Spots, DetachFromTable(h, d, p)
      PROVE  \E q \in Requests : /\ Begin(h, q)
                                 /\ q.w = Couple /\ q.op \in LayerOps
                                 /\ Ahead(q, cards, cards') /\ cards' \in Cards
  <2> DEFINE q == [op |-> "attach", w |-> Couple, deco |-> d, table |-> Null, place |-> p]
  <2>1. q \in Request(Couple)
    BY DEF Request
  <2>2. cards' \in Cards
    BY <1>4, Fresh DEF DetachFromTable, Cards
  <2> QED
    BY <1>0, <1>4, <2>1, <2>2 DEF DetachFromTable, Ahead, LayerOps
<1>5. ASSUME NEW d \in Decos, NEW t \in Tables, AttachToTable(h, d, t)
      PROVE  \E q \in Requests : /\ Begin(h, q)
                                 /\ q.w = Couple /\ q.op \in LayerOps
                                 /\ Ahead(q, cards, cards') /\ cards' \in Cards
  <2> DEFINE p == page.places[t]
             q == [op |-> "attach", w |-> Couple, deco |-> d, table |-> t, place |-> p]
  <2>1. p \in Spots
    BY <1>5 DEF AttachToTable
  <2>2. q \in Request(Couple)
    BY <2>1 DEF Request
  <2>3. cards' \in Cards
    BY <1>5, <2>1, Fresh DEF AttachToTable, Cards
  <2> QED
    BY <1>0, <1>5, <2>2, <2>3 DEF AttachToTable, Ahead, LayerOps
<1> QED
  BY <1>1, <1>2, <1>3, <1>4, <1>5 DEF Asks

\* Every step of the layer is a step of the server, or none.
LEMMA ClientStep == LayerType /\ [LNext]_<<vars, lvars>> => [Next]_vars
<1> SUFFICES ASSUME LayerType, [LNext]_<<vars, lvars>> PROVE [Next]_vars
  OBVIOUS
<1>1. CASE LoadPlanner \/ SwitchViews \/ UNCHANGED <<vars, lvars>>
  BY <1>1 DEF LoadPlanner, SwitchViews
<1>2. ASSUME NEW h \in Handlers, NotHeard(h) PROVE [Next]_vars
  BY <1>2 DEF NotHeard
<1>3. ASSUME NEW h \in Handlers,
             Settle(h) \/ NotSent(h) \/ Work(h) \/ Elsewhere(h) \/ EndElsewhere(h)
      PROVE  Next
  BY <1>3, LayerAssumption DEF Settle, NotSent, Work, Elsewhere, EndElsewhere, Next
<1>4. ASSUME NEW h \in Handlers, Asks(h) PROVE Next
  BY <1>4, Asked DEF Begin, Next
<1> QED
  BY <1>1, <1>2, <1>3, <1>4 DEF LNext, Asks

----------------------------------------------------------------------------
(* What the server does with it *)

\* What a write of the layer's own request leaves is what a success shows.
LEMMA Written ==
  ASSUME decos \in [Decos -> Deco], cards \in Cards, NEW before \in Cards,
         NEW q \in Requests, q.w = Couple, q.op \in LayerOps,
         q.op = "createDeco" => WeddingOf[q.deco] = Couple,
         Ahead(q, before, cards), Apply(q),
         NEW d \in Decos, before[d] = CardOf(d)
  PROVE  Added(q)[d] = CardOf(d)'
<1>0. q.deco \in Decos
  BY RequestFields DEF LayerOps
<1>1. CASE d # q.deco
  <2>1. decos'[d] = decos[d]
    BY <1>0, <1>1 DEF Apply, LayerOps, CreateDeco, DeleteDeco, MoveDeco, Attach
  <2>2. CardOf(d)' = CardOf(d)
    BY <2>1 DEF CardOf, OwnedDeco
  <2>3. Added(q)[d] = before[d]
    BY <1>0, <1>1 DEF Added, Ahead, Cards
  <2> QED
    BY <2>2, <2>3
<1>2. CASE d = q.deco /\ q.op = "createDeco"
  <2>1. decos'[d] = NewDeco(Null, q.place)
    BY <1>2 DEF Apply, CreateDeco
  <2>2. CardOf(d)' = OnCard(Null, q.place)
    BY <1>2, <2>1 DEF CardOf, OwnedDeco, NewDeco
  <2> QED
    BY <1>2, <2>2 DEF Added, Cards
<1>3. CASE d = q.deco /\ q.op = "deleteDeco"
  <2>1. decos'[d] = NoDeco(TRUE)
    BY <1>3 DEF Apply, DeleteDeco
  <2>2. CardOf(d)' = NoCard
    BY <2>1 DEF CardOf, OwnedDeco, NoDeco
  <2> QED
    BY <1>3, <2>2 DEF Added, Ahead, Cards
<1>4. CASE d = q.deco /\ q.op \in {"moveDeco", "attach"}
  <2> DEFINE t == IF q.op = "moveDeco" THEN Null ELSE q.table
  <2>1. before[d].on /\ Added(q)[d] = OnCard(t, q.place)
    BY <1>4 DEF Added, Ahead, Cards
  <2>2. OwnedDeco(d, Couple) /\ before[d] = OnCard(decos[d].table, decos[d].place)
    BY <2>1, Fresh DEF CardOf
  <2>3. q.op = "moveDeco" => decos[d].table = Null
    BY <1>4, <2>2 DEF Ahead, OnCard
  <2>4. decos'[d].live /\ decos'[d].table = t /\ decos'[d].place = q.place
    <3>1. CASE q.op = "moveDeco"
      BY <1>4, <2>2, <2>3, <3>1 DEF Apply, MoveDeco, OwnedDeco, Deco
    <3>2. CASE q.op = "attach"
      BY <1>4, <2>2, <3>2 DEF Apply, Attach, OwnedDeco, Deco
    <3> QED
      BY <1>4, <3>1, <3>2
  <2>5. CardOf(d)' = OnCard(t, q.place)
    BY <2>2, <2>4 DEF CardOf, OwnedDeco
  <2> QED
    BY <2>1, <2>5
<1> QED
  BY <1>1, <1>2, <1>3, <1>4 DEF LayerOps

----------------------------------------------------------------------------
(* The invariant *)

\* Nobody waits, and the list agrees.
LEMMA Quiet ==
  ASSUME LayerType', \A h \in Handlers : ~Waits(h)',
         \A d \in Decos \ missed' : cards'[d] = CardOf(d)'
  PROVE  LayerInv'
  BY DEF LayerInv, LayerAgrees

\* The only function that waits has h: once it has its answer, nobody waits.
LEMMA NobodyElse ==
  ASSUME LayerInv, NEW h \in Handlers, Waits(h), NEW c \in {NoCall, Left},
         calls' = [calls EXCEPT ![h] = c]
  PROVE  /\ calls' \in [Handlers -> {NoCall, Left} \cup Call]
         /\ \A k \in Handlers : ~Waits(k)'
<1>1. calls' \in [Handlers -> {NoCall, Left} \cup Call]
  BY DEF LayerInv, LayerType
<1>2. \A k \in Handlers : ~Waits(k)'
  BY Fresh DEF LayerInv, LayerType, Waits
<1> QED
  BY <1>1, <1>2

\* What a function puts back is the list it started from.
LEMMA PutBack ==
  ASSUME LayerInv, NEW h \in Handlers, Waits(h)
  PROVE  Restored(h) = calls[h].before /\ Restored(h) \in Cards
<1>1. calls[h].before \in Cards
  BY CallFields DEF LayerInv
<1> QED
  BY <1>1 DEF LayerInv, Underway, Ahead, Restored

LEMMA LayerInvInit == LInit => LayerInv
<1> SUFFICES ASSUME LInit PROVE LayerInv
  OBVIOUS
<1>1. LayerType
  BY DEF LInit, LayerType, Cards
<1>2. \A h \in Handlers : ~Waits(h)
  BY Fresh DEF LInit, Waits
<1>3. \A d \in Decos : cards[d] = CardOf(d)
  BY DEF LInit, Init, CardOf, OwnedDeco, NoDeco
<1> QED
  BY <1>1, <1>2, <1>3 DEF LayerInv, LayerAgrees

\* A step that leaves the layer and the rows of its decorations alone.
LEMMA Untouched ==
  ASSUME LayerInv, UNCHANGED <<page, cards, calls>>,
         \A h \in Handlers : Waits(h) => hand'[h] = hand[h],
         \A d \in Decos \ missed' : d \notin missed /\ CardOf(d)' = CardOf(d)
  PROVE  LayerInv'
<1>1. LayerType' /\ \A h, k \in Handlers : Waits(h)' /\ Waits(k)' => h = k
  BY DEF LayerInv, LayerType, Waits
<1>2. ASSUME NEW h \in Handlers, Waits(h)' PROVE Underway(h)'
  <2>1. Waits(h) /\ Underway(h) /\ hand'[h] = hand[h]
    BY <1>2 DEF LayerInv, Waits
  <2> QED
    BY <2>1 DEF Underway, Added
<1>3. LayerAgrees'
  BY DEF LayerInv, LayerAgrees, Waits
<1> QED
  BY <1>1, <1>2, <1>3 DEF LayerInv

LEMMA LayerInvNext == Inv /\ LayerInv /\ [LNext]_<<vars, lvars>> => LayerInv'
<1> SUFFICES ASSUME Inv, LayerInv, [LNext]_<<vars, lvars>> PROVE LayerInv'
  OBVIOUS
<1>0. /\ decos \in [Decos -> Deco]
      /\ hand \in [Handlers -> {Idle} \cup Handler]
      /\ LayerType
  BY DEF Inv, RowsInv, RowsType, LayerInv
<1>1. ASSUME NEW h \in Handlers, Asks(h) PROVE LayerInv'
  <2>1. PICK q \in Requests : /\ Begin(h, q)
                              /\ q.w = Couple /\ q.op \in LayerOps
                              /\ Ahead(q, cards, cards') /\ cards' \in Cards
    BY <1>0, <1>1, Asked
  <2>2. PICK c \in Call : /\ c = [st |-> "waiting", q |-> q, before |-> cards]
                          /\ calls' = [calls EXCEPT ![h] = c]
    BY <1>0, <2>1, Fresh, BeginFields DEF LayerType
  <2>3. LayerType'
    BY <1>0, <2>1, <2>2, BeginFields DEF LayerType
  <2>4. \A k \in Handlers : Waits(k)' => k = h
    BY <1>0, <2>1, <2>2, BeginFields DEF LayerType, Waits
  <2>5. hand'[h] = [pc |-> "check", q |-> q] /\ calls'[h] = c
    BY <1>0, <2>1, <2>2, BeginFields DEF LayerType
  <2>6. \A d \in Decos : CardOf(d)' = CardOf(d)
    BY <2>1, BeginFields DEF CardOf, OwnedDeco
  <2>7. \A d \in Decos \ missed : cards[d] = CardOf(d)
    BY <2>1, BeginFields DEF LayerInv, LayerAgrees
  <2>8. Underway(h)'
    <3>1. /\ calls'[h].q = q /\ calls'[h].before = cards
          /\ hand'[h].pc = "check" /\ hand'[h].q = q
      BY <2>2, <2>5
    <3>3. /\ q.op = "createDeco" => WeddingOf[q.deco] = Couple
          /\ missed' = missed
      BY <2>1, BeginFields
    <3>2. \A d \in Decos \ missed : cards[d] = CardOf(d)'
      BY <2>6, <2>7
    <3> QED
      BY <2>1, <3>1, <3>2, <3>3 DEF Underway
  <2>9. Waits(h)'
    BY <2>2, <2>5 DEF Waits
  <2> QED
    BY <2>3, <2>4, <2>8, <2>9 DEF LayerInv, LayerAgrees
<1>2. ASSUME NEW h \in Handlers, Settle(h) PROVE LayerInv'
  <2>1. Waits(h) /\ Underway(h) /\ hand[h].pc = "done"
    BY <1>2 DEF Settle, Respond, LayerInv
  <2>2. \A k \in Handlers : ~Waits(k)'
    BY <1>2, <2>1, NobodyElse DEF Settle
  <2>3. cards' \in Cards
    <3>1. calls[h].q \in Requests /\ Restored(h) \in Cards
      BY <1>0, <2>1, CallFields, PutBack
    <3>2. Added(calls[h].q) \in Cards
      BY <1>0, <3>1, Fresh, RequestFields DEF Added, LayerType, Cards
    <3> QED
      BY <1>2, <3>1, <3>2 DEF Settle
  <2>4. LayerType'
    BY <1>0, <1>2, <2>1, <2>3, NobodyElse DEF Settle, LayerType
  <2>5. \A d \in Decos : CardOf(d)' = CardOf(d)
    BY <1>2 DEF Settle, Respond, CardOf, OwnedDeco
  <2>6. \A d \in Decos \ missed : cards'[d] = CardOf(d)
    BY <1>2, <2>1, PutBack DEF Settle, Underway
  <2>7. missed' = missed
    BY <1>2 DEF Settle
  <2> QED
    BY <2>2, <2>4, <2>5, <2>6, <2>7, Quiet
<1>3. ASSUME NEW h \in Handlers, NotSent(h) PROVE LayerInv'
  <2>1. Waits(h) /\ Underway(h) /\ hand[h].pc = "check"
    BY <1>3 DEF NotSent, Drop, LayerInv
  <2>2. \A k \in Handlers : ~Waits(k)'
    BY <1>3, <2>1, NobodyElse DEF NotSent
  <2>3. LayerType'
    BY <1>0, <1>3, <2>1, NobodyElse, PutBack DEF NotSent, LayerType
  <2>4. \A d \in Decos : CardOf(d)' = CardOf(d)
    BY <1>3 DEF NotSent, Drop, CardOf, OwnedDeco
  <2>5. \A d \in Decos \ missed : cards'[d] = CardOf(d)
    BY <1>3, <2>1, PutBack DEF NotSent, Underway
  <2>6. missed' = missed
    BY <1>3 DEF NotSent
  <2> QED
    BY <2>2, <2>3, <2>4, <2>5, <2>6, Quiet
<1>4. ASSUME NEW h \in Handlers, NotHeard(h) PROVE LayerInv'
  <2>1. Waits(h)
    BY <1>4 DEF NotHeard
  <2>2. \A k \in Handlers : ~Waits(k)'
    BY <1>4, <2>1, NobodyElse DEF NotHeard
  <2>3. LayerType'
    BY <1>0, <1>4, <2>1, NobodyElse, PutBack DEF NotHeard, LayerType
  <2>4. \A d \in Decos : CardOf(d)' = CardOf(d)
    BY <1>4 DEF NotHeard, vars, CardOf, OwnedDeco
  <2>5. \A d \in Decos \ missed' : cards'[d] = CardOf(d)
    BY <1>4 DEF NotHeard, Differing
  <2> QED
    BY <2>2, <2>3, <2>4, <2>5, Quiet
<1>5. CASE LoadPlanner
  <2>1. \A h \in Handlers : ~Waits(h)'
    BY <1>5 DEF LoadPlanner, LayerInv, Underway, Waits, Idle
  <2>2. CardsNow \in Cards
    BY <1>0, CardType DEF CardsNow, Cards
  <2>3. PlacesNow \in [Tables -> Places \cup {Null}]
    <3>1. \A t \in Tables : tables[t].place \in Places
      BY DEF Inv, RowsInv, RowsType, Table
    <3> QED
      BY <3>1 DEF PlacesNow
  <2>4. LayerType'
    BY <1>0, <1>5, <2>2, <2>3 DEF LoadPlanner, LayerType
  <2>5. \A d \in Decos : cards'[d] = CardOf(d) /\ CardOf(d)' = CardOf(d)
    BY <1>5 DEF LoadPlanner, CardsNow, CardOf, OwnedDeco, vars
  <2> QED
    BY <2>1, <2>4, <2>5, Quiet
<1>6. CASE SwitchViews
  <2>1. /\ calls' \in [Handlers -> {NoCall, Left} \cup Call]
        /\ \A h \in Handlers : ~Waits(h)'
    BY <1>0, <1>6, Fresh DEF SwitchViews, AllLeft, LayerType, Waits
  <2>2. LayerType'
    BY <1>0, <1>6, <2>1 DEF SwitchViews, LayerType
  <2>3. \A d \in Decos : CardOf(d)' = CardOf(d)
    BY <1>6 DEF SwitchViews, CardOf, OwnedDeco, vars
  <2>4. \A d \in Decos \ missed' : cards'[d] = CardOf(d)
    BY <1>6 DEF SwitchViews, Differing
  <2> QED
    BY <2>1, <2>2, <2>3, <2>4, Quiet
<1>7. ASSUME NEW h \in Handlers, Work(h) PROVE LayerInv'
  <2>1. UNCHANGED <<page, cards, calls>> /\ \A k \in Handlers : Waits(k)' <=> Waits(k)
    BY <1>7 DEF Work, Waits
  <2>2. \A k \in Handlers \ {h} : hand'[k] = hand[k]
    BY <1>0, <1>7 DEF Work, ServerStep, Check, Write, Fail, ReleaseGuests, RemoveTable,
                      Answer
  <2>3. CASE ~Waits(h)
    BY <1>7, <2>1, <2>2, <2>3, Untouched DEF Work
  <2>4. CASE Waits(h)
    <3> DEFINE q == calls[h].q
               before == calls[h].before
    <3>1. Underway(h) /\ q \in Requests /\ before \in Cards /\ q.op # "deleteTable"
      BY <1>0, <2>4, CallFields DEF LayerInv, Underway, LayerOps
    <3>2. missed' = missed
      BY <1>7, <2>4 DEF Work
    <3>3. hand[h].pc \in {"check", "write"} /\ hand[h].q = q
      BY <1>7, <3>1 DEF Work, ServerStep, Check, Write, Fail, ReleaseGuests, RemoveTable,
                        Underway
    <3>4. \A d \in Decos \ missed : before[d] = CardOf(d)
      BY <3>1, <3>3 DEF Underway
    <3>5. LayerType' /\ \A k \in Handlers : Waits(k)' => k = h
      BY <1>0, <2>1, <2>4 DEF LayerType, LayerInv
    <3>6. CASE /\ UNCHANGED decos
               /\ \/ hand'[h] = [pc |-> "write", q |-> q]
                  \/ hand'[h] = [pc |-> "done", ok |-> FALSE]
      <4>1. \A d \in Decos : CardOf(d)' = CardOf(d)
        BY <3>6 DEF CardOf, OwnedDeco
      <4>2. Underway(h)'
        <5>1. \A d \in Decos \ missed : before[d] = CardOf(d)'
          BY <3>4, <4>1
        <5>2. /\ \/ hand'[h].pc = "write" /\ hand'[h].q = q
                 \/ hand'[h].pc = "done" /\ hand'[h].ok = FALSE
              /\ calls'[h] = calls[h] /\ cards' = cards
          BY <2>1, <3>6
        <5> QED
          BY <3>1, <3>2, <5>1, <5>2 DEF Underway
      <4> QED
        BY <2>1, <2>4, <3>5, <4>2 DEF LayerInv, LayerAgrees
    <3>7. CASE Apply(q) /\ hand'[h] = [pc |-> "done", ok |-> TRUE]
      <4>1. \A d \in Decos \ missed : Added(q)[d] = CardOf(d)'
        BY <1>0, <3>1, <3>4, <3>7, Written DEF Underway, LayerType
      <4>2. Underway(h)'
        BY <2>1, <3>1, <3>2, <3>7, <4>1 DEF Underway, Added
      <4> QED
        BY <2>1, <2>4, <3>5, <4>2 DEF LayerInv, LayerAgrees
    <3>8. hand[h] \in {Idle} \cup Handler
      BY <1>0
    <3> QED
      BY <1>0, <1>7, <3>1, <3>3, <3>6, <3>7, <3>8, HandlerFields
         DEF Work, ServerStep, Check, Write, Fail, ReleaseGuests, RemoveTable, Answer
  <2> QED
    BY <2>3, <2>4
<1>8. ASSUME NEW h \in Handlers, Elsewhere(h) PROVE LayerInv'
  <2>1. ~Waits(h)
    BY <1>8, Fresh DEF Elsewhere, Waits
  <2>2. UNCHANGED <<page, cards, calls, missed>>
    BY <1>8 DEF Elsewhere, lvars
  <2>3. \A k \in Handlers \ {h} : hand'[k] = hand[k]
    BY <1>8 DEF Elsewhere, Arrive
  <2>4. \A d \in Decos : CardOf(d)' = CardOf(d)
    BY <1>8 DEF Elsewhere, Arrive, CardOf, OwnedDeco
  <2> QED
    BY <2>1, <2>2, <2>3, <2>4, Untouched
<1>9. ASSUME NEW h \in Handlers, EndElsewhere(h) PROVE LayerInv'
  <2>1. /\ ~Waits(h)
        /\ UNCHANGED <<page, cards, missed, decos>>
        /\ calls' = [calls EXCEPT ![h] = NoCall]
        /\ \A k \in Handlers \ {h} : hand'[k] = hand[k]
    BY <1>0, <1>9 DEF EndElsewhere, Respond, Drop
  <2>2. calls' \in [Handlers -> {NoCall, Left} \cup Call]
    BY <1>0, <2>1 DEF LayerType
  <2>3. ~Waits(h)' /\ \A k \in Handlers \ {h} : calls'[k] = calls[k]
    BY <1>0, <2>1, Fresh DEF LayerType, Waits
  <2>4. \A k \in Handlers : Waits(k)' <=> Waits(k)
    BY <2>1, <2>3 DEF Waits
  <2>5. \A d \in Decos : CardOf(d)' = CardOf(d)
    BY <2>1 DEF CardOf, OwnedDeco
  <2>6. ASSUME NEW k \in Handlers, Waits(k)' PROVE Underway(k)'
    <3>1. Underway(k) /\ calls'[k] = calls[k] /\ hand'[k] = hand[k]
      BY <2>1, <2>3, <2>4, <2>6 DEF LayerInv
    <3> QED
      BY <2>1, <2>5, <3>1 DEF Underway, Added
  <2>7. LayerType' /\ LayerAgrees'
    BY <1>0, <2>1, <2>2, <2>4, <2>5 DEF LayerType, LayerInv, LayerAgrees
  <2> QED
    BY <2>4, <2>6, <2>7 DEF LayerInv
<1>10. CASE UNCHANGED <<vars, lvars>>
  BY <1>10, Untouched DEF vars, lvars, CardOf, OwnedDeco
<1> QED
  BY <1>1, <1>2, <1>3, <1>4, <1>5, <1>6, <1>7, <1>8, <1>9, <1>10 DEF LNext, Asks

LEMMA LayerHolds == LSpec => [](Inv /\ LayerInv)
<1>1. LInit => Inv /\ LayerInv
  BY InvInit, LayerInvInit DEF LInit
<1>2. Inv /\ LayerInv /\ [LNext]_<<vars, lvars>> => (Inv /\ LayerInv)'
  BY InvNext, LayerInvNext, ClientStep DEF LayerInv
<1> QED
  BY <1>1, <1>2, PTL DEF LSpec

----------------------------------------------------------------------------
(* The theorems *)

\* Whatever the decoration view and the other requests do, and whichever requests
\* and answers are lost, the server sees a behaviour of Seating.
THEOREM LayerIsAClient == LSpec => Spec
<1>1. LInit => Init
  BY DEF LInit
<1>2. LayerInv /\ [LNext]_<<vars, lvars>> => [Next]_vars
  BY ClientStep DEF LayerInv
<1> QED
  BY <1>1, <1>2, LayerHolds, PTL DEF LSpec, Spec

\* So no decoration ends at a table of another wedding.
THEOREM WeddingsApartUnderTheLayer == LSpec => []TenantsApart
<1> QED
  BY LayerIsAClient, WeddingsApart, PTL

\* Once the layer has its answer, or has given up waiting for it, it shows every
\* decoration nobody else touched as its row is: what it put back was not written,
\* and what it shows was.
THEOREM LayerShowsTheRows == LSpec => []LayerAgrees
<1>1. LayerInv => LayerAgrees
  BY DEF LayerInv
<1> QED
  BY <1>1, LayerHolds, PTL

----------------------------------------------------------------------------
(* The seating view.                                                       *)
(*                                                                         *)
(* The rows of a database determine the canvas that shows it (Drawn,       *)
(* Depicts), so a canvas is sound if it shows some consistent database: it *)
(* then has every guest once.  While a function waits, the canvas with the *)
(* confirmation added shows what the request will make of the rows, and    *)
(* what a rollback would put back shows the rows as they are, until the    *)
(* server writes; then the former shows the rows.                          *)

CanvasOps ==
  {"createTable", "deleteTable", "resize", "move", "assign", "unseat", "patchGuest"}

Drawn(tb, gs) ==
  [t \in Tables |-> IF tb[t].live THEN ShownAs(tb[t].cap, tb[t].place, ChipsOf(gs, t))
                                  ELSE Hidden]

\* The canvas shows the tables and guests of a database.
Depicts(sh, un, tb, gs) == sh = Drawn(tb, gs) /\ un = ChipsOf(gs, Null)

Consistent(tb, gs) ==
  /\ tb \in [Tables -> Table] /\ gs \in [Guests -> Guest]
  /\ \A t \in Tables : tb[t].live => tb[t].born
  /\ \A g \in Guests : gs[g].table # Null => tb[gs[g].table].live

\* A canvas of some database.
Sound(sh, un) == \E tb, gs : Consistent(tb, gs) /\ Depicts(sh, un, tb, gs)

\* What a request of the planner makes of the rows.
TablesAfter(q) ==
  CASE q.op = "createTable" -> [tables EXCEPT ![q.table] = NewTable(TRUE)]
    [] q.op = "deleteTable" -> [tables EXCEPT ![q.table].live = FALSE]
    [] q.op = "resize" -> [tables EXCEPT ![q.table].cap = q.cap]
    [] q.op = "move" -> [tables EXCEPT ![q.table].place = q.place]
    [] OTHER -> tables

GuestsAfter(q) ==
  CASE q.op = "assign" -> [guests EXCEPT ![q.guest].table = q.table,
                                         ![q.guest].seat = AssignedSeat(q)]
    [] q.op = "unseat" -> [guests EXCEPT ![q.guest].table = Null]
    [] q.op = "patchGuest" -> [guests EXCEPT ![q.guest].seat = q.seat,
                                             ![q.guest].answers = FALSE]
    [] q.op = "deleteTable" -> Released(q.table)
    [] OTHER -> guests

\* What a rollback would put back.
TablesBefore(h) == IF ops[h].restores = "nothing" THEN shown ELSE ops[h].tables
ListBefore(h) == IF ops[h].restores = "both" THEN ops[h].unassigned ELSE unassigned

AsBefore(h) == Depicts(TablesBefore(h), ListBefore(h), tables, guests)
AsWanted(q) == Depicts(Confirmed(q), unassigned, TablesAfter(q), GuestsAfter(q))

Awaits(h, q) ==
  /\ q.op \in CanvasOps
  /\ hand[h].pc \in {"check", "write", "remove"} =>
       hand[h].q = q /\ ~faulted /\ AsWanted(q)
  /\ hand[h].pc \in {"check", "write"} => AsBefore(h)
  /\ hand[h].pc = "done" /\ hand[h].ok =>
       ~faulted /\ Depicts(Confirmed(q), unassigned, tables, guests)
  /\ hand[h].pc = "done" /\ ~hand[h].ok /\ ~faulted => AsBefore(h)

CanvasTyped ==
  /\ shown \in [Tables -> {Hidden} \cup ShownTable]
  /\ unassigned \in SUBSET Chip

CanvasType ==
  /\ CanvasTyped
  /\ ops \in [Handlers -> {NoOp, Abandoned} \cup Waiting]
  /\ faulted \in BOOLEAN

\* What the function in slot h can count on.
Knows(h) ==
  /\ ops[h] = NoOp <=> hand[h] = Idle
  /\ ops[h] = Abandoned => faulted
  /\ WaitingOn(h) => /\ Sound(TablesBefore(h), ListBefore(h))
                     /\ Awaits(h, ops[h].q)

CanvasInv ==
  /\ CanvasType
  /\ Born
  /\ Sound(shown, unassigned)
  /\ ~faulted /\ (\A h \in Handlers : ops[h] = NoOp) =>
       Depicts(shown, unassigned, tables, guests)
  /\ \A h \in Handlers : Knows(h)

----------------------------------------------------------------------------
(* Chips *)

ChipOf(gs, g) == [guest |-> g, seat |-> gs[g].seat]

LEMMA ChipsAre ==
  ASSUME NEW gs, NEW p, NEW c
  PROVE  c \in ChipsOf(gs, p) <=> \E g \in Guests : gs[g].table = p /\ c = ChipOf(gs, g)
  BY DEF ChipsOf, ChipOf

\* Where nobody's row changed, the chips are the same.
LEMMA SameChips ==
  ASSUME NEW gs, NEW rows, NEW p,
         \A k \in Guests : gs[k].table = p <=> rows[k].table = p,
         \A k \in Guests : gs[k].table = p => rows[k].seat = gs[k].seat
  PROVE  ChipsOf(rows, p) = ChipsOf(gs, p)
<1>1. \A g \in Guests : gs[g].table = p => ChipOf(rows, g) = ChipOf(gs, g)
  BY DEF ChipOf
<1>2. ASSUME NEW c PROVE c \in ChipsOf(rows, p) <=> c \in ChipsOf(gs, p)
  BY <1>1, ChipsAre
<1> QED
  BY <1>2

\* When the row of one guest changed.
LEMMA OneChip ==
  ASSUME NEW gs, NEW rows, NEW p, NEW g \in Guests,
         \A k \in Guests \ {g} : rows[k].table = gs[k].table /\ rows[k].seat = gs[k].seat
  PROVE  /\ gs[g].table # p => Without(ChipsOf(gs, p), g) = ChipsOf(gs, p)
         /\ rows[g].table # p => ChipsOf(rows, p) = Without(ChipsOf(gs, p), g)
         /\ rows[g].table = p =>
              ChipsOf(rows, p) = Without(ChipsOf(gs, p), g) \cup {ChipOf(rows, g)}
<1>1. \A k \in Guests \ {g} : ChipOf(rows, k) = ChipOf(gs, k)
  BY DEF ChipOf
<1>2. \A k : ChipOf(gs, k).guest = k /\ ChipOf(rows, k).guest = k
  BY DEF ChipOf
<1>3. ASSUME NEW c, gs[g].table # p
      PROVE  c \in Without(ChipsOf(gs, p), g) <=> c \in ChipsOf(gs, p)
  BY <1>2, <1>3, ChipsAre DEF Without
<1>4. ASSUME NEW c, rows[g].table # p
      PROVE  c \in ChipsOf(rows, p) <=> c \in Without(ChipsOf(gs, p), g)
  BY <1>1, <1>2, <1>4, ChipsAre DEF Without
<1>5. ASSUME NEW c, rows[g].table = p
      PROVE  c \in ChipsOf(rows, p) <=>
               c \in Without(ChipsOf(gs, p), g) \cup {ChipOf(rows, g)}
  BY <1>1, <1>2, <1>5, ChipsAre DEF Without
<1> QED
  BY <1>3, <1>4, <1>5

\* When the guests of a table are freed.
LEMMA FreedChips ==
  ASSUME NEW t \in Tables, guests \in [Guests -> Guest]
  PROVE  /\ ChipsOf(Released(t), t) = {}
         /\ ChipsOf(Released(t), Null) = ChipsOf(guests, Null) \cup ChipsOf(guests, t)
         /\ \A p \in Tables \ {t} : ChipsOf(Released(t), p) = ChipsOf(guests, p)
<1> USE SeatingAssumption DEF Rows
<1>1. ASSUME NEW g \in Guests
      PROVE  /\ Released(t)[g].seat = guests[g].seat
             /\ Released(t)[g].table = IF guests[g].table = t THEN Null ELSE guests[g].table
  <2>1. guests[g] \in Guest
    OBVIOUS
  <2>2. [guests[g] EXCEPT !.table = Null].seat = guests[g].seat
        /\ [guests[g] EXCEPT !.table = Null].table = Null
    BY <2>1 DEF Guest
  <2> QED
    BY <2>2 DEF Released
<1>2. \A g \in Guests : ChipOf(Released(t), g) = ChipOf(guests, g)
  BY <1>1 DEF ChipOf
<1>3. Null # t
  OBVIOUS
<1>4. ASSUME NEW c PROVE c \notin ChipsOf(Released(t), t)
  BY <1>1, <1>3, ChipsAre
<1>5. ASSUME NEW c
      PROVE  c \in ChipsOf(Released(t), Null) <=>
               c \in ChipsOf(guests, Null) \cup ChipsOf(guests, t)
  <2>1. c \in ChipsOf(Released(t), Null) <=>
          \E g \in Guests : Released(t)[g].table = Null /\ c = ChipOf(guests, g)
    BY <1>2, ChipsAre
  <2> QED
    BY <1>1, <1>3, <2>1, ChipsAre
<1>6. ASSUME NEW p \in Tables \ {t}
      PROVE  ChipsOf(Released(t), p) = ChipsOf(guests, p)
  <2>1. p # Null
    OBVIOUS
  <2>2. \A k \in Guests : guests[k].table = p <=> Released(t)[k].table = p
    BY <1>1, <2>1
  <2> QED
    BY <1>1, <2>2, SameChips
<1> QED
  BY <1>4, <1>5, <1>6

----------------------------------------------------------------------------
(* What a canvas of a database shows *)

LEMMA DrawnTable ==
  ASSUME NEW tb, NEW gs, NEW t \in Tables
  PROVE  /\ tb[t].live => /\ Drawn(tb, gs)[t] = ShownAs(tb[t].cap, tb[t].place, ChipsOf(gs, t))
                          /\ Drawn(tb, gs)[t].on
                          /\ Drawn(tb, gs)[t].cap = tb[t].cap
                          /\ Drawn(tb, gs)[t].place = tb[t].place
                          /\ Drawn(tb, gs)[t].chips = ChipsOf(gs, t)
         /\ ~tb[t].live => Drawn(tb, gs)[t] = Hidden /\ ~Drawn(tb, gs)[t].on
  BY DEF Drawn, ShownAs, Hidden

\* It has the types of the canvas.
LEMMA SoundType ==
  ASSUME NEW sh, NEW un, Sound(sh, un)
  PROVE  sh \in [Tables -> {Hidden} \cup ShownTable] /\ un \in SUBSET Chip
<1>1. PICK tb, gs : Consistent(tb, gs) /\ Depicts(sh, un, tb, gs)
  BY DEF Sound
<1>2. \A g \in Guests : ChipOf(gs, g) \in Chip
  BY <1>1 DEF Consistent, Guest, ChipOf, Chip
<1>3. \A p : ChipsOf(gs, p) \in SUBSET Chip
  BY <1>2, ChipsAre
<1>4. ASSUME NEW t \in Tables PROVE Drawn(tb, gs)[t] \in {Hidden} \cup ShownTable
  <2>1. tb[t].cap \in Caps /\ tb[t].place \in Places /\ tb[t].live \in BOOLEAN
    BY <1>1 DEF Consistent, Table
  <2>2. ShownAs(tb[t].cap, tb[t].place, ChipsOf(gs, t)) \in ShownTable
    BY <1>3, <2>1 DEF ShownAs, ShownTable
  <2> QED
    BY <2>1, <2>2, DrawnTable
<1>5. Drawn(tb, gs) = [t \in Tables |-> Drawn(tb, gs)[t]]
  BY DEF Drawn
<1> QED
  BY <1>1, <1>3, <1>4, <1>5 DEF Depicts

\* A guest is where the row says, and nowhere else.
LEMMA SeenOnce ==
  ASSUME NEW tb, NEW gs, Consistent(tb, gs), Depicts(shown, unassigned, tb, gs),
         NEW g \in Guests
  PROVE  /\ Sightings(g) = {[chip |-> ChipOf(gs, g), at |-> gs[g].table]}
         /\ Located(g) = Sightings(g)
<1> USE SeatingAssumption DEF Rows
<1>1. gs[g].table \in Tables \cup {Null} /\ ChipOf(gs, g) \in Chip /\ ChipOf(gs, g).guest = g
  BY DEF Consistent, Guest, ChipOf, Chip
<1>2. ASSUME NEW p \in Tables \cup {Null}, NEW c
      PROVE  c \in ChipsAt(p) <=> c \in ChipsOf(gs, p)
  <2>1. CASE p = Null
    BY <2>1 DEF ChipsAt, Depicts
  <2>2. CASE p # Null /\ tb[p].live
    BY <2>2, DrawnTable DEF ChipsAt, Depicts
  <2>3. CASE p # Null /\ ~tb[p].live
    <3>1. \A k \in Guests : gs[k].table # p
      BY <2>3 DEF Consistent
    <3> QED
      BY <2>3, <3>1, DrawnTable, ChipsAre DEF ChipsAt, Depicts
  <2> QED
    BY <2>1, <2>2, <2>3
<1>3. ASSUME NEW p \in Tables \cup {Null}, NEW c
      PROVE  c \in ChipsAt(p) /\ c.guest = g <=> p = gs[g].table /\ c = ChipOf(gs, g)
  <2>1. \A k : ChipOf(gs, k).guest = k
    BY DEF ChipOf
  <2> QED
    BY <1>2, <2>1, ChipsAre
<1>4. PICK s : s = [chip |-> ChipOf(gs, g), at |-> gs[g].table]
  OBVIOUS
<1>5. ASSUME NEW l PROVE l \in Sightings(g) <=> l = s
  <2>1. ASSUME l \in Sightings(g) PROVE l = s
    <3>1. /\ l \in [chip : Chip, at : Tables \cup {Null}]
          /\ l.chip = ChipOf(gs, g) /\ l.at = gs[g].table
      BY <1>3, <2>1 DEF Sightings
    <3>2. l = [chip |-> l.chip, at |-> l.at]
      BY <3>1
    <3> QED
      BY <1>4, <3>1, <3>2
  <2>2. ASSUME l = s PROVE l \in Sightings(g)
    <3>1. l \in [chip : Chip, at : Tables \cup {Null}]
          /\ l.chip = ChipOf(gs, g) /\ l.at = gs[g].table
      BY <1>1, <1>4, <2>2
    <3> QED
      BY <1>1, <1>3, <3>1 DEF Sightings
  <2> QED
    BY <2>1, <2>2
<1>6. Sightings(g) = {s}
  BY <1>5
<1>7. Located(g) = Sightings(g)
  <2>1. {l \in Sightings(g) : l.at = Null} \in {{}, {s}}
    BY <1>6
  <2> QED
    BY <1>6, <2>1 DEF Located
<1> QED
  BY <1>4, <1>6, <1>7
----------------------------------------------------------------------------
(* Types of what the canvas does *)

\* A nonempty set of numbers has a least one.
LEMMA Least ==
  ASSUME NEW S, S \subseteq Nat, S # {}
  PROVE  \E m \in S : \A n \in S : m <= n
<1>1. \E R : IsWellFoundedOn(R, Nat) /\ \A x, y \in Nat : (<<y, x>> \in R) <=> (y < x)
  <2>1. PICK R : R = OpToRel(<, Nat)
    OBVIOUS
  <2>2. IsWellFoundedOn(R, Nat)
    BY <2>1, NatLessThanWellFounded
  <2>3. \A x, y \in Nat : (<<y, x>> \in R) <=> (y < x)
    BY <2>1 DEF OpToRel
  <2> QED
    BY <2>2, <2>3, Zenon
<1>2. PICK R : IsWellFoundedOn(R, Nat) /\ \A x, y \in Nat : (<<y, x>> \in R) <=> (y < x)
  BY <1>1
<1>3. PICK m \in S : \A y \in S : ~ (<<y, m>> \in R)
  BY <1>2, WFMin
<1>4. ASSUME NEW n \in S PROVE m <= n
  <2>1. m \in Nat /\ n \in Nat /\ ~ (n < m)
    BY <1>2, <1>3
  <2> QED
    BY <2>1
<1> QED
  BY <1>4

LEMMA ShownFields ==
  ASSUME CanvasTyped, NEW t \in Tables, shown[t].on
  PROVE  /\ shown[t] = ShownAs(shown[t].cap, shown[t].place, shown[t].chips)
         /\ shown[t].cap \in Caps /\ shown[t].place \in Places
         /\ shown[t].chips \in SUBSET Chip
         /\ \A chips : [shown[t] EXCEPT !.chips = chips] =
                         ShownAs(shown[t].cap, shown[t].place, chips)
         /\ \A p : [shown[t] EXCEPT !.place = p] = ShownAs(shown[t].cap, p, shown[t].chips)
         /\ \A n : [shown[t] EXCEPT !.cap = n] = ShownAs(n, shown[t].place, shown[t].chips)
<1>1. shown[t] \in ShownTable
  BY DEF CanvasTyped, Hidden
<1>2. PICK sh : sh = shown[t]
  OBVIOUS
<1>3. sh \in ShownTable
  BY <1>1, <1>2
<1>4. /\ sh.cap \in Caps /\ sh.place \in Places /\ sh.chips \in SUBSET Chip
      /\ sh = ShownAs(sh.cap, sh.place, sh.chips)
  BY <1>3 DEF ShownTable, ShownAs
<1>5. /\ \A chips : [sh EXCEPT !.chips = chips] = ShownAs(sh.cap, sh.place, chips)
      /\ \A p : [sh EXCEPT !.place = p] = ShownAs(sh.cap, p, sh.chips)
      /\ \A n : [sh EXCEPT !.cap = n] = ShownAs(n, sh.place, sh.chips)
  <2>1. PICK a, b, c : sh = [on |-> TRUE, cap |-> a, place |-> b, chips |-> c]
    BY <1>4 DEF ShownAs
  <2>2. sh.cap = a /\ sh.place = b /\ sh.chips = c
    BY <2>1
  <2>3. ASSUME NEW x
        PROVE  /\ [sh EXCEPT !.chips = x] = [on |-> TRUE, cap |-> a, place |-> b, chips |-> x]
               /\ [sh EXCEPT !.place = x] = [on |-> TRUE, cap |-> a, place |-> x, chips |-> c]
               /\ [sh EXCEPT !.cap = x] = [on |-> TRUE, cap |-> x, place |-> b, chips |-> c]
    <3>0. sh \in [on : {TRUE}, cap : {a}, place : {b}, chips : {c}]
      BY <2>1
    <3>1. PICK f : f = [sh EXCEPT !.chips = x]
      OBVIOUS
    <3>2. f \in [on : {TRUE}, cap : {a}, place : {b}, chips : {x}]
      BY <3>0, <3>1
    <3>3. f = [on |-> TRUE, cap |-> a, place |-> b, chips |-> x]
      BY <3>2
    <3>4. PICK e : e = [sh EXCEPT !.place = x]
      OBVIOUS
    <3>5. e \in [on : {TRUE}, cap : {a}, place : {x}, chips : {c}]
      BY <3>0, <3>4
    <3>6. e = [on |-> TRUE, cap |-> a, place |-> x, chips |-> c]
      BY <3>5
    <3>7. PICK d : d = [sh EXCEPT !.cap = x]
      OBVIOUS
    <3>8. d \in [on : {TRUE}, cap : {x}, place : {b}, chips : {c}]
      BY <3>0, <3>7
    <3>9. d = [on |-> TRUE, cap |-> x, place |-> b, chips |-> c]
      BY <3>8
    <3> QED
      BY <3>1, <3>3, <3>4, <3>6, <3>7, <3>9
  <2> QED
    BY <2>2, <2>3 DEF ShownAs
<1> QED
  BY <1>2, <1>4, <1>5

LEMMA ShownAsType ==
  ASSUME NEW n \in Caps, NEW p \in Places, NEW chips \in SUBSET Chip
  PROVE  ShownAs(n, p, chips) \in ShownTable
  BY DEF ShownAs, ShownTable

LEMMA FirstFreeSeat ==
  ASSUME CanvasTyped, NEW t \in Tables, shown[t].on
  PROVE  FirstFree(t) \in Seats
<1>1. shown[t].cap \in Seats
  BY ShownFields, CanvasAssumption
<1>2. MaxSeat \in Nat /\ 0 \in Seats
  BY SeatingAssumption DEF Seats
<1>3. FreeSeats(t) \subseteq Seats /\ FreeSeats(t) \subseteq Nat
  BY <1>1, <1>2 DEF FreeSeats, Seats
<1>4. CASE FreeSeats(t) = {}
  BY <1>2, <1>4 DEF FirstFree
<1>5. CASE FreeSeats(t) # {}
  <2>1. \E s \in FreeSeats(t) : \A r \in FreeSeats(t) : s <= r
    BY <1>3, <1>5, Least
  <2>2. FirstFree(t) \in FreeSeats(t)
    BY <1>5, <2>1, Zenon DEF FirstFree
  <2> QED
    BY <1>3, <2>2
<1> QED
  BY <1>4, <1>5

LEMMA LocatedType ==
  ASSUME NEW g \in Guests, NEW l \in Located(g)
  PROVE  /\ l.chip \in Chip /\ l.chip.guest = g /\ l.at \in Tables \cup {Null}
         /\ l.chip \in ChipsAt(l.at)
         /\ l.chip.seat \in Seats
<1>1. l \in Sightings(g)
  BY DEF Located
<1> QED
  BY <1>1 DEF Sightings, Chip

LEMMA SeatType ==
  ASSUME NEW c \in Chip, NEW s \in Seats
  PROVE  Seat(c, s) \in Chip /\ Seat(c, s).guest = c.guest
  BY DEF Seat, Chip

\* The requests of the couple are requests of the server.
LEMMA CoupleRequests ==
  ASSUME NEW t \in Tables
  PROVE  /\ \A d \in Decos : [op |-> "createTable", w |-> Me, table |-> t, deco |-> d] \in Requests
         /\ [op |-> "deleteTable", w |-> Me, table |-> t] \in Requests
         /\ \A n \in Caps : [op |-> "resize", w |-> Me, table |-> t, cap |-> n] \in Requests
         /\ \A p \in Places : [op |-> "move", w |-> Me, table |-> t, place |-> p] \in Requests
         /\ \A g \in Guests :
              /\ \A s \in Seats : /\ [op |-> "assign", w |-> Me, table |-> t, guest |-> g,
                                      seat |-> s] \in Requests
                                  /\ [op |-> "patchGuest", w |-> Me, guest |-> g,
                                      seat |-> s] \in Requests
              /\ [op |-> "unseat", w |-> Me, table |-> t, guest |-> g] \in Requests
<1>1. \A q \in Request(Me) : q \in Requests
  BY CanvasAssumption DEF Requests
<1>2. \A d \in Decos : [op |-> "createTable", w |-> Me, table |-> t, deco |-> d] \in Request(Me)
  BY DEF Request
<1>3. [op |-> "deleteTable", w |-> Me, table |-> t] \in Request(Me)
  BY DEF Request
<1>4. \A n \in Caps : [op |-> "resize", w |-> Me, table |-> t, cap |-> n] \in Request(Me)
  BY DEF Request
<1>5. \A p \in Places : [op |-> "move", w |-> Me, table |-> t, place |-> p] \in Request(Me)
  BY DEF Request
<1>6. ASSUME NEW g \in Guests, NEW s \in Seats
      PROVE  /\ [op |-> "assign", w |-> Me, table |-> t, guest |-> g, seat |-> s] \in Request(Me)
             /\ [op |-> "patchGuest", w |-> Me, guest |-> g, seat |-> s] \in Request(Me)
  BY <1>6 DEF Request
<1>7. \A g \in Guests : [op |-> "unseat", w |-> Me, table |-> t, guest |-> g] \in Request(Me)
  BY DEF Request
<1> QED
  BY <1>1, <1>2, <1>3, <1>4, <1>5, <1>6, <1>7

----------------------------------------------------------------------------
(* What the couple does *)

Agrees == Consistent(tables, guests) /\ Depicts(shown, unassigned, tables, guests)

\* A function of the canvas sends q and shows at once what q will make of the rows.
Sends(h, q, what) ==
  /\ q \in Requests /\ q.op \in CanvasOps /\ what \in {"nothing", "tables", "both"}
  /\ Start(h, q, what)
  /\ CanvasTyped'
  /\ what # "both" => UNCHANGED unassigned
  /\ what = "nothing" => UNCHANGED shown
  /\ Agrees => AsWanted(q)' /\ Sound(shown, unassigned)'

LEMMA AfterKept ==
  ASSUME UNCHANGED <<tables, guests>>, NEW q
  PROVE  TablesAfter(q)' = TablesAfter(q) /\ GuestsAfter(q)' = GuestsAfter(q)
<1>1. TablesAfter(q)' = TablesAfter(q)
  BY DEF TablesAfter
<1>2. AssignedSeat(q)' = AssignedSeat(q) /\ Released(q.table)' = Released(q.table)
  BY DEF AssignedSeat, Released
<1> QED
  BY <1>1, <1>2 DEF GuestsAfter

\* One guest's row after a request about that guest.
LEMMA GuestAfter ==
  ASSUME guests \in [Guests -> Guest], NEW q \in Requests,
         q.op \in {"assign", "unseat", "patchGuest"}
  PROVE  /\ q.guest \in Guests /\ TablesAfter(q) = tables
         /\ GuestsAfter(q) \in [Guests -> Guest]
         /\ \A k \in Guests \ {q.guest} : GuestsAfter(q)[k] = guests[k]
         /\ GuestsAfter(q)[q.guest].table = CASE q.op = "assign" -> q.table
                                             [] q.op = "unseat" -> Null
                                             [] OTHER -> guests[q.guest].table
         /\ GuestsAfter(q)[q.guest].seat = CASE q.op = "assign" -> AssignedSeat(q)
                                            [] q.op = "unseat" -> guests[q.guest].seat
                                            [] OTHER -> q.seat
<1>1. /\ q.guest \in Guests
      /\ q.op = "assign" => q.table \in Tables /\ q.seat \in Seats
      /\ q.op = "patchGuest" => q.seat \in Seats
  BY RequestFields
<1>2. guests[q.guest] \in Guest
  BY <1>1
<1>3. AssignedSeat(q) \in Seats \/ q.op # "assign"
  BY <1>1, <1>2 DEF AssignedSeat, Guest
<1>4. TablesAfter(q) = tables
  BY DEF TablesAfter
<1>5. CASE q.op = "assign"
  <2>1. GuestsAfter(q) = [guests EXCEPT ![q.guest].table = q.table,
                                        ![q.guest].seat = AssignedSeat(q)]
    BY <1>5 DEF GuestsAfter
  <2> QED
    BY <1>1, <1>2, <1>3, <1>4, <1>5, <2>1 DEF Guest
<1>6. CASE q.op = "unseat"
  <2>1. GuestsAfter(q) = [guests EXCEPT ![q.guest].table = Null]
    BY <1>6 DEF GuestsAfter
  <2> QED
    BY <1>1, <1>2, <1>4, <1>6, <2>1 DEF Guest
<1>7. CASE q.op = "patchGuest"
  <2>1. GuestsAfter(q) = [guests EXCEPT ![q.guest].seat = q.seat, ![q.guest].answers = FALSE]
    BY <1>7 DEF GuestsAfter
  <2> QED
    BY <1>1, <1>2, <1>4, <1>7, <2>1 DEF Guest
<1> QED
  BY <1>5, <1>6, <1>7

\* The tables after a request about tables.
LEMMA TableAfter ==
  ASSUME tables \in [Tables -> Table], NEW q \in Requests,
         q.op \in {"createTable", "deleteTable", "resize", "move"}
  PROVE  /\ q.table \in Tables
         /\ q.op # "deleteTable" => GuestsAfter(q) = guests
         /\ q.op = "deleteTable" => GuestsAfter(q) = Released(q.table)
         /\ TablesAfter(q) \in [Tables -> Table]
         /\ \A u \in Tables \ {q.table} : TablesAfter(q)[u] = tables[u]
         /\ TablesAfter(q)[q.table].live = CASE q.op = "createTable" -> TRUE
                                             [] q.op = "deleteTable" -> FALSE
                                             [] OTHER -> tables[q.table].live
         /\ TablesAfter(q)[q.table].born = CASE q.op = "createTable" -> TRUE
                                             [] OTHER -> tables[q.table].born
         /\ TablesAfter(q)[q.table].cap = CASE q.op = "createTable" -> FirstCap
                                            [] q.op = "resize" -> q.cap
                                            [] OTHER -> tables[q.table].cap
         /\ TablesAfter(q)[q.table].place = CASE q.op = "createTable" -> FirstPlace
                                              [] q.op = "move" -> q.place
                                              [] OTHER -> tables[q.table].place
<1>1. /\ q.table \in Tables
      /\ q.op = "resize" => q.cap \in Caps
      /\ q.op = "move" => q.place \in Places
  BY RequestFields
<1>2. tables[q.table] \in Table
  BY <1>1
<1>3. /\ q.op # "deleteTable" => GuestsAfter(q) = guests
      /\ q.op = "deleteTable" => GuestsAfter(q) = Released(q.table)
  BY DEF GuestsAfter
<1>4. \E r \in Table :
        /\ TablesAfter(q) = [tables EXCEPT ![q.table] = r]
        /\ r.live = CASE q.op = "createTable" -> TRUE
                      [] q.op = "deleteTable" -> FALSE
                      [] OTHER -> tables[q.table].live
        /\ r.born = CASE q.op = "createTable" -> TRUE
                      [] OTHER -> tables[q.table].born
        /\ r.cap = CASE q.op = "createTable" -> FirstCap
                     [] q.op = "resize" -> q.cap
                     [] OTHER -> tables[q.table].cap
        /\ r.place = CASE q.op = "createTable" -> FirstPlace
                       [] q.op = "move" -> q.place
                       [] OTHER -> tables[q.table].place
  <2>1. CASE q.op = "createTable"
    <3>1. TablesAfter(q) = [tables EXCEPT ![q.table] = NewTable(TRUE)]
      BY <2>1 DEF TablesAfter
    <3>2. /\ NewTable(TRUE) \in Table /\ NewTable(TRUE).live
          /\ NewTable(TRUE).cap = FirstCap /\ NewTable(TRUE).place = FirstPlace
          /\ NewTable(TRUE).born
      BY SeatingAssumption DEF NewTable, Table
    <3> QED
      BY <2>1, <3>1, <3>2
  <2>2. CASE q.op = "deleteTable"
    <3>1. TablesAfter(q) = [tables EXCEPT ![q.table].live = FALSE]
      BY <2>2 DEF TablesAfter
    <3>2. PICK r : r = [tables[q.table] EXCEPT !.live = FALSE]
      OBVIOUS
    <3>3. /\ r \in Table /\ r.live = FALSE /\ r.born = tables[q.table].born
          /\ r.cap = tables[q.table].cap /\ r.place = tables[q.table].place
      BY <1>2, <3>2 DEF Table
    <3>4. TablesAfter(q) = [tables EXCEPT ![q.table] = r]
      BY <1>1, <3>1, <3>2
    <3> QED
      BY <2>2, <3>3, <3>4
  <2>3. CASE q.op = "resize"
    <3>1. TablesAfter(q) = [tables EXCEPT ![q.table].cap = q.cap]
      BY <2>3 DEF TablesAfter
    <3>2. PICK r : r = [tables[q.table] EXCEPT !.cap = q.cap]
      OBVIOUS
    <3>3. /\ r \in Table /\ r.live = tables[q.table].live
          /\ r.born = tables[q.table].born
          /\ r.cap = q.cap /\ r.place = tables[q.table].place
      BY <1>1, <1>2, <2>3, <3>2 DEF Table
    <3>4. TablesAfter(q) = [tables EXCEPT ![q.table] = r]
      BY <1>1, <3>1, <3>2
    <3> QED
      BY <2>3, <3>3, <3>4
  <2>4. CASE q.op = "move"
    <3>1. TablesAfter(q) = [tables EXCEPT ![q.table].place = q.place]
      BY <2>4 DEF TablesAfter
    <3>2. PICK r : r = [tables[q.table] EXCEPT !.place = q.place]
      OBVIOUS
    <3>3. /\ r \in Table /\ r.live = tables[q.table].live
          /\ r.born = tables[q.table].born
          /\ r.cap = tables[q.table].cap /\ r.place = q.place
      BY <1>1, <1>2, <2>4, <3>2 DEF Table
    <3>4. TablesAfter(q) = [tables EXCEPT ![q.table] = r]
      BY <1>1, <3>1, <3>2
    <3> QED
      BY <2>4, <3>3, <3>4
  <2> QED
    BY <2>1, <2>2, <2>3, <2>4
<1>5. PICK r \in Table :
        /\ TablesAfter(q) = [tables EXCEPT ![q.table] = r]
        /\ r.live = CASE q.op = "createTable" -> TRUE
                      [] q.op = "deleteTable" -> FALSE
                      [] OTHER -> tables[q.table].live
        /\ r.born = CASE q.op = "createTable" -> TRUE
                      [] OTHER -> tables[q.table].born
        /\ r.cap = CASE q.op = "createTable" -> FirstCap
                     [] q.op = "resize" -> q.cap
                     [] OTHER -> tables[q.table].cap
        /\ r.place = CASE q.op = "createTable" -> FirstPlace
                       [] q.op = "move" -> q.place
                       [] OTHER -> tables[q.table].place
  BY <1>4
<1> QED
  BY <1>1, <1>3, <1>5

\* The rows after a request of the couple are those of a database.
LEMMA AfterConsistent ==
  ASSUME Consistent(tables, guests), NEW q \in Requests, q.op \in CanvasOps,
         q.op = "assign" => tables[q.table].live
  PROVE  Consistent(TablesAfter(q), GuestsAfter(q))
<1>1. CASE q.op \in {"assign", "unseat", "patchGuest"}
  BY <1>1, GuestAfter, SeatingAssumption DEF Consistent, Rows
<1>0. \A g \in Guests : guests[g].table # Null => guests[g].table \in Tables
  BY DEF Consistent, Guest
<1>2. CASE q.op \in {"createTable", "resize", "move"}
  <2>1. tables \in [Tables -> Table]
    BY DEF Consistent
  <2>2. GuestsAfter(q) = guests /\ TablesAfter(q) \in [Tables -> Table] /\ q.table \in Tables
    BY <1>2, <2>1, TableAfter
  <2>3. \/ TablesAfter(q)[q.table].live /\ TablesAfter(q)[q.table].born
        \/ /\ TablesAfter(q)[q.table].live = tables[q.table].live
           /\ TablesAfter(q)[q.table].born = tables[q.table].born
    BY <1>2, <2>1, TableAfter
  <2>5. \A u \in Tables : TablesAfter(q)[u].live => TablesAfter(q)[u].born
    BY <1>2, <2>1, <2>3, TableAfter DEF Consistent
  <2>4. \A u \in Tables : tables[u].live => TablesAfter(q)[u].live
    BY <1>2, <2>1, <2>3, TableAfter
  <2> QED
    BY <1>0, <2>2, <2>4, <2>5 DEF Consistent
<1>3. CASE q.op = "deleteTable"
  <2>1. q.table \in Tables
    BY <1>3, TableAfter DEF Consistent
  <2>2. /\ Released(q.table) \in [Guests -> Guest]
        /\ \A g \in Guests : Released(q.table)[g].table \in {Null, guests[g].table} \ {q.table}
    <3> DEFINE new(g) == IF guests[g].table = q.table THEN [guests[g] EXCEPT !.table = Null]
                                                       ELSE guests[g]
    <3>1. \A g \in Guests : /\ new(g) \in Guest
                            /\ new(g).table \in {Null, guests[g].table} \ {q.table}
      BY <2>1, SeatingAssumption DEF Consistent, Guest, Rows
    <3> QED
      BY <3>1 DEF Released
  <2>3. \A g \in Guests : Released(q.table)[g].table # Null =>
           /\ Released(q.table)[g].table = guests[g].table
           /\ Released(q.table)[g].table # q.table
    BY <2>2
  <2>4. tables \in [Tables -> Table]
    BY DEF Consistent
  <2>5. /\ GuestsAfter(q) = Released(q.table) /\ TablesAfter(q) \in [Tables -> Table]
        /\ \A u \in Tables \ {q.table} : TablesAfter(q)[u].live = tables[u].live
    BY <1>3, <2>4, TableAfter
  <2>6. TablesAfter(q)[q.table].live = FALSE
    BY <1>3, <2>4, TableAfter
  <2>7. \A u \in Tables \ {q.table} : TablesAfter(q)[u].born = tables[u].born
    BY <1>3, <2>4, TableAfter
  <2>8. \A u \in Tables : TablesAfter(q)[u].live => TablesAfter(q)[u].born
    BY <2>5, <2>6, <2>7 DEF Consistent
  <2> QED
    BY <1>0, <2>2, <2>3, <2>5, <2>8 DEF Consistent
<1> QED
  BY <1>1, <1>2, <1>3 DEF CanvasOps

LEMMA DrawnIs ==
  ASSUME NEW S, NEW sh \in [Tables -> S], NEW tb, NEW gs,
         \A t \in Tables :
           /\ tb[t].live => sh[t] = ShownAs(tb[t].cap, tb[t].place, ChipsOf(gs, t))
           /\ ~tb[t].live => sh[t] = Hidden
  PROVE  sh = Drawn(tb, gs)
  BY DEF Drawn

LEMMA AgreesAt ==
  ASSUME Agrees, NEW t \in Tables
  PROVE  /\ shown[t].on <=> tables[t].live
         /\ tables[t].live => /\ shown[t].cap = tables[t].cap /\ shown[t].place = tables[t].place
                              /\ shown[t].chips = ChipsOf(guests, t)
                              /\ shown[t] = ShownAs(tables[t].cap, tables[t].place,
                                                    ChipsOf(guests, t))
         /\ ~tables[t].live => shown[t] = Hidden
<1>1. shown = Drawn(tables, guests)
  BY DEF Agrees, Depicts
<1> QED
  BY <1>1, DrawnTable

LEMMA LooksRight ==
  ASSUME Agrees, UNCHANGED <<tables, guests>>, NEW q \in Requests,
         q.op \in {"assign", "unseat", "patchGuest", "deleteTable"},
         q.op = "assign" => tables[q.table].live,
         Depicts(shown', unassigned', TablesAfter(q), GuestsAfter(q))
  PROVE  AsWanted(q)' /\ Sound(shown, unassigned)'
<1>1. Confirmed(q)' = shown'
  BY DEF Confirmed
<1>2. AsWanted(q)'
  BY <1>1, AfterKept DEF AsWanted
<1>3. Consistent(TablesAfter(q), GuestsAfter(q))
  BY AfterConsistent DEF CanvasOps, Agrees
<1>4. Sound(shown', unassigned')
  BY <1>3, Zenon DEF Sound
<1> QED
  BY <1>2, <1>4 DEF Sound

LEMMA StartKeeps ==
  ASSUME NEW h, NEW q, NEW what, Start(h, q, what)
  PROVE  UNCHANGED <<tables, guests, decos>>
  BY DEF Start, Arrive

LEMMA ClearSends ==
  ASSUME CanvasTyped, NEW h \in Handlers, NEW g \in Guests, Clear(h, g)
  PROVE  \E q, what : Sends(h, q, what)
<1> USE SeatingAssumption DEF Rows
<1>1. PICK l \in Located(g) :
        /\ l.at # Null
        /\ shown' = [shown EXCEPT ![l.at].chips = Without(@, g)]
        /\ unassigned' = unassigned \cup {l.chip}
        /\ Start(h, [op |-> "unseat", w |-> Me, table |-> l.at, guest |-> g], "both")
  BY DEF Clear
<1>2. PICK q : q = [op |-> "unseat", w |-> Me, table |-> l.at, guest |-> g]
  OBVIOUS
<1>3. /\ l.at \in Tables /\ l.chip \in Chip /\ shown[l.at].on
      /\ q \in Requests /\ q.op = "unseat" /\ q.table = l.at /\ q.guest = g
  <2>1. l.at \in Tables /\ l.chip \in Chip /\ l.chip \in ChipsAt(l.at)
    BY <1>1, LocatedType
  <2>2. shown[l.at].on
    BY <1>1, <2>1 DEF ChipsAt
  <2>3. [op |-> "unseat", w |-> Me, table |-> l.at, guest |-> g] \in Requests
    BY <2>1, CoupleRequests
  <2> QED
    BY <1>2, <2>1, <2>2, <2>3
<1>4. PICK sh : sh = ShownAs(shown[l.at].cap, shown[l.at].place, Without(shown[l.at].chips, g))
  OBVIOUS
<1>5. shown' = [shown EXCEPT ![l.at] = sh]
  <2>1. PICK chips : chips = Without(shown[l.at].chips, g)
    OBVIOUS
  <2>2. [shown[l.at] EXCEPT !.chips = chips] = sh
    BY <1>3, <1>4, <2>1, ShownFields
  <2>3. shown' = [shown EXCEPT ![l.at] = [shown[l.at] EXCEPT !.chips = chips]]
    BY <1>1, <1>3, <2>1 DEF CanvasTyped
  <2> QED
    BY <2>2, <2>3
<1>6. CanvasTyped'
  <2>1. Without(shown[l.at].chips, g) \in SUBSET Chip
    BY <1>3, ShownFields DEF Without
  <2>2. sh \in ShownTable
    BY <1>3, <1>4, <2>1, ShownFields, ShownAsType
  <2> QED
    BY <1>1, <1>3, <1>5, <2>2 DEF CanvasTyped
<1>7. ASSUME Agrees PROVE Depicts(shown', unassigned', TablesAfter(q), GuestsAfter(q))
  <2>1. l = [chip |-> ChipOf(guests, g), at |-> guests[g].table]
    BY <1>1, <1>7, SeenOnce DEF Agrees
  <2>2. l.chip = ChipOf(guests, g) /\ l.at = guests[g].table
    BY <2>1
  <2>3. guests \in [Guests -> Guest]
    BY <1>7 DEF Agrees, Consistent
  <2>4. PICK rows : rows = GuestsAfter(q)
    OBVIOUS
  <2>5. /\ TablesAfter(q) = tables
        /\ \A k \in Guests \ {g} : rows[k] = guests[k]
        /\ rows[g].table = Null /\ rows[g].seat = guests[g].seat
    BY <1>3, <2>3, <2>4, GuestAfter
  <2>6. ChipOf(rows, g) = ChipOf(guests, g)
    BY <2>5 DEF ChipOf
  <2>7. \A p : /\ guests[g].table # p => Without(ChipsOf(guests, p), g) = ChipsOf(guests, p)
               /\ rows[g].table # p => ChipsOf(rows, p) = Without(ChipsOf(guests, p), g)
               /\ rows[g].table = p => ChipsOf(rows, p) =
                    Without(ChipsOf(guests, p), g) \cup {ChipOf(rows, g)}
    BY <2>5, OneChip
  <2>8. unassigned' = ChipsOf(rows, Null)
    BY <1>1, <1>3, <1>7, <2>2, <2>5, <2>6, <2>7 DEF Agrees, Depicts
  <2>9. ASSUME NEW u \in Tables
        PROVE  /\ tables[u].live =>
                    shown'[u] = ShownAs(tables[u].cap, tables[u].place, ChipsOf(rows, u))
               /\ ~tables[u].live => shown'[u] = Hidden
    <3>1. u # Null /\ ChipsOf(rows, u) = Without(ChipsOf(guests, u), g)
      BY <2>5, <2>7
    <3>2. CASE u = l.at
      <4>1. shown'[u] = sh
        BY <1>3, <1>5, <3>2 DEF CanvasTyped
      <4> QED
        BY <1>3, <1>4, <1>7, <3>1, <3>2, <4>1, AgreesAt
    <3>3. CASE u # l.at
      <4>1. shown'[u] = shown[u]
        BY <1>5, <3>3 DEF CanvasTyped
      <4>2. ChipsOf(rows, u) = ChipsOf(guests, u)
        BY <2>2, <2>7, <3>1, <3>3
      <4> QED
        BY <1>7, <4>1, <4>2, AgreesAt
    <3> QED
      BY <3>2, <3>3
  <2>10. shown' = Drawn(tables, rows)
    BY <1>6, <2>9, DrawnIs DEF CanvasTyped
  <2> QED
    BY <2>4, <2>5, <2>8, <2>10 DEF Depicts
<1>8. Start(h, q, "both")
  BY <1>1, <1>2
<1>9. Agrees => AsWanted(q)' /\ Sound(shown, unassigned)'
  BY <1>3, <1>7, <1>8, StartKeeps, LooksRight
<1>10. Sends(h, q, "both")
  BY <1>3, <1>6, <1>8, <1>9 DEF Sends, CanvasOps
<1> QED
  BY <1>10, Zenon

LEMMA DropSends ==
  ASSUME CanvasTyped, NEW h \in Handlers, NEW g \in Guests, NEW t \in Tables,
         NEW s \in Seats, DropOnTable(h, g, t, s)
  PROVE  \E q, what : Sends(h, q, what)
<1> USE SeatingAssumption DEF Rows
<1>0. shown[t].on
  BY DEF DropOnTable
<1>1. PICK l \in Located(g) :
        LET seat == IF s = 0 THEN FirstFree(t) ELSE s IN
          /\ l.at # t
          /\ unassigned' = Without(unassigned, g)
          /\ shown' = [u \in Tables |->
               IF u = t /\ \A d \in shown[t].chips : d.guest # g
                 THEN [shown[t] EXCEPT !.chips = @ \cup {Seat(l.chip, seat)}]
               ELSE IF u = l.at THEN [shown[u] EXCEPT !.chips = Without(@, g)]
               ELSE shown[u]]
          /\ Start(h, [op |-> "assign", w |-> Me, table |-> t, guest |-> g, seat |-> seat],
                   "both")
  BY DEF DropOnTable
<1>2. PICK seat : seat = (IF s = 0 THEN FirstFree(t) ELSE s)
  OBVIOUS
<1>3. PICK q : q = [op |-> "assign", w |-> Me, table |-> t, guest |-> g, seat |-> seat]
  OBVIOUS
<1>4. seat \in Seats
  BY <1>0, <1>2, FirstFreeSeat
<1>5. /\ q \in Requests /\ q.op = "assign" /\ q.table = t /\ q.guest = g /\ q.seat = seat
  BY <1>3, <1>4, CoupleRequests
<1>6. /\ l.at \in Tables \cup {Null} /\ l.chip \in Chip /\ l.chip \in ChipsAt(l.at)
      /\ l.at # Null => shown[l.at].on
  <2>1. l.at \in Tables \cup {Null} /\ l.chip \in Chip /\ l.chip \in ChipsAt(l.at)
    BY LocatedType
  <2> QED
    BY <2>1 DEF ChipsAt
<1>7. PICK on : on = ShownAs(shown[t].cap, shown[t].place,
                            shown[t].chips \cup {Seat(l.chip, seat)})
  OBVIOUS
<1>8. PICK off : off = ShownAs(shown[l.at].cap, shown[l.at].place,
                              Without(shown[l.at].chips, g))
  OBVIOUS
<1>9. shown' = [u \in Tables |-> IF u = t /\ \A d \in shown[t].chips : d.guest # g THEN on
                                ELSE IF u = l.at THEN off ELSE shown[u]]
  <2>1. PICK a : a = shown[t].chips \cup {Seat(l.chip, seat)}
    OBVIOUS
  <2>2. PICK b : b = Without(shown[l.at].chips, g)
    OBVIOUS
  <2>3. [shown[t] EXCEPT !.chips = a] = on
    BY <1>0, <1>7, <2>1, ShownFields
  <2>4. l.at \in Tables => [shown[l.at] EXCEPT !.chips = b] = off
    BY <1>6, <1>8, <2>2, ShownFields
  <2>5. shown' = [u \in Tables |-> IF u = t /\ \A d \in shown[t].chips : d.guest # g
                                    THEN [shown[t] EXCEPT !.chips = a]
                                  ELSE IF u = l.at THEN [shown[l.at] EXCEPT !.chips = b]
                                  ELSE shown[u]]
    BY <1>1, <1>2, <2>1, <2>2
  <2> QED
    BY <2>3, <2>4, <2>5
<1>10. CanvasTyped'
  <2>1. shown[t].chips \cup {Seat(l.chip, seat)} \in SUBSET Chip
    BY <1>0, <1>4, <1>6, SeatType, ShownFields
  <2>2. on \in ShownTable
    BY <1>0, <1>7, <2>1, ShownFields, ShownAsType
  <2>3. l.at \in Tables => Without(shown[l.at].chips, g) \in SUBSET Chip
    BY <1>6, ShownFields DEF Without
  <2>4. l.at \in Tables => off \in ShownTable
    BY <1>6, <1>8, <2>3, ShownFields, ShownAsType
  <2>5. unassigned' \in SUBSET Chip
    BY <1>1 DEF CanvasTyped, Without
  <2> QED
    BY <1>9, <2>2, <2>4, <2>5 DEF CanvasTyped
<1>11. ASSUME Agrees PROVE Depicts(shown', unassigned', TablesAfter(q), GuestsAfter(q))
  <2>1. l = [chip |-> ChipOf(guests, g), at |-> guests[g].table]
    BY <1>1, <1>11, SeenOnce DEF Agrees
  <2>2. l.chip = ChipOf(guests, g) /\ l.at = guests[g].table
    BY <2>1
  <2>3. guests \in [Guests -> Guest]
    BY <1>11 DEF Agrees, Consistent
  <2>4. PICK rows : rows = GuestsAfter(q)
    OBVIOUS
  <2>5. /\ TablesAfter(q) = tables
        /\ \A k \in Guests \ {g} : rows[k] = guests[k]
        /\ rows[g].table = t /\ rows[g].seat = AssignedSeat(q)
    BY <1>5, <2>3, <2>4, GuestAfter
  <2>6. ChipOf(rows, g) = Seat(l.chip, seat)
    BY <1>5, <2>2, <2>5 DEF ChipOf, AssignedSeat, Seat
  <2>7. \A p : /\ guests[g].table # p => Without(ChipsOf(guests, p), g) = ChipsOf(guests, p)
               /\ rows[g].table # p => ChipsOf(rows, p) = Without(ChipsOf(guests, p), g)
               /\ rows[g].table = p => ChipsOf(rows, p) =
                    Without(ChipsOf(guests, p), g) \cup {ChipOf(rows, g)}
    BY <2>5, OneChip
  <2>8. unassigned' = ChipsOf(rows, Null)
    BY <1>1, <1>11, <2>5, <2>7 DEF Agrees, Depicts
  <2>9. ASSUME NEW u \in Tables
        PROVE  /\ tables[u].live =>
                    shown'[u] = ShownAs(tables[u].cap, tables[u].place, ChipsOf(rows, u))
               /\ ~tables[u].live => shown'[u] = Hidden
    <3>1. CASE u = t
      <4>1. shown[t].chips = ChipsOf(guests, t) /\ tables[t].live
            /\ shown[t].cap = tables[t].cap /\ shown[t].place = tables[t].place
        BY <1>0, <1>11, AgreesAt
      <4>2. \A d \in shown[t].chips : d.guest # g
        BY <1>1, <2>2, <4>1, ChipsAre DEF ChipOf
      <4>3. shown'[u] = on
        BY <1>9, <3>1, <4>2
      <4>4. ChipsOf(rows, t) = shown[t].chips \cup {Seat(l.chip, seat)}
        BY <1>1, <2>2, <2>5, <2>6, <2>7, <4>1
      <4> QED
        BY <1>7, <3>1, <4>1, <4>3, <4>4
    <3>2. CASE u # t /\ u = l.at
      <4>1. shown'[u] = off
        BY <1>9, <3>2
      <4>2. ChipsOf(rows, u) = Without(ChipsOf(guests, u), g)
        BY <2>5, <2>7, <3>2
      <4>3. shown[u].on
        BY <1>6, <3>2
      <4> QED
        BY <1>8, <1>11, <3>2, <4>1, <4>2, <4>3, AgreesAt
    <3>3. CASE u # t /\ u # l.at
      <4>1. shown'[u] = shown[u]
        BY <1>9, <3>3
      <4>2. ChipsOf(rows, u) = ChipsOf(guests, u)
        BY <2>2, <2>5, <2>7, <3>3
      <4> QED
        BY <1>11, <4>1, <4>2, AgreesAt
    <3> QED
      BY <3>1, <3>2, <3>3
  <2>10. shown' = Drawn(tables, rows)
    BY <1>10, <2>9, DrawnIs DEF CanvasTyped
  <2> QED
    BY <2>4, <2>5, <2>8, <2>10 DEF Depicts
<1>12. Start(h, q, "both")
  BY <1>1, <1>2, <1>3
<1>13. Agrees => AsWanted(q)' /\ Sound(shown, unassigned)'
  <2>1. Agrees => tables[t].live
    BY <1>0, AgreesAt
  <2> QED
    BY <1>5, <1>11, <1>12, <2>1, StartKeeps, LooksRight
<1>14. Sends(h, q, "both")
  BY <1>5, <1>10, <1>12, <1>13 DEF Sends, CanvasOps
<1> QED
  BY <1>14, Zenon

LEMMA ReseatSends ==
  ASSUME CanvasTyped, NEW h \in Handlers, NEW g \in Guests, NEW t \in Tables,
         NEW s \in Seats \ {0}, Reseat(h, g, t, s)
  PROVE  \E q, what : Sends(h, q, what)
<1> USE SeatingAssumption DEF Rows
<1>0. shown[t].on /\ UNCHANGED unassigned
  BY DEF Reseat
<1>1. PICK l \in Located(g) :
        /\ l.at = t
        /\ shown' = [shown EXCEPT ![t].chips = {IF d.guest = g THEN Seat(d, s) ELSE d : d \in @}]
        /\ Start(h, [op |-> "patchGuest", w |-> Me, guest |-> g, seat |-> s], "tables")
  BY DEF Reseat
<1>2. PICK q : q = [op |-> "patchGuest", w |-> Me, guest |-> g, seat |-> s]
  OBVIOUS
<1>3. q \in Requests /\ q.op = "patchGuest" /\ q.guest = g /\ q.seat = s
  BY <1>2, CoupleRequests
<1>4. PICK chips : chips = {IF d.guest = g THEN Seat(d, s) ELSE d : d \in shown[t].chips}
  OBVIOUS
<1>5. shown' = [shown EXCEPT ![t] = ShownAs(shown[t].cap, shown[t].place, chips)]
  <2>1. [shown[t] EXCEPT !.chips = chips] = ShownAs(shown[t].cap, shown[t].place, chips)
    BY <1>0, ShownFields
  <2>2. shown' = [shown EXCEPT ![t] = [shown[t] EXCEPT !.chips = chips]]
    BY <1>1, <1>4 DEF CanvasTyped
  <2> QED
    BY <2>1, <2>2
<1>6. CanvasTyped'
  <2>1. chips \in SUBSET Chip
    <3>1. shown[t].chips \in SUBSET Chip
      BY <1>0, ShownFields
    <3>2. \A d \in shown[t].chips : (IF d.guest = g THEN Seat(d, s) ELSE d) \in Chip
      BY <3>1, SeatType
    <3> QED
      BY <1>4, <3>2
  <2>2. ShownAs(shown[t].cap, shown[t].place, chips) \in ShownTable
    BY <1>0, <2>1, ShownFields, ShownAsType
  <2> QED
    BY <1>0, <1>5, <2>2 DEF CanvasTyped
<1>7. ASSUME Agrees PROVE Depicts(shown', unassigned', TablesAfter(q), GuestsAfter(q))
  <2>1. l = [chip |-> ChipOf(guests, g), at |-> guests[g].table]
    BY <1>1, <1>7, SeenOnce DEF Agrees
  <2>2. l.chip = ChipOf(guests, g) /\ guests[g].table = t
    BY <1>1, <2>1
  <2>3. guests \in [Guests -> Guest]
    BY <1>7 DEF Agrees, Consistent
  <2>4. PICK rows : rows = GuestsAfter(q)
    OBVIOUS
  <2>5. /\ TablesAfter(q) = tables
        /\ \A k \in Guests \ {g} : rows[k] = guests[k]
        /\ rows[g].table = t /\ rows[g].seat = s
    BY <1>3, <2>2, <2>3, <2>4, GuestAfter
  <2>6. tables[t].live /\ shown[t].chips = ChipsOf(guests, t)
    BY <1>0, <1>7, AgreesAt
  <2>7. chips = ChipsOf(rows, t)
    <3>1. \A k : ChipOf(guests, k).guest = k
      BY DEF ChipOf
    <3>2. ChipOf(rows, g) = Seat(ChipOf(guests, g), s)
      BY <2>5 DEF ChipOf, Seat
    <3>3. \A k \in Guests \ {g} : ChipOf(rows, k) = ChipOf(guests, k)
      BY <2>5 DEF ChipOf
    <3>4. ASSUME NEW c PROVE c \in chips => c \in ChipsOf(rows, t)
      <4>1. SUFFICES ASSUME c \in chips PROVE c \in ChipsOf(rows, t)
        OBVIOUS
      <4>2. PICK d \in ChipsOf(guests, t) : c = IF d.guest = g THEN Seat(d, s) ELSE d
        BY <1>4, <2>6, <4>1
      <4>3. PICK k \in Guests : guests[k].table = t /\ d = ChipOf(guests, k)
        BY <4>2, ChipsAre
      <4>4. c = ChipOf(rows, k) /\ rows[k].table = t
        BY <2>5, <3>1, <3>2, <3>3, <4>2, <4>3
      <4> QED
        BY <4>4, ChipsAre
    <3>5. ASSUME NEW c PROVE c \in ChipsOf(rows, t) => c \in chips
      <4>1. SUFFICES ASSUME c \in ChipsOf(rows, t) PROVE c \in chips
        OBVIOUS
      <4>2. PICK k \in Guests : rows[k].table = t /\ c = ChipOf(rows, k)
        BY <4>1, ChipsAre
      <4>3. PICK d : d = ChipOf(guests, k)
        OBVIOUS
      <4>4. guests[k].table = t
        BY <2>2, <2>5, <4>2
      <4>5. d \in shown[t].chips
        BY <2>6, <4>3, <4>4, ChipsAre
      <4>6. c = IF d.guest = g THEN Seat(d, s) ELSE d
        BY <3>1, <3>2, <3>3, <4>2, <4>3
      <4> QED
        BY <1>4, <4>5, <4>6
    <3> QED
      BY <3>4, <3>5
  <2>8. \A p : p # t => ChipsOf(rows, p) = ChipsOf(guests, p)
    <3>1. ASSUME NEW p, p # t PROVE ChipsOf(rows, p) = ChipsOf(guests, p)
      <4>1. \A k \in Guests : guests[k].table = p <=> rows[k].table = p
        BY <2>2, <2>5, <3>1
      <4>2. \A k \in Guests : guests[k].table = p => rows[k].seat = guests[k].seat
        BY <2>2, <2>5, <3>1
      <4> QED
        BY <4>1, <4>2, SameChips
    <3> QED
      BY <3>1
  <2>9. unassigned' = ChipsOf(rows, Null)
    BY <1>0, <1>7, <2>8 DEF Agrees, Depicts
  <2>10. ASSUME NEW u \in Tables
         PROVE  /\ tables[u].live =>
                     shown'[u] = ShownAs(tables[u].cap, tables[u].place, ChipsOf(rows, u))
                /\ ~tables[u].live => shown'[u] = Hidden
    <3>1. CASE u = t
      <4>1. shown'[u] = ShownAs(shown[t].cap, shown[t].place, chips)
        BY <1>5, <3>1 DEF CanvasTyped
      <4> QED
        BY <1>0, <1>7, <2>6, <2>7, <3>1, <4>1, AgreesAt
    <3>2. CASE u # t
      <4>1. shown'[u] = shown[u]
        BY <1>5, <3>2 DEF CanvasTyped
      <4> QED
        BY <1>7, <2>8, <3>2, <4>1, AgreesAt
    <3> QED
      BY <3>1, <3>2
  <2>11. shown' = Drawn(tables, rows)
    BY <1>6, <2>10, DrawnIs DEF CanvasTyped
  <2> QED
    BY <2>4, <2>5, <2>9, <2>11 DEF Depicts
<1>8. Start(h, q, "tables")
  BY <1>1, <1>2
<1>9. Agrees => AsWanted(q)' /\ Sound(shown, unassigned)'
  BY <1>3, <1>7, <1>8, StartKeeps, LooksRight
<1>10. Sends(h, q, "tables")
  BY <1>0, <1>3, <1>6, <1>8, <1>9 DEF Sends, CanvasOps
<1> QED
  BY <1>10, Zenon

LEMMA RemoveSends ==
  ASSUME CanvasTyped, NEW h \in Handlers, NEW t \in Tables, Remove(h, t)
  PROVE  \E q, what : Sends(h, q, what)
<1> USE SeatingAssumption DEF Rows
<1>1. /\ shown[t].on
      /\ shown' = [shown EXCEPT ![t] = Hidden]
      /\ unassigned' = unassigned \cup shown[t].chips
      /\ Start(h, [op |-> "deleteTable", w |-> Me, table |-> t], "both")
  BY DEF Remove
<1>2. PICK q : q = [op |-> "deleteTable", w |-> Me, table |-> t]
  OBVIOUS
<1>3. q \in Requests /\ q.op = "deleteTable" /\ q.table = t
  BY <1>2, CoupleRequests
<1>4. CanvasTyped'
  BY <1>1, ShownFields DEF CanvasTyped
<1>5. ASSUME Agrees PROVE Depicts(shown', unassigned', TablesAfter(q), GuestsAfter(q))
  <2>1. guests \in [Guests -> Guest] /\ tables \in [Tables -> Table]
    BY <1>5 DEF Agrees, Consistent
  <2>2. PICK tb : tb = TablesAfter(q)
    OBVIOUS
  <2>3. PICK rows : rows = GuestsAfter(q)
    OBVIOUS
  <2>4. /\ rows = Released(t) /\ tb[t].live = FALSE
        /\ \A u \in Tables \ {t} : tb[u] = tables[u]
    BY <1>3, <2>1, <2>2, <2>3, TableAfter
  <2>5. /\ ChipsOf(rows, Null) = ChipsOf(guests, Null) \cup ChipsOf(guests, t)
        /\ \A p \in Tables \ {t} : ChipsOf(rows, p) = ChipsOf(guests, p)
    BY <2>1, <2>4, FreedChips
  <2>6. shown[t].chips = ChipsOf(guests, t)
    BY <1>1, <1>5, AgreesAt
  <2>7. unassigned' = ChipsOf(rows, Null)
    BY <1>1, <1>5, <2>5, <2>6 DEF Agrees, Depicts
  <2>8. ASSUME NEW u \in Tables
        PROVE  /\ tb[u].live => shown'[u] = ShownAs(tb[u].cap, tb[u].place, ChipsOf(rows, u))
               /\ ~tb[u].live => shown'[u] = Hidden
    <3>1. CASE u = t
      BY <1>1, <2>4, <3>1 DEF CanvasTyped
    <3>2. CASE u # t
      <4>1. shown'[u] = shown[u] /\ tb[u] = tables[u] /\ ChipsOf(rows, u) = ChipsOf(guests, u)
        BY <1>1, <2>4, <2>5, <3>2 DEF CanvasTyped
      <4> QED
        BY <1>5, <4>1, AgreesAt
    <3> QED
      BY <3>1, <3>2
  <2>9. shown' = Drawn(tb, rows)
    BY <1>4, <2>8, DrawnIs DEF CanvasTyped
  <2> QED
    BY <2>2, <2>3, <2>7, <2>9 DEF Depicts
<1>6. Start(h, q, "both")
  BY <1>1, <1>2
<1>7. Agrees => AsWanted(q)' /\ Sound(shown, unassigned)'
  BY <1>3, <1>5, <1>6, StartKeeps, LooksRight
<1>8. Sends(h, q, "both")
  BY <1>3, <1>4, <1>6, <1>7 DEF Sends, CanvasOps
<1> QED
  BY <1>8, Zenon

\* What the canvas shows of one table once a request about it is confirmed.
LEMMA TableShown ==
  ASSUME Agrees, NEW q \in Requests, q.op \in {"createTable", "resize", "move"},
         NEW sh, sh \in [Tables -> {Hidden} \cup ShownTable],
         \A u \in Tables \ {q.table} : sh[u] = shown[u],
         TablesAfter(q)[q.table].live =>
           sh[q.table] = ShownAs(TablesAfter(q)[q.table].cap, TablesAfter(q)[q.table].place,
                                 ChipsOf(guests, q.table)),
         ~TablesAfter(q)[q.table].live => sh[q.table] = Hidden
  PROVE  Depicts(sh, unassigned, TablesAfter(q), GuestsAfter(q))
<1>1. tables \in [Tables -> Table]
  BY DEF Agrees, Consistent
<1>2. PICK tb : tb = TablesAfter(q)
  OBVIOUS
<1>3. GuestsAfter(q) = guests /\ \A u \in Tables \ {q.table} : tb[u] = tables[u]
  BY <1>1, <1>2, TableAfter
<1>4. ASSUME NEW u \in Tables
      PROVE  /\ tb[u].live => sh[u] = ShownAs(tb[u].cap, tb[u].place, ChipsOf(guests, u))
             /\ ~tb[u].live => sh[u] = Hidden
  <2>1. CASE u = q.table
    BY <1>2, <2>1
  <2>2. CASE u # q.table
    <3>1. sh[u] = shown[u] /\ tb[u] = tables[u]
      BY <1>3, <2>2
    <3> QED
      BY <3>1, AgreesAt
  <2> QED
    BY <2>1, <2>2
<1>5. sh = Drawn(tb, guests)
  <2>1. PICK S : S = {Hidden} \cup ShownTable
    OBVIOUS
  <2>2. sh \in [Tables -> S]
    BY <2>1
  <2> QED
    BY <1>4, <2>2, DrawnIs
<1> QED
  BY <1>2, <1>3, <1>5 DEF Depicts, Agrees

LEMMA DragSends ==
  ASSUME CanvasTyped, NEW h \in Handlers, NEW t \in Tables, NEW p \in Places, Drag(h, t, p)
  PROVE  \E q, what : Sends(h, q, what)
<1>1. /\ shown[t].on
      /\ shown' = [shown EXCEPT ![t].place = p]
      /\ Start(h, [op |-> "move", w |-> Me, table |-> t, place |-> p], "tables")
      /\ UNCHANGED unassigned
  BY DEF Drag
<1>2. PICK q : q = [op |-> "move", w |-> Me, table |-> t, place |-> p]
  OBVIOUS
<1>3. q \in Requests /\ q.op = "move" /\ q.table = t /\ q.place = p
  BY <1>2, CoupleRequests
<1>4. PICK sh : sh = ShownAs(shown[t].cap, p, shown[t].chips)
  OBVIOUS
<1>5. [shown[t] EXCEPT !.place = p] = sh /\ sh \in ShownTable
  BY <1>1, <1>4, ShownFields, ShownAsType
<1>6. shown' = [shown EXCEPT ![t] = sh]
  BY <1>1, <1>5 DEF CanvasTyped
<1>7. CanvasTyped'
  BY <1>1, <1>5, <1>6 DEF CanvasTyped
<1>8. Confirmed(q)' = shown'
  <2>1. shown'[t] = sh /\ sh.place = p /\ sh.on
    BY <1>4, <1>6 DEF CanvasTyped, ShownAs
  <2>2. [sh EXCEPT !.place = p] = sh
    BY <2>1, <1>5 DEF ShownTable
  <2>3. [shown' EXCEPT ![t].place = p] = shown'
    BY <1>7, <2>1, <2>2 DEF CanvasTyped
  <2>4. Confirmed(q)' = [shown' EXCEPT ![q.table].place = q.place]
    BY <1>3, <2>1 DEF Confirmed
  <2> QED
    BY <1>3, <2>3, <2>4
<1>9. ASSUME Agrees PROVE Depicts(shown', unassigned', TablesAfter(q), GuestsAfter(q))
  <2>1. PICK r : r = TablesAfter(q)[t]
    OBVIOUS
  <2>2. r.live = tables[t].live /\ r.cap = tables[t].cap /\ r.place = p
    BY <1>3, <1>9, <2>1, TableAfter DEF Agrees, Consistent
  <2>3. tables[t].live /\ shown[t].cap = tables[t].cap /\ shown[t].chips = ChipsOf(guests, t)
    BY <1>1, <1>9, AgreesAt
  <2>4. shown'[t] = ShownAs(r.cap, r.place, ChipsOf(guests, t))
    BY <1>4, <1>6, <2>2, <2>3 DEF CanvasTyped
  <2>5. \A u \in Tables \ {t} : shown'[u] = shown[u]
    BY <1>6 DEF CanvasTyped
  <2>6. PICK next : next = shown'
    OBVIOUS
  <2>7. /\ next \in [Tables -> {Hidden} \cup ShownTable]
        /\ \A u \in Tables \ {q.table} : next[u] = shown[u]
        /\ TablesAfter(q)[q.table].live /\ TablesAfter(q)[q.table] = r
        /\ next[q.table] = ShownAs(r.cap, r.place, ChipsOf(guests, q.table))
    BY <1>3, <1>7, <2>1, <2>2, <2>3, <2>4, <2>5, <2>6 DEF CanvasTyped
  <2>8. Depicts(next, unassigned, TablesAfter(q), GuestsAfter(q))
    BY <1>3, <1>9, <2>7, TableShown
  <2> QED
    BY <1>1, <2>6, <2>8
<1>10. Start(h, q, "tables") /\ UNCHANGED <<tables, guests>>
  BY <1>1, <1>2, StartKeeps
<1>11. ASSUME Agrees PROVE AsWanted(q)' /\ Sound(shown, unassigned)'
  <2>1. AsWanted(q)'
    BY <1>8, <1>9, <1>10, <1>11, AfterKept DEF AsWanted
  <2>2. Consistent(TablesAfter(q), GuestsAfter(q))
    BY <1>3, <1>11, AfterConsistent DEF CanvasOps, Agrees
  <2>3. Sound(shown', unassigned')
    BY <1>9, <1>11, <2>2, Zenon DEF Sound
  <2> QED
    BY <2>1, <2>3 DEF Sound
<1>12. Sends(h, q, "tables")
  BY <1>1, <1>3, <1>7, <1>10, <1>11 DEF Sends, CanvasOps
<1> QED
  BY <1>12, Zenon

\* What is shown only with the answer leaves the canvas as it is.
LEMMA WaitsToShow ==
  ASSUME CanvasTyped, NEW h \in Handlers, NEW q \in Requests, NEW what,
         q.op \in {"createTable", "resize"}, what \in {"nothing", "tables", "both"},
         Start(h, q, what), UNCHANGED <<shown, unassigned>>,
         Agrees => Depicts(Confirmed(q), unassigned, TablesAfter(q), GuestsAfter(q))
  PROVE  \E r, w : Sends(h, r, w)
<1>1. UNCHANGED <<tables, guests>>
  BY StartKeeps
<1>2. Confirmed(q)' = Confirmed(q)
  BY DEF Confirmed
<1>3. ASSUME Agrees PROVE AsWanted(q)'
  BY <1>1, <1>2, <1>3, AfterKept DEF AsWanted
<1>4. ASSUME Agrees PROVE Sound(shown, unassigned)'
  <2>1. Sound(shown, unassigned)
    BY <1>4, Zenon DEF Sound, Agrees
  <2> QED
    BY <2>1 DEF Sound
<1>5. Sends(h, q, what)
  BY <1>3, <1>4 DEF Sends, CanvasOps, CanvasTyped
<1> QED
  BY <1>5, Zenon

LEMMA ResizeSends ==
  ASSUME CanvasTyped, NEW h \in Handlers, NEW t \in Tables, NEW n \in Caps,
         ChangeCapacity(h, t, n)
  PROVE  \E q, what : Sends(h, q, what)
<1>1. /\ shown[t].on
      /\ Start(h, [op |-> "resize", w |-> Me, table |-> t, cap |-> n], "tables")
      /\ UNCHANGED <<shown, unassigned>>
  BY DEF ChangeCapacity
<1>2. PICK q : q = [op |-> "resize", w |-> Me, table |-> t, cap |-> n]
  OBVIOUS
<1>3. q \in Requests /\ q.op = "resize" /\ q.table = t /\ q.cap = n
  BY <1>2, CoupleRequests
<1>4. PICK sh : sh = ShownAs(n, shown[t].place, shown[t].chips)
  OBVIOUS
<1>5. [shown[t] EXCEPT !.cap = n] = sh /\ sh \in ShownTable
  BY <1>1, <1>4, ShownFields, ShownAsType
<1>6. PICK next : next = Confirmed(q)
  OBVIOUS
<1>7. next = [shown EXCEPT ![t] = sh]
  <2>1. Confirmed(q) = [shown EXCEPT ![q.table].cap = q.cap]
    BY <1>1, <1>3 DEF Confirmed
  <2> QED
    BY <1>3, <1>5, <1>6, <2>1 DEF CanvasTyped
<1>8. ASSUME Agrees PROVE Depicts(next, unassigned, TablesAfter(q), GuestsAfter(q))
  <2>1. PICK r : r = TablesAfter(q)[t]
    OBVIOUS
  <2>2. r.live = tables[t].live /\ r.cap = n /\ r.place = tables[t].place
    BY <1>3, <1>8, <2>1, TableAfter DEF Agrees, Consistent
  <2>3. tables[t].live /\ shown[t].place = tables[t].place /\ shown[t].chips = ChipsOf(guests, t)
    BY <1>1, <1>8, AgreesAt
  <2>4. next[t] = ShownAs(r.cap, r.place, ChipsOf(guests, t))
    BY <1>4, <1>7, <2>2, <2>3 DEF CanvasTyped
  <2>5. /\ next \in [Tables -> {Hidden} \cup ShownTable]
        /\ \A u \in Tables \ {q.table} : next[u] = shown[u]
        /\ TablesAfter(q)[q.table].live /\ TablesAfter(q)[q.table] = r
        /\ next[q.table] = ShownAs(r.cap, r.place, ChipsOf(guests, q.table))
    BY <1>3, <1>5, <1>7, <2>1, <2>2, <2>3, <2>4 DEF CanvasTyped
  <2> QED
    BY <1>3, <1>8, <2>5, TableShown
<1>9. Start(h, q, "tables")
  BY <1>1, <1>2
<1> QED
  BY <1>1, <1>3, <1>6, <1>8, <1>9, WaitsToShow

LEMMA AddSends ==
  ASSUME CanvasTyped, NEW h \in Handlers, NEW t \in Tables, NEW d \in Decos,
         AddTable(h, t, d)
  PROVE  \E q, what : Sends(h, q, what)
<1> USE SeatingAssumption DEF Rows
<1>1. /\ Start(h, [op |-> "createTable", w |-> Me, table |-> t, deco |-> d], "nothing")
      /\ UNCHANGED <<shown, unassigned>>
  BY DEF AddTable
<1>2. PICK q : q = [op |-> "createTable", w |-> Me, table |-> t, deco |-> d]
  OBVIOUS
<1>3. q \in Requests /\ q.op = "createTable" /\ q.table = t
  BY <1>2, CoupleRequests
<1>4. PICK sh : sh = ShownAs(FirstCap, FirstPlace, {})
  OBVIOUS
<1>5. sh \in ShownTable
  BY <1>4, ShownAsType
<1>6. PICK next : next = Confirmed(q)
  OBVIOUS
<1>7. next = [shown EXCEPT ![t] = sh]
  BY <1>3, <1>4, <1>6 DEF Confirmed
<1>8. Start(h, q, "nothing")
  BY <1>1, <1>2
<1>9. ~tables[t].born
  BY <1>3, <1>8 DEF Start, Arrive
<1>10. ASSUME Agrees PROVE Depicts(next, unassigned, TablesAfter(q), GuestsAfter(q))
  <2>1. PICK r : r = TablesAfter(q)[t]
    OBVIOUS
  <2>2. r.live = TRUE /\ r.cap = FirstCap /\ r.place = FirstPlace
    BY <1>3, <1>10, <2>1, TableAfter DEF Agrees, Consistent
  <2>3. \A g \in Guests : guests[g].table # t
    BY <1>9, <1>10 DEF Agrees, Consistent
  <2>4. ChipsOf(guests, t) = {}
    BY <2>3 DEF ChipsOf
  <2>5. next[t] = ShownAs(r.cap, r.place, ChipsOf(guests, t))
    BY <1>4, <1>7, <2>2, <2>4 DEF CanvasTyped
  <2>6. /\ next \in [Tables -> {Hidden} \cup ShownTable]
        /\ \A u \in Tables \ {q.table} : next[u] = shown[u]
        /\ TablesAfter(q)[q.table].live /\ TablesAfter(q)[q.table] = r
        /\ next[q.table] = ShownAs(r.cap, r.place, ChipsOf(guests, q.table))
    BY <1>3, <1>5, <1>7, <2>1, <2>2, <2>5 DEF CanvasTyped
  <2> QED
    BY <1>3, <1>10, <2>6, TableShown
<1> QED
  BY <1>1, <1>3, <1>6, <1>8, <1>10, WaitsToShow

----------------------------------------------------------------------------
(* The canvas is a client of the server *)

CoupleActs(h) ==
  \/ \E g \in Guests : Clear(h, g)
  \/ \E g \in Guests, t \in Tables : \/ \E s \in Seats : DropOnTable(h, g, t, s)
                                    \/ \E s \in Seats \ {0} : Reseat(h, g, t, s)
  \/ \E t \in Tables : \/ Remove(h, t)
                       \/ \E p \in Places : Drag(h, t, p)
                       \/ \E n \in Caps : ChangeCapacity(h, t, n)
                       \/ \E d \in Decos : AddTable(h, t, d)

LEMMA CoupleSends ==
  ASSUME CanvasTyped, NEW h \in Handlers, CoupleActs(h)
  PROVE  \E q, what : Sends(h, q, what)
<1>1. CASE \E g \in Guests : Clear(h, g)
  BY <1>1, ClearSends
<1>2. CASE \E g \in Guests, t \in Tables : \E s \in Seats : DropOnTable(h, g, t, s)
  BY <1>2, DropSends
<1>3. CASE \E g \in Guests, t \in Tables : \E s \in Seats \ {0} : Reseat(h, g, t, s)
  BY <1>3, ReseatSends
<1>4. CASE \E t \in Tables : Remove(h, t)
  BY <1>4, RemoveSends
<1>5. CASE \E t \in Tables : \E p \in Places : Drag(h, t, p)
  BY <1>5, DragSends
<1>6. CASE \E t \in Tables : \E n \in Caps : ChangeCapacity(h, t, n)
  BY <1>6, ResizeSends
<1>7. CASE \E t \in Tables : \E d \in Decos : AddTable(h, t, d)
  BY <1>7, AddSends
<1> QED
  BY <1>1, <1>2, <1>3, <1>4, <1>5, <1>6, <1>7, Zenon DEF CoupleActs

\* The kinds of steps of the canvas.
LEMMA CanvasSteps ==
  ASSUME CNext
  PROVE  \/ Reload
         \/ \E h \in Handlers : \/ Serve(h) \/ Answered(h) \/ RequestLost(h)
                                \/ AnswerLost(h) \/ Unread(h) \/ CoupleActs(h)
  BY Zenon DEF CNext, CoupleActs

\* Every step of the canvas is a step of the server, or none.
LEMMA CanvasClient == CanvasTyped /\ [CNext]_<<vars, cvars>> => [Next]_vars
<1> SUFFICES ASSUME CanvasTyped, [CNext]_<<vars, cvars>> PROVE [Next]_vars
  OBVIOUS
<1>1. CASE UNCHANGED <<vars, cvars>>
  BY <1>1
<1>2. CASE Reload
  BY <1>2 DEF Reload
<1>3. ASSUME NEW h \in Handlers, AnswerLost(h) PROVE [Next]_vars
  BY <1>3 DEF AnswerLost
<1>4. ASSUME NEW h \in Handlers, Serve(h) \/ Answered(h) \/ RequestLost(h) \/ Unread(h)
      PROVE  Next
  BY <1>4 DEF Serve, Answered, RequestLost, Unread, Next
<1>5. ASSUME NEW h \in Handlers, CoupleActs(h) PROVE Next
  <2>1. PICK q, what : Sends(h, q, what)
    BY <1>5, CoupleSends
  <2>2. q \in Requests /\ Arrive(h, q)
    BY <2>1 DEF Sends, Start
  <2> QED
    BY <2>2 DEF Next
<1> QED
  BY <1>1, <1>2, <1>3, <1>4, <1>5, CanvasSteps

----------------------------------------------------------------------------
(* Types *)

LEMMA WaitingFields ==
  ASSUME CanvasType, NEW h \in Handlers
  PROVE  /\ WaitingOn(h) => ops[h].q \in Requests
         /\ WaitingOn(h) => TablesBefore(h) \in [Tables -> {Hidden} \cup ShownTable]
         /\ WaitingOn(h) => ListBefore(h) \in SUBSET Chip
         /\ NoOp # Abandoned
         /\ WaitingOn(h) => ops[h] \in Waiting
         /\ ops[h] = NoOp => ~WaitingOn(h)
         /\ ops[h] = Abandoned => ~WaitingOn(h)
<1>1. NoOp # Abandoned
  <2>1. NoOp.restores = "idle" /\ Abandoned.restores = "abandoned"
    BY DEF NoOp, Abandoned
  <2> QED
    BY <2>1
<1>2. WaitingOn(h) => ops[h] \in Waiting
  BY DEF WaitingOn, CanvasType
<1>3. ASSUME ops[h] \in Waiting
      PROVE  /\ ops[h].q \in Requests
             /\ TablesBefore(h) \in [Tables -> {Hidden} \cup ShownTable]
             /\ ListBefore(h) \in SUBSET Chip
  <2>1. CASE ops[h] \in [restores : {"nothing"}, q : Requests]
    <3>1. ops[h].restores = "nothing" /\ ops[h].q \in Requests
      BY <2>1
    <3> QED
      BY <3>1 DEF TablesBefore, ListBefore, CanvasType, CanvasTyped
  <2>2. CASE ops[h] \in [restores : {"tables"}, q : Requests,
                         tables : [Tables -> {Hidden} \cup ShownTable]]
    <3>1. /\ ops[h].restores = "tables" /\ ops[h].q \in Requests
          /\ ops[h].tables \in [Tables -> {Hidden} \cup ShownTable]
      BY <2>2
    <3> QED
      BY <3>1 DEF TablesBefore, ListBefore, CanvasType, CanvasTyped
  <2>3. CASE ops[h] \in [restores : {"both"}, q : Requests,
                         tables : [Tables -> {Hidden} \cup ShownTable],
                         unassigned : SUBSET Chip]
    <3>1. /\ ops[h].restores = "both" /\ ops[h].q \in Requests
          /\ ops[h].tables \in [Tables -> {Hidden} \cup ShownTable]
          /\ ops[h].unassigned \in SUBSET Chip
      BY <2>3
    <3> QED
      BY <3>1 DEF TablesBefore, ListBefore
  <2> QED
    BY <1>3, <2>1, <2>2, <2>3 DEF Waiting
<1> QED
  BY <1>1, <1>2, <1>3 DEF WaitingOn

LEMMA KeepingType ==
  ASSUME CanvasTyped, NEW q \in Requests, NEW what \in {"nothing", "tables", "both"}
  PROVE  /\ Keeping(q, what) \in Waiting /\ Keeping(q, what) \notin {NoOp, Abandoned}
         /\ Keeping(q, what).q = q /\ Keeping(q, what).restores = what
         /\ what # "nothing" => Keeping(q, what).tables = shown
         /\ what = "both" => Keeping(q, what).unassigned = unassigned
<1>1. CASE what = "nothing"
  <2>1. PICK k : k = [restores |-> "nothing", q |-> q]
    OBVIOUS
  <2>2. Keeping(q, what) = k
    BY <1>1, <2>1 DEF Keeping
  <2>3. k \in Waiting /\ k.q = q /\ k.restores = what
    BY <1>1, <2>1 DEF Waiting
  <2>4. k # NoOp /\ k # Abandoned
    BY <2>1 DEF NoOp, Abandoned
  <2> QED
    BY <1>1, <2>2, <2>3, <2>4
<1>2. CASE what = "tables"
  <2>1. PICK k : k = [restores |-> "tables", q |-> q, tables |-> shown]
    OBVIOUS
  <2>2. Keeping(q, what) = k
    BY <1>2, <2>1 DEF Keeping
  <2>3. k \in Waiting /\ k.q = q /\ k.restores = what /\ k.tables = shown
    BY <1>2, <2>1 DEF Waiting, CanvasTyped
  <2>4. k # NoOp /\ k # Abandoned
    BY <2>1 DEF NoOp, Abandoned
  <2> QED
    BY <1>2, <2>2, <2>3, <2>4
<1>3. CASE what = "both"
  <2>1. PICK k : k = [restores |-> "both", q |-> q, tables |-> shown, unassigned |-> unassigned]
    OBVIOUS
  <2>2. Keeping(q, what) = k
    BY <1>3, <2>1 DEF Keeping
  <2>3. /\ k \in Waiting /\ k.q = q /\ k.restores = what
        /\ k.tables = shown /\ k.unassigned = unassigned
    BY <1>3, <2>1 DEF Waiting, CanvasTyped
  <2>4. k # NoOp /\ k # Abandoned
    BY <2>1 DEF NoOp, Abandoned
  <2> QED
    BY <1>3, <2>2, <2>3, <2>4
<1> QED
  BY <1>1, <1>2, <1>3

LEMMA ConfirmedType ==
  ASSUME CanvasTyped, NEW q \in Requests
  PROVE  Confirmed(q) \in [Tables -> {Hidden} \cup ShownTable]
<1>0. shown \in [Tables -> {Hidden} \cup ShownTable]
  BY DEF CanvasTyped
<1>1. CASE q.op = "createTable"
  <2>1. q.table \in Tables /\ ShownAs(FirstCap, FirstPlace, {}) \in ShownTable
    BY <1>1, RequestFields, ShownAsType, SeatingAssumption
  <2> QED
    BY <1>0, <1>1, <2>1 DEF Confirmed
<1>2. CASE q.op = "resize" /\ shown[q.table].on
  <2>1. q.table \in Tables /\ q.cap \in Caps
    BY <1>2, RequestFields
  <2>2. PICK sh : sh = ShownAs(q.cap, shown[q.table].place, shown[q.table].chips)
    OBVIOUS
  <2>3. sh \in ShownTable /\ [shown[q.table] EXCEPT !.cap = q.cap] = sh
    BY <1>2, <2>1, <2>2, ShownFields, ShownAsType
  <2>4. Confirmed(q) = [shown EXCEPT ![q.table] = sh]
    BY <1>0, <1>2, <2>1, <2>3 DEF Confirmed
  <2> QED
    BY <1>0, <2>1, <2>3, <2>4
<1>3. CASE q.op = "move" /\ shown[q.table].on
  <2>1. q.table \in Tables /\ q.place \in Places
    BY <1>3, RequestFields
  <2>2. PICK sh : sh = ShownAs(shown[q.table].cap, q.place, shown[q.table].chips)
    OBVIOUS
  <2>3. sh \in ShownTable /\ [shown[q.table] EXCEPT !.place = q.place] = sh
    BY <1>3, <2>1, <2>2, ShownFields, ShownAsType
  <2>4. Confirmed(q) = [shown EXCEPT ![q.table] = sh]
    BY <1>0, <1>3, <2>1, <2>3 DEF Confirmed
  <2> QED
    BY <1>0, <2>1, <2>3, <2>4
<1>4. CASE /\ q.op # "createTable"
           /\ ~(q.op = "resize" /\ shown[q.table].on)
           /\ ~(q.op = "move" /\ shown[q.table].on)
  BY <1>0, <1>4 DEF Confirmed
<1> QED
  BY <1>1, <1>2, <1>3, <1>4

\* What a rollback leaves.
LEMMA RolledBack ==
  ASSUME NEW h, Rollback(h)
  PROVE  shown' = TablesBefore(h) /\ unassigned' = ListBefore(h)
  BY DEF Rollback, TablesBefore, ListBefore

\* A load of the page shows the rows.
LEMMA Reloaded ==
  ASSUME Reload
  PROVE  Depicts(shown', unassigned', tables, guests)
  BY DEF Reload, Depicts, Drawn

LEMMA CanvasTypeNext == Inv /\ Born /\ CanvasType /\ [CNext]_<<vars, cvars>> => CanvasType'
<1> SUFFICES ASSUME Inv, Born, CanvasType, [CNext]_<<vars, cvars>> PROVE CanvasType'
  OBVIOUS
<1>0. /\ CanvasTyped /\ ops \in [Handlers -> {NoOp, Abandoned} \cup Waiting]
      /\ faulted \in BOOLEAN
  BY DEF CanvasType
<1>1. CASE UNCHANGED <<vars, cvars>>
  BY <1>0, <1>1 DEF CanvasType, CanvasTyped, cvars
<1>2. CASE Reload
  <2>1. Consistent(tables, guests)
    BY DEF Inv, RowsInv, RowsType, SeatedAtLiveTables, Born, Consistent
  <2>2. Sound(shown', unassigned')
    BY <1>2, <2>1, Reloaded, Zenon DEF Sound
  <2>3. shown' \in [Tables -> {Hidden} \cup ShownTable] /\ unassigned' \in SUBSET Chip
    BY <2>2, SoundType
  <2> QED
    BY <1>0, <1>2, <2>3 DEF Reload, CanvasType, CanvasTyped
<1>3. ASSUME NEW h \in Handlers, Serve(h) PROVE CanvasType'
  BY <1>0, <1>3 DEF Serve, CanvasType, CanvasTyped
<1>4. ASSUME NEW h \in Handlers, Answered(h) PROVE CanvasType'
  <2>1. WaitingOn(h) /\ ops' = [ops EXCEPT ![h] = NoOp] /\ UNCHANGED faulted
    BY <1>4 DEF Answered
  <2>2. Confirm(ops[h].q) \/ Rollback(h)
    BY <1>4 DEF Answered
  <2>3. CanvasTyped'
    BY <1>0, <2>1, <2>2, WaitingFields, ConfirmedType, RolledBack DEF Confirm, CanvasTyped
  <2> QED
    BY <1>0, <2>1, <2>3 DEF CanvasType
<1>5. ASSUME NEW h \in Handlers, RequestLost(h) PROVE CanvasType'
  <2>1. WaitingOn(h) /\ Rollback(h) /\ ops' = [ops EXCEPT ![h] = NoOp] /\ UNCHANGED faulted
    BY <1>5 DEF RequestLost
  <2>2. CanvasTyped'
    BY <2>1, WaitingFields, RolledBack DEF CanvasTyped
  <2> QED
    BY <1>0, <2>1, <2>2 DEF CanvasType
<1>6. ASSUME NEW h \in Handlers, AnswerLost(h) PROVE CanvasType'
  <2>1. WaitingOn(h) /\ Rollback(h) /\ ops' = [ops EXCEPT ![h] = Abandoned] /\ faulted'
    BY <1>6 DEF AnswerLost
  <2>2. CanvasTyped'
    BY <2>1, WaitingFields, RolledBack DEF CanvasTyped
  <2>3. faulted' \in BOOLEAN
    BY <1>6 DEF AnswerLost
  <2> QED
    BY <1>0, <2>1, <2>2, <2>3 DEF CanvasType
<1>7. ASSUME NEW h \in Handlers, Unread(h) PROVE CanvasType'
  BY <1>0, <1>7 DEF Unread, CanvasType, CanvasTyped
<1>8. ASSUME NEW h \in Handlers, CoupleActs(h) PROVE CanvasType'
  <2>1. PICK q, what : Sends(h, q, what)
    BY <1>0, <1>8, CoupleSends
  <2>2. /\ q \in Requests /\ what \in {"nothing", "tables", "both"} /\ CanvasTyped'
        /\ ops' = [ops EXCEPT ![h] = Keeping(q, what)] /\ UNCHANGED faulted
    BY <2>1 DEF Sends, Start
  <2>3. Keeping(q, what) \in Waiting
    BY <1>0, <2>2, KeepingType
  <2> QED
    BY <1>0, <2>2, <2>3 DEF CanvasType
<1> QED
  BY <1>1, <1>2, <1>3, <1>4, <1>5, <1>6, <1>7, <1>8, CanvasSteps

----------------------------------------------------------------------------
(* One function at a time *)

OneAtATime == \A h, k \in Handlers : h = k

LEMMA RowsConsistent ==
  ASSUME Inv, Born
  PROVE  Consistent(tables, guests)
  BY DEF Inv, RowsInv, RowsType, SeatedAtLiveTables, Born, Consistent

\* A write of the couple's does to the rows what was wanted.
LEMMA AppliedIs ==
  ASSUME NEW q, q.op \in CanvasOps, Apply(q)
  PROVE  tables' = TablesAfter(q) /\ guests' = GuestsAfter(q)
<1> USE DEF CanvasOps
<1>1. CASE q.op = "createTable" /\ CreateTable(q)
  BY <1>1 DEF CreateTable, TablesAfter, GuestsAfter
<1>2. CASE q.op = "resize" /\ Resize(q)
  BY <1>2 DEF Resize, TablesAfter, GuestsAfter
<1>3. CASE q.op = "move" /\ Move(q)
  BY <1>3 DEF Move, TablesAfter, GuestsAfter
<1>4. CASE q.op = "assign" /\ Assign(q)
  BY <1>4 DEF Assign, TablesAfter, GuestsAfter
<1>5. CASE q.op = "unseat" /\ Unseat(q)
  BY <1>5 DEF Unseat, TablesAfter, GuestsAfter
<1>6. CASE q.op = "patchGuest" /\ PatchGuest(q)
  BY <1>6 DEF PatchGuest, TablesAfter, GuestsAfter
<1> QED
  BY <1>1, <1>2, <1>3, <1>4, <1>5, <1>6 DEF Apply

\* Freeing the guests of a table twice frees them once.
LEMMA FreedTwice ==
  ASSUME NEW t \in Tables, guests \in [Guests -> Guest], guests' = Released(t)
  PROVE  Released(t)' = guests'
<1> USE SeatingAssumption DEF Rows
<1>1. PICK rows : rows = guests'
  OBVIOUS
<1>2. ASSUME NEW g \in Guests PROVE rows[g].table # t
  <2>1. rows[g] = IF guests[g].table = t THEN [guests[g] EXCEPT !.table = Null] ELSE guests[g]
    BY <1>1 DEF Released
  <2>2. guests[g] \in Guest
    OBVIOUS
  <2>3. [guests[g] EXCEPT !.table = Null].table = Null
    BY <2>2 DEF Guest
  <2> QED
    BY <2>1, <2>3
<1>3. Released(t)' = [g \in Guests |-> IF rows[g].table = t THEN [rows[g] EXCEPT !.table = Null]
                                                        ELSE rows[g]]
  BY <1>1 DEF Released
<1>4. rows = [g \in Guests |-> rows[g]]
  BY <1>1 DEF Released
<1> QED
  BY <1>1, <1>2, <1>3, <1>4

\* What the server can do to the request of a function that waits.
Moves(h, q) ==
  \/ /\ hand[h].pc = "check" /\ hand'[h] = [pc |-> "write", q |-> q]
     /\ UNCHANGED <<tables, guests, faulted>>
  \/ /\ hand[h].pc \in {"check", "write"} /\ hand'[h] = [pc |-> "done", ok |-> FALSE]
     /\ UNCHANGED <<tables, guests, faulted>>
  \/ /\ hand[h].pc \in {"write", "remove"} /\ hand'[h] = [pc |-> "done", ok |-> TRUE]
     /\ tables' = TablesAfter(q) /\ guests' = GuestsAfter(q) /\ UNCHANGED faulted
  \/ /\ hand[h].pc = "write" /\ hand'[h] = [pc |-> "remove", q |-> q]
     /\ q.op = "deleteTable" /\ guests' = Released(q.table)
     /\ UNCHANGED <<tables, faulted>>
  \/ /\ hand[h].pc = "remove" /\ hand'[h] = [pc |-> "done", ok |-> FALSE]
     /\ UNCHANGED <<tables, guests>> /\ faulted'

LEMMA ServeMoves ==
  ASSUME Inv, NEW h \in Handlers, Serve(h), NEW q, q.op \in CanvasOps, faulted \in BOOLEAN,
         hand[h].pc \in {"check", "write", "remove"} => hand[h].q = q
  PROVE  Moves(h, q)
<1>0. /\ hand \in [Handlers -> {Idle} \cup Handler]
      /\ faulted' = (faulted \/ (hand[h].pc = "remove" /\ ~hand'[h].ok))
      /\ hand[h].pc # "remove" => UNCHANGED faulted
  BY DEF Serve, Inv
<1>1. ASSUME NEW ok \in BOOLEAN, Answer(h, ok)
      PROVE  hand'[h] = [pc |-> "done", ok |-> ok] /\ hand'[h].ok = ok
  BY <1>0, <1>1 DEF Answer
<1>2. CASE Check(h)
  <2>1. hand[h].pc = "check" /\ hand[h].q = q /\ UNCHANGED <<tables, guests, faulted>>
    BY <1>0, <1>2 DEF Check
  <2>2. CASE Answer(h, FALSE)
    BY <1>1, <2>1, <2>2 DEF Moves
  <2>3. CASE hand' = [hand EXCEPT ![h].pc = "write"]
    <3>1. [hand[h] EXCEPT !.pc = "write"] = [pc |-> "write", q |-> q]
      BY <1>0, <2>1, HandlerFields
    <3>2. hand'[h] = [pc |-> "write", q |-> q]
      BY <1>0, <2>3, <3>1
    <3> QED
      BY <2>1, <3>2 DEF Moves
  <2> QED
    BY <1>2, <2>2, <2>3 DEF Check
<1>3. CASE Write(h)
  <2>1. hand[h].pc = "write" /\ hand[h].q = q /\ UNCHANGED faulted
    BY <1>0, <1>3 DEF Write
  <2>2. CASE Apply(q) /\ Answer(h, TRUE)
    BY <1>1, <2>1, <2>2, AppliedIs DEF Moves
  <2>3. CASE Answer(h, FALSE) /\ UNCHANGED <<tables, guests, decos>>
    BY <1>1, <2>1, <2>3 DEF Moves
  <2> QED
    BY <1>3, <2>1, <2>2, <2>3 DEF Write
<1>4. CASE Fail(h)
  <2>1. /\ hand[h].pc \in {"check", "write", "remove"} /\ Answer(h, FALSE)
        /\ UNCHANGED <<tables, guests>>
    BY <1>4 DEF Fail
  <2>2. hand[h].pc = "remove" => faulted'
    BY <1>0, <1>1, <2>1
  <2> QED
    BY <1>0, <1>1, <2>1, <2>2 DEF Moves
<1>5. CASE ReleaseGuests(h)
  <2>1. /\ hand[h].pc = "write" /\ hand[h].q = q /\ q.op = "deleteTable"
        /\ guests' = Released(q.table) /\ hand' = [hand EXCEPT ![h].pc = "remove"]
        /\ UNCHANGED <<tables, faulted>>
    BY <1>0, <1>5 DEF ReleaseGuests
  <2>2. [hand[h] EXCEPT !.pc = "remove"] = [pc |-> "remove", q |-> q]
    BY <1>0, <2>1, HandlerFields
  <2>3. hand'[h] = [pc |-> "remove", q |-> q]
    BY <1>0, <2>1, <2>2
  <2> QED
    BY <2>1, <2>3 DEF Moves
<1>6. CASE RemoveTable(h)
  <2>1. hand[h].pc = "remove" /\ hand[h].q = q
    BY <1>6 DEF RemoveTable
  <2>2. q.op = "deleteTable"
    BY <1>0, <2>1, HandlerFields
  <2>3. CASE /\ tables' = [tables EXCEPT ![q.table].live = FALSE]
             /\ guests' = SetNull(q.table) /\ Answer(h, TRUE)
    <3>1. tables' = TablesAfter(q) /\ guests' = GuestsAfter(q)
      BY <2>2, <2>3 DEF TablesAfter, GuestsAfter, SetNull
    <3>2. hand'[h] = [pc |-> "done", ok |-> TRUE] /\ UNCHANGED faulted
      BY <1>0, <1>1, <2>3
    <3> QED
      BY <2>1, <3>1, <3>2 DEF Moves
  <2>4. CASE Answer(h, FALSE) /\ UNCHANGED <<tables, guests>>
    <3>1. hand'[h] = [pc |-> "done", ok |-> FALSE] /\ faulted'
      BY <1>0, <1>1, <2>1, <2>4
    <3> QED
      BY <2>1, <2>4, <3>1 DEF Moves
  <2> QED
    BY <1>6, <2>1, <2>3, <2>4 DEF RemoveTable
<1> QED
  BY <1>2, <1>3, <1>4, <1>5, <1>6 DEF Serve, ServerStep

\* While the canvas stands still, the rows may do what was wanted.
LEMMA ServeKnows ==
  ASSUME Inv, CanvasInv, NEW h \in Handlers, Serve(h)
  PROVE  Knows(h)'
<1>0. /\ UNCHANGED <<shown, unassigned, ops>> /\ ServerStep(h)
      /\ faulted' = (faulted \/ (hand[h].pc = "remove" /\ ~hand'[h].ok))
  BY DEF Serve
<1>1. Knows(h) /\ CanvasType /\ guests \in [Guests -> Guest] /\ faulted \in BOOLEAN
  BY DEF CanvasInv, CanvasType, Inv, RowsInv, RowsType
<1>2. hand[h].pc \in {"check", "write", "remove"}
  BY <1>0 DEF ServerStep, Check, Write, Fail, ReleaseGuests, RemoveTable
<1>3. hand[h] # Idle
  BY <1>2 DEF Idle
<1>4. CASE ops[h] = Abandoned
  <2>1. hand \in [Handlers -> {Idle} \cup Handler]
    BY DEF Inv
  <2>2. hand'[h].pc \in {"write", "remove", "done"}
    <3>1. CASE \E ok \in BOOLEAN : Answer(h, ok)
      BY <2>1, <3>1 DEF Answer
    <3>2. CASE \E to \in {"write", "remove"} : hand' = [hand EXCEPT ![h].pc = to]
      <4>1. PICK to \in {"write", "remove"} : hand' = [hand EXCEPT ![h].pc = to]
        BY <3>2
      <4>2. "pc" \in DOMAIN hand[h]
        BY <2>1 DEF Idle, Handler
      <4> QED
        BY <2>1, <4>1, <4>2
    <3> QED
      BY <1>0, <3>1, <3>2
         DEF ServerStep, Check, Write, Fail, ReleaseGuests, RemoveTable
  <2>3. hand'[h] # Idle
    BY <2>2 DEF Idle
  <2>4. faulted'
    BY <1>0, <1>1, <1>4 DEF Knows
  <2>5. ops'[h] = Abandoned /\ ops'[h] # NoOp
    BY <1>0, <1>1, <1>4, WaitingFields
  <2> QED
    BY <2>3, <2>4, <2>5 DEF Knows, WaitingOn
<1>5. CASE WaitingOn(h)
  <2>1. PICK q : q = ops[h].q
    OBVIOUS
  <2>2. /\ q \in Requests /\ q.op \in CanvasOps
        /\ hand[h].q = q /\ ~faulted /\ AsWanted(q)
        /\ hand[h].pc \in {"check", "write"} => AsBefore(h)
        /\ Sound(TablesBefore(h), ListBefore(h))
    BY <1>1, <1>2, <1>5, <2>1, WaitingFields DEF Knows, Awaits
  <2>3. Moves(h, q)
    BY <1>1, <2>2, ServeMoves
  <2>4. /\ TablesBefore(h)' = TablesBefore(h) /\ ListBefore(h)' = ListBefore(h)
        /\ Confirmed(q)' = Confirmed(q)
    BY <1>0 DEF TablesBefore, ListBefore, Confirmed
  <2>5. Sound(TablesBefore(h), ListBefore(h))'
    BY <2>2, <2>4 DEF Sound
  <2>6. ops'[h].q = q /\ WaitingOn(h)' /\ ops'[h] # NoOp /\ ops'[h] # Abandoned
    BY <1>0, <1>1, <1>5, <2>1 DEF WaitingOn
  <2>7. UNCHANGED <<tables, guests>> => /\ AsBefore(h) => AsBefore(h)'
                                        /\ AsWanted(q)'
    <3>1. SUFFICES ASSUME UNCHANGED <<tables, guests>>
                   PROVE  (AsBefore(h) => AsBefore(h)') /\ AsWanted(q)'
      OBVIOUS
    <3>2. AsBefore(h) => AsBefore(h)'
      BY <2>4, <3>1 DEF AsBefore
    <3>3. AsWanted(q)'
      BY <1>0, <2>2, <2>4, <3>1, AfterKept DEF AsWanted
    <3> QED
      BY <3>2, <3>3
  <2>8. Awaits(h, q)' /\ hand'[h] # Idle
    <3>1. CASE /\ hand[h].pc = "check" /\ hand'[h] = [pc |-> "write", q |-> q]
               /\ UNCHANGED <<tables, guests, faulted>>
      <4>1. hand'[h].pc = "write" /\ hand'[h].q = q
        BY <3>1
      <4> QED
        BY <2>2, <2>7, <3>1, <4>1 DEF Awaits, Idle
    <3>2. CASE /\ hand[h].pc \in {"check", "write"} /\ hand'[h] = [pc |-> "done", ok |-> FALSE]
               /\ UNCHANGED <<tables, guests, faulted>>
      <4>1. hand'[h].pc = "done" /\ hand'[h].ok = FALSE
        BY <3>2
      <4> QED
        BY <2>2, <2>7, <3>2, <4>1 DEF Awaits, Idle
    <3>3. CASE /\ hand[h].pc \in {"write", "remove"} /\ hand'[h] = [pc |-> "done", ok |-> TRUE]
               /\ tables' = TablesAfter(q) /\ guests' = GuestsAfter(q) /\ UNCHANGED faulted
      <4>1. hand'[h].pc = "done" /\ hand'[h].ok = TRUE
        BY <3>3
      <4>2. Depicts(Confirmed(q), unassigned, tables, guests)'
        BY <1>0, <2>2, <2>4, <3>3 DEF AsWanted
      <4> QED
        BY <2>2, <3>3, <4>1, <4>2 DEF Awaits, Idle
    <3>4. CASE /\ hand[h].pc = "write" /\ hand'[h] = [pc |-> "remove", q |-> q]
               /\ q.op = "deleteTable" /\ guests' = Released(q.table)
               /\ UNCHANGED <<tables, faulted>>
      <4>1. hand'[h].pc = "remove" /\ hand'[h].q = q
        BY <3>4
      <4>2. q.table \in Tables
        BY <2>2, <3>4, RequestFields
      <4>3. GuestsAfter(q) = Released(q.table) /\ GuestsAfter(q)' = Released(q.table)'
        BY <3>4 DEF GuestsAfter
      <4>4. Released(q.table)' = guests'
        BY <1>1, <3>4, <4>2, FreedTwice
      <4>5. TablesAfter(q)' = TablesAfter(q)
        BY <3>4 DEF TablesAfter
      <4>6. AsWanted(q)'
        BY <1>0, <2>2, <2>4, <3>4, <4>3, <4>4, <4>5 DEF AsWanted
      <4> QED
        BY <2>2, <3>4, <4>1, <4>6 DEF Awaits, Idle
    <3>5. CASE /\ hand[h].pc = "remove" /\ hand'[h] = [pc |-> "done", ok |-> FALSE]
               /\ UNCHANGED <<tables, guests>> /\ faulted'
      <4>1. hand'[h].pc = "done" /\ hand'[h].ok = FALSE
        BY <3>5
      <4> QED
        BY <2>2, <3>5, <4>1 DEF Awaits, Idle
    <3> QED
      BY <2>3, <3>1, <3>2, <3>3, <3>4, <3>5 DEF Moves
  <2>9. Awaits(h, ops[h].q)'
    BY <2>6, <2>8 DEF Awaits, AsWanted
  <2> QED
    BY <2>5, <2>6, <2>8, <2>9 DEF Knows
<1> QED
  BY <1>1, <1>3, <1>4, <1>5 DEF Knows, WaitingOn

\* A canvas that was loaded, rolled back or confirmed, with nothing in flight.
LEMMA Rest ==
  ASSUME OneAtATime, Inv', Born', CanvasType', NEW h \in Handlers,
         hand'[h] = Idle, ops'[h] = NoOp,
         Sound(shown, unassigned)',
         ~faulted' => Depicts(shown, unassigned, tables, guests)'
  PROVE  CanvasInv'
<1>1. \A k \in Handlers : k = h
  BY DEF OneAtATime
<1>2. Knows(h)'
  <2>1. NoOp # Abandoned
    <3>1. NoOp.restores = "idle" /\ Abandoned.restores = "abandoned"
      BY DEF NoOp, Abandoned
    <3> QED
      BY <3>1
  <2> QED
    BY <2>1 DEF Knows, WaitingOn
<1> QED
  BY <1>1, <1>2 DEF CanvasInv

\* A canvas that waits or has given up.
LEMMA Unrest ==
  ASSUME OneAtATime, Born', CanvasType', NEW h \in Handlers,
         ops'[h] # NoOp, Sound(shown, unassigned)', Knows(h)'
  PROVE  CanvasInv'
<1>1. \A k \in Handlers : k = h
  BY DEF OneAtATime
<1> QED
  BY <1>1 DEF CanvasInv

LEMMA CanvasInvNext ==
  ASSUME OneAtATime
  PROVE  Inv /\ CanvasInv /\ [CNext]_<<vars, cvars>> => CanvasInv'
<1> SUFFICES ASSUME Inv, CanvasInv, [CNext]_<<vars, cvars>> PROVE CanvasInv'
  OBVIOUS
<1>0. /\ CanvasType /\ CanvasTyped /\ Born /\ Sound(shown, unassigned)
      /\ ops \in [Handlers -> {NoOp, Abandoned} \cup Waiting] /\ faulted \in BOOLEAN
      /\ hand \in [Handlers -> {Idle} \cup Handler]
  BY DEF CanvasInv, CanvasType, Inv
<1>1. Inv' /\ Born' /\ CanvasType'
  BY <1>0, CanvasClient, InvNext, BornNext, CanvasTypeNext
<1>2. Consistent(tables, guests) /\ Consistent(tables', guests')
  <2>1. Consistent(tables, guests)'
    BY <1>1 DEF Inv, RowsInv, RowsType, SeatedAtLiveTables, Born, Consistent
  <2> QED
    BY <1>0, <2>1, RowsConsistent
<1>3. CASE UNCHANGED <<vars, cvars>>
  <2>1. /\ UNCHANGED <<tables, guests, decos, hand, shown, unassigned, ops, faulted>>
    BY <1>3 DEF vars, cvars
  <2>2. \A h \in Handlers : Knows(h)'
    <3> SUFFICES ASSUME NEW h \in Handlers PROVE Knows(h)'
      OBVIOUS
    <3>1. Knows(h)
      BY DEF CanvasInv
    <3>2. /\ TablesBefore(h)' = TablesBefore(h) /\ ListBefore(h)' = ListBefore(h)
          /\ WaitingOn(h)' = WaitingOn(h)
      BY <2>1 DEF TablesBefore, ListBefore, WaitingOn
    <3>3. PICK q : q = ops[h].q
      OBVIOUS
    <3>4. Confirmed(q)' = Confirmed(q) /\ TablesAfter(q)' = TablesAfter(q)
          /\ GuestsAfter(q)' = GuestsAfter(q)
      BY <2>1, AfterKept DEF Confirmed
    <3>5. Awaits(h, q) => Awaits(h, q)'
      BY <2>1, <3>2, <3>4 DEF Awaits, AsWanted, AsBefore
    <3>6. WaitingOn(h) => Awaits(h, ops[h].q)'
      BY <2>1, <3>1, <3>3, <3>5 DEF Knows, Awaits, AsWanted
    <3> QED
      BY <2>1, <3>1, <3>2, <3>6 DEF Knows, Sound
  <2> QED
    BY <1>1, <2>1, <2>2 DEF CanvasInv, Sound
<1>4. CASE Reload
  <2>1. \A h \in Handlers : hand[h] = Idle /\ ops[h] = NoOp
    BY <1>4 DEF Reload, CanvasInv, Knows
  <2>2. Depicts(shown', unassigned', tables, guests) /\ UNCHANGED <<vars, ops>>
    BY <1>4, Reloaded DEF Reload
  <2>3. Sound(shown', unassigned')
    BY <1>2, <2>2, Zenon DEF Sound
  <2>4. \A h \in Handlers : Knows(h)'
    BY <2>1, <2>2, WaitingFields, <1>0 DEF Knows, WaitingOn, vars
  <2> QED
    BY <1>1, <2>2, <2>3, <2>4 DEF CanvasInv, Sound, vars
<1>5. ASSUME NEW h \in Handlers, Serve(h) PROVE CanvasInv'
  <2>1. Knows(h)'
    BY <1>5, ServeKnows
  <2>2. hand[h].pc # "idle" /\ UNCHANGED <<shown, unassigned, ops>>
    BY <1>5 DEF Serve, ServerStep, Check, Write, Fail, ReleaseGuests, RemoveTable
  <2>3. ops'[h] # NoOp
    BY <2>2 DEF CanvasInv, Knows, Idle
  <2>4. Sound(shown, unassigned)'
    BY <1>0, <2>2 DEF Sound
  <2> QED
    BY <1>1, <2>1, <2>3, <2>4, Unrest
<1>6. ASSUME NEW h \in Handlers, Answered(h) PROVE CanvasInv'
  <2>1. /\ WaitingOn(h) /\ hand[h].pc = "done" /\ hand' = [hand EXCEPT ![h] = Idle]
        /\ IF hand[h].ok THEN Confirm(ops[h].q) ELSE Rollback(h)
        /\ ops' = [ops EXCEPT ![h] = NoOp] /\ UNCHANGED <<tables, guests, faulted>>
    BY <1>6 DEF Answered, Respond
  <2>2. /\ Sound(TablesBefore(h), ListBefore(h)) /\ Awaits(h, ops[h].q)
    BY <2>1 DEF CanvasInv, Knows
  <2>3. hand'[h] = Idle /\ ops'[h] = NoOp
    BY <1>0, <2>1
  <2>4. CASE hand[h].ok
    <3>1. /\ shown' = Confirmed(ops[h].q) /\ unassigned' = unassigned
          /\ Depicts(Confirmed(ops[h].q), unassigned, tables, guests)
      BY <2>1, <2>2, <2>4 DEF Confirm, Awaits
    <3>2. Depicts(shown', unassigned', tables, guests)
      BY <3>1
    <3>3. Sound(shown', unassigned')
      BY <1>2, <3>2, Zenon DEF Sound
    <3>4. Sound(shown, unassigned)' /\ Depicts(shown, unassigned, tables, guests)'
      BY <2>1, <3>2, <3>3 DEF Sound
    <3> QED
      BY <1>1, <2>3, <3>4, Rest
  <2>5. CASE ~hand[h].ok
    <3>1. shown' = TablesBefore(h) /\ unassigned' = ListBefore(h)
      BY <2>1, <2>5, RolledBack
    <3>2. Sound(shown, unassigned)'
      BY <2>2, <3>1 DEF Sound
    <3>3. ~faulted' => Depicts(shown, unassigned, tables, guests)'
      BY <2>1, <2>2, <2>5, <3>1 DEF Awaits, AsBefore
    <3> QED
      BY <1>1, <2>3, <3>2, <3>3, Rest
  <2> QED
    BY <2>4, <2>5
<1>7. ASSUME NEW h \in Handlers, RequestLost(h) PROVE CanvasInv'
  <2>1. /\ WaitingOn(h) /\ hand[h].pc = "check" /\ hand' = [hand EXCEPT ![h] = Idle]
        /\ Rollback(h)
        /\ ops' = [ops EXCEPT ![h] = NoOp] /\ UNCHANGED <<tables, guests, faulted>>
    BY <1>7 DEF RequestLost, Drop
  <2>2. /\ Sound(TablesBefore(h), ListBefore(h)) /\ AsBefore(h)
    BY <2>1 DEF CanvasInv, Knows, Awaits
  <2>3. hand'[h] = Idle /\ ops'[h] = NoOp
    BY <1>0, <2>1
  <2>4. shown' = TablesBefore(h) /\ unassigned' = ListBefore(h)
    BY <2>1, RolledBack
  <2>5. Sound(shown, unassigned)' /\ Depicts(shown, unassigned, tables, guests)'
    BY <2>1, <2>2, <2>4 DEF Sound, AsBefore
  <2> QED
    BY <1>1, <2>3, <2>5, Rest
<1>8. ASSUME NEW h \in Handlers, AnswerLost(h) PROVE CanvasInv'
  <2>1. /\ WaitingOn(h) /\ Rollback(h) /\ faulted' /\ UNCHANGED hand
        /\ ops' = [ops EXCEPT ![h] = Abandoned]
    BY <1>8 DEF AnswerLost, vars
  <2>2. Sound(TablesBefore(h), ListBefore(h)) /\ hand[h] # Idle
    BY <2>1 DEF CanvasInv, Knows, WaitingOn
  <2>3. shown' = TablesBefore(h) /\ unassigned' = ListBefore(h)
    BY <2>1, RolledBack
  <2>4. ops'[h] = Abandoned /\ NoOp # Abandoned
    BY <1>0, <2>1, WaitingFields
  <2>5. Knows(h)'
    BY <2>1, <2>2, <2>4 DEF Knows, WaitingOn
  <2>6. Sound(shown, unassigned)'
    BY <2>2, <2>3 DEF Sound
  <2> QED
    BY <1>1, <2>4, <2>5, <2>6, Unrest
<1>9. ASSUME NEW h \in Handlers, Unread(h) PROVE CanvasInv'
  <2>1. /\ ops[h] = Abandoned /\ hand' = [hand EXCEPT ![h] = Idle]
        /\ ops' = [ops EXCEPT ![h] = NoOp] /\ UNCHANGED <<shown, unassigned, faulted>>
    BY <1>9 DEF Unread, Respond
  <2>2. faulted'
    BY <2>1 DEF CanvasInv, Knows
  <2>3. hand'[h] = Idle /\ ops'[h] = NoOp
    BY <1>0, <2>1
  <2>4. Sound(shown, unassigned)'
    BY <1>0, <2>1 DEF Sound
  <2> QED
    BY <1>1, <2>2, <2>3, <2>4, Rest
<1>10. ASSUME NEW h \in Handlers, CoupleActs(h) PROVE CanvasInv'
  <2>1. PICK q, what : Sends(h, q, what)
    BY <1>0, <1>10, CoupleSends
  <2>2. /\ q \in Requests /\ q.op \in CanvasOps /\ what \in {"nothing", "tables", "both"}
        /\ what # "both" => UNCHANGED unassigned
        /\ what = "nothing" => UNCHANGED shown
        /\ Agrees => AsWanted(q)' /\ Sound(shown, unassigned)'
    BY <2>1 DEF Sends
  <2>3. /\ ops[h] = NoOp /\ ~faulted /\ hand' = [hand EXCEPT ![h] = [pc |-> "check", q |-> q]]
        /\ ops' = [ops EXCEPT ![h] = Keeping(q, what)]
        /\ UNCHANGED <<tables, guests, faulted>>
    BY <2>1 DEF Sends, Start, Arrive
  <2>4. \A k \in Handlers : ops[k] = NoOp
    BY <2>3 DEF OneAtATime
  <2>5. Depicts(shown, unassigned, tables, guests) /\ Agrees
    BY <1>2, <2>3, <2>4 DEF CanvasInv, Agrees
  <2>6. PICK keep : keep = Keeping(q, what)
    OBVIOUS
  <2>7. /\ keep \notin {NoOp, Abandoned} /\ keep.q = q /\ keep.restores = what
        /\ what # "nothing" => keep.tables = shown
        /\ what = "both" => keep.unassigned = unassigned
    BY <1>0, <2>2, <2>6, KeepingType
  <2>8. ops'[h] = keep
    BY <1>0, <2>3, <2>6
  <2>9. TablesBefore(h)' = shown /\ ListBefore(h)' = unassigned
    BY <2>2, <2>7, <2>8 DEF TablesBefore, ListBefore
  <2>10. hand'[h].pc = "check" /\ hand'[h].q = q /\ hand'[h] # Idle
    BY <1>0, <2>3 DEF Idle
  <2>11. AsBefore(h)'
    BY <2>3, <2>5, <2>9 DEF AsBefore
  <2>12. Awaits(h, q)'
    BY <2>2, <2>3, <2>5, <2>10, <2>11 DEF Awaits
  <2>13. Awaits(h, ops[h].q)'
    BY <2>7, <2>8, <2>12 DEF Awaits, AsWanted
  <2>14. Sound(TablesBefore(h), ListBefore(h))'
    BY <1>0, <2>9 DEF Sound
  <2>15. Knows(h)'
    BY <2>7, <2>8, <2>10, <2>13, <2>14 DEF Knows
  <2> QED
    BY <1>1, <2>2, <2>5, <2>7, <2>8, <2>15, Unrest
<1> QED
  BY <1>3, <1>4, <1>5, <1>6, <1>7, <1>8, <1>9, <1>10, CanvasSteps

----------------------------------------------------------------------------
(* From the start *)

LEMMA CanvasInit == CInit => CanvasInv
<1> SUFFICES ASSUME CInit PROVE CanvasInv
  OBVIOUS
<1>0. /\ Init /\ shown = [t \in Tables |-> Hidden]
      /\ unassigned = [guest : Guests, seat : {0}]
      /\ ops = [h \in Handlers |-> NoOp] /\ faulted = FALSE
  BY DEF CInit
<1>1. Inv /\ Born
  <2>1. Born
    BY <1>0 DEF Init, Born, NewTable
  <2> QED
    BY <1>0, <2>1, InvInit
<1>2. Consistent(tables, guests)
  BY <1>1, RowsConsistent
<1>3. Depicts(shown, unassigned, tables, guests)
  <2>1. shown = Drawn(tables, guests)
    BY <1>0 DEF Init, NewTable, Drawn
  <2>2. \A g \in Guests : guests[g].table = Null /\ guests[g].seat = 0
    BY <1>0 DEF Init
  <2>3. ASSUME NEW c PROVE c \in unassigned <=> c \in ChipsOf(guests, Null)
    <3>1. c \in unassigned <=> \E g \in Guests : c = [guest |-> g, seat |-> 0]
      BY <1>0
    <3>2. \A g \in Guests : ChipOf(guests, g) = [guest |-> g, seat |-> 0]
      BY <2>2 DEF ChipOf
    <3> QED
      BY <2>2, <3>1, <3>2, ChipsAre
  <2> QED
    BY <2>1, <2>3 DEF Depicts
<1>4. Sound(shown, unassigned)
  BY <1>2, <1>3, Zenon DEF Sound
<1>5. CanvasType
  BY <1>0, <1>4, SoundType DEF CanvasType, CanvasTyped
<1>6. \A h \in Handlers : Knows(h)
  <2>1. \A h \in Handlers : ops[h] = NoOp /\ hand[h] = Idle
    BY <1>0 DEF Init
  <2> QED
    BY <1>5, <2>1, WaitingFields DEF Knows
<1> QED
  BY <1>1, <1>3, <1>4, <1>5, <1>6 DEF CanvasInv

LEMMA CanvasHolds == CSpec => [](Inv /\ Born /\ CanvasType)
<1>1. CInit => Inv /\ Born /\ CanvasType
  BY InvInit, CanvasInit DEF CInit, CanvasInv
<1>2. Inv /\ Born /\ CanvasType /\ [CNext]_<<vars, cvars>> => (Inv /\ Born /\ CanvasType)'
  BY CanvasClient, InvNext, BornNext, CanvasTypeNext DEF CanvasType
<1> QED
  BY <1>1, <1>2, PTL DEF CSpec

LEMMA SerialCanvasHolds ==
  ASSUME OneAtATime
  PROVE  CSpec => [](Inv /\ CanvasInv)
<1>1. CInit => Inv /\ CanvasInv
  BY InvInit, CanvasInit DEF CInit
<1>2. Inv /\ CanvasInv /\ [CNext]_<<vars, cvars>> => (Inv /\ CanvasInv)'
  BY CanvasClient, InvNext, CanvasInvNext DEF CanvasInv, CanvasType
<1> QED
  BY <1>1, <1>2, PTL DEF CSpec

----------------------------------------------------------------------------
(* The theorems about the canvas *)

\* Whatever the couple drags, removes or adds, for any number of functions waiting,
\* and whichever requests and answers are lost, the server sees a behaviour of
\* Seating.
THEOREM CanvasIsAClient == CSpec => Spec
<1>1. CInit => Init
  BY DEF CInit
<1>2. Inv /\ Born /\ CanvasType /\ [CNext]_<<vars, cvars>> => [Next]_vars
  BY CanvasClient DEF CanvasType
<1> QED
  BY <1>1, <1>2, CanvasHolds, PTL DEF CSpec, Spec

\* The canvas, the snapshots its functions closed over, and the rows have their
\* types, for any number of functions waiting.
THEOREM CanvasTypeCorrect == CSpec => []CTypeOK
<1>1. Inv /\ Born /\ CanvasType => CTypeOK
  BY DEF Inv, RowsInv, RowsType, CanvasType, CanvasTyped, CTypeOK, TypeOK
<1> QED
  BY <1>1, CanvasHolds, PTL

\* If the couple waits for each answer, every guest stays on the canvas exactly once:
\* no drop, roll back, lost answer or load of the page loses or doubles one.
THEOREM ShownOnceWhenSerial ==
  ASSUME OneAtATime
  PROVE  CSpec => []ShownOnce
<1>1. CanvasInv => ShownOnce
  <2> SUFFICES ASSUME CanvasInv, NEW g \in Guests PROVE Cardinality(Sightings(g)) = 1
    BY DEF ShownOnce
  <2>1. PICK tb, gs : Consistent(tb, gs) /\ Depicts(shown, unassigned, tb, gs)
    BY DEF CanvasInv, Sound
  <2>2. PICK s : s = [chip |-> ChipOf(gs, g), at |-> gs[g].table]
    OBVIOUS
  <2>3. Sightings(g) = {s}
    BY <2>1, <2>2, SeenOnce
  <2> QED
    BY <2>3, FS_Singleton
<1> QED
  BY <1>1, SerialCanvasHolds, PTL

\* If the couple waits for each answer, the canvas shows what the database holds
\* whenever nothing waits, unless an answer was lost or a deletion broke down half
\* way since the page was loaded.
THEOREM CanvasAgreesWhenSerial ==
  ASSUME OneAtATime
  PROVE  CSpec => []AgreesWithServer
<1>1. Inv /\ CanvasInv => AgreesWithServer
  <2> SUFFICES ASSUME Inv, CanvasInv, ~faulted, \A h \in Handlers : ops[h] = NoOp
               PROVE  /\ \A t \in Tables :
                           /\ shown[t].on = tables[t].live
                           /\ shown[t].on => /\ shown[t].cap = tables[t].cap
                                             /\ shown[t].place = tables[t].place
                      /\ \A g \in Guests : [guest |-> g, seat |-> guests[g].seat]
                                              \in ChipsAt(guests[g].table)
    BY DEF AgreesWithServer
  <2>1. Agrees
    BY RowsConsistent DEF CanvasInv, Agrees
  <2>2. ASSUME NEW t \in Tables
        PROVE  /\ shown[t].on = tables[t].live
               /\ shown[t].on => /\ shown[t].cap = tables[t].cap
                                 /\ shown[t].place = tables[t].place
    <3>1. tables[t].live \in BOOLEAN
      BY DEF Inv, RowsInv, RowsType, Table
    <3>2. shown[t].on \in BOOLEAN
      <4>1. shown[t] \in {Hidden} \cup ShownTable
        BY DEF CanvasInv, CanvasType, CanvasTyped
      <4>2. Hidden.on = FALSE /\ \A sh \in ShownTable : sh.on = TRUE
        BY DEF Hidden, ShownTable
      <4> QED
        BY <4>1, <4>2
    <3> QED
      BY <2>1, <3>1, <3>2, AgreesAt
  <2>3. ASSUME NEW g \in Guests
        PROVE  [guest |-> g, seat |-> guests[g].seat] \in ChipsAt(guests[g].table)
    <3>1. PICK s : s = [chip |-> ChipOf(guests, g), at |-> guests[g].table]
      OBVIOUS
    <3>2. s \in Sightings(g)
      BY <2>1, <3>1, SeenOnce DEF Agrees
    <3>3. s.chip \in ChipsAt(s.at) /\ s.chip = ChipOf(guests, g) /\ s.at = guests[g].table
      BY <3>1, <3>2 DEF Sightings
    <3> QED
      BY <3>3 DEF ChipOf
  <2> QED
    BY <2>2, <2>3
<1> QED
  BY <1>1, SerialCanvasHolds, PTL

\* The two clients of the server keep the plan with it, whatever they show.
THEOREM ClientsKeepThePlan == (LSpec => PlanKept) /\ (CSpec => PlanKept)
BY SeatingImplementsPlan, LayerIsAClient, CanvasIsAClient, PTL
=============================================================================
