-------------------------- MODULE DecorationLayer --------------------------
(***************************************************************************)
(* The decoration view of the planner page (DecorationsPlanner.tsx,        *)
(* DecorationLayer.tsx) on top of the server of module Seating: what is    *)
(* added appears with the answer, what is moved, attached, detached or     *)
(* removed is shown at once and taken back if the answer is an error or    *)
(* never comes.                                                            *)
(*                                                                         *)
(* Other requests (of the seating view of the same page, of the partner,   *)
(* of other weddings) go on in the other slots.  The layer never hears of  *)
(* them, and it keeps its list only while it is on the screen: when the    *)
(* couple switches to the seating view and back, it starts again from what *)
(* the page was loaded with.                                               *)
(***************************************************************************)
EXTENDS Seating

CONSTANTS
  Couple,    \* the wedding of the page
  Others     \* the requests that come from elsewhere

ASSUME LayerAssumption == Couple \in Weddings /\ Others \subseteq Requests

VARIABLES
  page,     \* the tables and decorations the page was loaded with
  cards,    \* state "decorations": the decorations on the layer
  calls,    \* per slot: what the waiting function closed over
  missed    \* bookkeeping: decorations that changed without the layer

lvars == <<page, cards, calls, missed>>

NoCard == [on |-> FALSE]
Card == [on : {TRUE}, table : Tables \cup {Null}, place : Spots]
Cards == [Decos -> {NoCard} \cup Card]

\* "left": the function gave up, or its component is gone.
NoCall == [st |-> "none"]
Left == [st |-> "left"]
Call == [st : {"waiting"}, q : Requests, before : Cards]

Waits(h) == calls[h].st = "waiting"

OnCard(table, place) == [on |-> TRUE, table |-> table, place |-> place]

\* A row as the page reads it.
CardOf(d) == IF OwnedDeco(d, Couple) THEN OnCard(decos[d].table, decos[d].place)
                                     ELSE NoCard

\* Tables that are not on the page have no place there.
PlacesNow == [t \in Tables |-> IF OwnedTable(t, Couple) THEN tables[t].place ELSE Null]
CardsNow == [d \in Decos |-> CardOf(d)]

LInit ==
  /\ Init
  /\ page = [places |-> [t \in Tables |-> Null], cards |-> [d \in Decos |-> NoCard]]
  /\ cards = page.cards
  /\ calls = [h \in Handlers |-> NoCall]
  /\ missed = {}

----------------------------------------------------------------------------
(* What the couple does *)

\* (Bound of the model: the couple waits for the answer before going on.)
Begin(h, q) ==
  /\ calls[h] = NoCall
  /\ \A k \in Handlers : ~Waits(k)
  /\ Arrive(h, q)
  /\ calls' = [calls EXCEPT ![h] = [st |-> "waiting", q |-> q, before |-> cards]]
  /\ UNCHANGED <<page, missed>>

\* addDecoration: the position is where the grid of defaultKindPosition has the
\* next one.
AddDecoration(h, d, p) ==
  /\ Begin(h, [op |-> "createDeco", w |-> Couple, deco |-> d, place |-> p])
  /\ UNCHANGED cards

RemoveDecoration(h, d) ==
  /\ cards[d].on
  /\ cards' = [cards EXCEPT ![d] = NoCard]
  /\ Begin(h, [op |-> "deleteDeco", w |-> Couple, deco |-> d])

\* A drop on the canvas: moveDecoration,
MoveDecoration(h, d, p) ==
  /\ cards[d].on /\ cards[d].table = Null
  /\ cards' = [cards EXCEPT ![d] = OnCard(Null, p)]
  /\ Begin(h, [op |-> "moveDeco", w |-> Couple, deco |-> d, place |-> p])

\* or detachFromTable.
DetachFromTable(h, d, p) ==
  /\ cards[d].on /\ cards[d].table # Null
  /\ cards' = [cards EXCEPT ![d] = OnCard(Null, p)]
  /\ Begin(h, [op |-> "attach", w |-> Couple, deco |-> d, table |-> Null, place |-> p])

\* A drop on a table of the page.
AttachToTable(h, d, t) ==
  /\ cards[d].on
  /\ page.places[t] # Null
  /\ cards' = [cards EXCEPT ![d] = OnCard(t, page.places[t])]
  /\ Begin(h, [op |-> "attach", w |-> Couple, deco |-> d, table |-> t,
               place |-> page.places[t]])

----------------------------------------------------------------------------
(* Answers *)

KeptCards(h) == cards

\* The list a failed function puts back.
Restored(h) == IF calls[h].q.op = "createDeco" THEN cards ELSE calls[h].before

\* What a success still changes on the layer.
Added(q) ==
  IF q.op = "createDeco" THEN [cards EXCEPT ![q.deco] = OnCard(Null, q.place)] ELSE cards

Settle(h) ==
  /\ Waits(h)
  /\ Respond(h)
  /\ cards' = IF hand[h].ok THEN Added(calls[h].q) ELSE Restored(h)
  /\ calls' = [calls EXCEPT ![h] = NoCall]
  /\ UNCHANGED <<page, missed>>

\* fetch throws: the request was lost,
NotSent(h) ==
  /\ Waits(h)
  /\ Drop(h)
  /\ cards' = Restored(h)
  /\ calls' = [calls EXCEPT ![h] = NoCall]
  /\ UNCHANGED <<page, missed>>

Differing(list) == {d \in Decos : list[d] # CardOf(d)}

\* or only its answer was.
NotHeard(h) ==
  /\ "lost" \in Faults
  /\ Waits(h)
  /\ cards' = Restored(h)
  /\ calls' = [calls EXCEPT ![h] = Left]
  /\ missed' = missed \cup Differing(Restored(h))
  /\ UNCHANGED <<vars, page>>

----------------------------------------------------------------------------
(* The page *)

AllLeft == [h \in Handlers |-> IF Waits(h) THEN Left ELSE calls[h]]

\* The page is loaded.  (It reads its tables and its decorations with two queries;
\* the model loads it while the server is quiet, when they cannot disagree.)
LoadPlanner ==
  /\ \A h \in Handlers : hand[h] = Idle
  /\ page' = [places |-> PlacesNow, cards |-> CardsNow]
  /\ cards' = CardsNow
  /\ missed' = {}
  /\ UNCHANGED <<vars, calls>>

\* The couple looks at the seating view and comes back: the component is new, and
\* starts from what the page was loaded with.
SwitchViews ==
  /\ cards' = page.cards
  /\ calls' = AllLeft
  /\ missed' = Differing(page.cards)
  /\ UNCHANGED <<vars, page>>

----------------------------------------------------------------------------
(* The server, and everybody else's requests *)

Work(h) ==
  /\ ServerStep(h)
  /\ missed' = IF Waits(h) THEN missed
                           ELSE missed \cup {d \in Decos : CardOf(d)' # CardOf(d)}
  /\ UNCHANGED <<page, cards, calls>>

Elsewhere(h) ==
  /\ calls[h] = NoCall
  /\ \E q \in Others : Arrive(h, q)
  /\ UNCHANGED lvars

\* The end of a request the layer does not wait for.
EndElsewhere(h) ==
  /\ ~Waits(h)
  /\ Respond(h) \/ Drop(h)
  /\ calls' = [calls EXCEPT ![h] = NoCall]
  /\ UNCHANGED <<page, cards, missed>>

LNext ==
  \/ LoadPlanner
  \/ SwitchViews
  \/ \E h \in Handlers :
       \/ Settle(h) \/ NotSent(h) \/ NotHeard(h)
       \/ Work(h) \/ Elsewhere(h) \/ EndElsewhere(h)
       \/ \E d \in Decos :
            \/ RemoveDecoration(h, d)
            \/ \E p \in Spots : \/ AddDecoration(h, d, p)
                                \/ MoveDecoration(h, d, p)
                                \/ DetachFromTable(h, d, p)
            \/ \E t \in Tables : AttachToTable(h, d, t)

LSpec == LInit /\ [][LNext]_<<vars, lvars>>

----------------------------------------------------------------------------
(* Properties *)

\* Type invariant.
LTypeOK ==
  /\ TypeOK
  /\ page \in [places : [Tables -> Places \cup {Null}], cards : Cards]
  /\ cards \in Cards
  /\ calls \in [Handlers -> {NoCall, Left} \cup Call]
  /\ missed \subseteq Decos

\* When no function waits, every decoration that changed only through this layer
\* since it came on the screen is shown as its row is, table and position, and the
\* decorations of other weddings are not shown.
LayerAgrees ==
  (\A h \in Handlers : ~Waits(h)) =>
    \A d \in Decos \ missed : cards[d] = CardOf(d)
=============================================================================
