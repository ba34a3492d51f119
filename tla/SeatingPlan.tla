---------------------------- MODULE SeatingPlan ----------------------------
(***************************************************************************)
(* What the seating server promises, without requests, reads before writes *)
(* and failures: a room with tables in it, guests who sit at one of them   *)
(* or nowhere, and decorations that may belong to a table.  Every change   *)
(* is one of the steps below, as if nobody else were using the planner,    *)
(* and connects rows of one wedding only.  Seating implements this         *)
(* specification.                                                          *)
(***************************************************************************)
CONSTANTS Tables, Guests, Decos, WeddingOf, Null

VARIABLES
  room, removed,      \* the tables in the room, and those taken away
  seating,            \* where each guest sits, Null for nowhere
  gone,               \* the guests who were deleted
  decor, discarded,   \* the decorations there are, and those thrown away
  attached            \* the table each decoration belongs to, Null for none

vars == <<room, removed, seating, gone, decor, discarded, attached>>

Init ==
  /\ room = {} /\ removed = {} /\ gone = {} /\ decor = {} /\ discarded = {}
  /\ seating = [g \in Guests |-> Null]
  /\ attached = [d \in Decos |-> Null]

Together(r, t) == WeddingOf[r] = WeddingOf[t]

\* The seating once these guests have stood up.
Standing(G) == [g \in Guests |-> IF g \in G THEN Null ELSE seating[g]]

At(t) == {g \in Guests : seating[g] = t}

\* A new table comes with a centerpiece of its own.
PutTable(t, d) ==
  /\ t \notin room \cup removed /\ d \notin decor \cup discarded
  /\ Together(d, t)
  /\ room' = room \cup {t}
  /\ decor' = decor \cup {d}
  /\ attached' = [attached EXCEPT ![d] = t]
  /\ UNCHANGED <<removed, seating, gone, discarded>>

\* A table leaves the room with nobody at it, for good.  Its decorations keep
\* its name.
TakeTable(t) ==
  /\ t \in room
  /\ room' = room \ {t}
  /\ removed' = removed \cup {t}
  /\ seating' = Standing(At(t))
  /\ UNCHANGED <<gone, decor, discarded, attached>>

Sit(g, t) ==
  /\ g \notin gone /\ t \in room /\ Together(g, t)
  /\ seating' = [seating EXCEPT ![g] = t]
  /\ UNCHANGED <<room, removed, gone, decor, discarded, attached>>

Rise(g) ==
  /\ seating' = Standing({g})
  /\ UNCHANGED <<room, removed, gone, decor, discarded, attached>>

Clear(t) ==
  /\ t \in room
  /\ seating' = Standing(At(t))
  /\ UNCHANGED <<room, removed, gone, decor, discarded, attached>>

Leave(g) ==
  /\ g \notin gone
  /\ gone' = gone \cup {g}
  /\ seating' = Standing({g})
  /\ UNCHANGED <<room, removed, decor, discarded, attached>>

AddDeco(d) ==
  /\ d \notin decor \cup discarded
  /\ decor' = decor \cup {d}
  /\ UNCHANGED <<room, removed, seating, gone, discarded, attached>>

\* To a table, which may have left the room, or to none.
Attach(d, t) ==
  /\ d \in decor
  /\ t # Null => t \in room \cup removed /\ Together(d, t)
  /\ attached' = [attached EXCEPT ![d] = t]
  /\ UNCHANGED <<room, removed, seating, gone, decor, discarded>>

DiscardDeco(d) ==
  /\ d \in decor
  /\ decor' = decor \ {d}
  /\ discarded' = discarded \cup {d}
  /\ attached' = [attached EXCEPT ![d] = Null]
  /\ UNCHANGED <<room, removed, seating, gone>>

Next ==
  \/ \E t \in Tables : TakeTable(t) \/ Clear(t) \/ \E d \in Decos : PutTable(t, d)
  \/ \E g \in Guests : Rise(g) \/ Leave(g) \/ \E t \in Tables : Sit(g, t)
  \/ \E d \in Decos : \/ AddDeco(d) \/ DiscardDeco(d)
                      \/ \E t \in Tables \cup {Null} : Attach(d, t)

Spec == Init /\ [][Next]_vars
=============================================================================
