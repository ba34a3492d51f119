------------------------------- MODULE Tasks -------------------------------
(***************************************************************************)
(* The task list of one wedding: the rows and routes (api/tasks,           *)
(* api/wedding/seed-tasks) and the boards the couple has open              *)
(* (TaskBoard.tsx).  A board changes at once, sends the request, and puts  *)
(* back the cards it had if the answer is an error or never comes.         *)
(*                                                                         *)
(* A task is its place in rows, in order of creation; a deleted row keeps  *)
(* its place.  Each slot is one asynchronous function of a board together  *)
(* with the handler that works for it.  Of a task's columns the model      *)
(* keeps the status and the due date; titles, notes and the like are       *)
(* written by the same statements.                                         *)
(***************************************************************************)
EXTENDS Integers, Sequences, FiniteSets

CONSTANTS
  Slots,      \* functions that may wait at once
  Boards,     \* open boards
  BoardOf,    \* the board of a slot
  Status, FirstStatus,   \* TaskStatus; "todo"
  Dates, NoDate,         \* due dates; null
  ChecklistSize,         \* Len(TASKS_SEED)
  Faults,     \* which of "error" (the database), "lost" (the network) may happen
  MaxTasks,   \* bound: rows ever created
  MaxRequests \* bound: functions ever started

ASSUME TasksAssumption ==
  /\ IsFiniteSet(Slots)
  /\ BoardOf \in [Slots -> Boards]
  /\ FirstStatus \in Status
  /\ NoDate \notin Dates
  /\ ChecklistSize \in Nat \ {0}

VARIABLES
  rows,    \* table Task
  board,   \* state "tasks" of each board: its cards, newest first
  hand,    \* the functions in flight
  stale,   \* bookkeeping: per board, tasks changed elsewhere since it was loaded
  dirty,   \* bookkeeping: boards that missed an answer since they were loaded
  count    \* functions started

vars == <<rows, board, hand, stale, dirty, count>>

Due == Dates \cup {NoDate}
Entry == 0 .. ChecklistSize    \* 0: a task of the couple's own

\* cleared is bookkeeping: a request that sent no date took the date away.
Row == [live : BOOLEAN, entry : Entry, status : Status, due : Due, cleared : BOOLEAN]
Card == [id : Nat, status : Status, due : Due]

Request ==
  [op : {"patch"}, id : Nat, status : Status, due : Due, sendsDue : BOOLEAN]
  \cup [op : {"create"}, due : Due] \cup [op : {"delete"}, id : Nat]
  \cup [op : {"seed", "list"}]

Idle == [pc |-> "idle"]

\* prev: the cards a rollback puts back; got: the cards in the answer; heard: is
\* the function still waiting, or did it give up on a request under way?
Busy == [pc : {"check", "write", "answer"}, q : Request, prev : Seq(Card),
         ok : BOOLEAN, got : Seq(Card), heard : BOOLEAN]

Init ==
  /\ rows = <<>>
  /\ board = [b \in Boards |-> <<>>]
  /\ hand = [s \in Slots |-> Idle]
  /\ stale = [b \in Boards |-> {}]
  /\ dirty = {}
  /\ count = 0

----------------------------------------------------------------------------
(* The rows *)

Live == {i \in DOMAIN rows : rows[i].live}
CardOf(i) == [id |-> i, status |-> rows[i].status, due |-> rows[i].due]

\* The n-th smallest of a set of numbers.
Nth(S, n) == CHOOSE i \in S : Cardinality({j \in S : j < i}) = n - 1

\* GET /api/tasks: newest first.  (Rows of one seeding share their instant; the
\* database may list those in any order, the model keeps one.)
Listing == [n \in 1 .. Cardinality(Live) |-> CardOf(Nth(Live, Cardinality(Live) + 1 - n))]

NewRow(entry, due) ==
  [live |-> TRUE, entry |-> entry, status |-> FirstStatus, due |-> due, cleared |-> FALSE]
Own(due) == NewRow(0, due)
Checklist == [e \in 1 .. ChecklistSize |-> NewRow(e, NoDate)]

\* taskUpdateSchema: an absent due date is parsed as null.
ParsedDue(q) == IF q.sendsDue THEN q.due ELSE NoDate

\* The row as the update of a PATCH leaves it.
Updated(row, q) ==
  [row EXCEPT !.status = q.status, !.due = ParsedDue(q),
              !.cleared = ~q.sendsDue /\ (@ \/ row.due # NoDate)]

----------------------------------------------------------------------------
(* What the couple does *)

Creates(q) == CASE q.op = "create" -> 1 [] q.op = "seed" -> ChecklistSize [] OTHER -> 0

\* A rollback restores the cards only after a change that was shown.
Restores(q) == q.op \in {"patch", "delete"}

Starting(s, q, pc) ==
  [pc |-> pc, q |-> q, prev |-> IF Restores(q) THEN board[BoardOf[s]] ELSE <<>>,
   ok |-> FALSE, got |-> <<>>, heard |-> TRUE]

\* The cards change to `cards` and the request leaves, in one step.  (Bounds of the
\* model: not when what is under way may use up MaxTasks; and once a board missed
\* an answer the couple reloads it.)
Start(s, q, pc, cards) ==
  /\ hand[s] = Idle
  /\ BoardOf[s] \notin dirty
  /\ count < MaxRequests
  /\ count' = count + 1
  /\ Len(rows) + Creates(q) * (1 + Cardinality({r \in Slots : hand[r] # Idle})) <= MaxTasks
  /\ hand' = [hand EXCEPT ![s] = Starting(s, q, pc)]
  /\ board' = [board EXCEPT ![BoardOf[s]] = cards]
  /\ UNCHANGED <<rows, stale, dirty>>

Shown(b) == {board[b][n].id : n \in DOMAIN board[b]}

\* updateTask.
Patched(cards, i, status, due) ==
  [n \in DOMAIN cards |->
     IF cards[n].id = i THEN [cards[n] EXCEPT !.status = status, !.due = due] ELSE cards[n]]

\* moveStatus: the card keeps its date, the request sends the status alone.
MoveStatus(s, i, status) ==
  /\ i \in Shown(BoardOf[s])
  /\ LET cards == board[BoardOf[s]] IN
       Start(s, [op |-> "patch", id |-> i, status |-> status, due |-> NoDate,
                 sendsDue |-> FALSE], "check",
             [n \in DOMAIN cards |->
                IF cards[n].id = i THEN [cards[n] EXCEPT !.status = status] ELSE cards[n]])

\* saveEdit: the form sends every field.
SaveEdit(s, i, status, due) ==
  /\ i \in Shown(BoardOf[s])
  /\ Start(s, [op |-> "patch", id |-> i, status |-> status, due |-> due,
               sendsDue |-> TRUE], "check",
           Patched(board[BoardOf[s]], i, status, due))

\* createTask and seedTasks show nothing before the answer.
CreateTask(s, due) == Start(s, [op |-> "create", due |-> due], "write", board[BoardOf[s]])
SeedTasks(s) == Start(s, [op |-> "seed"], "check", board[BoardOf[s]])

\* The cards of the other tasks, in their order.
Without(cards, i) ==
  LET kept == {n \in DOMAIN cards : cards[n].id # i}
  IN  [n \in 1 .. Cardinality(kept) |-> cards[Nth(kept, n)]]

\* deleteTask.
DeleteTask(s, i) ==
  /\ i \in Shown(BoardOf[s])
  /\ Start(s, [op |-> "delete", id |-> i], "check",
           Without(board[BoardOf[s]], i))

----------------------------------------------------------------------------
(* The handlers *)

\* Changes made through one board make the others stale.
Touch(s, ids) ==
  stale' = [b \in Boards |-> IF b = BoardOf[s] THEN stale[b] ELSE stale[b] \cup ids]

Answer(s, ok, got) ==
  hand' = [hand EXCEPT ![s] = [@ EXCEPT !.pc = "answer", !.ok = ok, !.got = got]]

SeededOver == Cardinality(Live) > ChecklistSize
AlreadySeeded == Live # {}

\* fetchOwnedTask, or the count of seed-tasks.
Check(s) ==
  /\ hand[s].pc = "check"
  /\ LET q == hand[s].q IN
       IF q.op = "seed"
         THEN IF AlreadySeeded THEN Answer(s, TRUE, <<>>)
              ELSE hand' = [hand EXCEPT ![s].pc = "write"]
       ELSE IF q.id \in Live THEN hand' = [hand EXCEPT ![s].pc = "write"]
       ELSE Answer(s, FALSE, <<>>)
  /\ UNCHANGED <<rows, board, stale, dirty, count>>

\* The write of a handler; updating or deleting a row that is gone is an error.
Write(s) ==
  /\ hand[s].pc = "write"
  /\ LET q == hand[s].q IN
       \/ /\ q.op = "create"
          /\ rows' = Append(rows, Own(q.due))
          /\ Answer(s, TRUE, <<[id |-> Len(rows) + 1, status |-> FirstStatus, due |-> q.due]>>)
          /\ Touch(s, {Len(rows) + 1})
       \/ /\ q.op = "seed"
          /\ rows' = rows \o Checklist
          /\ Answer(s, TRUE, <<>>)
          /\ Touch(s, Len(rows) + 1 .. Len(rows) + ChecklistSize)
       \/ /\ q.op = "patch" /\ q.id \in Live
          /\ rows' = [rows EXCEPT ![q.id] = Updated(@, q)]
          /\ Answer(s, TRUE, <<>>)
          /\ Touch(s, {q.id})
       \/ /\ q.op = "delete" /\ q.id \in Live
          /\ rows' = [rows EXCEPT ![q.id].live = FALSE]
          /\ Answer(s, TRUE, <<>>)
          /\ Touch(s, {q.id})
       \/ /\ q.op \in {"patch", "delete"} /\ q.id \notin Live
          /\ Answer(s, FALSE, <<>>)
          /\ UNCHANGED <<rows, stale>>
       \/ /\ q.op = "list"
          /\ Answer(s, TRUE, Listing)
          /\ stale' = [stale EXCEPT ![BoardOf[s]] = {}]
          /\ UNCHANGED rows
  /\ UNCHANGED <<board, dirty, count>>

\* A statement fails: the route answers 500.
Fail(s) ==
  /\ "error" \in Faults
  /\ hand[s].pc \in {"check", "write"}
  /\ Answer(s, FALSE, <<>>)
  /\ UNCHANGED <<rows, board, stale, dirty, count>>

----------------------------------------------------------------------------
(* Answers *)

KeepChange(s) == UNCHANGED board

Rollback(s) ==
  board' = IF Restores(hand[s].q) THEN [board EXCEPT ![BoardOf[s]] = hand[s].prev] ELSE board

ConfirmAppends(s) ==
  board' = [board EXCEPT ![BoardOf[s]] = hand[s].got \o @]

\* A success still has to put a new task first, or to replace the list.
Confirm(s) ==
  board' = CASE hand[s].q.op = "create" -> [board EXCEPT ![BoardOf[s]] = hand[s].got \o @]
             [] hand[s].q.op = "list" -> [board EXCEPT ![BoardOf[s]] = hand[s].got]
             [] OTHER -> board

\* A refresh that fails leaves the board without the new checklist.
MissesRefresh(s) == hand[s].q.op = "list" /\ ~hand[s].ok

Answered(s) ==
  /\ hand[s].pc = "answer" /\ hand[s].heard
  /\ IF hand[s].ok THEN Confirm(s) ELSE Rollback(s)
  /\ hand' = [hand EXCEPT ![s] = IF hand[s].q.op = "seed" /\ hand[s].ok
                                   THEN Starting(s, [op |-> "list"], "write") ELSE Idle]
  /\ dirty' = IF MissesRefresh(s) THEN dirty \cup {BoardOf[s]} ELSE dirty
  /\ UNCHANGED <<rows, stale, count>>

\* fetch throws: the request never got to the server,
RequestLost(s) ==
  /\ "lost" \in Faults
  /\ hand[s] # Idle /\ hand[s].heard /\ hand[s].pc # "answer"
  /\ hand[s].pc = "check" \/ hand[s].q.op \in {"create", "list"}
  /\ Rollback(s)
  /\ hand' = [hand EXCEPT ![s] = Idle]
  /\ dirty' = IF hand[s].q.op = "list" THEN dirty \cup {BoardOf[s]} ELSE dirty
  /\ UNCHANGED <<rows, stale, count>>

\* or it did, and the function gives up while the handler goes on.
AnswerLost(s) ==
  /\ "lost" \in Faults
  /\ hand[s] # Idle /\ hand[s].heard
  /\ Rollback(s)
  /\ hand' = [hand EXCEPT ![s].heard = FALSE, ![s].prev = <<>>]
  /\ dirty' = dirty \cup {BoardOf[s]}
  /\ UNCHANGED <<rows, stale, count>>

Unread(s) ==
  /\ hand[s].pc = "answer" /\ ~hand[s].heard
  /\ hand' = [hand EXCEPT ![s] = Idle]
  /\ UNCHANGED <<rows, board, stale, dirty, count>>

\* The page is loaded (again) while nothing of it is in flight.
Reload(b) ==
  /\ \A s \in Slots : BoardOf[s] = b => hand[s] = Idle
  /\ board' = [board EXCEPT ![b] = Listing]
  /\ stale' = [stale EXCEPT ![b] = {}]
  /\ dirty' = dirty \ {b}
  /\ UNCHANGED <<rows, hand, count>>

Next ==
  \/ \E b \in Boards : Reload(b)
  \/ \E s \in Slots :
       \/ Check(s) \/ Write(s) \/ Fail(s)
       \/ Answered(s) \/ RequestLost(s) \/ AnswerLost(s) \/ Unread(s)
       \/ \E due \in Due : CreateTask(s, due)
       \/ SeedTasks(s)
       \/ \E i \in DOMAIN rows : DeleteTask(s, i)
       \/ \E i \in DOMAIN rows, st \in Status : MoveStatus(s, i, st)
       \/ \E i \in DOMAIN rows, st \in Status, due \in Due : SaveEdit(s, i, st, due)

Spec == Init /\ [][Next]_vars

----------------------------------------------------------------------------
(* Properties *)

\* Type invariant.
TypeOK ==
  /\ rows \in Seq(Row)
  /\ board \in [Boards -> Seq(Card)]
  /\ hand \in [Slots -> {Idle} \cup Busy]
  /\ stale \in [Boards -> SUBSET Nat]
  /\ dirty \in SUBSET Boards
  /\ count \in Nat

Copies(e) == {i \in DOMAIN rows : rows[i].live /\ rows[i].entry = e}

\* An entry of the checklist is never there more often than functions may wait at
\* once: a task that is written ends the seeding for all who count after it.
SeedingBounded == \A e \in 1 .. ChecklistSize : Cardinality(Copies(e)) <= Cardinality(Slots)

\* What the comment on POST /api/wedding/seed-tasks says: re-hitting the endpoint
\* never duplicates the checklist.  Two overlapping requests both count no tasks.
ChecklistOnce == \A e \in 1 .. ChecklistSize : Cardinality(Copies(e)) <= 1

\* What the comment in PATCH /api/tasks/[id] says: only the fields that the client
\* sent are written back.  So a request without the date leaves the dates alone.
DueKept ==
  [][\A s \in Slots :
       hand[s].pc = "write" /\ hand[s].q.op = "patch" /\ ~hand[s].q.sendsDue
         => \/ hand'[s] = hand[s]
            \/ \A i \in DOMAIN rows : rows'[i].due = rows[i].due]_vars

CardsFor(b, i) == {n \in DOMAIN board[b] : board[b][n].id = i}

\* A board whose functions follow one another never shows a task twice, whatever
\* else happens: not after a refresh, a rollback or a lost answer.
CardsDistinct == \A b \in Boards : \A i \in Shown(b) : Cardinality(CardsFor(b, i)) = 1

\* Once a board waits for nothing, and unless it missed an answer, it shows every
\* task that nobody changed elsewhere exactly when the row exists, and with the
\* row's status.  The date agrees too, unless a request that sent none cleared it.
BoardAgrees ==
  \A b \in Boards :
    (b \notin dirty /\ \A s \in Slots : BoardOf[s] = b => hand[s] = Idle) =>
      \A i \in DOMAIN rows \ stale[b] :
        /\ i \in Shown(b) <=> i \in Live
        /\ \A n \in CardsFor(b, i) :
             /\ board[b][n].status = rows[i].status
             /\ board[b][n].due = rows[i].due \/ rows[i].cleared
=============================================================================
