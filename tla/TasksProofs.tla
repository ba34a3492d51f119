---------------------------- MODULE TasksProofs ----------------------------
(***************************************************************************)
(* Theorems about Tasks, for any number of boards and waiting functions,   *)
(* any checklist and any fault: the checklist is never there more often    *)
(* than functions may wait at once; and while the functions of each board  *)
(* follow one another, no board shows a task twice, and a board at rest    *)
(* shows the tasks as they are.                                            *)
(*                                                                         *)
(* The copies of an entry and the seedings that have counted no tasks but  *)
(* not inserted yet never outnumber the slots together.  A seeding joins   *)
(* them only when there is no task at all, so no copy either, and then it  *)
(* is one of the slots; inserting turns one seeding into one copy.         *)
(*                                                                         *)
(* What a board shows is followed through the life of a function: ViewInv, *)
(* below, says which of its cards are true before the write, between the   *)
(* write and the answer, and after it.                                     *)
(***************************************************************************)
EXTENDS Tasks, FiniteSetTheorems, SequenceTheorems, TLAPS

\* Handlers that counted no tasks and are about to insert the checklist.
Seeding == {s \in Slots : hand[s].pc = "write" /\ hand[s].q.op = "seed"}

\* A function in flight, whatever cards it remembers.
FunctionOver(S) ==
  [pc : {"check", "write", "answer"}, q : Request, prev : S, ok : BOOLEAN, got : S,
   heard : BOOLEAN]

Function(h) == \E S : h \in FunctionOver(S)

Shape ==
  /\ rows \in Seq(Row)
  /\ hand = [s \in Slots |-> hand[s]]
  /\ \A s \in Slots : hand[s] = Idle \/ Function(hand[s])

CopiesOK == \A e \in 1 .. ChecklistSize :
  Cardinality(Copies(e)) + Cardinality(Seeding) <= Cardinality(Slots)

Inv == Shape /\ CopiesOK

----------------------------------------------------------------------------
(* What every step needs to know of the functions *)

LEMMA Finite ==
  ASSUME rows \in Seq(Row)
  PROVE  /\ IsFiniteSet(Seeding) /\ Cardinality(Seeding) \in Nat
         /\ Cardinality(Slots) \in Nat /\ Cardinality(Seeding) <= Cardinality(Slots)
         /\ \A e : IsFiniteSet(Copies(e)) /\ Cardinality(Copies(e)) \in Nat
<1>1. IsFiniteSet(Slots)
  BY TasksAssumption
<1>2. Seeding \subseteq Slots
  BY DEF Seeding
<1>3. /\ IsFiniteSet(Seeding) /\ Cardinality(Seeding) \in Nat
      /\ Cardinality(Slots) \in Nat /\ Cardinality(Seeding) <= Cardinality(Slots)
  BY <1>1, <1>2, FS_Subset, FS_CardinalityType
<1>4. DOMAIN rows = 1 .. Len(rows) /\ Len(rows) \in Nat
  BY LenProperties
<1>5. IsFiniteSet(DOMAIN rows)
  BY <1>4, FS_Interval
<1>6. ASSUME NEW e PROVE IsFiniteSet(Copies(e)) /\ Cardinality(Copies(e)) \in Nat
  BY <1>5, FS_Subset, FS_CardinalityType DEF Copies
<1> QED
  BY <1>3, <1>6

\* Updating one function with something that is a function, or Idle, keeps the shape.
LEMMA HandUpdate ==
  ASSUME Shape, NEW s \in Slots, NEW h, h = Idle \/ Function(h),
         hand' = [hand EXCEPT ![s] = h]
  PROVE  /\ hand' = [r \in Slots |-> hand'[r]]
         /\ \A r \in Slots : hand'[r] = Idle \/ Function(hand'[r])
         /\ hand'[s] = h
         /\ \A r \in Slots \ {s} : hand'[r] = hand[r]
  BY DEF Shape

\* New rows and updated rows are rows.
LEMMA NewRowType ==
  ASSUME NEW entry \in Entry, NEW due \in Due
  PROVE  /\ NewRow(entry, due) \in Row
         /\ NewRow(entry, due).entry = entry /\ NewRow(entry, due).live = TRUE
         /\ NewRow(entry, due).status = FirstStatus /\ NewRow(entry, due).due = due
BY TasksAssumption DEF NewRow, Row

LEMMA OwnType ==
  ASSUME NEW due \in Due
  PROVE  /\ Own(due) \in Row
         /\ Own(due).entry = 0 /\ Own(due).live = TRUE
         /\ Own(due).status = FirstStatus /\ Own(due).due = due
<1>1. 0 \in Entry
  BY TasksAssumption DEF Entry
<1> QED
  BY <1>1, NewRowType DEF Own

LEMMA ChecklistType ==
  /\ Checklist \in Seq(Row) /\ Len(Checklist) = ChecklistSize
  /\ \A e \in 1 .. ChecklistSize : Checklist[e].entry = e
<1>1. \A e \in 1 .. ChecklistSize : e \in Entry /\ NoDate \in Due
  BY TasksAssumption DEF Entry, Due
<1>2. \A e \in 1 .. ChecklistSize : NewRow(e, NoDate) \in Row /\ NewRow(e, NoDate).entry = e
  BY <1>1, NewRowType
<1>3. Checklist \in [1 .. ChecklistSize -> Row]
  BY <1>2 DEF Checklist
<1>4. Checklist \in Seq(Row) /\ Len(Checklist) = ChecklistSize
  BY <1>3, TasksAssumption, IsASeq DEF Checklist
<1>5. \A e \in 1 .. ChecklistSize : Checklist[e].entry = e
  BY <1>2 DEF Checklist
<1> QED
  BY <1>4, <1>5

LEMMA UpdatedType ==
  ASSUME NEW row \in Row, NEW q \in Request, q.op = "patch"
  PROVE  /\ Updated(row, q) \in Row
         /\ Updated(row, q).live = row.live /\ Updated(row, q).entry = row.entry
         /\ Updated(row, q).status = q.status /\ Updated(row, q).due = ParsedDue(q)
         /\ ~q.sendsDue /\ ~Updated(row, q).cleared => ~row.cleared /\ row.due = NoDate
<1>1. q.status \in Status /\ ParsedDue(q) \in Due
  BY DEF Request, ParsedDue, Due
<1>2. PICK flag \in BOOLEAN : flag = (~q.sendsDue /\ (row.cleared \/ row.due # NoDate))
  OBVIOUS
<1>3. Updated(row, q) = [row EXCEPT !.status = q.status, !.due = ParsedDue(q), !.cleared = flag]
  BY <1>2 DEF Updated
<1>4. /\ Updated(row, q) \in Row /\ Updated(row, q).cleared = flag
      /\ Updated(row, q).live = row.live /\ Updated(row, q).entry = row.entry
      /\ Updated(row, q).status = q.status /\ Updated(row, q).due = ParsedDue(q)
  BY <1>1, <1>3 DEF Row
<1> QED
  BY <1>2, <1>4

\* The rows stay and nobody joins the seedings.
LEMMA CopiesKept ==
  ASSUME Inv, rows' \in Seq(Row), Seeding' \subseteq Seeding,
         \A e \in 1 .. ChecklistSize : (Copies(e))' \subseteq Copies(e)
  PROVE  CopiesOK'
<1> SUFFICES ASSUME NEW e \in 1 .. ChecklistSize
             PROVE  Cardinality((Copies(e))') + Cardinality(Seeding') <= Cardinality(Slots)
  BY DEF CopiesOK
<1>1. /\ IsFiniteSet(Copies(e)) /\ Cardinality(Copies(e)) \in Nat
      /\ IsFiniteSet(Seeding) /\ Cardinality(Seeding) \in Nat /\ Cardinality(Slots) \in Nat
  BY Finite DEF Inv, Shape
<1>2. Cardinality((Copies(e))') <= Cardinality(Copies(e)) /\ Cardinality((Copies(e))') \in Nat
  BY <1>1, FS_Subset, FS_CardinalityType
<1>3. Cardinality(Seeding') <= Cardinality(Seeding) /\ Cardinality(Seeding') \in Nat
  BY <1>1, FS_Subset, FS_CardinalityType
<1>4. Cardinality(Copies(e)) + Cardinality(Seeding) <= Cardinality(Slots)
  BY DEF Inv, CopiesOK
<1> QED
  BY <1>1, <1>2, <1>3, <1>4

\* The common case: the rows stay, and slot s becomes h, which is no seeding.
LEMMA RowsUntouched ==
  ASSUME Inv, UNCHANGED rows, NEW s \in Slots, NEW h,
         h = Idle \/ Function(h),
         h.pc = "write" => h.q.op # "seed" \/ s \in Seeding,
         hand' = [hand EXCEPT ![s] = h]
  PROVE  Inv'
<1>1. Shape
  BY DEF Inv
<1>2. Shape'
  BY <1>1, HandUpdate DEF Shape
<1>3. Seeding' \subseteq Seeding
  BY <1>1, HandUpdate DEF Seeding
<1>4. \A e \in 1 .. ChecklistSize : (Copies(e))' \subseteq Copies(e)
  BY DEF Copies
<1> QED
  BY <1>2, <1>3, <1>4, CopiesKept DEF Inv, Shape

----------------------------------------------------------------------------
(* Steps of the boards *)

LEMMA StartingIsFunction ==
  ASSUME NEW s \in Slots, NEW q \in Request, NEW pc \in {"check", "write"}
  PROVE  Function(Starting(s, q, pc)) /\ Starting(s, q, pc).pc = pc /\ Starting(s, q, pc).q = q
<1>1. PICK S : <<>> \in S /\ board[BoardOf[s]] \in S
  <2>1. /\ <<>> \in {<<>>, board[BoardOf[s]]}
        /\ board[BoardOf[s]] \in {<<>>, board[BoardOf[s]]}
    OBVIOUS
  <2> QED
    BY <2>1
<1>2. Starting(s, q, pc) \in FunctionOver(S)
  BY <1>1 DEF FunctionOver, Starting
<1> QED
  BY <1>2 DEF Function, Starting

LEMMA StartStep ==
  ASSUME Inv, NEW s \in Slots, NEW q \in Request, NEW pc \in {"check", "write"}, NEW cards,
         pc = "write" => q.op # "seed", Start(s, q, pc, cards)
  PROVE  Inv'
<1>1. Function(Starting(s, q, pc)) /\ Starting(s, q, pc).pc = pc /\ Starting(s, q, pc).q = q
  BY StartingIsFunction
<1>3. UNCHANGED rows /\ hand' = [hand EXCEPT ![s] = Starting(s, q, pc)]
  BY DEF Start
<1> HIDE DEF Start, Starting
<1> QED
  BY <1>1, <1>3, RowsUntouched

LEMMA CoupleStep ==
  ASSUME Inv, NEW s \in Slots,
         \/ \E due \in Due : CreateTask(s, due)
         \/ SeedTasks(s)
         \/ \E i \in DOMAIN rows : DeleteTask(s, i)
         \/ \E i \in DOMAIN rows, st \in Status : MoveStatus(s, i, st)
         \/ \E i \in DOMAIN rows, st \in Status, due \in Due : SaveEdit(s, i, st, due)
  PROVE  Inv'
<1>0. \A i \in DOMAIN rows : i \in Nat
  BY LenProperties DEF Inv, Shape
<1>1. CASE \E due \in Due : CreateTask(s, due)
  <2>1. PICK due \in Due : CreateTask(s, due)
    BY <1>1
  <2>2. [op |-> "create", due |-> due] \in Request
    BY DEF Request
  <2> QED
    BY <2>1, <2>2, StartStep DEF CreateTask
<1>2. CASE SeedTasks(s)
  <2>1. [op |-> "seed"] \in Request
    BY DEF Request
  <2> QED
    BY <1>2, <2>1, StartStep DEF SeedTasks
<1>3. CASE \E i \in DOMAIN rows : DeleteTask(s, i)
  <2>1. PICK i \in DOMAIN rows : DeleteTask(s, i)
    BY <1>3
  <2>2. [op |-> "delete", id |-> i] \in Request
    BY <1>0 DEF Request
  <2>3. PICK cards : Start(s, [op |-> "delete", id |-> i], "check", cards)
    BY <2>1 DEF DeleteTask
  <2> QED
    BY <2>2, <2>3, StartStep
<1>4. CASE \E i \in DOMAIN rows, st \in Status : MoveStatus(s, i, st)
  <2>1. PICK i \in DOMAIN rows, st \in Status : MoveStatus(s, i, st)
    BY <1>4
  <2> DEFINE q == [op |-> "patch", id |-> i, status |-> st, due |-> NoDate, sendsDue |-> FALSE]
  <2>2. q \in Request
    BY <1>0 DEF Request, Due
  <2>3. PICK cards : Start(s, q, "check", cards)
    BY <2>1 DEF MoveStatus
  <2> HIDE DEF q
  <2> QED
    BY <2>2, <2>3, StartStep
<1>5. CASE \E i \in DOMAIN rows, st \in Status, due \in Due : SaveEdit(s, i, st, due)
  <2>1. PICK i \in DOMAIN rows, st \in Status, due \in Due : SaveEdit(s, i, st, due)
    BY <1>5
  <2> DEFINE q == [op |-> "patch", id |-> i, status |-> st, due |-> due, sendsDue |-> TRUE]
  <2>2. q \in Request
    BY <1>0 DEF Request
  <2>3. PICK cards : Start(s, q, "check", cards)
    BY <2>1 DEF SaveEdit
  <2> HIDE DEF q
  <2> QED
    BY <2>2, <2>3, StartStep
<1> QED
  BY <1>1, <1>2, <1>3, <1>4, <1>5

\* An answer in hand is a function with another program counter.
LEMMA AnswerIsFunction ==
  ASSUME Shape, NEW s \in Slots, hand[s].pc \in {"check", "write", "answer"},
         NEW ok \in BOOLEAN, NEW got
  PROVE  /\ Function([hand[s] EXCEPT !.pc = "answer", !.ok = ok, !.got = got])
         /\ [hand[s] EXCEPT !.pc = "answer", !.ok = ok, !.got = got].pc = "answer"
<1>1. Function(hand[s])
  BY DEF Shape, Idle
<1>2. PICK S : hand[s] \in FunctionOver(S)
  BY <1>1 DEF Function
<1>3. PICK h : h = [hand[s] EXCEPT !.pc = "answer", !.ok = ok, !.got = got]
  OBVIOUS
<1>4. h \in FunctionOver(S \cup {got}) /\ h.pc = "answer"
  BY <1>2, <1>3 DEF FunctionOver
<1> QED
  BY <1>3, <1>4 DEF Function

LEMMA AnswerStep ==
  ASSUME Inv, UNCHANGED rows, NEW s \in Slots, hand[s].pc \in {"check", "write"},
         NEW ok \in BOOLEAN, NEW got, Answer(s, ok, got)
  PROVE  Inv'
<1>1. PICK h : h = [hand[s] EXCEPT !.pc = "answer", !.ok = ok, !.got = got]
  OBVIOUS
<1>2. Function(h) /\ h.pc = "answer"
  BY <1>1, AnswerIsFunction DEF Inv
<1>3. hand' = [hand EXCEPT ![s] = h]
  BY <1>1 DEF Answer, Inv, Shape
<1> QED
  BY <1>2, <1>3, RowsUntouched

\* Answers that end a function, or make the seeding ask for the list.
LEMMA EndStep ==
  ASSUME Inv, NEW s \in Slots,
         Answered(s) \/ RequestLost(s) \/ AnswerLost(s) \/ Unread(s) \/ Fail(s)
  PROVE  Inv'
<1>1. CASE Answered(s)
  <2>1. UNCHANGED rows
    BY <1>1 DEF Answered
  <2>2. CASE hand[s].q.op = "seed" /\ hand[s].ok
    <3>1. [op |-> "list"] \in Request /\ [op |-> "list"].op # "seed"
      BY DEF Request
    <3>2. PICK h : h = Starting(s, [op |-> "list"], "write")
      OBVIOUS
    <3>3. Function(h) /\ h.q.op # "seed"
      BY <3>1, <3>2, StartingIsFunction
    <3>4. hand' = [hand EXCEPT ![s] = h]
      BY <1>1, <2>2, <3>2 DEF Answered
    <3> QED
      BY <2>1, <3>3, <3>4, RowsUntouched
  <2>3. CASE ~(hand[s].q.op = "seed" /\ hand[s].ok)
    <3>1. hand' = [hand EXCEPT ![s] = Idle]
      BY <1>1, <2>3 DEF Answered
    <3> QED
      BY <2>1, <3>1, RowsUntouched DEF Idle
  <2> QED
    BY <2>2, <2>3
<1>2. CASE RequestLost(s) \/ Unread(s)
  <2>1. UNCHANGED rows /\ hand' = [hand EXCEPT ![s] = Idle]
    BY <1>2 DEF RequestLost, Unread
  <2> QED
    BY <2>1, RowsUntouched DEF Idle
<1>3. CASE AnswerLost(s)
  <2>1. Function(hand[s])
    BY <1>3 DEF AnswerLost, Inv, Shape
  <2>2. PICK S : hand[s] \in FunctionOver(S)
    BY <2>1 DEF Function
  <2>3. PICK h : h = [hand[s] EXCEPT !.heard = FALSE, !.prev = <<>>]
    OBVIOUS
  <2>4. h \in FunctionOver(S \cup {<<>>}) /\ h.pc = hand[s].pc /\ h.q = hand[s].q
    BY <2>2, <2>3 DEF FunctionOver
  <2>5. Function(h) /\ h.pc = hand[s].pc /\ h.q = hand[s].q
    BY <2>4 DEF Function
  <2>6. hand' = [hand EXCEPT ![s].heard = FALSE, ![s].prev = <<>>] /\ UNCHANGED rows
    BY <1>3 DEF AnswerLost
  <2>7. hand' = [hand EXCEPT ![s] = h]
    BY <2>3, <2>6 DEF Inv, Shape
  <2>8. h.pc = "write" => h.q.op # "seed" \/ s \in Seeding
    BY <2>5 DEF Seeding
  <2> QED
    BY <2>5, <2>6, <2>7, <2>8, RowsUntouched
<1>4. CASE Fail(s)
  BY <1>4, AnswerStep DEF Fail
<1> QED
  BY <1>1, <1>2, <1>3, <1>4

----------------------------------------------------------------------------
(* Steps of the handlers *)

\* A handler past its check is still a function, about to write the same request.
LEMMA ToWrite ==
  ASSUME Shape, NEW s \in Slots, hand[s].pc = "check"
  PROVE  \E h : /\ Function(h) /\ h.pc = "write" /\ h.q = hand[s].q
               /\ [hand EXCEPT ![s].pc = "write"] = [hand EXCEPT ![s] = h]
<1>1. Function(hand[s])
  BY DEF Shape, Idle
<1>2. PICK S : hand[s] \in FunctionOver(S)
  BY <1>1 DEF Function
<1>3. PICK h : h = [hand[s] EXCEPT !.pc = "write"]
  OBVIOUS
<1>4. h \in FunctionOver(S) /\ h.pc = "write" /\ h.q = hand[s].q
  BY <1>2, <1>3 DEF FunctionOver
<1>5. [hand EXCEPT ![s].pc = "write"] = [hand EXCEPT ![s] = h]
  BY <1>3 DEF Shape
<1> QED
  BY <1>4, <1>5 DEF Function

\* A seeding joins the counted ones only when there is no task at all.
LEMMA CountStep ==
  ASSUME Inv, UNCHANGED rows, NEW s \in Slots, hand[s].pc = "check", Live = {},
         hand' = [hand EXCEPT ![s].pc = "write"]
  PROVE  Inv'
<1>1. Shape
  BY DEF Inv
<1>2. PICK h : Function(h) /\ hand' = [hand EXCEPT ![s] = h]
  BY <1>1, ToWrite
<1>3. Shape'
  BY <1>1, <1>2, HandUpdate DEF Shape
<1>4. ASSUME NEW e \in 1 .. ChecklistSize
      PROVE  Cardinality((Copies(e))') + Cardinality(Seeding') <= Cardinality(Slots)
  <2>1. (Copies(e))' = {}
    BY DEF Copies, Live
  <2>2. Cardinality((Copies(e))') = 0
    BY <2>1, FS_EmptySet
  <2>3. Seeding' \subseteq Slots
    BY DEF Seeding
  <2>4. /\ Cardinality(Seeding') <= Cardinality(Slots)
        /\ Cardinality(Seeding') \in Nat /\ Cardinality(Slots) \in Nat
    BY <2>3, TasksAssumption, FS_Subset, FS_CardinalityType
  <2> QED
    BY <2>2, <2>4
<1> QED
  BY <1>3, <1>4 DEF Inv, CopiesOK

LEMMA CheckStep ==
  ASSUME Inv, NEW s \in Slots, Check(s)
  PROVE  Inv'
<1>1. hand[s].pc = "check" /\ UNCHANGED rows
  BY DEF Check
<1>2. CASE \E ok \in BOOLEAN : Answer(s, ok, <<>>)
  BY <1>1, <1>2, AnswerStep
<1>3. CASE hand' = [hand EXCEPT ![s].pc = "write"] /\ hand[s].q.op = "seed"
  <2>1. Live = {} \/ Answer(s, TRUE, <<>>)
    BY <1>3 DEF Check, AlreadySeeded
  <2> QED
    BY <1>1, <1>2, <1>3, <2>1, CountStep
<1>4. CASE hand' = [hand EXCEPT ![s].pc = "write"] /\ hand[s].q.op # "seed"
  <2>1. PICK h : /\ Function(h) /\ h.q = hand[s].q
                 /\ hand' = [hand EXCEPT ![s] = h]
    BY <1>1, <1>4, ToWrite DEF Inv
  <2> QED
    BY <1>1, <1>4, <2>1, RowsUntouched
<1>5. \/ hand' = [hand EXCEPT ![s].pc = "write"]
      \/ \E ok \in BOOLEAN : Answer(s, ok, <<>>)
  BY DEF Check
<1> QED
  BY <1>2, <1>3, <1>4, <1>5

\* Every write but a seeding's answers, adds no entry and leaves the seedings.
LEMMA OtherWrite ==
  ASSUME Inv, NEW s \in Slots, hand[s].pc = "write", NEW ok \in BOOLEAN, NEW got,
         Answer(s, ok, got), rows' \in Seq(Row),
         \A e \in 1 .. ChecklistSize : (Copies(e))' \subseteq Copies(e)
  PROVE  Inv'
<1>1. PICK h : h = [hand[s] EXCEPT !.pc = "answer", !.ok = ok, !.got = got]
  OBVIOUS
<1>2. Function(h) /\ h.pc = "answer"
  BY <1>1, AnswerIsFunction DEF Inv
<1>3. hand' = [hand EXCEPT ![s] = h]
  BY <1>1 DEF Answer, Inv, Shape
<1>4. Shape'
  BY <1>2, <1>3, HandUpdate DEF Inv, Shape
<1>5. Seeding' \subseteq Seeding
  BY <1>2, <1>3, HandUpdate DEF Seeding, Inv
<1> QED
  BY <1>4, <1>5, CopiesKept DEF Inv

LEMMA RowUpdate ==
  ASSUME rows \in Seq(Row), NEW i \in Live, NEW r \in Row,
         r.entry = rows[i].entry, rows' = [rows EXCEPT ![i] = r]
  PROVE  /\ rows' \in Seq(Row)
         /\ \A e \in 1 .. ChecklistSize : (Copies(e))' \subseteq Copies(e)
<1>1. i \in DOMAIN rows /\ rows[i].live
  BY DEF Live
<1>2. rows' \in Seq(Row)
  BY <1>1, ExceptSeq
<1>3. /\ DOMAIN rows' = DOMAIN rows
      /\ rows'[i] = r /\ \A j \in DOMAIN rows \ {i} : rows'[j] = rows[j]
  BY <1>1
<1> QED
  BY <1>1, <1>2, <1>3 DEF Copies

\* Inserting the checklist turns one seeding into one copy of each entry.
LEMMA SeedWrite ==
  ASSUME Inv, NEW s \in Slots, hand[s].pc = "write", hand[s].q.op = "seed",
         rows' = rows \o Checklist, Answer(s, TRUE, <<>>)
  PROVE  Inv'
<1>0. rows \in Seq(Row) /\ Shape
  BY DEF Inv, Shape
<1>1. PICK h : h = [hand[s] EXCEPT !.pc = "answer", !.ok = TRUE, !.got = <<>>]
  OBVIOUS
<1>2. Function(h) /\ h.pc = "answer"
  BY <1>1, AnswerIsFunction DEF Inv
<1>3. hand' = [hand EXCEPT ![s] = h]
  BY <1>1 DEF Answer, Inv, Shape
<1>4. Seeding' = Seeding \ {s} /\ s \in Seeding
  <2>1. hand'[s] = h /\ \A r \in Slots \ {s} : hand'[r] = hand[r]
    BY <1>0, <1>2, <1>3, HandUpdate
  <2>2. s \in Seeding /\ s \notin Seeding'
    BY <1>2, <2>1 DEF Seeding
  <2>3. \A r \in Slots \ {s} : r \in Seeding' <=> r \in Seeding
    BY <2>1 DEF Seeding
  <2>4. Seeding \subseteq Slots /\ Seeding' \subseteq Slots
    BY DEF Seeding
  <2> QED
    BY <2>2, <2>3, <2>4
<1>5. /\ Checklist \in Seq(Row) /\ Len(Checklist) = ChecklistSize
      /\ \A e \in 1 .. ChecklistSize : Checklist[e].entry = e
  BY ChecklistType
<1>6. /\ rows' \in Seq(Row) /\ Len(rows') = Len(rows) + ChecklistSize
      /\ \A i \in 1 .. Len(rows') :
           rows'[i] = IF i <= Len(rows) THEN rows[i] ELSE Checklist[i - Len(rows)]
  BY <1>0, <1>5, ConcatProperties
<1>7. Shape'
  BY <1>0, <1>2, <1>3, <1>6, HandUpdate DEF Shape
<1>8. ASSUME NEW e \in 1 .. ChecklistSize
      PROVE  Cardinality((Copies(e))') + Cardinality(Seeding') <= Cardinality(Slots)
  <2>1. Len(rows) \in Nat /\ DOMAIN rows = 1 .. Len(rows) /\ DOMAIN rows' = 1 .. Len(rows')
    BY <1>0, <1>6, LenProperties
  <2>2. (Copies(e))' \subseteq Copies(e) \cup {Len(rows) + e}
    <3> SUFFICES ASSUME NEW i \in (Copies(e))', i \notin Copies(e)
                 PROVE  i = Len(rows) + e
      OBVIOUS
    <3>1. i \in 1 .. Len(rows') /\ rows'[i].live /\ rows'[i].entry = e
      BY <2>1 DEF Copies
    <3>2. ~(i <= Len(rows))
      BY <1>6, <2>1, <3>1 DEF Copies
    <3>3. i - Len(rows) \in 1 .. ChecklistSize
      BY <1>6, <2>1, <3>1, <3>2, TasksAssumption
    <3>4. rows'[i].entry = i - Len(rows)
      BY <1>5, <1>6, <3>1, <3>2, <3>3
    <3> QED
      BY <2>1, <3>1, <3>4
  <2>3. /\ IsFiniteSet(Copies(e)) /\ Cardinality(Copies(e)) \in Nat
        /\ IsFiniteSet(Seeding) /\ Cardinality(Seeding) \in Nat /\ Cardinality(Slots) \in Nat
    BY <1>0, Finite
  <2>4. /\ IsFiniteSet(Copies(e) \cup {Len(rows) + e})
        /\ Cardinality(Copies(e) \cup {Len(rows) + e}) <= Cardinality(Copies(e)) + 1
        /\ Cardinality(Copies(e) \cup {Len(rows) + e}) \in Nat
    <3>1. /\ IsFiniteSet(Copies(e) \cup {Len(rows) + e})
          /\ \/ Cardinality(Copies(e) \cup {Len(rows) + e}) = Cardinality(Copies(e))
             \/ Cardinality(Copies(e) \cup {Len(rows) + e}) = Cardinality(Copies(e)) + 1
      BY <2>3, FS_AddElement
    <3> QED
      BY <2>3, <3>1
  <2>5. /\ Cardinality((Copies(e))') <= Cardinality(Copies(e)) + 1
        /\ Cardinality((Copies(e))') \in Nat
    BY <2>2, <2>3, <2>4, FS_Subset, FS_CardinalityType
  <2>6. Cardinality(Seeding') = Cardinality(Seeding) - 1
    BY <1>4, <2>3, FS_RemoveElement
  <2>7. Cardinality(Copies(e)) + Cardinality(Seeding) <= Cardinality(Slots)
    BY DEF Inv, CopiesOK
  <2> QED
    BY <2>3, <2>5, <2>6, <2>7
<1> QED
  BY <1>7, <1>8 DEF Inv, CopiesOK

LEMMA WriteStep ==
  ASSUME Inv, NEW s \in Slots, Write(s)
  PROVE  Inv'
<1>0. rows \in Seq(Row) /\ hand[s].pc = "write" /\ Function(hand[s])
  BY DEF Inv, Shape, Idle, Write
<1>1. PICK S : hand[s] \in FunctionOver(S)
  BY <1>0 DEF Function
<1>2. hand[s].q \in Request
  BY <1>1 DEF FunctionOver
<1>3. CASE hand[s].q.op = "create"
  <2>1. rows' = Append(rows, Own(hand[s].q.due)) /\ \E got : Answer(s, TRUE, got)
    BY <1>0, <1>3 DEF Write
  <2>2. Own(hand[s].q.due) \in Row /\ Own(hand[s].q.due).entry = 0
    <3>1. hand[s].q.due \in Due
      BY <1>2, <1>3 DEF Request
    <3> QED
      BY <3>1, OwnType
  <2>3. PICK r \in Row : r = Own(hand[s].q.due) /\ r.entry = 0
    BY <2>2
  <2>4. /\ rows' \in Seq(Row) /\ DOMAIN rows' = 1 .. Len(rows) + 1
        /\ \A i \in 1 .. Len(rows) : rows'[i] = rows[i]
        /\ rows'[Len(rows) + 1] = r
    BY <1>0, <2>1, <2>3, AppendProperties, LenProperties
  <2>5. ASSUME NEW e \in 1 .. ChecklistSize, NEW i \in (Copies(e))'
        PROVE  i \in Copies(e)
    <3>1. i \in DOMAIN rows' /\ rows'[i].live /\ rows'[i].entry = e
      BY DEF Copies
    <3>2. i # Len(rows) + 1
      BY <2>3, <2>4, <3>1
    <3>3. i \in DOMAIN rows /\ rows'[i] = rows[i]
      BY <1>0, <2>4, <3>1, <3>2, LenProperties
    <3> QED
      BY <3>1, <3>3 DEF Copies
  <2> QED
    BY <1>0, <2>1, <2>4, <2>5, OtherWrite
<1>4. CASE hand[s].q.op = "seed"
  BY <1>0, <1>4, SeedWrite DEF Write
<1>5. CASE hand[s].q.op = "patch" /\ hand[s].q.id \in Live
  <2> DEFINE i == hand[s].q.id
  <2>1. /\ rows' = [rows EXCEPT ![i] = Updated(rows[i], hand[s].q)]
        /\ Answer(s, TRUE, <<>>)
    BY <1>0, <1>5 DEF Write
  <2>3. i \in DOMAIN rows /\ rows[i] \in Row
    BY <1>0, <1>5, ElementOfSeq DEF Live
  <2>4. PICK r : r = Updated(rows[i], hand[s].q)
    OBVIOUS
  <2>5. r \in Row /\ r.entry = rows[i].entry
    BY <1>2, <1>5, <2>3, <2>4, UpdatedType
  <2>6. rows' = [rows EXCEPT ![i] = r]
    BY <2>1, <2>4
  <2> HIDE DEF i
  <2>7. i \in Live
    BY <1>5 DEF i
  <2>8. /\ rows' \in Seq(Row)
        /\ \A e \in 1 .. ChecklistSize : (Copies(e))' \subseteq Copies(e)
    BY <1>0, <2>5, <2>6, <2>7, RowUpdate
  <2> QED
    BY <1>0, <2>1, <2>8, OtherWrite
<1>6. CASE hand[s].q.op = "delete" /\ hand[s].q.id \in Live
  <2> DEFINE i == hand[s].q.id
  <2>1. rows' = [rows EXCEPT ![i].live = FALSE] /\ Answer(s, TRUE, <<>>)
    BY <1>0, <1>6 DEF Write
  <2>2. i \in DOMAIN rows /\ rows[i] \in Row
    BY <1>0, <1>6, ElementOfSeq DEF Live
  <2>3. PICK r : r = [rows[i] EXCEPT !.live = FALSE]
    OBVIOUS
  <2>4. r \in Row /\ r.entry = rows[i].entry
    BY <2>2, <2>3 DEF Row
  <2>5. rows' = [rows EXCEPT ![i] = r]
    BY <1>0, <2>1, <2>2, <2>3
  <2> HIDE DEF i
  <2>6. i \in Live
    BY <1>6 DEF i
  <2>7. /\ rows' \in Seq(Row)
        /\ \A e \in 1 .. ChecklistSize : (Copies(e))' \subseteq Copies(e)
    BY <1>0, <2>4, <2>5, <2>6, RowUpdate
  <2> QED
    BY <1>0, <2>1, <2>7, OtherWrite
<1>7. CASE hand[s].q.op \in {"patch", "delete"} /\ hand[s].q.id \notin Live
  BY <1>0, <1>7, AnswerStep DEF Write
<1>8. CASE hand[s].q.op = "list"
  <2>1. UNCHANGED rows /\ \E got : Answer(s, TRUE, got)
    BY <1>0, <1>8 DEF Write
  <2> QED
    BY <1>0, <2>1, AnswerStep
<1>9. hand[s].q.op \in {"create", "seed", "patch", "delete", "list"}
  BY <1>2 DEF Request
<1> QED
  BY <1>3, <1>4, <1>5, <1>6, <1>7, <1>8, <1>9

----------------------------------------------------------------------------
(* The checklist is there once for each slot *)

LEMMA InitInv == Init => Inv
<1> SUFFICES ASSUME Init PROVE Inv
  OBVIOUS
<1>1. rows = <<>> /\ hand = [s \in Slots |-> Idle]
  BY DEF Init
<1>2. Shape
  BY <1>1, EmptySeq DEF Shape
<1>3. Seeding = {} /\ \A e \in 1 .. ChecklistSize : Copies(e) = {}
  BY <1>1 DEF Seeding, Idle, Copies
<1>4. Cardinality(Slots) \in Nat
  BY TasksAssumption, FS_CardinalityType
<1>5. /\ Cardinality(Seeding) = 0
      /\ \A e \in 1 .. ChecklistSize : Cardinality(Copies(e)) = 0
  BY <1>3, FS_EmptySet
<1>6. CopiesOK
  BY <1>4, <1>5 DEF CopiesOK
<1> QED
  BY <1>2, <1>6 DEF Inv

LEMMA NextInv == Inv /\ [Next]_vars => Inv'
<1> SUFFICES ASSUME Inv, [Next]_vars PROVE Inv'
  OBVIOUS
<1>1. CASE UNCHANGED <<rows, hand>>
  BY <1>1 DEF Inv, Shape, CopiesOK, Seeding, Copies
<1>2. CASE \E b \in Boards : Reload(b)
  BY <1>1, <1>2 DEF Reload
<1>3. ASSUME NEW s \in Slots, Check(s) PROVE Inv'
  BY <1>3, CheckStep
<1>4. ASSUME NEW s \in Slots, Write(s) PROVE Inv'
  BY <1>4, WriteStep
<1>5. ASSUME NEW s \in Slots,
             Answered(s) \/ RequestLost(s) \/ AnswerLost(s) \/ Unread(s) \/ Fail(s)
      PROVE  Inv'
  BY <1>5, EndStep
<1>6. ASSUME NEW s \in Slots,
             \/ \E due \in Due : CreateTask(s, due)
             \/ SeedTasks(s)
             \/ \E i \in DOMAIN rows : DeleteTask(s, i)
             \/ \E i \in DOMAIN rows, st \in Status : MoveStatus(s, i, st)
             \/ \E i \in DOMAIN rows, st \in Status, due \in Due : SaveEdit(s, i, st, due)
      PROVE  Inv'
  BY <1>6, CoupleStep
<1> QED
  BY <1>1, <1>2, <1>3, <1>4, <1>5, <1>6 DEF Next, vars

\* The checklist of seed-tasks/route.ts: an entry is never in the list more often
\* than functions may wait at once; one at a time, it is there once.
THEOREM SeededAtMostOncePerSlot == Spec => []SeedingBounded
<1>1. Inv => SeedingBounded
  <2> SUFFICES ASSUME Inv, NEW e \in 1 .. ChecklistSize
               PROVE  Cardinality(Copies(e)) <= Cardinality(Slots)
    BY DEF SeedingBounded
  <2>1. /\ Cardinality(Copies(e)) \in Nat /\ Cardinality(Seeding) \in Nat
        /\ Cardinality(Slots) \in Nat
    BY Finite DEF Inv, Shape
  <2> QED
    BY <2>1 DEF Inv, CopiesOK
<1> QED
  BY <1>1, InitInv, NextInv, PTL DEF Spec

----------------------------------------------------------------------------
(* The n-th of a set of numbers                                            *)

\* Each member of a set of numbers is the n-th for exactly one n: how many are
\* smaller tells the members apart, and there are as many values as members.
LEMMA NthCounts ==
  ASSUME NEW k \in Nat, NEW S \in SUBSET (1 .. k)
  PROVE  /\ IsFiniteSet(S) /\ Cardinality(S) \in Nat
         /\ \A n \in 1 .. Cardinality(S) : Nth(S, n) \in S
         /\ \A m, n \in 1 .. Cardinality(S) : Nth(S, m) = Nth(S, n) => m = n
         /\ \A i \in S : \E n \in 1 .. Cardinality(S) : Nth(S, n) = i
<1>1. IsFiniteSet(S)
  <2>1. IsFiniteSet(1 .. k)
    BY FS_Interval
  <2> QED
    BY <2>1, FS_Subset
<1>2. Cardinality(S) \in Nat
  BY <1>1, FS_CardinalityType
<1>3. PICK N \in Nat : N = Cardinality(S)
  BY <1>2
<1> DEFINE Below(i) == {j \in S : j < i}
<1>f. PICK f : f = [i \in S |-> Cardinality(Below(i))]
  OBVIOUS
<1>4. ASSUME NEW i \in S
      PROVE  /\ IsFiniteSet(Below(i)) /\ f[i] = Cardinality(Below(i)) /\ f[i] \in 0 .. N - 1
  <2>1. IsFiniteSet(S \ {i}) /\ Cardinality(S \ {i}) = N - 1
    BY <1>1, <1>3, FS_RemoveElement
  <2>2. Below(i) \subseteq S \ {i}
    BY DEF Below
  <2>3. IsFiniteSet(Below(i)) /\ Cardinality(Below(i)) <= N - 1
    BY <2>1, <2>2, FS_Subset
  <2>4. Cardinality(Below(i)) \in Nat
    BY <2>3, FS_CardinalityType
  <2> QED
    BY <1>3, <1>f, <2>3, <2>4
<1>5. ASSUME NEW i \in S, NEW j \in S, i < j PROVE f[i] # f[j]
  <2>0. i \in Int /\ j \in Int /\ S \subseteq Int
    OBVIOUS
  <2>a. (\A m \in S : m < i => m < j) /\ ~(i < i)
    BY <1>5, <2>0
  <2>1. Below(i) \subseteq Below(j) /\ i \in Below(j) /\ i \notin Below(i)
    BY <1>5, <2>a
  <2>2. Cardinality(Below(i)) # Cardinality(Below(j))
    BY <1>4, <2>1, FS_Subset
  <2> QED
    BY <1>4, <2>2
<1>6. IsFiniteSet(0 .. N - 1) /\ Cardinality(0 .. N - 1) = N
  <2>1. 0 \in Int /\ N - 1 \in Int
    OBVIOUS
  <2>2. /\ IsFiniteSet(0 .. N - 1)
        /\ Cardinality(0 .. N - 1) = IF 0 > N - 1 THEN 0 ELSE N - 1 - 0 + 1
    BY <2>1, FS_Interval
  <2> QED
    BY <2>2
<1>7. \A i, j \in S : f[i] = f[j] => i = j
  <2> SUFFICES ASSUME NEW i \in S, NEW j \in S, f[i] = f[j] PROVE i = j
    OBVIOUS
  <2>1. ~(i < j) /\ ~(j < i) /\ i \in Int /\ j \in Int
    BY <1>5
  <2> QED
    BY <2>1
<1>8. f \in [S -> 0 .. N - 1]
  BY <1>4, <1>f
<1>9. f \in Surjection(S, 0 .. N - 1)
  <2>1. f \in Injection(S, 0 .. N - 1)
    BY <1>7, <1>8 DEF Injection, IsInjective
  <2> QED
    BY <1>3, <1>6, <2>1, FS_Injection
<1>10. \A n \in 0 .. N - 1 : \E i \in S : f[i] = n
  <2> QED
    BY <1>9 DEF Surjection
<1>11. \A n \in 1 .. N : \E i \in S : Cardinality(Below(i)) = n - 1
  <2> SUFFICES ASSUME NEW n \in 1 .. N PROVE \E i \in S : f[i] = n - 1
    BY <1>4
  <2>1. n - 1 \in 0 .. N - 1
    BY <1>3
  <2> QED
    BY <1>10, <2>1
<1>12. \A n \in 1 .. N : Nth(S, n) \in S /\ f[Nth(S, n)] = n - 1
  BY <1>4, <1>11 DEF Nth
<1>13. ASSUME NEW i \in S PROVE \E n \in 1 .. N : Nth(S, n) = i
  <2>1. f[i] \in 0 .. N - 1
    BY <1>4
  <2>2. PICK n \in 1 .. N : n = f[i] + 1
    BY <2>1
  <2> QED
    <3>1. Nth(S, n) \in S /\ f[Nth(S, n)] = f[i]
      BY <1>12, <2>1, <2>2
    <3> QED
      BY <1>7, <3>1
<1>14. \A m, n \in 1 .. N : Nth(S, m) = Nth(S, n) => m = n
  BY <1>12
<1> QED
  BY <1>1, <1>3, <1>12, <1>13, <1>14

----------------------------------------------------------------------------
(* Lists of cards                                                          *)

Ids(cards) == {cards[n].id : n \in DOMAIN cards}

\* Cards of tasks that are, or were, there; each once.
CardsOK(cards) ==
  /\ cards \in Seq(Card)
  /\ Ids(cards) \subseteq DOMAIN rows
  /\ \A m, n \in DOMAIN cards : cards[m].id = cards[n].id => m = n

AgreesAt(cards, i) ==
  /\ i \in Ids(cards) <=> i \in Live
  /\ \A n \in DOMAIN cards : cards[n].id = i =>
       /\ cards[n].status = rows[i].status
       /\ cards[n].due = rows[i].due \/ rows[i].cleared

\* The cards tell the truth of what board b may know.
Agrees(cards, b) == \A i \in DOMAIN rows \ stale[b] : AgreesAt(cards, i)

\* They will when the change q is made.
Anticipates(cards, q, i) ==
  IF i # q.id THEN AgreesAt(cards, i)
  ELSE IF q.op = "delete" THEN i \notin Ids(cards)
  ELSE /\ i \in Ids(cards) <=> i \in Live
       /\ \A n \in DOMAIN cards : cards[n].id = i =>
            /\ cards[n].status = q.status
            /\ IF q.sendsDue THEN cards[n].due = q.due
               ELSE cards[n].due = rows[i].due \/ rows[i].cleared

WillAgree(cards, q, b) == \A i \in DOMAIN rows \ stale[b] : Anticipates(cards, q, i)

LEMMA CardFacts ==
  ASSUME NEW cards \in Seq(Card)
  PROVE  /\ DOMAIN cards = 1 .. Len(cards) /\ Len(cards) \in Nat
         /\ \A n \in DOMAIN cards : cards[n] \in Card
         /\ \A i : i \in Ids(cards) <=> \E n \in DOMAIN cards : cards[n].id = i
BY ElementOfSeq, LenProperties DEF Ids

LEMMA NoCards ==
  ASSUME NEW c, c = <<>>
  PROVE  CardsOK(c)
BY DEF CardsOK, Ids

\* A function that lists cards is a sequence.
LEMMA ListOfCards ==
  ASSUME NEW k \in Nat, NEW c \in [1 .. k -> Card]
  PROVE  c \in Seq(Card) /\ Len(c) = k /\ DOMAIN c = 1 .. k
<1>1. c \in Seq(Card)
  BY SeqDef
<1>2. DOMAIN c = 1 .. k
  OBVIOUS
<1>3. Len(c) = k
  BY <1>1, <1>2, LenProperties
<1> QED
  BY <1>1, <1>2, <1>3

\* The listing tells the truth of every task.
LEMMA ListingTrue ==
  ASSUME rows \in Seq(Row), NEW c, c = Listing
  PROVE  CardsOK(c) /\ \A i \in DOMAIN rows : AgreesAt(c, i)
<1>1. Len(rows) \in Nat /\ DOMAIN rows = 1 .. Len(rows) /\ \A i \in DOMAIN rows : rows[i] \in Row
  BY LenProperties, ElementOfSeq
<1>2. Live \in SUBSET (1 .. Len(rows))
  BY <1>1 DEF Live
<1>3. PICK N : N = Cardinality(Live)
  OBVIOUS
<1>4. /\ N \in Nat
      /\ \A n \in 1 .. N : Nth(Live, n) \in Live
      /\ \A m, n \in 1 .. N : Nth(Live, m) = Nth(Live, n) => m = n
      /\ \A i \in Live : \E n \in 1 .. N : Nth(Live, n) = i
  BY <1>1, <1>2, <1>3, NthCounts
<1>5. \A n \in 1 .. N : N + 1 - n \in 1 .. N
  BY <1>4
<1>6. \A i \in Live : CardOf(i) \in Card /\ CardOf(i).id = i
        /\ CardOf(i).status = rows[i].status /\ CardOf(i).due = rows[i].due
  BY <1>1, <1>2 DEF CardOf, Card, Row
<1>7. c = [n \in 1 .. N |-> CardOf(Nth(Live, N + 1 - n))]
  BY <1>3 DEF Listing
<1>8. c \in [1 .. N -> Card]
  BY <1>4, <1>5, <1>6, <1>7
<1>9. c \in Seq(Card) /\ DOMAIN c = 1 .. N
  BY <1>4, <1>8, ListOfCards
<1>10. \A n \in 1 .. N : c[n] = CardOf(Nth(Live, N + 1 - n)) /\ c[n].id = Nth(Live, N + 1 - n)
  BY <1>4, <1>5, <1>6, <1>7
<1>11. ASSUME NEW m \in 1 .. N, NEW n \in 1 .. N, c[m].id = c[n].id PROVE m = n
  <2>1. Nth(Live, N + 1 - m) = Nth(Live, N + 1 - n)
    BY <1>10, <1>11
  <2>2. N + 1 - m = N + 1 - n
    BY <1>4, <1>5, <2>1
  <2> QED
    BY <1>4, <2>2
<1>12. ASSUME NEW i \in Live PROVE \E n \in 1 .. N : c[n].id = i
  <2>1. PICK m \in 1 .. N : Nth(Live, m) = i
    BY <1>4
  <2>2. PICK n \in 1 .. N : n = N + 1 - m
    BY <1>5
  <2>3. N + 1 - n = m
    BY <1>4, <2>2
  <2> QED
    BY <1>10, <2>1, <2>2, <2>3
<1>13. \A n \in 1 .. N : c[n].id \in Live
  BY <1>4, <1>5, <1>10
<1>14. Ids(c) = Live
  BY <1>9, <1>12, <1>13 DEF Ids
<1>15. CardsOK(c)
  BY <1>2, <1>1, <1>9, <1>11, <1>14 DEF CardsOK
<1>16. ASSUME NEW n \in 1 .. N, NEW i \in DOMAIN rows, c[n].id = i
       PROVE  c[n].status = rows[i].status /\ c[n].due = rows[i].due
  <2>1. c[n] = CardOf(i) /\ i \in Live
    BY <1>10, <1>13, <1>16
  <2> QED
    BY <1>6, <2>1
<1> QED
  BY <1>9, <1>14, <1>15, <1>16 DEF AgreesAt

\* Removing a card removes its task and nothing else.
LEMMA WithoutCards ==
  ASSUME NEW cards, CardsOK(cards), NEW i, NEW c, c = Without(cards, i)
  PROVE  /\ CardsOK(c) /\ Ids(c) = Ids(cards) \ {i}
         /\ \A n \in DOMAIN c : \E m \in DOMAIN cards : c[n] = cards[m]
<1>1. /\ cards \in Seq(Card) /\ DOMAIN cards = 1 .. Len(cards) /\ Len(cards) \in Nat
      /\ \A n \in DOMAIN cards : cards[n] \in Card
  BY CardFacts DEF CardsOK
<1>2. PICK kept : kept = {n \in DOMAIN cards : cards[n].id # i}
  OBVIOUS
<1>3. kept \in SUBSET (1 .. Len(cards))
  BY <1>1, <1>2
<1>4. PICK N : N = Cardinality(kept)
  OBVIOUS
<1>5. /\ N \in Nat
      /\ \A n \in 1 .. N : Nth(kept, n) \in kept
      /\ \A m, n \in 1 .. N : Nth(kept, m) = Nth(kept, n) => m = n
      /\ \A j \in kept : \E n \in 1 .. N : Nth(kept, n) = j
  BY <1>1, <1>3, <1>4, NthCounts
<1>6. c = [n \in 1 .. N |-> cards[Nth(kept, n)]]
  BY <1>2, <1>4 DEF Without
<1>7. \A n \in 1 .. N : c[n] = cards[Nth(kept, n)] /\ Nth(kept, n) \in DOMAIN cards
  BY <1>2, <1>5, <1>6
<1>8. c \in [1 .. N -> Card]
  BY <1>1, <1>6, <1>7
<1>9. c \in Seq(Card) /\ DOMAIN c = 1 .. N
  BY <1>5, <1>8, ListOfCards
<1>10. Ids(c) = Ids(cards) \ {i}
  <2>1. ASSUME NEW j \in Ids(c) PROVE j \in Ids(cards) \ {i}
    <3>1. PICK n \in 1 .. N : c[n].id = j
      BY <1>9 DEF Ids
    <3>2. PICK m \in kept : c[n] = cards[m]
      BY <1>5, <1>7
    <3> QED
      BY <1>2, <3>1, <3>2 DEF Ids
  <2>2. ASSUME NEW j \in Ids(cards) \ {i} PROVE j \in Ids(c)
    <3>1. PICK m \in DOMAIN cards : cards[m].id = j
      BY DEF Ids
    <3>2. m \in kept
      BY <1>2, <2>2, <3>1
    <3>3. PICK n \in 1 .. N : Nth(kept, n) = m
      BY <1>5, <3>2
    <3> QED
      BY <1>7, <1>9, <3>1, <3>3 DEF Ids
  <2> QED
    BY <2>1, <2>2
<1>11. \A m, n \in DOMAIN c : c[m].id = c[n].id => m = n
  BY <1>5, <1>7, <1>9 DEF CardsOK
<1>12. CardsOK(c)
  BY <1>9, <1>10, <1>11 DEF CardsOK
<1> QED
  BY <1>7, <1>9, <1>10, <1>12

\* A change of cards in place, keeping their tasks.
LEMMA ChangedCards ==
  ASSUME NEW cards, CardsOK(cards), NEW c \in [DOMAIN cards -> Card],
         \A n \in DOMAIN cards : c[n].id = cards[n].id
  PROVE  CardsOK(c) /\ Ids(c) = Ids(cards) /\ DOMAIN c = DOMAIN cards
<1>1. /\ cards \in Seq(Card) /\ DOMAIN cards = 1 .. Len(cards) /\ Len(cards) \in Nat
  BY CardFacts DEF CardsOK
<1>2. c \in Seq(Card) /\ DOMAIN c = DOMAIN cards
  BY <1>1, ListOfCards
<1>3. Ids(c) = Ids(cards)
  BY <1>2 DEF Ids
<1> QED
  BY <1>2, <1>3 DEF CardsOK

\* A new task comes first.
LEMMA PrependedCards ==
  ASSUME NEW cards, CardsOK(cards), NEW got, CardsOK(got), Ids(got) \cap Ids(cards) = {},
         NEW c, c = got \o cards
  PROVE  /\ CardsOK(c) /\ Ids(c) = Ids(got) \cup Ids(cards)
<1>1. /\ cards \in Seq(Card) /\ DOMAIN cards = 1 .. Len(cards) /\ Len(cards) \in Nat
      /\ got \in Seq(Card) /\ DOMAIN got = 1 .. Len(got) /\ Len(got) \in Nat
  BY CardFacts DEF CardsOK
<1>2. /\ c \in Seq(Card) /\ Len(c) = Len(got) + Len(cards) /\ DOMAIN c = 1 .. Len(c)
      /\ \A n \in 1 .. Len(got) + Len(cards) :
           c[n] = IF n <= Len(got) THEN got[n] ELSE cards[n - Len(got)]
  BY <1>1, ConcatProperties, LenProperties
<1>3. ASSUME NEW n \in DOMAIN c
      PROVE  \/ n \in DOMAIN got /\ c[n] = got[n]
             \/ n - Len(got) \in DOMAIN cards /\ c[n] = cards[n - Len(got)]
  BY <1>1, <1>2
<1>4. \A n \in DOMAIN got : n \in DOMAIN c /\ c[n] = got[n]
  BY <1>1, <1>2
<1>5. ASSUME NEW n \in DOMAIN cards
      PROVE  \E m \in DOMAIN c : c[m] = cards[n]
  <2>1. PICK m \in Nat : m = n + Len(got)
    BY <1>1
  <2>2. m \in DOMAIN c /\ ~(m <= Len(got)) /\ m - Len(got) = n
    BY <1>1, <1>2, <2>1
  <2> QED
    BY <1>1, <1>2, <2>2
<1>6. Ids(c) = Ids(got) \cup Ids(cards)
  <2>1. \A i \in Ids(c) : i \in Ids(got) \cup Ids(cards)
    BY <1>3 DEF Ids
  <2>2. \A i \in Ids(got) : i \in Ids(c)
    BY <1>4 DEF Ids
  <2>3. \A i \in Ids(cards) : i \in Ids(c)
    BY <1>5 DEF Ids
  <2> QED
    BY <2>1, <2>2, <2>3
<1>7. ASSUME NEW m \in DOMAIN c, NEW n \in DOMAIN c, c[m].id = c[n].id PROVE m = n
  <2>1. \/ /\ m \in DOMAIN got /\ c[m] = got[m]
           /\ n \in DOMAIN got /\ c[n] = got[n]
        \/ /\ m - Len(got) \in DOMAIN cards /\ c[m] = cards[m - Len(got)]
           /\ n - Len(got) \in DOMAIN cards /\ c[n] = cards[n - Len(got)]
    <3>1. \A j \in DOMAIN got, k \in DOMAIN cards : got[j].id # cards[k].id
      BY DEF Ids
    <3> QED
      BY <1>3, <1>7, <3>1
  <2>2. m = n \/ m - Len(got) = n - Len(got)
    BY <1>7, <2>1 DEF CardsOK
  <2> QED
    BY <1>1, <1>2, <2>2
<1> QED
  BY <1>2, <1>6, <1>7 DEF CardsOK

----------------------------------------------------------------------------
(* What the boards show                                                    *)
(*                                                                         *)
(* With one function at a time on each board, a board that missed nothing  *)
(* shows the truth while it waits for nothing.  While it waits, the cards  *)
(* that a rollback would leave tell the truth until the write, the cards   *)
(* it shows anticipate the write, and from then on the cards that it will  *)
(* have after the answer tell the truth.                                   *)

Serial == \A r, s \in Slots : BoardOf[r] = BoardOf[s] => r = s

\* h waits for board b, which shows the cards c.
HandOK(h, c, b) ==
  /\ CardsOK(h.prev) /\ CardsOK(h.got)
  /\ h.q.op = "create" /\ h.pc = "answer" => Ids(h.got) \cap Ids(c) = {}
  /\ h.heard \/ b \in dirty

Foreseen(h, c, b) ==
  /\ h.q.op # "list" /\ (h.pc # "answer" \/ ~h.ok) =>
       Agrees(IF Restores(h.q) THEN h.prev ELSE c, b)
  /\ Restores(h.q) /\ h.pc # "answer" => WillAgree(c, h.q, b)
  /\ h.pc = "answer" /\ h.ok =>
       /\ Restores(h.q) => Agrees(c, b)
       /\ h.q.op = "create" => Agrees(h.got \o c, b)
       /\ h.q.op = "list" => Agrees(h.got, b)

HandsOK == \A s \in Slots : hand[s] # Idle =>
  /\ HandOK(hand[s], board[BoardOf[s]], BoardOf[s])
  /\ BoardOf[s] \notin dirty => Foreseen(hand[s], board[BoardOf[s]], BoardOf[s])

Settled == \A b \in Boards \ dirty :
  (\A s \in Slots : BoardOf[s] = b => hand[s] = Idle) => Agrees(board[b], b)

ViewInv == TypeOK /\ (\A b \in Boards : CardsOK(board[b])) /\ HandsOK /\ Settled

\* Where the rows did not change, what was true of cards still is.
LEMMA RowsFrame ==
  ASSUME NEW T, DOMAIN rows \subseteq DOMAIN rows',
         \A i \in DOMAIN rows' \ T : i \in DOMAIN rows /\ rows'[i] = rows[i]
  PROVE  /\ \A cards : CardsOK(cards) => CardsOK(cards)'
         /\ \A cards : \A i \in DOMAIN rows' \ T :
              /\ AgreesAt(cards, i) => AgreesAt(cards, i)'
              /\ \A q : Anticipates(cards, q, i) => Anticipates(cards, q, i)'
<1>1. \A i \in DOMAIN rows' \ T : i \in Live' <=> i \in Live
  BY DEF Live
<1>2. \A cards : CardsOK(cards) => CardsOK(cards)'
  BY DEF CardsOK, Ids
<1>3. ASSUME NEW cards, NEW i \in DOMAIN rows' \ T, AgreesAt(cards, i) PROVE AgreesAt(cards, i)'
  BY <1>1, <1>3 DEF AgreesAt, Ids
<1>4. ASSUME NEW cards, NEW i \in DOMAIN rows' \ T, NEW q, Anticipates(cards, q, i)
      PROVE  Anticipates(cards, q, i)'
  <2>1. CASE i # q.id
    BY <1>3, <1>4, <2>1 DEF Anticipates
  <2>2. CASE i = q.id
    BY <1>1, <1>4, <2>2 DEF Anticipates, Ids
  <2> QED
    BY <2>1, <2>2
<1> QED
  BY <1>2, <1>3, <1>4

\* So a board that learnt nothing of the changed rows T is as right as before.
LEMMA BoardFrame ==
  ASSUME NEW T, DOMAIN rows \subseteq DOMAIN rows',
         \A i \in DOMAIN rows' \ T : i \in DOMAIN rows /\ rows'[i] = rows[i],
         NEW b, stale[b] \cup T \subseteq stale'[b], b \in dirty' <=> b \in dirty
  PROVE  /\ \A cards : Agrees(cards, b) => Agrees(cards, b)'
         /\ \A cards, q : WillAgree(cards, q, b) => WillAgree(cards, q, b)'
         /\ \A h, c : HandOK(h, c, b) => HandOK(h, c, b)'
         /\ \A h, c : Foreseen(h, c, b) => Foreseen(h, c, b)'
<1>1. \A i \in DOMAIN rows' \ stale'[b] : i \in DOMAIN rows' \ T /\ i \in DOMAIN rows \ stale[b]
  OBVIOUS
<1>2. \A cards : Agrees(cards, b) => Agrees(cards, b)'
  BY <1>1, RowsFrame DEF Agrees
<1>3. \A cards, q : WillAgree(cards, q, b) => WillAgree(cards, q, b)'
  BY <1>1, RowsFrame DEF WillAgree
<1>4. \A h, c : HandOK(h, c, b) => HandOK(h, c, b)'
  BY RowsFrame DEF HandOK, Ids
<1>5. \A h, c : Foreseen(h, c, b) => Foreseen(h, c, b)'
  BY <1>2, <1>3 DEF Foreseen, Restores
<1> QED
  BY <1>2, <1>3, <1>4, <1>5

\* What holds of each function and the board it waits for holds of hand and board.
LEMMA HandsFit ==
  ASSUME \A r \in Slots : \A x, y, k :
           x = hand'[r] /\ y = board'[k] /\ k = BoardOf[r] /\ x # Idle =>
             HandOK(x, y, k)' /\ (k \notin dirty' => Foreseen(x, y, k)')
  PROVE  HandsOK'
<1> SUFFICES ASSUME NEW r \in Slots, hand'[r] # Idle
             PROVE  /\ HandOK(hand[r], board[BoardOf[r]], BoardOf[r])'
                    /\ BoardOf[r] \notin dirty' =>
                         Foreseen(hand[r], board[BoardOf[r]], BoardOf[r])'
  BY DEF HandsOK
<1>1. PICK x, y, k : x = hand'[r] /\ k = BoardOf[r] /\ y = board'[k]
  OBVIOUS
<1>2. HandOK(x, y, k)' /\ (k \notin dirty' => Foreseen(x, y, k)')
  BY <1>1
<1>3. HandOK(hand[r], board[BoardOf[r]], BoardOf[r])'
  BY <1>1, <1>2 DEF HandOK, CardsOK
<1>4. ASSUME k \notin dirty' PROVE Foreseen(hand[r], board[BoardOf[r]], BoardOf[r])'
  <2>0. board'[BoardOf[r]] = y /\ hand'[r] = x /\ BoardOf[r] = k
    BY <1>1
  <2>1. Foreseen(x, y, k)'
    BY <1>2, <1>4
  <2>2. Agrees(board[BoardOf[r]], BoardOf[r])' <=> Agrees(y, k)'
    BY <2>0 DEF Agrees, AgreesAt
  <2>3. Agrees(hand[r].prev, BoardOf[r])' <=> Agrees(x.prev, k)'
    BY <2>0 DEF Agrees, AgreesAt
  <2>4. Agrees(hand[r].got, BoardOf[r])' <=> Agrees(x.got, k)'
    BY <2>0 DEF Agrees, AgreesAt
  <2>5. Agrees(hand[r].got \o board[BoardOf[r]], BoardOf[r])' <=> Agrees(x.got \o y, k)'
    <3>1. PICK z : z = x.got \o y /\ z = hand'[r].got \o board'[BoardOf[r]]
      BY <2>0
    <3>2. Agrees(z, k)' <=> Agrees(x.got \o y, k)'
      BY <3>1 DEF Agrees, AgreesAt
    <3>3. z = hand'[r].got \o board'[BoardOf[r]] /\ BoardOf[r] = k
      BY <2>0, <3>1
    <3>4. Agrees(z, BoardOf[r])' <=> Agrees(hand[r].got \o board[BoardOf[r]], BoardOf[r])'
      BY <3>3 DEF Agrees, AgreesAt
    <3>5. Agrees(z, BoardOf[r])' <=> Agrees(z, k)'
      BY <3>3
    <3> QED
      BY <3>2, <3>4, <3>5
  <2>6. WillAgree(board[BoardOf[r]], hand[r].q, BoardOf[r])' <=> WillAgree(y, x.q, k)'
    BY <2>0 DEF WillAgree, Anticipates, AgreesAt
  <2>7. Agrees(IF Restores(hand[r].q) THEN hand[r].prev ELSE board[BoardOf[r]], BoardOf[r])'
        <=> Agrees(IF Restores(x.q) THEN x.prev ELSE y, k)'
    BY <2>0 DEF Agrees, AgreesAt, Restores
  <2> QED
    BY <2>0, <2>1, <2>2, <2>3, <2>4, <2>5, <2>6, <2>7 DEF Foreseen, Restores
<1> QED
  BY <1>1, <1>3, <1>4

\* Nothing changes but the rows T and what board b knows.
ChangesOnly(b, T) ==
  /\ rows' \in Seq(Row) /\ DOMAIN rows \subseteq DOMAIN rows'
  /\ \A i \in DOMAIN rows' \ T : i \in DOMAIN rows /\ rows'[i] = rows[i]
  /\ stale' \in [Boards -> SUBSET Nat]
  /\ \A k \in Boards \ {b} : stale[k] \cup T \subseteq stale'[k]
  /\ dirty' \subseteq Boards /\ \A k \in Boards \ {b} : k \in dirty' <=> k \in dirty
  /\ count' \in Nat

ThenShows(b, c) == board' = [board EXCEPT ![b] = c] /\ CardsOK(c)'

Fits(h, c, b) ==
  IF h = Idle THEN b \notin dirty => Agrees(c, b)
  ELSE HandOK(h, c, b) /\ (b \notin dirty => Foreseen(h, c, b))

\* A step of the functions of board b, which then shows the cards c.
LEMMA BoardStep ==
  ASSUME ViewInv, NEW b \in Boards, NEW c, ThenShows(b, c), NEW T, ChangesOnly(b, T),
         NEW H \in [Slots -> {Idle} \cup Busy], hand' = H,
         \A r \in Slots : BoardOf[r] # b => H[r] = hand[r],
         \A r \in Slots : BoardOf[r] = b => Fits(H[r], c, b)',
         (\A r \in Slots : BoardOf[r] # b) => Fits(Idle, c, b)'
  PROVE  ViewInv'
<1>10. CardsOK(c)' /\ board' = [board EXCEPT ![b] = c]
  BY DEF ThenShows
<1>8. /\ rows' \in Seq(Row) /\ DOMAIN rows \subseteq DOMAIN rows'
      /\ \A i \in DOMAIN rows' \ T : i \in DOMAIN rows /\ rows'[i] = rows[i]
      /\ stale' \in [Boards -> SUBSET Nat]
      /\ \A k \in Boards \ {b} : stale[k] \cup T \subseteq stale'[k]
      /\ dirty' \subseteq Boards /\ \A k \in Boards \ {b} : k \in dirty' <=> k \in dirty
      /\ count' \in Nat
  BY DEF ChangesOnly
<1>9. /\ \A r \in Slots : BoardOf[r] = b /\ H[r] # Idle =>
           HandOK(H[r], c, b)' /\ (b \notin dirty' => Foreseen(H[r], c, b)')
      /\ (\A r \in Slots : BoardOf[r] = b => H[r] = Idle) /\ b \notin dirty' => Agrees(c, b)'
  BY DEF Fits
<1>0. TypeOK
  BY DEF ViewInv
<1>1. \A r \in Slots : BoardOf[r] # b => H[r] = hand[r] /\ BoardOf[r] \in Boards \ {b}
  BY TasksAssumption
<1>2. board'[b] = c /\ \A k \in Boards \ {b} : board'[k] = board[k]
  BY <1>0, <1>10 DEF TypeOK
<1>3. TypeOK'
  <2>1. board' \in [Boards -> Seq(Card)]
    BY <1>0, <1>2, <1>10 DEF TypeOK, CardsOK
  <2> QED
    BY <1>0, <2>1, <1>1, <1>8 DEF TypeOK
<1>4. \A k \in Boards : CardsOK(board[k])'
  <2> SUFFICES ASSUME NEW k \in Boards PROVE CardsOK(board[k])'
    OBVIOUS
  <2>1. CASE k = b
    BY <1>2, <2>1, <1>10 DEF CardsOK, Ids
  <2>2. CASE k # b
    <3>1. CardsOK(board[k]) /\ board'[k] = board[k]
      BY <1>2, <2>2 DEF ViewInv
    <3>2. PICK x : x = board[k]
      OBVIOUS
    <3>3. CardsOK(x)'
      BY <3>1, <3>2, RowsFrame, <1>8
    <3> QED
      BY <3>1, <3>2, <3>3 DEF CardsOK, Ids
  <2> QED
    BY <2>1, <2>2
<1>5. ASSUME NEW r \in Slots, hand'[r] # Idle, NEW x, NEW y, NEW k,
             x = hand'[r], y = board'[k], k = BoardOf[r]
      PROVE  HandOK(x, y, k)' /\ (k \notin dirty' => Foreseen(x, y, k)')
  <2>1. CASE k = b
    <3>1. y = c
      BY <1>2, <1>5, <2>1
    <3> QED
      BY <1>5, <2>1, <3>1, <1>9
  <2>2. CASE k # b
    <3>1. k \in Boards \ {b} /\ x = hand[r] /\ y = board[k]
      BY <1>1, <1>2, <1>5, <2>2
    <3>2. HandOK(x, y, k) /\ (k \notin dirty => Foreseen(x, y, k))
      BY <1>1, <1>5, <2>2, <3>1 DEF ViewInv, HandsOK
    <3> QED
      BY <3>1, <3>2, BoardFrame, <1>8
  <2> QED
    BY <2>1, <2>2
<1>6. HandsOK'
  BY <1>5, HandsFit
<1>7. Settled'
  <2> SUFFICES ASSUME NEW k \in Boards, k \notin dirty',
                      \A r \in Slots : BoardOf[r] = k => hand'[r] = Idle
               PROVE  Agrees(board[k], k)'
    BY DEF Settled
  <2>1. PICK y : y = board'[k]
    OBVIOUS
  <2>2. Agrees(y, k)'
    <3>1. CASE k = b
      BY <1>2, <2>1, <3>1, <1>9
    <3>2. CASE k # b
      <4>1. y = board[k] /\ k \notin dirty
        BY <1>2, <2>1, <3>2, <1>8
      <4>2. \A r \in Slots : BoardOf[r] = k => hand[r] = Idle
        BY <1>1, <3>2
      <4>3. Agrees(y, k)
        BY <4>1, <4>2 DEF ViewInv, Settled
      <4> QED
        BY <3>2, <4>3, BoardFrame, <1>8
    <3> QED
      BY <3>1, <3>2
  <2> QED
    BY <2>1, <2>2 DEF Agrees, AgreesAt, Ids
<1> QED
  BY <1>3, <1>4, <1>6, <1>7 DEF ViewInv

\* With one slot on each board: slot s becomes h.
LEMMA SlotStep ==
  ASSUME Serial, ViewInv, NEW s \in Slots, NEW b, b = BoardOf[s],
         NEW h \in {Idle} \cup Busy, hand' = [hand EXCEPT ![s] = h],
         NEW c, ThenShows(b, c), NEW T, ChangesOnly(b, T), Fits(h, c, b)'
  PROVE  ViewInv'
<1>1. b \in Boards
  BY TasksAssumption
<1>2. /\ hand'[s] = h /\ hand' \in [Slots -> {Idle} \cup Busy]
      /\ \A r \in Slots : BoardOf[r] # b => hand'[r] = hand[r]
      /\ \A r \in Slots : BoardOf[r] = b => r = s
  BY DEF ViewInv, TypeOK, Serial
<1>3. PICK H : H = hand'
  OBVIOUS
<1>4. \A r \in Slots : BoardOf[r] = b => Fits(H[r], c, b)'
  <2> SUFFICES ASSUME NEW r \in Slots, BoardOf[r] = b PROVE Fits(H[r], c, b)'
    OBVIOUS
  <2>1. H[r] = h
    BY <1>2, <1>3
  <2> QED
    BY <2>1
<1>5. H \in [Slots -> {Idle} \cup Busy] /\ \A r \in Slots : BoardOf[r] # b => H[r] = hand[r]
  BY <1>2, <1>3
<1>6. ~(\A r \in Slots : BoardOf[r] # b)
  OBVIOUS
<1> QED
  BY <1>1, <1>3, <1>4, <1>5, <1>6, BoardStep

----------------------------------------------------------------------------
(* Steps of the boards, one by one                                         *)

LEMMA SlotFacts ==
  ASSUME ViewInv, NEW s \in Slots, NEW b, b = BoardOf[s], NEW c, c = board[b],
         NEW h, h = hand[s]
  PROVE  /\ b \in Boards /\ CardsOK(c) /\ h \in {Idle} \cup Busy
         /\ h # Idle => h \in Busy /\ HandOK(h, c, b) /\ (b \notin dirty => Foreseen(h, c, b))
         /\ board = [board EXCEPT ![b] = c] /\ hand = [hand EXCEPT ![s] = h]
<1>1. b \in Boards
  BY TasksAssumption
<1>2. CardsOK(c) /\ h \in {Idle} \cup Busy
  BY <1>1 DEF ViewInv, TypeOK
<1>3. h # Idle => HandOK(h, c, b) /\ (b \notin dirty => Foreseen(h, c, b))
  BY DEF ViewInv, HandsOK
<1>4. board = [board EXCEPT ![b] = c] /\ hand = [hand EXCEPT ![s] = h]
  BY <1>1 DEF ViewInv, TypeOK
<1> QED
  BY <1>1, <1>2, <1>3, <1>4

\* What the answer of a handler leaves alone.
LEMMA AnswerFields ==
  ASSUME TypeOK, NEW s \in Slots, NEW h \in Busy, h = hand[s], NEW ok \in BOOLEAN,
         NEW got \in Seq(Card), Answer(s, ok, got)
  PROVE  \E x \in Busy :
           /\ hand' = [hand EXCEPT ![s] = x] /\ x # Idle
           /\ x.pc = "answer" /\ x.ok = ok /\ x.got = got
           /\ x.q = h.q /\ x.prev = h.prev /\ x.heard = h.heard
<1>1. PICK x : x = [h EXCEPT !.pc = "answer", !.ok = ok, !.got = got]
  OBVIOUS
<1>2. x \in Busy /\ x.pc = "answer" /\ x.ok = ok /\ x.got = got
      /\ x.q = h.q /\ x.prev = h.prev /\ x.heard = h.heard
  BY <1>1 DEF Busy
<1>3. x # Idle
  BY <1>2 DEF Idle
<1>4. hand' = [hand EXCEPT ![s] = x]
  BY <1>1 DEF Answer, TypeOK
<1> QED
  BY <1>2, <1>3, <1>4

LEMMA BusyFacts ==
  ASSUME NEW h \in {Idle} \cup Busy, h.pc \in {"check", "write", "answer"}
  PROVE  /\ h \in Busy /\ h # Idle /\ h.q \in Request /\ h.prev \in Seq(Card)
         /\ h.got \in Seq(Card)
         /\ h.q.op \in {"create", "seed", "patch", "delete", "list"}
BY DEF Busy, Idle, Request

\* The rows stay as they are.
LEMMA SameRows ==
  ASSUME ViewInv, UNCHANGED <<rows, stale, dirty>>, count' \in Nat, NEW b \in Boards
  PROVE  /\ ChangesOnly(b, {})
         /\ \A c : CardsOK(c) /\ board' = [board EXCEPT ![b] = c] => ThenShows(b, c)
         /\ \A h, c : h # Idle /\ HandOK(h, c, b) /\ (b \notin dirty => Foreseen(h, c, b))
                        => Fits(h, c, b)'
<1>1. ChangesOnly(b, {})
  BY DEF ChangesOnly, ViewInv, TypeOK
<1>2. \A c : CardsOK(c) /\ board' = [board EXCEPT ![b] = c] => ThenShows(b, c)
  BY RowsFrame DEF ThenShows
<1>3. \A h, c : /\ HandOK(h, c, b) => HandOK(h, c, b)'
                /\ Foreseen(h, c, b) => Foreseen(h, c, b)'
  BY BoardFrame
<1>4. ASSUME NEW h, NEW c, h # Idle, HandOK(h, c, b), b \notin dirty => Foreseen(h, c, b)
      PROVE  Fits(h, c, b)'
  BY <1>3, <1>4 DEF Fits
<1> QED
  BY <1>1, <1>2, <1>4

\* A handler that goes on without writing: nothing was found to write, or the
\* statement failed.
LEMMA UnwrittenStep ==
  ASSUME Serial, ViewInv, NEW s \in Slots, hand[s].pc \in {"check", "write"},
         UNCHANGED <<rows, board, stale, dirty, count>>,
         \/ hand' = [hand EXCEPT ![s].pc = "write"]
         \/ Answer(s, FALSE, <<>>)
         \/ hand[s].q.op = "seed" /\ Answer(s, TRUE, <<>>)
  PROVE  ViewInv'
<1>1. PICK b, c, h : b = BoardOf[s] /\ c = board[b] /\ h = hand[s]
  OBVIOUS
<1>2. /\ b \in Boards /\ CardsOK(c) /\ h \in Busy
      /\ HandOK(h, c, b) /\ (b \notin dirty => Foreseen(h, c, b))
      /\ board = [board EXCEPT ![b] = c] /\ h.pc \in {"check", "write"}
  BY <1>1, SlotFacts, BusyFacts
<1>3. PICK x \in Busy :
        /\ hand' = [hand EXCEPT ![s] = x] /\ x # Idle
        /\ x.q = h.q /\ x.prev = h.prev /\ x.heard = h.heard
        /\ \/ x.pc = "write" /\ x.got = h.got
           \/ x.pc = "answer" /\ x.got = <<>> /\ (x.ok => h.q.op = "seed")
  <2>0. TypeOK /\ <<>> \in Seq(Card)
    BY EmptySeq DEF ViewInv
  <2>1. CASE hand' = [hand EXCEPT ![s].pc = "write"]
    <3>1. PICK x : x = [h EXCEPT !.pc = "write"]
      OBVIOUS
    <3>2. x \in Busy /\ x.pc = "write" /\ x.got = h.got
          /\ x.q = h.q /\ x.prev = h.prev /\ x.heard = h.heard
      BY <1>2, <3>1 DEF Busy
    <3>3. x # Idle /\ hand' = [hand EXCEPT ![s] = x]
      BY <1>1, <2>0, <2>1, <3>1, <3>2 DEF Idle, TypeOK
    <3> QED
      BY <3>2, <3>3
  <2>2. CASE \E ok \in BOOLEAN : Answer(s, ok, <<>>) /\ (ok => h.q.op = "seed")
    <3>1. PICK ok \in BOOLEAN : Answer(s, ok, <<>>) /\ (ok => h.q.op = "seed")
      BY <2>2
    <3>2. PICK got \in Seq(Card) : got = <<>>
      BY <2>0
    <3>3. Answer(s, ok, got)
      BY <3>1, <3>2
    <3>4. PICK x \in Busy :
            /\ hand' = [hand EXCEPT ![s] = x] /\ x # Idle
            /\ x.pc = "answer" /\ x.ok = ok /\ x.got = got
            /\ x.q = h.q /\ x.prev = h.prev /\ x.heard = h.heard
      BY <1>1, <1>2, <2>0, <3>3, AnswerFields
    <3> QED
      BY <3>1, <3>2, <3>4
  <2> QED
    BY <1>1, <2>1, <2>2
<1>4. HandOK(x, c, b)
  BY <1>2, <1>3, NoCards DEF HandOK, Ids
<1>5. b \notin dirty => Foreseen(x, c, b)
  BY <1>2, <1>3 DEF Foreseen, Restores
<1>6. ThenShows(b, c) /\ ChangesOnly(b, {}) /\ Fits(x, c, b)'
  <2>1. count' \in Nat
    BY DEF ViewInv, TypeOK
  <2> QED
    BY <1>2, <1>3, <1>4, <1>5, <2>1, SameRows
<1> QED
  BY <1>1, <1>3, <1>6, SlotStep

\* The end of a function: the board then shows the cards x.
LEMMA EndView ==
  ASSUME Serial, ViewInv, NEW s \in Slots, NEW b, b = BoardOf[s], NEW x, CardsOK(x),
         hand' = [hand EXCEPT ![s] = Idle], board' = [board EXCEPT ![b] = x],
         UNCHANGED <<rows, stale, count>>,
         dirty' = dirty \/ dirty' = dirty \cup {b},
         b \notin dirty' => Agrees(x, b)
  PROVE  ViewInv'
<1>1. b \in Boards
  BY TasksAssumption
<1>2. ChangesOnly(b, {})
  BY <1>1 DEF ChangesOnly, ViewInv, TypeOK
<1>3. ThenShows(b, x)
  BY RowsFrame DEF ThenShows
<1>4. Fits(Idle, x, b)'
  <2>1. Agrees(x, b) => Agrees(x, b)'
    BY DEF Agrees, AgreesAt, Live
  <2> QED
    BY <2>1 DEF Fits
<1> QED
  BY <1>2, <1>3, <1>4, SlotStep

LEMMA AnsweredView ==
  ASSUME Serial, ViewInv, NEW s \in Slots, Answered(s)
  PROVE  ViewInv'
<1>1. PICK b, c, h : b = BoardOf[s] /\ c = board[b] /\ h = hand[s]
  OBVIOUS
<1>2. h.pc = "answer" /\ h.heard /\ UNCHANGED <<rows, stale, count>>
  BY <1>1 DEF Answered
<1>3. /\ b \in Boards /\ CardsOK(c) /\ h \in Busy
      /\ h.q.op \in {"create", "seed", "patch", "delete", "list"}
      /\ HandOK(h, c, b) /\ (b \notin dirty => Foreseen(h, c, b))
      /\ board = [board EXCEPT ![b] = c]
  BY <1>1, <1>2, SlotFacts, BusyFacts
<1>4. CardsOK(h.prev) /\ CardsOK(h.got)
  BY <1>3 DEF HandOK
<1>5. CASE ~h.ok
  <2>1. /\ board' = IF Restores(h.q) THEN [board EXCEPT ![b] = h.prev] ELSE board
        /\ hand' = [hand EXCEPT ![s] = Idle]
        /\ dirty' = IF h.q.op = "list" THEN dirty \cup {b} ELSE dirty
    BY <1>1, <1>5 DEF Answered, Rollback, MissesRefresh
  <2>2. PICK x : x = IF Restores(h.q) THEN h.prev ELSE c
    OBVIOUS
  <2>3. CardsOK(x) /\ board' = [board EXCEPT ![b] = x]
    BY <1>3, <1>4, <2>1, <2>2
  <2>4. b \notin dirty' => Agrees(x, b)
    BY <1>3, <1>5, <2>1, <2>2 DEF Foreseen
  <2> QED
    BY <1>1, <1>2, <2>1, <2>3, <2>4, EndView
<1>6. CASE h.ok /\ h.q.op # "seed"
  <2>1. /\ hand' = [hand EXCEPT ![s] = Idle] /\ dirty' = dirty
    BY <1>1, <1>6 DEF Answered, MissesRefresh
  <2>2. CASE h.q.op = "create"
    <3>1. PICK x : x = h.got \o c
      OBVIOUS
    <3>2. board' = [board EXCEPT ![b] = x]
      BY <1>1, <1>6, <2>2, <3>1 DEF Answered, Confirm
    <3>3. CardsOK(x)
      <4>1. Ids(h.got) \cap Ids(c) = {}
        BY <1>2, <1>3, <2>2 DEF HandOK
      <4> QED
        BY <1>3, <1>4, <3>1, <4>1, PrependedCards
    <3>4. b \notin dirty' => Agrees(x, b)
      BY <1>2, <1>3, <1>6, <2>1, <2>2, <3>1 DEF Foreseen
    <3> QED
      BY <1>1, <1>2, <2>1, <3>2, <3>3, <3>4, EndView
  <2>3. CASE h.q.op = "list"
    <3>1. PICK x : x = h.got
      OBVIOUS
    <3>2. board' = [board EXCEPT ![b] = x] /\ CardsOK(x)
      BY <1>1, <1>4, <1>6, <2>3, <3>1 DEF Answered, Confirm
    <3>3. b \notin dirty' => Agrees(x, b)
      BY <1>2, <1>3, <1>6, <2>1, <2>3, <3>1 DEF Foreseen
    <3> QED
      BY <1>1, <1>2, <2>1, <3>2, <3>3, EndView
  <2>4. CASE h.q.op \in {"patch", "delete"}
    <3>1. board' = [board EXCEPT ![b] = c]
      BY <1>1, <1>3, <1>6, <2>4 DEF Answered, Confirm
    <3>2. b \notin dirty' => Agrees(c, b)
      BY <1>2, <1>3, <1>6, <2>1, <2>4 DEF Foreseen, Restores
    <3> QED
      BY <1>1, <1>2, <1>3, <2>1, <3>1, <3>2, EndView
  <2> QED
    BY <1>3, <1>6, <2>2, <2>3, <2>4
<1>7. CASE h.ok /\ h.q.op = "seed"
  <2>1. PICK x : x = Starting(s, [op |-> "list"], "write")
    OBVIOUS
  <2>2. /\ hand' = [hand EXCEPT ![s] = x] /\ dirty' = dirty /\ board' = [board EXCEPT ![b] = c]
    BY <1>1, <1>3, <1>7, <2>1 DEF Answered, Confirm, MissesRefresh
  <2>3. /\ x.pc = "write" /\ x.q.op = "list" /\ x.q = [op |-> "list"] /\ x.prev = <<>>
        /\ x.got = <<>> /\ x.heard = TRUE
    BY <2>1 DEF Starting, Restores
  <2>4. x \in Busy /\ x # Idle
    <3>1. [op |-> "list"] \in Request /\ <<>> \in Seq(Card)
      BY EmptySeq DEF Request
    <3> QED
      BY <2>1, <3>1 DEF Starting, Restores, Busy, Idle
  <2>5. HandOK(x, c, b) /\ Foreseen(x, c, b)
    BY <2>3, NoCards DEF HandOK, Foreseen, Restores
  <2>6. count' \in Nat
    BY <1>2 DEF ViewInv, TypeOK
  <2>7. ThenShows(b, c) /\ ChangesOnly(b, {}) /\ Fits(x, c, b)'
    BY <1>2, <1>3, <2>2, <2>4, <2>5, <2>6, SameRows
  <2> QED
    BY <1>1, <2>2, <2>4, <2>7, SlotStep
<1> QED
  BY <1>5, <1>6, <1>7

\* A request or an answer that is lost, an answer that nobody reads.
LEMMA LostView ==
  ASSUME Serial, ViewInv, NEW s \in Slots, RequestLost(s) \/ AnswerLost(s) \/ Unread(s)
  PROVE  ViewInv'
<1>1. PICK b, c, h : b = BoardOf[s] /\ c = board[b] /\ h = hand[s]
  OBVIOUS
<1>2. h # Idle /\ UNCHANGED <<rows, stale, count>>
  BY <1>1 DEF RequestLost, AnswerLost, Unread, Idle
<1>3. /\ b \in Boards /\ CardsOK(c) /\ h \in Busy
      /\ HandOK(h, c, b) /\ (b \notin dirty => Foreseen(h, c, b))
      /\ board = [board EXCEPT ![b] = c] /\ CardsOK(h.prev) /\ CardsOK(h.got)
  BY <1>1, <1>2, SlotFacts DEF HandOK
<1>4. CASE RequestLost(s)
  <2>1. /\ board' = IF Restores(h.q) THEN [board EXCEPT ![b] = h.prev] ELSE board
        /\ hand' = [hand EXCEPT ![s] = Idle]
        /\ dirty' = IF h.q.op = "list" THEN dirty \cup {b} ELSE dirty
        /\ h.pc # "answer"
    BY <1>1, <1>4 DEF RequestLost, Rollback
  <2>2. PICK x : x = IF Restores(h.q) THEN h.prev ELSE c
    OBVIOUS
  <2>3. CardsOK(x) /\ board' = [board EXCEPT ![b] = x]
    BY <1>3, <2>1, <2>2
  <2>4. b \notin dirty' => Agrees(x, b)
    BY <1>3, <2>1, <2>2 DEF Foreseen
  <2> QED
    BY <1>1, <1>2, <2>1, <2>3, <2>4, EndView
<1>5. CASE AnswerLost(s)
  <2>1. /\ board' = IF Restores(h.q) THEN [board EXCEPT ![b] = h.prev] ELSE board
        /\ hand' = [hand EXCEPT ![s].heard = FALSE, ![s].prev = <<>>]
        /\ dirty' = dirty \cup {b}
    BY <1>1, <1>5 DEF AnswerLost, Rollback
  <2>2. PICK x : x = IF Restores(h.q) THEN h.prev ELSE c
    OBVIOUS
  <2>3. CardsOK(x) /\ board' = [board EXCEPT ![b] = x]
    BY <1>3, <2>1, <2>2
  <2>4. PICK y : y = [h EXCEPT !.heard = FALSE, !.prev = <<>>]
    OBVIOUS
  <2>5. y \in Busy /\ y.prev = <<>> /\ y.q = h.q /\ y.pc = h.pc /\ y.got = h.got
    <3>1. <<>> \in Seq(Card)
      BY EmptySeq
    <3> QED
      BY <1>3, <2>4, <3>1 DEF Busy
  <2>6. y # Idle /\ hand' = [hand EXCEPT ![s] = y]
    <3>1. y # Idle
      BY <2>5 DEF Busy, Idle
    <3> QED
      BY <1>1, <2>1, <2>4, <3>1 DEF ViewInv, TypeOK
  <2>7. ThenShows(b, x)
    BY <1>2, <2>3, RowsFrame DEF ThenShows
  <2>8. ChangesOnly(b, {})
    BY <1>2, <1>3, <2>1 DEF ChangesOnly, ViewInv, TypeOK
  <2>9. CardsOK(h.got)' /\ CardsOK(y.prev)'
    BY <1>2, <1>3, <2>5, RowsFrame, NoCards
  <2>10. Fits(y, x, b)'
    <3>1. y.q.op = "create" /\ y.pc = "answer" => Ids(y.got) \cap Ids(x) = {}
      BY <1>3, <2>2, <2>5 DEF HandOK, Restores
    <3>2. CardsOK(y.prev)' /\ CardsOK(y.got)' /\ b \in dirty'
      BY <2>1, <2>5, <2>9
    <3> QED
      BY <2>6, <3>1, <3>2 DEF Fits, HandOK
  <2> QED
    BY <1>1, <2>5, <2>6, <2>7, <2>8, <2>10, SlotStep
<1>6. CASE Unread(s)
  <2>1. /\ hand' = [hand EXCEPT ![s] = Idle] /\ dirty' = dirty /\ ~h.heard
        /\ board' = [board EXCEPT ![b] = c]
    BY <1>1, <1>3, <1>6 DEF Unread
  <2>2. b \in dirty
    BY <1>3, <2>1 DEF HandOK
  <2> QED
    BY <1>1, <1>2, <1>3, <2>1, <2>2, EndView
<1> QED
  BY <1>4, <1>5, <1>6

LEMMA ReloadView ==
  ASSUME ViewInv, NEW b \in Boards, Reload(b)
  PROVE  ViewInv'
<1>1. PICK c : c = Listing
  OBVIOUS
<1>2. /\ UNCHANGED <<rows, hand, count>> /\ board' = [board EXCEPT ![b] = c]
      /\ stale' = [stale EXCEPT ![b] = {}] /\ dirty' = dirty \ {b}
      /\ \A r \in Slots : BoardOf[r] = b => hand[r] = Idle
  BY <1>1 DEF Reload
<1>3. CardsOK(c) /\ \A i \in DOMAIN rows : AgreesAt(c, i)
  BY <1>1, ListingTrue DEF ViewInv, TypeOK
<1>4. ThenShows(b, c)
  BY <1>2, <1>3, RowsFrame DEF ThenShows
<1>5. ChangesOnly(b, {})
  BY <1>2 DEF ChangesOnly, ViewInv, TypeOK
<1>6. Fits(Idle, c, b)'
  <2>1. \A i \in DOMAIN rows : AgreesAt(c, i)'
    BY <1>2, <1>3, RowsFrame
  <2> QED
    BY <1>2, <2>1 DEF Fits, Agrees
<1>7. PICK H : H = hand
  OBVIOUS
<1>8. /\ H \in [Slots -> {Idle} \cup Busy] /\ hand' = H
      /\ \A r \in Slots : BoardOf[r] # b => H[r] = hand[r]
      /\ \A r \in Slots : BoardOf[r] = b => Fits(H[r], c, b)'
  <2>1. H \in [Slots -> {Idle} \cup Busy] /\ hand' = H
    BY <1>2, <1>7 DEF ViewInv, TypeOK
  <2>2. \A r \in Slots : BoardOf[r] = b => H[r] = Idle
    BY <1>2, <1>7
  <2> QED
    BY <1>6, <1>7, <2>1, <2>2
<1> QED
  BY <1>4, <1>5, <1>6, <1>8, BoardStep

\* The answer of a write: the rows T changed, and x is the function with its answer.
LEMMA WrittenStep ==
  ASSUME Serial, ViewInv, NEW s \in Slots, NEW b, b = BoardOf[s], NEW c, c = board[b],
         NEW h, h = hand[s], h.pc = "write", UNCHANGED <<board, dirty, count>>,
         NEW ok \in BOOLEAN, NEW got, Answer(s, ok, got), CardsOK(got)',
         h.q.op = "create" => Ids(got) \cap Ids(c) = {},
         NEW T, ChangesOnly(b, T),
         b \notin dirty /\ Foreseen(h, c, b) =>
           /\ h.q.op # "list" /\ ~ok => Agrees(IF Restores(h.q) THEN h.prev ELSE c, b)'
           /\ ok => /\ Restores(h.q) => Agrees(c, b)'
                    /\ h.q.op = "create" => Agrees(got \o c, b)'
                    /\ h.q.op = "list" => Agrees(got, b)'
  PROVE  ViewInv'
<1>1. /\ b \in Boards /\ CardsOK(c) /\ h \in Busy
      /\ HandOK(h, c, b) /\ (b \notin dirty => Foreseen(h, c, b))
      /\ board = [board EXCEPT ![b] = c]
  BY SlotFacts, BusyFacts
<1>2. PICK x \in Busy :
        /\ hand' = [hand EXCEPT ![s] = x] /\ x # Idle
        /\ x.pc = "answer" /\ x.ok = ok /\ x.got = got
        /\ x.q = h.q /\ x.prev = h.prev /\ x.heard = h.heard
  <2>1. got \in Seq(Card) /\ TypeOK
    BY DEF CardsOK, ViewInv
  <2> QED
    BY <1>1, <2>1, AnswerFields
<1>3. CardsOK(c)' /\ CardsOK(h.prev)'
  BY <1>1, RowsFrame DEF ChangesOnly, HandOK
<1>4. HandOK(x, c, b)'
  <2>1. CardsOK(x.prev)' /\ CardsOK(x.got)'
    BY <1>2, <1>3
  <2>2. x.heard \/ b \in dirty'
    BY <1>1, <1>2 DEF HandOK
  <2>3. x.q.op = "create" /\ x.pc = "answer" => Ids(x.got) \cap Ids(c) = {}
    BY <1>2
  <2> QED
    BY <2>1, <2>2, <2>3 DEF HandOK
<1>5. ASSUME b \notin dirty' PROVE Foreseen(x, c, b)'
  <2>1. b \notin dirty /\ Foreseen(h, c, b)
    BY <1>1, <1>5
  <2>2. /\ h.q.op # "list" /\ ~ok => Agrees(IF Restores(h.q) THEN h.prev ELSE c, b)'
        /\ ok => /\ Restores(h.q) => Agrees(c, b)'
                 /\ h.q.op = "create" => Agrees(got \o c, b)'
                 /\ h.q.op = "list" => Agrees(got, b)'
    BY <2>1
  <2> QED
    BY <1>2, <2>2 DEF Foreseen
<1>6. Fits(x, c, b)'
  BY <1>2, <1>4, <1>5 DEF Fits
<1>7. ThenShows(b, c)
  BY <1>1, <1>3 DEF ThenShows
<1> QED
  BY <1>2, <1>6, <1>7, SlotStep

LEMMA WriteView ==
  ASSUME Serial, ViewInv, NEW s \in Slots, Write(s)
  PROVE  ViewInv'
<1>1. PICK b, c, h : b = BoardOf[s] /\ c = board[b] /\ h = hand[s]
  OBVIOUS
<1>2. h.pc = "write" /\ UNCHANGED <<board, dirty, count>>
  BY <1>1 DEF Write
<1>3. /\ b \in Boards /\ CardsOK(c) /\ h \in Busy
      /\ h.q \in Request /\ h.q.op \in {"create", "seed", "patch", "delete", "list"}
      /\ HandOK(h, c, b)
  BY <1>1, <1>2, SlotFacts, BusyFacts
<1>4. /\ TypeOK /\ rows \in Seq(Row) /\ DOMAIN rows = 1 .. Len(rows) /\ Len(rows) \in Nat
      /\ \A i \in DOMAIN rows : rows[i] \in Row
  BY LenProperties, ElementOfSeq DEF ViewInv, TypeOK
<1>5. /\ stale \in [Boards -> SUBSET Nat] /\ dirty' \subseteq Boards /\ count' \in Nat
  BY <1>2, <1>4 DEF TypeOK
<1>6. Ids(c) \subseteq DOMAIN rows /\ CardsOK(h.prev)
  BY <1>3 DEF CardsOK, HandOK
<1>7. \A T \in SUBSET Nat : Touch(s, T) =>
        /\ stale' \in [Boards -> SUBSET Nat] /\ stale'[b] = stale[b]
        /\ \A k \in Boards \ {b} : stale[k] \cup T \subseteq stale'[k]
  BY <1>1, <1>3, <1>5 DEF Touch
<1>8. CASE h.q.op = "create"
  <2>1. PICK new \in Nat, due \in Due, r \in Row, card \in Card :
          /\ new = Len(rows) + 1 /\ due = h.q.due /\ r = Own(due)
          /\ card = [id |-> new, status |-> FirstStatus, due |-> due]
    <3>1. h.q.due \in Due
      BY <1>3, <1>8 DEF Request
    <3>2. Own(h.q.due) \in Row
      BY <3>1, OwnType
    <3>3. Len(rows) + 1 \in Nat
      BY <1>4
    <3>4. [id |-> Len(rows) + 1, status |-> FirstStatus, due |-> h.q.due] \in Card
      BY <3>1, <3>3, TasksAssumption DEF Card
    <3> QED
      BY <3>1, <3>2, <3>3, <3>4
  <2>2. rows' = Append(rows, r) /\ Answer(s, TRUE, <<card>>) /\ Touch(s, {new})
    BY <1>1, <1>2, <1>8, <2>1 DEF Write
  <2>3. r.live = TRUE /\ r.status = FirstStatus /\ r.due = due
        /\ card.id = new /\ card.status = FirstStatus /\ card.due = due
    BY <2>1, OwnType
  <2>4. /\ rows' \in Seq(Row) /\ DOMAIN rows' = DOMAIN rows \cup {new} /\ new \notin DOMAIN rows
        /\ \A i \in DOMAIN rows : rows'[i] = rows[i]
        /\ rows'[new] = r
    <3>1. /\ rows' \in Seq(Row) /\ Len(rows') = Len(rows) + 1
          /\ \A i \in 1 .. Len(rows) : rows'[i] = rows[i]
          /\ rows'[Len(rows) + 1] = r
      BY <1>4, <2>1, <2>2, AppendProperties
    <3>2. DOMAIN rows' = 1 .. Len(rows')
      BY <3>1, LenProperties
    <3> QED
      BY <1>4, <2>1, <3>1, <3>2
  <2>5. stale' \in [Boards -> SUBSET Nat] /\ stale'[b] = stale[b]
        /\ \A k \in Boards \ {b} : stale[k] \cup {new} \subseteq stale'[k]
    <3>1. {new} \in SUBSET Nat
      OBVIOUS
    <3> QED
      BY <1>7, <2>2, <3>1
  <2>6. ChangesOnly(b, {new})
    BY <1>2, <1>5, <2>4, <2>5 DEF ChangesOnly
  <2>7. PICK got : got = <<card>>
    OBVIOUS
  <2>8. /\ got \in Seq(Card) /\ DOMAIN got = {1} /\ got[1] = card /\ Ids(got) = {new}
    BY <2>3, <2>7 DEF Ids
  <2>9. CardsOK(got)' /\ Ids(got) \cap Ids(c) = {}
    BY <1>6, <2>4, <2>8 DEF CardsOK
  <2>10. ASSUME Agrees(c, b) PROVE Agrees(got \o c, b)'
    <3>1. PICK x : x = got \o c
      OBVIOUS
    <3>2. /\ Ids(x) = Ids(got) \cup Ids(c)
          /\ \A n \in DOMAIN x : x[n] = card \/ \E m \in DOMAIN c : x[n] = c[m]
      <4>1. /\ c \in Seq(Card) /\ DOMAIN c = 1 .. Len(c) /\ Len(c) \in Nat
            /\ Len(got) = 1 /\ DOMAIN got = 1 .. Len(got)
        BY <1>3, <2>7, <2>8, CardFacts DEF CardsOK
      <4>2. /\ x \in Seq(Card) /\ Len(x) = 1 + Len(c) /\ DOMAIN x = 1 .. Len(x)
            /\ \A n \in 1 .. 1 + Len(c) : x[n] = IF n <= 1 THEN got[n] ELSE c[n - 1]
        <5>1. /\ x \in Seq(Card) /\ Len(x) = Len(got) + Len(c)
              /\ \A n \in 1 .. Len(got) + Len(c) :
                   x[n] = IF n <= Len(got) THEN got[n] ELSE c[n - Len(got)]
          <6>1. got \in Seq(Card) /\ c \in Seq(Card)
            BY <2>8, <4>1
          <6>2. /\ got \o c \in Seq(Card) /\ Len(got \o c) = Len(got) + Len(c)
                /\ \A n \in 1 .. Len(got) + Len(c) :
                     (got \o c)[n] = IF n <= Len(got) THEN got[n] ELSE c[n - Len(got)]
            BY <6>1, ConcatProperties
          <6> QED
            BY <3>1, <6>2
        <5>2. DOMAIN x = 1 .. Len(x)
          BY <5>1, LenProperties
        <5> QED
          BY <4>1, <5>1, <5>2
      <4>3. ASSUME NEW n \in DOMAIN x
            PROVE  x[n] = card \/ \E m \in DOMAIN c : x[n] = c[m]
        <5>1. CASE n = 1
          BY <2>8, <4>1, <4>2, <5>1
        <5>2. CASE n # 1
          <6>1. n - 1 \in DOMAIN c /\ x[n] = c[n - 1]
            BY <4>1, <4>2, <5>2
          <6> QED
            BY <6>1
        <5> QED
          BY <5>1, <5>2
      <4>4. x[1] = card /\ 1 \in DOMAIN x
        BY <2>8, <4>1, <4>2
      <4>5. ASSUME NEW m \in DOMAIN c PROVE \E n \in DOMAIN x : x[n] = c[m]
        <5>1. PICK n \in Nat : n = m + 1
          BY <4>1
        <5>2. n \in DOMAIN x /\ ~(n <= 1) /\ n - 1 = m
          BY <4>1, <4>2, <5>1
        <5> QED
          BY <4>1, <4>2, <5>2
      <4>6. \A i \in Ids(x) : i \in Ids(got) \cup Ids(c)
        BY <2>3, <2>8, <4>3 DEF Ids
      <4>7. new \in Ids(x) /\ \A i \in Ids(c) : i \in Ids(x)
        BY <2>3, <4>4, <4>5 DEF Ids
      <4> QED
        BY <2>8, <4>3, <4>6, <4>7
    <3>3. ASSUME NEW i \in DOMAIN rows' \ stale'[b] PROVE AgreesAt(x, i)'
      <4>1. CASE i = new
        <5>1. i \in Live' /\ i \in Ids(x)
          BY <2>3, <2>4, <2>8, <3>2, <4>1 DEF Live
        <5>2. \A n \in DOMAIN x : x[n].id = i => x[n] = card
          BY <1>6, <2>4, <3>2, <4>1 DEF Ids
        <5> QED
          BY <2>3, <2>4, <4>1, <5>1, <5>2 DEF AgreesAt
      <4>2. CASE i # new
        <5>1. i \in DOMAIN rows \ stale[b] /\ rows'[i] = rows[i]
          BY <2>4, <2>5, <4>2
        <5>2. AgreesAt(c, i)
          BY <2>10, <5>1 DEF Agrees
        <5>3. i \in Ids(x) <=> i \in Live'
          BY <2>4, <2>8, <3>2, <4>2, <5>1, <5>2 DEF AgreesAt, Live
        <5>4. \A n \in DOMAIN x : x[n].id = i => \E m \in DOMAIN c : x[n] = c[m]
          BY <2>3, <3>2, <4>2
        <5> QED
          BY <5>1, <5>2, <5>3, <5>4 DEF AgreesAt
      <4> QED
        BY <4>1, <4>2
    <3> QED
      BY <3>1, <3>3 DEF Agrees
  <2>11. Answer(s, TRUE, got)
    BY <2>2, <2>7
  <2>12. b \notin dirty /\ Foreseen(h, c, b) => Agrees(got \o c, b)'
    BY <1>2, <1>8, <2>10 DEF Foreseen, Restores
  <2> QED
    BY <1>1, <1>2, <1>8, <2>6, <2>9, <2>11, <2>12, WrittenStep DEF Restores
<1>9. CASE h.q.op = "seed"
  <2>1. PICK T : T = Len(rows) + 1 .. Len(rows) + ChecklistSize
    OBVIOUS
  <2>2. rows' = rows \o Checklist /\ Answer(s, TRUE, <<>>) /\ Touch(s, T)
    BY <1>1, <1>2, <1>9, <2>1 DEF Write
  <2>3. Checklist \in Seq(Row) /\ Len(Checklist) = ChecklistSize
    BY ChecklistType
  <2>4. /\ rows' \in Seq(Row) /\ DOMAIN rows \subseteq DOMAIN rows'
        /\ \A i \in DOMAIN rows' \ T : i \in DOMAIN rows /\ rows'[i] = rows[i]
    <3>1. /\ rows' \in Seq(Row) /\ Len(rows') = Len(rows) + ChecklistSize
          /\ \A i \in 1 .. Len(rows) + ChecklistSize :
               rows'[i] = IF i <= Len(rows) THEN rows[i] ELSE Checklist[i - Len(rows)]
      BY <1>4, <2>2, <2>3, ConcatProperties
    <3>2. DOMAIN rows' = 1 .. Len(rows')
      BY <3>1, LenProperties
    <3> QED
      BY <1>4, <2>1, <3>1, <3>2, TasksAssumption
  <2>5. T \in SUBSET Nat
    BY <1>4, <2>1, TasksAssumption
  <2>6. ChangesOnly(b, T)
    BY <1>2, <1>5, <1>7, <2>2, <2>4, <2>5 DEF ChangesOnly
  <2>7. PICK got : got = <<>>
    OBVIOUS
  <2>8. CardsOK(got)' /\ Answer(s, TRUE, got)
    <3>1. CardsOK(got)
      BY <2>7, NoCards
    <3>2. CardsOK(got)'
      BY <3>1, <2>6, RowsFrame DEF ChangesOnly
    <3> QED
      BY <2>2, <2>7, <3>2
  <2> QED
    BY <1>1, <1>2, <1>9, <2>6, <2>8, WrittenStep DEF Restores
<1>10. CASE h.q.op \in {"patch", "delete"} /\ h.q.id \in Live
  <2>1. PICK i, q : i \in DOMAIN rows /\ q = h.q /\ i = q.id /\ rows[i].live
    BY <1>10 DEF Live
  <2>2. PICK r \in Row :
          /\ rows' = [rows EXCEPT ![i] = r]
          /\ q.op = "delete" => r.live = FALSE
          /\ q.op = "patch" =>
               /\ r.live = TRUE /\ r.status = q.status /\ r.due = ParsedDue(q)
               /\ ~q.sendsDue /\ ~r.cleared => ~rows[i].cleared /\ rows[i].due = NoDate
    <3>1. CASE q.op = "patch"
      <4>1. rows[i] \in Row /\ q \in Request
        BY <1>3, <1>4, <2>1
      <4>2. rows' = [rows EXCEPT ![i] = Updated(rows[i], q)]
        BY <1>1, <1>2, <1>10, <2>1, <3>1 DEF Write
      <4> QED
        BY <2>1, <3>1, <4>1, <4>2, UpdatedType
    <3>2. CASE q.op = "delete"
      <4>1. PICK r : r = [rows[i] EXCEPT !.live = FALSE]
        OBVIOUS
      <4>2. r \in Row /\ r.live = FALSE
        BY <1>4, <2>1, <4>1 DEF Row
      <4>3. rows' = [rows EXCEPT ![i].live = FALSE]
        BY <1>1, <1>2, <1>10, <2>1, <3>2 DEF Write
      <4>4. rows' = [rows EXCEPT ![i] = r]
        BY <1>4, <2>1, <4>1, <4>3
      <4> QED
        BY <3>2, <4>2, <4>4
    <3> QED
      BY <1>10, <2>1, <3>1, <3>2
  <2>3. /\ rows' \in Seq(Row) /\ DOMAIN rows' = DOMAIN rows
        /\ rows'[i] = r /\ \A j \in DOMAIN rows \ {i} : rows'[j] = rows[j]
    BY <1>4, <2>1, <2>2, ExceptSeq
  <2>4. Answer(s, TRUE, <<>>) /\ Touch(s, {i}) /\ {i} \in SUBSET Nat
    <3>1. i \in Nat
      BY <1>4, <2>1
    <3>2. CASE q.op = "patch"
      BY <1>1, <1>2, <1>10, <2>1, <3>1, <3>2 DEF Write
    <3>3. CASE q.op = "delete"
      BY <1>1, <1>2, <1>10, <2>1, <3>1, <3>3 DEF Write
    <3> QED
      BY <1>10, <2>1, <3>2, <3>3
  <2>5. ChangesOnly(b, {i})
    BY <1>2, <1>5, <1>7, <2>3, <2>4 DEF ChangesOnly
  <2>6. ASSUME WillAgree(c, q, b) PROVE Agrees(c, b)'
    <3> SUFFICES ASSUME NEW j \in DOMAIN rows' \ stale'[b] PROVE AgreesAt(c, j)'
      BY DEF Agrees
    <3>1. j \in DOMAIN rows \ stale[b] /\ Anticipates(c, q, j)
      BY <1>7, <2>3, <2>4, <2>6 DEF WillAgree
    <3>2. CASE j # i
      <4>1. AgreesAt(c, j)
        BY <2>1, <3>1, <3>2 DEF Anticipates
      <4> QED
        BY <2>3, <3>1, <3>2, <4>1 DEF AgreesAt, Live
    <3>3. CASE j = i /\ q.op = "delete"
      <4>1. i \notin Ids(c) /\ i \notin Live'
        BY <2>1, <2>2, <2>3, <3>1, <3>3 DEF Anticipates, Live
      <4> QED
        BY <3>3, <4>1 DEF AgreesAt, Ids
    <3>4. CASE j = i /\ q.op = "patch"
      <4>1. /\ i \in Live /\ i \in Live'
            /\ i \in Ids(c) <=> i \in Live
            /\ \A n \in DOMAIN c : c[n].id = i =>
                 /\ c[n].status = q.status
                 /\ IF q.sendsDue THEN c[n].due = q.due
                    ELSE c[n].due = rows[i].due \/ rows[i].cleared
        BY <2>1, <2>2, <2>3, <3>1, <3>4 DEF Anticipates, Live
      <4>2. r.due = IF q.sendsDue THEN q.due ELSE NoDate
        BY <2>2, <3>4 DEF ParsedDue
      <4>3. ASSUME NEW n \in DOMAIN c, c[n].id = i PROVE c[n].due = r.due \/ r.cleared
        <5>1. CASE q.sendsDue
          BY <4>1, <4>2, <4>3, <5>1
        <5>2. CASE ~q.sendsDue /\ ~r.cleared
          BY <2>2, <3>4, <4>1, <4>2, <4>3, <5>2
        <5> QED
          BY <5>1, <5>2
      <4> QED
        BY <2>2, <2>3, <3>4, <4>1, <4>3 DEF AgreesAt
    <3> QED
      BY <1>10, <2>1, <3>2, <3>3, <3>4
  <2>7. PICK got : got = <<>>
    OBVIOUS
  <2>8. CardsOK(got)' /\ Answer(s, TRUE, got)
    <3>1. CardsOK(got)
      BY <2>7, NoCards
    <3>2. CardsOK(got)'
      BY <3>1, <2>5, RowsFrame DEF ChangesOnly
    <3> QED
      BY <2>4, <2>7, <3>2
  <2>9. b \notin dirty /\ Foreseen(h, c, b) => Agrees(c, b)'
    BY <1>2, <1>10, <2>1, <2>6 DEF Foreseen, Restores
  <2> QED
    BY <1>1, <1>2, <1>10, <2>5, <2>8, <2>9, WrittenStep
<1>11. CASE h.q.op \in {"patch", "delete"} /\ h.q.id \notin Live
  <2>1. Answer(s, FALSE, <<>>) /\ UNCHANGED <<rows, stale>>
    BY <1>1, <1>2, <1>11 DEF Write
  <2> QED
    BY <1>1, <1>2, <2>1, UnwrittenStep
<1>12. CASE h.q.op = "list"
  <2>1. PICK got : got = Listing
    OBVIOUS
  <2>2. /\ Answer(s, TRUE, got) /\ stale' = [stale EXCEPT ![b] = {}] /\ UNCHANGED rows
    BY <1>1, <1>2, <1>12, <2>1 DEF Write
  <2>3. ChangesOnly(b, {})
    BY <1>2, <1>4, <1>5, <2>2 DEF ChangesOnly
  <2>4. CardsOK(got) /\ \A i \in DOMAIN rows : AgreesAt(got, i)
    BY <1>4, <2>1, ListingTrue
  <2>5. CardsOK(got)' /\ \A i \in DOMAIN rows : AgreesAt(got, i)'
    BY <2>2, <2>4, RowsFrame
  <2>6. Agrees(got, b)'
    BY <2>2, <2>5 DEF Agrees
  <2> QED
    BY <1>1, <1>2, <1>12, <2>2, <2>3, <2>5, <2>6, WrittenStep DEF Restores
<1> QED
  BY <1>3, <1>8, <1>9, <1>10, <1>11, <1>12

LEMMA CheckView ==
  ASSUME Serial, ViewInv, NEW s \in Slots, Check(s) \/ Fail(s)
  PROVE  ViewInv'
<1>1. CASE Check(s)
  <2>1. hand[s].pc \in {"check", "write"} /\ UNCHANGED <<rows, board, stale, dirty, count>>
    BY <1>1 DEF Check
  <2>2. \/ hand' = [hand EXCEPT ![s].pc = "write"]
        \/ Answer(s, FALSE, <<>>)
        \/ hand[s].q.op = "seed" /\ Answer(s, TRUE, <<>>)
    BY <1>1 DEF Check
  <2> QED
    BY <2>1, <2>2, UnwrittenStep
<1>2. CASE Fail(s)
  BY <1>2, UnwrittenStep DEF Fail
<1> QED
  BY <1>1, <1>2

\* A change of the couple's that the board shows at once.
LEMMA StartView ==
  ASSUME Serial, ViewInv, NEW s \in Slots, NEW b, b = BoardOf[s], NEW c, c = board[b],
         NEW q \in Request, q.op # "list", NEW pc \in {"check", "write"}, NEW cards,
         Start(s, q, pc, cards), CardsOK(cards), ~Restores(q) => cards = c,
         Restores(q) => \A i \in DOMAIN rows : AgreesAt(c, i) => Anticipates(cards, q, i)
  PROVE  ViewInv'
<1>1. /\ b \in Boards /\ CardsOK(c) /\ board = [board EXCEPT ![b] = c]
  BY SlotFacts
<1>2. PICK x : x = Starting(s, q, pc)
  OBVIOUS
<1>3. /\ x.pc = pc /\ x.q = q /\ x.prev = (IF Restores(q) THEN c ELSE <<>>)
      /\ x.got = <<>> /\ x.heard = TRUE
  BY <1>2 DEF Starting
<1>4. x \in Busy /\ x # Idle
  <2>1. c \in Seq(Card) /\ <<>> \in Seq(Card)
    BY <1>1, EmptySeq DEF CardsOK
  <2> QED
    BY <1>2, <2>1 DEF Starting, Busy, Idle
<1>5. /\ hand[s] = Idle /\ b \notin dirty /\ count' \in Nat /\ UNCHANGED <<rows, stale, dirty>>
      /\ hand' = [hand EXCEPT ![s] = x] /\ board' = [board EXCEPT ![b] = cards]
  BY <1>2 DEF Start, ViewInv, TypeOK
<1>6. Agrees(c, b)
  <2>1. \A r \in Slots : BoardOf[r] = b => hand[r] = Idle
    BY <1>5 DEF Serial
  <2> QED
    BY <1>1, <1>5, <2>1 DEF ViewInv, Settled
<1>7. HandOK(x, cards, b)
  <2>1. CardsOK(x.prev) /\ CardsOK(x.got)
    BY <1>1, <1>3, NoCards
  <2> QED
    BY <1>3, <2>1 DEF HandOK
<1>8. Foreseen(x, cards, b)
  <2>1. Restores(q) => WillAgree(cards, q, b)
    BY <1>6 DEF WillAgree, Agrees
  <2>2. Agrees(IF Restores(q) THEN x.prev ELSE cards, b)
    BY <1>3, <1>6
  <2> QED
    BY <1>3, <2>1, <2>2 DEF Foreseen
<1>9. ThenShows(b, cards) /\ ChangesOnly(b, {}) /\ Fits(x, cards, b)'
  BY <1>1, <1>4, <1>5, <1>7, <1>8, SameRows
<1> QED
  BY <1>4, <1>5, <1>9, SlotStep

\* Patched cards anticipate the patch.
LEMMA PatchForeseen ==
  ASSUME NEW c, CardsOK(c), NEW q, q.op = "patch", NEW x \in [DOMAIN c -> Card],
         \A n \in DOMAIN c :
           /\ x[n].id = c[n].id
           /\ c[n].id # q.id => x[n] = c[n]
           /\ c[n].id = q.id =>
                x[n].status = q.status /\ x[n].due = IF q.sendsDue THEN q.due ELSE c[n].due
  PROVE  CardsOK(x) /\ \A i \in DOMAIN rows : AgreesAt(c, i) => Anticipates(x, q, i)
<1>1. CardsOK(x) /\ Ids(x) = Ids(c) /\ DOMAIN x = DOMAIN c
  BY ChangedCards
<1>2. ASSUME NEW i \in DOMAIN rows, AgreesAt(c, i) PROVE Anticipates(x, q, i)
  <2>1. CASE i # q.id
    BY <1>1, <1>2, <2>1 DEF Anticipates, AgreesAt
  <2>2. CASE i = q.id
    BY <1>1, <1>2, <2>2 DEF Anticipates, AgreesAt
  <2> QED
    BY <2>1, <2>2
<1> QED
  BY <1>1, <1>2

LEMMA ChangeView ==
  ASSUME Serial, ViewInv, NEW s \in Slots,
         \/ \E due \in Due : CreateTask(s, due)
         \/ SeedTasks(s)
         \/ \E i \in DOMAIN rows : DeleteTask(s, i)
         \/ \E i \in DOMAIN rows, st \in Status : MoveStatus(s, i, st)
         \/ \E i \in DOMAIN rows, st \in Status, due \in Due : SaveEdit(s, i, st, due)
  PROVE  ViewInv'
<1>1. PICK b, c : b = BoardOf[s] /\ c = board[b]
  OBVIOUS
<1>2. /\ CardsOK(c) /\ c \in Seq(Card) /\ \A n \in DOMAIN c : c[n] \in Card
      /\ DOMAIN rows \subseteq Nat
  <2>1. CardsOK(c) /\ rows \in Seq(Row)
    BY <1>1, SlotFacts DEF ViewInv, TypeOK
  <2> QED
    BY <2>1, CardFacts, LenProperties DEF CardsOK
<1>3. ASSUME NEW due \in Due, CreateTask(s, due) PROVE ViewInv'
  <2>1. PICK q : q = [op |-> "create", due |-> due]
    OBVIOUS
  <2>2. q \in Request /\ q.op = "create" /\ ~Restores(q)
    BY <2>1 DEF Request, Restores
  <2>3. Start(s, q, "write", c)
    BY <1>1, <1>3, <2>1 DEF CreateTask
  <2> QED
    BY <1>1, <1>2, <2>2, <2>3, StartView
<1>4. CASE SeedTasks(s)
  <2>1. PICK q : q = [op |-> "seed"]
    OBVIOUS
  <2>2. q \in Request /\ q.op = "seed" /\ ~Restores(q)
    BY <2>1 DEF Request, Restores
  <2>3. Start(s, q, "check", c)
    BY <1>1, <1>4, <2>1 DEF SeedTasks
  <2> QED
    BY <1>1, <1>2, <2>2, <2>3, StartView
<1>5. ASSUME NEW i \in DOMAIN rows, DeleteTask(s, i) PROVE ViewInv'
  <2>1. PICK q, x : q = [op |-> "delete", id |-> i] /\ x = Without(c, i)
    OBVIOUS
  <2>2. q \in Request /\ q.op = "delete" /\ q.id = i /\ Restores(q)
    BY <1>2, <2>1 DEF Request, Restores
  <2>3. Start(s, q, "check", x)
    BY <1>1, <1>5, <2>1 DEF DeleteTask
  <2>4. /\ CardsOK(x) /\ Ids(x) = Ids(c) \ {i}
        /\ \A n \in DOMAIN x : \E m \in DOMAIN c : x[n] = c[m]
    BY <1>2, <2>1, WithoutCards
  <2>5. ASSUME NEW j \in DOMAIN rows, AgreesAt(c, j) PROVE Anticipates(x, q, j)
    <3>1. CASE j # i
      BY <2>2, <2>4, <2>5, <3>1 DEF Anticipates, AgreesAt
    <3>2. CASE j = i
      BY <2>2, <2>4, <3>2 DEF Anticipates
    <3> QED
      BY <3>1, <3>2
  <2> QED
    BY <1>1, <2>2, <2>3, <2>4, <2>5, StartView
<1>6. ASSUME NEW i \in DOMAIN rows, NEW st \in Status, MoveStatus(s, i, st) PROVE ViewInv'
  <2>1. PICK q, x :
          /\ q = [op |-> "patch", id |-> i, status |-> st, due |-> NoDate, sendsDue |-> FALSE]
          /\ x = [n \in DOMAIN c |->
                    IF c[n].id = i THEN [c[n] EXCEPT !.status = st] ELSE c[n]]
    OBVIOUS
  <2>2. /\ q \in Request /\ q.op = "patch" /\ q.id = i /\ q.status = st
        /\ q.sendsDue = FALSE /\ Restores(q)
    BY <1>2, <2>1 DEF Request, Restores, Due
  <2>3. Start(s, q, "check", x)
    BY <1>1, <1>6, <2>1 DEF MoveStatus
  <2>4. x \in [DOMAIN c -> Card]
    BY <1>2, <2>1 DEF Card
  <2>5. \A n \in DOMAIN c :
          /\ x[n].id = c[n].id
          /\ c[n].id # q.id => x[n] = c[n]
          /\ c[n].id = q.id =>
               x[n].status = q.status /\ x[n].due = IF q.sendsDue THEN q.due ELSE c[n].due
    BY <1>2, <2>1, <2>2 DEF Card
  <2>6. CardsOK(x) /\ \A j \in DOMAIN rows : AgreesAt(c, j) => Anticipates(x, q, j)
    BY <1>2, <2>2, <2>4, <2>5, PatchForeseen
  <2> QED
    BY <1>1, <2>2, <2>3, <2>6, StartView
<1>7. ASSUME NEW i \in DOMAIN rows, NEW st \in Status, NEW due \in Due, SaveEdit(s, i, st, due)
      PROVE  ViewInv'
  <2>1. PICK q, x :
          /\ q = [op |-> "patch", id |-> i, status |-> st, due |-> due, sendsDue |-> TRUE]
          /\ x = Patched(c, i, st, due)
    OBVIOUS
  <2>2. /\ q \in Request /\ q.op = "patch" /\ q.id = i /\ q.status = st /\ q.due = due
        /\ q.sendsDue = TRUE /\ Restores(q)
    BY <1>2, <2>1 DEF Request, Restores
  <2>3. Start(s, q, "check", x)
    BY <1>1, <1>7, <2>1 DEF SaveEdit
  <2>4. x = [n \in DOMAIN c |->
               IF c[n].id = i THEN [c[n] EXCEPT !.status = st, !.due = due] ELSE c[n]]
    BY <2>1 DEF Patched
  <2>5. x \in [DOMAIN c -> Card]
    BY <1>2, <2>4 DEF Card
  <2>6. \A n \in DOMAIN c :
          /\ x[n].id = c[n].id
          /\ c[n].id # q.id => x[n] = c[n]
          /\ c[n].id = q.id =>
               x[n].status = q.status /\ x[n].due = IF q.sendsDue THEN q.due ELSE c[n].due
    BY <1>2, <2>2, <2>4 DEF Card
  <2>7. CardsOK(x) /\ \A j \in DOMAIN rows : AgreesAt(c, j) => Anticipates(x, q, j)
    BY <1>2, <2>2, <2>5, <2>6, PatchForeseen
  <2> QED
    BY <1>1, <2>2, <2>3, <2>7, StartView
<1> QED
  BY <1>3, <1>4, <1>5, <1>6, <1>7

LEMMA InitView == Init => ViewInv
<1> SUFFICES ASSUME Init PROVE ViewInv
  OBVIOUS
<1>1. rows = <<>> /\ \A b \in Boards : board[b] = <<>>
  BY DEF Init
<1>2. TypeOK
  <2>1. <<>> \in Seq(Row) /\ <<>> \in Seq(Card)
    BY EmptySeq
  <2> QED
    BY <2>1 DEF Init, TypeOK
<1>3. \A b \in Boards : CardsOK(board[b])
  BY <1>1, NoCards
<1>4. HandsOK
  BY DEF Init, HandsOK
<1>5. Settled
  <2>1. DOMAIN rows = {}
    BY <1>1
  <2> QED
    BY <2>1 DEF Settled, Agrees
<1> QED
  BY <1>2, <1>3, <1>4, <1>5 DEF ViewInv

LEMMA StillView ==
  ASSUME ViewInv, UNCHANGED vars
  PROVE  ViewInv'
<1>1. /\ rows' = rows /\ board' = board /\ hand' = hand /\ stale' = stale /\ dirty' = dirty
      /\ count' = count /\ Live' = Live
  BY DEF vars, Live
<1>2. TypeOK'
  BY <1>1 DEF ViewInv, TypeOK
<1>3. \A b \in Boards : CardsOK(board[b])'
  BY <1>1 DEF ViewInv, CardsOK, Ids
<1>4. HandsOK'
  <2> SUFFICES ASSUME NEW r \in Slots, NEW x, NEW y, NEW k,
                      x = hand'[r] /\ y = board'[k] /\ k = BoardOf[r] /\ x # Idle
               PROVE  HandOK(x, y, k)' /\ (k \notin dirty' => Foreseen(x, y, k)')
    BY HandsFit
  <2>1. HandOK(x, y, k) /\ (k \notin dirty => Foreseen(x, y, k))
    BY <1>1 DEF ViewInv, HandsOK
  <2>2. /\ HandOK(x, y, k) => HandOK(x, y, k)'
        /\ Foreseen(x, y, k) => Foreseen(x, y, k)'
    BY <1>1, BoardFrame
  <2> QED
    BY <1>1, <2>1, <2>2
<1>5. Settled'
  BY <1>1 DEF ViewInv, Settled, Agrees, AgreesAt, Ids
<1> QED
  BY <1>2, <1>3, <1>4, <1>5 DEF ViewInv

LEMMA ViewKeeps ==
  ASSUME Serial
  PROVE  Spec => []ViewInv
<1>1. ViewInv /\ [Next]_vars => ViewInv'
  <2> SUFFICES ASSUME ViewInv, [Next]_vars PROVE ViewInv'
    OBVIOUS
  <2>1. CASE \E b \in Boards : Reload(b)
    BY <2>1, ReloadView
  <2>2. ASSUME NEW s \in Slots, Check(s) \/ Fail(s) PROVE ViewInv'
    BY <2>2, CheckView
  <2>3. ASSUME NEW s \in Slots, Write(s) PROVE ViewInv'
    BY <2>3, WriteView
  <2>4. ASSUME NEW s \in Slots, Answered(s) PROVE ViewInv'
    BY <2>4, AnsweredView
  <2>5. ASSUME NEW s \in Slots, RequestLost(s) \/ AnswerLost(s) \/ Unread(s) PROVE ViewInv'
    BY <2>5, LostView
  <2>6. ASSUME NEW s \in Slots,
               \/ \E due \in Due : CreateTask(s, due)
               \/ SeedTasks(s)
               \/ \E i \in DOMAIN rows : DeleteTask(s, i)
               \/ \E i \in DOMAIN rows, st \in Status : MoveStatus(s, i, st)
               \/ \E i \in DOMAIN rows, st \in Status, due \in Due : SaveEdit(s, i, st, due)
        PROVE  ViewInv'
    BY <2>6, ChangeView
  <2>7. CASE UNCHANGED vars
    BY <2>7, StillView
  <2> QED
    BY <2>1, <2>2, <2>3, <2>4, <2>5, <2>6, <2>7 DEF Next
<1> QED
  BY <1>1, InitView, PTL DEF Spec

\* While the functions of a board follow one another: no task twice.
THEOREM CardsDistinctWhenSerial ==
  ASSUME Serial
  PROVE  Spec => []CardsDistinct
<1>1. ViewInv => CardsDistinct
  <2> SUFFICES ASSUME ViewInv, NEW b \in Boards, NEW i \in Shown(b)
               PROVE  Cardinality(CardsFor(b, i)) = 1
    BY DEF CardsDistinct
  <2>1. PICK n \in DOMAIN board[b] : board[b][n].id = i
    BY DEF Shown
  <2>2. CardsFor(b, i) = {n}
    BY <2>1 DEF ViewInv, CardsOK, CardsFor
  <2> QED
    BY <2>2, FS_Singleton
<1> QED
  BY <1>1, ViewKeeps, PTL

\* and a board at rest shows the tasks as they are.
THEOREM BoardAgreesWhenSerial ==
  ASSUME Serial
  PROVE  Spec => []BoardAgrees
<1>1. ViewInv => BoardAgrees
  <2> SUFFICES ASSUME ViewInv, NEW b \in Boards, b \notin dirty,
                      \A s \in Slots : BoardOf[s] = b => hand[s] = Idle,
                      NEW i \in DOMAIN rows \ stale[b]
               PROVE  /\ i \in Shown(b) <=> i \in Live
                      /\ \A n \in CardsFor(b, i) :
                           /\ board[b][n].status = rows[i].status
                           /\ board[b][n].due = rows[i].due \/ rows[i].cleared
    BY DEF BoardAgrees
  <2>1. AgreesAt(board[b], i)
    BY DEF ViewInv, Settled, Agrees
  <2>2. Shown(b) = Ids(board[b])
    BY DEF Shown, Ids
  <2> QED
    BY <2>1, <2>2 DEF AgreesAt, CardsFor
<1> QED
  BY <1>1, ViewKeeps, PTL

----------------------------------------------------------------------------
(* Types, for boards that run any number of functions at once              *)

LEMMA WithoutTyped ==
  ASSUME NEW cards \in Seq(Card), NEW i
  PROVE  Without(cards, i) \in Seq(Card)
<1>1. /\ DOMAIN cards = 1 .. Len(cards) /\ Len(cards) \in Nat
      /\ \A n \in DOMAIN cards : cards[n] \in Card
  BY CardFacts
<1>2. PICK kept, N : kept = {n \in DOMAIN cards : cards[n].id # i} /\ N = Cardinality(kept)
  OBVIOUS
<1>3. kept \in SUBSET (1 .. Len(cards))
  BY <1>1, <1>2
<1>4. N \in Nat /\ \A n \in 1 .. N : Nth(kept, n) \in kept
  BY <1>1, <1>2, <1>3, NthCounts
<1>5. Without(cards, i) = [n \in 1 .. N |-> cards[Nth(kept, n)]]
  BY <1>2 DEF Without
<1>6. Without(cards, i) \in [1 .. N -> Card]
  BY <1>1, <1>2, <1>4, <1>5
<1> QED
  BY <1>4, <1>6, ListOfCards

\* A step of one function, which leaves its board with the cards c.
LEMMA TypedStep ==
  ASSUME TypeOK, NEW s \in Slots, NEW h \in {Idle} \cup Busy, hand' = [hand EXCEPT ![s] = h],
         NEW b \in Boards, NEW c \in Seq(Card), board' = [board EXCEPT ![b] = c],
         rows' \in Seq(Row), stale' \in [Boards -> SUBSET Nat], dirty' \in SUBSET Boards,
         count' \in Nat
  PROVE  TypeOK'
<1>1. hand' \in [Slots -> {Idle} \cup Busy]
  BY DEF TypeOK
<1>2. board' \in [Boards -> Seq(Card)]
  BY DEF TypeOK
<1> QED
  BY <1>1, <1>2 DEF TypeOK

LEMMA StartingTyped ==
  ASSUME TypeOK, NEW s \in Slots, NEW q \in Request, NEW pc \in {"check", "write"}
  PROVE  Starting(s, q, pc) \in Busy
<1>1. board[BoardOf[s]] \in Seq(Card) /\ <<>> \in Seq(Card)
  BY TasksAssumption, EmptySeq DEF TypeOK
<1> QED
  BY <1>1 DEF Starting, Busy

LEMMA StartTyped ==
  ASSUME TypeOK, NEW s \in Slots, NEW q \in Request, NEW pc \in {"check", "write"},
         NEW cards \in Seq(Card), Start(s, q, pc, cards)
  PROVE  TypeOK'
<1>1. BoardOf[s] \in Boards /\ Starting(s, q, pc) \in Busy
  BY TasksAssumption, StartingTyped
<1>2. /\ hand' = [hand EXCEPT ![s] = Starting(s, q, pc)] /\ count' = count + 1
      /\ board' = [board EXCEPT ![BoardOf[s]] = cards] /\ UNCHANGED <<rows, stale, dirty>>
  BY DEF Start
<1>3. /\ rows' \in Seq(Row) /\ stale' \in [Boards -> SUBSET Nat] /\ dirty' \in SUBSET Boards
      /\ count' \in Nat
  BY <1>2 DEF TypeOK
<1> QED
  BY <1>1, <1>2, <1>3, TypedStep

LEMMA ChangeTyped ==
  ASSUME TypeOK, NEW s \in Slots,
         \/ \E due \in Due : CreateTask(s, due)
         \/ SeedTasks(s)
         \/ \E i \in DOMAIN rows : DeleteTask(s, i)
         \/ \E i \in DOMAIN rows, st \in Status : MoveStatus(s, i, st)
         \/ \E i \in DOMAIN rows, st \in Status, due \in Due : SaveEdit(s, i, st, due)
  PROVE  TypeOK'
<1>1. PICK c : c = board[BoardOf[s]]
  OBVIOUS
<1>2. c \in Seq(Card) /\ (\A n \in DOMAIN c : c[n] \in Card) /\ DOMAIN rows \subseteq Nat
      /\ DOMAIN c = 1 .. Len(c) /\ Len(c) \in Nat
  <2>1. c \in Seq(Card) /\ rows \in Seq(Row)
    BY <1>1, TasksAssumption DEF TypeOK
  <2> QED
    BY <2>1, CardFacts, LenProperties
<1>3. ASSUME NEW due \in Due, CreateTask(s, due) PROVE TypeOK'
  <2>1. [op |-> "create", due |-> due] \in Request
    BY DEF Request
  <2> QED
    BY <1>1, <1>2, <1>3, <2>1, StartTyped DEF CreateTask
<1>4. CASE SeedTasks(s)
  <2>1. [op |-> "seed"] \in Request
    BY DEF Request
  <2> QED
    BY <1>1, <1>2, <1>4, <2>1, StartTyped DEF SeedTasks
<1>5. ASSUME NEW i \in DOMAIN rows, DeleteTask(s, i) PROVE TypeOK'
  <2>1. [op |-> "delete", id |-> i] \in Request
    BY <1>2 DEF Request
  <2>2. Without(c, i) \in Seq(Card)
    BY <1>2, WithoutTyped
  <2>3. Start(s, [op |-> "delete", id |-> i], "check", Without(c, i))
    BY <1>1, <1>5 DEF DeleteTask
  <2> QED
    BY <2>1, <2>2, <2>3, StartTyped
<1>6. ASSUME NEW i \in DOMAIN rows, NEW st \in Status, MoveStatus(s, i, st) PROVE TypeOK'
  <2>1. PICK q, x :
          /\ q = [op |-> "patch", id |-> i, status |-> st, due |-> NoDate, sendsDue |-> FALSE]
          /\ x = [n \in DOMAIN c |->
                    IF c[n].id = i THEN [c[n] EXCEPT !.status = st] ELSE c[n]]
    OBVIOUS
  <2>2. q \in Request
    BY <1>2, <2>1 DEF Request, Due
  <2>3. x \in [1 .. Len(c) -> Card]
    BY <1>2, <2>1 DEF Card
  <2>4. x \in Seq(Card)
    BY <1>2, <2>3, ListOfCards
  <2>5. Start(s, q, "check", x)
    BY <1>1, <1>6, <2>1 DEF MoveStatus
  <2> QED
    BY <2>2, <2>4, <2>5, StartTyped
<1>7. ASSUME NEW i \in DOMAIN rows, NEW st \in Status, NEW due \in Due, SaveEdit(s, i, st, due)
      PROVE  TypeOK'
  <2>1. PICK q, x :
          /\ q = [op |-> "patch", id |-> i, status |-> st, due |-> due, sendsDue |-> TRUE]
          /\ x = Patched(c, i, st, due)
    OBVIOUS
  <2>2. q \in Request
    BY <1>2, <2>1 DEF Request
  <2>3. x \in [1 .. Len(c) -> Card]
    BY <1>2, <2>1 DEF Patched, Card
  <2>4. x \in Seq(Card)
    BY <1>2, <2>3, ListOfCards
  <2>5. Start(s, q, "check", x)
    BY <1>1, <1>7, <2>1 DEF SaveEdit
  <2> QED
    BY <2>2, <2>4, <2>5, StartTyped
<1> QED
  BY <1>3, <1>4, <1>5, <1>6, <1>7

\* A step of a handler: it goes on to write, or it answers.
LEMMA HandlerTyped ==
  ASSUME TypeOK, NEW s \in Slots, hand[s].pc \in {"check", "write"},
         \/ hand' = [hand EXCEPT ![s].pc = "write"]
         \/ \E ok \in BOOLEAN, got \in Seq(Card) : Answer(s, ok, got),
         rows' \in Seq(Row), stale' \in [Boards -> SUBSET Nat], UNCHANGED <<board, dirty, count>>
  PROVE  TypeOK'
<1>1. PICK h : h = hand[s]
  OBVIOUS
<1>2. h \in Busy /\ h \in {Idle} \cup Busy
  BY <1>1, BusyFacts DEF TypeOK
<1>3. \E x \in Busy : hand' = [hand EXCEPT ![s] = x]
  <2>1. CASE hand' = [hand EXCEPT ![s].pc = "write"]
    <3>1. PICK x : x = [h EXCEPT !.pc = "write"]
      OBVIOUS
    <3>2. x \in Busy
      BY <1>2, <3>1 DEF Busy
    <3>3. hand' = [hand EXCEPT ![s] = x]
      BY <1>1, <2>1, <3>1
    <3> QED
      BY <3>2, <3>3
  <2>2. ASSUME NEW ok \in BOOLEAN, NEW got \in Seq(Card), Answer(s, ok, got)
        PROVE  \E x \in Busy : hand' = [hand EXCEPT ![s] = x]
    BY <1>1, <1>2, <2>2, AnswerFields
  <2> QED
    BY <2>1, <2>2
<1>4. hand' \in [Slots -> {Idle} \cup Busy]
  BY <1>3 DEF TypeOK
<1> QED
  BY <1>4 DEF TypeOK

LEMMA CheckTyped ==
  ASSUME TypeOK, NEW s \in Slots, Check(s) \/ Fail(s)
  PROVE  TypeOK'
<1>1. /\ hand[s].pc \in {"check", "write"} /\ UNCHANGED <<rows, board, stale, dirty, count>>
      /\ \/ hand' = [hand EXCEPT ![s].pc = "write"]
         \/ Answer(s, TRUE, <<>>)
         \/ Answer(s, FALSE, <<>>)
  BY DEF Check, Fail
<1>2. rows' \in Seq(Row) /\ stale' \in [Boards -> SUBSET Nat] /\ <<>> \in Seq(Card)
  BY <1>1, EmptySeq DEF TypeOK
<1> QED
  BY <1>1, <1>2, HandlerTyped

LEMMA WriteTyped ==
  ASSUME TypeOK, NEW s \in Slots, Write(s)
  PROVE  TypeOK'
<1>1. PICK h : h = hand[s]
  OBVIOUS
<1>2. h \in Busy /\ h.pc = "write" /\ h.q \in Request /\ UNCHANGED <<board, dirty, count>>
  BY <1>1, BusyFacts DEF Write, TypeOK
<1>3. /\ rows \in Seq(Row) /\ Len(rows) \in Nat /\ DOMAIN rows = 1 .. Len(rows)
      /\ \A i \in DOMAIN rows : rows[i] \in Row
  BY LenProperties, ElementOfSeq DEF TypeOK
<1>4. <<>> \in Seq(Card)
  BY EmptySeq
<1>5. ASSUME NEW ids \in SUBSET Nat, Touch(s, ids) PROVE stale' \in [Boards -> SUBSET Nat]
  BY <1>5 DEF Touch, TypeOK
<1>6. ASSUME NEW r \in Row, NEW i \in DOMAIN rows, rows' = [rows EXCEPT ![i] = r]
      PROVE  rows' \in Seq(Row)
  BY <1>3, <1>6, ExceptSeq
<1>7. CASE h.q.op = "create"
  <2>1. PICK card, got :
          /\ card = [id |-> Len(rows) + 1, status |-> FirstStatus, due |-> h.q.due]
          /\ got = <<card>>
    OBVIOUS
  <2>2. /\ rows' = Append(rows, Own(h.q.due)) /\ Answer(s, TRUE, got)
        /\ Touch(s, {Len(rows) + 1})
    BY <1>1, <1>2, <1>7, <2>1 DEF Write
  <2>3. h.q.due \in Due
    BY <1>2, <1>7 DEF Request
  <2>4. Own(h.q.due) \in Row /\ card \in Card
    <3>1. Own(h.q.due) \in Row
      BY <2>3, OwnType
    <3>2. Len(rows) + 1 \in Nat
      BY <1>3
    <3>3. card \in Card
      BY <2>1, <2>3, <3>2, TasksAssumption DEF Card
    <3> QED
      BY <3>1, <3>3
  <2>5. rows' \in Seq(Row) /\ got \in Seq(Card) /\ {Len(rows) + 1} \in SUBSET Nat
    BY <1>3, <2>1, <2>2, <2>4, AppendProperties
  <2> QED
    BY <1>1, <1>2, <1>5, <2>2, <2>5, HandlerTyped
<1>8. CASE h.q.op = "seed"
  <2>1. /\ rows' = rows \o Checklist /\ Answer(s, TRUE, <<>>)
        /\ Touch(s, Len(rows) + 1 .. Len(rows) + ChecklistSize)
    BY <1>1, <1>2, <1>8 DEF Write
  <2>2. Checklist \in Seq(Row)
    BY ChecklistType
  <2>3. rows' \in Seq(Row)
    BY <1>3, <2>1, <2>2, ConcatProperties
  <2>4. (Len(rows) + 1 .. Len(rows) + ChecklistSize) \in SUBSET Nat
    BY <1>3, TasksAssumption
  <2> QED
    BY <1>1, <1>2, <1>4, <1>5, <2>1, <2>3, <2>4, HandlerTyped
<1>9. CASE h.q.op \in {"patch", "delete"} /\ h.q.id \in Live
  <2>1. PICK i : i = h.q.id
    OBVIOUS
  <2>2. i \in DOMAIN rows /\ {i} \in SUBSET Nat
    BY <1>3, <1>9, <2>1 DEF Live
  <2>3. /\ Answer(s, TRUE, <<>>) /\ Touch(s, {i})
        /\ \/ /\ h.q.op = "patch"
              /\ rows' = [rows EXCEPT ![i] = Updated(rows[i], h.q)]
           \/ rows' = [rows EXCEPT ![i].live = FALSE]
    BY <1>1, <1>2, <1>9, <2>1 DEF Write
  <2>4. CASE h.q.op = "patch"
             /\ rows' = [rows EXCEPT ![i] = Updated(rows[i], h.q)]
    <3>2. PICK r : r = Updated(rows[i], h.q)
      OBVIOUS
    <3>3. r \in Row
      BY <1>2, <1>3, <2>2, <2>4, <3>2, UpdatedType
    <3>4. rows' = [rows EXCEPT ![i] = r]
      BY <2>4, <3>2
    <3> QED
      BY <1>6, <2>2, <3>3, <3>4, <1>1, <1>2, <1>4, <1>5, <2>3, HandlerTyped
  <2>5. CASE rows' = [rows EXCEPT ![i].live = FALSE]
    <3>1. [rows[i] EXCEPT !.live = FALSE] \in Row
      BY <1>3, <2>2 DEF Row
    <3>2. rows' = [rows EXCEPT ![i] = [rows[i] EXCEPT !.live = FALSE]]
      BY <2>5
    <3> QED
      BY <1>6, <2>2, <3>1, <3>2, <1>1, <1>2, <1>4, <1>5, <2>3, HandlerTyped
  <2> QED
    BY <2>3, <2>4, <2>5
<1>10. CASE h.q.op \in {"patch", "delete"} /\ h.q.id \notin Live
  <2>1. Answer(s, FALSE, <<>>) /\ UNCHANGED <<rows, stale>>
    BY <1>1, <1>2, <1>10 DEF Write
  <2>2. rows' \in Seq(Row) /\ stale' \in [Boards -> SUBSET Nat]
    BY <2>1 DEF TypeOK
  <2> QED
    BY <1>1, <1>2, <1>4, <2>1, <2>2, HandlerTyped
<1>11. CASE h.q.op = "list"
  <2>1. /\ Answer(s, TRUE, Listing) /\ stale' = [stale EXCEPT ![BoardOf[s]] = {}]
        /\ UNCHANGED rows
    BY <1>1, <1>2, <1>11 DEF Write
  <2>2. Listing \in Seq(Card)
    BY <1>3, ListingTrue DEF CardsOK
  <2>3. rows' \in Seq(Row) /\ stale' \in [Boards -> SUBSET Nat]
    BY <2>1 DEF TypeOK
  <2> QED
    BY <1>1, <1>2, <2>1, <2>2, <2>3, HandlerTyped
<1>12. h.q.op \in {"create", "seed", "patch", "delete", "list"}
  BY <1>2 DEF Request
<1> QED
  BY <1>7, <1>8, <1>9, <1>10, <1>11, <1>12

LEMMA EndTyped ==
  ASSUME TypeOK, NEW s \in Slots,
         Answered(s) \/ RequestLost(s) \/ AnswerLost(s) \/ Unread(s)
  PROVE  TypeOK'
<1>1. PICK b, c, h : b = BoardOf[s] /\ c = board[b] /\ h = hand[s]
  OBVIOUS
<1>2. /\ b \in Boards /\ c \in Seq(Card) /\ board = [board EXCEPT ![b] = c]
      /\ h \in {Idle} \cup Busy /\ UNCHANGED <<rows, stale, count>>
  BY <1>1, TasksAssumption DEF TypeOK, Answered, RequestLost, AnswerLost, Unread
<1>3. /\ h \in Busy /\ h.prev \in Seq(Card) /\ h.got \in Seq(Card)
      /\ h.q.op \in {"create", "seed", "patch", "delete", "list"}
  <2>1. h # Idle
    BY <1>1 DEF Answered, RequestLost, AnswerLost, Unread, Idle
  <2> QED
    BY <1>2, <2>1 DEF Busy, Request
<1>4. \E x \in Seq(Card) : board' = [board EXCEPT ![b] = x]
  <2>1. \/ board' = board
        \/ board' = [board EXCEPT ![b] = h.prev]
        \/ board' = [board EXCEPT ![b] = h.got]
        \/ board' = [board EXCEPT ![b] = h.got \o c]
    BY <1>1 DEF Answered, RequestLost, AnswerLost, Unread, Confirm, Rollback
  <2>2. h.got \o c \in Seq(Card)
    BY <1>2, <1>3, ConcatProperties
  <2> QED
    BY <1>2, <1>3, <2>1, <2>2
<1>5. \E x \in {Idle} \cup Busy : hand' = [hand EXCEPT ![s] = x]
  <2>1. CASE Answered(s) \/ RequestLost(s) \/ Unread(s)
    <3>1. \/ hand' = [hand EXCEPT ![s] = Idle]
          \/ hand' = [hand EXCEPT ![s] = Starting(s, [op |-> "list"], "write")]
      BY <2>1 DEF Answered, RequestLost, Unread
    <3>2. [op |-> "list"] \in Request
      BY DEF Request
    <3>3. Starting(s, [op |-> "list"], "write") \in Busy
      BY <3>2, StartingTyped
    <3> QED
      BY <3>1, <3>3
  <2>2. CASE AnswerLost(s)
    <3>1. PICK x : x = [h EXCEPT !.heard = FALSE, !.prev = <<>>]
      OBVIOUS
    <3>2. x \in Busy
      <4>1. <<>> \in Seq(Card)
        BY EmptySeq
      <4> QED
        BY <1>3, <3>1, <4>1 DEF Busy
    <3>3. hand' = [hand EXCEPT ![s] = x]
      BY <1>1, <2>2, <3>1 DEF AnswerLost
    <3> QED
      BY <3>2, <3>3
  <2> QED
    BY <2>1, <2>2
<1>6. /\ rows' \in Seq(Row) /\ stale' \in [Boards -> SUBSET Nat] /\ count' \in Nat
      /\ dirty' \in SUBSET Boards
  BY <1>1, <1>2 DEF TypeOK, Answered, RequestLost, AnswerLost, Unread
<1> QED
  BY <1>2, <1>4, <1>5, <1>6, TypedStep

\* Rows, boards, functions in flight and what they remember have their types, however
\* many functions of one board overlap.
THEOREM TasksTypeCorrect == Spec => []TypeOK
<1>1. Init => TypeOK
  BY InitView DEF ViewInv
<1>2. TypeOK /\ [Next]_vars => TypeOK'
  <2> SUFFICES ASSUME TypeOK, [Next]_vars PROVE TypeOK'
    OBVIOUS
  <2>1. ASSUME NEW b \in Boards, Reload(b) PROVE TypeOK'
    <3>1. Listing \in Seq(Card)
      BY ListingTrue DEF CardsOK, TypeOK
    <3> QED
      BY <2>1, <3>1 DEF Reload, TypeOK
  <2>2. ASSUME NEW s \in Slots, Check(s) \/ Fail(s) PROVE TypeOK'
    BY <2>2, CheckTyped
  <2>3. ASSUME NEW s \in Slots, Write(s) PROVE TypeOK'
    BY <2>3, WriteTyped
  <2>4. ASSUME NEW s \in Slots, Answered(s) \/ RequestLost(s) \/ AnswerLost(s) \/ Unread(s)
        PROVE  TypeOK'
    BY <2>4, EndTyped
  <2>5. ASSUME NEW s \in Slots,
               \/ \E due \in Due : CreateTask(s, due)
               \/ SeedTasks(s)
               \/ \E i \in DOMAIN rows : DeleteTask(s, i)
               \/ \E i \in DOMAIN rows, st \in Status : MoveStatus(s, i, st)
               \/ \E i \in DOMAIN rows, st \in Status, due \in Due : SaveEdit(s, i, st, due)
        PROVE  TypeOK'
    BY <2>5, ChangeTyped
  <2>6. CASE UNCHANGED vars
    BY <2>6 DEF vars, TypeOK
  <2> QED
    BY <2>1, <2>2, <2>3, <2>4, <2>5, <2>6 DEF Next
<1> QED
  BY <1>1, <1>2, PTL DEF Spec
=============================================================================
