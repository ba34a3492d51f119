--------------------------- MODULE OtpFlowProofs ---------------------------
(***************************************************************************)
(* Theorems about OtpFlow, for every set of invitations, phones, devices   *)
(* and handler slots, every lifetime, limit and bound.                     *)
(***************************************************************************)
EXTENDS OtpFlow, RateLimiterProofs, FiniteSetTheorems, SequenceTheorems, TLAPS

(***************************************************************************)
(* Sequences of rows                                                       *)
(***************************************************************************)

\* Changing one row leaves a sequence of rows of the same length.
LEMMA RowChange ==
  ASSUME NEW s \in Seq(Row), NEW o \in DOMAIN s, NEW row \in Row
  PROVE  /\ [s EXCEPT ![o] = row] \in Seq(Row)
         /\ DOMAIN [s EXCEPT ![o] = row] = DOMAIN s
         /\ \A q \in DOMAIN s : [s EXCEPT ![o] = row][q] = IF q = o THEN row ELSE s[q]
BY LenProperties, ExceptSeq

\* Inserting a row leaves the earlier ones where they are.
LEMMA RowInsert ==
  ASSUME NEW s \in Seq(Row), NEW row \in Row
  PROVE  /\ Append(s, row) \in Seq(Row)
         /\ DOMAIN Append(s, row) = 1 .. Len(s) + 1
         /\ DOMAIN s = 1 .. Len(s) /\ Len(s) \in Nat
         /\ \A q \in DOMAIN s : Append(s, row)[q] = s[q]
         /\ Append(s, row)[Len(s) + 1] = row
<1>1. Append(s, row) \in Seq(Row) /\ Len(Append(s, row)) = Len(s) + 1
  BY AppendProperties
<1>2. DOMAIN Append(s, row) = 1 .. Len(Append(s, row))
  BY <1>1, LenProperties
<1> QED
  BY <1>1, <1>2, LenProperties, AppendProperties

\* A function from the indices of a sequence of rows to rows is one as well.
LEMMA RowMap ==
  ASSUME NEW s \in Seq(Row), NEW f, f = [o \in DOMAIN s |-> f[o]],
         \A o \in DOMAIN s : f[o] \in Row
  PROVE  f \in Seq(Row) /\ DOMAIN f = DOMAIN s
<1>1. Len(s) \in Nat /\ DOMAIN s = 1 .. Len(s)
  BY LenProperties
<1>2. f \in [1 .. Len(s) -> Row]
  BY <1>1
<1> QED
  BY <1>1, <1>2, SeqDef

\* How a row may change: whom it was issued to and when it expires is fixed,
\* delivery, wrong codes, consumption, redemption and deletion are never undone.
Later(row, new) ==
  /\ new.inv = row.inv /\ new.phone = row.phone /\ new.expiresAt = row.expiresAt
  /\ row.delivered => new.delivered
  /\ row.consumed => new.consumed
  /\ new.attempts \in Nat /\ row.attempts <= new.attempts
  /\ new.redeemed \in Nat /\ row.redeemed <= new.redeemed
  /\ new.stored => row.stored

LEMMA RowsLater ==
  ASSUME NEW row \in Row
  PROVE  /\ Later(row, row)
         /\ \A b \in BOOLEAN : Later(row, [row EXCEPT !.consumed = @ \/ b])
         /\ \A b \in BOOLEAN : Later(row, [row EXCEPT !.stored = @ /\ b])
         /\ \A b \in BOOLEAN : Later(row, [row EXCEPT !.delivered = @ \/ b])
         /\ Later(row, [row EXCEPT !.wrong = @ + 1])
         /\ Later(row, [row EXCEPT !.attempts = @ + 1])
         /\ Later(row, [row EXCEPT !.uncounted = @ + 1])
         /\ Later(row, [row EXCEPT !.consumed = TRUE, !.redeemed = @ + 1])
         /\ [row EXCEPT !.consumed = TRUE, !.redeemed = @ + 1].redeemed = row.redeemed + 1
<1>1. Later(row, row)
  BY DEF Row, Later
<1>2. \A b \in BOOLEAN : Later(row, [row EXCEPT !.consumed = @ \/ b])
  BY DEF Row, Later
<1>3. \A b \in BOOLEAN : Later(row, [row EXCEPT !.stored = @ /\ b])
  BY DEF Row, Later
<1>4. \A b \in BOOLEAN : Later(row, [row EXCEPT !.delivered = @ \/ b])
  BY DEF Row, Later
<1>5. Later(row, [row EXCEPT !.wrong = @ + 1])
  BY DEF Row, Later
<1>6. Later(row, [row EXCEPT !.attempts = @ + 1])
  BY DEF Row, Later
<1>7. /\ Later(row, [row EXCEPT !.consumed = TRUE, !.redeemed = @ + 1])
      /\ [row EXCEPT !.consumed = TRUE, !.redeemed = @ + 1].redeemed = row.redeemed + 1
  BY DEF Row, Later
<1>8. Later(row, [row EXCEPT !.uncounted = @ + 1])
  BY DEF Row, Later
<1> QED
  BY <1>1, <1>2, <1>3, <1>4, <1>5, <1>6, <1>7, <1>8

\* What the updates of a row by the handlers leave is a row.
LEMMA RowUpdates ==
  ASSUME NEW row \in Row
  PROVE  /\ \A b \in BOOLEAN : [row EXCEPT !.consumed = @ \/ b] \in Row
         /\ \A b \in BOOLEAN : [row EXCEPT !.stored = @ /\ b] \in Row
         /\ \A b \in BOOLEAN : [row EXCEPT !.delivered = @ \/ b] \in Row
         /\ [row EXCEPT !.wrong = @ + 1] \in Row
         /\ row.attempts < MaxAttempts => [row EXCEPT !.attempts = @ + 1] \in Row
         /\ [row EXCEPT !.uncounted = @ + 1] \in Row
         /\ [row EXCEPT !.consumed = TRUE, !.redeemed = @ + 1] \in Row
<1>1. \A b \in BOOLEAN : [row EXCEPT !.consumed = @ \/ b] \in Row
  BY DEF Row
<1>2. \A b \in BOOLEAN : [row EXCEPT !.stored = @ /\ b] \in Row
  BY DEF Row
<1>3. \A b \in BOOLEAN : [row EXCEPT !.delivered = @ \/ b] \in Row
  BY DEF Row
<1>4. [row EXCEPT !.wrong = @ + 1] \in Row
  BY DEF Row
<1>5. row.attempts < MaxAttempts => [row EXCEPT !.attempts = @ + 1] \in Row
  BY OtpAssumption DEF Row
<1>6. [row EXCEPT !.consumed = TRUE, !.redeemed = @ + 1] \in Row
  <2>1. PICK used \in Row : used = [row EXCEPT !.consumed = TRUE]
    BY DEF Row
  <2>2. used.redeemed = row.redeemed /\ row.redeemed + 1 \in Nat
    BY <2>1 DEF Row
  <2>3. [used EXCEPT !.redeemed = row.redeemed + 1] \in Row
    BY <2>2 DEF Row
  <2> QED
    BY <2>1, <2>2, <2>3
<1>7. [row EXCEPT !.uncounted = @ + 1] \in Row
  BY DEF Row
<1> QED
  BY <1>1, <1>2, <1>3, <1>4, <1>5, <1>6, <1>7

\* The fields of a handler in flight, by the place it waits at.
LEMMA RequestFields ==
  ASSUME NEW h \in {Idle} \cup Request
  PROVE  /\ h.pc \in {"invalidate", "create"} =>
              /\ h.inv \in Invitations /\ h.phone \in Phones /\ h.expiresAt \in Nat
              /\ [h EXCEPT !.pc = "create"] \in Request
              /\ \A stored \in BOOLEAN : NewRow(h, stored) \in Row
         /\ h.pc = "send" => h.otp \in Nat \ {0}
<1>1. CASE h = Idle
  BY <1>1 DEF Idle
<1>2. CASE h \in [pc : {"invalidate", "create"}, inv : Invitations, phone : Phones, expiresAt : Nat]
  BY <1>2, OtpAssumption DEF Request, NewRow, Row
<1>3. CASE h \in [pc : {"send"}, otp : Nat \ {0}]
  BY <1>3 DEF Request
<1> QED
  BY <1>1, <1>2, <1>3 DEF Request

LEMMA VerifyFields ==
  ASSUME NEW h \in {Idle} \cup Verify
  PROVE  /\ h.pc \in {"consume", "grant"} =>
              /\ h.inv \in Invitations /\ h.device \in Devices /\ h.trust \in BOOLEAN
              /\ [h EXCEPT !.pc = "grant"] \in Verify
              /\ [h EXCEPT !.pc = "grant"].otp = h.otp
         /\ h # Idle => h.otp \in Nat \ {0}
         /\ h.pc = "idle" <=> h = Idle
<1>1. CASE h = Idle
  BY <1>1 DEF Idle
<1>2. CASE h \in [pc : {"increment"}, otp : Nat \ {0}]
  BY <1>2 DEF Verify, Idle
<1>3. CASE h \in [pc : {"consume", "grant"}, otp : Nat \ {0}, inv : Invitations,
                   device : Devices, trust : BOOLEAN]
  BY <1>3 DEF Verify, Idle
<1> QED
  BY <1>1, <1>2, <1>3 DEF Verify

(***************************************************************************)
(* What the two statements of createOtp do                                 *)
(***************************************************************************)

\* The first statement, when it answers.
Closes(r) ==
  /\ req[r].pc = "invalidate"
  /\ otps' = [o \in DOMAIN otps |->
                [otps[o] EXCEPT !.consumed =
                   @ \/ OfPair(o, req[r].inv, req[r].phone)]]
  /\ req' = [req EXCEPT ![r].pc = "create"]
  /\ UNCHANGED <<live, buckets, ver, access, trust, now, restarts>>

\* The second, or a failure of either: the request becomes a row, which may never
\* have been stored.
Inserts(r, stored) ==
  /\ req[r].pc \in {"invalidate", "create"}
  /\ stored => req[r].pc = "create" /\ req[r].inv \in live
  /\ otps' = Append(otps, NewRow(req[r], stored))
  /\ req' = [req EXCEPT ![r] = IF stored THEN [pc |-> "send", otp |-> Len(otps) + 1]
                                         ELSE Idle]
  /\ UNCHANGED <<live, buckets, ver, access, trust, now, restarts>>

LEMMA CreateForms ==
  ASSUME NEW r \in Requests, Invalidate(r) \/ Create(r)
  PROVE  Closes(r) \/ Inserts(r, TRUE) \/ Inserts(r, FALSE)
<1>1. CASE Invalidate(r)
  BY <1>1 DEF Invalidate, CreateFails, Closes, Inserts
<1>2. CASE Create(r)
  BY <1>2 DEF Create, CreateFails, Inserts
<1> QED
  BY <1>1, <1>2

(***************************************************************************)
(* Type correctness                                                        *)
(***************************************************************************)

\* The handlers in flight refer to rows that exist.
RefsOK ==
  /\ \A r \in Requests : req[r].pc = "send" => req[r].otp \in DOMAIN otps
  /\ \A v \in Verifies : ver[v] # Idle => ver[v].otp \in DOMAIN otps

TypeInv == TypeOK /\ RefsOK

LEMMA TypeInit == Init => TypeInv
BY OtpAssumption, EmptySeq DEF Init, TypeInv, TypeOK, RefsOK, Idle, NoCookie

LEMMA TypeNext == TypeInv /\ [Next]_vars => TypeInv'
<1> SUFFICES ASSUME TypeInv, [Next]_vars PROVE TypeInv'
  OBVIOUS
<1> USE OtpAssumption
<1> otps \in Seq(Row) /\ Len(otps) \in Nat /\ DOMAIN otps = 1 .. Len(otps)
  BY LenProperties DEF TypeInv, TypeOK
<1> \A o \in DOMAIN otps : otps[o] \in Row
  BY ElementOfSeq
<1>1. ASSUME NEW r \in Requests, NEW i \in Invitations, NEW p \in Phones,
             RequestGate(r, i, p)
      PROVE  TypeInv'
  <2>1. Recorded(buckets[p], now) \in Seq(Nat)
    BY RecordedType DEF TypeInv, TypeOK
  <2>2. buckets' \in [Phones -> Seq(Nat)]
    BY <1>1, <2>1 DEF RequestGate, TypeInv, TypeOK
  <2>3. req' \in [Requests -> {Idle} \cup Request]
    BY <1>1 DEF RequestGate, TypeInv, TypeOK, Request, Idle
  <2>4. RefsOK'
    BY <1>1 DEF RequestGate, TypeInv, TypeOK, RefsOK
  <2> QED
    BY <1>1, <2>2, <2>3, <2>4 DEF RequestGate, TypeInv, TypeOK
<1>2. ASSUME NEW r \in Requests, Closes(r) PROVE TypeInv'
  <2>1. \A o \in DOMAIN otps :
          [otps[o] EXCEPT !.consumed = @ \/ OfPair(o, req[r].inv, req[r].phone)] \in Row
    BY RowUpdates DEF OfPair
  <2>2. otps' \in Seq(Row) /\ DOMAIN otps' = DOMAIN otps
    BY <1>2, <2>1, RowMap DEF Closes
  <2>3. [req[r] EXCEPT !.pc = "create"] \in Request
    BY <1>2, RequestFields DEF Closes, TypeInv, TypeOK
  <2>4. req' \in [Requests -> {Idle} \cup Request]
    BY <1>2, <2>3 DEF Closes, TypeInv, TypeOK
  <2> QED
    BY <1>2, <2>2, <2>4 DEF Closes, TypeInv, TypeOK, RefsOK
<1>3. ASSUME NEW r \in Requests, NEW stored \in BOOLEAN, Inserts(r, stored) PROVE TypeInv'
  <2>1. NewRow(req[r], stored) \in Row
    BY <1>3, RequestFields DEF Inserts, TypeInv, TypeOK
  <2>2. otps' \in Seq(Row) /\ DOMAIN otps' = 1 .. Len(otps) + 1
    BY <1>3, <2>1, RowInsert DEF Inserts
  <2>3. req' \in [Requests -> {Idle} \cup Request]
    BY <1>3 DEF Inserts, TypeInv, TypeOK, Request
  <2>4. \A q \in Requests : req'[q].pc = "send" => req'[q].otp \in DOMAIN otps'
    <3>1. \A q \in Requests \ {r} : req'[q] = req[q]
      BY <1>3 DEF Inserts, TypeInv, TypeOK
    <3>2. req'[r].pc = "send" => req'[r].otp = Len(otps) + 1
      BY <1>3 DEF Inserts, TypeInv, TypeOK, Idle
    <3> QED
      BY <2>2, <3>1, <3>2 DEF TypeInv, RefsOK
  <2>5. RefsOK'
    BY <1>3, <2>2, <2>4 DEF Inserts, TypeInv, RefsOK
  <2> QED
    BY <1>3, <2>2, <2>3, <2>5 DEF Inserts, TypeInv, TypeOK
<1>4. ASSUME NEW r \in Requests, Send(r) PROVE TypeInv'
  <2>1. req[r].otp \in DOMAIN otps
    BY <1>4 DEF Send, TypeInv, RefsOK
  <2>2. PICK got \in BOOLEAN : otps' = [otps EXCEPT ![req[r].otp].delivered = @ \/ got]
    BY <1>4 DEF Send
  <2>3. [otps[req[r].otp] EXCEPT !.delivered = @ \/ got] \in Row
    BY <2>1, RowUpdates
  <2>4. otps' \in Seq(Row) /\ DOMAIN otps' = DOMAIN otps
    BY <2>1, <2>2, <2>3, RowChange
  <2>5. req' \in [Requests -> {Idle} \cup Request]
    BY <1>4 DEF Send, TypeInv, TypeOK
  <2> QED
    BY <1>4, <2>4, <2>5 DEF Send, TypeInv, TypeOK, RefsOK, Idle
<1>5. ASSUME NEW v \in Verifies, NEW i \in Invitations, NEW p \in Phones,
             VerifyWrong(v, i, p)
      PROVE  TypeInv'
  <2>1. PICK o \in DOMAIN otps :
          /\ otps' = [otps EXCEPT ![o].wrong = @ + 1]
          /\ ver' = [ver EXCEPT ![v] = [pc |-> "increment", otp |-> o]]
    BY <1>5 DEF VerifyWrong, Pending, Usable
  <2>2. [otps[o] EXCEPT !.wrong = @ + 1] \in Row
    BY <2>1, RowUpdates
  <2>3. otps' \in Seq(Row) /\ DOMAIN otps' = DOMAIN otps
    BY <2>1, <2>2, RowChange
  <2>4. ver' \in [Verifies -> {Idle} \cup Verify]
    BY <2>1 DEF TypeInv, TypeOK, Verify
  <2> QED
    BY <1>5, <2>1, <2>3, <2>4 DEF VerifyWrong, TypeInv, TypeOK, RefsOK
<1>6. ASSUME NEW v \in Verifies, NEW d \in Devices, NEW i \in Invitations,
             NEW p \in Phones, NEW remember \in BOOLEAN,
             VerifyRight(v, d, i, p, remember)
      PROVE  TypeInv'
  <2>1. PICK o \in DOMAIN otps :
          ver' = [ver EXCEPT ![v] = [pc |-> "consume", otp |-> o, inv |-> i,
                                     device |-> d, trust |-> remember]]
    BY <1>6 DEF VerifyRight, Pending, Usable
  <2>2. ver' \in [Verifies -> {Idle} \cup Verify]
    BY <2>1 DEF TypeInv, TypeOK, Verify
  <2> QED
    BY <1>6, <2>1, <2>2 DEF VerifyRight, TypeInv, TypeOK, RefsOK
<1>7. ASSUME NEW v \in Verifies, Increment(v) PROVE TypeInv'
  <2> DEFINE o == ver[v].otp
  <2>1. o \in DOMAIN otps
    BY <1>7 DEF Increment, TypeInv, RefsOK, Idle
  <2>2. otps' \in Seq(Row) /\ DOMAIN otps' = DOMAIN otps
    <3>1. CASE /\ otps[o].attempts < MaxAttempts
               /\ otps' = [otps EXCEPT ![o].attempts = @ + 1]
      <4>1. [otps[o] EXCEPT !.attempts = @ + 1] \in Row
        BY <2>1, <3>1, RowUpdates
      <4> QED
        BY <2>1, <3>1, <4>1, RowChange
    <3>2. CASE otps' = otps
      BY <3>2
    <3>3. CASE otps' = [otps EXCEPT ![o].uncounted = @ + 1]
      <4>1. [otps[o] EXCEPT !.uncounted = @ + 1] \in Row
        BY <2>1, RowUpdates
      <4> QED
        BY <2>1, <3>3, <4>1, RowChange
    <3> QED
      BY <1>7, <3>1, <3>2, <3>3 DEF Increment
  <2>3. ver' \in [Verifies -> {Idle} \cup Verify]
    BY <1>7 DEF Increment, TypeInv, TypeOK
  <2> QED
    BY <1>7, <2>2, <2>3 DEF Increment, TypeInv, TypeOK, RefsOK, Idle
<1>8. ASSUME NEW v \in Verifies, Consume(v) PROVE TypeInv'
  <2> DEFINE o == ver[v].otp
  <2>1. o \in DOMAIN otps
    BY <1>8 DEF Consume, TypeInv, RefsOK, Idle
  <2>2. CASE /\ otps' = [otps EXCEPT ![o].consumed = TRUE, ![o].redeemed = @ + 1]
             /\ ver' = [ver EXCEPT ![v].pc = "grant"]
    <3>1. [otps[o] EXCEPT !.consumed = TRUE, !.redeemed = @ + 1] \in Row
      BY <2>1, RowUpdates
    <3>2. otps' = [otps EXCEPT ![o] = [otps[o] EXCEPT !.consumed = TRUE, !.redeemed = @ + 1]]
      BY <2>1, <2>2 DEF Row
    <3>3. otps' \in Seq(Row) /\ DOMAIN otps' = DOMAIN otps
      BY <2>1, <3>1, <3>2, RowChange
    <3>4. ver' \in [Verifies -> {Idle} \cup Verify]
      BY <1>8, <2>2, VerifyFields DEF Consume, TypeInv, TypeOK
    <3>5. RefsOK'
      BY <1>8, <2>1, <2>2, <3>3, VerifyFields DEF Consume, TypeInv, TypeOK, RefsOK
    <3> QED
      BY <1>8, <3>3, <3>4, <3>5 DEF Consume, TypeInv, TypeOK
  <2>3. CASE ver' = [ver EXCEPT ![v] = Idle] /\ UNCHANGED otps
    BY <1>8, <2>3 DEF Consume, TypeInv, TypeOK, RefsOK, Idle
  <2> QED
    BY <1>8, <2>2, <2>3 DEF Consume
<1>9. ASSUME NEW v \in Verifies, Grant(v) PROVE TypeInv'
  <2>1. ver[v].inv \in Invitations /\ ver[v].device \in Devices /\ ver[v].otp \in Nat
    BY <1>9, VerifyFields DEF Grant, TypeInv, TypeOK, Idle
  <2>2. \A ttl \in Nat : [inv |-> ver[v].inv, expiresAt |-> now + ttl, otp |-> ver[v].otp] \in Cookie
    BY <2>1 DEF TypeInv, TypeOK, Cookie
  <2>3. access' \in [Devices -> {NoCookie} \cup Cookie] /\ trust' \in [Devices -> {NoCookie} \cup Cookie]
    <3>1. CASE UNCHANGED <<access, trust>>
      BY <3>1 DEF TypeInv, TypeOK
    <3>2. CASE ~ UNCHANGED <<access, trust>>
      <4> DEFINE cookie(ttl) == [inv |-> ver[v].inv, expiresAt |-> now + ttl, otp |-> ver[v].otp]
      <4>1. /\ access' = [access EXCEPT ![ver[v].device] = cookie(AccessTtl)]
            /\ \/ trust' = [trust EXCEPT ![ver[v].device] = cookie(TrustTtl)]
               \/ trust' = trust
        BY <1>9, <3>2 DEF Grant
      <4>2. cookie(AccessTtl) \in Cookie /\ cookie(TrustTtl) \in Cookie
        BY <2>2
      <4> HIDE DEF cookie
      <4> QED
        BY <4>1, <4>2 DEF TypeInv, TypeOK
    <3> QED
      BY <3>1, <3>2
  <2>4. ver' \in [Verifies -> {Idle} \cup Verify]
    BY <1>9 DEF Grant, TypeInv, TypeOK
  <2> QED
    BY <1>9, <2>3, <2>4 DEF Grant, TypeInv, TypeOK, RefsOK, Idle
<1>10. ASSUME NEW i \in Invitations, NEW d \in Devices, GuestAccess(d, i)
       PROVE  TypeInv'
  BY <1>10 DEF GuestAccess, TypeInv, TypeOK, RefsOK, Cookie
<1>11. ASSUME NEW i \in Invitations, DeleteInvitation(i) PROVE TypeInv'
  <2>1. \A o \in DOMAIN otps :
          [otps[o] EXCEPT !.stored = @ /\ otps[o].inv # i] \in Row
    BY RowUpdates
  <2>2. otps' \in Seq(Row) /\ DOMAIN otps' = DOMAIN otps
    BY <1>11, <2>1, RowMap DEF DeleteInvitation
  <2> QED
    BY <1>11, <2>2 DEF DeleteInvitation, TypeInv, TypeOK, RefsOK
<1>12. CASE Restart
  BY <1>12, EmptySeq DEF Restart, TypeInv, TypeOK, RefsOK, Idle
<1>13. CASE Tick
  BY <1>13 DEF Tick, TypeInv, TypeOK, RefsOK
<1>14. CASE UNCHANGED vars
  BY <1>14 DEF vars, TypeInv, TypeOK, RefsOK
<1>15. ASSUME NEW r \in Requests, Invalidate(r) \/ Create(r) PROVE TypeInv'
  BY <1>2, <1>3, <1>15, CreateForms
<1> QED
  BY <1>1, <1>15, <1>4, <1>5, <1>6, <1>7, <1>8, <1>9, <1>10, <1>11, <1>12, <1>13, <1>14
     DEF Next, RequestStep, VerifyStep

\* Every reachable state is well typed; in particular concurrent increments
\* never push an attempts counter past OTP_MAX_ATTEMPTS.
THEOREM TypeCorrect == Spec => []TypeOK
<1>1. TypeInv => TypeOK
  BY DEF TypeInv
<1> QED
  BY TypeInit, TypeNext, <1>1, PTL DEF Spec

(***************************************************************************)
(* Access                                                                  *)
(***************************************************************************)

\* No step takes back what a row says about its issue, delivery or use.
RowsKept ==
  \A o \in DOMAIN otps : o \in DOMAIN otps' /\ Later(otps[o], otps'[o])

LEMMA RowsKeptNext == TypeInv /\ [Next]_vars => RowsKept
<1> SUFFICES ASSUME TypeInv, [Next]_vars PROVE RowsKept
  OBVIOUS
<1> otps \in Seq(Row) /\ Len(otps) \in Nat /\ DOMAIN otps = 1 .. Len(otps)
  BY LenProperties DEF TypeInv, TypeOK
<1> \A o \in DOMAIN otps : otps[o] \in Row
  BY ElementOfSeq
<1>1. ASSUME NEW r \in Requests, Closes(r) PROVE RowsKept
  BY <1>1, RowsLater DEF Closes, RowsKept, OfPair
<1>2. ASSUME NEW r \in Requests, NEW stored \in BOOLEAN, Inserts(r, stored) PROVE RowsKept
  <2>1. NewRow(req[r], stored) \in Row
    BY <1>2, RequestFields DEF Inserts, TypeInv, TypeOK
  <2>2. \A o \in DOMAIN otps : o \in DOMAIN otps' /\ otps'[o] = otps[o]
    BY <1>2, <2>1, RowInsert DEF Inserts
  <2> QED
    BY <2>2, RowsLater DEF RowsKept
<1>3. ASSUME NEW r \in Requests, Send(r) PROVE RowsKept
  <2>1. req[r].otp \in DOMAIN otps
    BY <1>3 DEF Send, TypeInv, RefsOK
  <2>2. PICK got \in BOOLEAN : otps' = [otps EXCEPT ![req[r].otp].delivered = @ \/ got]
    BY <1>3 DEF Send
  <2> QED
    BY <2>1, <2>2, RowsLater, RowUpdates, RowChange DEF RowsKept
<1>4. ASSUME NEW v \in Verifies, NEW i \in Invitations, NEW p \in Phones,
             VerifyWrong(v, i, p)
      PROVE  RowsKept
  <2>1. PICK o \in DOMAIN otps : otps' = [otps EXCEPT ![o].wrong = @ + 1]
    BY <1>4 DEF VerifyWrong, Pending, Usable
  <2> QED
    BY <2>1, RowsLater, RowUpdates, RowChange DEF RowsKept
<1>5. ASSUME NEW v \in Verifies, Increment(v) PROVE RowsKept
  <2> DEFINE o == ver[v].otp
  <2>1. o \in DOMAIN otps
    BY <1>5 DEF Increment, TypeInv, RefsOK, Idle
  <2>2. CASE otps' = otps
    BY <2>2, RowsLater DEF RowsKept
  <2>3. CASE otps[o].attempts < MaxAttempts /\ otps' = [otps EXCEPT ![o].attempts = @ + 1]
    BY <2>1, <2>3, RowsLater, RowUpdates, RowChange DEF RowsKept
  <2>4. CASE otps' = [otps EXCEPT ![o].uncounted = @ + 1]
    BY <2>1, <2>4, RowsLater, RowUpdates, RowChange DEF RowsKept
  <2> QED
    BY <1>5, <2>2, <2>3, <2>4 DEF Increment
<1>6. ASSUME NEW v \in Verifies, Consume(v) PROVE RowsKept
  <2> DEFINE o == ver[v].otp
  <2>1. o \in DOMAIN otps
    BY <1>6 DEF Consume, TypeInv, RefsOK, Idle
  <2>2. CASE otps' = otps
    BY <2>2, RowsLater DEF RowsKept
  <2>3. CASE otps' = [otps EXCEPT ![o].consumed = TRUE, ![o].redeemed = @ + 1]
    <3>1. otps' = [otps EXCEPT ![o] = [otps[o] EXCEPT !.consumed = TRUE, !.redeemed = @ + 1]]
      BY <2>1, <2>3 DEF Row
    <3> QED
      BY <2>1, <3>1, RowsLater, RowUpdates, RowChange DEF RowsKept
  <2> QED
    BY <1>6, <2>2, <2>3 DEF Consume
<1>7. ASSUME NEW i \in Invitations, DeleteInvitation(i) PROVE RowsKept
  BY <1>7, RowsLater DEF DeleteInvitation, RowsKept
<1>8. CASE UNCHANGED otps
  BY <1>8, RowsLater DEF RowsKept
<1>9. ASSUME NEW r \in Requests, Invalidate(r) \/ Create(r) PROVE RowsKept
  BY <1>1, <1>2, <1>9, CreateForms
<1> QED
  BY <1>3, <1>4, <1>5, <1>6, <1>7, <1>8, <1>9
     DEF Next, RequestStep, VerifyStep, RequestGate, VerifyRight, Grant, GuestAccess,
         Restart, Tick, vars

\* A code that a verification would take: stored, unconsumed, unexpired and not
\* locked.
Accepts(o) ==
  /\ otps[o].stored /\ ~otps[o].consumed
  /\ otps[o].expiresAt > now /\ Open(o)

RefusedForGood == \A o \in DOMAIN otps : ~Accepts(o) => ~Accepts(o)'

\* A code that has expired, was used, replaced or locked, or went with its
\* invitation, is never taken again: no late increment, consumption or restart
\* unlocks it, and only its own expiry is compared with the clock, which no step
\* sets back.
THEOREM RefusedStaysRefused == Spec => [][RefusedForGood]_vars
<1>1. TypeInv /\ [Next]_vars => RefusedForGood
  <2> SUFFICES ASSUME TypeInv, [Next]_vars, NEW o \in DOMAIN otps, Accepts(o)'
               PROVE  Accepts(o)
    BY DEF RefusedForGood
  <2>1. Later(otps[o], otps'[o])
    BY RowsKeptNext DEF RowsKept
  <2>2. otps[o].attempts \in Nat /\ MaxAttempts \in Nat /\ otps[o].expiresAt \in Nat
    <3>1. otps[o] \in Row
      BY ElementOfSeq, LenProperties DEF TypeInv, TypeOK
    <3> QED
      BY <3>1, OtpAssumption DEF Row
  <2>3. now \in Nat /\ now' \in Nat /\ now <= now'
    <3>1. now' = now \/ now' = now + 1
      BY DEF Next, RequestStep, VerifyStep, RequestGate, Invalidate, Create, Send,
             VerifyWrong, VerifyRight, Increment, Consume, Grant, GuestAccess,
             DeleteInvitation, Restart, Tick, vars
    <3> QED
      BY <3>1 DEF TypeInv, TypeOK
  <2>4. otps[o].stored /\ ~otps[o].consumed
    BY <2>1 DEF Accepts, Later
  <2>5. otps[o].expiresAt > now
    BY <2>1, <2>2, <2>3 DEF Accepts, Later
  <2>6. Open(o)
    BY <2>1, <2>2 DEF Accepts, Later, Open
  <2> QED
    BY <2>4, <2>5, <2>6 DEF Accepts
<1> QED
  BY <1>1, TypeInit, TypeNext, PTL DEF Spec

\* The inductive strengthening of AccessBacked: rows and requests carry phones
\* of the allowlist, and a verification past the comparison holds a code that
\* was issued for its invitation and delivered, and after consumeOtp redeemed.
Issued ==
  /\ \A o \in DOMAIN otps : otps[o].phone \in Accepted[otps[o].inv]
  /\ \A r \in Requests :
       req[r].pc \in {"invalidate", "create"} => req[r].phone \in Accepted[req[r].inv]

Proven ==
  \A v \in Verifies :
    /\ ver[v].pc \in {"consume", "grant"} =>
         otps[ver[v].otp].inv = ver[v].inv /\ otps[ver[v].otp].delivered
    /\ ver[v].pc = "grant" => otps[ver[v].otp].redeemed > 0

AccessInv == Issued /\ Proven /\ AccessBacked

LEMMA AccessInit == Init => AccessInv
BY EmptySeq DEF Init, AccessInv, Issued, Proven, AccessBacked, Idle

\* A cookie stays backed by its row.
LEMMA BackedKept ==
  ASSUME TypeInv, RowsKept, NEW cookie, Backed(cookie)
  PROVE  Backed(cookie)'
<1>1. otps[cookie.otp] \in Row
  BY ElementOfSeq, LenProperties DEF TypeInv, TypeOK, Backed
<1> QED
  BY <1>1 DEF RowsKept, Backed, Later, Row

LEMMA IssuedNext == TypeInv /\ TypeInv' /\ Issued /\ [Next]_vars => Issued'
<1> SUFFICES ASSUME TypeInv, TypeInv', Issued, [Next]_vars PROVE Issued'
  OBVIOUS
<1>1. RowsKept
  BY RowsKeptNext
<1>2. \A o \in DOMAIN otps : otps'[o].phone \in Accepted[otps'[o].inv]
  BY <1>1 DEF RowsKept, Later, Issued
<1>3. ASSUME NEW r \in Requests, NEW i \in Invitations, NEW p \in Phones,
             RequestGate(r, i, p)
      PROVE  Issued'
  BY <1>3 DEF RequestGate, Gate, Issued, TypeInv, TypeOK
<1>4. ASSUME NEW r \in Requests, Closes(r) PROVE Issued'
  <2>1. DOMAIN otps' = DOMAIN otps
    BY <1>4 DEF Closes
  <2>2. ASSUME NEW q \in Requests, req'[q].pc \in {"invalidate", "create"}
        PROVE  req'[q].phone \in Accepted[req'[q].inv]
    <3>1. CASE q # r
      <4>1. req'[q] = req[q]
        BY <1>4, <3>1 DEF Closes, TypeInv, TypeOK
      <4> QED
        BY <2>2, <4>1 DEF Issued
    <3>2. CASE q = r
      <4>1. PICK h \in {Idle} \cup Request : h = req[r]
        BY DEF TypeInv, TypeOK
      <4>2. h.pc = "invalidate"
        BY <1>4, <4>1 DEF Closes
      <4>3. /\ [h EXCEPT !.pc = "create"].inv = h.inv
            /\ [h EXCEPT !.pc = "create"].phone = h.phone
        BY <4>2 DEF Request, Idle
      <4>4. req'[q] = [h EXCEPT !.pc = "create"]
        BY <1>4, <3>2, <4>1 DEF Closes, TypeInv, TypeOK
      <4>5. h.phone \in Accepted[h.inv]
        BY <4>1, <4>2 DEF Issued
      <4> QED
        BY <4>3, <4>4, <4>5
    <3> QED
      BY <3>1, <3>2
  <2> QED
    BY <1>2, <2>1, <2>2 DEF Issued
<1>5. ASSUME NEW r \in Requests, NEW stored \in BOOLEAN, Inserts(r, stored) PROVE Issued'
  <2>1. NewRow(req[r], stored) \in Row
    BY <1>5, RequestFields DEF Inserts, TypeInv, TypeOK
  <2>2. /\ DOMAIN otps' = DOMAIN otps \cup {Len(otps) + 1}
        /\ otps'[Len(otps) + 1] = NewRow(req[r], stored)
    BY <1>5, <2>1, RowInsert DEF Inserts, TypeInv, TypeOK
  <2>3. NewRow(req[r], stored).phone \in Accepted[NewRow(req[r], stored).inv]
    BY <1>5 DEF Inserts, NewRow, Issued
  <2>4. \A q \in Requests : req'[q] = req[q] \/ req'[q].pc \in {"send", "idle"}
    BY <1>5 DEF Inserts, TypeInv, TypeOK, Idle
  <2> QED
    BY <1>2, <2>2, <2>3, <2>4 DEF Issued
<1>6. CASE DOMAIN otps' = DOMAIN otps /\ \A r \in Requests : req'[r] \in {req[r], Idle}
  BY <1>2, <1>6 DEF Issued, Idle
<1>7. ASSUME NEW r \in Requests, Send(r)
      PROVE  DOMAIN otps' = DOMAIN otps /\ \A q \in Requests : req'[q] \in {req[q], Idle}
  BY <1>7 DEF Send, TypeInv, TypeOK
<1>8. ASSUME NEW v \in Verifies, VerifyStep(v) \/ \E i \in Invitations, p \in Phones : VerifyWrong(v, i, p)
      PROVE  DOMAIN otps' = DOMAIN otps /\ req' = req
  BY <1>8 DEF VerifyStep, Increment, Consume, Grant, VerifyWrong
<1>9. (Restart \/ \E i \in Invitations : DeleteInvitation(i))
        => DOMAIN otps' = DOMAIN otps /\ \A q \in Requests : req'[q] \in {req[q], Idle}
  BY DEF Restart, DeleteInvitation
<1>10. ASSUME NEW r \in Requests, Invalidate(r) \/ Create(r) PROVE Issued'
  BY <1>4, <1>5, <1>10, CreateForms
<1> QED
  BY <1>3, <1>6, <1>7, <1>8, <1>9, <1>10
     DEF Next, RequestStep, VerifyRight, GuestAccess, Tick, vars

LEMMA ProvenNext == TypeInv /\ TypeInv' /\ Proven /\ [Next]_vars => Proven'
<1> SUFFICES ASSUME TypeInv, TypeInv', Proven, [Next]_vars PROVE Proven'
  OBVIOUS
<1> DEFINE Held(v) ==
             /\ ver[v].pc \in {"consume", "grant"} =>
                  otps[ver[v].otp].inv = ver[v].inv /\ otps[ver[v].otp].delivered
             /\ ver[v].pc = "grant" => otps[ver[v].otp].redeemed > 0
<1>1. RowsKept
  BY RowsKeptNext
<1>2. \A o \in DOMAIN otps : otps[o] \in Row
  BY ElementOfSeq, LenProperties DEF TypeInv, TypeOK
\* A verification that does not move keeps what it holds.
<1>3. \A v \in Verifies : ver'[v] \in {ver[v], Idle} => Held(v)'
  <2> SUFFICES ASSUME NEW v \in Verifies, ver'[v] = ver[v], ver[v] # Idle PROVE Held(v)'
    BY DEF Idle
  <2>1. ver[v].otp \in DOMAIN otps
    BY DEF TypeInv, RefsOK
  <2>2. Later(otps[ver[v].otp], otps'[ver[v].otp]) /\ otps[ver[v].otp] \in Row
    BY <1>1, <1>2, <2>1 DEF RowsKept
  <2> QED
    BY <2>2 DEF Proven, Later, Row
<1>4. ASSUME NEW v \in Verifies, NEW i \in Invitations, NEW p \in Phones,
             VerifyWrong(v, i, p)
      PROVE  Proven'
  <2>1. ver'[v].pc = "increment" /\ \A w \in Verifies \ {v} : ver'[w] = ver[w]
    BY <1>4 DEF VerifyWrong, TypeInv, TypeOK
  <2> QED
    BY <1>3, <2>1 DEF Proven
<1>5. ASSUME NEW v \in Verifies, NEW d \in Devices, NEW i \in Invitations,
             NEW p \in Phones, NEW remember \in BOOLEAN,
             VerifyRight(v, d, i, p, remember)
      PROVE  Proven'
  <2>1. PICK o \in DOMAIN otps :
          /\ otps[o].inv = i /\ otps[o].delivered
          /\ ver' = [ver EXCEPT ![v] = [pc |-> "consume", otp |-> o, inv |-> i,
                                        device |-> d, trust |-> remember]]
    BY <1>5 DEF VerifyRight, Pending, Usable, OfPair
  <2>2. otps' = otps /\ \A w \in Verifies \ {v} : ver'[w] = ver[w]
    BY <1>5, <2>1 DEF VerifyRight, TypeInv, TypeOK
  <2>3. ver'[v].pc = "consume" /\ ver'[v].otp = o /\ ver'[v].inv = i
    BY <2>1 DEF TypeInv, TypeOK
  <2> QED
    BY <1>3, <2>1, <2>2, <2>3 DEF Proven
<1>6. ASSUME NEW v \in Verifies, Consume(v) PROVE Proven'
  <2>1. CASE ver' = [ver EXCEPT ![v] = Idle]
    BY <1>3, <2>1 DEF Proven, TypeInv, TypeOK
  <2>2. CASE /\ ver' = [ver EXCEPT ![v].pc = "grant"]
             /\ otps' = [otps EXCEPT ![ver[v].otp].consumed = TRUE,
                                     ![ver[v].otp].redeemed = @ + 1]
    <3>1. PICK h \in {Idle} \cup Verify : h = ver[v]
      BY DEF TypeInv, TypeOK
    <3>2. h.pc = "consume" /\ h # Idle
      BY <1>6, <3>1 DEF Consume, Idle
    <3>3. [h EXCEPT !.pc = "grant"].otp = h.otp /\ [h EXCEPT !.pc = "grant"].inv = h.inv
      BY <3>2 DEF Verify, Idle
    <3>4. ver' = [ver EXCEPT ![v] = [h EXCEPT !.pc = "grant"]]
      BY <2>2, <3>1
    <3>5. ver'[v].otp = h.otp /\ ver'[v].inv = h.inv
      BY <3>3, <3>4 DEF TypeInv, TypeOK
    <3>6. h.otp \in DOMAIN otps /\ otps[h.otp] \in Row
      BY <1>2, <3>1, <3>2 DEF TypeInv, RefsOK
    <3>7. otps' = [otps EXCEPT ![h.otp] =
                     [otps[h.otp] EXCEPT !.consumed = TRUE, !.redeemed = @ + 1]]
      BY <2>2, <3>1, <3>6
    <3>8. otps'[h.otp].redeemed = otps[h.otp].redeemed + 1
      BY <3>6, <3>7, RowsLater
    <3>9. otps'[h.otp].redeemed > 0
      BY <3>6, <3>8 DEF Row
    <3>10. otps'[h.otp].inv = h.inv /\ otps'[h.otp].delivered
      BY <1>1, <3>1, <3>2, <3>6 DEF RowsKept, Later, Proven
    <3>11. \A w \in Verifies \ {v} : ver'[w] = ver[w]
      BY <2>2 DEF TypeInv, TypeOK
    <3> QED
      BY <1>3, <3>5, <3>9, <3>10, <3>11 DEF Proven
  <2> QED
    BY <1>6, <2>1, <2>2 DEF Consume
<1>7. ASSUME NEW v \in Verifies, Increment(v) \/ Grant(v) PROVE Proven'
  <2>1. \A w \in Verifies : ver'[w] \in {ver[w], Idle}
    BY <1>7 DEF Increment, Grant, TypeInv, TypeOK
  <2> QED
    BY <1>3, <2>1 DEF Proven
<1>8. CASE \A w \in Verifies : ver'[w] \in {ver[w], Idle}
  BY <1>3, <1>8 DEF Proven
<1> QED
  BY <1>4, <1>5, <1>6, <1>7, <1>8
     DEF Next, RequestStep, VerifyStep, RequestGate, Invalidate, Create, Send,
         DeleteInvitation, GuestAccess, Restart, Tick, vars

LEMMA BackedNext ==
  TypeInv /\ TypeInv' /\ AccessInv /\ [Next]_vars => AccessBacked'
<1> SUFFICES ASSUME TypeInv, TypeInv', AccessInv, [Next]_vars,
                    NEW d \in Devices, NEW cookie \in {access'[d], trust'[d]},
                    cookie # NoCookie, ~(Bypass /\ cookie.otp = 0)
             PROVE  Backed(cookie)'
  BY DEF AccessBacked
<1>1. RowsKept
  BY RowsKeptNext
<1>2. CASE cookie \in {access[d], trust[d]}
  BY <1>1, <1>2, BackedKept DEF AccessInv, AccessBacked
<1>3. CASE cookie \notin {access[d], trust[d]}
  <2>g. ASSUME NEW e \in Devices, NEW i \in Invitations, GuestAccess(e, i) PROVE FALSE
    BY <1>3, <2>g DEF GuestAccess, BypassAllowed, TypeInv, TypeOK
  <2>1. PICK v \in Verifies : Grant(v)
    BY <1>3, <2>g DEF Next, RequestStep, VerifyStep, RequestGate, Invalidate, Create, Send,
                VerifyWrong, VerifyRight, Increment, Consume, DeleteInvitation,
                Restart, Tick, vars
  <2>2. cookie.inv = ver[v].inv /\ cookie.otp = ver[v].otp
    BY <1>3, <2>1 DEF Grant, TypeInv, TypeOK
  <2>3. ver[v].otp \in DOMAIN otps
    BY <2>1 DEF Grant, TypeInv, RefsOK, Idle
  <2>4. Backed(cookie)
    BY <2>1, <2>2, <2>3 DEF Grant, AccessInv, Proven, Issued, Backed
  <2> QED
    BY <1>1, <2>4, BackedKept
<1> QED
  BY <1>2, <1>3

\* Every cookie that opens an invitation goes back to a code issued for it to a
\* phone of its allowlist, delivered there and redeemed (or to the bypass, where
\* that is on), whatever requests, verifications, deletions, failures, losses and
\* restarts interleave.
THEOREM AccessIsBacked == Spec => []AccessBacked
<1>1. Init => TypeInv /\ AccessInv
  BY TypeInit, AccessInit
<1>2. TypeInv /\ AccessInv /\ [Next]_vars => (TypeInv /\ AccessInv)'
  BY TypeNext, IssuedNext, ProvenNext, BackedNext DEF AccessInv
<1>3. AccessInv => AccessBacked
  BY DEF AccessInv
<1> QED
  BY <1>1, <1>2, <1>3, PTL DEF Spec

(***************************************************************************)
(* The cookies of a device                                                 *)
(***************************************************************************)

\* Time does not run backwards; a device's cookies change only by an answer to
\* it, and the short one is valid the moment it is answered.
CookieStep ==
  /\ now \in Nat /\ now' \in Nat /\ now <= now'
  /\ \A d \in Devices :
       \/ access'[d] = access[d] /\ trust'[d] = trust[d]
       \/ access'[d].expiresAt \in Nat /\ access'[d].expiresAt > now'

LEMMA CookieNext == TypeInv /\ [Next]_vars => CookieStep
<1> SUFFICES ASSUME TypeInv, [Next]_vars PROVE CookieStep
  OBVIOUS
<1> USE OtpAssumption
<1> now \in Nat /\ AccessTtl \in Nat \ {0} /\ TrustTtl \in Nat \ {0}
  BY DEF TypeInv, TypeOK
<1>1. ASSUME NEW v \in Verifies, Grant(v) PROVE CookieStep
  <2> DEFINE h == ver[v]
  <2>1. now' = now
    BY <1>1 DEF Grant
  <2>2. CASE UNCHANGED <<access, trust>>
    BY <2>1, <2>2 DEF CookieStep
  <2>3. CASE /\ access' = [access EXCEPT ![h.device] =
                             [inv |-> h.inv, expiresAt |-> now + AccessTtl, otp |-> h.otp]]
             /\ trust' = IF h.trust
                           THEN [trust EXCEPT ![h.device] =
                                   [inv |-> h.inv, expiresAt |-> now + TrustTtl, otp |-> h.otp]]
                           ELSE trust
    <3>1. access \in [Devices -> {NoCookie} \cup Cookie] /\ trust \in [Devices -> {NoCookie} \cup Cookie]
      BY DEF TypeInv, TypeOK
    <3>2. \A d \in Devices : d # h.device => access'[d] = access[d] /\ trust'[d] = trust[d]
      BY <2>3, <3>1
    <3>3. h.device \in Devices => access'[h.device].expiresAt = now + AccessTtl
      BY <2>3, <3>1
    <3> HIDE DEF h
    <3> QED
      BY <2>1, <3>2, <3>3 DEF CookieStep
  <2> QED
    BY <1>1, <2>2, <2>3 DEF Grant
<1>2. ASSUME NEW d \in Devices, NEW i \in Invitations, GuestAccess(d, i) PROVE CookieStep
  <2>1. \A e \in Devices :
          access'[e] = IF e = d THEN [inv |-> i, expiresAt |-> now + AccessTtl, otp |-> 0]
                                ELSE access[e]
    BY <1>2 DEF GuestAccess, TypeInv, TypeOK
  <2> QED
    BY <1>2, <2>1 DEF GuestAccess, CookieStep
<1>3. ASSUME UNCHANGED <<access, trust, now>> PROVE CookieStep
  BY <1>3 DEF CookieStep
<1>4. Tick => CookieStep
  BY DEF Tick, CookieStep
<1>5. ASSUME NEW r \in Requests,
             RequestStep(r) \/ \E i \in Invitations, p \in Phones : RequestGate(r, i, p)
      PROVE  UNCHANGED <<access, trust, now>>
  BY <1>5 DEF RequestStep, Invalidate, Create, Send, RequestGate
<1>6. ASSUME NEW v \in Verifies, NEW i \in Invitations, NEW p \in Phones,
             \/ VerifyWrong(v, i, p)
             \/ \E d \in Devices, remember \in BOOLEAN : VerifyRight(v, d, i, p, remember)
      PROVE  UNCHANGED <<access, trust, now>>
  BY <1>6 DEF VerifyWrong, VerifyRight
<1>7. \A v \in Verifies : Increment(v) \/ Consume(v) => UNCHANGED <<access, trust, now>>
  BY DEF Increment, Consume
<1>8. (Restart \/ \E i \in Invitations : DeleteInvitation(i)) => UNCHANGED <<access, trust, now>>
  BY DEF Restart, DeleteInvitation
<1> QED
  BY <1>1, <1>2, <1>3, <1>4, <1>5, <1>6, <1>7, <1>8 DEF Next, VerifyStep, vars

\* However many invitations a device opens, the expiry of the short cookie never
\* takes an invitation that exists from a device that still holds the long one
\* for it.
THEOREM TrustedDevicesKeepAccess == Spec => TrustedDeviceKeepsAccess
<1>1. TypeInv /\ [Next]_vars =>
        \A d \in Devices, i \in Invitations :
          /\ HasAccess(d, i) /\ Valid(trust[d]) /\ trust[d].inv = i
          /\ ~HasAccess(d, i)'
          => \/ trust[d].expiresAt <= now'
             \/ access'[d] # access[d] /\ access'[d].inv # i
             \/ i \notin live'
  <2> SUFFICES ASSUME TypeInv, [Next]_vars, NEW d \in Devices, NEW i \in Invitations,
                      HasAccess(d, i), trust[d].inv = i, ~HasAccess(d, i)',
                      ~(trust[d].expiresAt <= now'), i \in live'
               PROVE  access'[d] # access[d] /\ access'[d].inv # i
    OBVIOUS
  <2>1. CookieStep
    BY CookieNext
  <2>2. /\ access[d].expiresAt \in Nat /\ trust[d].expiresAt \in Nat
        /\ now \in Nat /\ now' \in Nat /\ now <= now'
    BY <2>1 DEF CookieStep, TypeInv, TypeOK, NoCookie, Cookie
  <2>3. trust[d].expiresAt > now'
    BY <2>2
  <2>4. CASE access'[d] = access[d] /\ trust'[d] = trust[d]
    <3>1. CASE access[d].expiresAt > now'
      <4>1. Valid(access[d]) /\ access[d].inv = i
        BY <2>2, <3>1 DEF HasAccess, Current, Valid
      <4> QED
        BY <2>4, <3>1, <4>1 DEF HasAccess, Current, Valid
    <3>2. CASE ~(access[d].expiresAt > now')
      BY <2>3, <2>4, <3>2 DEF HasAccess, Current, Valid
    <3> QED
      BY <3>1, <3>2
  <2>5. CASE /\ access'[d] # access[d]
             /\ access'[d].expiresAt > now'
    BY <2>5 DEF HasAccess, Current, Valid
  <2>6. CASE access'[d] = access[d] /\ access'[d].expiresAt > now' /\ trust'[d] # trust[d]
    <3>1. access'[d].inv = i
      <4>1. Valid(access[d])
        BY <2>2, <2>6 DEF Valid
      <4> QED
        BY <2>6, <4>1 DEF HasAccess, Current
    <3> QED
      BY <2>6, <3>1 DEF HasAccess, Current, Valid
  <2> QED
    BY <2>1, <2>4, <2>5, <2>6 DEF CookieStep
<1> QED
  BY <1>1, TypeInit, TypeNext, PTL DEF Spec, TrustedDeviceKeepsAccess

(***************************************************************************)
(* How many codes of one invitation and phone are usable at once           *)
(*                                                                         *)
(* createOtp consumes the earlier codes of its pair in one statement and   *)
(* inserts the new one in another, so that overlapping requests may each   *)
(* leave a code.  The open rows of a pair are therefore counted together   *)
(* with the requests that stand between the two statements: the first      *)
(* statement leaves no open row, the second trades a request for a row.    *)
(***************************************************************************)

OpenRows(i, p) == {o \in DOMAIN otps : OfPair(o, i, p) /\ ~otps[o].consumed}

Creating(i, p) ==
  {r \in Requests : req[r].pc = "create" /\ req[r].inv = i /\ req[r].phone = p}

OpenFew(i, p) ==
  Cardinality(OpenRows(i, p)) + Cardinality(Creating(i, p)) <= Cardinality(Requests)

LatestInv == \A i \in Invitations, p \in Phones : OpenFew(i, p)

\* Both sets are finite, and the requests of a pair are some of the slots.
LEMMA OpenFinite ==
  ASSUME TypeInv, NEW i, NEW p
  PROVE  /\ IsFiniteSet(OpenRows(i, p)) /\ Cardinality(OpenRows(i, p)) \in Nat
         /\ IsFiniteSet(Creating(i, p)) /\ Cardinality(Creating(i, p)) \in Nat
         /\ Cardinality(Creating(i, p)) <= Cardinality(Requests)
         /\ Cardinality(Requests) \in Nat
<1>1. IsFiniteSet(DOMAIN otps)
  BY Numbers, LenProperties DEF TypeInv, TypeOK
<1>2. OpenRows(i, p) \subseteq DOMAIN otps /\ Creating(i, p) \subseteq Requests
  BY DEF OpenRows, Creating
<1> QED
  BY <1>1, <1>2, OtpAssumption, FS_Subset, FS_CardinalityType

LEMMA LatestInit == Init => LatestInv
<1> SUFFICES ASSUME Init, NEW i \in Invitations, NEW p \in Phones PROVE OpenFew(i, p)
  BY DEF LatestInv
<1>1. OpenRows(i, p) = {} /\ Creating(i, p) = {}
  BY EmptySeq DEF Init, OpenRows, Creating, Idle
<1> QED
  BY <1>1, OtpAssumption, FS_EmptySet, FS_CardinalityType DEF OpenFew

\* A pair that gains neither an open row nor a request keeps within the bound.
LEMMA FewKept ==
  ASSUME TypeInv, NEW i, NEW p, OpenFew(i, p),
         OpenRows(i, p)' \subseteq OpenRows(i, p),
         Creating(i, p)' \subseteq Creating(i, p)
  PROVE  OpenFew(i, p)'
<1>1. Cardinality(OpenRows(i, p)') <= Cardinality(OpenRows(i, p)) /\ Cardinality(OpenRows(i, p)') \in Nat
  BY OpenFinite, FS_Subset, FS_CardinalityType
<1>2. Cardinality(Creating(i, p)') <= Cardinality(Creating(i, p)) /\ Cardinality(Creating(i, p)') \in Nat
  BY OpenFinite, FS_Subset, FS_CardinalityType
<1> QED
  BY <1>1, <1>2, OpenFinite DEF OpenFew

\* A step that inserts no row opens none.
LEMMA ClosedKept ==
  ASSUME TypeInv, RowsKept, DOMAIN otps' = DOMAIN otps, NEW i, NEW p
  PROVE  OpenRows(i, p)' \subseteq OpenRows(i, p)
<1>1. \A o \in DOMAIN otps :
        /\ otps'[o].inv = otps[o].inv /\ otps'[o].phone = otps[o].phone
        /\ otps[o].consumed => otps'[o].consumed
        /\ otps'[o].stored => otps[o].stored
  BY DEF RowsKept, Later
<1> QED
  BY <1>1 DEF OpenRows, OfPair

\* The first statement of createOtp leaves no open row of its pair.
LEMMA InvalidateCloses ==
  ASSUME TypeInv, TypeInv', RowsKept, NEW r \in Requests, Closes(r)
  PROVE  OpenRows(req[r].inv, req[r].phone)' = {}
<1> SUFFICES ASSUME NEW o \in DOMAIN otps', otps'[o].stored,
                    otps'[o].inv = req'[r].inv, otps'[o].phone = req'[r].phone
             PROVE  otps'[o].consumed
  BY DEF OpenRows, OfPair
<1>1. o \in DOMAIN otps
  BY DEF Closes
<1>2. /\ otps[o].stored /\ otps'[o].inv = otps[o].inv
      /\ otps'[o].phone = otps[o].phone
  BY <1>1 DEF RowsKept, Later
<1>3. otps[o] \in Row
  BY <1>1, ElementOfSeq, LenProperties DEF TypeInv, TypeOK
<1>4. req'[r].inv = req[r].inv /\ req'[r].phone = req[r].phone
  BY DEF Closes, TypeInv, TypeOK
<1>5. otps'[o] = [otps[o] EXCEPT !.consumed = @ \/ OfPair(o, req[r].inv, req[r].phone)]
  BY <1>1 DEF Closes
<1>6. OfPair(o, req[r].inv, req[r].phone)
  BY <1>2, <1>4 DEF OfPair
<1> QED
  BY <1>3, <1>5, <1>6 DEF Row

LEMMA LatestNext == TypeInv /\ TypeInv' /\ LatestInv /\ [Next]_vars => LatestInv'
<1> SUFFICES ASSUME TypeInv, TypeInv', LatestInv, [Next]_vars,
                    NEW i \in Invitations, NEW p \in Phones
             PROVE  OpenFew(i, p)'
  BY DEF LatestInv
<1>1. RowsKept
  BY RowsKeptNext
<1>2. OpenFew(i, p)
  BY DEF LatestInv
<1>3. ASSUME NEW r \in Requests, Closes(r) PROVE OpenFew(i, p)'
  <2>1. DOMAIN otps' = DOMAIN otps
    BY <1>3 DEF Closes
  <2>2. /\ \A q \in Requests \ {r} : req'[q] = req[q]
        /\ req'[r].inv = req[r].inv /\ req'[r].phone = req[r].phone
    BY <1>3 DEF Closes, TypeInv, TypeOK
  <2>3. CASE req[r].inv = i /\ req[r].phone = p
    <3>1. OpenRows(i, p)' = {}
      <4>1. OpenRows(req[r].inv, req[r].phone)' = {}
        BY <1>1, <1>3, InvalidateCloses
      <4> QED
        BY <4>1, <2>2, <2>3 DEF OpenRows, OfPair
    <3>2. Cardinality(OpenRows(i, p)') = 0
      BY <3>1, FS_EmptySet
    <3>3. Creating(i, p)' \subseteq Requests
      BY <1>3 DEF Creating, Closes
    <3>4. Cardinality(Creating(i, p)') <= Cardinality(Requests) /\ Cardinality(Creating(i, p)') \in Nat
      BY <3>3, OtpAssumption, FS_Subset, FS_CardinalityType
    <3> QED
      BY <3>2, <3>4 DEF OpenFew
  <2>4. CASE ~(req[r].inv = i /\ req[r].phone = p)
    <3>1. Creating(i, p)' \subseteq Creating(i, p)
      BY <2>2, <2>4 DEF Creating
    <3> QED
      BY <1>1, <1>2, <2>1, <3>1, ClosedKept, FewKept
  <2> QED
    BY <2>3, <2>4
<1>4. ASSUME NEW r \in Requests, NEW stored \in BOOLEAN, Inserts(r, stored)
      PROVE  OpenFew(i, p)'
  <2> DEFINE n == Len(otps) + 1
  <2>1. NewRow(req[r], stored) \in Row
    BY <1>4, RequestFields DEF Inserts, TypeInv, TypeOK
  <2>2. /\ DOMAIN otps' = DOMAIN otps \cup {n}
        /\ otps'[n] = NewRow(req[r], stored)
        /\ \A o \in DOMAIN otps : otps'[o] = otps[o]
    BY <1>4, <2>1, RowInsert DEF Inserts, TypeInv, TypeOK
  <2>3. /\ otps'[n].inv = req[r].inv /\ otps'[n].phone = req[r].phone
        /\ otps'[n].stored = stored
    BY <2>2 DEF NewRow
  <2>4. Creating(i, p)' = Creating(i, p) \ {r}
    BY <1>4 DEF Inserts, Creating, TypeInv, TypeOK, Idle
  <2>5. CASE stored /\ req[r].inv = i /\ req[r].phone = p
    <3>1. r \in Creating(i, p)
      BY <1>4, <2>5 DEF Inserts, Creating
    <3>2. Cardinality(Creating(i, p)') = Cardinality(Creating(i, p)) - 1
      BY <2>4, <3>1, OpenFinite, FS_RemoveElement
    <3>3. OpenRows(i, p)' \subseteq OpenRows(i, p) \cup {n}
      BY <2>2 DEF OpenRows, OfPair
    <3>4. /\ IsFiniteSet(OpenRows(i, p) \cup {n})
          /\ Cardinality(OpenRows(i, p) \cup {n}) \in Nat
          /\ Cardinality(OpenRows(i, p) \cup {n}) <= Cardinality(OpenRows(i, p)) + 1
      <4>1. /\ IsFiniteSet(OpenRows(i, p) \cup {n})
            /\ Cardinality(OpenRows(i, p) \cup {n})
                 = IF n \in OpenRows(i, p) THEN Cardinality(OpenRows(i, p))
                                          ELSE Cardinality(OpenRows(i, p)) + 1
        BY OpenFinite, FS_AddElement
      <4> HIDE DEF n
      <4> QED
        BY <4>1, OpenFinite
    <3>5. /\ Cardinality(OpenRows(i, p)') \in Nat
          /\ Cardinality(OpenRows(i, p)') <= Cardinality(OpenRows(i, p) \cup {n})
      BY <3>3, <3>4, FS_Subset, FS_CardinalityType
    <3> QED
      BY <1>2, <3>2, <3>4, <3>5, OpenFinite DEF OpenFew
  <2>6. CASE ~(stored /\ req[r].inv = i /\ req[r].phone = p)
    <3>1. OpenRows(i, p)' \subseteq OpenRows(i, p)
      BY <2>2, <2>3, <2>6 DEF OpenRows, OfPair
    <3> QED
      BY <1>2, <2>4, <3>1, FewKept
  <2> QED
    BY <2>5, <2>6
<1>5. ASSUME DOMAIN otps' = DOMAIN otps,
             \A q \in Requests : req'[q] = req[q] \/ req'[q].pc # "create"
      PROVE  OpenFew(i, p)'
  <2>1. Creating(i, p)' \subseteq Creating(i, p)
    BY <1>5 DEF Creating
  <2> QED
    BY <1>1, <1>2, <1>5, <2>1, ClosedKept, FewKept
<1>6. ASSUME NEW r \in Requests,
             Send(r) \/ \E j \in Invitations, q \in Phones : RequestGate(r, j, q)
      PROVE  /\ DOMAIN otps' = DOMAIN otps
             /\ \A q \in Requests : req'[q] = req[q] \/ req'[q].pc # "create"
  <2>1. Send(r) => \A q \in Requests : req'[q] \in {req[q], Idle}
    BY DEF Send, TypeInv, TypeOK
  <2>2. Send(r) => DOMAIN otps' = DOMAIN otps
    BY DEF Send
  <2>3. ASSUME NEW j \in Invitations, NEW q \in Phones, RequestGate(r, j, q)
        PROVE  otps' = otps /\ \A s \in Requests : req'[s] = req[s] \/ req'[s].pc = "invalidate"
    BY <2>3 DEF RequestGate, TypeInv, TypeOK
  <2> QED
    BY <1>6, <2>1, <2>2, <2>3 DEF Idle
<1>7. ASSUME NEW v \in Verifies, VerifyStep(v) \/ \E j \in Invitations, q \in Phones : VerifyWrong(v, j, q)
      PROVE  DOMAIN otps' = DOMAIN otps /\ req' = req
  BY <1>7 DEF VerifyStep, Increment, Consume, Grant, VerifyWrong
<1>8. (Restart \/ \E j \in Invitations : DeleteInvitation(j))
        => /\ DOMAIN otps' = DOMAIN otps
           /\ \A q \in Requests : req'[q] = req[q] \/ req'[q].pc # "create"
  BY DEF Restart, DeleteInvitation, Idle
<1>9. ASSUME NEW r \in Requests, Invalidate(r) \/ Create(r) PROVE OpenFew(i, p)'
  BY <1>3, <1>4, <1>9, CreateForms
<1> QED
  BY <1>5, <1>6, <1>7, <1>8, <1>9
     DEF Next, RequestStep, VerifyRight, GuestAccess, Tick, vars

LEMMA LatestHolds == Spec => [](TypeInv /\ LatestInv)
<1>1. Init => TypeInv /\ LatestInv
  BY TypeInit, LatestInit
<1>2. TypeInv /\ LatestInv /\ [Next]_vars => (TypeInv /\ LatestInv)'
  BY TypeNext, LatestNext
<1> QED
  BY <1>1, <1>2, PTL DEF Spec

\* The rows of a deleted invitation went with it, and none is stored later.
StoredInv == \A o \in DOMAIN otps : otps[o].stored => otps[o].inv \in live

LEMMA StoredNext == TypeInv /\ StoredInv /\ [Next]_vars => StoredInv'
<1> SUFFICES ASSUME TypeInv, StoredInv, [Next]_vars PROVE StoredInv'
  OBVIOUS
<1>1. RowsKept
  BY RowsKeptNext
<1>2. ASSUME DOMAIN otps' = DOMAIN otps, live' = live PROVE StoredInv'
  BY <1>1, <1>2 DEF StoredInv, RowsKept, Later
<1>3. ASSUME NEW r \in Requests, Invalidate(r) \/ Create(r) PROVE StoredInv'
  <2>1. CASE Closes(r)
    BY <1>2, <2>1 DEF Closes
  <2>2. ASSUME NEW stored \in BOOLEAN, Inserts(r, stored) PROVE StoredInv'
    <3>1. NewRow(req[r], stored) \in Row
      BY <2>2, RequestFields DEF Inserts, TypeInv, TypeOK
    <3>2. /\ DOMAIN otps' = DOMAIN otps \cup {Len(otps) + 1}
          /\ otps'[Len(otps) + 1] = NewRow(req[r], stored)
          /\ \A o \in DOMAIN otps : otps'[o] = otps[o]
      BY <2>2, <3>1, RowInsert DEF Inserts, TypeInv, TypeOK
    <3>3. live' = live /\ (stored => req[r].inv \in live)
      BY <2>2 DEF Inserts
    <3> QED
      BY <3>2, <3>3 DEF StoredInv, NewRow
  <2> QED
    BY <1>3, <2>1, <2>2, CreateForms
<1>4. ASSUME NEW i \in Invitations, DeleteInvitation(i) PROVE StoredInv'
  <2>1. DOMAIN otps' = DOMAIN otps /\ live' = live \ {i}
    BY <1>4 DEF DeleteInvitation
  <2>2. ASSUME NEW o \in DOMAIN otps, otps'[o].stored PROVE otps'[o].inv \in live'
    <3>1. otps[o] \in Row
      BY ElementOfSeq, LenProperties DEF TypeInv, TypeOK
    <3>2. otps'[o] = [otps[o] EXCEPT !.stored = @ /\ otps[o].inv # i]
      BY <1>4 DEF DeleteInvitation
    <3>3. otps[o].stored /\ otps[o].inv # i /\ otps'[o].inv = otps[o].inv
      BY <2>2, <3>1, <3>2 DEF Row
    <3> QED
      BY <2>1, <3>3 DEF StoredInv
  <2> QED
    BY <2>1, <2>2 DEF StoredInv
<1>5. ASSUME NEW v \in Verifies, VerifyStep(v) \/ \E i \in Invitations, p \in Phones : VerifyWrong(v, i, p)
      PROVE  DOMAIN otps' = DOMAIN otps /\ live' = live
  BY <1>5 DEF VerifyStep, Increment, Consume, Grant, VerifyWrong
<1>6. ASSUME NEW r \in Requests,
             Send(r) \/ \E i \in Invitations, p \in Phones : RequestGate(r, i, p)
      PROVE  DOMAIN otps' = DOMAIN otps /\ live' = live
  BY <1>6 DEF Send, RequestGate
<1> QED
  BY <1>2, <1>3, <1>4, <1>5, <1>6
     DEF Next, RequestStep, VerifyRight, GuestAccess, Restart, Tick, vars

LEMMA StoredHolds == Spec => [](TypeInv /\ StoredInv)
<1>1. Init => StoredInv
  BY EmptySeq DEF Init, StoredInv
<1> QED
  BY <1>1, TypeInit, TypeNext, StoredNext, PTL DEF Spec

\* The codes of an invitation and phone that can be used at once never
\* outnumber the code requests that can be in flight, however those overlap,
\* fail or are cut off by a restart; a deleted invitation has none.
THEOREM UsableCodesFew == Spec => []UsableBounded
<1>1. TypeInv /\ LatestInv /\ StoredInv => UsableBounded
  <2> SUFFICES ASSUME TypeInv, LatestInv, StoredInv, NEW i \in Invitations, NEW p \in Phones
               PROVE  /\ Cardinality(Usable(i, p)) <= Cardinality(Requests)
                      /\ i \notin live => Usable(i, p) = {}
    BY DEF UsableBounded
  <2>1. Usable(i, p) \subseteq OpenRows(i, p)
    BY DEF Usable, OpenRows
  <2>2. /\ Cardinality(Usable(i, p)) <= Cardinality(OpenRows(i, p))
        /\ Cardinality(Usable(i, p)) \in Nat
    BY <2>1, OpenFinite, FS_Subset, FS_CardinalityType
  <2>3. OpenFew(i, p)
    BY DEF LatestInv
  <2>4. Cardinality(Usable(i, p)) <= Cardinality(Requests)
    BY <2>2, <2>3, OpenFinite DEF OpenFew
  <2>5. i \notin live => Usable(i, p) = {}
    BY DEF Usable, OfPair, StoredInv
  <2> QED
    BY <2>4, <2>5
<1> QED
  BY <1>1, LatestHolds, StoredHolds, PTL

\* Only the latest code of an invitation and phone is usable.
OnlyLatestUsable ==
  \A i \in Invitations, p \in Phones :
    \A o, q \in Usable(i, p) : o = q

\* As long as two code requests are never in flight together, only the latest
\* code of an invitation and phone is usable: the two statements of createOtp
\* need no transaction for that.
THEOREM OnlyLatestWhenSerial ==
  ASSUME \A r, q \in Requests : r = q
  PROVE  Spec => []OnlyLatestUsable
<1>1. Cardinality(Requests) <= 1
  <2>1. CASE Requests = {}
    BY <2>1, FS_EmptySet
  <2>2. ASSUME NEW r \in Requests PROVE Cardinality(Requests) = 1
    <3>1. Requests = {r}
      OBVIOUS
    <3> QED
      BY <3>1, FS_Singleton
  <2> QED
    BY <2>1, <2>2
<1>2. TypeInv /\ UsableBounded => OnlyLatestUsable
  <2> SUFFICES ASSUME TypeInv, UsableBounded, NEW i \in Invitations, NEW p \in Phones,
                      NEW o \in Usable(i, p), NEW q \in Usable(i, p), o # q
               PROVE  FALSE
    BY DEF OnlyLatestUsable
  <2>1. Usable(i, p) \subseteq OpenRows(i, p)
    BY DEF Usable, OpenRows
  <2>2. IsFiniteSet(Usable(i, p)) /\ Cardinality(Usable(i, p)) \in Nat
    BY <2>1, OpenFinite, FS_Subset, FS_CardinalityType
  <2>3. {o, q} \subseteq Usable(i, p)
    OBVIOUS
  <2>4. Cardinality({o, q}) = 2
    <3>1. IsFiniteSet({o}) /\ Cardinality({o}) = 1
      BY FS_Singleton
    <3>2. Cardinality({o} \cup {q}) = Cardinality({o}) + 1
      BY <3>1, FS_AddElement
    <3>3. {o, q} = {o} \cup {q}
      OBVIOUS
    <3> QED
      BY <3>1, <3>2, <3>3
  <2>5. Cardinality({o, q}) <= Cardinality(Usable(i, p))
    BY <2>2, <2>3, FS_Subset
  <2> QED
    BY <1>1, <2>2, <2>4, <2>5, OpenFinite DEF UsableBounded
<1> QED
  BY <1>2, LatestHolds, UsableCodesFew, PTL

(***************************************************************************)
(* How often a code is compared and accepted                               *)
(*                                                                         *)
(* A verification acts on what it read: it still redeems or counts after   *)
(* others have.  So what happened to a row and the verifications that      *)
(* still hold it are counted together.  A wrong code is compared only      *)
(* while the counter is below the cap; the counter lags behind by the      *)
(* increments under way, by those a restart threw away and by those whose  *)
(* statement failed.                                                       *)
(***************************************************************************)

Redeeming(o) == {v \in Verifies : ver[v].pc = "consume" /\ ver[v].otp = o}
Counting(o) == {v \in Verifies : ver[v].pc = "increment" /\ ver[v].otp = o}

Slots == Cardinality(Verifies)

RowCounts(o) ==
  /\ otps[o].consumed \/ otps[o].redeemed = 0
  /\ otps[o].redeemed + Cardinality(Redeeming(o)) <= Slots
  /\ otps[o].wrong <= MaxAttempts - 1 + Slots * (restarts + 1) + otps[o].uncounted
  /\ otps[o].stored /\ otps[o].attempts < MaxAttempts =>
       otps[o].wrong <= otps[o].attempts + Cardinality(Counting(o)) + Slots * restarts
                          + otps[o].uncounted

CountsOK == \A o \in DOMAIN otps : RowCounts(o)

\* The slots that hold a row are some of the slots.
LEMMA SlotsHold ==
  ASSUME NEW o
  PROVE  /\ IsFiniteSet(Redeeming(o)) /\ Cardinality(Redeeming(o)) \in Nat
         /\ IsFiniteSet(Counting(o)) /\ Cardinality(Counting(o)) \in Nat
         /\ Slots \in Nat
         /\ Cardinality(Redeeming(o)) <= Slots /\ Cardinality(Counting(o)) <= Slots
<1>1. Redeeming(o) \subseteq Verifies /\ Counting(o) \subseteq Verifies
  BY DEF Redeeming, Counting
<1> QED
  BY <1>1, OtpAssumption, FS_Subset, FS_CardinalityType DEF Slots

\* What one more restart adds to the budget.
LEMMA SlotsTimes ==
  ASSUME NEW n \in Nat
  PROVE  /\ Slots * n \in Nat /\ Slots * (n + 1) \in Nat
         /\ Slots * (n + 1) = Slots * n + Slots
<1>1. Slots \in Nat
  BY SlotsHold
<1> QED
  BY <1>1

\* The columns the counts are about.
LEMMA RowNumbers ==
  ASSUME NEW row \in Row
  PROVE  /\ row.redeemed \in Nat /\ row.wrong \in Nat /\ row.attempts \in Nat
         /\ row.uncounted \in Nat
         /\ row.consumed \in BOOLEAN /\ row.stored \in BOOLEAN
BY OtpAssumption DEF Row

\* An update that leaves what the counts are about.
Untouched(row, new) ==
  /\ new.wrong = row.wrong /\ new.redeemed = row.redeemed /\ new.attempts = row.attempts
  /\ new.uncounted = row.uncounted
  /\ row.consumed => new.consumed
  /\ new.stored => row.stored

LEMMA UntouchedUpdates ==
  ASSUME NEW row \in Row
  PROVE  /\ Untouched(row, row)
         /\ \A b \in BOOLEAN : Untouched(row, [row EXCEPT !.consumed = @ \/ b])
         /\ \A b \in BOOLEAN : Untouched(row, [row EXCEPT !.stored = @ /\ b])
         /\ \A b \in BOOLEAN : Untouched(row, [row EXCEPT !.delivered = @ \/ b])
<1>1. Untouched(row, row)
  BY DEF Row, Untouched
<1>2. \A b \in BOOLEAN : Untouched(row, [row EXCEPT !.consumed = @ \/ b])
  BY DEF Row, Untouched
<1>3. \A b \in BOOLEAN : Untouched(row, [row EXCEPT !.stored = @ /\ b])
  BY DEF Row, Untouched
<1>4. \A b \in BOOLEAN : Untouched(row, [row EXCEPT !.delivered = @ \/ b])
  BY DEF Row, Untouched
<1> QED
  BY <1>1, <1>2, <1>3, <1>4

\* The four updates that are counted.
LEMMA CountedUpdates ==
  ASSUME NEW row \in Row
  PROVE  /\ LET new == [row EXCEPT !.wrong = @ + 1] IN
              /\ new.wrong = row.wrong + 1
              /\ new.redeemed = row.redeemed /\ new.attempts = row.attempts
              /\ new.uncounted = row.uncounted
              /\ new.consumed = row.consumed /\ new.stored = row.stored
         /\ LET new == [row EXCEPT !.attempts = @ + 1] IN
              /\ new.attempts = row.attempts + 1
              /\ new.redeemed = row.redeemed /\ new.wrong = row.wrong
              /\ new.uncounted = row.uncounted
              /\ new.consumed = row.consumed /\ new.stored = row.stored
         /\ LET new == [row EXCEPT !.uncounted = @ + 1] IN
              /\ new.uncounted = row.uncounted + 1
              /\ new.redeemed = row.redeemed /\ new.wrong = row.wrong
              /\ new.attempts = row.attempts
              /\ new.consumed = row.consumed /\ new.stored = row.stored
         /\ LET new == [row EXCEPT !.consumed = TRUE, !.redeemed = @ + 1] IN
              /\ new.redeemed = row.redeemed + 1 /\ new.consumed
              /\ new.wrong = row.wrong /\ new.attempts = row.attempts
              /\ new.uncounted = row.uncounted
              /\ new.stored = row.stored
BY DEF Row

\* A row that is left alone, or updated uncounted, keeps its counts as long as
\* the same verifications hold it.
LEMMA RowCountsKept ==
  ASSUME TypeInv, NEW o \in DOMAIN otps, RowCounts(o),
         Untouched(otps[o], otps'[o]),
         Redeeming(o)' = Redeeming(o), Counting(o)' = Counting(o),
         restarts' = restarts
  PROVE  RowCounts(o)'
<1>1. otps[o] \in Row
  BY ElementOfSeq, LenProperties DEF TypeInv, TypeOK
<1> QED
  BY <1>1, RowNumbers DEF RowCounts, Untouched, Slots

\* The counts after a step of the verification that holds row o, or takes it.
LEMMA RowCountsOthers ==
  ASSUME TypeInv, CountsOK, NEW o \in DOMAIN otps, DOMAIN otps' = DOMAIN otps,
         \A q \in DOMAIN otps \ {o} : otps'[q] = otps[q],
         \A q \in DOMAIN otps \ {o} :
           Redeeming(q)' = Redeeming(q) /\ Counting(q)' = Counting(q),
         restarts' = restarts,
         RowCounts(o)'
  PROVE  CountsOK'
<1>1. ASSUME NEW q \in DOMAIN otps, q # o PROVE RowCounts(q)'
  <2>1. otps[q] \in Row
    BY ElementOfSeq, LenProperties DEF TypeInv, TypeOK
  <2> QED
    BY <1>1, <2>1, UntouchedUpdates, RowCountsKept DEF CountsOK
<1> QED
  BY <1>1 DEF CountsOK

LEMMA CountsNext == TypeInv /\ CountsOK /\ [Next]_vars => CountsOK'
<1> SUFFICES ASSUME TypeInv, CountsOK, [Next]_vars PROVE CountsOK'
  OBVIOUS
<1>0. /\ otps \in Seq(Row) /\ restarts \in Nat
      /\ ver \in [Verifies -> {Idle} \cup Verify]
  BY DEF TypeInv, TypeOK
<1>r. \A o \in DOMAIN otps : otps[o] \in Row
  BY <1>0, ElementOfSeq, LenProperties
<1>s. \A o : ver' = ver => Redeeming(o)' = Redeeming(o) /\ Counting(o)' = Counting(o)
  BY DEF Redeeming, Counting
\* The steps that count nothing.
<1>1. ASSUME DOMAIN otps' = DOMAIN otps,
             \A o \in DOMAIN otps : Untouched(otps[o], otps'[o]),
             \A o : Redeeming(o)' = Redeeming(o) /\ Counting(o)' = Counting(o),
             restarts' = restarts
      PROVE  CountsOK'
  BY <1>1, RowCountsKept DEF CountsOK
<1>2. ASSUME NEW r \in Requests, Closes(r) PROVE CountsOK'
  <2>1. \A o \in DOMAIN otps : Untouched(otps[o], otps'[o])
    BY <1>2, <1>r, UntouchedUpdates DEF Closes, OfPair
  <2> QED
    BY <1>1, <1>2, <1>s, <2>1 DEF Closes
<1>3. ASSUME NEW i \in Invitations, DeleteInvitation(i) PROVE CountsOK'
  <2>1. \A o \in DOMAIN otps : Untouched(otps[o], otps'[o])
    BY <1>3, <1>r, UntouchedUpdates DEF DeleteInvitation
  <2> QED
    BY <1>1, <1>3, <1>s, <2>1 DEF DeleteInvitation
<1>4. ASSUME NEW r \in Requests, Send(r) PROVE CountsOK'
  <2>1. req[r].otp \in DOMAIN otps
    BY <1>4 DEF Send, TypeInv, RefsOK
  <2>2. PICK got \in BOOLEAN : otps' = [otps EXCEPT ![req[r].otp].delivered = @ \/ got]
    BY <1>4 DEF Send
  <2>3. DOMAIN otps' = DOMAIN otps /\ \A o \in DOMAIN otps : Untouched(otps[o], otps'[o])
    BY <1>0, <1>r, <2>1, <2>2, UntouchedUpdates, RowUpdates, RowChange
  <2> QED
    BY <1>1, <1>4, <1>s, <2>3 DEF Send
<1>5. ASSUME UNCHANGED <<otps, ver, restarts>> PROVE CountsOK'
  <2>1. \A o \in DOMAIN otps : Untouched(otps[o], otps'[o])
    BY <1>5, <1>r, UntouchedUpdates
  <2> QED
    BY <1>1, <1>5, <1>s, <2>1
<1>6. ASSUME NEW r \in Requests, NEW stored \in BOOLEAN, Inserts(r, stored)
      PROVE  CountsOK'
  <2>n. PICK n : n = Len(otps) + 1
    OBVIOUS
  <2>1. NewRow(req[r], stored) \in Row
    BY <1>6, RequestFields DEF Inserts, TypeInv, TypeOK
  <2>2. /\ DOMAIN otps' = DOMAIN otps \cup {n}
        /\ otps'[n] = NewRow(req[r], stored)
        /\ \A o \in DOMAIN otps : otps'[o] = otps[o]
    BY <1>0, <1>6, <2>n, <2>1, RowInsert DEF Inserts
  <2>3. \A o : Redeeming(o)' = Redeeming(o) /\ Counting(o)' = Counting(o)
    BY <1>6, <1>s DEF Inserts
  <2>4. ASSUME NEW o \in DOMAIN otps PROVE RowCounts(o)'
    BY <1>6, <1>r, <2>2, <2>3, <2>4, UntouchedUpdates, RowCountsKept DEF Inserts, CountsOK
  <2>5. /\ otps'[n].redeemed = 0 /\ otps'[n].wrong = 0
        /\ otps'[n].attempts = 0 /\ otps'[n].uncounted = 0
    BY <2>2 DEF NewRow
  <2>6. RowCounts(n)'
    <3>1. /\ Cardinality(Redeeming(n)') \in Nat /\ Cardinality(Redeeming(n)') <= Slots
          /\ Cardinality(Counting(n)') \in Nat
      BY <2>3, SlotsHold
    <3>2. restarts' = restarts /\ MaxAttempts \in Nat \ {0}
      BY <1>6, OtpAssumption DEF Inserts
    <3>3. Slots * restarts \in Nat /\ Slots * (restarts + 1) \in Nat
      BY <1>0, SlotsTimes
    <3> QED
      BY <1>0, <2>5, <3>1, <3>2, <3>3, SlotsHold DEF RowCounts, Slots
  <2> QED
    BY <2>2, <2>4, <2>6 DEF CountsOK
<1>7. ASSUME NEW v \in Verifies, NEW i \in Invitations, NEW p \in Phones,
             VerifyWrong(v, i, p)
      PROVE  CountsOK'
  <2>1. PICK o \in DOMAIN otps :
          /\ otps[o].stored /\ otps[o].attempts < MaxAttempts
          /\ otps' = [otps EXCEPT ![o].wrong = @ + 1]
          /\ ver' = [ver EXCEPT ![v] = [pc |-> "increment", otp |-> o]]
    BY <1>7 DEF VerifyWrong, Pending, Usable, OfPair, Open
  <2>2. /\ DOMAIN otps' = DOMAIN otps
        /\ otps'[o] = [otps[o] EXCEPT !.wrong = @ + 1]
        /\ \A q \in DOMAIN otps \ {o} : otps'[q] = otps[q]
    BY <1>0, <1>r, <2>1, RowUpdates, RowChange
  <2>3. /\ \A q : Redeeming(q)' = Redeeming(q)
        /\ \A q \in DOMAIN otps \ {o} : Counting(q)' = Counting(q)
        /\ Counting(o)' = Counting(o) \cup {v} /\ v \notin Counting(o)
    BY <1>0, <1>7, <2>1 DEF VerifyWrong, Redeeming, Counting, Idle
  <2>4. /\ Cardinality(Counting(o)') = Cardinality(Counting(o)) + 1
        /\ Cardinality(Counting(o)') <= Slots
    <3>1. Cardinality(Counting(o)') = Cardinality(Counting(o)) + 1
      BY <2>3, SlotsHold, FS_AddElement
    <3>2. Counting(o)' \subseteq Verifies
      BY DEF Counting
    <3>3. Cardinality(Counting(o)') <= Slots
      BY <3>2, OtpAssumption, FS_Subset DEF Slots
    <3> QED
      BY <3>1, <3>3
  <2>5. restarts' = restarts
    BY <1>7 DEF VerifyWrong
  <2>6. RowCounts(o)'
    <3>1. /\ otps'[o].wrong = otps[o].wrong + 1
          /\ otps'[o].redeemed = otps[o].redeemed
          /\ otps'[o].attempts = otps[o].attempts
          /\ otps'[o].uncounted = otps[o].uncounted
          /\ otps'[o].consumed = otps[o].consumed
      BY <1>r, <2>2, CountedUpdates
    <3>2. otps[o].wrong <= otps[o].attempts + Cardinality(Counting(o)) + Slots * restarts
                             + otps[o].uncounted
      BY <2>1 DEF CountsOK, RowCounts
    <3>3. Slots * (restarts + 1) = Slots * restarts + Slots /\ Slots * restarts \in Nat
      BY <1>0, SlotsTimes
    <3>4. /\ otps[o].redeemed + Cardinality(Redeeming(o)) <= Slots
          /\ otps[o].consumed \/ otps[o].redeemed = 0
      BY DEF CountsOK, RowCounts
    <3>5. Cardinality(Counting(o)) \in Nat /\ Slots \in Nat /\ Cardinality(Redeeming(o)) \in Nat
      BY SlotsHold
    <3>6. /\ otps[o].wrong \in Nat /\ otps[o].attempts \in Nat /\ MaxAttempts \in Nat
          /\ otps[o].uncounted \in Nat
      BY <1>r, RowNumbers, OtpAssumption
    <3>7. otps'[o].wrong <= otps'[o].attempts + Cardinality(Counting(o)') + Slots * restarts
                              + otps'[o].uncounted
      BY <2>4, <3>1, <3>2, <3>3, <3>5, <3>6
    <3>8. otps'[o].wrong <= MaxAttempts - 1 + Slots * (restarts + 1) + otps'[o].uncounted
      BY <2>1, <2>4, <3>1, <3>2, <3>3, <3>5, <3>6
    <3> QED
      BY <2>3, <2>5, <3>1, <3>4, <3>7, <3>8 DEF RowCounts, Slots
  <2> QED
    BY <2>2, <2>3, <2>5, <2>6, RowCountsOthers
<1>8. ASSUME NEW v \in Verifies, NEW d \in Devices, NEW i \in Invitations,
             NEW p \in Phones, NEW remember \in BOOLEAN,
             VerifyRight(v, d, i, p, remember)
      PROVE  CountsOK'
  <2>1. PICK o \in DOMAIN otps :
          /\ ~otps[o].consumed
          /\ ver' = [ver EXCEPT ![v] = [pc |-> "consume", otp |-> o, inv |-> i,
                                        device |-> d, trust |-> remember]]
    BY <1>8 DEF VerifyRight, Pending, Usable
  <2>2. otps' = otps /\ restarts' = restarts
    BY <1>8 DEF VerifyRight
  <2>3. /\ \A q : Counting(q)' = Counting(q)
        /\ \A q \in DOMAIN otps \ {o} : Redeeming(q)' = Redeeming(q)
    BY <1>0, <1>8, <2>1 DEF VerifyRight, Redeeming, Counting, Idle
  <2>4. Cardinality(Redeeming(o)') \in Nat /\ Cardinality(Redeeming(o)') <= Slots
    <3>1. Redeeming(o)' \subseteq Verifies
      BY DEF Redeeming
    <3> QED
      BY <3>1, OtpAssumption, FS_Subset, FS_CardinalityType DEF Slots
  <2>5. RowCounts(o) /\ otps[o].redeemed = 0
    BY <2>1 DEF CountsOK, RowCounts
  <2>6. RowCounts(o)'
    BY <2>2, <2>3, <2>4, <2>5, SlotsHold DEF RowCounts, Slots
  <2> QED
    BY <2>2, <2>3, <2>6, RowCountsOthers
<1>9. ASSUME NEW v \in Verifies, Increment(v) PROVE CountsOK'
  <2>o. PICK o : o = ver[v].otp
    OBVIOUS
  <2>1. o \in DOMAIN otps /\ v \in Counting(o)
    BY <1>9, <2>o DEF Increment, TypeInv, RefsOK, Counting, Idle
  <2>2. /\ \A q : Redeeming(q)' = Redeeming(q)
        /\ \A q \in DOMAIN otps \ {o} : Counting(q)' = Counting(q)
        /\ Counting(o)' = Counting(o) \ {v}
    BY <1>0, <1>9, <2>o DEF Increment, Redeeming, Counting, Idle
  <2>3. Cardinality(Counting(o)') = Cardinality(Counting(o)) - 1
    <3>1. IsFiniteSet(Counting(o))
      BY SlotsHold
    <3>2. Cardinality(Counting(o) \ {v}) = Cardinality(Counting(o)) - 1
      BY <2>1, <3>1, FS_RemoveElement
    <3> QED
      BY <2>2, <3>2
  <2>4. restarts' = restarts
    BY <1>9 DEF Increment
  <2>5. RowCounts(o)
    BY <2>1 DEF CountsOK
  <2>6. Cardinality(Counting(o)) \in Nat /\ Slots \in Nat /\ Slots * restarts \in Nat
    BY <1>0, SlotsHold, SlotsTimes
  <2>7. /\ otps[o].wrong \in Nat /\ otps[o].attempts \in Nat /\ otps[o].uncounted \in Nat
        /\ otps[o].stored \in BOOLEAN
    BY <1>r, <2>1, RowNumbers
  <2>8. CASE /\ otps[o].stored /\ otps[o].attempts < MaxAttempts
             /\ otps' = [otps EXCEPT ![o].attempts = @ + 1]
    <3>1. otps' = [otps EXCEPT ![o].attempts = @ + 1]
      BY <2>8
    <3>2. /\ DOMAIN otps' = DOMAIN otps
          /\ otps'[o] = [otps[o] EXCEPT !.attempts = @ + 1]
          /\ \A q \in DOMAIN otps \ {o} : otps'[q] = otps[q]
      BY <1>0, <1>r, <2>1, <2>8, <3>1, RowUpdates, RowChange
    <3>3. /\ otps'[o].attempts = otps[o].attempts + 1
          /\ otps'[o].redeemed = otps[o].redeemed
          /\ otps'[o].wrong = otps[o].wrong
          /\ otps'[o].uncounted = otps[o].uncounted
          /\ otps'[o].consumed = otps[o].consumed
      BY <1>r, <2>1, <3>2, CountedUpdates
    <3>4. otps'[o].wrong <= otps'[o].attempts + Cardinality(Counting(o)') + Slots * restarts
                              + otps'[o].uncounted
      BY <2>3, <2>5, <2>6, <2>7, <2>8, <3>3 DEF RowCounts
    <3>5. RowCounts(o)'
      BY <2>2, <2>4, <2>5, <3>3, <3>4 DEF RowCounts, Slots
    <3> QED
      BY <2>1, <2>2, <2>4, <3>2, <3>5, RowCountsOthers
  <2>9. CASE ~(otps[o].stored /\ otps[o].attempts < MaxAttempts) /\ otps' = otps
    <3>1. otps' = otps
      BY <2>9
    <3>2. RowCounts(o)'
      BY <2>2, <2>4, <2>5, <2>9, <3>1 DEF RowCounts, Slots
    <3> QED
      BY <2>1, <2>2, <2>4, <3>1, <3>2, RowCountsOthers
  <2>10. CASE otps' = [otps EXCEPT ![o].uncounted = @ + 1]
    <3>1. /\ DOMAIN otps' = DOMAIN otps
          /\ otps'[o] = [otps[o] EXCEPT !.uncounted = @ + 1]
          /\ \A q \in DOMAIN otps \ {o} : otps'[q] = otps[q]
      BY <1>0, <1>r, <2>1, <2>10, RowUpdates, RowChange
    <3>2. /\ otps'[o].uncounted = otps[o].uncounted + 1
          /\ otps'[o].redeemed = otps[o].redeemed
          /\ otps'[o].wrong = otps[o].wrong
          /\ otps'[o].attempts = otps[o].attempts
          /\ otps'[o].consumed = otps[o].consumed
          /\ otps'[o].stored = otps[o].stored
      BY <1>r, <2>1, <3>1, CountedUpdates
    <3>3. otps[o].stored /\ otps[o].attempts < MaxAttempts =>
            otps'[o].wrong <= otps'[o].attempts + Cardinality(Counting(o)') + Slots * restarts
                                + otps'[o].uncounted
      BY <2>3, <2>5, <2>6, <2>7, <3>2 DEF RowCounts
    <3>4. otps'[o].wrong <= MaxAttempts - 1 + Slots * (restarts + 1) + otps'[o].uncounted
      <4>1. Slots * (restarts + 1) \in Nat /\ MaxAttempts \in Nat
        BY <1>0, SlotsTimes, OtpAssumption
      <4> QED
        BY <2>5, <2>7, <3>2, <4>1 DEF RowCounts
    <3>5. RowCounts(o)'
      BY <2>2, <2>4, <2>5, <3>2, <3>3, <3>4 DEF RowCounts, Slots
    <3> QED
      BY <2>1, <2>2, <2>4, <3>1, <3>5, RowCountsOthers
  <2> QED
    BY <1>9, <2>o, <2>8, <2>9, <2>10 DEF Increment
<1>10. ASSUME NEW v \in Verifies, Consume(v) PROVE CountsOK'
  <2>o. PICK o : o = ver[v].otp
    OBVIOUS
  <2>1. o \in DOMAIN otps /\ v \in Redeeming(o)
    BY <1>10, <2>o DEF Consume, TypeInv, RefsOK, Redeeming, Idle
  <2>2. \/ ver' = [ver EXCEPT ![v] = Idle]
        \/ ver' = [ver EXCEPT ![v].pc = "grant"]
    BY <1>10 DEF Consume
  <2>3. /\ \A q : Counting(q)' = Counting(q)
        /\ \A q \in DOMAIN otps \ {o} : Redeeming(q)' = Redeeming(q)
        /\ Redeeming(o)' = Redeeming(o) \ {v}
    <3>1. /\ ver[v].pc = "consume"
          /\ ver' \in [Verifies -> {Idle} \cup Verify]
          /\ \A w \in Verifies \ {v} : ver'[w] = ver[w]
          /\ ver'[v].pc \in {"idle", "grant"}
      <4>1. CASE ver' = [ver EXCEPT ![v] = Idle]
        BY <1>0, <1>10, <4>1 DEF Consume, Idle
      <4>2. CASE ver' = [ver EXCEPT ![v].pc = "grant"]
        <5>1. ver[v].pc = "consume" /\ [ver[v] EXCEPT !.pc = "grant"] \in Verify
          BY <1>0, <1>10, VerifyFields DEF Consume
        <5>2. PICK h \in Verify : h = [ver[v] EXCEPT !.pc = "grant"]
          BY <5>1
        <5>3. h.pc = "grant"
          BY <1>0, <5>1, <5>2, VerifyFields DEF Verify, Idle
        <5>4. ver' = [ver EXCEPT ![v] = h]
          BY <4>2, <5>2
        <5> QED
          BY <1>0, <5>1, <5>3, <5>4
      <4> QED
        BY <2>2, <4>1, <4>2
    <3> QED
      BY <2>o, <3>1 DEF Redeeming, Counting
  <2>4. Cardinality(Redeeming(o)') = Cardinality(Redeeming(o)) - 1
    <3>1. IsFiniteSet(Redeeming(o))
      BY SlotsHold
    <3>2. Cardinality(Redeeming(o) \ {v}) = Cardinality(Redeeming(o)) - 1
      BY <2>1, <3>1, FS_RemoveElement
    <3> QED
      BY <2>3, <3>2
  <2>5. restarts' = restarts
    BY <1>10 DEF Consume
  <2>6. RowCounts(o) /\ Cardinality(Redeeming(o)) \in Nat /\ Slots \in Nat
    BY <2>1, SlotsHold DEF CountsOK
  <2>7. otps[o].redeemed \in Nat
    BY <1>r, <2>1, RowNumbers
  <2>8. CASE otps' = otps
    <3>1. RowCounts(o)'
      BY <2>3, <2>4, <2>5, <2>6, <2>7, <2>8 DEF RowCounts, Slots
    <3> QED
      BY <2>1, <2>3, <2>5, <2>8, <3>1, RowCountsOthers
  <2>9. CASE otps' = [otps EXCEPT ![o].consumed = TRUE, ![o].redeemed = @ + 1]
    <3>1. PICK row : row = [otps[o] EXCEPT !.consumed = TRUE, !.redeemed = @ + 1]
      OBVIOUS
    <3>2. row \in Row /\ otps' = [otps EXCEPT ![o] = row]
      BY <1>0, <1>r, <2>1, <2>9, <3>1, RowUpdates
    <3>3. /\ DOMAIN otps' = DOMAIN otps /\ otps'[o] = row
          /\ \A q \in DOMAIN otps \ {o} : otps'[q] = otps[q]
      BY <1>0, <2>1, <3>2, RowChange
    <3>4. /\ otps'[o].redeemed = otps[o].redeemed + 1 /\ otps'[o].consumed
          /\ otps'[o].wrong = otps[o].wrong
          /\ otps'[o].attempts = otps[o].attempts
          /\ otps'[o].uncounted = otps[o].uncounted
          /\ otps'[o].stored = otps[o].stored
      BY <1>r, <2>1, <3>1, <3>3, CountedUpdates
    <3>5. RowCounts(o)'
      BY <2>3, <2>4, <2>5, <2>6, <2>7, <3>4 DEF RowCounts, Slots
    <3> QED
      BY <2>1, <2>3, <2>5, <3>3, <3>5, RowCountsOthers
  <2> QED
    BY <1>10, <2>o, <2>8, <2>9 DEF Consume
<1>11. ASSUME NEW v \in Verifies, Grant(v) PROVE CountsOK'
  <2>1. \A o : Redeeming(o)' = Redeeming(o) /\ Counting(o)' = Counting(o)
    BY <1>0, <1>11 DEF Grant, Redeeming, Counting, Idle
  <2>2. \A o \in DOMAIN otps : Untouched(otps[o], otps'[o])
    BY <1>11, <1>r, UntouchedUpdates DEF Grant
  <2> QED
    BY <1>1, <1>11, <2>1, <2>2 DEF Grant
<1>12. CASE Restart
  <2>1. otps' = otps /\ restarts' = restarts + 1
    BY <1>12 DEF Restart
  <2>2. \A o : Redeeming(o)' = {} /\ Counting(o)' = {}
    BY <1>12 DEF Restart, Redeeming, Counting, Idle
  <2>3. Cardinality({}) = 0
    BY FS_EmptySet
  <2>4. /\ Slots * (restarts + 1) = Slots * restarts + Slots
        /\ Slots * (restarts + 2) = Slots * (restarts + 1) + Slots
        /\ Slots * restarts \in Nat /\ Slots * (restarts + 1) \in Nat
    <3>1. restarts + 1 \in Nat /\ (restarts + 1) + 1 = restarts + 2
      BY <1>0
    <3> QED
      BY <1>0, <3>1, SlotsTimes
  <2>5. ASSUME NEW o \in DOMAIN otps PROVE RowCounts(o)'
    <3>1. RowCounts(o)
      BY DEF CountsOK
    <3>2. /\ otps[o].redeemed \in Nat /\ otps[o].wrong \in Nat
          /\ otps[o].attempts \in Nat /\ otps[o].uncounted \in Nat /\ MaxAttempts \in Nat
      BY <1>r, RowNumbers, OtpAssumption
    <3>3. /\ Cardinality(Redeeming(o)) \in Nat /\ Cardinality(Counting(o)) \in Nat
          /\ Cardinality(Counting(o)) <= Slots /\ Slots \in Nat
      BY SlotsHold
    <3>4. otps[o].redeemed + 0 <= Slots
      BY <3>1, <3>2, <3>3 DEF RowCounts
    <3>5. otps[o].wrong <= MaxAttempts - 1 + Slots * (restarts + 2) + otps[o].uncounted
      BY <2>4, <3>1, <3>2, <3>3 DEF RowCounts
    <3>6. otps[o].stored /\ otps[o].attempts < MaxAttempts
            => otps[o].wrong <= otps[o].attempts + 0 + Slots * (restarts + 1)
                                  + otps[o].uncounted
      BY <2>4, <3>1, <3>2, <3>3 DEF RowCounts
    <3>7. (restarts + 1) + 1 = restarts + 2
      BY <1>0
    <3> QED
      BY <2>1, <2>2, <2>3, <3>1, <3>4, <3>5, <3>6, <3>7 DEF RowCounts, Slots
  <2> QED
    BY <2>1, <2>5 DEF CountsOK
<1>13. ASSUME NEW r \in Requests, Invalidate(r) \/ Create(r) PROVE CountsOK'
  BY <1>2, <1>6, <1>13, CreateForms
<1> QED
  BY <1>3, <1>4, <1>5, <1>7, <1>8, <1>9, <1>10, <1>11, <1>12, <1>13
     DEF Next, RequestStep, VerifyStep, RequestGate, GuestAccess, Tick, vars

LEMMA CountsHold == Spec => [](TypeInv /\ CountsOK)
<1>1. Init => CountsOK
  <2>1. Init => DOMAIN otps = {}
    BY EmptySeq DEF Init
  <2> QED
    BY <2>1 DEF CountsOK
<1> QED
  BY <1>1, TypeInit, TypeNext, CountsNext, PTL DEF Spec

\* However many verifications overlap, the wrong codes compared with one row
\* pass the cap by no more than the verifications that fit in flight, once for
\* every life of the process, and one for every increment that failed.
THEOREM LockoutHolds == Spec => []WrongCodesBounded
<1>1. CountsOK => WrongCodesBounded
  BY DEF CountsOK, RowCounts, WrongCodesBounded, Slots
<1> QED
  BY <1>1, CountsHold, PTL

\* However the verifications of one code interleave, it is accepted no more
\* often than verifications fit in flight: consuming it stops all later ones.
THEOREM RedeemedByFew == Spec => []RedemptionsBounded
<1>1. TypeInv /\ CountsOK => RedemptionsBounded
  <2> SUFFICES ASSUME TypeInv, CountsOK, NEW o \in DOMAIN otps
               PROVE  otps[o].redeemed <= Slots
    BY DEF RedemptionsBounded, Slots
  <2>1. otps[o] \in Row
    BY ElementOfSeq, LenProperties DEF TypeInv, TypeOK
  <2> QED
    BY <2>1, RowNumbers, SlotsHold DEF CountsOK, RowCounts
<1> QED
  BY <1>1, CountsHold, PTL

(***************************************************************************)
(* The budget of a phone                                                   *)
(*                                                                         *)
(* What a phone was issued or is about to be issued within a window is     *)
(* what its bucket counts in that window, up to what a restart forgot.     *)
(* The invariant says so of every window from now on, because a later      *)
(* window forgets old codes and old instants alike.                        *)
(***************************************************************************)

\* Was a code with this expiry admitted within the window that ends at t?
AdmittedBy(expiresAt, t) == expiresAt - OtpTtl > t - RateWindow

IssuedTo(p, t) == {o \in DOMAIN otps : otps[o].phone = p /\ AdmittedBy(otps[o].expiresAt, t)}
DueTo(p, t) == {r \in Requests : /\ req[r].pc \in {"invalidate", "create"}
                                 /\ req[r].phone = p /\ AdmittedBy(req[r].expiresAt, t)}
Load(p, t) == Cardinality(IssuedTo(p, t)) + Cardinality(DueTo(p, t))

Budget(p, t) ==
  /\ Load(p, t) <= Counted(buckets[p], t) + RateLimit * restarts
  /\ Counted(buckets[p], t) <= Load(p, t)

BudgetInv ==
  \A p \in Phones : /\ Bucket(buckets[p], now)
                    /\ \A t \in Nat : now <= t => Budget(p, t)

LEMMA LoadType ==
  ASSUME TypeInv, NEW p, NEW t
  PROVE  /\ IsFiniteSet(IssuedTo(p, t)) /\ IsFiniteSet(DueTo(p, t))
         /\ Cardinality(IssuedTo(p, t)) \in Nat /\ Cardinality(DueTo(p, t)) \in Nat
         /\ Load(p, t) \in Nat
<1>1. Len(otps) \in Nat /\ DOMAIN otps = 1 .. Len(otps)
  BY LenProperties DEF TypeInv, TypeOK
<1>2. IsFiniteSet(DOMAIN otps)
  BY <1>1, Numbers
<1>3. IssuedTo(p, t) \in SUBSET (DOMAIN otps) /\ DueTo(p, t) \in SUBSET Requests
  BY DEF IssuedTo, DueTo
<1>4. IsFiniteSet(IssuedTo(p, t)) /\ IsFiniteSet(DueTo(p, t))
  BY <1>2, <1>3, OtpAssumption, FS_Subset
<1>5. Cardinality(IssuedTo(p, t)) \in Nat /\ Cardinality(DueTo(p, t)) \in Nat
  BY <1>4, FS_CardinalityType
<1> QED
  BY <1>4, <1>5 DEF Load

\* The products in the bounds.
LEMMA BudgetTimes ==
  ASSUME NEW n \in Nat
  PROVE  /\ RateLimit * n \in Nat
         /\ RateLimit * (n + 1) = RateLimit * n + RateLimit
BY RateAssumption

\* A step that neither stores a code nor lets one through keeps the load.
LEMMA IssuedKept ==
  ASSUME RowsKept, DOMAIN otps' = DOMAIN otps, NEW p, NEW t
  PROVE  IssuedTo(p, t)' = IssuedTo(p, t)
BY DEF IssuedTo, AdmittedBy, RowsKept, Later

LEMMA BudgetKept ==
  ASSUME BudgetInv, RowsKept, DOMAIN otps' = DOMAIN otps,
         \A p, t : DueTo(p, t)' = DueTo(p, t),
         UNCHANGED <<buckets, now, restarts>>
  PROVE  BudgetInv'
<1>1. ASSUME NEW p, NEW t PROVE Load(p, t)' = Load(p, t)
  BY <1>1, IssuedKept DEF Load
<1>2. ASSUME NEW p \in Phones, NEW t \in Nat, now <= t PROVE Budget(p, t)'
  BY <1>1, <1>2 DEF BudgetInv, Budget
<1> QED
  BY <1>2 DEF BudgetInv

LEMMA BudgetInit == Init => BudgetInv
<1> SUFFICES ASSUME Init PROVE BudgetInv
  OBVIOUS
<1>1. TypeInv
  BY TypeInit
<1>2. DOMAIN otps = {} /\ \A r \in Requests : req[r].pc = "idle"
  BY EmptySeq DEF Init, Idle
<1>3. ASSUME NEW p, NEW t PROVE Load(p, t) = 0
  <2>1. IssuedTo(p, t) = {} /\ DueTo(p, t) = {}
    BY <1>2 DEF IssuedTo, DueTo
  <2> QED
    BY <2>1, FS_EmptySet DEF Load
<1>4. ASSUME NEW p \in Phones, NEW t \in Nat
      PROVE  Bucket(buckets[p], now) /\ Counted(buckets[p], t) = 0
  <2>1. buckets[p] = <<>> /\ now \in Nat
    BY DEF Init
  <2> QED
    BY <2>1, EmptyBucket
<1>5. restarts = 0 /\ RateLimit * 0 = 0
  BY RateAssumption DEF Init
<1> QED
  BY <1>3, <1>4, <1>5 DEF BudgetInv, Budget

LEMMA BudgetNext == TypeInv /\ TypeInv' /\ BudgetInv /\ [Next]_vars => BudgetInv'
<1> SUFFICES ASSUME TypeInv, TypeInv', BudgetInv, [Next]_vars PROVE BudgetInv'
  OBVIOUS
<1>0. /\ otps \in Seq(Row) /\ req \in [Requests -> {Idle} \cup Request]
      /\ buckets \in [Phones -> Seq(Nat)] /\ now \in Nat /\ restarts \in Nat
      /\ live \in SUBSET Invitations
      /\ Len(otps) \in Nat /\ DOMAIN otps = 1 .. Len(otps)
  BY LenProperties DEF TypeInv, TypeOK
<1>r. \A o \in DOMAIN otps : otps[o] \in Row
  BY <1>0, ElementOfSeq
<1>k. RowsKept
  BY RowsKeptNext
<1>b. \A p \in Phones : Bucket(buckets[p], now)
  BY DEF BudgetInv
<1>1. ASSUME NEW r \in Requests, NEW i \in Invitations, NEW p \in Phones,
             RequestGate(r, i, p)
      PROVE  BudgetInv'
  <2>1. /\ UNCHANGED <<live, otps, now, restarts>> /\ req[r] = Idle
        /\ buckets'[p] = Recorded(buckets[p], now)
        /\ \A q \in Phones \ {p} : buckets'[q] = buckets[q]
    BY <1>0, <1>1 DEF RequestGate
  <2>2. \A q, t : IssuedTo(q, t)' = IssuedTo(q, t)
    BY <2>1 DEF IssuedTo, AdmittedBy
  <2>3. ASSUME NEW q \in Phones \ {p}, NEW t \in Nat, now <= t
        PROVE  Bucket(buckets[q], now)' /\ Budget(q, t)'
    <3>1. DueTo(q, t)' = DueTo(q, t)
      BY <1>0, <1>1, <2>1, <2>3 DEF RequestGate, DueTo, Idle, AdmittedBy
    <3>2. Budget(q, t) /\ Bucket(buckets[q], now)
      BY <2>3 DEF BudgetInv
    <3>3. Load(q, t)' = Load(q, t)
      BY <2>2, <3>1 DEF Load
    <3> QED
      BY <2>1, <3>2, <3>3 DEF Budget
  <2>4. /\ Bucket(buckets'[p], now)
        /\ \A t \in Nat : now <= t =>
             Counted(buckets'[p], t)
               = Counted(buckets[p], t) + IF Admits(buckets[p], now) /\ now > t - RateWindow
                                            THEN 1 ELSE 0
    BY <1>0, <1>b, <2>1, CallCounts
  <2>5. ASSUME NEW t \in Nat, now <= t PROVE Budget(p, t)'
    <3>1. Budget(p, t)
      BY <2>5 DEF BudgetInv
    <3>2. /\ Cardinality(IssuedTo(p, t)) \in Nat /\ Cardinality(DueTo(p, t)) \in Nat
          /\ IsFiniteSet(DueTo(p, t))
      BY LoadType
    <3>3. Counted(buckets[p], t) \in Nat /\ RateLimit * restarts \in Nat
      BY <1>0, <1>b, BucketCount, BudgetTimes
    <3>4. CASE Admits(buckets[p], now) /\ now > t - RateWindow
      <4>1. req' = [req EXCEPT ![r] = [pc |-> "invalidate", inv |-> i, phone |-> p,
                                       expiresAt |-> now + OtpTtl]]
        BY <1>1, <3>4 DEF RequestGate
      <4>2. now + OtpTtl - OtpTtl = now
        BY <1>0, OtpAssumption
      <4>3. DueTo(p, t)' = DueTo(p, t) \cup {r}
        <5>1. AdmittedBy(now + OtpTtl, t)
          BY <1>0, <2>5, <3>4, <4>2, RateAssumption, OtpAssumption DEF AdmittedBy
        <5>2. req'[r].pc = "invalidate" /\ req'[r].phone = p /\ req'[r].expiresAt = now + OtpTtl
          BY <1>0, <4>1
        <5>3. \A s \in Requests \ {r} : req'[s] = req[s]
          BY <1>0, <4>1
        <5> QED
          BY <5>1, <5>2, <5>3 DEF DueTo, AdmittedBy
      <4>4. r \notin DueTo(p, t)
        BY <2>1 DEF DueTo, Idle
      <4>5. Cardinality(DueTo(p, t)') = Cardinality(DueTo(p, t)) + 1
        BY <3>2, <4>3, <4>4, FS_AddElement
      <4>6. Load(p, t)' = Load(p, t) + 1
        BY <2>2, <3>2, <4>5 DEF Load
      <4>7. Counted(buckets'[p], t) = Counted(buckets[p], t) + 1
        BY <2>4, <2>5, <3>4
      <4>8. Load(p, t) \in Nat
        BY LoadType
      <4> QED
        BY <2>1, <3>1, <3>3, <4>6, <4>7, <4>8 DEF Budget
    <3>5. CASE ~(Admits(buckets[p], now) /\ now > t - RateWindow)
      <4>1. DueTo(p, t)' = DueTo(p, t)
        <5>1. CASE ~Admits(buckets[p], now)
          BY <1>1, <5>1 DEF RequestGate, DueTo, AdmittedBy
        <5>2. CASE Admits(buckets[p], now)
          <6>1. req' = [req EXCEPT ![r] = [pc |-> "invalidate", inv |-> i, phone |-> p,
                                           expiresAt |-> now + OtpTtl]]
            BY <1>1, <5>2 DEF RequestGate
          <6>2. now + OtpTtl - OtpTtl = now
            BY <1>0, OtpAssumption
          <6>3. ~AdmittedBy(now + OtpTtl, t)
            BY <1>0, <2>5, <3>5, <5>2, <6>2, RateAssumption, OtpAssumption DEF AdmittedBy
          <6>4. req'[r].expiresAt = now + OtpTtl /\ \A s \in Requests \ {r} : req'[s] = req[s]
            BY <1>0, <6>1
          <6>5. r \notin DueTo(p, t)
            BY <2>1 DEF DueTo, Idle
          <6> QED
            BY <6>3, <6>4, <6>5 DEF DueTo, AdmittedBy
        <5> QED
          BY <5>1, <5>2
      <4>2. Load(p, t)' = Load(p, t)
        BY <2>2, <4>1 DEF Load
      <4>3. Counted(buckets'[p], t) = Counted(buckets[p], t)
        BY <2>4, <2>5, <3>3, <3>5
      <4> QED
        BY <2>1, <3>1, <4>2, <4>3 DEF Budget
    <3> QED
      BY <3>4, <3>5
  <2>6. now \in Nat /\ now <= now
    BY <1>0
  <2> QED
    BY <1>0, <2>1, <2>3, <2>4, <2>5, <2>6 DEF BudgetInv
<1>2. ASSUME NEW r \in Requests, Closes(r) PROVE BudgetInv'
  <2>1. DOMAIN otps' = DOMAIN otps /\ UNCHANGED <<live, buckets, now, restarts>>
    BY <1>2 DEF Closes
  <2>2. /\ req'[r].pc = "create" /\ req'[r].phone = req[r].phone
        /\ req'[r].expiresAt = req[r].expiresAt
        /\ \A s \in Requests \ {r} : req'[s] = req[s]
    <3>1. [req[r] EXCEPT !.pc = "create"] \in Request
      BY <1>0, <1>2, RequestFields DEF Closes
    <3>2. /\ [req[r] EXCEPT !.pc = "create"].pc = "create"
          /\ [req[r] EXCEPT !.pc = "create"].phone = req[r].phone
          /\ [req[r] EXCEPT !.pc = "create"].expiresAt = req[r].expiresAt
      BY <1>0, <1>2 DEF Closes, Request, Idle
    <3> QED
      BY <1>0, <1>2, <3>2 DEF Closes
  <2>3. \A p, t : DueTo(p, t)' = DueTo(p, t)
    BY <1>2, <2>2 DEF DueTo, AdmittedBy, Closes
  <2> QED
    BY <1>k, <2>1, <2>3, BudgetKept
<1>3. ASSUME NEW r \in Requests, Send(r) PROVE BudgetInv'
  <2>1. DOMAIN otps' = DOMAIN otps /\ UNCHANGED <<live, buckets, now, restarts>>
    BY <1>3 DEF Send
  <2>2. \A p, t : DueTo(p, t)' = DueTo(p, t)
    BY <1>0, <1>3 DEF Send, DueTo, AdmittedBy, Idle
  <2> QED
    BY <1>k, <2>1, <2>2, BudgetKept
<1>4. ASSUME NEW v \in Verifies, VerifyStep(v) PROVE BudgetInv'
  <2>1. DOMAIN otps' = DOMAIN otps /\ UNCHANGED <<live, buckets, req, now, restarts>>
    BY <1>4 DEF VerifyStep, Increment, Consume, Grant
  <2>2. \A p, t : DueTo(p, t)' = DueTo(p, t)
    BY <2>1 DEF DueTo, AdmittedBy
  <2> QED
    BY <1>k, <2>1, <2>2, BudgetKept
<1>5. ASSUME NEW v \in Verifies, NEW i \in Invitations, NEW p \in Phones,
             \/ VerifyWrong(v, i, p)
             \/ \E d \in Devices, remember \in BOOLEAN : VerifyRight(v, d, i, p, remember)
      PROVE  BudgetInv'
  <2>1. DOMAIN otps' = DOMAIN otps /\ UNCHANGED <<live, buckets, req, now, restarts>>
    BY <1>5 DEF VerifyWrong, VerifyRight
  <2>2. \A q, t : DueTo(q, t)' = DueTo(q, t)
    BY <2>1 DEF DueTo, AdmittedBy
  <2> QED
    BY <1>k, <2>1, <2>2, BudgetKept
<1>6. ASSUME NEW i \in Invitations, DeleteInvitation(i) PROVE BudgetInv'
  <2>1. DOMAIN otps' = DOMAIN otps /\ UNCHANGED <<buckets, req, now, restarts>>
    BY <1>6 DEF DeleteInvitation
  <2>2. \A q, t : DueTo(q, t)' = DueTo(q, t)
    BY <2>1 DEF DueTo, AdmittedBy
  <2> QED
    BY <1>k, <2>1, <2>2, BudgetKept
<1>7. CASE UNCHANGED <<live, otps, buckets, req, now, restarts>>
  <2>1. \A q, t : DueTo(q, t)' = DueTo(q, t)
    BY <1>7 DEF DueTo, AdmittedBy
  <2> QED
    BY <1>k, <1>7, <2>1, BudgetKept
<1>8. ASSUME NEW r \in Requests, NEW stored \in BOOLEAN, Inserts(r, stored)
      PROVE  BudgetInv'
  <2>1. UNCHANGED <<live, buckets, now, restarts>> /\ req[r].pc \in {"invalidate", "create"}
    BY <1>8 DEF Inserts
  <2>n. PICK n : n = Len(otps) + 1
    OBVIOUS
  <2>2. NewRow(req[r], stored) \in Row
    BY <1>0, <2>1, RequestFields
  <2>3. /\ DOMAIN otps' = DOMAIN otps \cup {n} /\ n \notin DOMAIN otps
        /\ otps'[n] = NewRow(req[r], stored)
        /\ \A o \in DOMAIN otps : otps'[o] = otps[o]
    BY <1>0, <1>8, <2>n, <2>2, RowInsert DEF Inserts
  <2>4. otps'[n].phone = req[r].phone /\ otps'[n].expiresAt = req[r].expiresAt
    BY <2>3 DEF NewRow
  <2>5. ASSUME NEW p \in Phones, NEW t \in Nat, now <= t PROVE Budget(p, t)'
    <3>1. DueTo(p, t)' = DueTo(p, t) \ {r}
      BY <1>0, <1>8 DEF Inserts, DueTo, AdmittedBy, Idle
    <3>2. CASE req[r].phone = p /\ AdmittedBy(req[r].expiresAt, t)
      <4>1. r \in DueTo(p, t)
        BY <2>1, <3>2 DEF DueTo
      <4>2. IssuedTo(p, t)' = IssuedTo(p, t) \cup {n} /\ n \notin IssuedTo(p, t)
        BY <2>3, <2>4, <3>2 DEF IssuedTo, AdmittedBy
      <4>3. Cardinality(IssuedTo(p, t)') = Cardinality(IssuedTo(p, t)) + 1
        BY <4>2, LoadType, FS_AddElement
      <4>4. Cardinality(DueTo(p, t)') = Cardinality(DueTo(p, t)) - 1
        <5>1. IsFiniteSet(DueTo(p, t))
          BY LoadType
        <5> QED
          BY <3>1, <4>1, <5>1, FS_RemoveElement
      <4>5. Cardinality(DueTo(p, t)) \in Nat /\ Cardinality(IssuedTo(p, t)) \in Nat
        BY LoadType
      <4>6. Load(p, t)' = Load(p, t)
        BY <4>3, <4>4, <4>5 DEF Load
      <4> QED
        BY <2>1, <2>5, <4>6 DEF Budget, BudgetInv
    <3>3. CASE ~(req[r].phone = p /\ AdmittedBy(req[r].expiresAt, t))
      <4>1. DueTo(p, t)' = DueTo(p, t)
        BY <3>1, <3>3 DEF DueTo
      <4>2. IssuedTo(p, t)' = IssuedTo(p, t)
        BY <2>3, <2>4, <3>3 DEF IssuedTo, AdmittedBy
      <4>3. Load(p, t)' = Load(p, t)
        BY <4>1, <4>2 DEF Load
      <4> QED
        BY <2>1, <2>5, <4>3 DEF Budget, BudgetInv
    <3> QED
      BY <3>2, <3>3
  <2> QED
    BY <1>b, <2>1, <2>5 DEF BudgetInv
<1>9. CASE Restart
  <2>1. /\ UNCHANGED <<live, otps, now>> /\ restarts' = restarts + 1
        /\ \A p \in Phones : buckets'[p] = <<>>
        /\ \A r \in Requests : req'[r] = Idle
    BY <1>9 DEF Restart
  <2>2. ASSUME NEW p \in Phones, NEW t \in Nat, now <= t
        PROVE  Bucket(buckets[p], now)' /\ Budget(p, t)'
    <3>1. Bucket(buckets'[p], now) /\ Counted(buckets'[p], t) = 0
      BY <1>0, <2>1, EmptyBucket
    <3>2. IssuedTo(p, t)' = IssuedTo(p, t) /\ DueTo(p, t)' = {}
      BY <2>1 DEF IssuedTo, DueTo, AdmittedBy, Idle
    <3>3. Load(p, t)' = Cardinality(IssuedTo(p, t))
      <4>1. Cardinality({}) = 0 /\ Cardinality(IssuedTo(p, t)) \in Nat
        BY FS_EmptySet, LoadType
      <4> QED
        BY <3>2, <4>1 DEF Load
    <3>4. /\ Cardinality(IssuedTo(p, t)) \in Nat /\ Cardinality(DueTo(p, t)) \in Nat
      BY LoadType
    <3>5. Load(p, t) <= Counted(buckets[p], t) + RateLimit * restarts
      BY <2>2 DEF Budget, BudgetInv
    <3>6. Counted(buckets[p], t) \in Nat /\ Counted(buckets[p], t) <= RateLimit
      BY <1>0, <1>b, BucketCount
    <3>7. RateLimit * restarts \in Nat /\ RateLimit * (restarts + 1) = RateLimit * restarts + RateLimit
      BY <1>0, BudgetTimes
    <3>8. Load(p, t)' <= 0 + RateLimit * (restarts + 1) /\ 0 <= Load(p, t)'
      BY <3>3, <3>4, <3>5, <3>6, <3>7, RateAssumption DEF Load
    <3> QED
      BY <2>1, <3>1, <3>8 DEF Budget
  <2>3. now \in Nat /\ now <= now
    BY <1>0
  <2> QED
    BY <2>1, <2>2, <2>3 DEF BudgetInv
<1>10. CASE Tick
  <2>1. UNCHANGED <<live, otps, req, buckets, restarts>> /\ now' = now + 1
    BY <1>10 DEF Tick
  <2>2. \A p, t : Load(p, t)' = Load(p, t)
    BY <2>1 DEF Load, IssuedTo, DueTo, AdmittedBy
  <2>3. \A p \in Phones : Bucket(buckets[p], now + 1)
    BY <1>0, <1>b, BucketAges
  <2>4. \A t \in Nat : now + 1 <= t => now <= t
    BY <1>0
  <2> QED
    BY <2>1, <2>2, <2>3, <2>4 DEF BudgetInv, Budget
<1>11. ASSUME NEW r \in Requests, Invalidate(r) \/ Create(r) PROVE BudgetInv'
  BY <1>2, <1>8, <1>11, CreateForms
<1> QED
  BY <1>1, <1>3, <1>4, <1>5, <1>6, <1>7, <1>9, <1>10, <1>11
     DEF Next, RequestStep, GuestAccess, vars

LEMMA BudgetHolds == Spec => [](TypeInv /\ BudgetInv)
BY TypeInit, TypeNext, BudgetInit, BudgetNext, PTL DEF Spec

\* However requests for one phone interleave, over whatever invitations, the
\* codes admitted in one window are no more than the limiter lets through, once
\* for every life of the process.
THEOREM BudgetKeeps == Spec => []CodesWithinBudget
<1>1. TypeInv /\ BudgetInv => CodesWithinBudget
  <2> SUFFICES ASSUME TypeInv, BudgetInv, NEW p \in Phones
               PROVE  Cardinality(IssuedTo(p, now)) <= RateLimit * (restarts + 1)
    BY DEF CodesWithinBudget, IssuedTo, AdmittedBy, AdmittedInWindow
  <2>1. now \in Nat /\ restarts \in Nat /\ now <= now
    BY DEF TypeInv, TypeOK
  <2>2. Bucket(buckets[p], now) /\ Load(p, now) <= Counted(buckets[p], now) + RateLimit * restarts
    BY <2>1 DEF BudgetInv, Budget
  <2>3. Counted(buckets[p], now) \in Nat /\ Counted(buckets[p], now) <= RateLimit
    BY <2>1, <2>2, BucketCount
  <2>4. Cardinality(IssuedTo(p, now)) \in Nat /\ Cardinality(DueTo(p, now)) \in Nat
    BY LoadType
  <2>5. RateLimit * restarts \in Nat /\ RateLimit * (restarts + 1) = RateLimit * restarts + RateLimit
    BY <2>1, BudgetTimes
  <2> QED
    BY <2>2, <2>3, <2>4, <2>5, RateAssumption DEF Load
<1> QED
  BY <1>1, BudgetHolds, PTL

\* The limiter turns a phone away only after RateLimit requests it let through
\* within the window, whether their codes were stored or lost to a failure:
\* neither refused requests nor old ones count.
THEOREM RefusalsEarned == Spec => []RefusalIsEarned
<1>1. TypeInv /\ BudgetInv => RefusalIsEarned
  <2> SUFFICES ASSUME TypeInv, BudgetInv, NEW p \in Phones,
                      ~Admits(buckets[p], now)
               PROVE  Load(p, now) >= RateLimit
    BY DEF RefusalIsEarned, Load, IssuedTo, DueTo, AdmittedBy, AdmittedInWindow
  <2>1. now \in Nat /\ now <= now
    BY DEF TypeInv, TypeOK
  <2>2. Bucket(buckets[p], now) /\ Counted(buckets[p], now) <= Load(p, now)
    BY <2>1 DEF BudgetInv, Budget
  <2>3. Counted(buckets[p], now) = RateLimit
    BY <2>1, <2>2, BucketCount
  <2> QED
    BY <2>2, <2>3
<1> QED
  BY <1>1, BudgetHolds, PTL
=============================================================================
