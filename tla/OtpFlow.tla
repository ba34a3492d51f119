------------------------------ MODULE OtpFlow ------------------------------
(***************************************************************************)
(* The public OTP challenge that guards a wedding invitation: request a    *)
(* code (POST /api/otp/request), submit it (POST /api/otp/verify), receive *)
(* a short access cookie and, on demand, a long trusted-device cookie.     *)
(*                                                                         *)
(* The server is one Node process.  A handler runs without interruption    *)
(* from one await to the next, so every action below is the code between   *)
(* two awaits (one database statement and what follows it); handlers, the  *)
(* planner's deletion of an invitation, the clock and a restart of the     *)
(* process interleave between them.  A statement answers, or fails and the *)
(* handler with it.  A statement whose answer is lost is one that answers, *)
(* followed by a handler that reaches nobody: Send without delivery, Grant *)
(* without a cookie.  Phones are normalised before any comparison, so a    *)
(* phone here is its normal form; a code is identified with its row, two   *)
(* codes being equal with probability 10^-6.                               *)
(***************************************************************************)
EXTENDS RateLimiter

CONSTANTS Invitations, Phones, Devices,
          Accepted,      \* Invitation.acceptedPhones, fixed at creation
          Requests,      \* slots for in-flight POST /api/otp/request
          Verifies,      \* slots for in-flight POST /api/otp/verify
          MaxAttempts,   \* OTP_MAX_ATTEMPTS
          OtpTtl,        \* otpTtlMs
          AccessTtl,     \* MAX_AGE of the invitation_access cookie
          TrustTtl,      \* invitationTrustMaxAge()
          Bypass,        \* REQUIRE_GUEST_OTP = "false"
          MaxOtps, MaxTime, MaxRestarts,   \* bounds of the model
          MaxUncounted   \* bound: wrong codes of a row whose counting may fail

ASSUME OtpAssumption ==
  /\ Accepted \in [Invitations -> SUBSET Phones]
  /\ IsFiniteSet(Verifies) /\ IsFiniteSet(Requests)
  /\ MaxAttempts \in Nat \ {0}
  /\ OtpTtl \in Nat \ {0} /\ AccessTtl \in Nat \ {0} /\ TrustTtl \in Nat \ {0}
  /\ Bypass \in BOOLEAN
  /\ MaxOtps \in Nat /\ MaxTime \in Nat /\ MaxRestarts \in Nat /\ MaxUncounted \in Nat

VARIABLES
  live,      \* the invitations that have not been deleted
  otps,      \* the OtpCode rows in creation order; a row that was deleted, or
             \* that its request failed to store, keeps its place
  buckets,   \* the limiter's memory, per phone
  req, ver,  \* the in-flight handlers
  access,    \* per device: the invitation_access cookie
  trust,     \* per device: the invitation_device cookie
  now,       \* the wall clock
  restarts   \* how often the process was restarted

vars == <<live, otps, buckets, req, ver, access, trust, now, restarts>>

Idle == [pc |-> "idle"]
NoCookie == [expiresAt |-> 0]

\* delivered, wrong, uncounted and redeemed are bookkeeping for the properties:
\* whether the code reached the phone, how many wrong codes were compared with
\* it, how many of those the counter missed because its statement failed, and
\* how often it was accepted.  The rest are the columns of OtpCode.
Row == [inv : Invitations, phone : Phones, expiresAt : Nat,
        stored : BOOLEAN, consumed : BOOLEAN, attempts : 0 .. MaxAttempts,
        delivered : BOOLEAN, wrong : Nat, uncounted : Nat, redeemed : Nat]

Request ==
  [pc : {"invalidate", "create"}, inv : Invitations, phone : Phones,
   expiresAt : Nat]
  \cup [pc : {"send"}, otp : Nat \ {0}]

Verify ==
  [pc : {"increment"}, otp : Nat \ {0}]
  \cup [pc : {"consume", "grant"}, otp : Nat \ {0}, inv : Invitations,
        device : Devices, trust : BOOLEAN]

\* otp is bookkeeping: the code the cookie was granted for, 0 if by bypass.
Cookie == [inv : Invitations, expiresAt : Nat, otp : Nat]

Init ==
  /\ live = Invitations
  /\ otps = <<>>
  /\ buckets = [p \in Phones |-> <<>>]
  /\ req = [r \in Requests |-> Idle]
  /\ ver = [v \in Verifies |-> Idle]
  /\ access = [d \in Devices |-> NoCookie]
  /\ trust = [d \in Devices |-> NoCookie]
  /\ now = 0
  /\ restarts = 0

----------------------------------------------------------------------------
(* POST /api/otp/request *)

GateWithoutAllowlist(i, p) == i \in live

\* The gate: the invitation exists and the phone is on its allowlist.
Gate(i, p) == i \in live /\ p \in Accepted[i]

\* Rows still to be written by the handlers in flight (bounds the model).
Reserved == Cardinality({r \in Requests : req[r].pc \in {"invalidate", "create"}})

\* findInvitation, the gate, the rate limiter and the generation of the code.
\* A refused request changes nothing but the pruned bucket.
RequestGate(r, i, p) ==
  /\ req[r] = Idle
  /\ Gate(i, p)
  /\ Len(otps) + Reserved < MaxOtps
  /\ buckets' = [buckets EXCEPT ![p] = Recorded(@, now)]
  /\ req' = IF Admits(buckets[p], now)
              THEN [req EXCEPT ![r] = [pc |-> "invalidate", inv |-> i, phone |-> p,
                                       expiresAt |-> now + OtpTtl]]
              ELSE req
  /\ UNCHANGED <<live, otps, ver, access, trust, now, restarts>>

OfPair(o, i, p) == otps[o].stored /\ otps[o].inv = i /\ otps[o].phone = p

InvalidateNone(r) ==
  /\ req[r].pc = "invalidate"
  /\ req' = [req EXCEPT ![r].pc = "create"]
  /\ UNCHANGED <<live, otps, buckets, ver, access, trust, now, restarts>>

NewRow(h, stored) ==
  [inv |-> h.inv, phone |-> h.phone, expiresAt |-> h.expiresAt,
   stored |-> stored, consumed |-> FALSE, attempts |-> 0,
   delivered |-> FALSE, wrong |-> 0, uncounted |-> 0, redeemed |-> 0]

\* A statement of createOtp fails: no code, and the limiter keeps the request.
CreateFails(r) ==
  /\ otps' = Append(otps, NewRow(req[r], FALSE))
  /\ req' = [req EXCEPT ![r] = Idle]

\* First statement of createOtp: consume the earlier codes of the pair.
Invalidate(r) ==
  /\ req[r].pc = "invalidate"
  /\ \/ /\ otps' = [o \in DOMAIN otps |->
                       [otps[o] EXCEPT !.consumed =
                          @ \/ OfPair(o, req[r].inv, req[r].phone)]]
        /\ req' = [req EXCEPT ![r].pc = "create"]
     \/ CreateFails(r)
  /\ UNCHANGED <<live, buckets, ver, access, trust, now, restarts>>

\* Second statement of createOtp: insert the row.  The foreign key refuses it
\* when the invitation has been deleted meanwhile.
Create(r) ==
  /\ req[r].pc = "create"
  /\ \/ /\ req[r].inv \in live
        /\ otps' = Append(otps, NewRow(req[r], TRUE))
        /\ req' = [req EXCEPT ![r] = [pc |-> "send", otp |-> Len(otps) + 1]]
     \/ CreateFails(r)
  /\ UNCHANGED <<live, buckets, ver, access, trust, now, restarts>>

\* sendOtp walks the channels.  Whatever it reports, the message may or may not
\* reach the phone; the row stays, and the handler answers.
Send(r) ==
  /\ req[r].pc = "send"
  /\ \E got \in BOOLEAN : otps' = [otps EXCEPT ![req[r].otp].delivered = @ \/ got]
  /\ req' = [req EXCEPT ![r] = Idle]
  /\ UNCHANGED <<live, buckets, ver, access, trust, now, restarts>>

----------------------------------------------------------------------------
(* POST /api/otp/verify *)

\* The rows a verification may use: unconsumed and unexpired.
Usable(i, p) ==
  {o \in DOMAIN otps :
     OfPair(o, i, p) /\ ~otps[o].consumed /\ otps[o].expiresAt > now}

PendingConsumedToo(i, p) ==
  {o \in DOMAIN otps :
     /\ OfPair(o, i, p) /\ otps[o].expiresAt > now
     /\ \A q \in DOMAIN otps : OfPair(q, i, p) => q <= o}

\* findPendingOtp: the newest usable row, if any.
Pending(i, p) == {o \in Usable(i, p) : \A q \in Usable(i, p) : q <= o}

OpenAlways(o) == TRUE

\* The lockout test on the attempts just read.
Open(o) == otps[o].attempts < MaxAttempts

\* Lookup, then a code that is not the pending one: the counter is updated by a
\* later statement.  Every other failed lookup answers without a change.
VerifyWrong(v, i, p) ==
  /\ ver[v] = Idle
  /\ i \in live
  /\ \E o \in Pending(i, p) :
       /\ Open(o)
       /\ otps' = [otps EXCEPT ![o].wrong = @ + 1]
       /\ ver' = [ver EXCEPT ![v] = [pc |-> "increment", otp |-> o]]
  /\ UNCHANGED <<live, buckets, req, access, trust, now, restarts>>

\* Lookup, then the pending code itself, which the guest has only if it was
\* delivered.
VerifyRight(v, d, i, p, remember) ==
  /\ ver[v] = Idle
  /\ i \in live
  /\ \E o \in Pending(i, p) :
       /\ Open(o)
       /\ otps[o].delivered
       /\ ver' = [ver EXCEPT ![v] = [pc |-> "consume", otp |-> o, inv |-> i,
                                     device |-> d, trust |-> remember]]
  /\ UNCHANGED <<live, otps, buckets, req, access, trust, now, restarts>>

IncrementUnguarded(v) ==
  /\ ver[v].pc = "increment"
  /\ otps' = [otps EXCEPT ![ver[v].otp].attempts = @ + 1]
  /\ ver' = [ver EXCEPT ![v] = Idle]
  /\ UNCHANGED <<live, buckets, req, access, trust, now, restarts>>

\* incrementAttempts: one conditional update, which a deleted row escapes.  When
\* it fails the guess is answered with an error, and never counted.
Increment(v) ==
  /\ ver[v].pc = "increment"
  /\ LET o == ver[v].otp IN
       \/ otps' = IF otps[o].stored /\ otps[o].attempts < MaxAttempts
                    THEN [otps EXCEPT ![o].attempts = @ + 1]
                    ELSE otps
       \/ /\ otps[o].uncounted < MaxUncounted
          /\ otps' = [otps EXCEPT ![o].uncounted = @ + 1]
  /\ ver' = [ver EXCEPT ![v] = Idle]
  /\ UNCHANGED <<live, buckets, req, access, trust, now, restarts>>

\* consumeOtp: by id, whether or not the row is consumed already.  The update of
\* a deleted row fails always, that of a stored one may.
Consume(v) ==
  /\ ver[v].pc = "consume"
  /\ LET o == ver[v].otp IN
       \/ /\ otps[o].stored
          /\ otps' = [otps EXCEPT ![o].consumed = TRUE, ![o].redeemed = @ + 1]
          /\ ver' = [ver EXCEPT ![v].pc = "grant"]
       \/ /\ ver' = [ver EXCEPT ![v] = Idle]
          /\ UNCHANGED otps
  /\ UNCHANGED <<live, buckets, req, access, trust, now, restarts>>

\* The route reads the invitation again and answers with the cookies; the
\* answer may be lost on the way to the device.
Grant(v) ==
  /\ ver[v].pc = "grant"
  /\ LET h == ver[v]
         cookie(ttl) == [inv |-> h.inv, expiresAt |-> now + ttl, otp |-> h.otp]
     IN \/ /\ h.inv \in live
           /\ access' = [access EXCEPT ![h.device] = cookie(AccessTtl)]
           /\ trust' = IF h.trust THEN [trust EXCEPT ![h.device] = cookie(TrustTtl)]
                                  ELSE trust
        \/ UNCHANGED <<access, trust>>
  /\ ver' = [ver EXCEPT ![v] = Idle]
  /\ UNCHANGED <<live, otps, buckets, req, now, restarts>>

----------------------------------------------------------------------------
(* The rest of the system *)

\* GET /api/guest/access is refused unless the deployment opted out of OTP.
BypassAllowed(d, i) == Bypass /\ i \in live

\* GET /api/guest/access with OTP switched off: the cookie without a code.
GuestAccess(d, i) ==
  /\ BypassAllowed(d, i)
  /\ access' = [access EXCEPT ![d] =
                  [inv |-> i, expiresAt |-> now + AccessTtl, otp |-> 0]]
  /\ UNCHANGED <<live, otps, buckets, req, ver, trust, now, restarts>>

\* DELETE /api/invitations/[id]: one transaction that deletes the codes too.
DeleteInvitation(i) ==
  /\ i \in live
  /\ live' = live \ {i}
  /\ otps' = [o \in DOMAIN otps |->
                [otps[o] EXCEPT !.stored = @ /\ otps[o].inv # i]]
  /\ UNCHANGED <<buckets, req, ver, access, trust, now, restarts>>

\* A crash or a deployment: handlers in flight and the limiter are gone, rows
\* and cookies are not.
Restart ==
  /\ restarts < MaxRestarts
  /\ restarts' = restarts + 1
  /\ req' = [r \in Requests |-> Idle]
  /\ ver' = [v \in Verifies |-> Idle]
  /\ buckets' = [p \in Phones |-> <<>>]
  /\ UNCHANGED <<live, otps, access, trust, now>>

Tick ==
  /\ now < MaxTime
  /\ now' = now + 1
  /\ UNCHANGED <<live, otps, buckets, req, ver, access, trust, restarts>>

RequestStep(r) == Invalidate(r) \/ Create(r) \/ Send(r)
VerifyStep(v) == Increment(v) \/ Consume(v) \/ Grant(v)

Next ==
  \/ \E r \in Requests : RequestStep(r) \/ \E i \in Invitations, p \in Phones : RequestGate(r, i, p)
  \/ \E v \in Verifies :
       \/ VerifyStep(v)
       \/ \E i \in Invitations, p \in Phones :
            \/ VerifyWrong(v, i, p)
            \/ \E d \in Devices, remember \in BOOLEAN : VerifyRight(v, d, i, p, remember)
  \/ \E i \in Invitations : DeleteInvitation(i) \/ \E d \in Devices : GuestAccess(d, i)
  \/ Restart
  \/ Tick

Spec == Init /\ [][Next]_vars

----------------------------------------------------------------------------
(* What getInvitationAccess() and the guest pages make of the cookies. *)

Valid(cookie) == cookie.expiresAt > now

CurrentShortOnly(d) == access[d]

\* The short cookie wins over the trusted-device cookie.
Current(d) == IF Valid(access[d]) THEN access[d] ELSE trust[d]

\* The guest page shows invitation i to device d: the invitation exists and the
\* cookie names it.  Any other visit ends in a 404 or at the invite page, which
\* changes nothing, or sends the device through GuestAccess under the bypass.
HasAccess(d, i) == i \in live /\ Valid(Current(d)) /\ Current(d).inv = i

----------------------------------------------------------------------------
(* Properties *)

\* Type invariant.  It includes that the lockout counter never passes
\* OTP_MAX_ATTEMPTS, however many wrong codes are being processed at once.
TypeOK ==
  /\ live \in SUBSET Invitations
  /\ otps \in Seq(Row)
  /\ buckets \in [Phones -> Seq(Nat)]
  /\ req \in [Requests -> {Idle} \cup Request]
  /\ ver \in [Verifies -> {Idle} \cup Verify]
  /\ access \in [Devices -> {NoCookie} \cup Cookie]
  /\ trust \in [Devices -> {NoCookie} \cup Cookie]
  /\ now \in Nat
  /\ restarts \in Nat

\* The lockout really bounds the wrong codes compared with one row: beyond the
\* cap only by the verifications that read the counter before it got there,
\* by the increments a restart threw away and by those whose update failed.
WrongCodesBounded ==
  \A o \in DOMAIN otps :
    otps[o].wrong <=
      MaxAttempts - 1 + Cardinality(Verifies) * (restarts + 1) + otps[o].uncounted

\* A code is accepted at most once per verification that could be in flight
\* when it was consumed (so once, where verifications do not overlap): a consumed
\* row is never picked up again.
RedemptionsBounded ==
  \A o \in DOMAIN otps : otps[o].redeemed <= Cardinality(Verifies)

\* The codes of an invitation and phone that are usable at once never outnumber
\* the requests that can be in flight (so only the latest one is, where requests
\* do not overlap), and a deleted invitation has none, also when a request for
\* it was in flight at its deletion.
UsableBounded ==
  \A i \in Invitations, p \in Phones :
    /\ Cardinality(Usable(i, p)) <= Cardinality(Requests)
    /\ i \notin live => Usable(i, p) = {}

\* Was a code with this expiry admitted within the window that ends now?
AdmittedInWindow(expiresAt) == expiresAt - OtpTtl > now - RateWindow

\* No more codes are issued to a phone within one window than the limiter
\* admits, across invitations and concurrent requests, each life of the
\* process counting anew.
CodesWithinBudget ==
  \A p \in Phones :
    Cardinality({o \in DOMAIN otps :
                   otps[o].phone = p /\ AdmittedInWindow(otps[o].expiresAt)})
      <= RateLimit * (restarts + 1)

\* The limiter turns a phone away only after RateLimit requests it let through
\* within the window, each of which issued a code, is about to, or lost it to a
\* failed statement or to the deletion of its invitation.  Requests that were
\* themselves refused never extend a refusal.
RefusalIsEarned ==
  \A p \in Phones : ~Admits(buckets[p], now) =>
    Cardinality({o \in DOMAIN otps :
                   otps[o].phone = p /\ AdmittedInWindow(otps[o].expiresAt)})
    + Cardinality({r \in Requests :
                     /\ req[r].pc \in {"invalidate", "create"}
                     /\ req[r].phone = p /\ AdmittedInWindow(req[r].expiresAt)})
    >= RateLimit

Backed(cookie) ==
  /\ cookie.otp \in DOMAIN otps
  /\ LET row == otps[cookie.otp] IN
       /\ row.inv = cookie.inv
       /\ row.phone \in Accepted[cookie.inv]
       /\ row.delivered
       /\ row.redeemed > 0

\* Every cookie that opens an invitation goes back to a code that was issued
\* for this very invitation, to a phone on its allowlist, delivered to that
\* phone and accepted, or to the bypass where the deployment allows it.
AccessBacked ==
  \A d \in Devices : \A cookie \in {access[d], trust[d]} :
    cookie # NoCookie => Backed(cookie) \/ (Bypass /\ cookie.otp = 0)

\* A remembered device keeps its access to the invitation, also when the short
\* cookie runs out: it loses it only when the trusted-device cookie expires, to
\* an answer that opens another invitation to it, or with the invitation.
TrustedDeviceKeepsAccess ==
  [][\A d \in Devices, i \in Invitations :
       /\ HasAccess(d, i) /\ Valid(trust[d]) /\ trust[d].inv = i
       /\ ~HasAccess(d, i)'
       => \/ trust[d].expiresAt <= now'
          \/ access'[d] # access[d] /\ access'[d].inv # i
          \/ i \notin live']_vars
=============================================================================
