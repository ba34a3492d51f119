--------------------------- MODULE AccountTokens ---------------------------
(***************************************************************************)
(* Accounts and the links e-mailed for them: POST /api/setup, POST         *)
(* /api/auth/login, the validation link (GET /api/auth/verify-email and    *)
(* its resend) and the password reset (forgot and reset).                  *)
(*                                                                         *)
(* As in OtpFlow an action is the code between two awaits, and a statement *)
(* answers or fails; one whose answer is lost had its effect, and nothing  *)
(* follows.  A transaction is one step: its first statement locks the row  *)
(* the others need.  An account is identified with its address as it was   *)
(* typed, a link with the AuthEmailToken row of its hash.                  *)
(***************************************************************************)
EXTENDS RateLimiter

CONSTANTS Emails,      \* addresses as they are typed
          Norm,        \* normalizeEmail
          Mails,       \* slots for in-flight setup, resend and forgot requests
          Resets,      \* slots for in-flight POST /api/auth/password/reset
          Clicks,      \* slots for in-flight GET /api/auth/verify-email
          Ttl,         \* VERIFY_EMAIL_TTL_MS and PASSWORD_RESET_TTL_MS
          Required,    \* emailVerificationRequired()
          MaxTokens, MaxTime, MaxRestarts    \* bounds of the model

Kinds == {"verify_email", "password_reset"}
Ways == {"registration", "password"}

ASSUME AccountAssumption ==
  /\ Norm \in [Emails -> Emails]
  /\ \A e \in Emails : Norm[Norm[e]] = Norm[e]
  /\ IsFiniteSet(Resets) /\ IsFiniteSet(Clicks) /\ IsFiniteSet(Mails)
  /\ Ttl \in [Kinds -> Nat \ {0}]
  /\ Required \in BOOLEAN
  /\ MaxTokens \in Nat /\ MaxTime \in Nat /\ MaxRestarts \in Nat

VARIABLES
  users,     \* the User rows
  tokens,    \* the AuthEmailToken rows in creation order
  buckets,   \* the memory of the two limiters
  mail, reset, click,   \* the in-flight handlers
  logins,    \* bookkeeping: <<account, way>> of the sessions that were opened
  now,       \* the wall clock, from 1: 0 stands for null
  restarts

vars == <<users, tokens, buckets, mail, reset, click, logins, now, restarts>>

Idle == [pc |-> "idle"]
NoUser == [exists |-> FALSE]

\* fence is bookkeeping: how many links existed when the password was last
\* reset.
User == [verifiedAt : Nat, fence : Nat]

\* asked, delivered and uses are bookkeeping: when the limiter let the request
\* through, whether the e-mail arrived, how often the link had its effect.
Token == [user : Emails, kind : Kinds, expiresAt : Nat, consumed : BOOLEAN,
          asked : Nat, delivered : BOOLEAN, uses : Nat]

Mail == [pc : {"invalidate", "create"}, user : Emails, kind : Kinds, asked : Nat]
        \cup [pc : {"send"}, token : Nat \ {0}]

Reset == [pc : {"apply"}, token : Nat \ {0}]
Click == [pc : {"apply"}, token : Nat \ {0}, verifiedAt : Nat]

Init ==
  /\ users = [e \in Emails |-> NoUser]
  /\ tokens = <<>>
  /\ buckets = [k \in Kinds |-> [e \in Emails |-> <<>>]]
  /\ mail = [m \in Mails |-> Idle]
  /\ reset = [r \in Resets |-> Idle]
  /\ click = [c \in Clicks |-> Idle]
  /\ logins = {}
  /\ now = 1
  /\ restarts = 0

Accounts == {e \in Emails : users[e] # NoUser}

\* Links still to be written by the handlers in flight (bounds the model).
Reserved == Cardinality({m \in Mails : mail[m].pc \in {"invalidate", "create"}})
Room == Len(tokens) + Reserved < MaxTokens

----------------------------------------------------------------------------
(* Registration and login *)

\* POST /api/setup: the transaction that creates the account, stored under the
\* address as typed and refused when that is taken; then a session, with no look
\* at Required, and a validation link.
Setup(m, e) ==
  /\ mail[m] = Idle
  /\ e \notin Accounts
  /\ Room
  /\ users' = [users EXCEPT ![e] = [verifiedAt |-> 0, fence |-> 0]]
  /\ \/ /\ mail' = [mail EXCEPT ![m] = [pc |-> "create", user |-> e,
                                        kind |-> "verify_email", asked |-> now]]
        /\ logins' = logins \cup {<<e, "registration">>}
     \/ UNCHANGED <<mail, logins>>    \* the answer of the transaction is lost
  /\ UNCHANGED <<tokens, buckets, reset, click, now, restarts>>

\* POST /api/auth/login with the right password.
MayLogIn(e) == e \in Accounts /\ (Required => users[e].verifiedAt # 0)

Login(e) ==
  /\ MayLogIn(e)
  /\ logins' = logins \cup {<<e, "password">>}
  /\ UNCHANGED <<users, tokens, buckets, mail, reset, click, now, restarts>>

----------------------------------------------------------------------------
(* Asking for a link: resend and forgot *)

KeyAsTyped(e) == e

\* The limiters and the lookups both use the normalised address.
Key(e) == Norm[e]

\* The limiter, then the account.  (No other step touches the limiters, so they
\* are consulted in the step of the lookup.)  Resend stops at a verified one.
Ask(m, e, k) ==
  /\ mail[m] = Idle
  /\ Room
  /\ buckets' = [buckets EXCEPT ![k][Key(e)] = Recorded(@, now)]
  /\ mail' = IF /\ Admits(buckets[k][Key(e)], now)
                /\ Norm[e] \in Accounts
                /\ k = "verify_email" => users[Norm[e]].verifiedAt = 0
               THEN [mail EXCEPT ![m] = [pc |-> "invalidate", user |-> Norm[e],
                                         kind |-> k, asked |-> now]]
               ELSE mail
  /\ UNCHANGED <<users, tokens, reset, click, logins, now, restarts>>

\* The unconsumed links of one kind of an account, expired or not.
Outstanding(u, k) ==
  {t \in DOMAIN tokens :
     tokens[t].user = u /\ tokens[t].kind = k /\ ~tokens[t].consumed}

ConsumeAll(T) ==
  [t \in DOMAIN tokens |-> [tokens[t] EXCEPT !.consumed = @ \/ t \in T]]

InvalidateNone(m) ==
  /\ mail[m].pc = "invalidate"
  /\ mail' = [mail EXCEPT ![m].pc = "create"]
  /\ UNCHANGED <<users, tokens, buckets, reset, click, logins, now, restarts>>

Invalidate(m) ==
  /\ mail[m].pc = "invalidate"
  /\ tokens' = ConsumeAll(Outstanding(mail[m].user, mail[m].kind))
  /\ mail' = [mail EXCEPT ![m].pc = "create"]
  /\ UNCHANGED <<users, buckets, reset, click, logins, now, restarts>>

NewToken(h) ==
  [user |-> h.user, kind |-> h.kind, expiresAt |-> now + Ttl[h.kind],
   consumed |-> FALSE, asked |-> h.asked, delivered |-> FALSE, uses |-> 0]

Create(m) ==
  /\ mail[m].pc = "create"
  /\ tokens' = Append(tokens, NewToken(mail[m]))
  /\ mail' = [mail EXCEPT ![m] = [pc |-> "send", token |-> Len(tokens) + 1]]
  /\ UNCHANGED <<users, buckets, reset, click, logins, now, restarts>>

\* The provider may accept the message or not, and lose it; the handler answers
\* the same.
Send(m) ==
  /\ mail[m].pc = "send"
  /\ \E got \in BOOLEAN : tokens' = [tokens EXCEPT ![mail[m].token].delivered = @ \/ got]
  /\ mail' = [mail EXCEPT ![m] = Idle]
  /\ UNCHANGED <<users, buckets, reset, click, logins, now, restarts>>

\* One of the two statements before fails: the handler logs it and answers.
MailFails(m) ==
  /\ mail[m].pc \in {"invalidate", "create"}
  /\ mail' = [mail EXCEPT ![m] = Idle]
  /\ UNCHANGED <<users, tokens, buckets, reset, click, logins, now, restarts>>

----------------------------------------------------------------------------
(* Using a link *)

\* isTokenUsable, of a link its addressee holds.
UsableEvenConsumed(t) == tokens[t].expiresAt > now
Usable(t) == ~tokens[t].consumed /\ tokens[t].expiresAt > now

HeldOfAnyKind(t, k) == tokens[t].delivered
Held(t, k) == tokens[t].delivered /\ tokens[t].kind = k

\* POST /api/auth/password/reset: lookup, before the password is hashed.
ResetLookup(r, t) ==
  /\ reset[r] = Idle
  /\ Held(t, "password_reset") /\ Usable(t)
  /\ reset' = [reset EXCEPT ![r] = [pc |-> "apply", token |-> t]]
  /\ UNCHANGED <<users, tokens, buckets, mail, click, logins, now, restarts>>

\* The links a reset consumes, and the mistake of consuming only its own.
SpentOwn(t) == {t}
SpentByReset(t) == Outstanding(tokens[t].user, "password_reset")

\* The transaction: the new password, and every outstanding link consumed.
ResetApply(r) ==
  /\ reset[r].pc = "apply"
  /\ LET t == reset[r].token
         spent == ConsumeAll(SpentByReset(t))
     IN /\ users' = [users EXCEPT ![tokens[t].user].fence = Len(tokens)]
        /\ tokens' = [spent EXCEPT ![t].uses = @ + 1]
  /\ reset' = [reset EXCEPT ![r] = Idle]
  /\ UNCHANGED <<buckets, mail, click, logins, now, restarts>>

\* GET /api/auth/verify-email: lookup of the link together with its account.
ClickLookup(c, t) ==
  /\ click[c] = Idle
  /\ Held(t, "verify_email") /\ Usable(t)
  /\ click' = [click EXCEPT ![c] = [pc |-> "apply", token |-> t,
                                    verifiedAt |-> users[tokens[t].user].verifiedAt]]
  /\ UNCHANGED <<users, tokens, buckets, mail, reset, logins, now, restarts>>

\* emailVerifiedAt as the transaction leaves it, given what the lookup read.
Stamp(old) == IF old = 0 THEN now ELSE old

\* The transaction.  It decides on the account as the lookup saw it, and writes
\* the timestamp only if that was null.
ClickApply(c) ==
  /\ click[c].pc = "apply"
  /\ LET t == click[c].token
         u == tokens[t].user
     IN /\ tokens' = [tokens EXCEPT ![t].consumed = TRUE, ![t].uses = @ + 1]
        /\ users' = IF Stamp(click[c].verifiedAt) = click[c].verifiedAt
                      THEN users
                      ELSE [users EXCEPT ![u].verifiedAt = Stamp(click[c].verifiedAt)]
  /\ click' = [click EXCEPT ![c] = Idle]
  /\ UNCHANGED <<buckets, mail, reset, logins, now, restarts>>

\* Either transaction fails as a whole.
UseFails ==
  /\ \/ \E r \in Resets : reset[r] # Idle /\ reset' = [reset EXCEPT ![r] = Idle] /\ UNCHANGED click
     \/ \E c \in Clicks : click[c] # Idle /\ click' = [click EXCEPT ![c] = Idle] /\ UNCHANGED reset
  /\ UNCHANGED <<users, tokens, buckets, mail, logins, now, restarts>>

----------------------------------------------------------------------------
Restart ==
  /\ restarts < MaxRestarts
  /\ restarts' = restarts + 1
  /\ mail' = [m \in Mails |-> Idle]
  /\ reset' = [r \in Resets |-> Idle]
  /\ click' = [c \in Clicks |-> Idle]
  /\ buckets' = [k \in Kinds |-> [e \in Emails |-> <<>>]]
  /\ UNCHANGED <<users, tokens, logins, now>>

Tick ==
  /\ now < MaxTime
  /\ now' = now + 1
  /\ UNCHANGED <<users, tokens, buckets, mail, reset, click, logins, restarts>>

Next ==
  \/ \E m \in Mails :
       \/ Invalidate(m) \/ Create(m) \/ Send(m) \/ MailFails(m)
       \/ \E e \in Emails : Setup(m, e) \/ \E k \in Kinds : Ask(m, e, k)
  \/ \E r \in Resets : ResetApply(r) \/ \E t \in DOMAIN tokens : ResetLookup(r, t)
  \/ \E c \in Clicks : ClickApply(c) \/ \E t \in DOMAIN tokens : ClickLookup(c, t)
  \/ UseFails
  \/ \E e \in Emails : Login(e)
  \/ Restart
  \/ Tick

Spec == Init /\ [][Next]_vars

----------------------------------------------------------------------------
(* Properties *)

\* Type invariant.
TypeOK ==
  /\ users \in [Emails -> {NoUser} \cup User]
  /\ tokens \in Seq(Token)
  /\ buckets \in [Kinds -> [Emails -> Seq(Nat)]]
  /\ mail \in [Mails -> {Idle} \cup Mail]
  /\ reset \in [Resets -> {Idle} \cup Reset]
  /\ click \in [Clicks -> {Idle} \cup Click]
  /\ logins \in SUBSET (Emails \X Ways)
  /\ now \in Nat /\ now > 0
  /\ restarts \in Nat

\* A reset kills every reset link that existed when it happened, also a link
\* that was still on its way to the inbox: none of them is usable again.
LinksDieWithReset ==
  \A t \in DOMAIN tokens :
    tokens[t].kind = "password_reset" /\ t <= users[tokens[t].user].fence
      => ~Usable(t)

\* The effects of one link never outnumber the handlers that can be in flight
\* for it (so a link is spent once where they do not overlap): a consumed link
\* starts no new one.
UsesBounded ==
  \A t \in DOMAIN tokens :
    tokens[t].uses <= Cardinality(IF tokens[t].kind = "password_reset"
                                    THEN Resets ELSE Clicks)

\* The limiters bound the links e-mailed to one account in a window, however
\* the address is spelled in the requests; setup adds one validation link.
MailsWithinBudget ==
  \A u \in Emails, k \in Kinds :
    Cardinality({t \in DOMAIN tokens :
                   /\ tokens[t].user = u /\ tokens[t].kind = k
                   /\ tokens[t].asked > now - RateWindow})
      <= RateLimit * (restarts + 1) + (IF k = "verify_email" THEN 1 ELSE 0)

\* The live links of one kind of an account never outnumber the requests for a
\* link that can be in flight (so only the newest one lives, where requests do
\* not overlap).
LiveLinksBounded ==
  \A u \in Emails, k \in Kinds :
    Cardinality({t \in Outstanding(u, k) : Usable(t)}) <= Cardinality(Mails)

\* What the comment on POST /api/auth/password/reset says: a single email can
\* only be spent once.  Two overlapping requests spend it twice.
ResetLinkSpentOnce ==
  \A t \in DOMAIN tokens :
    tokens[t].kind = "password_reset" => tokens[t].uses <= 1

Mailed == {<<tokens[t].user, tokens[t].kind>> : t \in {s \in DOMAIN tokens : tokens[s].delivered}}
Verified == {e \in Accounts : users[e].verifiedAt # 0}
Changed == {e \in Accounts : users[e].fence > 0}

Promise == INSTANCE AccountPromise
             WITH registered <- Accounts, mailed <- Mailed, verified <- Verified,
                  changed <- Changed, loggedIn <- logins

\* AccountTokens implements AccountPromise: no verification, no new password and,
\* where verification is required, no login without a link that reached the
\* account, the session of the registration itself apart.
PromiseKept == Promise!Spec
=============================================================================
