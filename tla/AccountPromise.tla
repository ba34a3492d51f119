--------------------------- MODULE AccountPromise ---------------------------
(***************************************************************************)
(* What the account e-mails promise, without handlers, clocks or tokens:   *)
(* an address counts as verified, and a password is changed, only through  *)
(* a link of that kind that reached the address of that very account.      *)
(* Whoever registers an account is let in at once, with no link at all;    *)
(* from then on, when verification is required, only verified accounts are *)
(* logged in to.  AccountTokens implements this specification.             *)
(***************************************************************************)
CONSTANTS Emails, Required

Kinds == {"verify_email", "password_reset"}
Ways == {"registration", "password"}

VARIABLES
  registered,   \* the accounts
  mailed,       \* <<account, kind>> of the links that were delivered
  verified,     \* the accounts whose address is verified
  changed,      \* the accounts whose password was reset
  loggedIn      \* <<account, way>> of the sessions that were opened

vars == <<registered, mailed, verified, changed, loggedIn>>

Init ==
  /\ registered = {} /\ mailed = {} /\ verified = {} /\ changed = {}
  /\ loggedIn = {}

\* The answer opens a session, unless the registration fails after all.
Register(u) ==
  /\ u \notin registered
  /\ registered' = registered \cup {u}
  /\ loggedIn' \in {loggedIn, loggedIn \cup {<<u, "registration">>}}
  /\ UNCHANGED <<mailed, verified, changed>>

Deliver(u, k) ==
  /\ u \in registered
  /\ mailed' = mailed \cup {<<u, k>>}
  /\ UNCHANGED <<registered, verified, changed, loggedIn>>

Verify(u) ==
  /\ <<u, "verify_email">> \in mailed
  /\ verified' = verified \cup {u}
  /\ UNCHANGED <<registered, mailed, changed, loggedIn>>

Reset(u) ==
  /\ <<u, "password_reset">> \in mailed
  /\ changed' = changed \cup {u}
  /\ UNCHANGED <<registered, mailed, verified, loggedIn>>

Login(u) ==
  /\ u \in registered
  /\ Required => u \in verified
  /\ loggedIn' = loggedIn \cup {<<u, "password">>}
  /\ UNCHANGED <<registered, mailed, verified, changed>>

Next ==
  \E u \in Emails :
    \/ Register(u) \/ Verify(u) \/ Reset(u) \/ Login(u)
    \/ \E k \in Kinds : Deliver(u, k)

Spec == Init /\ [][Next]_vars
=============================================================================
