------------------------- MODULE AccountTokensProofs -------------------------
(***************************************************************************)
(* Theorems about AccountTokens, for every set of addresses and handler    *)
(* slots, every lifetime, limit and bound, whether verification is         *)
(* required or not.                                                        *)
(***************************************************************************)
EXTENDS AccountTokens, RateLimiterProofs, FiniteSetTheorems, SequenceTheorems, TLAPS

(***************************************************************************)
(* Sequences of tokens                                                     *)
(***************************************************************************)

\* A new link leaves the earlier ones where they are.
LEMMA TokenInsert ==
  ASSUME NEW s \in Seq(Token), NEW token \in Token
  PROVE  /\ Append(s, token) \in Seq(Token)
         /\ DOMAIN s = 1 .. Len(s) /\ Len(s) \in Nat
         /\ Len(Append(s, token)) = Len(s) + 1
         /\ DOMAIN Append(s, token) = 1 .. Len(s) + 1
         /\ \A t \in DOMAIN s : Append(s, token)[t] = s[t]
         /\ Append(s, token)[Len(s) + 1] = token
<1>1. Append(s, token) \in Seq(Token) /\ Len(Append(s, token)) = Len(s) + 1
  BY AppendProperties
<1>2. DOMAIN Append(s, token) = 1 .. Len(Append(s, token))
  BY <1>1, LenProperties
<1> QED
  BY <1>1, <1>2, LenProperties, AppendProperties

\* A function from the indices of a sequence of tokens to tokens is one as well.
LEMMA TokenMap ==
  ASSUME NEW s \in Seq(Token), NEW f, f = [t \in DOMAIN s |-> f[t]],
         \A t \in DOMAIN s : f[t] \in Token
  PROVE  f \in Seq(Token) /\ DOMAIN f = DOMAIN s /\ Len(f) = Len(s)
<1>1. Len(s) \in Nat /\ DOMAIN s = 1 .. Len(s)
  BY LenProperties
<1>2. f \in [1 .. Len(s) -> Token]
  BY <1>1
<1>3. f \in Seq(Token)
  BY <1>1, <1>2, SeqDef
<1>4. Len(f) \in Nat /\ DOMAIN f = 1 .. Len(f)
  BY <1>3, LenProperties
<1> QED
  BY <1>1, <1>2, <1>3, <1>4

\* How a link may change: whose it is, of which kind, when it was asked for and when
\* it expires is fixed, and neither its delivery nor its consumption is undone.
Later(token, new) ==
  /\ new.user = token.user /\ new.kind = token.kind /\ new.asked = token.asked
  /\ new.expiresAt = token.expiresAt
  /\ token.consumed => new.consumed
  /\ token.delivered => new.delivered

LEMMA TokenUpdates ==
  ASSUME NEW token \in Token
  PROVE  /\ \A b \in BOOLEAN :
              /\ [token EXCEPT !.consumed = @ \/ b] \in Token
              /\ Later(token, [token EXCEPT !.consumed = @ \/ b])
              /\ [token EXCEPT !.consumed = @ \/ b].delivered = token.delivered
              /\ [token EXCEPT !.consumed = @ \/ b].uses = token.uses
              /\ [token EXCEPT !.consumed = @ \/ b].consumed = (token.consumed \/ b)
         /\ \A b \in BOOLEAN :
              /\ [token EXCEPT !.delivered = @ \/ b] \in Token
              /\ Later(token, [token EXCEPT !.delivered = @ \/ b])
              /\ [token EXCEPT !.delivered = @ \/ b].uses = token.uses
              /\ [token EXCEPT !.delivered = @ \/ b].consumed = token.consumed
              /\ [token EXCEPT !.delivered = @ \/ b].delivered = (token.delivered \/ b)
         /\ [token EXCEPT !.uses = @ + 1] \in Token
         /\ Later(token, [token EXCEPT !.uses = @ + 1])
         /\ [token EXCEPT !.uses = @ + 1].delivered = token.delivered
         /\ [token EXCEPT !.uses = @ + 1].uses = token.uses + 1
         /\ [token EXCEPT !.uses = @ + 1].consumed = token.consumed
<1>1. ASSUME NEW b \in BOOLEAN
      PROVE  /\ [token EXCEPT !.consumed = @ \/ b] \in Token
             /\ Later(token, [token EXCEPT !.consumed = @ \/ b])
             /\ [token EXCEPT !.consumed = @ \/ b].delivered = token.delivered
             /\ [token EXCEPT !.consumed = @ \/ b].uses = token.uses
             /\ [token EXCEPT !.consumed = @ \/ b].consumed = (token.consumed \/ b)
  <2>1. token.consumed \/ b \in BOOLEAN
    OBVIOUS
  <2>2. [token EXCEPT !.consumed = @ \/ b] \in Token
    BY <2>1 DEF Token
  <2> QED
    BY <2>2 DEF Token, Later
<1>2. ASSUME NEW b \in BOOLEAN
      PROVE  /\ [token EXCEPT !.delivered = @ \/ b] \in Token
             /\ Later(token, [token EXCEPT !.delivered = @ \/ b])
             /\ [token EXCEPT !.delivered = @ \/ b].uses = token.uses
             /\ [token EXCEPT !.delivered = @ \/ b].consumed = token.consumed
             /\ [token EXCEPT !.delivered = @ \/ b].delivered = (token.delivered \/ b)
  <2>1. [token EXCEPT !.delivered = @ \/ b] \in Token
    BY DEF Token
  <2> QED
    BY <2>1 DEF Token, Later
<1>3. /\ [token EXCEPT !.uses = @ + 1] \in Token
      /\ Later(token, [token EXCEPT !.uses = @ + 1])
      /\ [token EXCEPT !.uses = @ + 1].delivered = token.delivered
      /\ [token EXCEPT !.uses = @ + 1].uses = token.uses + 1
      /\ [token EXCEPT !.uses = @ + 1].consumed = token.consumed
  BY DEF Token, Later
<1> QED
  BY <1>1, <1>2, <1>3

\* The fields of a handler in flight, by the place it waits at.
LEMMA MailFields ==
  ASSUME NEW h \in {Idle} \cup Mail
  PROVE  /\ h.pc \in {"invalidate", "create"} =>
              /\ h.user \in Emails /\ h.kind \in Kinds /\ h.asked \in Nat
              /\ [h EXCEPT !.pc = "create"] \in Mail
              /\ [h EXCEPT !.pc = "create"].pc = "create"
              /\ [h EXCEPT !.pc = "create"].user = h.user
         /\ h.pc = "send" => h.token \in Nat \ {0}
<1>1. CASE h = Idle
  BY <1>1 DEF Idle
<1>2. CASE h \in [pc : {"invalidate", "create"}, user : Emails, kind : Kinds, asked : Nat]
  BY <1>2 DEF Mail
<1>3. CASE h \in [pc : {"send"}, token : Nat \ {0}]
  BY <1>3 DEF Mail
<1> QED
  BY <1>1, <1>2, <1>3 DEF Mail

LEMMA NewTokenType ==
  ASSUME NEW h \in Mail, h.pc = "create", now \in Nat
  PROVE  NewToken(h) \in Token
<1>1. h.user \in Emails /\ h.kind \in Kinds /\ h.asked \in Nat
  BY MailFields
<1>2. Ttl[h.kind] \in Nat
  BY <1>1, AccountAssumption
<1> QED
  BY <1>1, <1>2 DEF NewToken, Token

(***************************************************************************)
(* What the steps do to the links                                          *)
(***************************************************************************)

\* Consuming a set of links changes nothing but consumed.
LEMMA ConsumeAllKeeps ==
  ASSUME tokens \in Seq(Token), NEW T
  PROVE  /\ ConsumeAll(T) \in Seq(Token)
         /\ DOMAIN ConsumeAll(T) = DOMAIN tokens
         /\ Len(ConsumeAll(T)) = Len(tokens)
         /\ \A t \in DOMAIN tokens :
              /\ Later(tokens[t], ConsumeAll(T)[t])
              /\ ConsumeAll(T)[t].delivered = tokens[t].delivered
              /\ ConsumeAll(T)[t].uses = tokens[t].uses
              /\ ConsumeAll(T)[t].consumed = (tokens[t].consumed \/ t \in T)
<1>1. \A t \in DOMAIN tokens : tokens[t] \in Token
  BY ElementOfSeq, LenProperties
<1>2. \A t \in DOMAIN tokens :
        ConsumeAll(T)[t] = [tokens[t] EXCEPT !.consumed = @ \/ (t \in T)]
  BY DEF ConsumeAll
<1>3. \A t \in DOMAIN tokens :
        /\ ConsumeAll(T)[t] \in Token
        /\ Later(tokens[t], ConsumeAll(T)[t])
        /\ ConsumeAll(T)[t].delivered = tokens[t].delivered
        /\ ConsumeAll(T)[t].uses = tokens[t].uses
        /\ ConsumeAll(T)[t].consumed = (tokens[t].consumed \/ t \in T)
  <2>1. TAKE t \in DOMAIN tokens
  <2>2. tokens[t] \in Token /\ tokens[t].consumed \in BOOLEAN
    BY <1>1 DEF Token
  <2>3. CASE t \in T
    <3>1. ConsumeAll(T)[t] = [tokens[t] EXCEPT !.consumed = @ \/ TRUE]
      BY <1>2, <2>3
    <3>2. /\ [tokens[t] EXCEPT !.consumed = @ \/ TRUE] \in Token
          /\ Later(tokens[t], [tokens[t] EXCEPT !.consumed = @ \/ TRUE])
          /\ [tokens[t] EXCEPT !.consumed = @ \/ TRUE].delivered = tokens[t].delivered
          /\ [tokens[t] EXCEPT !.consumed = @ \/ TRUE].uses = tokens[t].uses
          /\ [tokens[t] EXCEPT !.consumed = @ \/ TRUE].consumed = TRUE
      BY <2>2, TokenUpdates
    <3> QED
      BY <2>3, <3>1, <3>2
  <2>4. CASE t \notin T
    <3>1. ConsumeAll(T)[t] = [tokens[t] EXCEPT !.consumed = @ \/ FALSE]
      BY <1>2, <2>4
    <3>2. /\ [tokens[t] EXCEPT !.consumed = @ \/ FALSE] \in Token
          /\ Later(tokens[t], [tokens[t] EXCEPT !.consumed = @ \/ FALSE])
          /\ [tokens[t] EXCEPT !.consumed = @ \/ FALSE].delivered = tokens[t].delivered
          /\ [tokens[t] EXCEPT !.consumed = @ \/ FALSE].uses = tokens[t].uses
          /\ [tokens[t] EXCEPT !.consumed = @ \/ FALSE].consumed = (tokens[t].consumed \/ FALSE)
      BY <2>2, TokenUpdates
    <3> QED
      BY <2>2, <2>4, <3>1, <3>2
  <2> QED
    BY <2>3, <2>4
<1>4. ConsumeAll(T) = [t \in DOMAIN tokens |-> ConsumeAll(T)[t]]
  BY DEF ConsumeAll
<1> QED
  BY <1>3, <1>4, TokenMap

\* Changing one link leaves the others as they are.
LEMMA TokenChange ==
  ASSUME NEW s \in Seq(Token), NEW t \in DOMAIN s, NEW token \in Token
  PROVE  /\ [s EXCEPT ![t] = token] \in Seq(Token)
         /\ DOMAIN [s EXCEPT ![t] = token] = DOMAIN s
         /\ Len([s EXCEPT ![t] = token]) = Len(s)
         /\ \A x \in DOMAIN s :
              [s EXCEPT ![t] = token][x] = IF x = t THEN token ELSE s[x]
<1>1. \A x \in DOMAIN s : s[x] \in Token
  BY ElementOfSeq, LenProperties
<1> DEFINE f == [s EXCEPT ![t] = token]
<1>2. f = [x \in DOMAIN s |-> f[x]] /\ \A x \in DOMAIN s : f[x] \in Token
  BY <1>1
<1>3. f \in Seq(Token) /\ DOMAIN f = DOMAIN s /\ Len(f) = Len(s)
  BY <1>2, TokenMap
<1> QED
  BY <1>3

\* The steps that neither add a link nor forget what happened to one.
Kept ==
  /\ tokens' \in Seq(Token)
  /\ DOMAIN tokens' = DOMAIN tokens /\ Len(tokens') = Len(tokens)
  /\ \A t \in DOMAIN tokens : Later(tokens[t], tokens'[t])

LEMMA Unchanged ==
  ASSUME tokens \in Seq(Token), tokens' = tokens
  PROVE  Kept
BY DEF Kept, Later

LEMMA InvalidateEffect ==
  ASSUME tokens \in Seq(Token), NEW m \in Mails, Invalidate(m)
  PROVE  /\ Kept
         /\ \A t \in DOMAIN tokens : /\ tokens'[t].delivered = tokens[t].delivered
                                     /\ tokens'[t].uses = tokens[t].uses
<1>1. tokens' = ConsumeAll(Outstanding(mail[m].user, mail[m].kind))
  BY DEF Invalidate
<1> QED
  BY <1>1, ConsumeAllKeeps DEF Kept

LEMMA CreateEffect ==
  ASSUME tokens \in Seq(Token), now \in Nat, NEW m \in Mails, mail[m] \in Mail, Create(m)
  PROVE  /\ tokens' \in Seq(Token) /\ Len(tokens) \in Nat
         /\ Len(tokens') = Len(tokens) + 1
         /\ DOMAIN tokens = 1 .. Len(tokens) /\ DOMAIN tokens' = 1 .. Len(tokens) + 1
         /\ \A t \in DOMAIN tokens : tokens'[t] = tokens[t]
         /\ tokens'[Len(tokens) + 1] = NewToken(mail[m])
<1>1. NewToken(mail[m]) \in Token
  BY NewTokenType DEF Create
<1> QED
  BY <1>1, TokenInsert DEF Create

LEMMA SendEffect ==
  ASSUME tokens \in Seq(Token), NEW m \in Mails, mail[m].token \in DOMAIN tokens, Send(m)
  PROVE  /\ Kept
         /\ \A t \in DOMAIN tokens : /\ tokens'[t].consumed = tokens[t].consumed
                                     /\ tokens'[t].uses = tokens[t].uses
         /\ \A t \in DOMAIN tokens \ {mail[m].token} : tokens'[t] = tokens[t]
<1> DEFINE o == mail[m].token
<1>1. PICK got \in BOOLEAN : tokens' = [tokens EXCEPT ![o].delivered = @ \/ got]
  BY DEF Send
<1> DEFINE new == [tokens[o] EXCEPT !.delivered = @ \/ got]
<1>2. tokens[o] \in Token
  BY ElementOfSeq, LenProperties
<1>3. /\ new \in Token /\ Later(tokens[o], new)
      /\ new.consumed = tokens[o].consumed /\ new.uses = tokens[o].uses
  BY <1>2, TokenUpdates
<1>4. tokens' = [tokens EXCEPT ![o] = new]
  BY <1>1
<1>5. \A x \in DOMAIN tokens : tokens'[x] = IF x = o THEN new ELSE tokens[x]
  BY <1>3, <1>4, TokenChange
<1>6. Kept
  BY <1>3, <1>4, <1>5, TokenChange DEF Kept, Later
<1> QED
  BY <1>3, <1>5, <1>6

\* A reset consumes every outstanding reset link of the account.
LEMMA ResetEffect ==
  ASSUME tokens \in Seq(Token), NEW r \in Resets, ResetApply(r),
         reset[r].token \in DOMAIN tokens
  PROVE  LET t == reset[r].token IN
           /\ Kept
           /\ \A x \in DOMAIN tokens :
                /\ tokens'[x].delivered = tokens[x].delivered
                /\ tokens'[x].consumed =
                     (tokens[x].consumed \/ x \in Outstanding(tokens[t].user, "password_reset"))
                /\ tokens'[x].uses = IF x = t THEN tokens[x].uses + 1 ELSE tokens[x].uses
<1> DEFINE t == reset[r].token
           spent == ConsumeAll(SpentByReset(t))
           new == [spent[t] EXCEPT !.uses = @ + 1]
<1>1. tokens' = [spent EXCEPT ![t].uses = @ + 1]
  BY DEF ResetApply
<1>2. /\ spent \in Seq(Token) /\ DOMAIN spent = DOMAIN tokens /\ Len(spent) = Len(tokens)
      /\ \A x \in DOMAIN tokens :
           /\ Later(tokens[x], spent[x])
           /\ spent[x].delivered = tokens[x].delivered
           /\ spent[x].uses = tokens[x].uses
           /\ spent[x].consumed = (tokens[x].consumed \/ x \in SpentByReset(t))
  BY ConsumeAllKeeps
<1> HIDE DEF spent
<1>3. spent[t] \in Token
  BY <1>2, ElementOfSeq, LenProperties
<1>4. /\ new \in Token /\ Later(spent[t], new) /\ new.delivered = spent[t].delivered
      /\ new.uses = spent[t].uses + 1 /\ new.consumed = spent[t].consumed
  BY <1>3, TokenUpdates
<1>5. tokens' = [spent EXCEPT ![t] = new]
  BY <1>1
<1> HIDE DEF new
<1>6. /\ tokens' \in Seq(Token) /\ DOMAIN tokens' = DOMAIN spent /\ Len(tokens') = Len(spent)
      /\ \A x \in DOMAIN spent : tokens'[x] = IF x = t THEN new ELSE spent[x]
  BY <1>2, <1>4, <1>5, TokenChange
<1>7. Kept
  BY <1>2, <1>4, <1>6 DEF Kept, Later
<1> QED
  BY <1>2, <1>4, <1>6, <1>7 DEF SpentByReset

LEMMA ClickEffect ==
  ASSUME tokens \in Seq(Token), NEW c \in Clicks, ClickApply(c),
         click[c].token \in DOMAIN tokens
  PROVE  LET t == click[c].token IN
           /\ Kept
           /\ \A x \in DOMAIN tokens :
                /\ tokens'[x].delivered = tokens[x].delivered
                /\ tokens'[x].consumed = (tokens[x].consumed \/ x = t)
                /\ tokens'[x].uses = IF x = t THEN tokens[x].uses + 1 ELSE tokens[x].uses
<1> DEFINE t == click[c].token
           used == [tokens[t] EXCEPT !.consumed = @ \/ TRUE]
           new == [used EXCEPT !.uses = @ + 1]
<1>1. tokens' = [tokens EXCEPT ![t].consumed = TRUE, ![t].uses = @ + 1]
  BY DEF ClickApply
<1>2. tokens[t] \in Token
  BY ElementOfSeq, LenProperties
<1>3. /\ used \in Token /\ Later(tokens[t], used) /\ used.delivered = tokens[t].delivered
      /\ used.uses = tokens[t].uses /\ used.consumed
      /\ used = [tokens[t] EXCEPT !.consumed = TRUE]
  BY <1>2, TokenUpdates
<1>4. /\ new \in Token /\ Later(used, new) /\ new.delivered = used.delivered
      /\ new.uses = used.uses + 1 /\ new.consumed = used.consumed
  BY <1>3, TokenUpdates
<1>5. tokens' = [tokens EXCEPT ![t] = new]
  <2>1. [[tokens EXCEPT ![t].consumed = TRUE] EXCEPT ![t].uses = @ + 1]
          = [tokens EXCEPT ![t] = [[tokens[t] EXCEPT !.consumed = TRUE] EXCEPT !.uses = @ + 1]]
    OBVIOUS
  <2> QED
    BY <1>1, <1>3, <2>1
<1> HIDE DEF new, used
<1>6. /\ tokens' \in Seq(Token) /\ DOMAIN tokens' = DOMAIN tokens /\ Len(tokens') = Len(tokens)
      /\ \A x \in DOMAIN tokens : tokens'[x] = IF x = t THEN new ELSE tokens[x]
  BY <1>4, <1>5, TokenChange
<1>7. Kept
  BY <1>3, <1>4, <1>6 DEF Kept, Later
<1>8. \A x \in DOMAIN tokens : tokens[x].consumed \in BOOLEAN
  <2>1. \A x \in DOMAIN tokens : tokens[x] \in Token
    BY ElementOfSeq, LenProperties
  <2> QED
    BY <2>1 DEF Token
<1>9. new.consumed = TRUE
  BY <1>3, <1>4 DEF Token
<1> QED
  BY <1>3, <1>4, <1>6, <1>7, <1>8, <1>9

(***************************************************************************)
(* Type correctness                                                        *)
(***************************************************************************)

\* The handlers in flight work for accounts and on links that exist, and who
\* uses a link was mailed it.
RefsOK ==
  /\ \A t \in DOMAIN tokens : tokens[t].user \in Accounts
  /\ \A m \in Mails : mail[m].pc \in {"invalidate", "create"} => mail[m].user \in Accounts
  /\ \A m \in Mails : mail[m].pc = "send" => mail[m].token \in DOMAIN tokens
  /\ \A r \in Resets : reset[r].pc = "apply" =>
       /\ reset[r].token \in DOMAIN tokens
       /\ Held(reset[r].token, "password_reset")
  /\ \A c \in Clicks : click[c].pc = "apply" =>
       /\ click[c].token \in DOMAIN tokens
       /\ Held(click[c].token, "verify_email")

TypeInv == TypeOK /\ RefsOK

\* Steps that keep the accounts, the links and the requests about them keep
\* what is known of the links.
LEMMA RefsKept ==
  ASSUME TypeInv, Kept, Accounts \subseteq Accounts',
         \A m \in Mails : \/ mail'[m] = mail[m]
                          \/ mail'[m] = Idle
                          \/ /\ mail'[m].pc \in {"invalidate", "create"}
                             /\ mail'[m].user \in Accounts'
         ,
         \A r \in Resets : \/ reset'[r] \in {reset[r], Idle}
                           \/ /\ reset'[r].token \in DOMAIN tokens
                              /\ Held(reset'[r].token, "password_reset")
         ,
         \A c \in Clicks : \/ click'[c] \in {click[c], Idle}
                           \/ /\ click'[c].token \in DOMAIN tokens
                              /\ Held(click'[c].token, "verify_email")
  PROVE  RefsOK'
<1>1. \A t \in DOMAIN tokens, k \in Kinds : Held(t, k) => Held(t, k)'
  BY DEF Kept, Later, Held
<1>2. \A t \in DOMAIN tokens' : tokens'[t].user \in Accounts'
  BY DEF Kept, Later, TypeInv, RefsOK
<1>3. \A m \in Mails :
        /\ mail'[m].pc \in {"invalidate", "create"} => mail'[m].user \in Accounts'
        /\ mail'[m].pc = "send" => mail'[m].token \in DOMAIN tokens'
  BY DEF Kept, TypeInv, RefsOK, Idle
<1>4. \A r \in Resets : reset'[r].pc = "apply" =>
        /\ reset'[r].token \in DOMAIN tokens
        /\ Held(reset'[r].token, "password_reset")
  BY DEF TypeInv, RefsOK, Idle
<1>5. \A c \in Clicks : click'[c].pc = "apply" =>
        /\ click'[c].token \in DOMAIN tokens
        /\ Held(click'[c].token, "verify_email")
  BY DEF TypeInv, RefsOK, Idle
<1>6. \A r \in Resets : reset'[r].pc = "apply" =>
        reset'[r].token \in DOMAIN tokens' /\ Held(reset[r].token, "password_reset")'
  BY <1>1, <1>4 DEF Kept, Kinds, Held
<1>7. \A c \in Clicks : click'[c].pc = "apply" =>
        click'[c].token \in DOMAIN tokens' /\ Held(click[c].token, "verify_email")'
  BY <1>1, <1>5 DEF Kept, Kinds, Held
<1> QED
  BY <1>2, <1>3, <1>6, <1>7 DEF RefsOK

LEMMA TypeInit == Init => TypeInv
<1> SUFFICES ASSUME Init PROVE TypeInv
  OBVIOUS
<1> USE DEF Init
<1>1. tokens \in Seq(Token) /\ DOMAIN tokens = {}
  BY EmptySeq
<1>2. buckets \in [Kinds -> [Emails -> Seq(Nat)]]
  BY EmptySeq
<1> QED
  BY <1>1, <1>2 DEF TypeInv, TypeOK, RefsOK, Idle

LEMMA TypeNext == TypeInv /\ [Next]_vars => TypeInv'
<1> SUFFICES ASSUME TypeInv, [Next]_vars PROVE TypeInv'
  OBVIOUS
<1> USE AccountAssumption
<1> tokens \in Seq(Token) /\ now \in Nat
  BY DEF TypeInv, TypeOK
<1>k. tokens' = tokens => Kept
  BY Unchanged
<1>t. \A t \in DOMAIN tokens : tokens[t] \in Token
  BY ElementOfSeq, LenProperties
<1>1. ASSUME NEW m \in Mails, NEW e \in Emails, Setup(m, e) PROVE TypeInv'
  <2>1. [verifiedAt |-> 0, fence |-> 0] \in User /\ [verifiedAt |-> 0, fence |-> 0] # NoUser
    BY DEF User, NoUser
  <2>2. users' \in [Emails -> {NoUser} \cup User]
    BY <1>1, <2>1 DEF Setup, TypeInv, TypeOK
  <2>3. Accounts \subseteq Accounts' /\ e \in Accounts'
    BY <1>1, <2>1 DEF Setup, Accounts, TypeInv, TypeOK
  <2>4. [pc |-> "create", user |-> e, kind |-> "verify_email", asked |-> now] \in Mail
    BY DEF Mail, Kinds
  <2>s. \/ mail' = mail
        \/ mail' = [mail EXCEPT ![m] = [pc |-> "create", user |-> e,
                                        kind |-> "verify_email", asked |-> now]]
    BY <1>1 DEF Setup
  <2>5. mail' \in [Mails -> {Idle} \cup Mail]
    BY <2>s, <2>4 DEF TypeInv, TypeOK
  <2>6. \A n \in Mails : \/ mail'[n] = mail[n]
                         \/ mail'[n].pc = "create" /\ mail'[n].user \in Accounts'
    BY <2>s, <2>3 DEF TypeInv, TypeOK
  <2>7. RefsOK'
    BY <1>1, <1>k, <2>3, <2>6, RefsKept DEF Setup
  <2>8. logins' \in SUBSET (Emails \X Ways)
    BY <1>1 DEF Setup, Ways, TypeInv, TypeOK
  <2> QED
    BY <1>1, <2>2, <2>5, <2>7, <2>8 DEF Setup, TypeInv, TypeOK
<1>2. ASSUME NEW e \in Emails, Login(e) PROVE TypeInv'
  <2>1. logins' \in SUBSET (Emails \X Ways)
    BY <1>2 DEF Login, Ways, TypeInv, TypeOK
  <2> QED
    BY <1>2, <2>1 DEF Login, TypeInv, TypeOK, RefsOK, Accounts, Held
<1>3. ASSUME NEW m \in Mails, NEW e \in Emails, NEW k \in Kinds, Ask(m, e, k) PROVE TypeInv'
  <2>1. Key(e) \in Emails /\ Norm[e] \in Emails
    BY DEF Key
  <2>2. Recorded(buckets[k][Key(e)], now) \in Seq(Nat)
    BY <2>1, RecordedType DEF TypeInv, TypeOK
  <2>3. buckets' \in [Kinds -> [Emails -> Seq(Nat)]]
    <3> DEFINE row == [buckets[k] EXCEPT ![Key(e)] = Recorded(buckets[k][Key(e)], now)]
    <3>1. row \in [Emails -> Seq(Nat)]
      BY <2>2 DEF TypeInv, TypeOK
    <3>2. buckets' = [buckets EXCEPT ![k] = row]
      BY <1>3 DEF Ask
    <3> QED
      BY <3>1, <3>2 DEF TypeInv, TypeOK
  <2>4. \/ mail' = mail
        \/ /\ Norm[e] \in Accounts
           /\ mail' = [mail EXCEPT ![m] = [pc |-> "invalidate", user |-> Norm[e],
                                           kind |-> k, asked |-> now]]
    BY <1>3 DEF Ask
  <2>5. [pc |-> "invalidate", user |-> Norm[e], kind |-> k, asked |-> now] \in Mail
    BY <2>1 DEF Mail
  <2>6. mail' \in [Mails -> {Idle} \cup Mail]
    BY <2>4, <2>5 DEF TypeInv, TypeOK
  <2>7. \A n \in Mails : \/ mail'[n] = mail[n]
                         \/ mail'[n].pc = "invalidate" /\ mail'[n].user \in Accounts
    BY <2>4 DEF TypeInv, TypeOK
  <2>8. Accounts' = Accounts
    BY <1>3 DEF Ask, Accounts
  <2>9. RefsOK'
    BY <1>3, <1>k, <2>7, <2>8, RefsKept DEF Ask
  <2> QED
    BY <1>3, <2>3, <2>6, <2>9 DEF Ask, TypeInv, TypeOK
<1>4. ASSUME NEW m \in Mails, Invalidate(m) PROVE TypeInv'
  <2>1. /\ [mail[m] EXCEPT !.pc = "create"] \in Mail
        /\ [mail[m] EXCEPT !.pc = "create"].pc = "create"
        /\ [mail[m] EXCEPT !.pc = "create"].user = mail[m].user
        /\ mail[m].user \in Accounts
    BY <1>4, MailFields DEF Invalidate, TypeInv, TypeOK, RefsOK
  <2>2. mail' = [mail EXCEPT ![m] = [mail[m] EXCEPT !.pc = "create"]]
    BY <1>4 DEF Invalidate
  <2>3. mail' \in [Mails -> {Idle} \cup Mail]
    BY <2>1, <2>2 DEF TypeInv, TypeOK
  <2>4. Kept
    BY <1>4, InvalidateEffect
  <2>5. Accounts' = Accounts
    BY <1>4 DEF Invalidate, Accounts
  <2>6. \A n \in Mails : \/ mail'[n] = mail[n]
                         \/ mail'[n].pc = "create" /\ mail'[n].user \in Accounts
    BY <2>1, <2>2 DEF TypeInv, TypeOK
  <2>7. RefsOK'
    BY <1>4, <2>4, <2>5, <2>6, RefsKept DEF Invalidate
  <2> QED
    BY <1>4, <2>3, <2>4, <2>7 DEF Invalidate, Kept, TypeInv, TypeOK
<1>5. ASSUME NEW m \in Mails, Create(m) PROVE TypeInv'
  <2>1. mail[m] \in Mail /\ mail[m].pc = "create" /\ mail[m].user \in Accounts
    BY <1>5 DEF Create, TypeInv, TypeOK, RefsOK, Idle
  <2>2. /\ tokens' \in Seq(Token) /\ Len(tokens) \in Nat
        /\ Len(tokens') = Len(tokens) + 1
        /\ DOMAIN tokens = 1 .. Len(tokens) /\ DOMAIN tokens' = 1 .. Len(tokens) + 1
        /\ \A t \in DOMAIN tokens : tokens'[t] = tokens[t]
        /\ tokens'[Len(tokens) + 1].user = mail[m].user
    <3>1. tokens'[Len(tokens) + 1] = NewToken(mail[m])
      BY <1>5, <2>1, CreateEffect
    <3>2. NewToken(mail[m]).user = mail[m].user
      BY DEF NewToken
    <3> QED
      BY <1>5, <2>1, <3>1, <3>2, CreateEffect
  <2>3. mail' = [mail EXCEPT ![m] = [pc |-> "send", token |-> Len(tokens) + 1]]
    BY <1>5 DEF Create
  <2>4. [pc |-> "send", token |-> Len(tokens) + 1] \in Mail
    BY <2>2 DEF Mail
  <2>5. mail' \in [Mails -> {Idle} \cup Mail]
    BY <2>3, <2>4 DEF TypeInv, TypeOK
  <2>6. UNCHANGED <<users, buckets, reset, click, logins, now, restarts>> /\ Accounts' = Accounts
    BY <1>5 DEF Create, Accounts
  <2>7. \A t \in DOMAIN tokens' : tokens'[t].user \in Accounts
    BY <2>1, <2>2 DEF TypeInv, RefsOK
  <2>8. \A n \in Mails :
          /\ mail'[n].pc \in {"invalidate", "create"} => mail'[n].user \in Accounts
          /\ mail'[n].pc = "send" => mail'[n].token \in DOMAIN tokens'
    BY <2>2, <2>3 DEF TypeInv, TypeOK, RefsOK
  <2>9. \A r \in Resets : reset[r].pc = "apply" =>
          reset[r].token \in DOMAIN tokens' /\ Held(reset[r].token, "password_reset")'
    BY <2>2, <2>6 DEF TypeInv, RefsOK, Held
  <2>10. \A c \in Clicks : click[c].pc = "apply" =>
           click[c].token \in DOMAIN tokens' /\ Held(click[c].token, "verify_email")'
    BY <2>2, <2>6 DEF TypeInv, RefsOK, Held
  <2>11. RefsOK'
    BY <2>6, <2>7, <2>8, <2>9, <2>10 DEF RefsOK
  <2> QED
    BY <2>2, <2>5, <2>6, <2>11 DEF TypeInv, TypeOK
<1>6. ASSUME NEW m \in Mails, Send(m) PROVE TypeInv'
  <2>1. mail[m].token \in DOMAIN tokens
    BY <1>6 DEF Send, TypeInv, RefsOK
  <2>2. Kept
    BY <1>6, <2>1, SendEffect
  <2>3. mail' \in [Mails -> {Idle} \cup Mail] /\ \A n \in Mails : mail'[n] \in {mail[n], Idle}
    BY <1>6 DEF Send, TypeInv, TypeOK
  <2>4. RefsOK'
    BY <1>6, <2>2, <2>3, RefsKept DEF Send, Accounts
  <2> QED
    BY <1>6, <2>2, <2>3, <2>4 DEF Send, Kept, TypeInv, TypeOK
<1>7. ASSUME NEW r \in Resets, ResetApply(r) PROVE TypeInv'
  <2> DEFINE u == tokens[reset[r].token].user
  <2>1. reset[r].token \in DOMAIN tokens /\ u \in Accounts /\ u \in Emails
    BY <1>7 DEF ResetApply, TypeInv, RefsOK, Accounts
  <2>2. Kept
    BY <1>7, <2>1, ResetEffect
  <2>3. Len(tokens) \in Nat /\ users[u] \in User
    BY <2>1, LenProperties DEF Accounts, TypeInv, TypeOK
  <2>4. /\ [users[u] EXCEPT !.fence = Len(tokens)] \in User
        /\ [users[u] EXCEPT !.fence = Len(tokens)] # NoUser
    BY <2>3 DEF User, NoUser
  <2>5. users' = [users EXCEPT ![u] = [users[u] EXCEPT !.fence = Len(tokens)]]
    BY <1>7 DEF ResetApply
  <2>6. users' \in [Emails -> {NoUser} \cup User] /\ Accounts \subseteq Accounts'
    BY <2>1, <2>4, <2>5 DEF Accounts, TypeInv, TypeOK
  <2>7. reset' \in [Resets -> {Idle} \cup Reset] /\ \A q \in Resets : reset'[q] \in {reset[q], Idle}
    BY <1>7 DEF ResetApply, TypeInv, TypeOK
  <2>8. RefsOK'
    BY <1>7, <2>2, <2>6, <2>7, RefsKept DEF ResetApply
  <2> QED
    BY <1>7, <2>2, <2>6, <2>7, <2>8 DEF ResetApply, Kept, TypeInv, TypeOK
<1>8. ASSUME NEW r \in Resets, NEW t \in DOMAIN tokens, ResetLookup(r, t) PROVE TypeInv'
  <2>1. [pc |-> "apply", token |-> t] \in Reset
    BY LenProperties DEF Reset
  <2>2. reset' \in [Resets -> {Idle} \cup Reset]
    BY <1>8, <2>1 DEF ResetLookup, TypeInv, TypeOK
  <2>3. \A q \in Resets : \/ reset'[q] = reset[q]
                          \/ reset'[q].token = t
    BY <1>8 DEF ResetLookup, TypeInv, TypeOK
  <2>4. RefsOK'
    BY <1>8, <1>k, <2>3, RefsKept DEF ResetLookup, Accounts
  <2> QED
    BY <1>8, <2>2, <2>4 DEF ResetLookup, TypeInv, TypeOK
<1>9. ASSUME NEW c \in Clicks, ClickApply(c) PROVE TypeInv'
  <2> DEFINE u == tokens[click[c].token].user
             stamp == Stamp(click[c].verifiedAt)
  <2>1. click[c].token \in DOMAIN tokens /\ u \in Accounts /\ u \in Emails
    BY <1>9 DEF ClickApply, TypeInv, RefsOK, Accounts
  <2>2. Kept
    BY <1>9, <2>1, ClickEffect
  <2>3. click[c] \in Click /\ users[u] \in User
    BY <1>9, <2>1 DEF ClickApply, Idle, Accounts, TypeInv, TypeOK
  <2>4. stamp \in Nat
    BY <2>3 DEF Stamp, Click
  <2>5. /\ [users[u] EXCEPT !.verifiedAt = stamp] \in User
        /\ [users[u] EXCEPT !.verifiedAt = stamp] # NoUser
    BY <2>3, <2>4 DEF User, NoUser
  <2>6. \/ users' = users
        \/ users' = [users EXCEPT ![u] = [users[u] EXCEPT !.verifiedAt = stamp]]
    BY <1>9 DEF ClickApply
  <2>7. users' \in [Emails -> {NoUser} \cup User] /\ Accounts \subseteq Accounts'
    <3> DEFINE new == [users[u] EXCEPT !.verifiedAt = stamp]
    <3>1. new \in User /\ new # NoUser /\ (users' = users \/ users' = [users EXCEPT ![u] = new])
      BY <2>5, <2>6
    <3>2. users \in [Emails -> {NoUser} \cup User]
      BY DEF TypeInv, TypeOK
    <3> HIDE DEF new, u
    <3>3. users' \in [Emails -> {NoUser} \cup User]
      BY <2>1, <3>1, <3>2
    <3>4. \A x \in Emails : users'[x] = users[x] \/ users'[x] = new
      BY <3>1, <3>2
    <3> QED
      BY <3>1, <3>3, <3>4 DEF Accounts
  <2>8. click' \in [Clicks -> {Idle} \cup Click] /\ \A q \in Clicks : click'[q] \in {click[q], Idle}
    BY <1>9 DEF ClickApply, TypeInv, TypeOK
  <2>9. RefsOK'
    BY <1>9, <2>2, <2>7, <2>8, RefsKept DEF ClickApply
  <2> QED
    BY <1>9, <2>2, <2>7, <2>8, <2>9 DEF ClickApply, Kept, TypeInv, TypeOK
<1>10. ASSUME NEW c \in Clicks, NEW t \in DOMAIN tokens, ClickLookup(c, t) PROVE TypeInv'
  <2>1. users[tokens[t].user] \in User
    BY DEF TypeInv, TypeOK, RefsOK, Accounts
  <2>2. [pc |-> "apply", token |-> t, verifiedAt |-> users[tokens[t].user].verifiedAt] \in Click
    BY <2>1, LenProperties DEF Click, User
  <2>3. click' \in [Clicks -> {Idle} \cup Click]
    BY <1>10, <2>2 DEF ClickLookup, TypeInv, TypeOK
  <2>4. \A q \in Clicks : \/ click'[q] = click[q]
                          \/ click'[q].token = t
    BY <1>10 DEF ClickLookup, TypeInv, TypeOK
  <2>5. RefsOK'
    BY <1>10, <1>k, <2>4, RefsKept DEF ClickLookup, Accounts
  <2> QED
    BY <1>10, <2>3, <2>5 DEF ClickLookup, TypeInv, TypeOK
<1>11. CASE Restart
  <2>1. buckets' \in [Kinds -> [Emails -> Seq(Nat)]]
    BY <1>11, EmptySeq DEF Restart
  <2>2. /\ \A m \in Mails : mail'[m] = Idle
        /\ \A r \in Resets : reset'[r] = Idle
        /\ \A c \in Clicks : click'[c] = Idle
    BY <1>11 DEF Restart
  <2>3. RefsOK'
    BY <1>11, <1>k, <2>2, RefsKept DEF Restart, Accounts
  <2> QED
    BY <1>11, <2>1, <2>3 DEF Restart, TypeInv, TypeOK
<1>12. CASE Tick
  BY <1>12 DEF Tick, TypeInv, TypeOK, RefsOK, Accounts, Held
<1>13. CASE UNCHANGED vars
  BY <1>13 DEF vars, TypeInv, TypeOK, RefsOK, Accounts, Held
<1>14. ASSUME NEW m \in Mails, MailFails(m) PROVE TypeInv'
  <2>1. mail' \in [Mails -> {Idle} \cup Mail] /\ \A n \in Mails : mail'[n] \in {mail[n], Idle}
    BY <1>14 DEF MailFails, TypeInv, TypeOK
  <2>2. RefsOK'
    BY <1>14, <1>k, <2>1, RefsKept DEF MailFails, Accounts
  <2> QED
    BY <1>14, <2>1, <2>2 DEF MailFails, TypeInv, TypeOK
<1>15. CASE UseFails
  <2>1. reset' \in [Resets -> {Idle} \cup Reset] /\ \A r \in Resets : reset'[r] \in {reset[r], Idle}
    BY <1>15 DEF UseFails, TypeInv, TypeOK
  <2>2. click' \in [Clicks -> {Idle} \cup Click] /\ \A c \in Clicks : click'[c] \in {click[c], Idle}
    BY <1>15 DEF UseFails, TypeInv, TypeOK
  <2>3. RefsOK'
    BY <1>15, <1>k, <2>1, <2>2, RefsKept DEF UseFails, Accounts
  <2> QED
    BY <1>15, <2>1, <2>2, <2>3 DEF UseFails, TypeInv, TypeOK
<1> QED
  BY <1>1, <1>2, <1>3, <1>4, <1>5, <1>6, <1>7, <1>8, <1>9, <1>10, <1>11, <1>12, <1>13,
     <1>14, <1>15 DEF Next

\* Every row, handler and limiter has its type, whatever the interleaving.
THEOREM TypeCorrect == Spec => []TypeOK
<1>1. TypeInv => TypeOK
  BY DEF TypeInv
<1> QED
  BY <1>1, TypeInit, TypeNext, PTL DEF Spec

LEMMA TypeHolds == Spec => []TypeInv
<1> QED
  BY TypeInit, TypeNext, PTL DEF Spec

(***************************************************************************)
(* The links that die with a reset                                         *)
(*                                                                         *)
(* That such a link is not usable does not carry over a step by itself: it *)
(* must be known to be consumed, since a link that had only expired could  *)
(* not be told from one the reset never saw.                               *)
(***************************************************************************)

FencesOK ==
  /\ \A u \in Accounts : users[u].fence <= Len(tokens)
  /\ \A t \in DOMAIN tokens :
       tokens[t].kind = "password_reset" /\ t <= users[tokens[t].user].fence
         => tokens[t].consumed

\* No step takes back what a link says.
LEMMA LinksLater ==
  TypeInv /\ [Next]_vars =>
    \A t \in DOMAIN tokens : t \in DOMAIN tokens' /\ Later(tokens[t], tokens'[t])
<1> SUFFICES ASSUME TypeInv, [Next]_vars
             PROVE  \A t \in DOMAIN tokens : t \in DOMAIN tokens' /\ Later(tokens[t], tokens'[t])
  OBVIOUS
<1> tokens \in Seq(Token) /\ now \in Nat
  BY DEF TypeInv, TypeOK
<1>1. CASE Kept
  BY <1>1 DEF Kept
<1>2. ASSUME NEW m \in Mails, Create(m)
      PROVE  \A t \in DOMAIN tokens : t \in DOMAIN tokens' /\ Later(tokens[t], tokens'[t])
  <2>1. mail[m] \in Mail
    BY <1>2 DEF Create, TypeInv, TypeOK, Idle
  <2>2. \A t \in DOMAIN tokens : t \in DOMAIN tokens' /\ tokens'[t] = tokens[t]
    BY <1>2, <2>1, CreateEffect
  <2> QED
    BY <2>2 DEF Later
<1>3. ASSUME NEW m \in Mails, Invalidate(m) \/ Send(m) PROVE Kept
  <2>1. Send(m) => mail[m].token \in DOMAIN tokens
    BY DEF Send, TypeInv, RefsOK
  <2> QED
    BY <1>3, <2>1, InvalidateEffect, SendEffect
<1>4. ASSUME NEW r \in Resets, ResetApply(r) PROVE Kept
  <2>1. reset[r].token \in DOMAIN tokens
    BY <1>4 DEF ResetApply, TypeInv, RefsOK
  <2> QED
    BY <1>4, <2>1, ResetEffect
<1>5. ASSUME NEW c \in Clicks, ClickApply(c) PROVE Kept
  <2>1. click[c].token \in DOMAIN tokens
    BY <1>5 DEF ClickApply, TypeInv, RefsOK
  <2> QED
    BY <1>5, <2>1, ClickEffect
<1>6. CASE UNCHANGED tokens
  BY <1>1, <1>6, Unchanged
<1> QED
  BY <1>1, <1>2, <1>3, <1>4, <1>5, <1>6
     DEF Next, MailFails, UseFails, Setup, Ask, ResetLookup, ClickLookup, Login, Restart, Tick, vars

DeadForGood == \A t \in DOMAIN tokens : ~Usable(t) => ~Usable(t)'

\* A link that was used, replaced or has expired is never usable again, whatever the
\* handlers that still hold it do: no statement clears consumedAt or moves expiresAt,
\* and no step sets the clock back.
THEOREM DeadLinksStayDead == Spec => [][DeadForGood]_vars
<1>1. TypeInv /\ [Next]_vars => DeadForGood
  <2> SUFFICES ASSUME TypeInv, [Next]_vars, NEW t \in DOMAIN tokens, Usable(t)'
               PROVE  Usable(t)
    BY DEF DeadForGood
  <2>1. Later(tokens[t], tokens'[t])
    BY LinksLater
  <2>2. tokens[t].expiresAt \in Nat
    <3>1. tokens[t] \in Token
      BY ElementOfSeq, LenProperties DEF TypeInv, TypeOK
    <3> QED
      BY <3>1 DEF Token
  <2>3. now \in Nat /\ (now' = now \/ now' = now + 1)
    BY DEF Next, Setup, Ask, Invalidate, Create, Send, MailFails, UseFails, ResetLookup, ResetApply,
           ClickLookup, ClickApply, Login, Restart, Tick, TypeInv, TypeOK, vars
  <2>4. ~tokens[t].consumed
    BY <2>1 DEF Usable, Later
  <2>5. tokens[t].expiresAt > now
    BY <2>1, <2>2, <2>3 DEF Usable, Later
  <2> QED
    BY <2>4, <2>5 DEF Usable
<1> QED
  BY <1>1, TypeInit, TypeNext, PTL DEF Spec

\* The fences as they were, or those of accounts that have just been created.
LEMMA FencesKept ==
  ASSUME TypeInv, TypeInv', FencesOK, Kept,
         \A u \in Accounts : users'[u].fence = users[u].fence,
         \A u \in Accounts' \ Accounts : users'[u].fence = 0
  PROVE  FencesOK'
<1>1. Len(tokens) \in Nat /\ Len(tokens') = Len(tokens)
  BY LenProperties DEF Kept, TypeInv, TypeOK
<1>2. \A u \in Accounts' : users'[u].fence <= Len(tokens')
  BY <1>1 DEF FencesOK
<1>3. ASSUME NEW t \in DOMAIN tokens', tokens'[t].kind = "password_reset",
             t <= users'[tokens'[t].user].fence
      PROVE  tokens'[t].consumed
  <2>1. t \in DOMAIN tokens /\ Later(tokens[t], tokens'[t])
    BY DEF Kept
  <2>2. tokens[t].user \in Accounts
    BY <2>1 DEF TypeInv, RefsOK
  <2>3. tokens[t].kind = "password_reset" /\ t <= users[tokens[t].user].fence
    BY <1>3, <2>1, <2>2 DEF Later
  <2> QED
    BY <2>1, <2>3 DEF FencesOK, Later
<1> QED
  BY <1>2, <1>3 DEF FencesOK

LEMMA FencesNext == TypeInv /\ TypeInv' /\ FencesOK /\ [Next]_vars => FencesOK'
<1> SUFFICES ASSUME TypeInv, TypeInv', FencesOK, [Next]_vars PROVE FencesOK'
  OBVIOUS
<1> tokens \in Seq(Token) /\ now \in Nat
  BY DEF TypeInv, TypeOK
<1>k. tokens' = tokens => Kept
  BY Unchanged
<1>u. Kept /\ users' = users => FencesOK'
  BY FencesKept DEF Accounts
<1>1. ASSUME NEW m \in Mails, NEW e \in Emails, Setup(m, e) PROVE FencesOK'
  <2>1. \A u \in Accounts : users'[u].fence = users[u].fence
    BY <1>1 DEF Setup, Accounts, TypeInv, TypeOK
  <2>2. \A u \in Accounts' \ Accounts : users'[u].fence = 0
    BY <1>1 DEF Setup, Accounts, TypeInv, TypeOK
  <2> QED
    BY <1>1, <1>k, <2>1, <2>2, FencesKept DEF Setup
<1>2. ASSUME NEW m \in Mails, Invalidate(m) PROVE FencesOK'
  BY <1>2, <1>u, InvalidateEffect DEF Invalidate
<1>3. ASSUME NEW m \in Mails, Create(m) PROVE FencesOK'
  <2>1. mail[m] \in Mail
    BY <1>3 DEF Create, TypeInv, TypeOK, Idle
  <2>2. /\ Len(tokens) \in Nat /\ Len(tokens') = Len(tokens) + 1
        /\ DOMAIN tokens = 1 .. Len(tokens) /\ DOMAIN tokens' = 1 .. Len(tokens) + 1
        /\ \A t \in DOMAIN tokens : tokens'[t] = tokens[t]
    BY <1>3, <2>1, CreateEffect
  <2>3. users' = users /\ Accounts' = Accounts
    BY <1>3 DEF Create, Accounts
  <2>4. \A u \in Accounts : users[u].fence \in Nat
    BY DEF Accounts, TypeInv, TypeOK, User
  <2>5. \A u \in Accounts' : users'[u].fence <= Len(tokens')
    BY <2>2, <2>3, <2>4 DEF FencesOK
  <2>6. ASSUME NEW t \in DOMAIN tokens', tokens'[t].kind = "password_reset",
               t <= users'[tokens'[t].user].fence
        PROVE  tokens'[t].consumed
    <3>1. tokens'[t].user \in Accounts
      BY <2>3 DEF TypeInv, RefsOK
    <3>2. t <= Len(tokens)
      BY <2>2, <2>3, <2>4, <2>6, <3>1 DEF FencesOK
    <3>3. t \in DOMAIN tokens /\ tokens'[t] = tokens[t]
      BY <2>2, <3>2
    <3> QED
      BY <2>3, <2>6, <3>3 DEF FencesOK
  <2> QED
    BY <2>5, <2>6 DEF FencesOK
<1>4. ASSUME NEW m \in Mails, Send(m) PROVE FencesOK'
  <2>1. mail[m].token \in DOMAIN tokens
    BY <1>4 DEF Send, TypeInv, RefsOK
  <2> QED
    BY <1>4, <1>u, <2>1, SendEffect DEF Send
<1>5. ASSUME NEW r \in Resets, ResetApply(r) PROVE FencesOK'
  <2> DEFINE v == tokens[reset[r].token].user
  <2>1. reset[r].token \in DOMAIN tokens /\ v \in Accounts /\ v \in Emails
    BY <1>5 DEF ResetApply, TypeInv, RefsOK, Accounts
  <2>2. /\ Kept
        /\ \A x \in DOMAIN tokens : tokens'[x].consumed =
             (tokens[x].consumed \/ x \in Outstanding(v, "password_reset"))
    BY <1>5, <2>1, ResetEffect
  <2>3. users' = [users EXCEPT ![v].fence = Len(tokens)]
    BY <1>5 DEF ResetApply
  <2>4. Len(tokens) \in Nat /\ Len(tokens') = Len(tokens) /\ users[v] \in User
    BY <2>1, <2>2, LenProperties DEF Kept, Accounts, TypeInv, TypeOK
  <2>5. /\ users'[v].fence = Len(tokens)
        /\ \A u \in Emails \ {v} : users'[u] = users[u]
    BY <2>1, <2>3, <2>4 DEF User, TypeInv, TypeOK
  <2>6. Accounts' \subseteq Accounts
    BY <2>1, <2>5 DEF Accounts
  <2>7. \A u \in Accounts' : users'[u].fence <= Len(tokens')
    BY <2>4, <2>5, <2>6 DEF FencesOK, Accounts
  <2>8. ASSUME NEW t \in DOMAIN tokens', tokens'[t].kind = "password_reset",
               t <= users'[tokens'[t].user].fence
        PROVE  tokens'[t].consumed
    <3>1. t \in DOMAIN tokens /\ Later(tokens[t], tokens'[t])
      BY <2>2 DEF Kept
    <3>2. CASE tokens[t].user = v
      BY <2>2, <2>8, <3>1, <3>2 DEF Later, Outstanding
    <3>3. CASE tokens[t].user # v
      <4>1. tokens[t].user \in Emails
        BY <3>1 DEF TypeInv, RefsOK, Accounts
      <4>2. t <= users[tokens[t].user].fence /\ tokens[t].kind = "password_reset"
        BY <2>5, <2>8, <3>1, <3>3, <4>1 DEF Later
      <4> QED
        BY <3>1, <4>2 DEF FencesOK, Later
    <3> QED
      BY <3>2, <3>3
  <2> QED
    BY <2>7, <2>8 DEF FencesOK
<1>6. ASSUME NEW c \in Clicks, ClickApply(c) PROVE FencesOK'
  <2> DEFINE v == tokens[click[c].token].user
  <2>1. click[c].token \in DOMAIN tokens /\ v \in Accounts /\ v \in Emails
    BY <1>6 DEF ClickApply, TypeInv, RefsOK, Accounts
  <2>2. Kept
    BY <1>6, <2>1, ClickEffect
  <2>3. users[v] \in User
    BY <2>1 DEF Accounts, TypeInv, TypeOK
  <2>4. \/ users' = users
        \/ users' = [users EXCEPT ![v].verifiedAt = Stamp(click[c].verifiedAt)]
    BY <1>6 DEF ClickApply
  <2>5. \A u \in Accounts : users'[u].fence = users[u].fence
    <3> DEFINE new == [users[v] EXCEPT !.verifiedAt = Stamp(click[c].verifiedAt)]
    <3>1. new.fence = users[v].fence
      BY <2>3 DEF User
    <3>2. users' = users \/ users' = [users EXCEPT ![v] = new]
      BY <2>4
    <3> QED
      BY <3>1, <3>2 DEF Accounts, TypeInv, TypeOK
  <2>6. Accounts' \subseteq Accounts
    BY <2>1, <2>4 DEF Accounts, TypeInv, TypeOK
  <2> QED
    BY <2>2, <2>5, <2>6, FencesKept
<1>7. CASE UNCHANGED <<users, tokens>>
  BY <1>7, <1>k, <1>u
<1> QED
  BY <1>1, <1>2, <1>3, <1>4, <1>5, <1>6, <1>7
     DEF Next, MailFails, UseFails, Login, Ask, ResetLookup, ClickLookup, Restart, Tick, vars

\* After POST /api/auth/password/reset none of the reset links that existed is
\* usable, not even one created before and delivered after it.
THEOREM LinksDie == Spec => []LinksDieWithReset
<1>1. Init => FencesOK
  <2>1. Init => DOMAIN tokens = {} /\ Accounts = {}
    BY EmptySeq DEF Init, Accounts
  <2> QED
    BY <2>1 DEF FencesOK
<1>2. FencesOK => LinksDieWithReset
  BY DEF FencesOK, LinksDieWithReset, Usable
<1> QED
  BY <1>1, <1>2, TypeHolds, FencesNext, PTL DEF Spec

(***************************************************************************)
(* AccountTokens implements AccountPromise                                 *)
(***************************************************************************)

\* The mapped state a step leaves as it is.
LEMMA Stutter ==
  ASSUME Mailed' = Mailed, UNCHANGED <<users, logins>>
  PROVE  UNCHANGED Promise!vars
BY DEF Promise!vars, Accounts, Verified, Changed

\* Steps that deliver nothing leave the mapped set of deliveries as it is.
LEMMA MailedKept ==
  ASSUME Kept, \A t \in DOMAIN tokens : tokens'[t].delivered = tokens[t].delivered
  PROVE  Mailed' = Mailed
BY DEF Kept, Later, Mailed

LEMMA PromiseInit == Init => Promise!Init
<1> SUFFICES ASSUME Init PROVE Promise!Init
  OBVIOUS
<1>1. DOMAIN tokens = {}
  BY EmptySeq DEF Init
<1>2. Accounts = {} /\ logins = {}
  BY DEF Init, Accounts
<1>3. Mailed = {} /\ Verified = {} /\ Changed = {}
  BY <1>1, <1>2 DEF Mailed, Verified, Changed
<1> QED
  BY <1>2, <1>3 DEF Promise!Init

LEMMA PromiseNext == TypeInv /\ [Next]_vars => [Promise!Next]_(Promise!vars)
<1> SUFFICES ASSUME TypeInv, [Next]_vars
             PROVE  Promise!Next \/ UNCHANGED Promise!vars
  OBVIOUS
<1> tokens \in Seq(Token) /\ now \in Nat /\ now > 0
  BY DEF TypeInv, TypeOK
<1>t. \A t \in DOMAIN tokens : tokens[t] \in Token
  BY ElementOfSeq, LenProperties
<1>k. tokens' = tokens => Mailed' = Mailed
  BY DEF Mailed
<1>1. ASSUME NEW m \in Mails, NEW e \in Emails, Setup(m, e) PROVE Promise!Next
  <2> DEFINE new == [verifiedAt |-> 0, fence |-> 0]
  <2>1. new # NoUser /\ new.verifiedAt = 0 /\ new.fence = 0
    BY DEF NoUser
  <2>2. e \notin Accounts /\ users' = [users EXCEPT ![e] = new] /\ tokens' = tokens
    BY <1>1 DEF Setup
  <2>l. logins' \in {logins, logins \cup {<<e, "registration">>}}
    BY <1>1 DEF Setup
  <2> HIDE DEF new
  <2>3. Accounts' = Accounts \cup {e}
    BY <2>1, <2>2 DEF Accounts, TypeInv, TypeOK
  <2>4. Verified' = Verified
    BY <2>1, <2>2, <2>3 DEF Accounts, Verified, TypeInv, TypeOK
  <2>5. Changed' = Changed
    BY <2>1, <2>2, <2>3 DEF Accounts, Changed, TypeInv, TypeOK
  <2>6. Promise!Register(e)
    BY <1>k, <2>2, <2>l, <2>3, <2>4, <2>5 DEF Promise!Register
  <2> QED
    BY <2>6 DEF Promise!Next
<1>2. ASSUME NEW e \in Emails, Login(e) PROVE Promise!Next
  <2>1. UNCHANGED <<users, tokens>> /\ logins' = logins \cup {<<e, "password">>} /\ e \in Accounts
        /\ (Required => e \in Verified)
    BY <1>2 DEF Login, MayLogIn, Verified
  <2>2. UNCHANGED <<Accounts, Mailed, Verified, Changed>>
    BY <1>k, <2>1 DEF Accounts, Verified, Changed
  <2>3. Promise!Login(e)
    BY <2>1, <2>2 DEF Promise!Login
  <2> QED
    BY <2>3 DEF Promise!Next
<1>3. ASSUME NEW m \in Mails, Invalidate(m) PROVE UNCHANGED Promise!vars
  BY <1>3, InvalidateEffect, MailedKept, Stutter DEF Invalidate
<1>4. ASSUME NEW m \in Mails, Create(m) PROVE UNCHANGED Promise!vars
  <2>1. mail[m] \in Mail
    BY <1>4 DEF Create, TypeInv, TypeOK, Idle
  <2>2. /\ Len(tokens) \in Nat
        /\ DOMAIN tokens = 1 .. Len(tokens) /\ DOMAIN tokens' = 1 .. Len(tokens) + 1
        /\ \A t \in DOMAIN tokens : tokens'[t] = tokens[t]
        /\ tokens'[Len(tokens) + 1] = NewToken(mail[m])
    BY <1>4, <2>1, CreateEffect
  <2>3. ~tokens'[Len(tokens) + 1].delivered
    BY <2>2 DEF NewToken
  <2>4. \A t \in DOMAIN tokens' : \/ t \in DOMAIN tokens /\ tokens'[t] = tokens[t]
                                  \/ ~tokens'[t].delivered
    BY <2>2, <2>3
  <2>5. DOMAIN tokens \subseteq DOMAIN tokens'
    BY <2>2
  <2>6. Mailed' = Mailed
    BY <2>2, <2>4, <2>5 DEF Mailed
  <2> QED
    BY <1>4, <2>6, Stutter DEF Create
<1>5. ASSUME NEW m \in Mails, Send(m) PROVE Promise!Next \/ UNCHANGED Promise!vars
  <2> DEFINE o == mail[m].token
             u == tokens[o].user
             k == tokens[o].kind
  <2>1. o \in DOMAIN tokens /\ u \in Accounts /\ u \in Emails /\ k \in Kinds
    BY <1>5, <1>t DEF Send, TypeInv, RefsOK, Accounts, Token
  <2>2. Kept /\ \A t \in DOMAIN tokens \ {o} : tokens'[t] = tokens[t]
    BY <1>5, <2>1, SendEffect
  <2>3. UNCHANGED <<users, logins, Accounts, Verified, Changed>>
    BY <1>5 DEF Send, Accounts, Verified, Changed
  <2>4. CASE tokens'[o].delivered = tokens[o].delivered
    <3>1. \A t \in DOMAIN tokens : tokens'[t].delivered = tokens[t].delivered
      BY <2>2, <2>4
    <3> QED
      BY <2>2, <2>3, <3>1, MailedKept, Stutter
  <2>5. CASE tokens'[o].delivered # tokens[o].delivered
    <3>1. tokens'[o].delivered
      <4>1. tokens'[o] \in Token /\ tokens[o] \in Token
        BY <1>t, <2>1, <2>2, ElementOfSeq, LenProperties DEF Kept
      <4> QED
        BY <2>1, <2>2, <2>5, <4>1 DEF Kept, Later, Token
    <3>2. Mailed' = Mailed \cup {<<u, k>>}
      <4>1. \A t \in DOMAIN tokens : /\ tokens'[t].user = tokens[t].user
                                     /\ tokens'[t].kind = tokens[t].kind
                                     /\ tokens[t].delivered => tokens'[t].delivered
        BY <2>2 DEF Kept, Later
      <4>2. DOMAIN tokens' = DOMAIN tokens
        BY <2>2 DEF Kept
      <4> QED
        BY <2>1, <2>2, <3>1, <4>1, <4>2 DEF Mailed
    <3>3. Promise!Deliver(u, k)
      BY <2>1, <2>3, <3>2 DEF Promise!Deliver
    <3> QED
      BY <2>1, <3>3 DEF Promise!Next, Promise!Kinds, Kinds
  <2> QED
    BY <2>4, <2>5
<1>6. ASSUME NEW r \in Resets, ResetApply(r) PROVE Promise!Next
  <2> DEFINE t == reset[r].token
             v == tokens[t].user
  <2>1. t \in DOMAIN tokens /\ v \in Accounts /\ v \in Emails /\ Held(t, "password_reset")
    BY <1>6 DEF ResetApply, TypeInv, RefsOK, Accounts
  <2>2. Mailed' = Mailed
    BY <1>6, <2>1, ResetEffect, MailedKept
  <2>3. <<v, "password_reset">> \in Mailed
    BY <2>1 DEF Held, Mailed
  <2>4. Len(tokens) \in Nat /\ Len(tokens) > 0
    BY <2>1, LenProperties
  <2>5. users[v] \in User
    BY <2>1 DEF Accounts, TypeInv, TypeOK
  <2> DEFINE new == [users[v] EXCEPT !.fence = Len(tokens)]
  <2>6. /\ new # NoUser /\ new.fence = Len(tokens)
        /\ new.verifiedAt = users[v].verifiedAt
    BY <2>5 DEF User, NoUser
  <2>7. users' = [users EXCEPT ![v] = new] /\ logins' = logins
    BY <1>6 DEF ResetApply
  <2> HIDE DEF new
  <2>8. Accounts' = Accounts
    BY <2>1, <2>6, <2>7 DEF Accounts, TypeInv, TypeOK
  <2>9. Verified' = Verified
    BY <2>6, <2>7, <2>8 DEF Accounts, Verified, TypeInv, TypeOK
  <2>10. Changed' = Changed \cup {v}
    BY <2>1, <2>4, <2>6, <2>7, <2>8 DEF Accounts, Changed, TypeInv, TypeOK
  <2>11. Promise!Reset(v)
    BY <2>2, <2>3, <2>7, <2>8, <2>9, <2>10 DEF Promise!Reset
  <2> QED
    BY <2>1, <2>11 DEF Promise!Next
<1>7. ASSUME NEW c \in Clicks, ClickApply(c) PROVE Promise!Next \/ UNCHANGED Promise!vars
  <2> DEFINE t == click[c].token
             v == tokens[t].user
             stamp == Stamp(click[c].verifiedAt)
  <2>1. t \in DOMAIN tokens /\ v \in Accounts /\ v \in Emails /\ Held(t, "verify_email")
    BY <1>7 DEF ClickApply, TypeInv, RefsOK, Accounts
  <2>2. Mailed' = Mailed
    BY <1>7, <2>1, ClickEffect, MailedKept
  <2>3. CASE users' = users
    BY <1>7, <2>2, <2>3, Stutter DEF ClickApply
  <2>4. CASE stamp # click[c].verifiedAt
    <3>1. <<v, "verify_email">> \in Mailed
      BY <2>1 DEF Held, Mailed
    <3>2. stamp > 0 /\ stamp \in Nat
      BY <2>4 DEF Stamp
    <3>3. users[v] \in User
      BY <2>1 DEF Accounts, TypeInv, TypeOK
    <3> DEFINE new == [users[v] EXCEPT !.verifiedAt = stamp]
    <3>4. new # NoUser /\ new.verifiedAt # 0 /\ new.fence = users[v].fence
      BY <3>2, <3>3 DEF User, NoUser
    <3>5. users' = [users EXCEPT ![v] = new] /\ logins' = logins
      BY <1>7, <2>4 DEF ClickApply
    <3> HIDE DEF new
    <3>6. Accounts' = Accounts
      BY <2>1, <3>4, <3>5 DEF Accounts, TypeInv, TypeOK
    <3>7. Verified' = Verified \cup {v}
      BY <2>1, <3>4, <3>5, <3>6 DEF Accounts, Verified, TypeInv, TypeOK
    <3>8. Changed' = Changed
      BY <3>4, <3>5, <3>6 DEF Accounts, Changed, TypeInv, TypeOK
    <3>9. Promise!Verify(v)
      BY <2>2, <3>1, <3>5, <3>6, <3>7, <3>8 DEF Promise!Verify
    <3> QED
      BY <2>1, <3>9 DEF Promise!Next
  <2> QED
    BY <1>7, <2>3, <2>4 DEF ClickApply
<1>8. CASE UNCHANGED <<users, tokens, logins>>
  BY <1>8, <1>k, Stutter
<1> QED
  BY <1>1, <1>2, <1>3, <1>4, <1>5, <1>6, <1>7, <1>8
     DEF Next, MailFails, UseFails, Ask, ResetLookup, ClickLookup, Restart, Tick, vars

\* Whatever handlers interleave or fail, an address counts as verified, and a
\* password is changed, only through a delivered link of that kind for that very
\* account; and when verification is required only verified accounts log in, the
\* session that the registration itself opens apart.
THEOREM KeepsPromise == Spec => PromiseKept
<1> QED
  BY PromiseInit, PromiseNext, TypeHolds, PTL DEF Spec, PromiseKept, Promise!Spec

(***************************************************************************)
(* How often a link has its effect                                         *)
(*                                                                         *)
(* Every effect of a link was the right of a handler that had looked it up *)
(* before the first effect consumed it.  So the effects so far and the     *)
(* handlers that still hold the link share the slots of its kind.          *)
(***************************************************************************)

Resetting(t) == {r \in Resets : reset[r].pc = "apply" /\ reset[r].token = t}
Clicking(t) == {c \in Clicks : click[c].pc = "apply" /\ click[c].token = t}

UsesOK ==
  \A t \in DOMAIN tokens :
    /\ tokens[t].consumed \/ tokens[t].uses = 0
    /\ tokens[t].kind = "password_reset" =>
         tokens[t].uses + Cardinality(Resetting(t)) <= Cardinality(Resets)
    /\ tokens[t].kind = "verify_email" =>
         tokens[t].uses + Cardinality(Clicking(t)) <= Cardinality(Clicks)

LEMMA Holders ==
  ASSUME NEW t
  PROVE  /\ IsFiniteSet(Resetting(t)) /\ Cardinality(Resetting(t)) \in Nat
         /\ Cardinality(Resets) \in Nat /\ Cardinality(Resetting(t)) <= Cardinality(Resets)
         /\ IsFiniteSet(Clicking(t)) /\ Cardinality(Clicking(t)) \in Nat
         /\ Cardinality(Clicks) \in Nat /\ Cardinality(Clicking(t)) <= Cardinality(Clicks)
<1>1. Resetting(t) \subseteq Resets /\ Clicking(t) \subseteq Clicks
  BY DEF Resetting, Clicking
<1> QED
  BY <1>1, AccountAssumption, FS_Subset, FS_CardinalityType

\* The same effects, and no new holder.
LEMMA UsesKept ==
  ASSUME TypeInv, UsesOK, Kept,
         \A t \in DOMAIN tokens : tokens'[t].uses = tokens[t].uses,
         \A t \in DOMAIN tokens :
           Resetting(t)' \subseteq Resetting(t) /\ Clicking(t)' \subseteq Clicking(t)
  PROVE  UsesOK'
<1> SUFFICES ASSUME NEW t \in DOMAIN tokens'
             PROVE  /\ tokens'[t].consumed \/ tokens'[t].uses = 0
                    /\ tokens'[t].kind = "password_reset" =>
                         tokens'[t].uses + Cardinality(Resetting(t)') <= Cardinality(Resets)
                    /\ tokens'[t].kind = "verify_email" =>
                         tokens'[t].uses + Cardinality(Clicking(t)') <= Cardinality(Clicks)
  BY DEF UsesOK
<1>1. t \in DOMAIN tokens /\ Later(tokens[t], tokens'[t]) /\ tokens'[t].uses = tokens[t].uses
  BY DEF Kept
<1>2. tokens[t].uses \in Nat
  <2>1. tokens[t] \in Token
    BY <1>1, ElementOfSeq, LenProperties DEF TypeInv, TypeOK
  <2> QED
    BY <2>1 DEF Token
<1>3. /\ Cardinality(Resetting(t)') \in Nat /\ Cardinality(Clicking(t)') \in Nat
      /\ Cardinality(Resetting(t)') <= Cardinality(Resetting(t))
      /\ Cardinality(Clicking(t)') <= Cardinality(Clicking(t))
  BY <1>1, Holders, FS_Subset, FS_CardinalityType
<1> QED
  BY <1>1, <1>2, <1>3, Holders DEF UsesOK, Later

LEMMA UsesNext == TypeInv /\ UsesOK /\ [Next]_vars => UsesOK'
<1> SUFFICES ASSUME TypeInv, UsesOK, [Next]_vars PROVE UsesOK'
  OBVIOUS
<1> tokens \in Seq(Token) /\ now \in Nat
  BY DEF TypeInv, TypeOK
<1>t. \A t \in DOMAIN tokens : tokens[t] \in Token /\ tokens[t].uses \in Nat
  <2>1. \A t \in DOMAIN tokens : tokens[t] \in Token
    BY ElementOfSeq, LenProperties
  <2> QED
    BY <2>1 DEF Token
<1>k. tokens' = tokens => Kept
  BY Unchanged
<1>h. \A t : (UNCHANGED <<reset, click>> => Resetting(t)' = Resetting(t) /\ Clicking(t)' = Clicking(t))
  BY DEF Resetting, Clicking
<1>1. ASSUME NEW m \in Mails, Invalidate(m) PROVE UsesOK'
  BY <1>1, <1>h, InvalidateEffect, UsesKept DEF Invalidate
<1>2. ASSUME NEW m \in Mails, Send(m) PROVE UsesOK'
  <2>1. mail[m].token \in DOMAIN tokens
    BY <1>2 DEF Send, TypeInv, RefsOK
  <2> QED
    BY <1>2, <1>h, <2>1, SendEffect, UsesKept DEF Send
<1>3. ASSUME NEW m \in Mails, Create(m) PROVE UsesOK'
  <2>1. mail[m] \in Mail
    BY <1>3 DEF Create, TypeInv, TypeOK, Idle
  <2>2. /\ DOMAIN tokens' = 1 .. Len(tokens) + 1 /\ DOMAIN tokens = 1 .. Len(tokens)
        /\ Len(tokens) \in Nat
        /\ \A t \in DOMAIN tokens : tokens'[t] = tokens[t]
        /\ tokens'[Len(tokens) + 1] = NewToken(mail[m])
    BY <1>3, <2>1, CreateEffect
  <2>3. tokens'[Len(tokens) + 1].uses = 0
    BY <2>2 DEF NewToken
  <2>4. \A t : Resetting(t)' = Resetting(t) /\ Clicking(t)' = Clicking(t)
    BY <1>3, <1>h DEF Create
  <2>5. \A t \in DOMAIN tokens' : \/ t \in DOMAIN tokens /\ tokens'[t] = tokens[t]
                                  \/ tokens'[t].uses = 0
    BY <2>2, <2>3
  <2> QED
    BY <2>4, <2>5, Holders DEF UsesOK
<1>4. ASSUME NEW r \in Resets, NEW t \in DOMAIN tokens, ResetLookup(r, t) PROVE UsesOK'
  <2>1. tokens[t].uses = 0 /\ tokens' = tokens /\ tokens[t].kind = "password_reset"
    BY <1>4 DEF ResetLookup, Usable, Held, UsesOK
  <2>2. \A x \in DOMAIN tokens \ {t} : Resetting(x)' = Resetting(x)
    BY <1>4 DEF ResetLookup, Resetting, Idle, TypeInv, TypeOK
  <2>3. \A x : Clicking(x)' = Clicking(x)
    BY <1>4 DEF ResetLookup, Clicking
  <2>4. Resetting(t)' \subseteq Resets
    BY DEF Resetting
  <2>5. Cardinality(Resetting(t)') \in Nat /\ Cardinality(Resetting(t)') <= Cardinality(Resets)
    BY <2>4, AccountAssumption, FS_Subset, FS_CardinalityType
  <2> QED
    BY <2>1, <2>2, <2>3, <2>5 DEF UsesOK
<1>5. ASSUME NEW c \in Clicks, NEW t \in DOMAIN tokens, ClickLookup(c, t) PROVE UsesOK'
  <2>1. tokens[t].uses = 0 /\ tokens' = tokens /\ tokens[t].kind = "verify_email"
    BY <1>5 DEF ClickLookup, Usable, Held, UsesOK
  <2>2. \A x \in DOMAIN tokens \ {t} : Clicking(x)' = Clicking(x)
    BY <1>5 DEF ClickLookup, Clicking, Idle, TypeInv, TypeOK
  <2>3. \A x : Resetting(x)' = Resetting(x)
    BY <1>5 DEF ClickLookup, Resetting
  <2>4. Clicking(t)' \subseteq Clicks
    BY DEF Clicking
  <2>5. Cardinality(Clicking(t)') \in Nat /\ Cardinality(Clicking(t)') <= Cardinality(Clicks)
    BY <2>4, AccountAssumption, FS_Subset, FS_CardinalityType
  <2> QED
    BY <2>1, <2>2, <2>3, <2>5 DEF UsesOK
<1>6. ASSUME NEW r \in Resets, ResetApply(r) PROVE UsesOK'
  <2>1. PICK t \in DOMAIN tokens :
          t = reset[r].token /\ tokens[t].kind = "password_reset" /\ r \in Resetting(t)
    BY <1>6 DEF ResetApply, TypeInv, RefsOK, Held, Resetting
  <2>2. /\ Kept
        /\ \A x \in DOMAIN tokens :
             /\ tokens'[x].consumed =
                  (tokens[x].consumed \/ x \in Outstanding(tokens[t].user, "password_reset"))
             /\ tokens'[x].uses = IF x = t THEN tokens[x].uses + 1 ELSE tokens[x].uses
    BY <1>6, <2>1, ResetEffect
  <2>3. tokens'[t].consumed
    BY <2>1, <2>2 DEF Outstanding
  <2>4. /\ \A x \in DOMAIN tokens \ {t} : Resetting(x)' = Resetting(x)
        /\ Resetting(t)' = Resetting(t) \ {r}
        /\ \A x : Clicking(x)' = Clicking(x)
    BY <1>6, <2>1 DEF ResetApply, Resetting, Clicking, Idle, TypeInv, TypeOK
  <2>5. /\ Cardinality(Resetting(t)') = Cardinality(Resetting(t)) - 1
        /\ Cardinality(Resetting(t)) \in Nat
    <3>1. IsFiniteSet(Resetting(t)) /\ Cardinality(Resetting(t)) \in Nat
      BY Holders
    <3>2. Cardinality(Resetting(t) \ {r}) = Cardinality(Resetting(t)) - 1
      BY <2>1, <3>1, FS_RemoveElement
    <3> QED
      BY <2>4, <3>1, <3>2
  <2>6. DOMAIN tokens' = DOMAIN tokens /\ \A x \in DOMAIN tokens : Later(tokens[x], tokens'[x])
    BY <2>2 DEF Kept
  <2>7. tokens'[t].uses + Cardinality(Resetting(t)') <= Cardinality(Resets)
    <3>1. tokens[t].uses \in Nat /\ tokens'[t].uses = tokens[t].uses + 1
      BY <1>t, <2>2
    <3>2. tokens[t].uses + Cardinality(Resetting(t)) <= Cardinality(Resets)
      BY <2>1 DEF UsesOK
    <3>3. Cardinality(Resets) \in Nat
      BY Holders
    <3> QED
      BY <2>5, <3>1, <3>2, <3>3
  <2>8. \A x \in DOMAIN tokens \ {t} : tokens'[x].uses = tokens[x].uses
    BY <2>2
  <2>9. ASSUME NEW x \in DOMAIN tokens', x # t
        PROVE  /\ tokens'[x].consumed \/ tokens'[x].uses = 0
               /\ tokens'[x].kind = "password_reset" =>
                    tokens'[x].uses + Cardinality(Resetting(x)') <= Cardinality(Resets)
               /\ tokens'[x].kind = "verify_email" =>
                    tokens'[x].uses + Cardinality(Clicking(x)') <= Cardinality(Clicks)
    BY <2>4, <2>6, <2>8, <2>9 DEF UsesOK, Later
  <2>10. tokens'[t].kind = tokens[t].kind /\ "password_reset" # "verify_email"
    BY <2>6 DEF Later
  <2> QED
    BY <2>1, <2>3, <2>7, <2>9, <2>10 DEF UsesOK
<1>7. ASSUME NEW c \in Clicks, ClickApply(c) PROVE UsesOK'
  <2>1. PICK t \in DOMAIN tokens :
          t = click[c].token /\ tokens[t].kind = "verify_email" /\ c \in Clicking(t)
    BY <1>7 DEF ClickApply, TypeInv, RefsOK, Held, Clicking
  <2>2. /\ Kept
        /\ \A x \in DOMAIN tokens :
             /\ tokens'[x].consumed = (tokens[x].consumed \/ x = t)
             /\ tokens'[x].uses = IF x = t THEN tokens[x].uses + 1 ELSE tokens[x].uses
    BY <1>7, <2>1, ClickEffect
  <2>3. tokens'[t].consumed
    BY <2>1, <2>2
  <2>4. /\ \A x \in DOMAIN tokens \ {t} : Clicking(x)' = Clicking(x)
        /\ Clicking(t)' = Clicking(t) \ {c}
        /\ \A x : Resetting(x)' = Resetting(x)
    BY <1>7, <2>1 DEF ClickApply, Resetting, Clicking, Idle, TypeInv, TypeOK
  <2>5. /\ Cardinality(Clicking(t)') = Cardinality(Clicking(t)) - 1
        /\ Cardinality(Clicking(t)) \in Nat
    <3>1. IsFiniteSet(Clicking(t)) /\ Cardinality(Clicking(t)) \in Nat
      BY Holders
    <3>2. Cardinality(Clicking(t) \ {c}) = Cardinality(Clicking(t)) - 1
      BY <2>1, <3>1, FS_RemoveElement
    <3> QED
      BY <2>4, <3>1, <3>2
  <2>6. DOMAIN tokens' = DOMAIN tokens /\ \A x \in DOMAIN tokens : Later(tokens[x], tokens'[x])
    BY <2>2 DEF Kept
  <2>7. tokens'[t].uses + Cardinality(Clicking(t)') <= Cardinality(Clicks)
    <3>1. tokens[t].uses \in Nat /\ tokens'[t].uses = tokens[t].uses + 1
      BY <1>t, <2>2
    <3>2. tokens[t].uses + Cardinality(Clicking(t)) <= Cardinality(Clicks)
      BY <2>1 DEF UsesOK
    <3>3. Cardinality(Clicks) \in Nat
      BY Holders
    <3> QED
      BY <2>5, <3>1, <3>2, <3>3
  <2>8. \A x \in DOMAIN tokens \ {t} : tokens'[x].uses = tokens[x].uses
    BY <2>2
  <2>9. ASSUME NEW x \in DOMAIN tokens', x # t
        PROVE  /\ tokens'[x].consumed \/ tokens'[x].uses = 0
               /\ tokens'[x].kind = "password_reset" =>
                    tokens'[x].uses + Cardinality(Resetting(x)') <= Cardinality(Resets)
               /\ tokens'[x].kind = "verify_email" =>
                    tokens'[x].uses + Cardinality(Clicking(x)') <= Cardinality(Clicks)
    BY <2>4, <2>6, <2>8, <2>9 DEF UsesOK, Later
  <2>10. tokens'[t].kind = tokens[t].kind /\ "password_reset" # "verify_email"
    BY <2>6 DEF Later
  <2> QED
    BY <2>1, <2>3, <2>7, <2>9, <2>10 DEF UsesOK
<1>8. CASE Restart
  <2>1. \A t : Resetting(t)' = {} /\ Clicking(t)' = {}
    BY <1>8 DEF Restart, Resetting, Clicking, Idle
  <2> QED
    BY <1>8, <1>k, <2>1, UsesKept DEF Restart
<1>9. CASE UNCHANGED <<tokens, reset, click>>
  BY <1>9, <1>k, <1>h, UsesKept
<1>10. CASE UseFails
  <2>r. \A r \in Resets : reset'[r] = reset[r] \/ reset'[r].pc = "idle"
    BY <1>10 DEF UseFails, Idle, TypeInv, TypeOK
  <2>c. \A c \in Clicks : click'[c] = click[c] \/ click'[c].pc = "idle"
    BY <1>10 DEF UseFails, Idle, TypeInv, TypeOK
  <2>1. \A t : Resetting(t)' \subseteq Resetting(t) /\ Clicking(t)' \subseteq Clicking(t)
    BY <2>r, <2>c DEF Resetting, Clicking
  <2> QED
    BY <1>10, <1>k, <2>1, UsesKept DEF UseFails
<1> QED
  BY <1>1, <1>2, <1>3, <1>4, <1>5, <1>6, <1>7, <1>8, <1>9, <1>10
     DEF Next, Setup, MailFails, Login, Ask, Tick, vars

\* However the handlers of one link interleave, it has no more effects than
\* handlers could be in flight together: consuming it stops all later ones.
THEOREM EffectsBounded == Spec => []UsesBounded
<1>1. Init => UsesOK
  <2>1. Init => DOMAIN tokens = {}
    BY EmptySeq DEF Init
  <2> QED
    BY <2>1 DEF UsesOK
<1>2. TypeInv /\ UsesOK => UsesBounded
  <2> SUFFICES ASSUME TypeInv, UsesOK, NEW t \in DOMAIN tokens
               PROVE  tokens[t].uses <= Cardinality(IF tokens[t].kind = "password_reset"
                                                      THEN Resets ELSE Clicks)
    BY DEF UsesBounded
  <2>1. tokens[t].uses \in Nat /\ tokens[t].kind \in Kinds
    <3>1. tokens[t] \in Token
      BY ElementOfSeq, LenProperties DEF TypeInv, TypeOK
    <3> QED
      BY <3>1 DEF Token
  <2> QED
    BY <2>1, Holders DEF UsesOK, Kinds
<1> QED
  BY <1>1, <1>2, TypeHolds, UsesNext, PTL DEF Spec

(***************************************************************************)
(* The live links of one account                                           *)
(*                                                                         *)
(* Consuming the older links and storing the new one are two statements,   *)
(* so that overlapping requests may each leave a link.  The outstanding    *)
(* links of an account and kind are therefore counted together with the    *)
(* requests that stand between the two: the first statement leaves no      *)
(* outstanding link, the second trades a request for a link.  Setup stands *)
(* there from its start, for an account that has neither.                  *)
(***************************************************************************)

Creating(u, k) ==
  {m \in Mails : mail[m].pc = "create" /\ mail[m].user = u /\ mail[m].kind = k}

LiveFew(u, k) ==
  Cardinality(Outstanding(u, k)) + Cardinality(Creating(u, k)) <= Cardinality(Mails)

LiveInv == \A u \in Emails, k \in Kinds : LiveFew(u, k)

\* Both sets are finite, and the requests of an account are some of the slots.
LEMMA LiveFinite ==
  ASSUME TypeInv, NEW u, NEW k
  PROVE  /\ IsFiniteSet(Outstanding(u, k)) /\ Cardinality(Outstanding(u, k)) \in Nat
         /\ IsFiniteSet(Creating(u, k)) /\ Cardinality(Creating(u, k)) \in Nat
         /\ Cardinality(Creating(u, k)) <= Cardinality(Mails)
         /\ Cardinality(Mails) \in Nat
<1>1. IsFiniteSet(DOMAIN tokens)
  BY Numbers, LenProperties DEF TypeInv, TypeOK
<1>2. Outstanding(u, k) \subseteq DOMAIN tokens /\ Creating(u, k) \subseteq Mails
  BY DEF Outstanding, Creating
<1> QED
  BY <1>1, <1>2, AccountAssumption, FS_Subset, FS_CardinalityType

\* A pair that gains neither a link nor a request keeps within the bound.
LEMMA FewKept ==
  ASSUME TypeInv, NEW u, NEW k, LiveFew(u, k),
         Outstanding(u, k)' \subseteq Outstanding(u, k),
         Creating(u, k)' \subseteq Creating(u, k)
  PROVE  LiveFew(u, k)'
<1>1. /\ Cardinality(Outstanding(u, k)') <= Cardinality(Outstanding(u, k))
      /\ Cardinality(Outstanding(u, k)') \in Nat
  BY LiveFinite, FS_Subset, FS_CardinalityType
<1>2. /\ Cardinality(Creating(u, k)') <= Cardinality(Creating(u, k))
      /\ Cardinality(Creating(u, k)') \in Nat
  BY LiveFinite, FS_Subset, FS_CardinalityType
<1> QED
  BY <1>1, <1>2, LiveFinite DEF LiveFew

\* A pair without outstanding links is within the bound whatever is in flight.
LEMMA FewWhenNone ==
  ASSUME TypeInv, mail' \in [Mails -> {Idle} \cup Mail], NEW u, NEW k,
         Outstanding(u, k)' = {}
  PROVE  LiveFew(u, k)'
<1>1. Creating(u, k)' \subseteq Mails
  BY DEF Creating
<1>2. /\ Cardinality(Creating(u, k)') <= Cardinality(Mails)
      /\ Cardinality(Creating(u, k)') \in Nat /\ Cardinality(Mails) \in Nat
  BY <1>1, AccountAssumption, FS_Subset, FS_CardinalityType
<1> QED
  BY <1>2, FS_EmptySet DEF LiveFew

\* Links are only consumed, never revived or moved to another account.
LEMMA OutstandingKept ==
  ASSUME Kept, NEW u, NEW k
  PROVE  Outstanding(u, k)' \subseteq Outstanding(u, k)
BY DEF Kept, Later, Outstanding

LEMMA LiveInit == Init => LiveInv
<1> SUFFICES ASSUME Init, NEW u \in Emails, NEW k \in Kinds PROVE LiveFew(u, k)
  BY DEF LiveInv
<1>1. Outstanding(u, k) = {} /\ Creating(u, k) = {}
  BY EmptySeq DEF Init, Outstanding, Creating, Idle
<1> QED
  BY <1>1, AccountAssumption, FS_EmptySet, FS_CardinalityType DEF LiveFew

LEMMA LiveNext == TypeInv /\ TypeInv' /\ LiveInv /\ [Next]_vars => LiveInv'
<1> SUFFICES ASSUME TypeInv, TypeInv', LiveInv, [Next]_vars,
                    NEW u \in Emails, NEW k \in Kinds
             PROVE  LiveFew(u, k)'
  BY DEF LiveInv
<1>0. tokens \in Seq(Token) /\ now \in Nat /\ mail \in [Mails -> {Idle} \cup Mail]
  BY DEF TypeInv, TypeOK
<1>m. mail' \in [Mails -> {Idle} \cup Mail]
  BY DEF TypeInv, TypeOK
<1>f. LiveFew(u, k)
  BY DEF LiveInv
<1>k. tokens' = tokens => Kept
  BY <1>0, Unchanged
<1>1. ASSUME Kept, \A m \in Mails : mail'[m] = mail[m] \/ mail'[m].pc # "create"
      PROVE  LiveFew(u, k)'
  <2>1. Creating(u, k)' \subseteq Creating(u, k)
    BY <1>1 DEF Creating
  <2> QED
    BY <1>1, <1>f, <2>1, OutstandingKept, FewKept
<1>2. ASSUME NEW m \in Mails, NEW e \in Emails, Setup(m, e) PROVE LiveFew(u, k)'
  <2>1. tokens' = tokens /\ e \notin Accounts
    BY <1>2 DEF Setup
  <2>2. \A n \in Mails : mail'[n] = mail[n] \/ mail'[n].user = e
    BY <1>0, <1>2 DEF Setup
  <2>3. CASE u = e
    <3>1. Outstanding(u, k)' = {}
      BY <2>1, <2>3 DEF Outstanding, TypeInv, RefsOK
    <3> QED
      BY <1>m, <3>1, FewWhenNone
  <2>4. CASE u # e
    <3>1. Creating(u, k)' \subseteq Creating(u, k)
      BY <2>2, <2>4 DEF Creating
    <3> QED
      BY <1>f, <1>k, <2>1, <3>1, OutstandingKept, FewKept
  <2> QED
    BY <2>3, <2>4
<1>3. ASSUME NEW m \in Mails, NEW e \in Emails, NEW j \in Kinds, Ask(m, e, j)
      PROVE  LiveFew(u, k)'
  <2>1. /\ tokens' = tokens
        /\ \A n \in Mails : mail'[n] = mail[n] \/ mail'[n].pc = "invalidate"
    BY <1>0, <1>3 DEF Ask
  <2> QED
    BY <1>1, <1>k, <2>1
<1>4. ASSUME NEW m \in Mails, Invalidate(m) PROVE LiveFew(u, k)'
  <2>1. Kept
    BY <1>0, <1>4, InvalidateEffect
  <2>2. /\ mail'[m].user = mail[m].user /\ mail'[m].kind = mail[m].kind
        /\ \A n \in Mails \ {m} : mail'[n] = mail[n]
    BY <1>0, <1>4 DEF Invalidate
  <2>3. CASE mail[m].user = u /\ mail[m].kind = k
    <3>1. \A t \in DOMAIN tokens :
            tokens'[t].consumed = (tokens[t].consumed \/ t \in Outstanding(u, k))
      BY <1>0, <1>4, <2>3, ConsumeAllKeeps DEF Invalidate
    <3>2. ASSUME NEW t \in Outstanding(u, k)' PROVE FALSE
      <4>1. /\ t \in DOMAIN tokens /\ ~tokens'[t].consumed
            /\ tokens'[t].user = u /\ tokens'[t].kind = k
        BY <2>1, <3>2 DEF Kept, Outstanding
      <4>2. t \in Outstanding(u, k)
        BY <2>1, <4>1 DEF Kept, Later, Outstanding
      <4> QED
        BY <3>1, <4>1, <4>2
    <3> QED
      BY <1>m, <3>2, FewWhenNone
  <2>4. CASE ~(mail[m].user = u /\ mail[m].kind = k)
    <3>1. Creating(u, k)' \subseteq Creating(u, k)
      BY <2>2, <2>4 DEF Creating
    <3> QED
      BY <1>f, <2>1, <3>1, OutstandingKept, FewKept
  <2> QED
    BY <2>3, <2>4
<1>5. ASSUME NEW m \in Mails, Create(m) PROVE LiveFew(u, k)'
  <2>1. mail[m] \in Mail /\ mail[m].pc = "create"
    BY <1>0, <1>5 DEF Create, Idle
  <2>2. PICK n : n = Len(tokens) + 1
    OBVIOUS
  <2>3. /\ DOMAIN tokens' = DOMAIN tokens \cup {n} /\ n \notin DOMAIN tokens
        /\ \A t \in DOMAIN tokens : tokens'[t] = tokens[t]
        /\ tokens'[n] = NewToken(mail[m])
    <3>1. /\ Len(tokens) \in Nat
          /\ DOMAIN tokens = 1 .. Len(tokens) /\ DOMAIN tokens' = 1 .. Len(tokens) + 1
          /\ \A t \in DOMAIN tokens : tokens'[t] = tokens[t]
          /\ tokens'[Len(tokens) + 1] = NewToken(mail[m])
      BY <1>0, <1>5, <2>1, CreateEffect
    <3> QED
      BY <2>2, <3>1
  <2>4. tokens'[n].user = mail[m].user /\ tokens'[n].kind = mail[m].kind
    BY <2>3 DEF NewToken
  <2>5. mail'[m].pc = "send" /\ \A q \in Mails \ {m} : mail'[q] = mail[q]
    BY <1>0, <1>5 DEF Create
  <2>6. CASE mail[m].user = u /\ mail[m].kind = k
    <3>1. Creating(u, k)' = Creating(u, k) \ {m} /\ m \in Creating(u, k)
      BY <2>1, <2>5, <2>6 DEF Creating
    <3>2. Cardinality(Creating(u, k)') = Cardinality(Creating(u, k)) - 1
      BY <3>1, LiveFinite, FS_RemoveElement
    <3>3. Outstanding(u, k)' \subseteq Outstanding(u, k) \cup {n}
      BY <2>3 DEF Outstanding
    <3>4. /\ IsFiniteSet(Outstanding(u, k) \cup {n})
          /\ Cardinality(Outstanding(u, k) \cup {n})
               = IF n \in Outstanding(u, k) THEN Cardinality(Outstanding(u, k))
                                            ELSE Cardinality(Outstanding(u, k)) + 1
      BY LiveFinite, FS_AddElement
    <3>5. /\ Cardinality(Outstanding(u, k)') \in Nat
          /\ Cardinality(Outstanding(u, k)') <= Cardinality(Outstanding(u, k) \cup {n})
      BY <3>3, <3>4, FS_Subset, FS_CardinalityType
    <3> QED
      BY <1>f, <3>2, <3>4, <3>5, LiveFinite DEF LiveFew
  <2>7. CASE ~(mail[m].user = u /\ mail[m].kind = k)
    <3>1. Outstanding(u, k)' \subseteq Outstanding(u, k)
      BY <2>3, <2>4, <2>7 DEF Outstanding
    <3>2. Creating(u, k)' \subseteq Creating(u, k)
      BY <2>5 DEF Creating
    <3> QED
      BY <1>f, <3>1, <3>2, FewKept
  <2> QED
    BY <2>6, <2>7
<1>6. ASSUME NEW m \in Mails, Send(m) PROVE LiveFew(u, k)'
  <2>1. mail[m].token \in DOMAIN tokens
    BY <1>6 DEF Send, TypeInv, RefsOK
  <2>2. Kept
    BY <1>0, <1>6, <2>1, SendEffect
  <2>3. \A q \in Mails : mail'[q] \in {mail[q], Idle}
    BY <1>0, <1>6 DEF Send
  <2> QED
    BY <1>1, <2>2, <2>3 DEF Idle
<1>7. ASSUME NEW r \in Resets, ResetApply(r) PROVE LiveFew(u, k)'
  <2>1. reset[r].token \in DOMAIN tokens
    BY <1>7 DEF ResetApply, TypeInv, RefsOK
  <2>2. Kept
    BY <1>0, <1>7, <2>1, ResetEffect
  <2> QED
    BY <1>1, <1>7, <2>2 DEF ResetApply
<1>8. ASSUME NEW c \in Clicks, ClickApply(c) PROVE LiveFew(u, k)'
  <2>1. click[c].token \in DOMAIN tokens
    BY <1>8 DEF ClickApply, TypeInv, RefsOK
  <2>2. Kept
    BY <1>0, <1>8, <2>1, ClickEffect
  <2> QED
    BY <1>1, <1>8, <2>2 DEF ClickApply
<1>9. CASE Restart
  BY <1>1, <1>9, <1>k DEF Restart, Idle
<1>10. CASE UNCHANGED <<tokens, mail>>
  BY <1>1, <1>10, <1>k
<1>11. ASSUME NEW m \in Mails, MailFails(m) PROVE LiveFew(u, k)'
  <2>1. tokens' = tokens /\ \A q \in Mails : mail'[q] \in {mail[q], Idle}
    BY <1>0, <1>11 DEF MailFails
  <2> QED
    BY <1>1, <1>k, <2>1 DEF Idle
<1> QED
  BY <1>2, <1>3, <1>4, <1>5, <1>6, <1>7, <1>8, <1>9, <1>10, <1>11
     DEF Next, Login, UseFails, ResetLookup, ClickLookup, Tick, vars

LEMMA LiveHolds == Spec => [](TypeInv /\ LiveInv)
BY LiveInit, LiveNext, TypeHolds, PTL DEF Spec

\* The live links of one kind of an account never outnumber the requests for a
\* link that can be in flight, however those overlap, fail or are cut off.
THEOREM LiveLinksFew == Spec => []LiveLinksBounded
<1>1. TypeInv /\ LiveInv => LiveLinksBounded
  <2> SUFFICES ASSUME TypeInv, LiveInv, NEW u \in Emails, NEW k \in Kinds
               PROVE  Cardinality({t \in Outstanding(u, k) : Usable(t)}) <= Cardinality(Mails)
    BY DEF LiveLinksBounded
  <2>1. {t \in Outstanding(u, k) : Usable(t)} \subseteq Outstanding(u, k)
    OBVIOUS
  <2>2. /\ Cardinality({t \in Outstanding(u, k) : Usable(t)}) <= Cardinality(Outstanding(u, k))
        /\ Cardinality({t \in Outstanding(u, k) : Usable(t)}) \in Nat
    BY <2>1, LiveFinite, FS_Subset, FS_CardinalityType
  <2>3. LiveFew(u, k)
    BY DEF LiveInv
  <2> QED
    BY <2>2, <2>3, LiveFinite DEF LiveFew
<1> QED
  BY <1>1, LiveHolds, PTL

\* Only the newest link of a kind stays live.
OneLiveLink ==
  \A t, s \in DOMAIN tokens :
    tokens[t].user = tokens[s].user /\ tokens[t].kind = tokens[s].kind
    /\ Usable(t) /\ Usable(s) => t = s

\* As long as two requests for a link are never in flight together, only the
\* newest link of a kind can be used: consuming the older ones and storing the
\* new one need no transaction for that.
THEOREM OneLiveLinkWhenSerial ==
  ASSUME \A m, n \in Mails : m = n
  PROVE  Spec => []OneLiveLink
<1>1. Cardinality(Mails) <= 1
  <2>1. CASE Mails = {}
    BY <2>1, FS_EmptySet
  <2>2. ASSUME NEW m \in Mails PROVE Cardinality(Mails) = 1
    <3>1. Mails = {m}
      OBVIOUS
    <3> QED
      BY <3>1, FS_Singleton
  <2> QED
    BY <2>1, <2>2
<1>2. TypeInv /\ LiveInv => OneLiveLink
  <2> SUFFICES ASSUME TypeInv, LiveInv, NEW t \in DOMAIN tokens, NEW s \in DOMAIN tokens,
                      tokens[t].user = tokens[s].user, tokens[t].kind = tokens[s].kind,
                      Usable(t), Usable(s), t # s
               PROVE  FALSE
    BY DEF OneLiveLink
  <2> DEFINE u == tokens[t].user
             k == tokens[t].kind
  <2>1. u \in Emails /\ k \in Kinds
    <3>1. tokens[t] \in Token
      BY ElementOfSeq, LenProperties DEF TypeInv, TypeOK
    <3> QED
      BY <3>1 DEF Token
  <2>2. {t, s} \subseteq Outstanding(u, k)
    BY DEF Outstanding, Usable
  <2>3. LiveFew(u, k)
    BY <2>1 DEF LiveInv
  <2> HIDE DEF u, k
  <2>4. Cardinality({t, s}) = 2
    <3>1. IsFiniteSet({t}) /\ Cardinality({t}) = 1
      BY FS_Singleton
    <3>2. Cardinality({t} \cup {s}) = Cardinality({t}) + 1
      BY <3>1, FS_AddElement
    <3>3. {t, s} = {t} \cup {s}
      OBVIOUS
    <3> QED
      BY <3>1, <3>2, <3>3
  <2>5. Cardinality({t, s}) <= Cardinality(Outstanding(u, k))
    BY <2>2, LiveFinite, FS_Subset
  <2> QED
    BY <1>1, <2>3, <2>4, <2>5, LiveFinite DEF LiveFew
<1> QED
  BY <1>2, LiveHolds, PTL

(***************************************************************************)
(* The budget of an account                                                *)
(*                                                                         *)
(* What an account was mailed, or is about to be, within a window is no    *)
(* more than its bucket counts in that window, what a restart forgot, and  *)
(* the link of its registration.  The invariant says so of every window    *)
(* from now on.                                                            *)
(***************************************************************************)

Recent(asked, t) == asked > t - RateWindow

MailedTo(u, k, t) == {x \in DOMAIN tokens : /\ tokens[x].user = u /\ tokens[x].kind = k
                                            /\ Recent(tokens[x].asked, t)}
DueTo(u, k, t) == {m \in Mails : /\ mail[m].pc \in {"invalidate", "create"}
                                 /\ mail[m].user = u /\ mail[m].kind = k
                                 /\ Recent(mail[m].asked, t)}
Load(u, k, t) == Cardinality(MailedTo(u, k, t)) + Cardinality(DueTo(u, k, t))

\* The link of the registration passes by the limiter.
Welcome(u, k) == IF k = "verify_email" /\ u \in Accounts THEN 1 ELSE 0

Budget(u, k, t) ==
  Load(u, k, t) <= Counted(buckets[k][u], t) + RateLimit * restarts + Welcome(u, k)

BudgetInv ==
  \A u \in Emails, k \in Kinds :
    /\ Bucket(buckets[k][u], now)
    /\ \A t \in Nat : now <= t => Budget(u, k, t)

LEMMA LoadType ==
  ASSUME TypeInv, NEW u, NEW k, NEW t
  PROVE  /\ IsFiniteSet(MailedTo(u, k, t)) /\ IsFiniteSet(DueTo(u, k, t))
         /\ Cardinality(MailedTo(u, k, t)) \in Nat /\ Cardinality(DueTo(u, k, t)) \in Nat
         /\ Load(u, k, t) \in Nat
<1>1. Len(tokens) \in Nat /\ DOMAIN tokens = 1 .. Len(tokens)
  BY LenProperties DEF TypeInv, TypeOK
<1>2. IsFiniteSet(DOMAIN tokens)
  BY <1>1, Numbers
<1>3. MailedTo(u, k, t) \in SUBSET (DOMAIN tokens) /\ DueTo(u, k, t) \in SUBSET Mails
  BY DEF MailedTo, DueTo
<1>4. IsFiniteSet(MailedTo(u, k, t)) /\ IsFiniteSet(DueTo(u, k, t))
  BY <1>2, <1>3, AccountAssumption, FS_Subset
<1>5. Cardinality(MailedTo(u, k, t)) \in Nat /\ Cardinality(DueTo(u, k, t)) \in Nat
  BY <1>4, FS_CardinalityType
<1> QED
  BY <1>4, <1>5 DEF Load

\* The products in the bounds.
LEMMA BudgetTimes ==
  ASSUME NEW n \in Nat
  PROVE  /\ RateLimit * n \in Nat
         /\ RateLimit * (n + 1) = RateLimit * n + RateLimit
BY RateAssumption

LEMMA LinksKept ==
  ASSUME Kept, NEW u, NEW k, NEW t
  PROVE  MailedTo(u, k, t)' = MailedTo(u, k, t)
<1>1. DOMAIN tokens' = DOMAIN tokens
  BY DEF Kept
<1>2. \A x \in DOMAIN tokens : /\ tokens'[x].user = tokens[x].user
                               /\ tokens'[x].kind = tokens[x].kind
                               /\ tokens'[x].asked = tokens[x].asked
  BY DEF Kept, Later
<1> QED
  BY <1>1, <1>2 DEF MailedTo, Recent

\* An account is never lost.
LEMMA AccountsKept == TypeInv /\ [Next]_vars => Accounts \subseteq Accounts'
<1> SUFFICES ASSUME TypeInv, [Next]_vars PROVE Accounts \subseteq Accounts'
  OBVIOUS
<1>1. ASSUME NEW m \in Mails, NEW e \in Emails, Setup(m, e) PROVE Accounts \subseteq Accounts'
  BY <1>1 DEF Setup, Accounts, NoUser, TypeInv, TypeOK
<1>2. ASSUME NEW u \in Emails, u \in Accounts, NEW row, row # NoUser,
             users' = [users EXCEPT ![u] = row]
      PROVE  Accounts \subseteq Accounts'
  BY <1>2 DEF Accounts, TypeInv, TypeOK
<1>3. ASSUME NEW r \in Resets, ResetApply(r) PROVE Accounts \subseteq Accounts'
  <2> DEFINE u == tokens[reset[r].token].user
             row == [users[u] EXCEPT !.fence = Len(tokens)]
  <2>1. u \in Accounts /\ u \in Emails
    BY <1>3 DEF ResetApply, TypeInv, RefsOK, Accounts
  <2>2. users[u] \in User /\ Len(tokens) \in Nat
    BY <2>1, LenProperties DEF Accounts, TypeInv, TypeOK
  <2>3. row # NoUser
    BY <2>2 DEF User, NoUser
  <2>4. users' = [users EXCEPT ![u] = row]
    BY <1>3 DEF ResetApply
  <2> QED
    BY <1>2, <2>1, <2>3, <2>4
<1>4. ASSUME NEW c \in Clicks, ClickApply(c) PROVE Accounts \subseteq Accounts'
  <2> DEFINE u == tokens[click[c].token].user
             stamp == Stamp(click[c].verifiedAt)
             row == [users[u] EXCEPT !.verifiedAt = stamp]
  <2>1. u \in Accounts /\ u \in Emails
    BY <1>4 DEF ClickApply, TypeInv, RefsOK, Accounts
  <2>2. users[u] \in User /\ click[c] \in Click /\ now \in Nat
    BY <1>4, <2>1 DEF ClickApply, Idle, Accounts, TypeInv, TypeOK
  <2>3. row # NoUser
    BY <2>2 DEF User, NoUser
  <2>4. users' = users \/ users' = [users EXCEPT ![u] = row]
    BY <1>4 DEF ClickApply
  <2>5. CASE users' = users
    BY <2>5 DEF Accounts
  <2> QED
    BY <1>2, <2>1, <2>3, <2>4, <2>5
<1>5. CASE users' = users
  BY <1>5 DEF Accounts
<1> QED
  BY <1>1, <1>3, <1>4, <1>5
     DEF Next, MailFails, UseFails, Ask, Invalidate, Create, Send, ResetLookup, ClickLookup, Login, Restart, Tick, vars

\* A step that neither stores a link nor lets one through keeps the load.
LEMMA BudgetKept ==
  ASSUME TypeInv, BudgetInv, Kept, Accounts \subseteq Accounts',
         \A u, k, t : DueTo(u, k, t)' = DueTo(u, k, t),
         UNCHANGED <<buckets, now, restarts>>
  PROVE  BudgetInv'
<1>1. ASSUME NEW u, NEW k, NEW t PROVE Load(u, k, t)' = Load(u, k, t)
  <2>1. MailedTo(u, k, t)' = MailedTo(u, k, t)
    BY LinksKept
  <2>2. DueTo(u, k, t)' = DueTo(u, k, t)
    OBVIOUS
  <2> QED
    BY <2>1, <2>2 DEF Load
<1>2. ASSUME NEW u \in Emails, NEW k \in Kinds, NEW t \in Nat, now <= t
      PROVE  Budget(u, k, t)'
  <2>1. Welcome(u, k) <= Welcome(u, k)' /\ Welcome(u, k) \in Nat /\ Welcome(u, k)' \in Nat
    BY DEF Welcome
  <2>2. Load(u, k, t)' = Load(u, k, t) /\ Load(u, k, t) \in Nat
    BY <1>1, LoadType
  <2>3. Counted(buckets[k][u], t) \in Nat /\ RateLimit * restarts \in Nat
    <3>1. Bucket(buckets[k][u], now) /\ now \in Nat /\ restarts \in Nat
      BY DEF BudgetInv, TypeInv, TypeOK
    <3> QED
      BY <3>1, BucketCount, BudgetTimes
  <2>4. Load(u, k, t) <= Counted(buckets[k][u], t) + RateLimit * restarts + Welcome(u, k)
    BY <1>2 DEF BudgetInv, Budget
  <2>5. Load(u, k, t) <= Counted(buckets[k][u], t) + RateLimit * restarts + Welcome(u, k)'
    BY <2>1, <2>2, <2>3, <2>4
  <2> QED
    BY <2>2, <2>5 DEF Budget
<1> QED
  BY <1>2 DEF BudgetInv

LEMMA BudgetInit == Init => BudgetInv
<1> SUFFICES ASSUME Init PROVE BudgetInv
  OBVIOUS
<1>1. DOMAIN tokens = {} /\ \A m \in Mails : mail[m].pc = "idle"
  BY EmptySeq DEF Init, Idle
<1>2. ASSUME NEW u, NEW k, NEW t PROVE Load(u, k, t) = 0
  <2>1. MailedTo(u, k, t) = {} /\ DueTo(u, k, t) = {}
    BY <1>1 DEF MailedTo, DueTo
  <2> QED
    BY <2>1, FS_EmptySet DEF Load
<1>3. ASSUME NEW u \in Emails, NEW k \in Kinds, NEW t \in Nat
      PROVE  Bucket(buckets[k][u], now) /\ Counted(buckets[k][u], t) = 0
  <2>1. buckets[k][u] = <<>> /\ now \in Nat
    BY DEF Init
  <2> QED
    BY <2>1, EmptyBucket
<1>4. restarts = 0 /\ RateLimit * 0 = 0
  BY RateAssumption DEF Init
<1>5. \A u, k : Welcome(u, k) \in Nat
  BY DEF Welcome
<1> QED
  BY <1>2, <1>3, <1>4, <1>5 DEF BudgetInv, Budget

LEMMA BudgetNext == TypeInv /\ TypeInv' /\ BudgetInv /\ [Next]_vars => BudgetInv'
<1> SUFFICES ASSUME TypeInv, TypeInv', BudgetInv, [Next]_vars PROVE BudgetInv'
  OBVIOUS
<1>0. /\ tokens \in Seq(Token) /\ mail \in [Mails -> {Idle} \cup Mail]
      /\ buckets \in [Kinds -> [Emails -> Seq(Nat)]] /\ now \in Nat /\ restarts \in Nat
  BY DEF TypeInv, TypeOK
<1>a. Accounts \subseteq Accounts'
  BY AccountsKept
<1>b. \A u \in Emails, k \in Kinds : Bucket(buckets[k][u], now)
  BY DEF BudgetInv
<1>w. \A u, k : /\ Welcome(u, k) \in Nat /\ Welcome(u, k)' \in Nat
                /\ Welcome(u, k) <= Welcome(u, k)'
  BY <1>a DEF Welcome
<1>c. ASSUME NEW u \in Emails, NEW k \in Kinds, NEW t \in Nat
      PROVE  Counted(buckets[k][u], t) \in Nat /\ RateLimit * restarts \in Nat
  BY <1>0, <1>b, BucketCount, BudgetTimes
<1>1. ASSUME NEW m \in Mails, NEW e \in Emails, Setup(m, e) PROVE BudgetInv'
  <2>1. /\ UNCHANGED <<tokens, buckets, now, restarts>> /\ mail[m] = Idle
        /\ e \notin Accounts /\ e \in Accounts'
    <3>1. users' = [users EXCEPT ![e] = [verifiedAt |-> 0, fence |-> 0]]
      BY <1>1 DEF Setup
    <3>2. e \in Accounts'
      BY <3>1 DEF Accounts, NoUser, TypeInv, TypeOK
    <3> QED
      BY <1>1, <3>2 DEF Setup
  <2>2. /\ \/ mail'[m] = mail[m]
           \/ mail'[m] = [pc |-> "create", user |-> e, kind |-> "verify_email", asked |-> now]
        /\ \A n \in Mails \ {m} : mail'[n] = mail[n]
    BY <1>0, <1>1 DEF Setup
  <2>3. \A u, k, t : MailedTo(u, k, t)' = MailedTo(u, k, t)
    BY <2>1 DEF MailedTo, Recent
  <2>4. ASSUME NEW u \in Emails, NEW k \in Kinds, NEW t \in Nat, now <= t
        PROVE  Budget(u, k, t)'
    <3>1. Budget(u, k, t)
      BY <2>4 DEF BudgetInv
    <3>2. CASE u = e /\ k = "verify_email"
      <4>1. Welcome(u, k) = 0 /\ Welcome(u, k)' = 1
        BY <2>1, <3>2 DEF Welcome
      <4>2. DueTo(u, k, t)' \subseteq DueTo(u, k, t) \cup {m}
        BY <2>2 DEF DueTo, Recent
      <4>3. Cardinality(DueTo(u, k, t)') <= Cardinality(DueTo(u, k, t)) + 1
        <5>1. IsFiniteSet(DueTo(u, k, t)) /\ m \notin DueTo(u, k, t)
          <6>1. IsFiniteSet(DueTo(u, k, t))
            BY LoadType
          <6>2. m \notin DueTo(u, k, t)
            BY <2>1 DEF DueTo, Idle
          <6> QED
            BY <6>1, <6>2
        <5>2. /\ Cardinality(DueTo(u, k, t) \cup {m}) = Cardinality(DueTo(u, k, t)) + 1
              /\ IsFiniteSet(DueTo(u, k, t) \cup {m})
          BY <5>1, FS_AddElement
        <5>3. Cardinality(DueTo(u, k, t)') <= Cardinality(DueTo(u, k, t) \cup {m})
          BY <4>2, <5>2, FS_Subset
        <5> QED
          BY <5>2, <5>3
      <4>4. /\ Cardinality(MailedTo(u, k, t)) \in Nat /\ Cardinality(DueTo(u, k, t)) \in Nat
            /\ Cardinality(DueTo(u, k, t)') \in Nat
        <5>1. Cardinality(MailedTo(u, k, t)) \in Nat /\ Cardinality(DueTo(u, k, t)) \in Nat
          BY LoadType
        <5>2. IsFiniteSet(Mails) /\ DueTo(u, k, t)' \in SUBSET Mails
          BY AccountAssumption DEF DueTo
        <5>3. IsFiniteSet(DueTo(u, k, t)')
          BY <5>2, FS_Subset
        <5> QED
          BY <5>1, <5>3, FS_CardinalityType
      <4>5. Load(u, k, t)' <= Load(u, k, t) + 1 /\ Load(u, k, t) \in Nat /\ Load(u, k, t)' \in Nat
        BY <2>3, <4>3, <4>4 DEF Load
      <4>6. Load(u, k, t)' <= Counted(buckets[k][u], t) + RateLimit * restarts + 1
        BY <1>c, <3>1, <4>1, <4>5 DEF Budget
      <4> QED
        BY <2>1, <4>1, <4>6 DEF Budget
    <3>3. CASE ~(u = e /\ k = "verify_email")
      <4>1. DueTo(u, k, t)' = DueTo(u, k, t)
        BY <2>1, <2>2, <3>3 DEF DueTo, Recent, Idle
      <4>2. Load(u, k, t)' = Load(u, k, t) /\ Load(u, k, t) \in Nat
        BY <2>3, <4>1, LoadType DEF Load
      <4>3. Load(u, k, t)' <= Counted(buckets[k][u], t) + RateLimit * restarts + Welcome(u, k)'
        BY <1>c, <1>w, <3>1, <4>2 DEF Budget
      <4> QED
        BY <2>1, <4>3 DEF Budget
    <3> QED
      BY <3>2, <3>3
  <2> QED
    BY <1>b, <2>1, <2>4 DEF BudgetInv
<1>2. ASSUME NEW m \in Mails, NEW e \in Emails, NEW k \in Kinds, Ask(m, e, k)
      PROVE  BudgetInv'
  <2>n. PICK u : u = Norm[e]
    OBVIOUS
  <2>u. u \in Emails /\ Key(e) = u
    BY <2>n, AccountAssumption DEF Key
  <2>1. /\ UNCHANGED <<users, tokens, now, restarts>> /\ mail[m] = Idle
        /\ buckets'[k][u] = Recorded(buckets[k][u], now)
        /\ \A l \in Kinds, x \in Emails : <<l, x>> # <<k, u>> => buckets'[l][x] = buckets[l][x]
    <3>1. buckets' = [buckets EXCEPT ![k][u] = Recorded(@, now)]
      BY <1>2, <2>u DEF Ask
    <3> QED
      BY <1>0, <1>2, <2>u, <3>1 DEF Ask
  <2>2. \A x, l, t : MailedTo(x, l, t)' = MailedTo(x, l, t) /\ Welcome(x, l)' = Welcome(x, l)
    BY <2>1 DEF MailedTo, Recent, Welcome, Accounts
  <2>3. \/ mail' = mail
        \/ /\ Admits(buckets[k][u], now)
           /\ mail'[m] = [pc |-> "invalidate", user |-> u, kind |-> k, asked |-> now]
           /\ \A n \in Mails \ {m} : mail'[n] = mail[n]
    BY <1>0, <1>2, <2>n, <2>u DEF Ask
  <2>4. ASSUME NEW l \in Kinds, NEW x \in Emails, <<l, x>> # <<k, u>>, NEW t \in Nat, now <= t
        PROVE  Bucket(buckets[l][x], now)' /\ Budget(x, l, t)'
    <3>1. DueTo(x, l, t)' = DueTo(x, l, t)
      <4>1. CASE mail' = mail
        BY <4>1 DEF DueTo, Recent
      <4>2. CASE /\ mail'[m] = [pc |-> "invalidate", user |-> u, kind |-> k, asked |-> now]
                 /\ \A n \in Mails \ {m} : mail'[n] = mail[n]
        BY <2>1, <2>4, <4>2 DEF DueTo, Recent, Idle
      <4> QED
        BY <2>3, <4>1, <4>2
    <3>2. Load(x, l, t)' = Load(x, l, t)
      BY <2>2, <3>1 DEF Load
    <3>3. buckets'[l][x] = buckets[l][x]
      BY <2>1, <2>4
    <3>4. Budget(x, l, t) /\ Bucket(buckets[l][x], now)
      BY <2>4 DEF BudgetInv
    <3> QED
      BY <2>1, <2>2, <3>2, <3>3, <3>4 DEF Budget
  <2>5. /\ Bucket(buckets'[k][u], now)
        /\ \A t \in Nat : now <= t =>
             Counted(buckets'[k][u], t)
               = Counted(buckets[k][u], t)
                 + IF Admits(buckets[k][u], now) /\ now > t - RateWindow THEN 1 ELSE 0
    <3>1. Bucket(buckets[k][u], now)
      BY <1>b, <2>u
    <3> QED
      BY <1>0, <2>1, <3>1, CallCounts
  <2>6. ASSUME NEW t \in Nat, now <= t PROVE Budget(u, k, t)'
    <3>1. Budget(u, k, t)
      BY <2>u, <2>6 DEF BudgetInv
    <3>2. Counted(buckets[k][u], t) \in Nat /\ RateLimit * restarts \in Nat
      BY <1>c, <2>u
    <3>3. /\ Cardinality(MailedTo(u, k, t)) \in Nat /\ Cardinality(DueTo(u, k, t)) \in Nat
          /\ IsFiniteSet(DueTo(u, k, t)) /\ Load(u, k, t) \in Nat
      BY LoadType
    <3>4. CASE DueTo(u, k, t)' = DueTo(u, k, t)
      <4>1. Load(u, k, t)' = Load(u, k, t)
        BY <2>2, <3>4 DEF Load
      <4>2. Counted(buckets'[k][u], t) \in Nat /\ Counted(buckets[k][u], t) <= Counted(buckets'[k][u], t)
        BY <2>5, <2>6, <3>2
      <4>3. Load(u, k, t)' <= Counted(buckets'[k][u], t) + RateLimit * restarts + Welcome(u, k)
        BY <1>w, <3>1, <3>2, <3>3, <4>1, <4>2 DEF Budget
      <4> QED
        BY <2>1, <2>2, <4>3 DEF Budget
    <3>5. CASE DueTo(u, k, t)' # DueTo(u, k, t)
      <4>1. /\ Admits(buckets[k][u], now)
            /\ mail'[m] = [pc |-> "invalidate", user |-> u, kind |-> k, asked |-> now]
            /\ \A n \in Mails \ {m} : mail'[n] = mail[n]
        BY <2>3, <3>5 DEF DueTo, Recent
      <4>2. now > t - RateWindow
        BY <2>1, <3>5, <4>1 DEF DueTo, Recent, Idle
      <4>3. DueTo(u, k, t)' = DueTo(u, k, t) \cup {m} /\ m \notin DueTo(u, k, t)
        BY <2>1, <4>1, <4>2 DEF DueTo, Recent, Idle
      <4>4. Cardinality(DueTo(u, k, t)') = Cardinality(DueTo(u, k, t)) + 1
        BY <3>3, <4>3, FS_AddElement
      <4>5. Load(u, k, t)' = Load(u, k, t) + 1
        BY <2>2, <3>3, <4>4 DEF Load
      <4>6. Counted(buckets'[k][u], t) = Counted(buckets[k][u], t) + 1
        BY <2>5, <2>6, <4>1, <4>2
      <4>7. Load(u, k, t)' <= Counted(buckets'[k][u], t) + RateLimit * restarts + Welcome(u, k)
        BY <1>w, <3>1, <3>2, <3>3, <4>5, <4>6 DEF Budget
      <4> QED
        BY <2>1, <2>2, <4>7 DEF Budget
    <3> QED
      BY <3>4, <3>5
  <2>7. ASSUME NEW x \in Emails, NEW l \in Kinds
        PROVE  Bucket(buckets'[l][x], now) /\ \A t \in Nat : now <= t => Budget(x, l, t)'
    <3>1. CASE <<l, x>> = <<k, u>>
      BY <2>5, <2>6, <3>1
    <3>2. CASE <<l, x>> # <<k, u>>
      <4>1. now <= now
        BY <1>0
      <4> QED
        BY <1>0, <2>1, <2>4, <3>2, <4>1
    <3> QED
      BY <3>1, <3>2
  <2> QED
    BY <2>1, <2>7 DEF BudgetInv
<1>3. ASSUME NEW m \in Mails, Invalidate(m) PROVE BudgetInv'
  <2>1. Kept /\ UNCHANGED <<buckets, now, restarts>>
    BY <1>0, <1>3, InvalidateEffect DEF Invalidate
  <2>2. /\ mail'[m].pc = "create" /\ mail'[m].user = mail[m].user
        /\ mail'[m].kind = mail[m].kind /\ mail'[m].asked = mail[m].asked
        /\ \A n \in Mails \ {m} : mail'[n] = mail[n]
    <3>1. /\ [mail[m] EXCEPT !.pc = "create"].pc = "create"
          /\ [mail[m] EXCEPT !.pc = "create"].user = mail[m].user
          /\ [mail[m] EXCEPT !.pc = "create"].kind = mail[m].kind
          /\ [mail[m] EXCEPT !.pc = "create"].asked = mail[m].asked
      BY <1>0, <1>3 DEF Invalidate, Mail, Idle
    <3> QED
      BY <1>0, <1>3, <3>1 DEF Invalidate
  <2>3. \A u, k, t : DueTo(u, k, t)' = DueTo(u, k, t)
    BY <1>3, <2>2 DEF DueTo, Recent, Invalidate
  <2> QED
    BY <1>a, <2>1, <2>3, BudgetKept
<1>4. ASSUME NEW m \in Mails, Send(m) PROVE BudgetInv'
  <2>1. mail[m].token \in DOMAIN tokens
    BY <1>4 DEF Send, TypeInv, RefsOK
  <2>2. Kept /\ UNCHANGED <<buckets, now, restarts>>
    BY <1>0, <1>4, <2>1, SendEffect DEF Send
  <2>3. \A u, k, t : DueTo(u, k, t)' = DueTo(u, k, t)
    BY <1>0, <1>4 DEF Send, DueTo, Recent, Idle
  <2> QED
    BY <1>a, <2>2, <2>3, BudgetKept
<1>5. ASSUME Kept, UNCHANGED <<buckets, mail, now, restarts>> PROVE BudgetInv'
  <2>1. \A u, k, t : DueTo(u, k, t)' = DueTo(u, k, t)
    BY <1>5 DEF DueTo, Recent
  <2> QED
    BY <1>a, <1>5, <2>1, BudgetKept
<1>6. ASSUME NEW r \in Resets, ResetApply(r) PROVE BudgetInv'
  <2>1. reset[r].token \in DOMAIN tokens
    BY <1>6 DEF ResetApply, TypeInv, RefsOK
  <2> QED
    BY <1>0, <1>5, <1>6, <2>1, ResetEffect DEF ResetApply
<1>7. ASSUME NEW c \in Clicks, ClickApply(c) PROVE BudgetInv'
  <2>1. click[c].token \in DOMAIN tokens
    BY <1>7 DEF ClickApply, TypeInv, RefsOK
  <2> QED
    BY <1>0, <1>5, <1>7, <2>1, ClickEffect DEF ClickApply
<1>8. CASE UNCHANGED <<tokens, buckets, mail, now, restarts>>
  BY <1>0, <1>5, <1>8, Unchanged
<1>9. ASSUME NEW m \in Mails, Create(m) PROVE BudgetInv'
  <2>n. PICK n : n = Len(tokens) + 1
    OBVIOUS
  <2>1. mail[m] \in Mail /\ mail[m].pc = "create"
    BY <1>0, <1>9 DEF Create, Idle
  <2>2. /\ DOMAIN tokens' = DOMAIN tokens \cup {n} /\ n \notin DOMAIN tokens
        /\ tokens'[n] = NewToken(mail[m])
        /\ \A x \in DOMAIN tokens : tokens'[x] = tokens[x]
    <3>1. /\ Len(tokens) \in Nat /\ DOMAIN tokens = 1 .. Len(tokens)
          /\ DOMAIN tokens' = 1 .. Len(tokens) + 1
          /\ tokens'[Len(tokens) + 1] = NewToken(mail[m])
          /\ \A x \in DOMAIN tokens : tokens'[x] = tokens[x]
      BY <1>0, <1>9, <2>1, CreateEffect
    <3> QED
      BY <2>n, <3>1
  <2>3. /\ tokens'[n].user = mail[m].user /\ tokens'[n].kind = mail[m].kind
        /\ tokens'[n].asked = mail[m].asked
    BY <2>2 DEF NewToken
  <2>4. /\ UNCHANGED <<users, buckets, now, restarts>>
        /\ mail' = [mail EXCEPT ![m] = [pc |-> "send", token |-> Len(tokens) + 1]]
    BY <1>9 DEF Create
  <2>5. ASSUME NEW u \in Emails, NEW k \in Kinds, NEW t \in Nat, now <= t
        PROVE  Budget(u, k, t)'
    <3>1. DueTo(u, k, t)' = DueTo(u, k, t) \ {m}
      BY <1>0, <2>4 DEF DueTo, Recent
    <3>2. Load(u, k, t)' = Load(u, k, t)
      <4>1. CASE mail[m].user = u /\ mail[m].kind = k /\ Recent(mail[m].asked, t)
        <5>1. m \in DueTo(u, k, t)
          BY <2>1, <4>1 DEF DueTo
        <5>2. MailedTo(u, k, t)' = MailedTo(u, k, t) \cup {n} /\ n \notin MailedTo(u, k, t)
          BY <2>2, <2>3, <4>1 DEF MailedTo, Recent
        <5>3. Cardinality(MailedTo(u, k, t)') = Cardinality(MailedTo(u, k, t)) + 1
          BY <5>2, LoadType, FS_AddElement
        <5>4. Cardinality(DueTo(u, k, t)') = Cardinality(DueTo(u, k, t)) - 1
          <6>1. IsFiniteSet(DueTo(u, k, t))
            BY LoadType
          <6> QED
            BY <3>1, <5>1, <6>1, FS_RemoveElement
        <5>5. Cardinality(DueTo(u, k, t)) \in Nat /\ Cardinality(MailedTo(u, k, t)) \in Nat
          BY LoadType
        <5> QED
          BY <5>3, <5>4, <5>5 DEF Load
      <4>2. CASE ~(mail[m].user = u /\ mail[m].kind = k /\ Recent(mail[m].asked, t))
        <5>1. DueTo(u, k, t)' = DueTo(u, k, t)
          BY <3>1, <4>2 DEF DueTo
        <5>2. MailedTo(u, k, t)' = MailedTo(u, k, t)
          BY <2>2, <2>3, <4>2 DEF MailedTo, Recent
        <5> QED
          BY <5>1, <5>2 DEF Load
      <4> QED
        BY <4>1, <4>2
    <3>3. Welcome(u, k)' = Welcome(u, k)
      BY <2>4 DEF Welcome, Accounts
    <3> QED
      BY <2>4, <2>5, <3>2, <3>3 DEF Budget, BudgetInv
  <2> QED
    BY <1>b, <2>4, <2>5 DEF BudgetInv
<1>10. CASE Restart
  <2>1. /\ UNCHANGED <<users, tokens, now>> /\ restarts' = restarts + 1
        /\ \A u \in Emails, k \in Kinds : buckets'[k][u] = <<>>
        /\ \A m \in Mails : mail'[m] = Idle
    BY <1>10 DEF Restart
  <2>2. ASSUME NEW u \in Emails, NEW k \in Kinds, NEW t \in Nat
        PROVE  /\ Bucket(buckets'[k][u], now)
               /\ now <= t => Budget(u, k, t)'
    <3>1. Bucket(buckets'[k][u], now) /\ Counted(buckets'[k][u], t) = 0
      BY <1>0, <2>1, EmptyBucket
    <3>2. SUFFICES ASSUME now <= t PROVE Budget(u, k, t)'
      BY <3>1
    <3>3. /\ MailedTo(u, k, t)' = MailedTo(u, k, t) /\ DueTo(u, k, t)' = {}
          /\ Welcome(u, k)' = Welcome(u, k)
      BY <2>1 DEF MailedTo, DueTo, Recent, Idle, Welcome, Accounts
    <3>4. Load(u, k, t)' = Cardinality(MailedTo(u, k, t))
      <4>1. Cardinality({}) = 0 /\ Cardinality(MailedTo(u, k, t)) \in Nat
        BY FS_EmptySet, LoadType
      <4> QED
        BY <3>3, <4>1 DEF Load
    <3>5. Cardinality(MailedTo(u, k, t)) \in Nat /\ Cardinality(DueTo(u, k, t)) \in Nat
      BY LoadType
    <3>6. Load(u, k, t) <= Counted(buckets[k][u], t) + RateLimit * restarts + Welcome(u, k)
      BY <3>2 DEF Budget, BudgetInv
    <3>7. Counted(buckets[k][u], t) \in Nat /\ Counted(buckets[k][u], t) <= RateLimit
      BY <1>0, <1>b, BucketCount
    <3>8. RateLimit * restarts \in Nat /\ RateLimit * (restarts + 1) = RateLimit * restarts + RateLimit
      BY <1>0, BudgetTimes
    <3>9. Load(u, k, t)' <= 0 + RateLimit * (restarts + 1) + Welcome(u, k)
      BY <1>w, <3>4, <3>5, <3>6, <3>7, <3>8, RateAssumption DEF Load
    <3> QED
      BY <2>1, <3>1, <3>3, <3>9 DEF Budget
  <2> QED
    BY <1>0, <2>1, <2>2 DEF BudgetInv
<1>11. CASE Tick
  <2>1. UNCHANGED <<users, tokens, mail, buckets, restarts>> /\ now' = now + 1
    BY <1>11 DEF Tick
  <2>2. \A u, k, t : Load(u, k, t)' = Load(u, k, t) /\ Welcome(u, k)' = Welcome(u, k)
    BY <2>1 DEF Load, MailedTo, DueTo, Recent, Welcome, Accounts
  <2>3. \A u \in Emails, k \in Kinds : Bucket(buckets[k][u], now + 1)
    BY <1>0, <1>b, BucketAges
  <2>4. \A t \in Nat : now + 1 <= t => now <= t
    BY <1>0
  <2> QED
    BY <2>1, <2>2, <2>3, <2>4 DEF BudgetInv, Budget
<1>12. ASSUME NEW m \in Mails, MailFails(m) PROVE BudgetInv'
  <2>1. /\ UNCHANGED <<users, tokens, buckets, now, restarts>>
        /\ \A n \in Mails : mail'[n] = mail[n] \/ mail'[n].pc = "idle"
    BY <1>0, <1>12 DEF MailFails, Idle
  <2>2. ASSUME NEW u \in Emails, NEW k \in Kinds, NEW t \in Nat, now <= t
        PROVE  Budget(u, k, t)'
    <3>1. DueTo(u, k, t)' \subseteq DueTo(u, k, t)
      BY <2>1 DEF DueTo, Recent
    <3>2. /\ Cardinality(DueTo(u, k, t)) \in Nat /\ Cardinality(MailedTo(u, k, t)) \in Nat
          /\ IsFiniteSet(DueTo(u, k, t))
      BY LoadType
    <3>3. /\ Cardinality(DueTo(u, k, t)') <= Cardinality(DueTo(u, k, t))
          /\ Cardinality(DueTo(u, k, t)') \in Nat
      BY <3>1, <3>2, FS_Subset, FS_CardinalityType
    <3>4. MailedTo(u, k, t)' = MailedTo(u, k, t) /\ Welcome(u, k)' = Welcome(u, k)
      BY <2>1 DEF MailedTo, Recent, Welcome, Accounts
    <3>5. Load(u, k, t)' <= Load(u, k, t) /\ Load(u, k, t) \in Nat /\ Load(u, k, t)' \in Nat
      BY <3>2, <3>3, <3>4 DEF Load
    <3>6. Load(u, k, t) <= Counted(buckets[k][u], t) + RateLimit * restarts + Welcome(u, k)
      BY <2>2 DEF BudgetInv, Budget
    <3>7. Load(u, k, t)' <= Counted(buckets[k][u], t) + RateLimit * restarts + Welcome(u, k)
      BY <1>c, <1>w, <3>5, <3>6
    <3> QED
      BY <2>1, <3>4, <3>7 DEF Budget
  <2> QED
    BY <1>b, <2>1, <2>2 DEF BudgetInv
<1> QED
  BY <1>1, <1>2, <1>3, <1>4, <1>6, <1>7, <1>8, <1>9, <1>10, <1>11, <1>12
     DEF Next, UseFails, ResetLookup, ClickLookup, Login, vars

\* However requests for links interleave, and however the address is spelled in
\* them, an account is mailed no more links of a kind in one window than the
\* limiter lets through, once for every life of the process, and the link of its
\* registration.
THEOREM MailBudgetKeeps == Spec => []MailsWithinBudget
<1>1. TypeInv /\ BudgetInv => MailsWithinBudget
  <2> SUFFICES ASSUME TypeInv, BudgetInv, NEW u \in Emails, NEW k \in Kinds
               PROVE  Cardinality(MailedTo(u, k, now))
                        <= RateLimit * (restarts + 1) + (IF k = "verify_email" THEN 1 ELSE 0)
    BY DEF MailsWithinBudget, MailedTo, Recent
  <2>1. now \in Nat /\ restarts \in Nat /\ now <= now
    BY DEF TypeInv, TypeOK
  <2>2. /\ Bucket(buckets[k][u], now)
        /\ Load(u, k, now) <= Counted(buckets[k][u], now) + RateLimit * restarts + Welcome(u, k)
    BY <2>1 DEF BudgetInv, Budget
  <2>3. Counted(buckets[k][u], now) \in Nat /\ Counted(buckets[k][u], now) <= RateLimit
    BY <2>1, <2>2, BucketCount
  <2>4. Cardinality(MailedTo(u, k, now)) \in Nat /\ Cardinality(DueTo(u, k, now)) \in Nat
    BY LoadType
  <2>5. RateLimit * restarts \in Nat /\ RateLimit * (restarts + 1) = RateLimit * restarts + RateLimit
    BY <2>1, BudgetTimes
  <2>6. Welcome(u, k) \in Nat /\ Welcome(u, k) <= (IF k = "verify_email" THEN 1 ELSE 0)
    BY DEF Welcome
  <2> QED
    BY <2>2, <2>3, <2>4, <2>5, <2>6, RateAssumption DEF Load
<1>2. Spec => [](TypeInv /\ BudgetInv)
  BY TypeInit, TypeNext, BudgetInit, BudgetNext, PTL DEF Spec
<1> QED
  BY <1>1, <1>2, PTL
==============================================================================
