------------------------- MODULE AccountTokens_proofs -------------------------
(***************************************************************************)
(* Proofs of the properties of AccountAccess about recovery tokens, for    *)
(* every set of accounts, tokens and requests and every bound.             *)
(*                                                                         *)
(* LiveTokensAreCurrent and LateTokensOnly are inductive once the types    *)
(* are known.  TokenSpentOnce needs to know of the request that is about   *)
(* to pay with a token (TokensAccounted), and WritesHaveMailbox that       *)
(* whatever leads to a password write belongs to an account with an email  *)
(* (MailboxKept).  The first four lemmas say what a step must respect to   *)
(* keep each of them, and the fifth covers the steps that only move a      *)
(* handler.                                                                *)
(***************************************************************************)
EXTENDS AccountAccess_proofs

USE AccountsAssumption, NilAssumption, BoundsAssumption
    DEF Accounts, Versions

\* What the token properties need of a state.
RecoveryInv == LiveTokensAreCurrent /\ LateTokensOnly /\ TokenInv /\ MailboxKept

\* A row that can no longer be consumed.
Settled(t) == token[t].state \in {"used", "gone"}

\* A stale token of the account may be unused for now: its invalidation is on
\* the way or was lost.
Excused(a) ==
    \/ orphan[a]
    \/ \E r \in Requests : req[r].pc = "invalidate" /\ req[r].acct = a

\* Row t keeps what the properties read of it.
RowKept(t) ==
    /\ Unused(t)
    /\ token'[t].acct = token[t].acct
    /\ token'[t].email = token[t].email
    /\ token'[t].born = token[t].born
    /\ token'[t].late = token[t].late

-----------------------------------------------------------------------------
(* What a step must respect. *)

\* An unused token of a written account is excused; any other is either the row
\* it was, of an account whose excuse is kept, or inserted at the row's version.
LEMMA CurrentStays ==
    ASSUME TypeInv, LiveTokensAreCurrent,
           \A t \in Tokens : Unused(t)' =>
             \/ Excused(token[t].acct)'
             \/ token'[t].born = cred'[token'[t].acct].ver
             \/ /\ RowKept(t)
                /\ cred'[token[t].acct].ver = cred[token[t].acct].ver
                /\ Excused(token[t].acct) => Excused(token[t].acct)',
           \A b \in Accounts : cred'[b].ver \in Int,
           \A t \in Tokens : Unused(t)' => token'[t].acct \in Accounts
    PROVE  LiveTokensAreCurrent'
  <1> SUFFICES ASSUME NEW t \in Tokens, Unused(t)',
                      token'[t].born < cred'[token'[t].acct].ver
               PROVE  Excused(token[t].acct)'
    BY DEF LiveTokensAreCurrent, Excused
  <1>1. token'[t].born # cred'[token'[t].acct].ver
    OBVIOUS
  <1>2. CASE /\ RowKept(t)
             /\ cred'[token[t].acct].ver = cred[token[t].acct].ver
             /\ Excused(token[t].acct) => Excused(token[t].acct)'
    <2>1. Unused(t) /\ token[t].born < cred[token[t].acct].ver
      BY <1>2 DEF RowKept
    <2>2. Excused(token[t].acct)
      BY <2>1 DEF LiveTokensAreCurrent, Excused
    <2>3. Excused(token[t].acct)'
      BY <1>2, <2>2 DEF RowKept
    <2>4. QED
      BY <2>3 DEF Excused
  <1>3. QED
    BY <1>1, <1>2

\* An account whose address changes keeps no unused token, and a row inserted
\* tells whether its address was out of date.
LEMMA LateStays ==
    ASSUME LateTokensOnly,
           \A t \in Tokens : Unused(t)' =>
             \/ token'[t].late
             \/ token'[t].email = cred'[token'[t].acct].email
             \/ /\ RowKept(t)
                /\ cred'[token[t].acct].email = cred[token[t].acct].email
    PROVE  LateTokensOnly'
  BY DEF LateTokensOnly, RowKept, Unused

\* No settled row becomes usable again, nothing is paid, and no handler comes to
\* hold a consumed token.
LEMMA AccountStays ==
    ASSUME TypeInv, TypeInv', TokenInv,
           spent' = spent,
           \A t \in Tokens : Settled(t) => Settled(t)',
           \A q \in Requests : req'[q] = req[q] \/ req'[q].pc # "resetWrite"
    PROVE  TokenInv'
  <1>1. \A t \in Tokens : token[t].state \in {"none", "unsent", "live", "used", "gone"}
    BY DEF TypeInv, TypeOK, TokenRow
  <1>2. \A t \in Tokens : token'[t].state \in {"none", "unsent", "live"} =>
                            token[t].state \in {"none", "unsent", "live"}
    BY <1>1 DEF Settled
  <1>3. \A t \in Tokens : token'[t].state \in {"none", "unsent", "live"} => spent'[t] = 0
    BY <1>2 DEF TokenInv, TokensAccounted
  <1>4. ASSUME NEW r \in Requests, req'[r].pc = "resetWrite"
        PROVE  /\ token'[req'[r].tok].state \in {"used", "gone"}
               /\ spent'[req'[r].tok] = 0
               /\ \A q \in Requests :
                    req'[q].pc = "resetWrite" /\ req'[q].tok = req'[r].tok => q = r
    <2>1. req'[r] = req[r] /\ req[r].pc = "resetWrite"
      BY <1>4
    <2>2. req[r].tok \in Tokens
      BY <2>1 DEF TypeInv, SlotsTyped, SlotTyped
    <2>3. QED
      BY <2>1, <2>2 DEF TokenInv, TokensAccounted, Settled
  <1>5. TokensAccounted'
    BY <1>3, <1>4 DEF TokensAccounted
  <1>6. TokenSpentOnce'
    BY DEF TokenInv, TokenSpentOnce
  <1>7. QED
    BY <1>5, <1>6 DEF TokenInv

\* No account loses its email, and whoever comes to lead to a password write is
\* of an account that has one.
LEMMA MailboxStays ==
    ASSUME TypeInv, MailboxKept,
           \A b \in Accounts : cred[b].email # Nil => cred'[b].email # Nil,
           \A s \in jwts' : s \in jwts \/ (s.acct \in Accounts /\ cred[s.acct].email # Nil),
           \A t \in Tokens : token'[t].state \in {"unsent", "live", "used"} =>
             /\ token'[t].acct \in Accounts
             /\ cred[token'[t].acct].email # Nil,
           \A q \in Requests :
             \/ req'[q] = req[q]
             \/ req'[q].pc \in {"idle", "update"}
             \/ req'[q].acct \in Accounts /\ cred[req'[q].acct].email # Nil
    PROVE  MailboxKept'
  <1>1. \A a \in Administrators : cred'[a].email # Nil
    BY DEF MailboxKept
  <1>2. \A s \in jwts : s.acct \in Accounts
    BY DEF TypeInv, TypeOK, Session
  <1>3. \A s \in jwts' : cred'[s.acct].email # Nil
    BY <1>2 DEF MailboxKept
  <1>4. \A q \in Requests : req[q].pc # "idle" => req[q].acct \in Accounts
    BY DEF TypeInv, SlotsTyped, SlotTyped
  <1>5. \A q \in Requests : req'[q].pc \notin {"idle", "update"} =>
                              cred'[req'[q].acct].email # Nil
    BY <1>4 DEF MailboxKept
  <1>6. \A t \in Tokens : token'[t].state \in {"unsent", "live", "used"} =>
                            cred'[token'[t].acct].email # Nil
    OBVIOUS
  <1>7. QED
    BY <1>1, <1>3, <1>5, <1>6 DEF MailboxKept

\* What the invariant says of the accounts that handlers, sessions and tokens
\* are about.
LEMMA MailboxOf ==
    ASSUME TypeInv, MailboxKept
    PROVE  /\ \A a \in Accounts : Available(a) => cred[a].email # Nil
           /\ \A s \in jwts : s.acct \in Accounts /\ cred[s.acct].email # Nil
           /\ \A t \in Tokens : token[t].state \in {"unsent", "live", "used"} =>
                token[t].acct \in Accounts /\ cred[token[t].acct].email # Nil
           /\ \A q \in Requests : req[q].pc \notin {"idle", "update"} =>
                req[q].acct \in Accounts /\ cred[req[q].acct].email # Nil
  BY DEF TypeInv, TypeOK, Session, TokensTyped, SlotsTyped, SlotTyped, MailboxKept, Available

\* A handler that only moves on, and is neither the invalidation of a write nor
\* about to pay, changes nothing the properties look at.
LEMMA QuietStep ==
    ASSUME TypeInv, TypeInv', RecoveryInv,
           NEW r \in Requests, NEW slot,
           Goto(r, slot),
           UNCHANGED <<cred, token, jwts, orphan, spent>>,
           req[r].pc # "invalidate",
           slot.pc # "resetWrite",
           slot.pc \in {"idle", "update"}
             \/ (slot.acct \in Accounts /\ cred[slot.acct].email # Nil)
    PROVE  RecoveryInv'
  <1>1. /\ req'[r] = slot
        /\ \A q \in Requests \ {r} : req'[q] = req[q]
    BY DEF Goto, TypeInv, TypeOK
  <1>2. \A a \in Accounts : Excused(a) => Excused(a)'
    BY <1>1 DEF Excused
  <1>3. \A t \in Tokens : Unused(t)' => RowKept(t)
    BY DEF RowKept, Unused
  <1>4. \A t \in Tokens : Unused(t) => token[t].acct \in Accounts
    BY DEF Unused, TypeInv, TokensTyped
  <1>5. \A b \in Accounts : cred[b].ver \in Int
    BY DEF TypeInv, TypeOK, Credential
  <1>6. LiveTokensAreCurrent'
    BY <1>2, <1>3, <1>4, <1>5, CurrentStays DEF RecoveryInv, Unused, RowKept
  <1>7. LateTokensOnly'
    BY <1>3, LateStays DEF RecoveryInv
  <1>8. TokenInv'
    BY <1>1, AccountStays DEF RecoveryInv, Settled
  <1>9. MailboxKept'
    BY <1>1, MailboxStays, MailboxOf DEF RecoveryInv
  <1>10. QED
    BY <1>6, <1>7, <1>8, <1>9 DEF RecoveryInv
-----------------------------------------------------------------------------
(* The statements several handlers share. *)

\* A password write makes the account's tokens stale, and its own handler is
\* their excuse.
LEMMA WriteKeepsTokens ==
    ASSUME TypeInv, TypeInv', RecoveryInv,
           NEW r \in Requests, NEW pw \in Passwords,
           NEW must \in BOOLEAN, NEW replies \in BOOLEAN,
           req[r].pc \in {"changeWrite", "resend", "resetWrite"},
           WritePassword(r, req[r].acct, pw, must, replies)
    PROVE  /\ LiveTokensAreCurrent'
           /\ LateTokensOnly'
           /\ MailboxKept'
  <1> DEFINE a == req[r].acct
  <1>1. a \in Accounts /\ cred[a].email # Nil
    BY MailboxOf DEF RecoveryInv
  <1>2. TypeOK /\ SlotsTyped
    BY DEF TypeInv
  <1>3. /\ cred'[a].email = cred[a].email
        /\ \A b \in Accounts \ {a} : cred'[b] = cred[b]
        /\ req'[r].pc = "invalidate"
        /\ req'[r].acct = a
        /\ \A q \in Requests \ {r} : req'[q] = req[q]
        /\ UNCHANGED <<token, jwts, aborts, orphan>>
    BY <1>1, <1>2, WriteEffect
  <1>4. \A t \in Tokens : Unused(t)' => RowKept(t) /\ token[t].acct \in Accounts
    BY <1>3 DEF RowKept, Unused, TypeInv, TokensTyped
  <1>5. Excused(a)'
    BY <1>3 DEF Excused
  <1>6. \A b \in Accounts \ {a} : Excused(b) => Excused(b)'
    BY <1>3 DEF Excused
  <1>7. \A b \in Accounts : cred'[b].ver \in Int
    BY DEF TypeInv, TypeOK, Credential
  <1>8. LiveTokensAreCurrent'
    <2>1. ASSUME NEW t \in Tokens, Unused(t)'
          PROVE  \/ Excused(token[t].acct)'
                 \/ /\ RowKept(t)
                    /\ cred'[token[t].acct].ver = cred[token[t].acct].ver
                    /\ Excused(token[t].acct) => Excused(token[t].acct)'
      <3>1. RowKept(t) /\ token[t].acct \in Accounts /\ token'[t] = token[t]
        BY <1>3, <1>4, <2>1
      <3>2. CASE token[t].acct = a
        <4>1. token'[t].acct = a
          BY <3>1, <3>2
        <4>2. a' = a
          BY <1>3
        <4>3. QED
          BY <1>3, <3>1, <4>1 DEF Excused
      <3>3. CASE token[t].acct # a
        BY <1>3, <1>6, <3>1, <3>3 DEF Excused
      <3>4. QED
        BY <3>2, <3>3
    <2>2. QED
      BY <1>3, <1>4, <1>7, <2>1, CurrentStays DEF RecoveryInv
  <1>9. LateTokensOnly'
    BY <1>3, <1>4, LateStays DEF RecoveryInv
  <1>10. MailboxKept'
    BY <1>1, <1>3, MailboxStays, MailboxOf DEF RecoveryInv
  <1>11. QED
    BY <1>8, <1>9, <1>10

\* Killing the tokens of the handler's account leaves none of them to excuse or
\* to be out of date.
LEMMA KillKeepsRecovery ==
    ASSUME TypeInv, TypeInv', RecoveryInv,
           NEW r \in Requests, NEW slot, NEW a \in Accounts,
           Goto(r, slot), a = req[r].acct,
           KillTokens(a),
           UNCHANGED <<jwts, spent>>,
           \A b \in Accounts : cred'[b].ver = cred[b].ver,
           \A b \in Accounts \ {a} : cred'[b].email = cred[b].email,
           cred[a].email # Nil => cred'[a].email # Nil,
           slot.pc # "resetWrite",
           slot.pc \in {"idle", "update"}
             \/ (slot.acct \in Accounts /\ cred[slot.acct].email # Nil)
    PROVE  RecoveryInv'
  <1>1. /\ req'[r] = slot
        /\ \A q \in Requests \ {r} : req'[q] = req[q]
    BY DEF Goto, TypeInv, TypeOK
  <1>2. TypeOK /\ TokensTyped
    BY DEF TypeInv
  <1>3. \A t \in Tokens :
          /\ token'[t].acct = token[t].acct
          /\ \/ token'[t] = token[t] /\ ~ (Unused(t) /\ token[t].acct = a)
             \/ token'[t].state = "used" /\ Unused(t) /\ token[t].acct = a
    BY <1>2, KillEffect
  <1>4. \A b \in Accounts \ {a} : orphan'[b] = orphan[b]
    BY <1>2, KillEffect
  <1>5. ASSUME NEW t \in Tokens, Unused(t)'
        PROVE  RowKept(t) /\ token[t].acct \in Accounts \ {a}
    <2>1. token'[t] = token[t] /\ ~ (Unused(t) /\ token[t].acct = a)
      BY <1>3, <1>5 DEF Unused
    <2>2. Unused(t)
      BY <1>5, <2>1 DEF Unused
    <2>3. QED
      BY <1>2, <2>1, <2>2 DEF RowKept, TokensTyped, Unused
  <1>6. \A b \in Accounts \ {a} : Excused(b) => Excused(b)'
    BY <1>1, <1>4 DEF Excused
  <1>7. \A b \in Accounts : cred'[b].ver \in Int
    BY DEF TypeInv, TypeOK, Credential
  <1>8. \A t \in Tokens : Unused(t)' =>
          (Excused(token[t].acct) => Excused(token[t].acct)')
    <2> SUFFICES ASSUME NEW t \in Tokens, Unused(t)', Excused(token[t].acct)
                 PROVE  Excused(token[t].acct)'
      OBVIOUS
    <2>1. token'[t].acct = token[t].acct /\ token[t].acct \in Accounts \ {a}
      BY <1>5 DEF RowKept
    <2>2. \/ orphan'[token[t].acct]
          \/ \E q \in Requests : req'[q].pc = "invalidate" /\ req'[q].acct = token[t].acct
      BY <1>1, <1>4, <2>1 DEF Excused
    <2>3. QED
      BY <2>1, <2>2 DEF Excused
  <1>9. LiveTokensAreCurrent'
    BY <1>5, <1>7, <1>8, CurrentStays DEF RecoveryInv, RowKept
  <1>10. LateTokensOnly'
    BY <1>5, LateStays DEF RecoveryInv
  <1>11. TokenInv'
    <2>1. \A t \in Tokens : Settled(t) => Settled(t)'
      BY <1>3 DEF Settled
    <2>2. QED
      BY <1>1, <2>1, AccountStays DEF RecoveryInv
  <1>12. MailboxKept'
    <2>1. \A t \in Tokens : token'[t].state \in {"unsent", "live", "used"} =>
                              token[t].state \in {"unsent", "live", "used"}
      BY <1>3 DEF Unused
    <2>2. \A t \in Tokens : token'[t].state \in {"unsent", "live", "used"} =>
            token'[t].acct \in Accounts /\ cred[token'[t].acct].email # Nil
      BY <1>3, <2>1, MailboxOf DEF RecoveryInv
    <2>3. \A b \in Accounts : cred[b].email # Nil => cred'[b].email # Nil
      OBVIOUS
    <2>4. QED
      BY <1>1, <2>2, <2>3, MailboxStays, MailboxOf DEF RecoveryInv
  <1>13. QED
    BY <1>9, <1>10, <1>11, <1>12 DEF RecoveryInv
-----------------------------------------------------------------------------
(* Every step of the specification. *)

\* A login, a request let in by the guard, a recipient or a token found: the
\* handler starts with an account that has an email, or as an update.
LEMMA ArriveStep ==
    ASSUME TypeInv, TypeInv', RecoveryInv, NEW r \in Requests, Arrive(r)
    PROVE  RecoveryInv'
  <1> USE DEF RecoveryInv
  <1>0. Idle.pc = "idle" /\ \A a \in Administrators : cred[a].email # Nil
    BY DEF Idle, MailboxKept
  <1>1. ASSUME NEW a \in Accounts, Login(r, a)
       PROVE  RecoveryInv'
    <2> DEFINE slot == [Idle EXCEPT !.pc = "reply", !.acct = a, !.pw = cred[a].pw,
                                    !.ver = cred[a].ver]
    <2>1. slot.pc = "reply" /\ slot.acct = a
      BY DEF Idle
    <2>2. /\ Goto(r, slot)
          /\ req[r].pc = "idle"
          /\ UNCHANGED <<cred, token, jwts, orphan, spent>>
      BY <1>1, <1>0 DEF Login
    <2>3. a \in Accounts /\ cred[a].email # Nil
      BY <1>1, <1>0, MailboxOf DEF Login
    <2> HIDE DEF slot
    <2>4. QED
      BY <2>1, <2>2, <2>3, QuietStep
  <1>2. ASSUME NEW s \in jwts, AdmitChange(r, s)
       PROVE  RecoveryInv'
    <2> DEFINE slot == [Idle EXCEPT !.pc = "change", !.acct = s.acct]
    <2>1. slot.pc = "change" /\ slot.acct = s.acct
      BY DEF Idle
    <2>2. /\ Goto(r, slot)
          /\ req[r].pc = "idle"
          /\ UNCHANGED <<cred, token, jwts, orphan, spent>>
      BY <1>2, <1>0 DEF AdmitChange
    <2>3. s.acct \in Accounts /\ cred[s.acct].email # Nil
      BY <1>2, <1>0, MailboxOf DEF AdmitChange
    <2> HIDE DEF slot
    <2>4. QED
      BY <2>1, <2>2, <2>3, QuietStep
  <1>3. ASSUME NEW s \in jwts, NEW target \in Administrators, AdmitResend(r, s, target)
       PROVE  RecoveryInv'
    <2> DEFINE slot == [Idle EXCEPT !.pc = "resend", !.acct = target]
    <2>1. slot.pc = "resend" /\ slot.acct = target
      BY DEF Idle
    <2>2. /\ Goto(r, slot)
          /\ req[r].pc = "idle"
          /\ UNCHANGED <<cred, token, jwts, orphan, spent>>
      BY <1>3, <1>0 DEF AdmitResend
    <2>3. target \in Accounts /\ cred[target].email # Nil
      BY <1>3, <1>0, MailboxOf DEF AdmitResend
    <2> HIDE DEF slot
    <2>4. QED
      BY <2>1, <2>2, <2>3, QuietStep
  <1>4. ASSUME NEW s \in jwts, NEW target \in Accounts, AdmitUpdate(r, s, target)
       PROVE  RecoveryInv'
    <2> DEFINE slot == [Idle EXCEPT !.pc = "update", !.acct = target]
    <2>1. slot.pc = "update" /\ slot.acct = target
      BY DEF Idle
    <2>2. /\ Goto(r, slot)
          /\ req[r].pc = "idle"
          /\ UNCHANGED <<cred, token, jwts, orphan, spent>>
      BY <1>4, <1>0 DEF AdmitUpdate
    <2> HIDE DEF slot
    <2>3. QED
      BY <2>1, <2>2, QuietStep
  <1>5. ASSUME NEW a \in Accounts, FindRecipient(r, a)
       PROVE  RecoveryInv'
    <2> DEFINE slot == [Idle EXCEPT !.pc = "forgotRetire", !.acct = a,
                                    !.email = cred[a].email]
    <2>1. slot.pc = "forgotRetire" /\ slot.acct = a
      BY DEF Idle
    <2>2. /\ Goto(r, slot)
          /\ req[r].pc = "idle"
          /\ UNCHANGED <<cred, token, jwts, orphan, spent>>
      BY <1>5, <1>0 DEF FindRecipient
    <2>3. a \in Accounts /\ cred[a].email # Nil
      BY <1>5, <1>0, MailboxOf DEF FindRecipient, Recoverable
    <2> HIDE DEF slot
    <2>4. QED
      BY <2>1, <2>2, <2>3, QuietStep
  <1>6. ASSUME NEW t \in Tokens, FindToken(r, t)
       PROVE  RecoveryInv'
    <2> DEFINE slot == [Idle EXCEPT !.pc = "resetConsume", !.tok = t,
                                    !.acct = token[t].acct]
    <2>1. slot.pc = "resetConsume" /\ slot.acct = token[t].acct
      BY DEF Idle
    <2>2. /\ Goto(r, slot)
          /\ req[r].pc = "idle"
          /\ UNCHANGED <<cred, token, jwts, orphan, spent>>
      BY <1>6, <1>0 DEF FindToken
    <2>3. token[t].acct \in Accounts /\ cred[token[t].acct].email # Nil
      BY <1>6, <1>0, MailboxOf DEF FindToken
    <2> HIDE DEF slot
    <2>4. QED
      BY <2>1, <2>2, <2>3, QuietStep
  <1>7. QED
    BY <1>1, <1>2, <1>3, <1>4, <1>5, <1>6 DEF Arrive

\* A handler that ends where it stands: a refusal, a mail that was not sent.
LEMMA FinishStep ==
    ASSUME TypeInv, TypeInv', RecoveryInv, NEW r \in Requests,
           Finish(r), req[r].pc # "invalidate",
           UNCHANGED <<cred, token, jwts, orphan, spent>>
    PROVE  RecoveryInv'
  <1>1. Idle.pc = "idle"
    BY DEF Idle
  <1>2. QED
    BY <1>1, QuietStep DEF Finish

\* The reply signs a session for an account that has an email.
LEMMA ReplyStep ==
    ASSUME TypeInv, TypeInv', RecoveryInv, NEW r \in Requests, Reply(r)
    PROVE  RecoveryInv'
  <1>1. /\ req'[r].pc = "idle"
        /\ \A q \in Requests \ {r} : req'[q] = req[q]
        /\ req[r].pc = "reply"
        /\ UNCHANGED <<cred, token, orphan, spent>>
    BY DEF Reply, Finish, Goto, Idle, TypeInv, TypeOK
  <1>2. \A s \in jwts' : s \in jwts \/ s.acct = req[r].acct
    BY DEF Reply
  <1>3. \A a \in Accounts : Excused(a) => Excused(a)'
    BY <1>1 DEF Excused
  <1>4. \A t \in Tokens : Unused(t)' => RowKept(t) /\ token[t].acct \in Accounts
    BY <1>1 DEF RowKept, Unused, TypeInv, TokensTyped
  <1>5. \A b \in Accounts : cred'[b].ver \in Int
    BY DEF TypeInv, TypeOK, Credential
  <1>6. LiveTokensAreCurrent'
    BY <1>1, <1>3, <1>4, <1>5, CurrentStays DEF RecoveryInv
  <1>7. LateTokensOnly'
    BY <1>1, <1>4, LateStays DEF RecoveryInv
  <1>8. TokenInv'
    BY <1>1, AccountStays DEF RecoveryInv, Settled
  <1>9. MailboxKept'
    BY <1>1, <1>2, MailboxStays, MailboxOf DEF RecoveryInv
  <1>10. QED
    BY <1>6, <1>7, <1>8, <1>9 DEF RecoveryInv

\* The transaction of an account update: with an email the account's tokens go.
LEMMA UpdateStep ==
    ASSUME TypeInv, TypeInv', RecoveryInv, NEW r \in Requests,
           NEW e \in Emails \union {Nil}, NEW active \in BOOLEAN, Update(r, e, active)
    PROVE  RecoveryInv'
  <1> DEFINE a == req[r].acct
  <1>1. a \in Accounts /\ Idle.pc = "idle"
    BY DEF Update, TypeInv, SlotsTyped, SlotTyped, Idle
  <1>2. /\ \A b \in Accounts : cred'[b].ver = cred[b].ver
        /\ \A b \in Accounts \ {a} : cred'[b].email = cred[b].email
        /\ cred'[a].email = IF e = Nil THEN cred[a].email ELSE e
    BY <1>1, ZenonT(40) DEF Update, TypeInv, TypeOK, Credential
  <1>3. Goto(r, Idle) /\ UNCHANGED <<jwts, spent>> /\ req[r].pc = "update"
    BY DEF Update, Finish
  <1>4. CASE e # Nil
    <2>1. KillTokens(a)
      BY <1>4 DEF Update
    <2>2. cred'[a].email # Nil
      BY <1>2, <1>4
    <2>3. QED
      BY <1>1, <1>2, <1>3, <2>1, <2>2, KillKeepsRecovery
  <1>5. CASE e = Nil
    <2>1. UNCHANGED <<token, orphan>>
      BY <1>5 DEF Update
    <2>2. \A b \in Accounts : cred'[b].email = cred[b].email
      BY <1>2, <1>5
    <2>3. /\ req'[r].pc = "idle"
          /\ \A q \in Requests \ {r} : req'[q] = req[q]
      BY <1>1, <1>3 DEF Goto, TypeInv, TypeOK
    <2>4. \A b \in Accounts : Excused(b) => Excused(b)'
      BY <1>3, <2>1, <2>3 DEF Excused
    <2>5. \A t \in Tokens : Unused(t)' => RowKept(t) /\ token[t].acct \in Accounts
      BY <2>1 DEF RowKept, Unused, TypeInv, TokensTyped
    <2>6. \A b \in Accounts : cred'[b].ver \in Int
      BY DEF TypeInv, TypeOK, Credential
    <2>7. LiveTokensAreCurrent'
      BY <1>2, <2>1, <2>4, <2>5, <2>6, CurrentStays DEF RecoveryInv
    <2>8. LateTokensOnly'
      BY <2>2, <2>5, LateStays DEF RecoveryInv
    <2>9. TokenInv'
      BY <1>3, <2>1, <2>3, AccountStays DEF RecoveryInv, Settled
    <2>10. MailboxKept'
      BY <1>3, <2>1, <2>2, <2>3, MailboxStays, MailboxOf DEF RecoveryInv
    <2>11. QED
      BY <2>7, <2>8, <2>9, <2>10 DEF RecoveryInv
  <1>6. QED
    BY <1>4, <1>5

\* What a step leaves of the invariant when it keeps rows or settles them and
\* moves one handler on: a purge, a mail sent, a token consumed or expired.
LEMMA RowsStep ==
    ASSUME TypeInv, TypeInv', RecoveryInv,
           UNCHANGED <<cred, jwts, orphan>>,
           \A t \in Tokens : RowKept(t) \/ ~ Unused(t)',
           \A t \in Tokens : token'[t].state \in {"unsent", "live", "used"} =>
             /\ token[t].state \in {"unsent", "live", "used"}
             /\ token'[t].acct = token[t].acct,
           \A q \in Requests :
             \/ req'[q] = req[q]
             \/ /\ req[q].pc \notin {"idle", "update", "invalidate"}
                /\ \/ req'[q].pc = "idle"
                   \/ req'[q].acct = req[q].acct
    PROVE  LiveTokensAreCurrent' /\ LateTokensOnly' /\ MailboxKept'
  <1>1. \A a \in Accounts : Excused(a) => Excused(a)'
    BY DEF Excused
  <1>2. \A t \in Tokens : Unused(t)' => RowKept(t) /\ token[t].acct \in Accounts
    BY DEF RowKept, Unused, TypeInv, TokensTyped
  <1>3. \A b \in Accounts : cred'[b].ver \in Int
    BY DEF TypeInv, TypeOK, Credential
  <1>4. LiveTokensAreCurrent'
    BY <1>1, <1>2, <1>3, CurrentStays DEF RecoveryInv, RowKept
  <1>5. LateTokensOnly'
    BY <1>2, LateStays DEF RecoveryInv
  <1>6. MailboxKept'
    BY MailboxStays, MailboxOf DEF RecoveryInv
  <1>7. QED
    BY <1>4, <1>5, <1>6

\* A purge empties rows that expired, whoever's they are.
LEMMA PurgeStep ==
    ASSUME TypeInv, TypeInv', RecoveryInv, NEW r \in Requests,
           NEW kept \in SUBSET Tokens, PurgeExpired(r, kept)
    PROVE  RecoveryInv'
  <1>1. \A t \in Tokens : \/ token'[t] = token[t]
                         \/ token'[t].state = "gone"
    BY PurgeEffect DEF TypeInv
  <1>2. /\ req'[r] = [req[r] EXCEPT !.pc = "forgotCreate"]
        /\ \A q \in Requests \ {r} : req'[q] = req[q]
        /\ req[r].pc = "forgotPurge"
        /\ req[r] \in RequestSlot
        /\ UNCHANGED <<cred, jwts, orphan, spent>>
    BY DEF PurgeExpired, Goto, TypeInv, TypeOK
  <1>3. req'[r].pc = "forgotCreate" /\ req'[r].acct = req[r].acct
    BY <1>2 DEF RequestSlot
  <1>4. \A t \in Tokens : RowKept(t) \/ ~ Unused(t)'
    BY <1>1 DEF RowKept, Unused
  <1>5. \A t \in Tokens : Settled(t) => Settled(t)'
    BY <1>1 DEF Settled
  <1>6. LiveTokensAreCurrent' /\ LateTokensOnly' /\ MailboxKept'
    BY <1>1, <1>2, <1>3, <1>4, RowsStep
  <1>7. TokenInv'
    BY <1>2, <1>3, <1>5, AccountStays DEF RecoveryInv
  <1>8. QED
    BY <1>6, <1>7 DEF RecoveryInv

\* A row inserted is of the version stored, and tells whether its address is.
LEMMA InsertStep ==
    ASSUME TypeInv, TypeInv', RecoveryInv, NEW r \in Requests, NEW t \in Tokens,
           InsertToken(r, t)
    PROVE  RecoveryInv'
  <1> DEFINE a == req[r].acct
  <1>1. /\ req'[r] = [req[r] EXCEPT !.pc = "forgotSend", !.tok = t]
        /\ \A q \in Requests \ {r} : req'[q] = req[q]
        /\ req[r].pc = "forgotCreate"
        /\ req[r] \in RequestSlot
        /\ token[t].state = "none"
        /\ UNCHANGED <<cred, jwts, orphan, spent>>
    BY DEF InsertToken, Goto, TypeInv, TypeOK
  <1>2. req'[r].pc = "forgotSend" /\ req'[r].acct = a
    BY <1>1 DEF RequestSlot
  <1>3. a \in Accounts /\ cred[a].email # Nil
    BY <1>1, MailboxOf DEF RecoveryInv
  <1>4. /\ token'[t].acct = a
        /\ token'[t].email = req[r].email
        /\ token'[t].born = cred[a].ver
        /\ token'[t].late = (req[r].email # cred[a].email)
        /\ token'[t].state = "unsent"
        /\ \A u \in Tokens \ {t} : token'[u] = token[u]
    BY DEF InsertToken, TypeInv, TypeOK
  <1>5. \A u \in Tokens \ {t} : Unused(u)' => RowKept(u) /\ token[u].acct \in Accounts
    BY <1>4 DEF RowKept, Unused, TypeInv, TokensTyped
  <1>6. \A b \in Accounts : Excused(b) => Excused(b)'
    BY <1>1, <1>2 DEF Excused
  <1>7. \A b \in Accounts : cred'[b].ver \in Int
    BY DEF TypeInv, TypeOK, Credential
  <1>8. LiveTokensAreCurrent'
    <2>1. token'[t].born = cred'[token'[t].acct].ver
      BY <1>1, <1>4
    <2>2. \A u \in Tokens : Unused(u)' => token'[u].acct \in Accounts
      BY <1>3, <1>4, <1>5
    <2>3. ASSUME NEW u \in Tokens, Unused(u)'
          PROVE  \/ token'[u].born = cred'[token'[u].acct].ver
                 \/ /\ RowKept(u)
                    /\ cred'[token[u].acct].ver = cred[token[u].acct].ver
                    /\ Excused(token[u].acct) => Excused(token[u].acct)'
      <3>1. CASE u = t
        BY <2>1, <3>1
      <3>2. CASE u # t
        <4>1. RowKept(u) /\ token[u].acct \in Accounts /\ token'[u] = token[u]
          BY <1>4, <1>5, <2>3, <3>2
        <4>2. Excused(token[u].acct) => Excused(token[u].acct)'
          BY <1>6, <4>1 DEF Excused
        <4>3. QED
          BY <1>1, <4>1, <4>2
      <3>3. QED
        BY <3>1, <3>2
    <2>4. QED
      BY <1>7, <2>2, <2>3, CurrentStays DEF RecoveryInv
  <1>9. LateTokensOnly'
    <2>1. token'[t].late \/ token'[t].email = cred'[token'[t].acct].email
      BY <1>1, <1>4
    <2>2. QED
      BY <1>1, <1>5, <2>1, LateStays DEF RecoveryInv
  <1>10. TokenInv'
    <2>1. \A u \in Tokens : Settled(u) => Settled(u)'
      BY <1>1, <1>4 DEF Settled
    <2>2. QED
      BY <1>1, <1>2, <2>1, AccountStays DEF RecoveryInv
  <1>11. MailboxKept'
    <2>1. \A u \in Tokens : token'[u].state \in {"unsent", "live", "used"} =>
            token'[u].acct \in Accounts /\ cred[token'[u].acct].email # Nil
      BY <1>3, <1>4, MailboxOf DEF RecoveryInv
    <2>2. QED
      BY <1>1, <1>2, <1>3, <2>1, MailboxStays DEF RecoveryInv
  <1>12. QED
    BY <1>8, <1>9, <1>10, <1>11 DEF RecoveryInv

\* The mail reaches the mailbox: the row is live if nothing retired it before.
LEMMA SendStep ==
    ASSUME TypeInv, TypeInv', RecoveryInv, NEW r \in Requests, SendToken(r)
    PROVE  RecoveryInv'
  <1> DEFINE t == req[r].tok
  <1>1. /\ req'[r].pc = "idle"
        /\ \A q \in Requests \ {r} : req'[q] = req[q]
        /\ req[r].pc = "forgotSend"
        /\ t \in Tokens
        /\ UNCHANGED <<cred, jwts, orphan, spent>>
    BY DEF SendToken, Finish, Goto, Idle, TypeInv, TypeOK, SlotsTyped, SlotTyped
  <1>2. \A u \in Tokens :
          \/ token'[u] = token[u]
          \/ Unused(u) /\ RowKept(u) /\ token'[u].state = "live"
    <2>1. TypeOK /\ TokensTyped
      BY DEF TypeInv
    <2>2. CASE token[t].state = "unsent"
      <3>1. token' = [token EXCEPT ![t].state = "live"]
        BY <2>1, <2>2 DEF SendToken, TypeOK
      <3>2. token[t].acct \in Accounts
        BY <1>1, <2>1, <2>2 DEF TokensTyped
      <3>3. /\ token'[t].state = "live"
            /\ \A u \in Tokens \ {t} : token'[u] = token[u]
            /\ token'[t].acct = token[t].acct
            /\ token'[t].email = token[t].email
            /\ token'[t].born = token[t].born
            /\ token'[t].late = token[t].late
        BY <1>1, <2>1, <3>1, <3>2, MarkEffect
      <3>4. QED
        BY <2>2, <3>3 DEF RowKept, Unused
    <2>3. CASE token[t].state # "unsent"
      <3>1. token' = [token EXCEPT ![t].state = token[t].state]
        BY <2>1, <2>3 DEF SendToken, TypeOK
      <3>2. token' = token
        BY <1>1, <2>1, <3>1 DEF TypeOK, TokenRow
      <3>3. QED
        BY <3>2
    <2>4. QED
      BY <2>2, <2>3
  <1>3. \A u \in Tokens : RowKept(u) \/ ~ Unused(u)'
    BY <1>2 DEF RowKept, Unused
  <1>4. \A u \in Tokens : token'[u].state \in {"unsent", "live", "used"} =>
          /\ token[u].state \in {"unsent", "live", "used"}
          /\ token'[u].acct = token[u].acct
    BY <1>2 DEF RowKept, Unused
  <1>5. \A u \in Tokens : Settled(u) => Settled(u)'
    BY <1>2 DEF Settled, Unused
  <1>6. LiveTokensAreCurrent' /\ LateTokensOnly' /\ MailboxKept'
    BY <1>1, <1>3, <1>4, RowsStep
  <1>7. TokenInv'
    BY <1>1, <1>5, AccountStays DEF RecoveryInv
  <1>8. QED
    BY <1>6, <1>7 DEF RecoveryInv

\* The conditional update lets one request hold a token that nobody has paid
\* with: the row was unused, so no other handler holds it.
LEMMA ConsumeStep ==
    ASSUME TypeInv, TypeInv', RecoveryInv, NEW r \in Requests, ConsumeToken(r)
    PROVE  RecoveryInv'
  <1> DEFINE t == req[r].tok
  <1>1. /\ req'[r] = [req[r] EXCEPT !.pc = "resetWrite"]
        /\ \A q \in Requests \ {r} : req'[q] = req[q]
        /\ req[r].pc = "resetConsume"
        /\ req[r] \in RequestSlot
        /\ t \in Tokens
        /\ UNCHANGED <<cred, jwts, orphan, spent>>
    BY DEF ConsumeToken, Goto, TypeInv, TypeOK, SlotsTyped, SlotTyped
  <1>2. req'[r].pc = "resetWrite" /\ req'[r].acct = req[r].acct /\ req'[r].tok = t
    BY <1>1 DEF RequestSlot
  <1>3. Unused(t)
    BY DEF ConsumeToken
  <1>4. /\ token'[t].state = "used"
        /\ token'[t].acct = token[t].acct
        /\ \A u \in Tokens \ {t} : token'[u] = token[u]
    <2>1. token' = [token EXCEPT ![t].state = "used"]
      BY DEF ConsumeToken
    <2>2. TypeOK /\ TokensTyped /\ token[t].acct \in Accounts
      BY <1>1, <1>3 DEF TypeInv, TokensTyped, Unused
    <2>3. QED
      BY <1>1, <2>1, <2>2, MarkEffect
  <1>5. \A u \in Tokens : RowKept(u) \/ ~ Unused(u)'
    BY <1>4 DEF RowKept, Unused
  <1>6. LiveTokensAreCurrent' /\ LateTokensOnly' /\ MailboxKept'
    BY <1>1, <1>2, <1>3, <1>4, <1>5, RowsStep DEF Unused
  <1>7. spent[t] = 0
    BY <1>1, <1>3 DEF RecoveryInv, TokenInv, TokensAccounted, Unused
  <1>8. \A q \in Requests : req[q].pc = "resetWrite" => req[q].tok # t /\ q # r
    BY <1>1, <1>3 DEF RecoveryInv, TokenInv, TokensAccounted, Unused
  <1>9. TokensAccounted'
    <2>1. \A u \in Tokens : token'[u].state \in {"none", "unsent", "live"} => spent'[u] = 0
      BY <1>1, <1>4 DEF RecoveryInv, TokenInv, TokensAccounted
    <2>2. ASSUME NEW p \in Requests, req'[p].pc = "resetWrite"
          PROVE  /\ token'[req'[p].tok].state \in {"used", "gone"}
                 /\ spent'[req'[p].tok] = 0
                 /\ \A q \in Requests :
                      req'[q].pc = "resetWrite" /\ req'[q].tok = req'[p].tok => q = p
      <3>1. CASE p = r
        BY <1>1, <1>2, <1>4, <1>7, <1>8, <3>1
      <3>2. CASE p # r
        <4>1. req'[p] = req[p] /\ req[p].tok # t /\ req[p].tok \in Tokens
          BY <1>1, <1>8, <2>2, <3>2 DEF TypeInv, SlotsTyped, SlotTyped
        <4>2. /\ token[req[p].tok].state \in {"used", "gone"}
              /\ spent[req[p].tok] = 0
              /\ \A q \in Requests :
                   req[q].pc = "resetWrite" /\ req[q].tok = req[p].tok => q = p
          BY <2>2, <4>1 DEF RecoveryInv, TokenInv, TokensAccounted
        <4>3. token'[req[p].tok] = token[req[p].tok]
          BY <1>4, <4>1
        <4>4. ASSUME NEW q \in Requests, req'[q].pc = "resetWrite",
                     req'[q].tok = req[p].tok
              PROVE  q = p
          <5>1. q # r
            BY <1>2, <4>1, <4>4
          <5>2. req'[q] = req[q]
            BY <1>1, <5>1
          <5>3. QED
            BY <4>2, <4>4, <5>2
        <4>5. QED
          BY <1>1, <4>1, <4>2, <4>3, <4>4
      <3>3. QED
        BY <3>1, <3>2
    <2>3. QED
      BY <2>1, <2>2 DEF TokensAccounted
  <1>10. TokenSpentOnce'
    BY <1>1 DEF RecoveryInv, TokenInv, TokenSpentOnce
  <1>11. QED
    BY <1>6, <1>9, <1>10 DEF RecoveryInv, TokenInv

\* The token pays for the write: it had not, and it is settled.
LEMMA ResetStep ==
    ASSUME TypeInv, TypeInv', RecoveryInv, NEW r \in Requests,
           NEW new \in Passwords, ResetWrite(r, new)
    PROVE  RecoveryInv'
  <1> DEFINE t == req[r].tok
  <1>1. /\ req[r].pc = "resetWrite"
        /\ WritePassword(r, req[r].acct, new, FALSE, FALSE)
        /\ spent' = [spent EXCEPT ![t] = @ + 1]
    BY DEF ResetWrite
  <1>2. LiveTokensAreCurrent' /\ LateTokensOnly' /\ MailboxKept'
    BY <1>1, WriteKeepsTokens
  <1>3. /\ req'[r].pc = "invalidate"
        /\ \A q \in Requests \ {r} : req'[q] = req[q]
        /\ token' = token
    <2>1. TypeOK /\ SlotsTyped /\ req[r].acct \in Accounts
      BY <1>1 DEF TypeInv, SlotsTyped, SlotTyped
    <2>2. QED
      BY <1>1, <2>1, WriteEffect
  <1>4. /\ t \in Tokens
        /\ token[t].state \in {"used", "gone"}
        /\ spent[t] = 0
        /\ \A q \in Requests : req[q].pc = "resetWrite" /\ req[q].tok = t => q = r
    BY <1>1 DEF RecoveryInv, TokenInv, TokensAccounted, TypeInv, SlotsTyped, SlotTyped
  <1>5. spent'[t] = 1 /\ \A u \in Tokens \ {t} : spent'[u] = spent[u]
    BY <1>1, <1>4 DEF TypeInv, TypeOK
  <1>6. TokenSpentOnce'
    BY <1>5 DEF RecoveryInv, TokenInv, TokenSpentOnce
  <1>7. TokensAccounted'
    <2>1. \A u \in Tokens : token'[u].state \in {"none", "unsent", "live"} => spent'[u] = 0
      BY <1>3, <1>4, <1>5 DEF RecoveryInv, TokenInv, TokensAccounted
    <2>2. ASSUME NEW p \in Requests, req'[p].pc = "resetWrite"
          PROVE  /\ token'[req'[p].tok].state \in {"used", "gone"}
                 /\ spent'[req'[p].tok] = 0
                 /\ \A q \in Requests :
                      req'[q].pc = "resetWrite" /\ req'[q].tok = req'[p].tok => q = p
      <3>1. p # r /\ req'[p] = req[p] /\ req[p].tok \in Tokens \ {t}
        BY <1>3, <1>4, <2>2 DEF TypeInv, SlotsTyped, SlotTyped
      <3>2. /\ token[req[p].tok].state \in {"used", "gone"}
            /\ spent[req[p].tok] = 0
            /\ \A q \in Requests :
                 req[q].pc = "resetWrite" /\ req[q].tok = req[p].tok => q = p
        BY <2>2, <3>1 DEF RecoveryInv, TokenInv, TokensAccounted
      <3>3. QED
        BY <1>3, <1>5, <3>1, <3>2
    <2>3. QED
      BY <2>1, <2>2 DEF TokensAccounted
  <1>8. QED
    BY <1>2, <1>6, <1>7 DEF RecoveryInv, TokenInv

\* A handler cut off between a write and its invalidation leaves the tokens of
\* its account excused.
LEMMA AbortStep ==
    ASSUME TypeInv, TypeInv', RecoveryInv, NEW r \in Requests, Abort(r)
    PROVE  RecoveryInv'
  <1>1. /\ req'[r].pc = "idle"
        /\ \A q \in Requests \ {r} : req'[q] = req[q]
        /\ UNCHANGED <<cred, token, jwts, spent>>
    BY DEF Abort, Finish, Goto, Idle, TypeInv, TypeOK
  <1>2. \A a \in Accounts : Excused(a) => Excused(a)'
    <2> SUFFICES ASSUME NEW a \in Accounts, Excused(a)
                 PROVE  Excused(a)'
      OBVIOUS
    <2>1. orphan[a] => orphan'[a]
      BY DEF Abort, TypeInv, TypeOK
    <2>2. req[r].pc = "invalidate" /\ req[r].acct = a => orphan'[a]
      BY DEF Abort, TypeInv, TypeOK
    <2>3. QED
      BY <1>1, <2>1, <2>2 DEF Excused
  <1>3. \A t \in Tokens : Unused(t)' => RowKept(t) /\ token[t].acct \in Accounts
    BY <1>1 DEF RowKept, Unused, TypeInv, TokensTyped
  <1>4. \A b \in Accounts : cred'[b].ver \in Int
    BY DEF TypeInv, TypeOK, Credential
  <1>5. LiveTokensAreCurrent'
    <2>1. ASSUME NEW t \in Tokens, Unused(t)'
          PROVE  /\ RowKept(t)
                 /\ cred'[token[t].acct].ver = cred[token[t].acct].ver
                 /\ Excused(token[t].acct) => Excused(token[t].acct)'
      <3>1. RowKept(t) /\ token[t].acct \in Accounts /\ token' = token
        BY <1>1, <1>3, <2>1
      <3>2. Excused(token[t].acct) => Excused(token[t].acct)'
        BY <1>2, <3>1 DEF Excused
      <3>3. QED
        BY <1>1, <3>1, <3>2
    <2>2. QED
      BY <1>1, <1>3, <1>4, <2>1, CurrentStays DEF RecoveryInv
  <1>6. LateTokensOnly'
    BY <1>1, <1>3, LateStays DEF RecoveryInv
  <1>7. TokenInv'
    BY <1>1, AccountStays DEF RecoveryInv, Settled
  <1>8. MailboxKept'
    BY <1>1, MailboxStays, MailboxOf DEF RecoveryInv
  <1>9. QED
    BY <1>5, <1>6, <1>7, <1>8 DEF RecoveryInv

\* Time passes for one row.
LEMMA ExpireStep ==
    ASSUME TypeInv, TypeInv', RecoveryInv, NEW t \in Tokens, Expire(t)
    PROVE  RecoveryInv'
  <1>1. UNCHANGED <<cred, jwts, req, orphan, spent>>
    BY DEF Expire
  <1>2. \A u \in Tokens : /\ token'[u].state = token[u].state
                         /\ token'[u].acct = token[u].acct
                         /\ token'[u].email = token[u].email
                         /\ token'[u].born = token[u].born
                         /\ token'[u].late = token[u].late
    <2>1. token[t] \in TokenRow
      BY DEF TypeInv, TypeOK
    <2>2. /\ token'[t] = [token[t] EXCEPT !.expired = TRUE]
          /\ \A u \in Tokens \ {t} : token'[u] = token[u]
      BY DEF Expire, TypeInv, TypeOK
    <2>3. QED
      BY <2>1, <2>2 DEF TokenRow
  <1>3. \A u \in Tokens : RowKept(u) \/ ~ Unused(u)'
    BY <1>2 DEF RowKept, Unused
  <1>4. LiveTokensAreCurrent' /\ LateTokensOnly' /\ MailboxKept'
    BY <1>1, <1>2, <1>3, RowsStep
  <1>5. TokenInv'
    BY <1>1, <1>2, AccountStays DEF RecoveryInv, Settled
  <1>6. QED
    BY <1>4, <1>5 DEF RecoveryInv

\* The step of a request in flight, its abort included.
LEMMA RequestStep ==
    ASSUME TypeInv, TypeInv', RecoveryInv, NEW r \in Requests,
           Continue(r) \/ Abort(r)
    PROVE  RecoveryInv'
  <1>0. /\ Idle.pc = "idle"
        /\ req[r] \in RequestSlot
    BY DEF Idle, TypeInv, TypeOK
  <1>1. CASE Reply(r)
    BY <1>1, ReplyStep
  <1>2. ASSUME NEW new \in Passwords, CheckCurrentPassword(r, new)
        PROVE  RecoveryInv'
    <2> DEFINE slot == [Idle EXCEPT !.pc = "changeWrite", !.acct = req[r].acct,
                                    !.pw = new, !.ver = cred[req[r].acct].ver]
    <2>1. slot.pc = "changeWrite" /\ slot.acct = req[r].acct
      BY DEF Idle
    <2>2. /\ Goto(r, slot)
          /\ req[r].pc = "change"
          /\ UNCHANGED <<cred, token, jwts, orphan, spent>>
      BY <1>2 DEF CheckCurrentPassword
    <2>3. req[r].acct \in Accounts /\ cred[req[r].acct].email # Nil
      BY <2>2, MailboxOf DEF RecoveryInv
    <2> HIDE DEF slot
    <2>4. QED
      BY <2>1, <2>2, <2>3, QuietStep
  <1>3. ASSUME NEW pw \in Passwords, NEW must \in BOOLEAN, NEW replies \in BOOLEAN,
               req[r].pc \in {"changeWrite", "resend"}, UNCHANGED spent,
               WritePassword(r, req[r].acct, pw, must, replies)
        PROVE  RecoveryInv'
    <2>1. LiveTokensAreCurrent' /\ LateTokensOnly' /\ MailboxKept'
      BY <1>3, WriteKeepsTokens
    <2>2. TypeOK /\ SlotsTyped /\ req[r].acct \in Accounts
      BY <1>3 DEF TypeInv, SlotsTyped, SlotTyped
    <2>3. /\ req'[r].pc = "invalidate"
          /\ \A q \in Requests \ {r} : req'[q] = req[q]
          /\ token' = token
      BY <1>3, <2>2, WriteEffect
    <2>4. TokenInv'
      BY <1>3, <2>3, AccountStays DEF RecoveryInv, Settled
    <2>5. QED
      BY <2>1, <2>4 DEF RecoveryInv
  <1>4. CASE ChangeWrite(r)
    <2>1. req[r].pw \in Passwords
      BY <1>4 DEF ChangeWrite, TypeInv, SlotsTyped, SlotTyped
    <2>2. QED
      BY <1>3, <1>4, <2>1 DEF ChangeWrite
  <1>5. ASSUME NEW temporary \in Passwords, ResendWrite(r, temporary)
        PROVE  RecoveryInv'
    BY <1>3, <1>5 DEF ResendWrite
  <1>6. CASE Invalidate(r)
    <2> DEFINE slot == [req[r] EXCEPT !.pc = "reply", !.email = Nil, !.replies = FALSE]
    <2>1. slot.pc = "reply" /\ slot.acct = req[r].acct
      BY <1>0 DEF RequestSlot
    <2>2. /\ req[r].pc = "invalidate"
          /\ KillTokens(req[r].acct)
          /\ Goto(r, slot) \/ Goto(r, Idle)
          /\ UNCHANGED <<cred, jwts, spent>>
      BY <1>6 DEF Invalidate, Finish
    <2>3. req[r].acct \in Accounts /\ cred[req[r].acct].email # Nil
      BY <2>2, MailboxOf DEF RecoveryInv
    <2> HIDE DEF slot
    <2>4. QED
      BY <1>0, <2>1, <2>2, <2>3, KillKeepsRecovery
  <1>7. ASSUME NEW e \in Emails \union {Nil}, NEW active \in BOOLEAN,
               Update(r, e, active)
        PROVE  RecoveryInv'
    BY <1>7, UpdateStep
  <1>8. CASE RetireTokens(r)
    <2> DEFINE slot == [req[r] EXCEPT !.pc = "forgotPurge"]
    <2>1. slot.pc = "forgotPurge" /\ slot.acct = req[r].acct
      BY <1>0 DEF RequestSlot
    <2>2. /\ req[r].pc = "forgotRetire"
          /\ KillTokens(req[r].acct)
          /\ Goto(r, slot)
          /\ UNCHANGED <<cred, jwts, spent>>
      BY <1>8 DEF RetireTokens
    <2>3. req[r].acct \in Accounts /\ cred[req[r].acct].email # Nil
      BY <2>2, MailboxOf DEF RecoveryInv
    <2> HIDE DEF slot
    <2>4. QED
      BY <2>1, <2>2, <2>3, KillKeepsRecovery
  <1>9. ASSUME NEW kept \in SUBSET Tokens, PurgeExpired(r, kept)
        PROVE  RecoveryInv'
    BY <1>9, PurgeStep
  <1>10. ASSUME NEW t \in Tokens, InsertToken(r, t)
         PROVE  RecoveryInv'
    BY <1>10, InsertStep
  <1>11. CASE SendToken(r)
    BY <1>11, SendStep
  <1>12. CASE SendFails(r)
    BY <1>12, FinishStep DEF SendFails
  <1>13. CASE ConsumeToken(r)
    BY <1>13, ConsumeStep
  <1>14. CASE RefuseToken(r)
    BY <1>14, FinishStep DEF RefuseToken
  <1>15. ASSUME NEW new \in Passwords, ResetWrite(r, new)
         PROVE  RecoveryInv'
    BY <1>15, ResetStep
  <1>16. CASE Refuse(r)
    BY <1>16, FinishStep DEF Refuse
  <1>17. CASE Abort(r)
    BY <1>17, AbortStep
  <1>18. QED
    BY <1>1, <1>2, <1>4, <1>5, <1>6, <1>7, <1>8, <1>9, <1>10, <1>11, <1>12,
       <1>13, <1>14, <1>15, <1>16, <1>17
    DEF Continue

-----------------------------------------------------------------------------
(* The theorems. *)

\* The token properties and what they rest on hold in every reachable state.
THEOREM TokensStayAccounted == Spec => [](TypeInv /\ RecoveryInv)
<1>1. Init /\ TypeInv => RecoveryInv
  <2> SUFFICES ASSUME Init, TypeInv
               PROVE  RecoveryInv
    OBVIOUS
  <2>1. \A t \in Tokens : token[t].state = "none" /\ spent[t] = 0
    BY DEF Init, NoRow
  <2>2. \A r \in Requests : req[r].pc = "idle"
    BY DEF Init, Idle
  <2>3. jwts = {} /\ \A a \in Administrators : cred[a].email # Nil
    BY DEF Init
  <2>4. LiveTokensAreCurrent /\ LateTokensOnly
    BY <2>1 DEF LiveTokensAreCurrent, LateTokensOnly, Unused
  <2>5. TokenInv
    BY <2>1, <2>2 DEF TokenInv, TokenSpentOnce, TokensAccounted
  <2>6. MailboxKept
    BY <2>1, <2>2, <2>3 DEF MailboxKept
  <2>7. QED
    BY <2>4, <2>5, <2>6 DEF RecoveryInv
<1>2. TypeInv /\ TypeInv' /\ RecoveryInv /\ [Next]_vars => RecoveryInv'
  <2> SUFFICES ASSUME TypeInv, TypeInv', RecoveryInv, [Next]_vars
               PROVE  RecoveryInv'
    OBVIOUS
  <2>1. ASSUME NEW r \in Requests, Arrive(r)
        PROVE  RecoveryInv'
    BY <2>1, ArriveStep
  <2>2. ASSUME NEW r \in Requests, Continue(r) \/ Abort(r)
        PROVE  RecoveryInv'
    BY <2>2, RequestStep
  <2>3. ASSUME NEW t \in Tokens, Expire(t)
        PROVE  RecoveryInv'
    BY <2>3, ExpireStep
  <2>4. CASE UNCHANGED vars
    BY <2>4 DEF vars, RecoveryInv, LiveTokensAreCurrent, LateTokensOnly, TokenInv,
                TokenSpentOnce, TokensAccounted, MailboxKept, Unused
  <2>5. QED
    BY <2>1, <2>2, <2>3, <2>4 DEF Next
<1>3. QED
  BY <1>1, <1>2, TypeInvariant, PTL DEF Spec

\* A recovery token pays for one password write at most, however many requests
\* present it together: the conditional update of consumeToken.
THEOREM TokensPayOnce == Spec => []TokenSpentOnce
<1>1. RecoveryInv => TokenSpentOnce
  BY DEF RecoveryInv, TokenInv
<1>2. QED
  BY <1>1, TokensStayAccounted, PTL

\* A password write leaves no older token usable but until its own invalidation,
\* or when that was lost to a crash.
THEOREM WritesRetireTokens == Spec => []LiveTokensAreCurrent
<1>1. RecoveryInv => LiveTokensAreCurrent
  BY DEF RecoveryInv
<1>2. QED
  BY <1>1, TokensStayAccounted, PTL

\* A change of email leaves no token usable that was mailed to the old address,
\* except those inserted after it by a request that had read that address.
THEOREM OldMailOnlyWhenLate == Spec => []LateTokensOnly
<1>1. RecoveryInv => LateTokensOnly
  BY DEF RecoveryInv
<1>2. QED
  BY <1>1, TokensStayAccounted, PTL

\* No handler writes a password to an account without an email, so the error
\* that updatePassword raises after its two writes is never reached.
THEOREM PasswordsHaveMailbox == Spec => []WritesHaveMailbox
<1>1. RecoveryInv => WritesHaveMailbox
  BY DEF RecoveryInv, MailboxKept, WritesHaveMailbox
<1>2. QED
  BY <1>1, TokensStayAccounted, PTL
=============================================================================
