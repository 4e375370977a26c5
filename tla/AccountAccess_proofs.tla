------------------------ MODULE AccountAccess_proofs ------------------------
(***************************************************************************)
(* Proofs of the safety properties of AccountAccess, for every set of      *)
(* accounts, passwords, tokens and requests and every bound.               *)
(***************************************************************************)
EXTENDS AccountAccess, TLAPS

USE AccountsAssumption, NilAssumption, BoundsAssumption
    DEF Accounts, Versions

-----------------------------------------------------------------------------
(* What the statements shared by the handlers do. *)

\* Goto replaces one slot and keeps the others.
LEMMA GotoEffect ==
    ASSUME TypeOK, SlotsTyped,
           NEW r \in Requests, NEW slot \in RequestSlot, SlotTyped(slot),
           Goto(r, slot)
    PROVE  /\ req' \in [Requests -> RequestSlot]
           /\ SlotsTyped'
           /\ req'[r] = slot
           /\ \A q \in Requests \ {r} : req'[q] = req[q]
  <1>1. /\ req' \in [Requests -> RequestSlot]
        /\ req'[r] = slot
        /\ \A q \in Requests \ {r} : req'[q] = req[q]
    BY DEF Goto, TypeOK
  <1>2. SlotsTyped'
    <2> SUFFICES ASSUME NEW q \in Requests
                 PROVE  SlotTyped(req'[q])
      BY DEF SlotsTyped, SlotTyped
    <2>1. req'[q] = slot \/ req'[q] = req[q]
      BY <1>1
    <2>2. QED
      BY <2>1 DEF SlotsTyped
  <1>3. QED
    BY <1>1, <1>2

\* An idle slot is well typed, so a handler may always end.
LEMMA IdleTyped == Idle \in RequestSlot /\ SlotTyped(Idle)
  BY DEF Idle, RequestSlot, SlotTyped, Places

\* A row whose password is written keeps its type.
LEMMA NewPasswordTyped ==
    ASSUME NEW c \in Credential, c.ver < MaxVersion,
           NEW pw \in Passwords, NEW must \in BOOLEAN
    PROVE  NewPassword(c, pw, must) \in Credential
  <1>1. c.ver + 1 \in Versions
    BY DEF Credential
  <1>2. ASSUME NEW v \in Versions
        PROVE  [c EXCEPT !.pw = pw, !.must = must, !.ver = v] \in Credential
    BY DEF Credential
  <1> HIDE DEF Versions
  <1>3. QED
    BY <1>1, <1>2 DEF NewPassword

\* WritePassword raises the version of one row by one and leaves the handler
\* holding that row.
LEMMA WriteEffect ==
    ASSUME TypeOK, SlotsTyped,
           NEW r \in Requests, NEW a \in Accounts, NEW pw \in Passwords,
           NEW must \in BOOLEAN, NEW replies \in BOOLEAN,
           WritePassword(r, a, pw, must, replies)
    PROVE  /\ cred' \in [Accounts -> Credential]
           /\ cred'[a].ver = cred[a].ver + 1
           /\ cred'[a].pw = pw
           /\ cred'[a].email = cred[a].email
           /\ \A b \in Accounts \ {a} : cred'[b] = cred[b]
           /\ req' \in [Requests -> RequestSlot]
           /\ SlotsTyped'
           /\ /\ req'[r].pc = "invalidate"
              /\ req'[r].acct = a
              /\ req'[r].pw = pw
              /\ req'[r].ver = cred[a].ver + 1
           /\ \A q \in Requests \ {r} : req'[q] = req[q]
           /\ UNCHANGED <<token, jwts, aborts, orphan>>
  <1> DEFINE slot == [Idle EXCEPT !.pc = "invalidate", !.acct = a, !.pw = pw,
                            !.ver = cred'[a].ver, !.email = cred'[a].email,
                            !.replies = replies]
  <1>1. cred[a] \in Credential /\ cred[a].ver < MaxVersion
    BY DEF WritePassword, TypeOK
  <1>2. NewPassword(cred[a], pw, must) \in Credential
    BY <1>1, NewPasswordTyped
  <1>3. /\ cred' \in [Accounts -> Credential]
        /\ cred'[a] = NewPassword(cred[a], pw, must)
        /\ \A b \in Accounts \ {a} : cred'[b] = cred[b]
    BY <1>2 DEF WritePassword, TypeOK
  <1>4. /\ cred'[a].ver = cred[a].ver + 1
        /\ cred'[a].pw = pw
        /\ cred'[a].email = cred[a].email
    BY <1>1, <1>3 DEF NewPassword, Credential
  <1>5. cred'[a].ver \in Versions /\ cred'[a].email \in Emails \union {Nil}
    BY <1>3 DEF Credential
  <1>6. slot \in RequestSlot /\ SlotTyped(slot)
    BY <1>5 DEF Idle, RequestSlot, SlotTyped, Places
  <1>7. Goto(r, slot)
    BY DEF WritePassword
  <1>8. /\ slot.pc = "invalidate"
        /\ slot.acct = a
        /\ slot.pw = pw
        /\ slot.ver = cred[a].ver + 1
    BY <1>4 DEF Idle
  <1>9. UNCHANGED <<token, jwts, aborts, orphan>>
    BY DEF WritePassword
  <1> HIDE DEF slot
  <1>10. QED
    BY <1>3, <1>4, <1>6, <1>7, <1>8, <1>9, GotoEffect

\* KillTokens marks the unused tokens of one account and touches no other row.
LEMMA KillEffect ==
    ASSUME TypeOK, TokensTyped, NEW a \in Accounts, KillTokens(a)
    PROVE  /\ token' \in [Tokens -> TokenRow]
           /\ TokensTyped'
           /\ orphan' \in [Accounts -> BOOLEAN]
           /\ \A b \in Accounts \ {a} : orphan'[b] = orphan[b]
           /\ \A t \in Tokens :
                /\ token'[t].acct = token[t].acct
                /\ token'[t].email = token[t].email
                /\ \/ token'[t] = token[t] /\ ~ (Unused(t) /\ token[t].acct = a)
                   \/ /\ token'[t].state = "used"
                      /\ Unused(t)
                      /\ token[t].acct = a
  <1>1. /\ orphan' \in [Accounts -> BOOLEAN]
        /\ \A b \in Accounts \ {a} : orphan'[b] = orphan[b]
    BY DEF KillTokens, TypeOK
  <1>2. ASSUME NEW t \in Tokens
        PROVE  /\ token'[t] \in TokenRow
               /\ token'[t].acct = token[t].acct
               /\ token'[t].email = token[t].email
               /\ \/ token'[t] = token[t] /\ ~ (Unused(t) /\ token[t].acct = a)
                  \/ /\ token'[t].state = "used"
                     /\ Unused(t)
                     /\ token[t].acct = a
    <2>1. token[t] \in TokenRow
      BY DEF TypeOK
    <2>2. token'[t] = IF Unused(t) /\ token[t].acct = a
                      THEN [token[t] EXCEPT !.state = "used"]
                      ELSE token[t]
      BY DEF KillTokens, UsedFor
    <2>3. QED
      BY <2>1, <2>2 DEF TokenRow
  <1>3. token' \in [Tokens -> TokenRow]
    BY <1>2 DEF KillTokens, UsedFor
  <1>4. TokensTyped'
    BY <1>2 DEF TokensTyped, Unused
  <1>5. QED
    BY <1>1, <1>2, <1>3, <1>4

\* Marking a row changes its state column and nothing else.
LEMMA MarkEffect ==
    ASSUME TypeOK, TokensTyped, NEW t \in Tokens,
           NEW state \in {"unsent", "live", "used"},
           token[t].acct \in Accounts,
           token' = [token EXCEPT ![t].state = state]
    PROVE  /\ token' \in [Tokens -> TokenRow]
           /\ TokensTyped'
           /\ token'[t].state = state
           /\ \A u \in Tokens \ {t} : token'[u] = token[u]
           /\ \A u \in Tokens : /\ token'[u].acct = token[u].acct
                               /\ token'[u].email = token[u].email
                               /\ token'[u].born = token[u].born
                               /\ token'[u].late = token[u].late
  <1> DEFINE row == [token[t] EXCEPT !.state = state]
  <1>1. token[t] \in TokenRow
    BY DEF TypeOK
  <1>2. row \in TokenRow
    BY <1>1 DEF TokenRow
  <1>3. /\ row.state = state /\ row.acct = token[t].acct
        /\ row.email = token[t].email /\ row.born = token[t].born
        /\ row.late = token[t].late
    BY <1>1 DEF TokenRow
  <1>4. token' = [token EXCEPT ![t] = row]
    OBVIOUS
  <1> HIDE DEF row
  <1>5. /\ token'[t] = row
        /\ \A u \in Tokens \ {t} : token'[u] = token[u]
        /\ token' \in [Tokens -> TokenRow]
    BY <1>2, <1>4 DEF TypeOK
  <1>6. QED
    BY <1>3, <1>5 DEF TokensTyped

\* A purge empties expired rows and touches no other.
LEMMA PurgeEffect ==
    ASSUME TypeOK, TokensTyped, NEW r \in Requests, NEW kept \in SUBSET Tokens,
           PurgeExpired(r, kept)
    PROVE  /\ token' \in [Tokens -> TokenRow]
           /\ TokensTyped'
           /\ \A t \in Tokens : \/ token'[t] = token[t]
                               \/ /\ token[t].expired
                                  /\ token'[t].state = "gone"
  <1> DEFINE gone == [NoRow EXCEPT !.state = "gone"]
  <1>1. gone \in TokenRow /\ gone.state = "gone"
    <2>1. NoRow \in TokenRow
      BY DEF NoRow, TokenRow
    <2>2. \A row \in TokenRow : /\ [row EXCEPT !.state = "gone"] \in TokenRow
                                /\ [row EXCEPT !.state = "gone"].state = "gone"
      BY DEF TokenRow
    <2>3. QED
      BY <2>1, <2>2
  <1>2. token' = [t \in Tokens |-> IF token[t].expired /\ t \notin kept THEN gone ELSE token[t]]
    BY DEF PurgeExpired
  <1> HIDE DEF gone
  <1>3. \A t \in Tokens :
          token'[t] = IF token[t].expired /\ t \notin kept THEN gone ELSE token[t]
    BY <1>2
  <1>4. token' \in [Tokens -> TokenRow]
    BY <1>1, <1>2 DEF TypeOK
  <1>5. QED
    BY <1>1, <1>3, <1>4 DEF TokensTyped

-----------------------------------------------------------------------------
(* Type correctness. *)

\* Every variable keeps its type, and every place of a handler holds the values
\* the code after it uses.
THEOREM TypeInvariant == Spec => []TypeInv
<1>1. Init => TypeInv
  <2> SUFFICES ASSUME Init PROVE TypeInv
    OBVIOUS
  <2>1. cred \in [Accounts -> Credential]
    <3>1. cred = [a \in Accounts |-> cred[a]]
      BY DEF Init
    <3>2. ASSUME NEW a \in Accounts
          PROVE  cred[a] \in Credential
      <4>1. cred[a] \in [pw : Passwords, ver : {0}, must : {TRUE},
                         email : Emails \union {Nil}, active : {TRUE}]
        BY DEF Init
      <4>2. cred[a] = [pw |-> cred[a].pw, ver |-> cred[a].ver,
                       must |-> cred[a].must, email |-> cred[a].email,
                       active |-> cred[a].active]
        BY <4>1
      <4>3. /\ cred[a].pw \in Passwords
            /\ cred[a].ver \in {0}
            /\ cred[a].email \in Emails \union {Nil}
        BY <4>1
      <4>4. cred[a].must \in {TRUE} /\ cred[a].active \in {TRUE}
        BY <4>1
      <4>5. cred[a].must \in BOOLEAN /\ cred[a].active \in BOOLEAN
        BY <4>4, Zenon
      <4>6. cred[a].ver \in Versions
        BY <4>3
      <4>7. QED
        BY <4>2, <4>3, <4>5, <4>6 DEF Credential
    <3>3. QED
      BY <3>1, <3>2
  <2>2. token \in [Tokens -> TokenRow] /\ TokensTyped
    BY DEF Init, TokenRow, NoRow, TokensTyped
  <2>3. req \in [Requests -> RequestSlot] /\ SlotsTyped
    BY IdleTyped DEF Init, SlotsTyped
  <2>4. jwts \subseteq Session
    BY DEF Init
  <2>5. /\ aborts \in 0 .. MaxAborts
        /\ orphan \in [Accounts -> BOOLEAN]
        /\ spent \in [Tokens -> Nat]
    BY DEF Init
  <2>6. QED
    BY <2>1, <2>2, <2>3, <2>4, <2>5 DEF TypeInv, TypeOK
<1>2. TypeInv /\ [Next]_vars => TypeInv'
  <2> SUFFICES ASSUME TypeInv, [Next]_vars
               PROVE  TypeInv'
    OBVIOUS
  <2> USE DEF TypeInv
  <2>1. ASSUME NEW r \in Requests, NEW a \in Accounts, Login(r, a)
         PROVE  TypeInv'
    <3> DEFINE slot == [Idle EXCEPT !.pc = "reply", !.acct = a, !.pw = cred[a].pw,
                                     !.ver = cred[a].ver]
    <3>1. slot \in RequestSlot /\ SlotTyped(slot)
      BY <2>1 DEF Login, Idle, RequestSlot, SlotTyped, SlotsTyped, Places, TypeOK,
                     Credential, Session, TokenRow, TokensTyped
    <3>2. Goto(r, slot) /\ UNCHANGED <<cred, token, jwts, aborts, orphan, spent>>
      BY <2>1 DEF Login
    <3> HIDE DEF slot
    <3>3. QED
      BY <3>1, <3>2, GotoEffect DEF TypeOK, TokensTyped
  <2>2. ASSUME NEW r \in Requests, NEW s \in jwts, AdmitChange(r, s)
         PROVE  TypeInv'
    <3> DEFINE slot == [Idle EXCEPT !.pc = "change", !.acct = s.acct]
    <3>1. slot \in RequestSlot /\ SlotTyped(slot)
      BY <2>2 DEF AdmitChange, Idle, RequestSlot, SlotTyped, SlotsTyped, Places, TypeOK,
                     Credential, Session, TokenRow, TokensTyped
    <3>2. Goto(r, slot) /\ UNCHANGED <<cred, token, jwts, aborts, orphan, spent>>
      BY <2>2 DEF AdmitChange
    <3> HIDE DEF slot
    <3>3. QED
      BY <3>1, <3>2, GotoEffect DEF TypeOK, TokensTyped
  <2>3. ASSUME NEW r \in Requests, NEW s \in jwts, NEW target \in Administrators, AdmitResend(r, s, target)
         PROVE  TypeInv'
    <3> DEFINE slot == [Idle EXCEPT !.pc = "resend", !.acct = target]
    <3>1. slot \in RequestSlot /\ SlotTyped(slot)
      BY <2>3 DEF AdmitResend, Idle, RequestSlot, SlotTyped, SlotsTyped, Places, TypeOK,
                     Credential, Session, TokenRow, TokensTyped
    <3>2. Goto(r, slot) /\ UNCHANGED <<cred, token, jwts, aborts, orphan, spent>>
      BY <2>3 DEF AdmitResend
    <3> HIDE DEF slot
    <3>3. QED
      BY <3>1, <3>2, GotoEffect DEF TypeOK, TokensTyped
  <2>4. ASSUME NEW r \in Requests, NEW s \in jwts, NEW target \in Accounts, AdmitUpdate(r, s, target)
         PROVE  TypeInv'
    <3> DEFINE slot == [Idle EXCEPT !.pc = "update", !.acct = target]
    <3>1. slot \in RequestSlot /\ SlotTyped(slot)
      BY <2>4 DEF AdmitUpdate, Idle, RequestSlot, SlotTyped, SlotsTyped, Places, TypeOK,
                     Credential, Session, TokenRow, TokensTyped
    <3>2. Goto(r, slot) /\ UNCHANGED <<cred, token, jwts, aborts, orphan, spent>>
      BY <2>4 DEF AdmitUpdate
    <3> HIDE DEF slot
    <3>3. QED
      BY <3>1, <3>2, GotoEffect DEF TypeOK, TokensTyped
  <2>5. ASSUME NEW r \in Requests, NEW a \in Accounts, FindRecipient(r, a)
         PROVE  TypeInv'
    <3> DEFINE slot == [Idle EXCEPT !.pc = "forgotRetire", !.acct = a,
                                     !.email = cred[a].email]
    <3>1. slot \in RequestSlot /\ SlotTyped(slot)
      BY <2>5 DEF FindRecipient, Idle, RequestSlot, SlotTyped, SlotsTyped, Places, TypeOK,
                     Credential, Session, TokenRow, TokensTyped
    <3>2. Goto(r, slot) /\ UNCHANGED <<cred, token, jwts, aborts, orphan, spent>>
      BY <2>5 DEF FindRecipient
    <3> HIDE DEF slot
    <3>3. QED
      BY <3>1, <3>2, GotoEffect DEF TypeOK, TokensTyped
  <2>6. ASSUME NEW r \in Requests, NEW t \in Tokens, FindToken(r, t)
         PROVE  TypeInv'
    <3> DEFINE slot == [Idle EXCEPT !.pc = "resetConsume", !.tok = t,
                                     !.acct = token[t].acct]
    <3>1. slot \in RequestSlot /\ SlotTyped(slot)
      BY <2>6 DEF FindToken, Idle, RequestSlot, SlotTyped, SlotsTyped, Places, TypeOK,
                     Credential, Session, TokenRow, TokensTyped
    <3>2. Goto(r, slot) /\ UNCHANGED <<cred, token, jwts, aborts, orphan, spent>>
      BY <2>6 DEF FindToken
    <3> HIDE DEF slot
    <3>3. QED
      BY <3>1, <3>2, GotoEffect DEF TypeOK, TokensTyped
  <2>7. ASSUME NEW r \in Requests, NEW new \in Passwords, CheckCurrentPassword(r, new)
         PROVE  TypeInv'
    <3> DEFINE slot == [Idle EXCEPT !.pc = "changeWrite", !.acct = req[r].acct,
                                     !.pw = new, !.ver = cred[req[r].acct].ver]
    <3>1. slot \in RequestSlot /\ SlotTyped(slot)
      BY <2>7 DEF CheckCurrentPassword, Idle, RequestSlot, SlotTyped, SlotsTyped, Places, TypeOK,
                     Credential, Session, TokenRow, TokensTyped
    <3>2. Goto(r, slot) /\ UNCHANGED <<cred, token, jwts, aborts, orphan, spent>>
      BY <2>7 DEF CheckCurrentPassword
    <3> HIDE DEF slot
    <3>3. QED
      BY <3>1, <3>2, GotoEffect DEF TypeOK, TokensTyped
  <2>8. ASSUME NEW r \in Requests, Refuse(r)
         PROVE  TypeInv'
    <3>1. Goto(r, Idle) /\ UNCHANGED <<cred, token, jwts, aborts, orphan, spent>>
      BY <2>8 DEF Refuse, Finish
    <3>2. QED
      BY <3>1, IdleTyped, GotoEffect DEF TypeOK, TokensTyped
  <2>9. ASSUME NEW r \in Requests, SendFails(r)
         PROVE  TypeInv'
    <3>1. Goto(r, Idle) /\ UNCHANGED <<cred, token, jwts, aborts, orphan, spent>>
      BY <2>9 DEF SendFails, Finish
    <3>2. QED
      BY <3>1, IdleTyped, GotoEffect DEF TypeOK, TokensTyped
  <2>10. ASSUME NEW r \in Requests, RefuseToken(r)
         PROVE  TypeInv'
    <3>1. Goto(r, Idle) /\ UNCHANGED <<cred, token, jwts, aborts, orphan, spent>>
      BY <2>10 DEF RefuseToken, Finish
    <3>2. QED
      BY <3>1, IdleTyped, GotoEffect DEF TypeOK, TokensTyped
  <2>11. ASSUME NEW r \in Requests, ChangeWrite(r)
         PROVE  TypeInv'
    <3>1. req[r].acct \in Accounts /\ req[r].pw \in Passwords
      BY <2>11 DEF ChangeWrite, SlotsTyped, SlotTyped
    <3>2. WritePassword(r, req[r].acct, req[r].pw, FALSE, TRUE)
      BY <2>11 DEF ChangeWrite
    <3>3. spent' \in [Tokens -> Nat]
      BY <2>11 DEF ChangeWrite, TypeOK, SlotsTyped, SlotTyped
    <3>4. QED
      BY <3>1, <3>2, <3>3, WriteEffect, ZenonT(40) DEF TypeOK, TokensTyped
  <2>12. ASSUME NEW r \in Requests, NEW temporary \in Passwords, ResendWrite(r, temporary)
         PROVE  TypeInv'
    <3>1. req[r].acct \in Accounts /\ temporary \in Passwords
      BY <2>12 DEF ResendWrite, SlotsTyped, SlotTyped
    <3>2. WritePassword(r, req[r].acct, temporary, TRUE, FALSE)
      BY <2>12 DEF ResendWrite
    <3>3. spent' \in [Tokens -> Nat]
      BY <2>12 DEF ResendWrite, TypeOK, SlotsTyped, SlotTyped
    <3>4. QED
      BY <3>1, <3>2, <3>3, WriteEffect, ZenonT(40) DEF TypeOK, TokensTyped
  <2>13. ASSUME NEW r \in Requests, NEW new \in Passwords, ResetWrite(r, new)
         PROVE  TypeInv'
    <3>1. req[r].acct \in Accounts /\ new \in Passwords
      BY <2>13 DEF ResetWrite, SlotsTyped, SlotTyped
    <3>2. WritePassword(r, req[r].acct, new, FALSE, FALSE)
      BY <2>13 DEF ResetWrite
    <3>3. spent' \in [Tokens -> Nat]
      BY <2>13 DEF ResetWrite, TypeOK, SlotsTyped, SlotTyped
    <3>4. QED
      BY <3>1, <3>2, <3>3, WriteEffect, ZenonT(40) DEF TypeOK, TokensTyped
  <2>14. ASSUME NEW r \in Requests, Reply(r)
         PROVE  TypeInv'
    <3>1. req[r].acct \in Accounts /\ req[r].pw \in Passwords /\ req[r] \in RequestSlot
      BY <2>14 DEF Reply, SlotsTyped, SlotTyped, TypeOK
    <3>2. jwts' \subseteq Session
      BY <2>14, <3>1 DEF Reply, TypeOK, Session, RequestSlot
    <3>3. Goto(r, Idle) /\ UNCHANGED <<cred, token, aborts, orphan, spent>>
      BY <2>14 DEF Reply, Finish
    <3>4. QED
      BY <3>2, <3>3, IdleTyped, GotoEffect DEF TypeOK, TokensTyped
  <2>15. ASSUME NEW r \in Requests, Invalidate(r)
         PROVE  TypeInv'
    <3> DEFINE slot == [req[r] EXCEPT !.pc = "reply", !.email = Nil, !.replies = FALSE]
    <3>1. /\ req[r] \in RequestSlot
          /\ req[r].acct \in Accounts
          /\ req[r].pw \in Passwords
      BY <2>15 DEF Invalidate, SlotsTyped, SlotTyped, TypeOK
    <3>2. slot \in RequestSlot /\ SlotTyped(slot)
      BY <3>1 DEF RequestSlot, SlotTyped, Places
    <3>3. Goto(r, slot) \/ Goto(r, Idle)
      BY <2>15 DEF Invalidate, Finish
    <3>4. KillTokens(req[r].acct) /\ UNCHANGED <<cred, jwts, aborts, spent>>
      BY <2>15 DEF Invalidate
    <3> HIDE DEF slot
    <3>5. req' \in [Requests -> RequestSlot] /\ SlotsTyped'
      BY <3>2, <3>3, IdleTyped, GotoEffect
    <3>6. QED
      BY <3>1, <3>4, <3>5, KillEffect DEF TypeOK
  <2>16. ASSUME NEW r \in Requests, NEW e \in Emails \union {Nil},
                NEW active \in BOOLEAN, Update(r, e, active)
         PROVE  TypeInv'
    <3> DEFINE a == req[r].acct
    <3>1. a \in Accounts
      BY <2>16 DEF Update, SlotsTyped, SlotTyped
    <3>2. cred' \in [Accounts -> Credential]
      BY <2>16, <3>1 DEF Update, TypeOK, Credential
    <3>3. /\ token' \in [Tokens -> TokenRow]
          /\ TokensTyped'
          /\ orphan' \in [Accounts -> BOOLEAN]
      <4>1. CASE e = Nil
        BY <2>16, <4>1 DEF Update, TypeOK, TokensTyped
      <4>2. CASE e # Nil
        BY <2>16, <3>1, <4>2, KillEffect DEF Update
      <4>3. QED
        BY <4>1, <4>2
    <3>4. Goto(r, Idle) /\ UNCHANGED <<jwts, aborts, spent>>
      BY <2>16 DEF Update, Finish
    <3>5. QED
      BY <3>2, <3>3, <3>4, IdleTyped, GotoEffect DEF TypeOK
  <2>17. ASSUME NEW r \in Requests, RetireTokens(r)
         PROVE  TypeInv'
    <3> DEFINE slot == [req[r] EXCEPT !.pc = "forgotPurge"]
    <3>1. req[r] \in RequestSlot /\ req[r].acct \in Accounts
      BY <2>17 DEF RetireTokens, SlotsTyped, SlotTyped, TypeOK
    <3>2. slot \in RequestSlot /\ SlotTyped(slot)
      BY <3>1 DEF RequestSlot, SlotTyped, Places
    <3>3. Goto(r, slot) /\ KillTokens(req[r].acct) /\ UNCHANGED <<cred, jwts, aborts, spent>>
      BY <2>17 DEF RetireTokens
    <3> HIDE DEF slot
    <3>4. QED
      BY <3>1, <3>2, <3>3, GotoEffect, KillEffect DEF TypeOK
  <2>18. ASSUME NEW r \in Requests, NEW kept \in SUBSET Tokens, PurgeExpired(r, kept)
         PROVE  TypeInv'
    <3> DEFINE slot == [req[r] EXCEPT !.pc = "forgotCreate"]
    <3>1. slot \in RequestSlot /\ SlotTyped(slot)
      BY <2>18 DEF PurgeExpired, SlotsTyped, TypeOK, RequestSlot, SlotTyped, Places
    <3>2. token' \in [Tokens -> TokenRow] /\ TokensTyped'
      BY <2>18, PurgeEffect
    <3>3. Goto(r, slot) /\ UNCHANGED <<cred, jwts, aborts, orphan, spent>>
      BY <2>18 DEF PurgeExpired
    <3> HIDE DEF slot
    <3>4. QED
      BY <3>1, <3>2, <3>3, GotoEffect DEF TypeOK
  <2>19. ASSUME NEW r \in Requests, NEW t \in Tokens, InsertToken(r, t)
         PROVE  TypeInv'
    <3> DEFINE slot == [req[r] EXCEPT !.pc = "forgotSend", !.tok = t]
    <3>1. req[r] \in RequestSlot /\ req[r].acct \in Accounts
      BY <2>19 DEF InsertToken, SlotsTyped, SlotTyped, TypeOK
    <3>2. slot \in RequestSlot /\ SlotTyped(slot)
      BY <3>1 DEF RequestSlot, SlotTyped, Places
    <3>3. token' \in [Tokens -> TokenRow] /\ TokensTyped'
      BY <2>19, <3>1 DEF InsertToken, TypeOK, TokensTyped, TokenRow, RequestSlot, Credential
    <3>4. Goto(r, slot) /\ UNCHANGED <<cred, jwts, aborts, orphan, spent>>
      BY <2>19 DEF InsertToken
    <3> HIDE DEF slot
    <3>5. QED
      BY <3>2, <3>3, <3>4, GotoEffect DEF TypeOK
  <2>20. ASSUME NEW r \in Requests, SendToken(r)
         PROVE  TypeInv'
    <3> DEFINE t == req[r].tok
    <3>1. token' \in [Tokens -> TokenRow] /\ TokensTyped'
      <4>1. t \in Tokens
        BY <2>20 DEF SendToken, SlotsTyped, SlotTyped
      <4>2. CASE token[t].state = "unsent"
        <5>1. token' = [token EXCEPT ![t].state = "live"]
          BY <2>20, <4>2 DEF SendToken, TypeOK
        <5>2. QED
          BY <4>1, <4>2, <5>1, MarkEffect DEF TokensTyped
      <4>3. CASE token[t].state # "unsent"
        <5>1. token' = [token EXCEPT ![t].state = token[t].state]
          BY <2>20, <4>3 DEF SendToken, TypeOK
        <5>2. token' = token
          BY <4>1, <5>1 DEF TypeOK, TokenRow
        <5>3. QED
          BY <5>2 DEF TypeOK, TokensTyped
      <4>4. QED
        BY <4>2, <4>3
    <3>2. Goto(r, Idle) /\ UNCHANGED <<cred, jwts, aborts, orphan, spent>>
      BY <2>20 DEF SendToken, Finish
    <3>3. QED
      BY <3>1, <3>2, IdleTyped, GotoEffect DEF TypeOK
  <2>21. ASSUME NEW r \in Requests, ConsumeToken(r)
         PROVE  TypeInv'
    <3> DEFINE slot == [req[r] EXCEPT !.pc = "resetWrite"]
    <3>1. slot \in RequestSlot /\ SlotTyped(slot)
      BY <2>21 DEF ConsumeToken, SlotsTyped, TypeOK, RequestSlot, SlotTyped, Places
    <3>2. token' \in [Tokens -> TokenRow] /\ TokensTyped'
      <4>1. /\ req[r].tok \in Tokens
            /\ token[req[r].tok].state \in {"unsent", "live"}
            /\ token' = [token EXCEPT ![req[r].tok].state = "used"]
        BY <2>21 DEF ConsumeToken, Unused, SlotsTyped, SlotTyped
      <4>2. QED
        BY <4>1, MarkEffect DEF TokensTyped
    <3>3. Goto(r, slot) /\ UNCHANGED <<cred, jwts, aborts, orphan, spent>>
      BY <2>21 DEF ConsumeToken
    <3> HIDE DEF slot
    <3>4. QED
      BY <3>1, <3>2, <3>3, GotoEffect DEF TypeOK
  <2>22. ASSUME NEW r \in Requests, Abort(r)
         PROVE  TypeInv'
    <3>1. aborts' \in 0 .. MaxAborts
      BY <2>22 DEF Abort, TypeOK
    <3>1a. orphan' \in [Accounts -> BOOLEAN]
      BY <2>22 DEF Abort, TypeOK
    <3>2. Goto(r, Idle) /\ UNCHANGED <<cred, token, jwts, spent>>
      BY <2>22 DEF Abort, Finish
    <3>3. QED
      BY <3>1, <3>1a, <3>2, IdleTyped, GotoEffect DEF TypeOK, TokensTyped
  <2>23. ASSUME NEW t \in Tokens, Expire(t)
         PROVE  TypeInv'
    <3>1. token' \in [Tokens -> TokenRow] /\ TokensTyped'
      <4>1. token[t] \in TokenRow /\ token[t].acct \in Accounts
        BY <2>23 DEF Expire, TypeOK, TokensTyped
      <4>2. [token[t] EXCEPT !.expired = TRUE] \in TokenRow
        BY <4>1 DEF TokenRow
      <4>3. [token[t] EXCEPT !.expired = TRUE].acct = token[t].acct
        BY <4>1 DEF TokenRow
      <4>4. token' = [token EXCEPT ![t] = [token[t] EXCEPT !.expired = TRUE]]
        BY <2>23 DEF Expire, TypeOK
      <4>5. QED
        BY <4>1, <4>2, <4>3, <4>4 DEF TypeOK, TokensTyped
    <3>2. QED
      BY <2>23, <3>1 DEF Expire, TypeOK, SlotsTyped
  <2>24. CASE UNCHANGED vars
    BY <2>24 DEF vars, TypeOK, SlotsTyped, TokensTyped
  <2>25. QED
    BY <2>1, <2>2, <2>3, <2>4, <2>5, <2>6, <2>7, <2>8, <2>9, <2>10, <2>11,
       <2>12, <2>13, <2>14, <2>15, <2>16, <2>17, <2>18, <2>19, <2>20, <2>21,
       <2>22, <2>23, <2>24
    DEF Next, Arrive, Continue
<1>3. QED
  BY <1>1, <1>2, PTL DEF Spec

-----------------------------------------------------------------------------
(* Sessions and password versions. *)

\* The claim a slot stands for while its handler holds the row it will sign.
ClaimOf(slot) == [acct |-> slot.acct, ver |-> slot.ver, pw |-> slot.pw]

\* The claim that an account's row would make now.
RowClaim(a) == [acct |-> a, ver |-> cred[a].ver, pw |-> cred[a].pw]

\* A step that changes one slot can add the claim of that slot only.
LEMMA ClaimsStep ==
    ASSUME TypeInv, NEW r \in Requests, NEW slot \in RequestSlot,
           Goto(r, slot), jwts' = jwts
    PROVE  /\ Claims' \subseteq Claims \union {ClaimOf(slot)}
           /\ slot.pc \notin {"reply", "invalidate"} => Claims' \subseteq Claims
  <1>1. /\ req'[r] = slot
        /\ \A q \in Requests \ {r} : req'[q] = req[q]
    BY DEF Goto, TypeInv, TypeOK
  <1>2. ASSUME NEW c \in Claims'
        PROVE  \/ c \in Claims
               \/ slot.pc \in {"reply", "invalidate"} /\ c = ClaimOf(slot)
    <2>1. CASE c \in jwts'
      BY <2>1 DEF Claims
    <2>2. CASE c \notin jwts'
      <3>1. PICK q \in Requests : /\ req'[q].pc \in {"reply", "invalidate"}
                                  /\ c = ClaimOf(req'[q])
        BY <2>2 DEF Claims, ClaimOf
      <3>2. CASE q = r
        BY <1>1, <3>1, <3>2
      <3>3. CASE q # r
        <4>1. req'[q] = req[q]
          BY <1>1, <3>3
        <4>2. QED
          BY <3>1, <4>1 DEF Claims, ClaimOf
      <3>4. QED
        BY <3>2, <3>3
    <2>3. QED
      BY <2>1, <2>2
  <1>3. QED
    BY <1>2

\* Claims are about accounts and versions.
LEMMA ClaimsTyped ==
    ASSUME TypeInv, NEW c \in Claims
    PROVE  c \in Session
  <1>1. CASE c \in jwts
    BY <1>1 DEF TypeInv, TypeOK
  <1>2. CASE c \notin jwts
    <2>1. PICK q \in Requests : /\ req[q].pc \in {"reply", "invalidate"}
                                /\ c = ClaimOf(req[q])
      BY <1>2 DEF Claims, ClaimOf
    <2>2. /\ req[q] \in RequestSlot
          /\ req[q].acct \in Accounts
          /\ req[q].pw \in Passwords
      BY <2>1 DEF TypeInv, TypeOK, SlotsTyped, SlotTyped
    <2>3. QED
      BY <2>1, <2>2 DEF ClaimOf, RequestSlot, Session
  <1>3. QED
    BY <1>1, <1>2

\* A step that leaves versions and passwords alone, and adds at most the claim
\* of a row as it stands, keeps SessionInv.
LEMMA RowsKept ==
    ASSUME TypeInv, SessionInv, NEW a \in Accounts,
           Claims' \subseteq Claims \union {RowClaim(a)},
           \A b \in Accounts : cred'[b].ver = cred[b].ver /\ cred'[b].pw = cred[b].pw
    PROVE  SessionInv'
  <1>1. RowClaim(a) \in Session
    BY DEF RowClaim, Session, TypeInv, TypeOK, Credential
  <1>2. ASSUME NEW c \in Claims'
        PROVE  /\ c \in Session
               /\ c.ver <= cred[c.acct].ver
               /\ c.ver = cred[c.acct].ver => c.pw = cred[c.acct].pw
    <2>1. CASE c \in Claims
      BY <2>1, ClaimsTyped DEF SessionInv, ClaimsBounded
    <2>2. CASE c = RowClaim(a)
      <3>1. c.acct = a /\ c.ver = cred[a].ver /\ c.pw = cred[a].pw
        BY <2>2 DEF RowClaim
      <3>2. cred[a].ver \in Int
        BY DEF TypeInv, TypeOK, Credential
      <3>3. QED
        BY <1>1, <2>2, <3>1, <3>2
    <2>3. QED
      BY <2>1, <2>2
  <1>3. ClaimsBounded'
    <2> SUFFICES ASSUME NEW c \in Claims'
                 PROVE  /\ c.ver <= cred'[c.acct].ver
                        /\ c.ver = cred'[c.acct].ver => c.pw = cred'[c.acct].pw
      BY DEF ClaimsBounded
    <2>1. c.acct \in Accounts
      BY <1>2 DEF Session
    <2>2. QED
      BY <1>2, <2>1
  <1>4. ASSUME NEW c \in Claims', NEW d \in Claims', c.acct = d.acct, c.ver = d.ver
        PROVE  c.pw = d.pw
    <2>1. CASE c \in Claims /\ d \in Claims
      BY <1>4, <2>1 DEF SessionInv, VersionNamesOnePassword
    <2>2. CASE c = RowClaim(a) \/ d = RowClaim(a)
      <3>1. c.ver = cred[a].ver /\ d.ver = cred[a].ver /\ c.acct = a /\ d.acct = a
        BY <1>4, <2>2 DEF RowClaim
      <3>2. QED
        BY <1>2, <3>1
    <2>3. QED
      BY <2>1, <2>2
  <1>5. QED
    BY <1>3, <1>4 DEF SessionInv, VersionNamesOnePassword

\* The same when the step adds no claim at all.
LEMMA NoNewClaim ==
    ASSUME TypeInv, SessionInv, Claims' \subseteq Claims,
           \A b \in Accounts : cred'[b].ver = cred[b].ver /\ cred'[b].pw = cred[b].pw
    PROVE  SessionInv'
  <1>1. ASSUME NEW c \in Claims
        PROVE  c.acct \in Accounts
    BY ClaimsTyped DEF Session
  <1>2. ClaimsBounded'
    BY <1>1 DEF ClaimsBounded, SessionInv
  <1>3. VersionNamesOnePassword'
    BY DEF VersionNamesOnePassword, SessionInv
  <1>4. QED
    BY <1>2, <1>3 DEF SessionInv

\* A password write keeps SessionInv: the claim it adds has a version that no
\* claim of the account has reached.
LEMMA WriteKeepsSessions ==
    ASSUME TypeInv, SessionInv,
           NEW r \in Requests, NEW a \in Accounts, NEW pw \in Passwords,
           NEW must \in BOOLEAN, NEW replies \in BOOLEAN,
           WritePassword(r, a, pw, must, replies)
    PROVE  SessionInv'
  <1> DEFINE new == [acct |-> a, ver |-> cred[a].ver + 1, pw |-> pw]
  <1>0. TypeOK /\ SlotsTyped
    BY DEF TypeInv
  <1>1. /\ cred'[a].ver = cred[a].ver + 1
        /\ cred'[a].pw = pw
    BY <1>0, WriteEffect
  <1>1a. \A b \in Accounts \ {a} : cred'[b] = cred[b]
    BY <1>0, WriteEffect
  <1>2. /\ req'[r].acct = a /\ req'[r].pw = pw /\ req'[r].ver = cred[a].ver + 1
        /\ req' \in [Requests -> RequestSlot]
        /\ \A q \in Requests \ {r} : req'[q] = req[q]
        /\ jwts' = jwts
    BY <1>0, WriteEffect
  <1>3. Claims' \subseteq Claims \union {new}
    <2>1. Goto(r, req'[r])
      <3>1. req' = [req EXCEPT ![r] = req'[r]]
        BY <1>2 DEF TypeInv, TypeOK
      <3>2. QED
        BY <3>1 DEF Goto
    <2>2. ClaimOf(req'[r]) = new
      BY <1>2 DEF ClaimOf
    <2>3. req'[r] \in RequestSlot
      BY <1>2
    <2>4. \A slot \in RequestSlot :
            Goto(r, slot) => Claims' \subseteq Claims \union {ClaimOf(slot)}
      BY <1>2, ClaimsStep
    <2>5. QED
      BY <2>1, <2>2, <2>3, <2>4
  <1>4. cred[a].ver \in Nat
    BY DEF TypeInv, TypeOK, Credential
  <1>5. ASSUME NEW c \in Claims
        PROVE  /\ c \in Session
               /\ c.ver \in Nat
               /\ c.acct = a => c.ver <= cred[a].ver
    BY ClaimsTyped DEF SessionInv, ClaimsBounded, Session
  <1>6. new.acct = a /\ new.ver = cred[a].ver + 1 /\ new.pw = pw
    OBVIOUS
  <1> HIDE DEF new
  <1>7. ClaimsBounded'
    <2> SUFFICES ASSUME NEW c \in Claims'
                 PROVE  /\ c.ver <= cred'[c.acct].ver
                        /\ c.ver = cred'[c.acct].ver => c.pw = cred'[c.acct].pw
      BY DEF ClaimsBounded
    <2>1. CASE c = new
      BY <1>1, <1>4, <1>6, <2>1
    <2>2. CASE c \in Claims /\ c.acct = a
      BY <1>1, <1>4, <1>5, <2>2
    <2>3. CASE c \in Claims /\ c.acct # a
      <3>1. cred'[c.acct] = cred[c.acct]
        BY <1>1a, <1>5, <2>3 DEF Session
      <3>2. QED
        BY <2>3, <3>1 DEF SessionInv, ClaimsBounded
    <2>4. QED
      BY <1>3, <2>1, <2>2, <2>3
  <1>8. VersionNamesOnePassword'
    <2> SUFFICES ASSUME NEW c \in Claims', NEW d \in Claims',
                        c.acct = d.acct, c.ver = d.ver
                 PROVE  c.pw = d.pw
      BY DEF VersionNamesOnePassword
    <2>1. CASE c \in Claims /\ d \in Claims
      BY <2>1 DEF SessionInv, VersionNamesOnePassword
    <2>2. CASE c = new \/ d = new
      <3>1. c.acct = a /\ d.acct = a /\ c.ver = cred[a].ver + 1 /\ d.ver = cred[a].ver + 1
        BY <1>6, <2>2
      <3>2. c \notin Claims /\ d \notin Claims
        BY <1>4, <1>5, <3>1
      <3>3. QED
        BY <1>3, <3>2
    <2>3. QED
      BY <1>3, <2>1, <2>2
  <1>9. QED
    BY <1>7, <1>8 DEF SessionInv

\* Every step keeps SessionInv.
LEMMA SessionStep ==
    ASSUME TypeInv, SessionInv, [Next]_vars
    PROVE  SessionInv'
  <1>1. ASSUME NEW r \in Requests, NEW a \in Accounts, Login(r, a)
        PROVE  SessionInv'
    <2> DEFINE slot == [Idle EXCEPT !.pc = "reply", !.acct = a, !.pw = cred[a].pw,
                                     !.ver = cred[a].ver]
    <2>1. slot \in RequestSlot
      BY <1>1 DEF Login, Idle, RequestSlot, Places, TypeInv, TypeOK, Credential
    <2>2. ClaimOf(slot) = RowClaim(a)
      BY DEF ClaimOf, RowClaim, Idle
    <2>3. Goto(r, slot) /\ cred' = cred /\ jwts' = jwts
      BY <1>1 DEF Login
    <2> HIDE DEF slot
    <2>4. Claims' \subseteq Claims \union {RowClaim(a)}
      BY <2>1, <2>2, <2>3, ClaimsStep
    <2>5. QED
      BY <2>3, <2>4, RowsKept
  <1>2. ASSUME NEW r \in Requests, NEW s \in jwts, AdmitChange(r, s)
        PROVE  SessionInv'
    <2> DEFINE slot == [Idle EXCEPT !.pc = "change", !.acct = s.acct]
    <2>1. slot \in RequestSlot
      BY <1>2 DEF AdmitChange, TypeInv, TypeOK, SlotsTyped, SlotTyped, RequestSlot, Places, Credential, Idle, Session
    <2>1a. slot.pc \notin {"reply", "invalidate"}
      BY <1>2 DEF Idle
    <2>2. Goto(r, slot) /\ cred' = cred /\ jwts' = jwts
      BY <1>2 DEF AdmitChange
    <2> HIDE DEF slot
    <2>3. Claims' \subseteq Claims
      BY <2>1, <2>1a, <2>2, ClaimsStep
    <2>4. QED
      BY <2>2, <2>3, NoNewClaim
  <1>3. ASSUME NEW r \in Requests, NEW s \in jwts, NEW target \in Administrators,
              AdmitResend(r, s, target)
        PROVE  SessionInv'
    <2> DEFINE slot == [Idle EXCEPT !.pc = "resend", !.acct = target]
    <2>1. slot \in RequestSlot
      BY IdleTyped DEF RequestSlot, Places
    <2>1a. slot.pc \notin {"reply", "invalidate"}
      BY IdleTyped DEF Idle
    <2>2. Goto(r, slot) /\ cred' = cred /\ jwts' = jwts
      BY <1>3 DEF AdmitResend
    <2> HIDE DEF slot
    <2>3. Claims' \subseteq Claims
      BY <2>1, <2>1a, <2>2, ClaimsStep
    <2>4. QED
      BY <2>2, <2>3, NoNewClaim
  <1>4. ASSUME NEW r \in Requests, NEW s \in jwts, NEW target \in Accounts,
              AdmitUpdate(r, s, target)
        PROVE  SessionInv'
    <2> DEFINE slot == [Idle EXCEPT !.pc = "update", !.acct = target]
    <2>1. slot \in RequestSlot
      BY IdleTyped DEF RequestSlot, Places
    <2>1a. slot.pc \notin {"reply", "invalidate"}
      BY IdleTyped DEF Idle
    <2>2. Goto(r, slot) /\ cred' = cred /\ jwts' = jwts
      BY <1>4 DEF AdmitUpdate
    <2> HIDE DEF slot
    <2>3. Claims' \subseteq Claims
      BY <2>1, <2>1a, <2>2, ClaimsStep
    <2>4. QED
      BY <2>2, <2>3, NoNewClaim
  <1>5. ASSUME NEW r \in Requests, NEW a \in Accounts, FindRecipient(r, a)
        PROVE  SessionInv'
    <2> DEFINE slot == [Idle EXCEPT !.pc = "forgotRetire", !.acct = a,
                                     !.email = cred[a].email]
    <2>1. slot \in RequestSlot
      BY <1>5 DEF FindRecipient, TypeInv, TypeOK, SlotsTyped, SlotTyped, RequestSlot, Places, Credential, Idle
    <2>1a. slot.pc \notin {"reply", "invalidate"}
      BY <1>5 DEF Idle
    <2>2. Goto(r, slot) /\ cred' = cred /\ jwts' = jwts
      BY <1>5 DEF FindRecipient
    <2> HIDE DEF slot
    <2>3. Claims' \subseteq Claims
      BY <2>1, <2>1a, <2>2, ClaimsStep
    <2>4. QED
      BY <2>2, <2>3, NoNewClaim
  <1>6. ASSUME NEW r \in Requests, NEW t \in Tokens, FindToken(r, t)
        PROVE  SessionInv'
    <2> DEFINE slot == [Idle EXCEPT !.pc = "resetConsume", !.tok = t,
                                     !.acct = token[t].acct]
    <2>1. slot \in RequestSlot
      BY <1>6 DEF FindToken, TypeInv, TypeOK, SlotsTyped, SlotTyped, RequestSlot, Places, Credential, Idle, TokenRow
    <2>1a. slot.pc \notin {"reply", "invalidate"}
      BY <1>6 DEF Idle
    <2>2. Goto(r, slot) /\ cred' = cred /\ jwts' = jwts
      BY <1>6 DEF FindToken
    <2> HIDE DEF slot
    <2>3. Claims' \subseteq Claims
      BY <2>1, <2>1a, <2>2, ClaimsStep
    <2>4. QED
      BY <2>2, <2>3, NoNewClaim
  <1>7. ASSUME NEW r \in Requests, Reply(r)
        PROVE  SessionInv'
    <2>1. /\ jwts' = jwts \union {ClaimOf(req[r])}
          /\ cred' = cred
          /\ req' = [req EXCEPT ![r] = Idle]
      BY <1>7 DEF Reply, Finish, Goto, ClaimOf
    <2>2. ClaimOf(req[r]) \in Claims
      BY <1>7 DEF Reply, Claims, ClaimOf
    <2>3. ASSUME NEW c \in Claims'
          PROVE  c \in Claims
      <3>1. CASE c \in jwts'
        BY <2>1, <2>2, <3>1 DEF Claims
      <3>2. CASE c \notin jwts'
        <4>1. PICK q \in Requests : /\ req'[q].pc \in {"reply", "invalidate"}
                                    /\ c = ClaimOf(req'[q])
          BY <3>2 DEF Claims, ClaimOf
        <4>2. q # r /\ req'[q] = req[q]
          BY <2>1, <4>1 DEF Idle, TypeInv, TypeOK
        <4>3. QED
          BY <4>1, <4>2 DEF Claims, ClaimOf
      <3>3. QED
        BY <3>1, <3>2
    <2>4. QED
      BY <2>1, <2>3, NoNewClaim
  <1>8. ASSUME NEW r \in Requests, NEW new \in Passwords,
              CheckCurrentPassword(r, new)
        PROVE  SessionInv'
    <2> DEFINE slot == [Idle EXCEPT !.pc = "changeWrite", !.acct = req[r].acct,
                                     !.pw = new, !.ver = cred[req[r].acct].ver]
    <2>1. slot \in RequestSlot
      BY <1>8 DEF CheckCurrentPassword, TypeInv, TypeOK, SlotsTyped, SlotTyped, RequestSlot, Places, Credential, Idle
    <2>1a. slot.pc \notin {"reply", "invalidate"}
      BY <1>8 DEF Idle
    <2>2. Goto(r, slot) /\ cred' = cred /\ jwts' = jwts
      BY <1>8 DEF CheckCurrentPassword
    <2> HIDE DEF slot
    <2>3. Claims' \subseteq Claims
      BY <2>1, <2>1a, <2>2, ClaimsStep
    <2>4. QED
      BY <2>2, <2>3, NoNewClaim
  <1>9. ASSUME NEW r \in Requests, ChangeWrite(r)
        PROVE  SessionInv'
    <2>1. req[r].acct \in Accounts /\ req[r].pw \in Passwords
      BY <1>9 DEF ChangeWrite, TypeInv, SlotsTyped, SlotTyped
    <2>2. WritePassword(r, req[r].acct, req[r].pw, FALSE, TRUE)
      BY <1>9 DEF ChangeWrite
    <2>3. QED
      BY <2>1, <2>2, WriteKeepsSessions
  <1>10. ASSUME NEW r \in Requests, Invalidate(r)
        PROVE  SessionInv'
    <2> DEFINE slot == [req[r] EXCEPT !.pc = "reply", !.email = Nil, !.replies = FALSE]
    <2>1. req[r] \in RequestSlot /\ req[r].pc = "invalidate"
      BY <1>10 DEF Invalidate, TypeInv, TypeOK
    <2>2. slot \in RequestSlot /\ ClaimOf(slot) = ClaimOf(req[r])
      BY <2>1 DEF RequestSlot, Places, ClaimOf
    <2>3. ClaimOf(req[r]) \in Claims
      BY <2>1 DEF Claims, ClaimOf
    <2>4. /\ Goto(r, slot) \/ Goto(r, Idle)
          /\ cred' = cred
          /\ jwts' = jwts
      BY <1>10 DEF Invalidate, Finish
    <2> HIDE DEF slot
    <2>5. CASE Goto(r, slot)
      BY <2>2, <2>3, <2>4, <2>5, ClaimsStep, NoNewClaim
    <2>6. CASE Goto(r, Idle)
      <3>1. Claims' \subseteq Claims
        BY <2>4, <2>6, IdleTyped, ClaimsStep DEF Idle
      <3>2. QED
        BY <2>4, <3>1, NoNewClaim
    <2>7. QED
      BY <2>4, <2>5, <2>6
  <1>11. ASSUME NEW r \in Requests, NEW temporary \in Passwords,
              ResendWrite(r, temporary)
        PROVE  SessionInv'
    <2>1. req[r].acct \in Accounts /\ temporary \in Passwords
      BY <1>11 DEF ResendWrite, TypeInv, SlotsTyped, SlotTyped
    <2>2. WritePassword(r, req[r].acct, temporary, TRUE, FALSE)
      BY <1>11 DEF ResendWrite
    <2>3. QED
      BY <2>1, <2>2, WriteKeepsSessions
  <1>12. ASSUME NEW r \in Requests, NEW e \in Emails \union {Nil}, NEW active \in BOOLEAN,
              Update(r, e, active)
        PROVE  SessionInv'
    <2>1. Goto(r, Idle) /\ jwts' = jwts
      BY <1>12 DEF Update, Finish
    <2>2. Claims' \subseteq Claims
      BY <2>1, IdleTyped, ClaimsStep DEF Idle
    <2>3. req[r].acct \in Accounts
      BY <1>12 DEF Update, TypeInv, SlotsTyped, SlotTyped
    <2>4. \A b \in Accounts : cred'[b].ver = cred[b].ver /\ cred'[b].pw = cred[b].pw
      BY <1>12, <2>3 DEF Update, TypeInv, TypeOK, Credential
    <2>5. QED
      BY <2>2, <2>4, NoNewClaim
  <1>13. ASSUME NEW r \in Requests, RetireTokens(r)
        PROVE  SessionInv'
    <2> DEFINE slot == [req[r] EXCEPT !.pc = "forgotPurge"]
    <2>0. req[r] \in RequestSlot
      BY DEF TypeInv, TypeOK
    <2>1. slot \in RequestSlot
      BY <2>0 DEF RequestSlot, Places
    <2>1a. slot.pc \notin {"reply", "invalidate"}
      BY <2>0 DEF RequestSlot
    <2>2. Goto(r, slot) /\ cred' = cred /\ jwts' = jwts
      BY <1>13 DEF RetireTokens
    <2> HIDE DEF slot
    <2>3. Claims' \subseteq Claims
      BY <2>1, <2>1a, <2>2, ClaimsStep
    <2>4. QED
      BY <2>2, <2>3, NoNewClaim
  <1>14. ASSUME NEW r \in Requests, NEW kept \in SUBSET Tokens, PurgeExpired(r, kept)
        PROVE  SessionInv'
    <2> DEFINE slot == [req[r] EXCEPT !.pc = "forgotCreate"]
    <2>0. req[r] \in RequestSlot
      BY DEF TypeInv, TypeOK
    <2>1. slot \in RequestSlot
      BY <2>0 DEF RequestSlot, Places
    <2>1a. slot.pc \notin {"reply", "invalidate"}
      BY <2>0 DEF RequestSlot
    <2>2. Goto(r, slot) /\ cred' = cred /\ jwts' = jwts
      BY <1>14 DEF PurgeExpired
    <2> HIDE DEF slot
    <2>3. Claims' \subseteq Claims
      BY <2>1, <2>1a, <2>2, ClaimsStep
    <2>4. QED
      BY <2>2, <2>3, NoNewClaim
  <1>15. ASSUME NEW r \in Requests, NEW t \in Tokens, InsertToken(r, t)
        PROVE  SessionInv'
    <2> DEFINE slot == [req[r] EXCEPT !.pc = "forgotSend", !.tok = t]
    <2>0. req[r] \in RequestSlot
      BY DEF TypeInv, TypeOK
    <2>1. slot \in RequestSlot
      BY <2>0 DEF RequestSlot, Places
    <2>1a. slot.pc \notin {"reply", "invalidate"}
      BY <2>0 DEF RequestSlot
    <2>2. Goto(r, slot) /\ cred' = cred /\ jwts' = jwts
      BY <1>15 DEF InsertToken
    <2> HIDE DEF slot
    <2>3. Claims' \subseteq Claims
      BY <2>1, <2>1a, <2>2, ClaimsStep
    <2>4. QED
      BY <2>2, <2>3, NoNewClaim
  <1>16. ASSUME NEW r \in Requests, SendToken(r)
        PROVE  SessionInv'
    <2>1. Goto(r, Idle) /\ cred' = cred /\ jwts' = jwts
      BY <1>16 DEF SendToken, Finish
    <2>2. Claims' \subseteq Claims
      BY <2>1, IdleTyped, ClaimsStep DEF Idle
    <2>3. QED
      BY <2>1, <2>2, NoNewClaim
  <1>17. ASSUME NEW r \in Requests, SendFails(r)
        PROVE  SessionInv'
    <2>1. Goto(r, Idle) /\ cred' = cred /\ jwts' = jwts
      BY <1>17 DEF SendFails, Finish
    <2>2. Claims' \subseteq Claims
      BY <2>1, IdleTyped, ClaimsStep DEF Idle
    <2>3. QED
      BY <2>1, <2>2, NoNewClaim
  <1>18. ASSUME NEW r \in Requests, ConsumeToken(r)
        PROVE  SessionInv'
    <2> DEFINE slot == [req[r] EXCEPT !.pc = "resetWrite"]
    <2>0. req[r] \in RequestSlot
      BY DEF TypeInv, TypeOK
    <2>1. slot \in RequestSlot
      BY <2>0 DEF RequestSlot, Places
    <2>1a. slot.pc \notin {"reply", "invalidate"}
      BY <2>0 DEF RequestSlot
    <2>2. Goto(r, slot) /\ cred' = cred /\ jwts' = jwts
      BY <1>18 DEF ConsumeToken
    <2> HIDE DEF slot
    <2>3. Claims' \subseteq Claims
      BY <2>1, <2>1a, <2>2, ClaimsStep
    <2>4. QED
      BY <2>2, <2>3, NoNewClaim
  <1>19. ASSUME NEW r \in Requests, RefuseToken(r)
        PROVE  SessionInv'
    <2>1. Goto(r, Idle) /\ cred' = cred /\ jwts' = jwts
      BY <1>19 DEF RefuseToken, Finish
    <2>2. Claims' \subseteq Claims
      BY <2>1, IdleTyped, ClaimsStep DEF Idle
    <2>3. QED
      BY <2>1, <2>2, NoNewClaim
  <1>20. ASSUME NEW r \in Requests, NEW new \in Passwords, ResetWrite(r, new)
        PROVE  SessionInv'
    <2>1. req[r].acct \in Accounts /\ new \in Passwords
      BY <1>20 DEF ResetWrite, TypeInv, SlotsTyped, SlotTyped
    <2>2. WritePassword(r, req[r].acct, new, FALSE, FALSE)
      BY <1>20 DEF ResetWrite
    <2>3. QED
      BY <2>1, <2>2, WriteKeepsSessions
  <1>21. ASSUME NEW r \in Requests, Refuse(r)
        PROVE  SessionInv'
    <2>1. Goto(r, Idle) /\ cred' = cred /\ jwts' = jwts
      BY <1>21 DEF Refuse, Finish
    <2>2. Claims' \subseteq Claims
      BY <2>1, IdleTyped, ClaimsStep DEF Idle
    <2>3. QED
      BY <2>1, <2>2, NoNewClaim
  <1>22. ASSUME NEW r \in Requests, Abort(r)
        PROVE  SessionInv'
    <2>1. Goto(r, Idle) /\ cred' = cred /\ jwts' = jwts
      BY <1>22 DEF Abort, Finish
    <2>2. Claims' \subseteq Claims
      BY <2>1, IdleTyped, ClaimsStep DEF Idle
    <2>3. QED
      BY <2>1, <2>2, NoNewClaim
  <1>23. ASSUME NEW t \in Tokens, Expire(t)
        PROVE  SessionInv'
    <2>1. Claims' = Claims /\ cred' = cred
      BY <1>23 DEF Expire, Claims
    <2>2. QED
      BY <2>1, NoNewClaim
  <1>24. CASE UNCHANGED vars
    <2>1. Claims' = Claims /\ cred' = cred
      BY <1>24 DEF vars, Claims
    <2>2. QED
      BY <2>1, NoNewClaim
  <1>25. QED
    BY <1>1, <1>2, <1>3, <1>4, <1>5, <1>6, <1>7, <1>8, <1>9, <1>10, <1>11, <1>12, 
       <1>13, <1>14, <1>15, <1>16, <1>17, <1>18, <1>19, <1>20, <1>21, <1>22, <1>23, <1>24
    DEF Next, Arrive, Continue

\* SessionInv holds initially: nothing claims anything yet.
LEMMA SessionInit == ASSUME Init PROVE SessionInv
  <1>1. Claims = {}
    BY DEF Init, Claims, Idle
  <1>2. QED
    BY <1>1 DEF SessionInv, ClaimsBounded, VersionNamesOnePassword

\* The strengthened invariant of the session properties.
THEOREM SessionInvariant == Spec => [](TypeInv /\ SessionInv)
<1>1. Init => SessionInv
  BY SessionInit
<1>2. TypeInv /\ SessionInv /\ [Next]_vars => SessionInv'
  BY SessionStep
<1>3. QED
  BY <1>1, <1>2, TypeInvariant, PTL DEF Spec

\* A session accepted by its version belongs to someone who gave the password
\* stored now: what AuthGuard's comparison of sessionVersion is for.
THEOREM SessionsAreSound == Spec => []SessionSound
<1>1. SessionInv => SessionSound
  BY DEF SessionInv, ClaimsBounded, SessionSound, Claims
<1>2. QED
  BY <1>1, SessionInvariant, PTL

\* No two password writes of an account share a sessionVersion.
THEOREM VersionsNamePasswords == Spec => []VersionNamesOnePassword
<1>1. SessionInv => VersionNamesOnePassword
  BY DEF SessionInv
<1>2. QED
  BY <1>1, SessionInvariant, PTL

\* Every variable keeps the type it is declared with.
THEOREM TypeCorrect == Spec => []TypeOK
<1>1. TypeInv => TypeOK
  BY DEF TypeInv
<1>2. QED
  BY <1>1, TypeInvariant, PTL
=============================================================================
