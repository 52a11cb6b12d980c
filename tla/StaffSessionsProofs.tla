------------------------ MODULE StaffSessionsProofs ------------------------
(***************************************************************************)
(* Proofs about module StaffSessions, for any number of accounts,          *)
(* sign-ins, browsers, requests and scripts, and any bound on versions.    *)
(***************************************************************************)
EXTENDS StaffSessions, TLAPS

(***************************************************************************)
(* The inductive invariant.  A token never carries a version the account   *)
(* has not reached, so that raising the version ends it for good.          *)
(***************************************************************************)
SignInsRecorded ==
    \A l \in Logins :
        IF login[l].pc = "new" THEN login[l] = NoLogin
        ELSE /\ login[l].account \in Accounts
             /\ login[l].browser \in Browsers
             /\ login[l].ver <= staff[login[l].account].tokenVersion
             /\ login[l].usable => staff[login[l].account].exists

UnseededUntouched ==
    \A a \in Accounts :
        ~staff[a].exists => staff[a].isActive /\ staff[a].tokenVersion = 0

Issued(l) == login[l].pc = "saved" /\ login[l].usable

TokensIssued ==
    /\ \A b \in Browsers : browser[b] # None => Issued(browser[b])
    /\ \A q \in Requests : request[q].token # None => Issued(request[q].token)
    /\ \A q \in Requests :
          request[q].pc \in {"lookup", "admitted"} => request[q].token # None

ScriptsAimed ==
    \A o \in Operators :
        op[o].pc = "write" =>
            op[o].account \in Accounts /\ (op[o].cmd # "seed" => staff[op[o].account].exists)

SignedAreUsable ==
    \A l \in Logins : login[l].pc \in {"signed", "saved"} => login[l].usable

IInv ==
    /\ TypeOK
    /\ SignInsRecorded
    /\ SignedAreUsable
    /\ UnseededUntouched
    /\ TokensIssued
    /\ ScriptsAimed
    /\ DisabledSessionsEnded
    /\ RefusalIsFinal

-----------------------------------------------------------------------------
(***************************************************************************)
(* Type correctness.                                                       *)
(***************************************************************************)
LEMMA BlankTypes == NoLogin \in Login /\ NoRequest \in Request /\ NoOp \in Op
  BY SessionsAssumption DEF NoLogin, NoRequest, NoOp, Login, Request, Op

LEMMA BumpedType ==
  ASSUME NEW row \in StaffUser, row.tokenVersion < MaxVersion
  PROVE  Bumped(row) \in StaffUser /\ Bumped(row).tokenVersion = row.tokenVersion + 1
         /\ Bumped(row).exists = row.exists /\ Bumped(row).isActive = row.isActive
  BY SessionsAssumption DEF Bumped, StaffUser

LEMMA InitTypeOK == Init => TypeOK
  BY BlankTypes, SessionsAssumption DEF Init, TypeOK, StaffUser

LEMMA TypeStep == TypeOK /\ [Next]_vars => TypeOK'
  <1> SUFFICES ASSUME TypeOK, [Next]_vars PROVE TypeOK'
    OBVIOUS
  <1> USE DEF TypeOK
  <1>1. ASSUME NEW l \in Logins, NEW b \in Browsers, NEW a \in Accounts, LoginRead(l, b, a)
        PROVE  TypeOK'
    <2>1. staff[a] \in StaffUser
      OBVIOUS
    <2>2. login' \in [Logins -> Login]
      BY <1>1, <2>1 DEF LoginRead, Login, StaffUser
    <2> QED
      BY <1>1, <2>2 DEF LoginRead
  <1>2. ASSUME NEW l \in Logins, LoginSign(l) \/ LoginRefused(l) PROVE TypeOK'
    <2>1. PICK pc \in {"signed", "failed"} :
             login' = [login EXCEPT ![l] = [login[l] EXCEPT !.pc = pc]]
      BY <1>2 DEF LoginSign, LoginRefused
    <2>2. [login[l] EXCEPT !.pc = pc] \in Login
      BY DEF Login
    <2>3. login' \in [Logins -> Login]
      BY <2>1, <2>2
    <2> QED
      BY <1>2, <2>3 DEF LoginSign, LoginRefused
  <1>3. ASSUME NEW l \in Logins, SaveSession(l) PROVE TypeOK'
    <2>1. login' \in [Logins -> Login]
      BY <1>3 DEF SaveSession, Login
    <2> QED
      BY <1>3, <2>1 DEF SaveSession
  <1>4. ASSUME NEW b \in Browsers, HandleSignOut(b) PROVE TypeOK'
    BY <1>4 DEF HandleSignOut
  <1>5. ASSUME NEW l \in Logins, Expire(l) PROVE TypeOK'
    BY <1>5 DEF Expire
  <1>6. ASSUME NEW q \in Requests, NEW b \in Browsers, Send(q, b) PROVE TypeOK'
    <2>1. request' \in [Requests -> Request]
      BY <1>6 DEF Send, Request
    <2> QED
      BY <1>6, <2>1 DEF Send
  <1>7. ASSUME NEW q \in Requests, Verify(q) \/ Lookup(q) \/ LookupFails(q) PROVE TypeOK'
    <2>1. PICK verdict \in {"lookup", "admitted", "unauthorized", "failed"} :
             Answered(q, verdict)
      BY <1>7 DEF Verify, Lookup, LookupFails
    <2>2. request' \in [Requests -> Request]
      BY <2>1 DEF Answered, Request
    <2> QED
      BY <1>7, <2>2 DEF Verify, Lookup, LookupFails
  <1>8. ASSUME NEW q \in Requests, Answer(q) \/ AnswerLost(q) PROVE TypeOK'
    BY <1>8, BlankTypes DEF Answer, AnswerLost
  <1>9. ASSUME NEW o \in Operators, NEW a \in Accounts,
               NEW cmd \in {"disable", "enable", "signout", "seed"}, OpFind(o, cmd, a)
        PROVE  TypeOK'
    <2>1. op' \in [Operators -> Op]
      BY <1>9 DEF OpFind, Op
    <2> QED
      BY <1>9, <2>1 DEF OpFind
  <1>10. ASSUME NEW o \in Operators, Disable(o) PROVE TypeOK'
    <2> DEFINE a == op[o].account
               new == [Bumped(staff[a]) EXCEPT !.isActive = FALSE]
    <2>1. staff' = [staff EXCEPT ![a] = new]
      BY <1>10 DEF Disable
    <2>2. a \in Accounts => new \in StaffUser
      BY <1>10, BumpedType DEF Disable, StaffUser
    <2>3. staff' \in [Accounts -> StaffUser]
      BY <2>1, <2>2
    <2> QED
      BY <1>10, <2>3, BlankTypes DEF Disable
  <1>11. ASSUME NEW o \in Operators, Enable(o) PROVE TypeOK'
    <2>1. staff' \in [Accounts -> StaffUser]
      BY <1>11 DEF Enable, StaffUser
    <2> QED
      BY <1>11, <2>1, BlankTypes DEF Enable
  <1>12. ASSUME NEW o \in Operators, Signout(o) PROVE TypeOK'
    <2>1. op[o].account \in Accounts => Bumped(staff[op[o].account]) \in StaffUser
      BY <1>12, BumpedType DEF Signout
    <2>2. staff' \in [Accounts -> StaffUser]
      BY <1>12, <2>1 DEF Signout
    <2> QED
      BY <1>12, <2>2, BlankTypes DEF Signout
  <1>13. ASSUME SignoutAll PROVE TypeOK'
    <2>1. \A a \in Accounts : staff[a].exists => Bumped(staff[a]) \in StaffUser
      BY <1>13, BumpedType DEF SignoutAll
    <2>2. staff' \in [Accounts -> StaffUser]
      BY <1>13, <2>1 DEF SignoutAll
    <2> QED
      BY <1>13, <2>2 DEF SignoutAll
  <1>14. ASSUME NEW o \in Operators, Seed(o) PROVE TypeOK'
    <2> DEFINE new == [exists |-> TRUE, isActive |-> TRUE, tokenVersion |-> 0]
    <2>1. new \in StaffUser
      BY SessionsAssumption DEF StaffUser
    <2>2. staff' = staff \/ staff' = [staff EXCEPT ![op[o].account] = new]
      BY <1>14 DEF Seed
    <2> HIDE DEF new
    <2>3. staff' \in [Accounts -> StaffUser]
      BY <2>1, <2>2
    <2> QED
      BY <1>14, <2>3, BlankTypes DEF Seed
  <1>15. ASSUME NEW o \in Operators, OpAborted(o) PROVE TypeOK'
    BY <1>15, BlankTypes DEF OpAborted
  <1>16. CASE UNCHANGED vars
    BY <1>16 DEF vars
  <1> QED
    BY <1>1, <1>2, <1>3, <1>4, <1>5, <1>6, <1>7, <1>8, <1>9, <1>10, <1>11, <1>12, <1>13,
       <1>14, <1>15, <1>16 DEF Next, SignInStep, RequestStep, OperatorStep

THEOREM TypeCorrect == Spec => []TypeOK
  <1>1. Init => TypeOK
    BY InitTypeOK
  <1>2. TypeOK /\ [Next]_vars => TypeOK'
    BY TypeStep
  <1> QED
    BY <1>1, <1>2, PTL DEF Spec

-----------------------------------------------------------------------------
(***************************************************************************)
(* What one step can do to an account's row, to a sign-in and to a request.*)
(***************************************************************************)
Ended(a) == \* disable and signout
    /\ staff[a].exists /\ staff'[a].exists
    /\ staff'[a].tokenVersion = staff[a].tokenVersion + 1

Enabled(a) ==
    /\ staff[a].exists /\ staff'[a].exists
    /\ staff'[a].tokenVersion = staff[a].tokenVersion
    /\ staff'[a].isActive

Seeded(a) ==
    /\ ~staff[a].exists /\ staff'[a].exists
    /\ staff'[a].tokenVersion = 0
    /\ staff'[a].isActive

LEMMA RowSteps ==
  ASSUME TypeOK, ScriptsAimed, [Next]_vars, NEW a \in Accounts
  PROVE  staff'[a] = staff[a] \/ Ended(a) \/ Enabled(a) \/ Seeded(a)
  <1> USE DEF TypeOK
  <1> DEFINE Goal == staff'[a] = staff[a] \/ Ended(a) \/ Enabled(a) \/ Seeded(a)
  <1>0. \A o \in Operators : op[o].pc = "write" =>
           op[o].account \in Accounts /\ (op[o].cmd # "seed" => staff[op[o].account].exists)
    BY DEF ScriptsAimed
  <1>1. CASE SignInStep \/ RequestStep \/ UNCHANGED vars
    BY <1>1 DEF SignInStep, LoginRead, LoginSign, LoginRefused, SaveSession, HandleSignOut,
       Expire, RequestStep, Send, Verify, Lookup, LookupFails, Answer, AnswerLost, vars
  <1>2. ASSUME NEW o \in Operators, Disable(o) PROVE Goal
    <2> DEFINE new == [Bumped(staff[op[o].account]) EXCEPT !.isActive = FALSE]
    <2>1. op[o].account \in Accounts /\ staff[op[o].account].exists
          /\ staff[op[o].account].tokenVersion < MaxVersion
      BY <1>0, <1>2 DEF Disable
    <2>2. staff' = [staff EXCEPT ![op[o].account] = new]
      BY <1>2 DEF Disable
    <2>3. new.exists /\ new.tokenVersion = staff[op[o].account].tokenVersion + 1
      BY <2>1, BumpedType DEF StaffUser
    <2> HIDE DEF new
    <2> QED
      BY <2>1, <2>2, <2>3 DEF Ended
  <1>3. ASSUME NEW o \in Operators, Enable(o) PROVE Goal
    BY <1>0, <1>3 DEF Enable, Enabled, StaffUser
  <1>4. ASSUME NEW o \in Operators, Signout(o) PROVE Goal
    <2>1. op[o].account \in Accounts /\ staff[op[o].account].exists
          /\ staff[op[o].account].tokenVersion < MaxVersion
      BY <1>0, <1>4 DEF Signout
    <2>2. staff' = [staff EXCEPT ![op[o].account] = Bumped(staff[op[o].account])]
      BY <1>4 DEF Signout
    <2> QED
      BY <2>1, <2>2, BumpedType DEF Ended
  <1>5. ASSUME SignoutAll PROVE Goal
    <2>1. staff'[a] = IF staff[a].exists THEN Bumped(staff[a]) ELSE staff[a]
      BY <1>5 DEF SignoutAll
    <2>2. staff[a].exists => staff[a].tokenVersion < MaxVersion
      BY <1>5 DEF SignoutAll
    <2> QED
      BY <2>1, <2>2, BumpedType DEF Ended
  <1>6. ASSUME NEW o \in Operators, Seed(o) PROVE Goal
    <2>1. op[o].account \in Accounts
      BY <1>0, <1>6 DEF Seed
    <2> QED
      BY <1>6, <2>1 DEF Seed, Seeded
  <1>7. ASSUME NEW o \in Operators, NEW b \in Accounts, NEW cmd, OpFind(o, cmd, b) PROVE Goal
    BY <1>7 DEF OpFind
  <1>8. ASSUME NEW o \in Operators, OpAborted(o) PROVE Goal
    BY <1>8 DEF OpAborted
  <1> QED
    BY <1>1, <1>2, <1>3, <1>4, <1>5, <1>6, <1>7, <1>8 DEF Next, OperatorStep

LEMMA RowsGrow ==
  ASSUME TypeOK, ScriptsAimed, UnseededUntouched, [Next]_vars, NEW a \in Accounts
  PROVE  /\ staff[a].exists => staff'[a].exists
         /\ staff'[a].tokenVersion >= staff[a].tokenVersion
         /\ staff[a].tokenVersion \in Nat /\ staff'[a].tokenVersion \in Nat
         /\ ~staff'[a].isActive /\ staff[a].isActive =>
               staff'[a].tokenVersion > staff[a].tokenVersion
  <1>1. TypeOK'
    BY TypeStep
  <1>2. staff[a].tokenVersion \in Nat /\ staff'[a].tokenVersion \in Nat
    BY <1>1, SessionsAssumption DEF TypeOK, StaffUser
  <1>3. staff'[a] = staff[a] \/ Ended(a) \/ Enabled(a) \/ Seeded(a)
    BY RowSteps
  <1> QED
    BY <1>2, <1>3 DEF Ended, Enabled, Seeded, UnseededUntouched

\* A sign-in starts by reading a row, and keeps what it read.
Started(l) ==
    \E b \in Browsers, a \in Accounts :
        /\ login[l].pc = "new"
        /\ login'[l] = [pc |-> "compare", browser |-> b, account |-> a,
                        usable |-> staff[a].exists /\ staff[a].isActive,
                        ver |-> staff[a].tokenVersion]
        /\ staff' = staff

Advanced(l) ==
    /\ login[l].pc # "new" /\ login'[l].pc \in {"signed", "saved", "failed"}
    /\ login[l].pc \in {"compare", "signed"}
    /\ login'[l].pc \in {"signed", "saved"} => login[l].usable \/ login[l].pc = "signed"
    /\ login'[l].account = login[l].account
    /\ login'[l].browser = login[l].browser
    /\ login'[l].usable = login[l].usable
    /\ login'[l].ver = login[l].ver

LEMMA LoginSteps ==
  ASSUME TypeOK, [Next]_vars, NEW l \in Logins
  PROVE  login'[l] = login[l] \/ Started(l) \/ Advanced(l)
  <1> USE DEF TypeOK
  <1> DEFINE Goal == login'[l] = login[l] \/ Started(l) \/ Advanced(l)
  <1>1. ASSUME NEW m \in Logins, NEW b \in Browsers, NEW a \in Accounts, LoginRead(m, b, a)
        PROVE  Goal
    <2> DEFINE new == [pc |-> "compare", browser |-> b, account |-> a,
                       usable |-> staff[a].exists /\ staff[a].isActive,
                       ver |-> staff[a].tokenVersion]
    <2>1. login' = [login EXCEPT ![m] = new] /\ login[m].pc = "new" /\ staff' = staff
      BY <1>1 DEF LoginRead
    <2>2. l = m => login'[l] = new
      BY <2>1
    <2>3. l # m => login'[l] = login[l]
      BY <2>1
    <2> QED
      BY <2>1, <2>2, <2>3, Zenon DEF Started
  <1>2. ASSUME NEW m \in Logins, LoginSign(m) PROVE Goal
    BY <1>2 DEF LoginSign, Advanced, Login
  <1>3. ASSUME NEW m \in Logins, LoginRefused(m) PROVE Goal
    BY <1>3 DEF LoginRefused, Advanced, Login
  <1>4. ASSUME NEW m \in Logins, SaveSession(m) PROVE Goal
    BY <1>4 DEF SaveSession, Advanced, Login
  <1>5. CASE login' = login
    BY <1>5
  <1> QED
    BY <1>1, <1>2, <1>3, <1>4, <1>5 DEF Next, SignInStep, HandleSignOut, Expire,
       RequestStep, Send, Verify, Lookup, LookupFails, Answer, AnswerLost,
       OperatorStep, OpFind, Disable, Enable, Signout, SignoutAll, Seed, OpAborted, vars

-----------------------------------------------------------------------------
(***************************************************************************)
(* IInv is inductive.                                                      *)
(***************************************************************************)
LEMMA SameSignIn ==
  ASSUME TypeOK, [Next]_vars, NEW l \in Logins, login[l].pc # "new"
  PROVE  /\ login'[l].pc # "new"
         /\ login'[l].account = login[l].account
         /\ login'[l].browser = login[l].browser
         /\ login'[l].usable = login[l].usable
         /\ login'[l].ver = login[l].ver
         /\ login'[l].pc = "compare" => login[l].pc = "compare"
         /\ login[l].pc = "saved" => login'[l].pc = "saved"
  BY LoginSteps DEF Started, Advanced

LEMMA OutdatedStays ==
  ASSUME IInv, [Next]_vars, NEW l \in Logins, login[l].pc # "new", Outdated(l)
  PROVE  Outdated(l)'
  <1>1. login[l].account \in Accounts /\ login[l].ver <= staff[login[l].account].tokenVersion
    BY DEF IInv, SignInsRecorded
  <1>2. login[l].ver \in Nat
    BY SessionsAssumption DEF IInv, TypeOK, Login
  <1> QED
    BY <1>1, <1>2, SameSignIn, RowsGrow DEF IInv, Outdated

LEMMA SignInsRecordedStep == IInv /\ [Next]_vars => SignInsRecorded'
  <1> SUFFICES ASSUME IInv, [Next]_vars, NEW l \in Logins
               PROVE  (IF login[l].pc = "new" THEN login[l] = NoLogin
                       ELSE /\ login[l].account \in Accounts
                            /\ login[l].browser \in Browsers
                            /\ login[l].ver <= staff[login[l].account].tokenVersion
                            /\ login[l].usable => staff[login[l].account].exists)'
    BY DEF SignInsRecorded
  <1>1. CASE login[l].pc = "new" /\ login'[l] = login[l]
    BY <1>1 DEF IInv, SignInsRecorded, NoLogin
  <1>2. CASE Started(l)
    BY <1>2, SessionsAssumption DEF Started, IInv, TypeOK, StaffUser
  <1>3. CASE login[l].pc # "new"
    <2>1. login[l].account \in Accounts /\ login[l].browser \in Browsers
          /\ login[l].ver <= staff[login[l].account].tokenVersion
          /\ (login[l].usable => staff[login[l].account].exists)
      BY <1>3 DEF IInv, SignInsRecorded
    <2>2. login[l].ver \in Nat
      BY SessionsAssumption DEF IInv, TypeOK, Login
    <2> QED
      BY <1>3, <2>1, <2>2, SameSignIn, RowsGrow DEF IInv
  <1> QED
    BY <1>1, <1>2, <1>3, LoginSteps DEF IInv, Advanced

LEMMA SignedAreUsableStep == IInv /\ [Next]_vars => SignedAreUsable'
  <1> SUFFICES ASSUME IInv, [Next]_vars, NEW l \in Logins, login'[l].pc \in {"signed", "saved"}
               PROVE  login'[l].usable
    BY DEF SignedAreUsable
  <1>1. CASE login'[l] = login[l]
    BY <1>1 DEF IInv, SignedAreUsable
  <1>2. CASE Started(l)
    BY <1>2 DEF Started
  <1>3. CASE Advanced(l)
    BY <1>3 DEF Advanced, IInv, SignedAreUsable
  <1> QED
    BY <1>1, <1>2, <1>3, LoginSteps DEF IInv

LEMMA UnseededUntouchedStep == IInv /\ [Next]_vars => UnseededUntouched'
  BY RowSteps DEF IInv, UnseededUntouched, Ended, Enabled, Seeded

LEMMA TokensIssuedStep == IInv /\ [Next]_vars => TokensIssued'
  <1> SUFFICES ASSUME IInv, [Next]_vars PROVE TokensIssued'
    OBVIOUS
  <1>1. ASSUME NEW l \in Logins, Issued(l) PROVE Issued(l)'
    BY <1>1, SameSignIn DEF Issued, IInv
  <1>2. /\ browser \in [Browsers -> Logins \cup {None}] /\ request \in [Requests -> Request]
        /\ login \in [Logins -> Login]
    BY DEF IInv, TypeOK
  <1>3. /\ \A b \in Browsers : browser[b] # None => Issued(browser[b])
        /\ \A q \in Requests : request[q].token # None => Issued(request[q].token)
        /\ \A q \in Requests :
              request[q].pc \in {"lookup", "admitted"} => request[q].token # None
    BY DEF IInv, TokensIssued
  <1>4. \A b \in Browsers : browser'[b] = browser[b] \/ browser'[b] = None
                            \/ (browser'[b] \in Logins /\ Issued(browser[b])')
    <2>1. ASSUME NEW l \in Logins, SaveSession(l)
          PROVE  /\ browser' = [browser EXCEPT ![login[l].browser] = l]
                 /\ Issued(l)'
      BY <2>1, <1>2, SameSignIn DEF SaveSession, Issued, IInv, SignedAreUsable, Login
    <2>2. ASSUME NEW b \in Browsers, HandleSignOut(b)
          PROVE  browser' = [browser EXCEPT ![b] = None]
      BY <2>2 DEF HandleSignOut
    <2>3. ASSUME NEW q \in Requests, Answer(q)
          PROVE  browser' = browser
                 \/ browser' = [browser EXCEPT ![request[q].browser] = None]
      BY <2>3 DEF Answer
    <2>4. \/ browser' = browser
          \/ \E l \in Logins : SaveSession(l)
          \/ \E b \in Browsers : HandleSignOut(b)
          \/ \E q \in Requests : Answer(q)
      BY DEF Next, SignInStep, LoginRead, LoginSign, LoginRefused, Expire,
         RequestStep, Send, Verify, Lookup, LookupFails, AnswerLost,
         OperatorStep, OpFind, Disable, Enable, Signout, SignoutAll, Seed, OpAborted, vars
    <2> SUFFICES ASSUME NEW b \in Browsers
                 PROVE  browser'[b] = browser[b] \/ browser'[b] = None
                        \/ (browser'[b] \in Logins /\ Issued(browser[b])')
      OBVIOUS
    <2>5. ASSUME NEW l \in Logins, SaveSession(l)
          PROVE  browser'[b] = browser[b] \/ (browser'[b] = l /\ Issued(l)')
      BY <2>1, <2>5, <1>2
    <2>6. CASE \E l \in Logins : SaveSession(l)
      <3>1. PICK l \in Logins : SaveSession(l)
        BY <2>6
      <3>2. CASE browser'[b] = l /\ Issued(l)'
        <4>1. Issued(browser[b])'
          BY <3>2 DEF Issued
        <4> QED
          BY <3>2, <4>1
      <3> QED
        BY <2>5, <3>1, <3>2
    <2>7. CASE browser' = browser \/ (\E c \in Browsers : HandleSignOut(c))
               \/ \E q \in Requests : Answer(q)
      BY <2>2, <2>3, <2>7, <1>2
    <2> QED
      BY <2>4, <2>6, <2>7
  <1>5. \A q \in Requests :
           \/ request'[q].token = None /\ request'[q].pc \notin {"lookup", "admitted"}
           \/ /\ request'[q].token = request[q].token
              /\ request'[q].pc \in {"lookup", "admitted"} => request[q].token # None
           \/ \E b \in Browsers : request'[q].token = browser[b] /\ request'[q].pc = "sent"
    <2> SUFFICES ASSUME NEW q \in Requests
                 PROVE  \/ request'[q].token = None /\ request'[q].pc \notin {"lookup", "admitted"}
                        \/ /\ request'[q].token = request[q].token
                           /\ request'[q].pc \in {"lookup", "admitted"} => request[q].token # None
                        \/ \E b \in Browsers :
                              request'[q].token = browser[b] /\ request'[q].pc = "sent"
      OBVIOUS
    <2>1. ASSUME NEW p \in Requests, NEW b \in Browsers, Send(p, b)
          PROVE  request'[q] = request[q]
                 \/ (request'[q].token = browser[b] /\ request'[q].pc = "sent")
      BY <2>1, <1>2 DEF Send
    <2>2. ASSUME NEW p \in Requests, Verify(p) \/ Lookup(p) \/ LookupFails(p)
          PROVE  /\ request'[q].token = request[q].token
                 /\ request'[q].pc \in {"lookup", "admitted"} => request[q].token # None
      BY <2>2, <1>2, <1>3 DEF Verify, Lookup, LookupFails, Answered, Request
    <2>3. ASSUME NEW p \in Requests, Answer(p) \/ AnswerLost(p)
          PROVE  request'[q] = request[q] \/ request'[q] = NoRequest
      BY <2>3, <1>2 DEF Answer, AnswerLost
    <2>4. \/ request' = request
          \/ \E p \in Requests, b \in Browsers : Send(p, b)
          \/ \E p \in Requests : Verify(p) \/ Lookup(p) \/ LookupFails(p)
          \/ \E p \in Requests : Answer(p) \/ AnswerLost(p)
      BY DEF Next, SignInStep, LoginRead, LoginSign, LoginRefused, SaveSession, HandleSignOut,
         Expire, RequestStep,
         OperatorStep, OpFind, Disable, Enable, Signout, SignoutAll, Seed, OpAborted, vars
    <2> QED
      BY <2>1, <2>2, <2>3, <2>4, <1>3 DEF NoRequest
  <1>6. \A b \in Browsers : browser[b] \in Logins \cup {None}
    BY <1>2
  <1>7. \A q \in Requests : request[q].token \in Logins \cup {None}
    BY <1>2 DEF Request
  <1>8. ASSUME NEW b \in Browsers, browser'[b] # None PROVE Issued(browser[b])'
    BY <1>1, <1>3, <1>4, <1>6, <1>8 DEF Issued
  <1>9. ASSUME NEW q \in Requests, request'[q].token # None PROVE Issued(request[q].token)'
    BY <1>1, <1>3, <1>5, <1>6, <1>7, <1>9 DEF Issued
  <1>10. ASSUME NEW q \in Requests, request'[q].pc \in {"lookup", "admitted"}
         PROVE  request'[q].token # None
    BY <1>5, <1>10
  <1> QED
    BY <1>8, <1>9, <1>10 DEF TokensIssued

LEMMA ScriptsAimedStep == IInv /\ [Next]_vars => ScriptsAimed'
  <1> SUFFICES ASSUME IInv, [Next]_vars, NEW o \in Operators, op'[o].pc = "write"
               PROVE  op'[o].account \in Accounts
                      /\ (op'[o].cmd # "seed" => staff'[op'[o].account].exists)
    BY DEF ScriptsAimed
  <1>1. op \in [Operators -> Op]
    BY DEF IInv, TypeOK
  <1>2. CASE op'[o] = op[o]
    BY <1>2, RowsGrow DEF IInv, ScriptsAimed
  <1>3. ASSUME NEW p \in Operators, NEW a \in Accounts,
               NEW cmd \in {"disable", "enable", "signout", "seed"}, OpFind(p, cmd, a),
               op'[o] # op[o]
        PROVE  op'[o].account \in Accounts
               /\ (op'[o].cmd # "seed" => staff'[op'[o].account].exists)
    <2>1. op'[o] = [pc |-> "write", cmd |-> cmd, account |-> a] /\ staff' = staff
      BY <1>1, <1>3 DEF OpFind
    <2>2. cmd # "seed" => staff[a].exists
      BY <1>3 DEF OpFind
    <2> QED
      BY <2>1, <2>2
  <1>4. ASSUME NEW p \in Operators,
               Disable(p) \/ Enable(p) \/ Signout(p) \/ Seed(p) \/ OpAborted(p)
        PROVE  op'[o] = op[o]
    BY <1>1, <1>4 DEF Disable, Enable, Signout, Seed, OpAborted, NoOp
  <1>5. CASE op' = op
    BY <1>2, <1>5
  <1> QED
    BY <1>2, <1>3, <1>4, <1>5 DEF Next, SignInStep, LoginRead, LoginSign, LoginRefused,
       SaveSession, HandleSignOut, Expire, RequestStep, Send, Verify, Lookup, LookupFails,
       Answer, AnswerLost, OperatorStep, SignoutAll, vars

LEMMA DisabledStep == IInv /\ [Next]_vars => DisabledSessionsEnded'
  <1> SUFFICES ASSUME IInv, [Next]_vars, NEW l \in Logins,
                      login'[l].pc \in {"compare", "signed", "saved"}, login'[l].usable,
                      ~staff'[login'[l].account].isActive
               PROVE  Outdated(l)'
    BY DEF DisabledSessionsEnded
  <1>1. login[l].pc # "new"
    <2>1. ~Started(l)
      <3> SUFFICES ASSUME NEW b \in Browsers, NEW a \in Accounts,
                          login'[l] = [pc |-> "compare", browser |-> b, account |-> a,
                                       usable |-> staff[a].exists /\ staff[a].isActive,
                                       ver |-> staff[a].tokenVersion],
                          staff' = staff
                   PROVE  FALSE
        BY DEF Started
      <3> DEFINE usable == staff[a].exists /\ staff[a].isActive
      <3>1. login'[l] = [pc |-> "compare", browser |-> b, account |-> a,
                         usable |-> usable, ver |-> staff[a].tokenVersion]
        OBVIOUS
      <3> HIDE DEF usable
      <3>2. login'[l].account = a
        BY <3>1
      <3>3. usable
        BY <3>1
      <3>4. ~staff[a].isActive
        BY <3>2
      <3> QED
        BY <3>3, <3>4 DEF usable
    <2>2. login'[l] = login[l] \/ Advanced(l)
      BY <2>1, LoginSteps DEF IInv
    <2> QED
      BY <2>2 DEF Advanced
  <1>2. login[l].pc \in {"compare", "signed", "saved"} /\ login[l].usable
        /\ login'[l].account = login[l].account /\ login'[l].ver = login[l].ver
    BY <1>1, LoginSteps DEF IInv, Started, Advanced
  <1>3. login[l].account \in Accounts /\ login[l].ver <= staff[login[l].account].tokenVersion
    BY <1>1 DEF IInv, SignInsRecorded
  <1>4. CASE ~staff[login[l].account].isActive
    BY <1>1, <1>2, <1>4, OutdatedStays DEF IInv, DisabledSessionsEnded
  <1>5. CASE staff[login[l].account].isActive
    <2>1. login[l].ver \in Nat
      BY SessionsAssumption DEF IInv, TypeOK, Login
    <2> QED
      BY <1>2, <1>3, <1>5, <2>1, RowsGrow DEF IInv, Outdated
  <1> QED
    BY <1>4, <1>5

LEMMA RefusalStep == IInv /\ [Next]_vars => RefusalIsFinal'
  <1> SUFFICES ASSUME IInv, [Next]_vars, NEW q \in Requests, request'[q].pc = "unauthorized"
               PROVE  request'[q].token \in expired' \cup {None} \/ Outdated(request[q].token)'
    BY DEF RefusalIsFinal
  <1>1. request \in [Requests -> Request] /\ request[q] \in Request
    BY DEF IInv, TypeOK
  <1>2. expired \subseteq expired'
    BY DEF Next, SignInStep, LoginRead, LoginSign, LoginRefused, SaveSession, HandleSignOut,
       Expire, RequestStep, Send, Verify, Lookup, LookupFails, Answer, AnswerLost,
       OperatorStep, OpFind, Disable, Enable, Signout, SignoutAll, Seed, OpAborted, vars
  <1>3. request[q].token # None =>
           request[q].token \in Logins /\ login[request[q].token].pc # "new"
    BY <1>1 DEF IInv, TokensIssued, Issued, Request
  <1>4. CASE request'[q] = request[q]
    <2>1. request[q].token \in expired \cup {None} \/ Outdated(request[q].token)
      BY <1>4 DEF IInv, RefusalIsFinal
    <2>2. CASE request[q].token \in expired \cup {None}
      BY <1>2, <1>4, <2>2
    <2>3. CASE request[q].token # None /\ Outdated(request[q].token)
      <3>1. PICK l \in Logins : l = request[q].token
        BY <1>3, <2>3
      <3>2. Outdated(l)'
        BY <1>3, <2>3, <3>1, OutdatedStays
      <3> QED
        BY <1>4, <3>1, <3>2 DEF Outdated
    <2> QED
      BY <2>1, <2>2, <2>3
  <1>5. ASSUME NEW p \in Requests, Verify(p), request'[q] # request[q]
        PROVE  request'[q].token \in expired' \cup {None}
    BY <1>1, <1>5 DEF Verify, Answered
  <1>6. ASSUME NEW p \in Requests, Lookup(p), request'[q] # request[q]
        PROVE  Outdated(request[q].token)'
    <2>1. p = q /\ request[q].pc = "lookup" /\ SessionEnded(request[q].token)
          /\ request'[q].token = request[q].token
      BY <1>1, <1>6 DEF Lookup, Answered
    <2>2. request[q].token # None
      BY <2>1 DEF IInv, TokensIssued
    <2>3. PICK l \in Logins : l = request[q].token
      BY <1>3, <2>2
    <2>4. Issued(l)
      BY <2>2, <2>3 DEF IInv, TokensIssued
    <2>5. staff[login[l].account].exists
      BY <2>4 DEF Issued, IInv, SignInsRecorded
    <2>6. Outdated(l)
      BY <2>1, <2>3, <2>4, <2>5
         DEF SessionEnded, Issued, IInv, DisabledSessionsEnded, Outdated
    <2>7. staff' = staff /\ login' = login
      BY <1>6 DEF Lookup
    <2> QED
      BY <2>1, <2>3, <2>6, <2>7 DEF Outdated
  <1>7. ASSUME NEW p \in Requests, LookupFails(p) PROVE request'[q] = request[q]
    BY <1>1, <1>7 DEF LookupFails, Answered
  <1>8. ASSUME NEW p \in Requests, Answer(p) \/ AnswerLost(p) PROVE request'[q] = request[q]
    BY <1>1, <1>8 DEF Answer, AnswerLost, NoRequest
  <1>9. ASSUME NEW p \in Requests, NEW b \in Browsers, Send(p, b) PROVE request'[q] = request[q]
    BY <1>1, <1>9 DEF Send
  <1>10. CASE request' = request
    BY <1>4, <1>10
  <1> QED
    BY <1>4, <1>5, <1>6, <1>7, <1>8, <1>9, <1>10 DEF Next, SignInStep, LoginRead, LoginSign,
       LoginRefused, SaveSession, HandleSignOut, Expire, RequestStep, OperatorStep, OpFind,
       Disable, Enable, Signout, SignoutAll, Seed, OpAborted, vars

LEMMA InitIInv == Init => IInv
  <1> SUFFICES ASSUME Init PROVE IInv
    OBVIOUS
  <1>1. TypeOK
    BY InitTypeOK
  <1>2. SignInsRecorded /\ SignedAreUsable /\ DisabledSessionsEnded
    BY DEF Init, SignInsRecorded, SignedAreUsable, DisabledSessionsEnded, NoLogin
  <1>3. UnseededUntouched /\ TokensIssued /\ ScriptsAimed /\ RefusalIsFinal
    BY DEF Init, UnseededUntouched, TokensIssued, ScriptsAimed, RefusalIsFinal,
       NoRequest, NoOp
  <1> QED
    BY <1>1, <1>2, <1>3 DEF IInv

LEMMA IInvStep == IInv /\ [Next]_vars => IInv'
  <1> SUFFICES ASSUME IInv, [Next]_vars PROVE IInv'
    OBVIOUS
  <1>1. TypeOK'
    BY TypeStep DEF IInv
  <1> QED
    BY <1>1, SignInsRecordedStep, SignedAreUsableStep, UnseededUntouchedStep, TokensIssuedStep,
       ScriptsAimedStep, DisabledStep, RefusalStep DEF IInv

THEOREM IInvHolds == Spec => []IInv
  <1> QED
    BY InitIInv, IInvStep, PTL DEF Spec

-----------------------------------------------------------------------------
(***************************************************************************)
(* The properties of module StaffSessions.                                 *)
(***************************************************************************)

\* disable, enable: for any number of accounts, sign-ins and scripts, no
\* sign-in of a disabled account carries the version the account has now.
THEOREM DisabledAreSignedOut == Spec => []DisabledSessionsEnded
  <1> QED
    BY IInvHolds, PTL DEF IInv

\* requireStaffAuth: a 401 on its way to a page refuses a token that is dead
\* for good.
THEOREM RefusalsAreFinal == Spec => []RefusalIsFinal
  <1> QED
    BY IInvHolds, PTL DEF IInv

\* staff-access.js, seed.js: however the scripts interleave, an account never
\* returns to a version whose tokens were ended.
THEOREM VersionsNeverReturn == Spec => VersionsOnlyGrow
  <1>1. IInv /\ [Next]_vars =>
           [\A a \in Accounts : staff[a].exists =>
              staff'[a].exists /\ staff'[a].tokenVersion >= staff[a].tokenVersion]_vars
    BY RowsGrow DEF IInv
  <1> QED
    BY <1>1, IInvHolds, PTL DEF Spec, VersionsOnlyGrow

-----------------------------------------------------------------------------
(***************************************************************************)
(* StaffSessions implements Sessions.                                      *)
(***************************************************************************)
Ses == [l \in Logins |-> SessionOf(l)]
Own == [l \in Logins |-> login[l].account]
Blk == {a \in Accounts : staff[a].exists /\ ~staff[a].isActive}
Adm == [q \in Requests |-> IF request[q].pc = "admitted" THEN request[q].token ELSE None]

LEMMA SessionKept ==
  ASSUME NEW l \in Logins, login'[l] = login[l], staff' = staff
  PROVE  SessionOf(l)' = SessionOf(l)
  BY DEF SessionOf, Outdated

\* The sessions a raised version ends.
LEMMA EndStep ==
  ASSUME IInv, login' = login, request' = request, NEW accounts \in SUBSET Accounts,
         \A a \in accounts : staff'[a].tokenVersion = staff[a].tokenVersion + 1,
         \A l \in Logins : login[l].usable /\ login[l].account \notin accounts =>
             staff'[login[l].account] = staff[login[l].account]
  PROVE  /\ Ses' = [l \in Logins |-> IF Own[l] \in accounts /\ login[l].pc # "new"
                                     THEN "ended" ELSE Ses[l]]
         /\ \A l \in Logins : Own[l] \in accounts => login[l].pc # "new"
         /\ Own' = Own /\ Adm' = Adm
  <1>1. ASSUME NEW l \in Logins, login[l].account \in accounts
        PROVE  login[l].pc # "new" /\ SessionOf(l)' = "ended"
    <2>1. login[l].account \in Accounts
      BY <1>1
    <2>2. login[l].pc # "new"
      BY <2>1, SessionsAssumption DEF IInv, SignInsRecorded, NoLogin
    <2>3. login[l].ver <= staff[login[l].account].tokenVersion
          /\ login[l].ver \in Nat /\ staff[login[l].account].tokenVersion \in Nat
      BY <2>1, <2>2, SessionsAssumption
         DEF IInv, SignInsRecorded, TypeOK, Login, StaffUser
    <2>4. Outdated(l)'
      BY <1>1, <2>3 DEF Outdated
    <2> QED
      BY <2>2, <2>4 DEF SessionOf
  <1>2. ASSUME NEW l \in Logins, login[l].account \notin accounts
        PROVE  SessionOf(l)' = SessionOf(l)
    BY <1>2 DEF SessionOf, Outdated
  <1> QED
    BY <1>1, <1>2 DEF Ses, Own, Adm

LEMMA SignInKeepsRules ==
  ASSUME IInv, SignInStep
  PROVE  Rules!Next \/ UNCHANGED Rules!vars
  <1>0. login \in [Logins -> Login] /\ staff \in [Accounts -> StaffUser]
    BY DEF IInv, TypeOK
  <1>1. ASSUME NEW l \in Logins, NEW b \in Browsers, NEW a \in Accounts, LoginRead(l, b, a)
        PROVE  Rules!Next
    <2> DEFINE usable == staff[a].exists /\ staff[a].isActive
               new == [pc |-> "compare", browser |-> b, account |-> a,
                       usable |-> usable, ver |-> staff[a].tokenVersion]
    <2>1. /\ login[l].pc = "new" /\ login' = [login EXCEPT ![l] = new]
          /\ staff' = staff /\ request' = request
      BY <1>1 DEF LoginRead
    <2> HIDE DEF usable
    <2>2. login'[l].pc = "compare" /\ login'[l].account = a
          /\ login'[l].ver = staff'[a].tokenVersion
      BY <1>0, <2>1
    <2>3. \A m \in Logins \ {l} : login'[m] = login[m] /\ SessionOf(m)' = SessionOf(m)
      BY <1>0, <2>1, SessionKept
    <2>4. SessionOf(l) = "none" /\ Own' = [Own EXCEPT ![l] = a]
          /\ Blk' = Blk /\ Adm' = Adm
      <3>1. SessionOf(l) = "none"
        BY <2>1 DEF SessionOf
      <3>2. Own' = [Own EXCEPT ![l] = a]
        BY <2>2, <2>3 DEF Own
      <3>3. Blk' = Blk
        BY <2>1 DEF Blk
      <3>4. Adm' = Adm
        BY <2>1 DEF Adm
      <3> QED
        BY <3>1, <3>2, <3>3, <3>4
    <2>5. ~Outdated(l)'
      BY <2>2 DEF Outdated
    <2>6. CASE usable
      <3>1. login'[l].usable
        BY <1>0, <2>1, <2>6
      <3>2. SessionOf(l)' = "opening"
        BY <2>2, <2>5, <3>1 DEF SessionOf
      <3>3. Ses' = [Ses EXCEPT ![l] = "opening"]
        BY <2>3, <3>2 DEF Ses
      <3>4. a \notin Blk
        BY <2>6 DEF usable, Blk
      <3>5. Rules!Begin(l, a)
        BY <2>4, <3>3, <3>4 DEF Rules!Begin, Ses, Own, Blk, Adm
      <3> QED
        BY <3>5 DEF Rules!Next
    <2>7. CASE ~usable
      <3>1. ~login'[l].usable
        BY <1>0, <2>1, <2>7
      <3>2. SessionOf(l)' = "ended"
        BY <2>2, <3>1 DEF SessionOf
      <3>3. Ses' = [Ses EXCEPT ![l] = "ended"]
        BY <2>3, <3>2 DEF Ses
      <3>5. Rules!Refuse(l, a)
        BY <2>4, <3>3 DEF Rules!Refuse, Ses, Own, Blk, Adm
      <3> QED
        BY <3>5 DEF Rules!Next
    <2> QED
      BY <2>6, <2>7
  <1>2. ASSUME NEW l \in Logins, LoginSign(l) \/ LoginRefused(l)
        PROVE  Rules!Next
    <2>1. PICK pc \in {"signed", "failed"} :
             login' = [login EXCEPT ![l] = [login[l] EXCEPT !.pc = pc]]
      BY <1>2 DEF LoginSign, LoginRefused
    <2>2. login[l].pc = "compare" /\ staff' = staff /\ request' = request
      BY <1>2 DEF LoginSign, LoginRefused
    <2>3. /\ login'[l].pc = pc /\ login'[l].account = login[l].account
          /\ login'[l].ver = login[l].ver /\ login'[l].usable = login[l].usable
      BY <1>0, <2>1 DEF Login
    <2>4. \A m \in Logins \ {l} : login'[m] = login[m] /\ SessionOf(m)' = SessionOf(m)
      BY <1>0, <2>1, <2>2, SessionKept
    <2>5. Own' = Own /\ Blk' = Blk /\ Adm' = Adm
      BY <2>2, <2>3, <2>4 DEF Own, Blk, Adm
    <2>6. \/ SessionOf(l) = "opening" /\ SessionOf(l)' \in {"open", "ended"}
          \/ SessionOf(l) = "ended" /\ SessionOf(l)' = "ended"
      BY <2>2, <2>3 DEF SessionOf, Outdated
    <2>7. Ses' = [Ses EXCEPT ![l] = SessionOf(l)']
      BY <2>4 DEF Ses
    <2>8. SessionOf(l) = "ended" /\ SessionOf(l)' = "ended" => Ses' = Ses
      BY <2>4 DEF Ses
    <2>9. Rules!Finish(l)
      BY <2>5, <2>6, <2>7, <2>8 DEF Rules!Finish, Ses, Own, Blk, Adm
    <2> QED
      BY <2>9 DEF Rules!Next
  <1>3. ASSUME NEW l \in Logins, SaveSession(l) PROVE UNCHANGED Rules!vars
    <2>1. /\ login'[l].pc = "saved" /\ login'[l].account = login[l].account
          /\ login'[l].ver = login[l].ver /\ login'[l].usable = login[l].usable
      BY <1>0, <1>3 DEF SaveSession, Login
    <2>2. \A m \in Logins \ {l} : login'[m] = login[m] /\ SessionOf(m)' = SessionOf(m)
      BY <1>0, <1>3, SessionKept DEF SaveSession
    <2>3. SessionOf(l)' = SessionOf(l)
      BY <1>3, <2>1 DEF SaveSession, SessionOf, Outdated
    <2>4. Ses' = Ses /\ Own' = Own /\ Blk' = Blk /\ Adm' = Adm
      BY <1>3, <2>1, <2>2, <2>3 DEF SaveSession, Ses, Own, Blk, Adm
    <2> QED
      BY <2>4 DEF Rules!vars, Ses, Own, Blk, Adm
  <1>4. ASSUME login' = login, staff' = staff, request' = request PROVE UNCHANGED Rules!vars
    BY <1>4, SessionKept DEF Rules!vars
  <1> QED
    BY <1>1, <1>2, <1>3, <1>4 DEF SignInStep, HandleSignOut, Expire

LEMMA RequestKeepsRules ==
  ASSUME IInv, RequestStep
  PROVE  Rules!Next \/ UNCHANGED Rules!vars
  <1>0. request \in [Requests -> Request] /\ login' = login /\ staff' = staff
    BY DEF IInv, TypeOK, RequestStep, Send, Verify, Lookup, LookupFails, Answer, AnswerLost
  <1>1. Ses' = Ses /\ Own' = Own /\ Blk' = Blk
    BY <1>0, SessionKept DEF Ses, Own, Blk
  <1>2. ASSUME NEW q \in Requests, \A p \in Requests \ {q} : request'[p] = request[p]
        PROVE  Adm' = [Adm EXCEPT ![q] = IF request'[q].pc = "admitted"
                                         THEN request'[q].token ELSE None]
    BY <1>2 DEF Adm
  <1>3. ASSUME NEW q \in Requests, \A p \in Requests \ {q} : request'[p] = request[p],
               request'[q].pc # "admitted", request[q].pc # "admitted"
        PROVE  UNCHANGED Rules!vars
    <2>1. Adm' = Adm
      BY <1>3 DEF Adm
    <2> QED
      BY <1>1, <2>1 DEF Rules!vars, Ses, Own, Blk, Adm
  <1>4. ASSUME NEW q \in Requests, Answer(q) \/ AnswerLost(q) PROVE Rules!Next
    <2>1. request' = [request EXCEPT ![q] = NoRequest]
      BY <1>4 DEF Answer, AnswerLost
    <2>2. Adm' = [Adm EXCEPT ![q] = None]
      BY <1>0, <2>1, <1>2 DEF NoRequest
    <2>3. Rules!Done(q)
      BY <1>1, <2>2 DEF Rules!Done, Ses, Own, Blk, Adm
    <2> QED
      BY <2>3 DEF Rules!Next
  <1>5. ASSUME NEW q \in Requests, NEW b \in Browsers, Send(q, b) PROVE UNCHANGED Rules!vars
    <2>1. /\ \A p \in Requests \ {q} : request'[p] = request[p]
          /\ request'[q].pc = "sent" /\ request[q].pc = "idle"
      BY <1>0, <1>5 DEF Send
    <2> QED
      BY <1>3, <2>1
  <1>6. ASSUME NEW q \in Requests, NEW verdict, Answered(q, verdict)
        PROVE  /\ \A p \in Requests \ {q} : request'[p] = request[p]
               /\ request'[q].pc = verdict /\ request'[q].token = request[q].token
    BY <1>0, <1>6 DEF Answered, Request
  <1>7. ASSUME NEW q \in Requests, Verify(q) PROVE UNCHANGED Rules!vars
    <2>1. PICK verdict \in {"lookup", "unauthorized"} : Answered(q, verdict)
      BY <1>7 DEF Verify
    <2>2. request[q].pc # "admitted" /\ verdict # "admitted"
      BY <1>7, <2>1 DEF Verify
    <2> QED
      BY <1>3, <1>6, <2>1, <2>2
  <1>8. ASSUME NEW q \in Requests, LookupFails(q) PROVE UNCHANGED Rules!vars
    <2>1. Answered(q, "failed") /\ request[q].pc # "admitted"
      BY <1>8 DEF LookupFails
    <2> QED
      BY <1>3, <1>6, <2>1
  <1>9. ASSUME NEW q \in Requests, Lookup(q) PROVE Rules!Next \/ UNCHANGED Rules!vars
    <2>1. CASE SessionEnded(request[q].token)
      <3>1. Answered(q, "unauthorized") /\ request[q].pc # "admitted"
        BY <1>9, <2>1 DEF Lookup
      <3> QED
        BY <1>3, <1>6, <3>1
    <2>2. CASE ~SessionEnded(request[q].token)
      <3>1. request[q].token \in Logins /\ Issued(request[q].token)
        BY <1>0, <1>9 DEF Lookup, IInv, TokensIssued, Request
      <3>2. PICK l \in Logins : l = request[q].token
        BY <3>1
      <3>3. /\ login[l].pc = "saved" /\ login[l].usable /\ ~Outdated(l)
            /\ staff[login[l].account].exists /\ staff[login[l].account].isActive
        BY <2>2, <3>1, <3>2 DEF Issued, SessionEnded, Outdated
      <3>4. SessionOf(l) = "open"
        BY <3>3 DEF SessionOf
      <3>5. login[l].account \notin Blk
        BY <3>3 DEF Blk
      <3>6. Answered(q, "admitted")
        BY <1>9, <2>2 DEF Lookup
      <3>7. Adm' = [Adm EXCEPT ![q] = l]
        BY <1>2, <1>6, <3>2, <3>6
      <3>8. Rules!Admit(q, l)
        BY <1>1, <3>4, <3>5, <3>7 DEF Rules!Admit, Ses, Own, Blk, Adm
      <3> QED
        BY <3>8 DEF Rules!Next
    <2> QED
      BY <2>1, <2>2
  <1> QED
    BY <1>4, <1>5, <1>7, <1>8, <1>9 DEF RequestStep

\* A script whose write raises versions is an End of the accounts it is about.
LEMMA EndKeepsRules ==
  ASSUME IInv, login' = login, request' = request, NEW accounts \in SUBSET Accounts,
         \A a \in accounts : staff'[a].tokenVersion = staff[a].tokenVersion + 1,
         \A l \in Logins : login[l].usable /\ login[l].account \notin accounts =>
             staff'[login[l].account] = staff[login[l].account],
         NEW block \in BOOLEAN,
         Blk' = IF block THEN Blk \cup accounts ELSE Blk
  PROVE  Rules!Next
  <1>1. Ses' = [l \in Logins |-> IF Own[l] \in accounts THEN "ended" ELSE Ses[l]]
        /\ Own' = Own /\ Adm' = Adm
    BY EndStep
  <1>2. Rules!End(accounts, block)
    BY <1>1 DEF Rules!End, Ses, Own, Blk, Adm
  <1> QED
    BY <1>2 DEF Rules!Next

LEMMA OperatorKeepsRules ==
  ASSUME IInv, OperatorStep
  PROVE  Rules!Next \/ UNCHANGED Rules!vars
  <1>0. /\ login' = login /\ request' = request
        /\ staff \in [Accounts -> StaffUser] /\ TypeOK
        /\ \A o \in Operators : op[o].pc = "write" =>
              op[o].account \in Accounts
              /\ (op[o].cmd # "seed" => staff[op[o].account].exists)
    BY DEF IInv, TypeOK, ScriptsAimed, OperatorStep, OpFind, Disable, Enable, Signout,
       SignoutAll, Seed, OpAborted
  <1>1. ASSUME NEW o \in Operators, Disable(o) PROVE Rules!Next
    <2> DEFINE new == [Bumped(staff[op[o].account]) EXCEPT !.isActive = FALSE]
    <2>1. PICK a \in Accounts : a = op[o].account
      BY <1>0, <1>1 DEF Disable
    <2>2. staff[a].exists /\ staff[a] \in StaffUser /\ staff[a].tokenVersion < MaxVersion
      BY <1>0, <1>1, <2>1 DEF Disable
    <2>3. staff' = [staff EXCEPT ![a] = new]
      BY <1>1, <2>1 DEF Disable
    <2>4. new.exists /\ new.isActive = FALSE /\ new.tokenVersion = staff[a].tokenVersion + 1
      BY <2>1, <2>2, BumpedType DEF StaffUser
    <2> HIDE DEF new
    <2>5. /\ staff'[a] = new
          /\ \A c \in Accounts \ {a} : staff'[c] = staff[c]
      BY <1>0, <2>3
    <2>6. Blk' = Blk \cup {a}
      BY <2>4, <2>5 DEF Blk
    <2>7. \A l \in Logins : login[l].usable /\ login[l].account \notin {a} =>
             staff'[login[l].account] = staff[login[l].account]
      BY <1>0, <2>3
    <2> QED
      BY <1>0, <2>4, <2>5, <2>6, <2>7, EndKeepsRules
  <1>2. ASSUME NEW o \in Operators, Signout(o) PROVE Rules!Next
    <2> DEFINE new == Bumped(staff[op[o].account])
    <2>1. PICK a \in Accounts : a = op[o].account
      BY <1>0, <1>2 DEF Signout
    <2>2. staff[a].exists /\ staff[a] \in StaffUser /\ staff[a].tokenVersion < MaxVersion
      BY <1>0, <1>2, <2>1 DEF Signout
    <2>3. staff' = [staff EXCEPT ![a] = new]
      BY <1>2, <2>1 DEF Signout
    <2>4. new.exists /\ new.isActive = staff[a].isActive
          /\ new.tokenVersion = staff[a].tokenVersion + 1
      BY <2>1, <2>2, BumpedType
    <2> HIDE DEF new
    <2>5. /\ staff'[a] = new
          /\ \A c \in Accounts \ {a} : staff'[c] = staff[c]
      BY <1>0, <2>3
    <2>6. Blk' = Blk
      BY <2>2, <2>4, <2>5 DEF Blk
    <2>7. \A l \in Logins : login[l].usable /\ login[l].account \notin {a} =>
             staff'[login[l].account] = staff[login[l].account]
      BY <1>0, <2>3
    <2> QED
      BY <1>0, <2>4, <2>5, <2>6, <2>7, EndKeepsRules
  <1>3. ASSUME SignoutAll PROVE Rules!Next
    <2> DEFINE seeded == {a \in Accounts : staff[a].exists}
    <2>1. staff' = [a \in Accounts |-> IF staff[a].exists THEN Bumped(staff[a]) ELSE staff[a]]
      BY <1>3 DEF SignoutAll
    <2>2. \A a \in seeded : staff[a] \in StaffUser /\ staff[a].tokenVersion < MaxVersion
      BY <1>0, <1>3 DEF SignoutAll
    <2>3. \A a \in seeded : /\ staff'[a].tokenVersion = staff[a].tokenVersion + 1
                            /\ staff'[a].exists /\ staff'[a].isActive = staff[a].isActive
      BY <2>1, <2>2, BumpedType
    <2>4. \A a \in Accounts \ seeded : staff'[a] = staff[a]
      BY <2>1
    <2>5. Blk' = Blk
      BY <2>3, <2>4 DEF Blk
    <2>6. \A l \in Logins : login[l].usable => login[l].account \in seeded
      BY SessionsAssumption DEF IInv, SignInsRecorded, NoLogin
    <2> QED
      BY <1>0, <2>3, <2>5, <2>6, EndKeepsRules
  <1>4. ASSUME NEW o \in Operators, Enable(o) PROVE Rules!Next
    <2>1. PICK a \in Accounts : a = op[o].account
      BY <1>0, <1>4 DEF Enable
    <2>2. /\ staff'[a].isActive /\ staff'[a].tokenVersion = staff[a].tokenVersion
          /\ staff'[a].exists = staff[a].exists
          /\ \A c \in Accounts \ {a} : staff'[c] = staff[c]
      BY <1>0, <1>4, <2>1 DEF Enable, StaffUser
    <2>3. Blk' = Blk \ {a}
      BY <2>2 DEF Blk
    <2>4. \A l \in Logins : Outdated(l)' = Outdated(l) \/ login[l].account \notin Accounts
      BY <1>0, <2>2 DEF Outdated
    <2>5. Ses' = Ses
      <3>1. ASSUME NEW l \in Logins PROVE SessionOf(l)' = SessionOf(l)
        <4>1. login[l].account \in Accounts \/ login[l].pc = "new"
          BY DEF IInv, SignInsRecorded
        <4> QED
          BY <1>0, <2>4, <4>1 DEF SessionOf
      <3> QED
        BY <3>1 DEF Ses
    <2>6. Rules!Unblock(a)
      BY <1>0, <2>3, <2>5 DEF Rules!Unblock, Ses, Own, Blk, Adm
    <2> QED
      BY <2>6 DEF Rules!Next
  <1>5. ASSUME NEW o \in Operators, Seed(o) PROVE UNCHANGED Rules!vars
    <2>1. PICK a \in Accounts : a = op[o].account
      BY <1>0, <1>5 DEF Seed
    <2> DEFINE new == [exists |-> TRUE, isActive |-> TRUE, tokenVersion |-> 0]
    <2>2. staff' = staff \/ (~staff[a].exists /\ staff' = [staff EXCEPT ![a] = new])
      BY <1>5, <2>1 DEF Seed
    <2>3. new.isActive /\ new.tokenVersion = 0
      OBVIOUS
    <2> HIDE DEF new
    <2>4. /\ \A c \in Accounts : staff'[c].tokenVersion = staff[c].tokenVersion
          /\ Blk' = Blk
      BY <1>0, <2>2, <2>3 DEF Blk, IInv, UnseededUntouched
    <2>5. Ses' = Ses
      <3>1. ASSUME NEW l \in Logins PROVE SessionOf(l)' = SessionOf(l)
        <4>1. login[l].account \in Accounts \/ login[l].pc = "new"
          BY DEF IInv, SignInsRecorded
        <4> QED
          BY <1>0, <2>4, <4>1 DEF SessionOf, Outdated
      <3> QED
        BY <3>1 DEF Ses
    <2> QED
      BY <1>0, <2>4, <2>5 DEF Rules!vars, Ses, Own, Blk, Adm
  <1>6. ASSUME staff' = staff PROVE UNCHANGED Rules!vars
    BY <1>0, <1>6, SessionKept DEF Rules!vars
  <1> QED
    BY <1>1, <1>2, <1>3, <1>4, <1>5, <1>6 DEF OperatorStep, OpFind, OpAborted

\* Sign-ins, requests and scripts, for any number of each, are behaviours of
\* module Sessions.
THEOREM StaffSessionsKeepRules == Spec => KeepsSessionRules
  <1>1. Init => Rules!Init
    <2> SUFFICES ASSUME Init PROVE Rules!Init
      OBVIOUS
    <2>1. Ses = [l \in Logins |-> "none"] /\ Own = [l \in Logins |-> None]
      BY DEF Init, Ses, Own, SessionOf, NoLogin
    <2>2. Blk = {} /\ Adm = [q \in Requests |-> None]
      BY DEF Init, Blk, Adm, NoRequest
    <2> QED
      BY <2>1, <2>2 DEF Rules!Init, Ses, Own, Blk, Adm
  <1>2. IInv /\ [Next]_vars => [Rules!Next]_Rules!vars
    <2> SUFFICES ASSUME IInv, [Next]_vars PROVE Rules!Next \/ UNCHANGED Rules!vars
      OBVIOUS
    <2>1. CASE UNCHANGED vars
      BY <2>1, SessionKept DEF vars, Rules!vars
    <2> QED
      BY <2>1, SignInKeepsRules, RequestKeepsRules, OperatorKeepsRules DEF Next
  <1> QED
    BY <1>1, <1>2, IInvHolds, PTL DEF Spec, KeepsSessionRules, Rules!Spec
=============================================================================
