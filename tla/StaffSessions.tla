--------------------------- MODULE StaffSessions ---------------------------
(***************************************************************************)
(* Staff sign-in, the check every staff request passes, and the operator   *)
(* script that ends sessions.                                              *)
(*                                                                         *)
(* The server keeps no session store: a token carries the account's        *)
(* tokenVersion as the sign-in read it, and is good while the account's    *)
(* row still says the same.  Sign-in, request and script each read the row *)
(* and act on it later, so their steps interleave.                         *)
(***************************************************************************)
EXTENDS Naturals, FiniteSets

CONSTANTS
    Accounts,    \* staff accounts, seeded or not
    Logins,      \* sign-in attempts; each yields at most one token
    Browsers,    \* browsers, whose tabs share one localStorage
    Requests,    \* staff requests in flight
    Operators,   \* runs of the staff-access and seed scripts
    MaxVersion,  \* bound on tokenVersion
    None         \* null

ASSUME SessionsAssumption ==
    /\ MaxVersion \in Nat
    /\ None \notin Logins \cup Accounts

VARIABLES
    staff,      \* the StaffUser table
    login,      \* sign-in attempts, and the tokens they produced
    expired,    \* tokens past JWT_EXPIRES_IN
    browser,    \* the token in each browser's localStorage
    request,    \* staff requests
    op          \* operator scripts

vars == <<staff, login, expired, browser, request, op>>

StaffUser == [exists : BOOLEAN, isActive : BOOLEAN, tokenVersion : 0..MaxVersion]
Login == [pc : {"new", "compare", "signed", "saved", "failed"}, browser : Browsers \cup {None},
          account : Accounts \cup {None}, usable : BOOLEAN, ver : 0..MaxVersion]
Request == [pc : {"idle", "sent", "lookup", "admitted", "unauthorized", "failed"},
            browser : Browsers \cup {None}, token : Logins \cup {None}]
Op == [pc : {"idle", "write"}, cmd : {"none", "disable", "enable", "signout", "seed"},
       account : Accounts \cup {None}]

NoLogin == [pc |-> "new", browser |-> None, account |-> None, usable |-> FALSE, ver |-> 0]
NoRequest == [pc |-> "idle", browser |-> None, token |-> None]
NoOp == [pc |-> "idle", cmd |-> "none", account |-> None]

Init ==
    /\ staff = [a \in Accounts |-> [exists |-> FALSE, isActive |-> TRUE, tokenVersion |-> 0]]
    /\ login = [l \in Logins |-> NoLogin]
    /\ expired = {}
    /\ browser = [b \in Browsers |-> None]
    /\ request = [q \in Requests |-> NoRequest]
    /\ op = [o \in Operators |-> NoOp]

(***************************************************************************)
(* login: findUnique, then bcrypt.compare, then sign.                      *)
(***************************************************************************)

\* Fault: the version of an account that is not there has no default.
LoginReadNoDefault(l, b, a) ==
    /\ login[l].pc = "new"
    /\ login' = [login EXCEPT ![l] =
                   [pc |-> "compare", browser |-> b, account |-> a,
                    usable |-> staff[a].exists /\ staff[a].isActive,
                    ver |-> IF staff[a].exists THEN staff[a].tokenVersion ELSE None]]
    /\ UNCHANGED <<staff, expired, browser, request, op>>

LoginRead(l, b, a) ==
    /\ login[l].pc = "new"
    /\ login' = [login EXCEPT ![l] =
                   [pc |-> "compare", browser |-> b, account |-> a,
                    usable |-> staff[a].exists /\ staff[a].isActive,
                    ver |-> staff[a].tokenVersion]]
    /\ UNCHANGED <<staff, expired, browser, request, op>>

\* Fault: the account is read again for the token, and not checked again.
LoginSignFresh(l) ==
    /\ login[l].pc = "compare"
    /\ login[l].usable
    /\ login' = [login EXCEPT ![l] =
                   [@ EXCEPT !.pc = "signed", !.ver = staff[login[l].account].tokenVersion]]
    /\ UNCHANGED <<staff, expired, browser, request, op>>

\* The token is signed with the version read before the comparison.
LoginSign(l) ==
    /\ login[l].pc = "compare"
    /\ login[l].usable
    /\ login' = [login EXCEPT ![l] = [@ EXCEPT !.pc = "signed"]]
    /\ UNCHANGED <<staff, expired, browser, request, op>>

\* Wrong password, unknown or disabled account, or the request dies: 401.
LoginRefused(l) ==
    /\ login[l].pc = "compare"
    /\ login' = [login EXCEPT ![l] = [@ EXCEPT !.pc = "failed"]]
    /\ UNCHANGED <<staff, expired, browser, request, op>>

\* saveSession: the answer reaches the page, over whatever was stored before.
SaveSession(l) ==
    /\ login[l].pc = "signed"
    /\ login' = [login EXCEPT ![l] = [@ EXCEPT !.pc = "saved"]]
    /\ browser' = [browser EXCEPT ![login[l].browser] = l]
    /\ UNCHANGED <<staff, expired, request, op>>

\* The sign-out button only forgets the token.
HandleSignOut(b) ==
    /\ browser[b] # None
    /\ browser' = [browser EXCEPT ![b] = None]
    /\ UNCHANGED <<staff, login, expired, request, op>>

Expire(l) ==
    /\ login[l].pc \in {"signed", "saved"}
    /\ l \notin expired
    /\ expired' = expired \cup {l}
    /\ UNCHANGED <<staff, login, browser, request, op>>

(***************************************************************************)
(* requireStaffAuth, and what the page does with the answer.               *)
(***************************************************************************)

\* An open page asks with whatever the shared storage holds now; another tab
\* may have signed out since the page was opened.
Send(q, b) ==
    /\ request[q].pc = "idle"
    /\ request' = [request EXCEPT ![q] = [pc |-> "sent", browser |-> b, token |-> browser[b]]]
    /\ UNCHANGED <<staff, login, expired, browser, op>>

Answered(q, verdict) == request' = [request EXCEPT ![q] = [@ EXCEPT !.pc = verdict]]

\* No token, or jwt.verify refuses it, before the first await.
Verify(q) ==
    /\ request[q].pc = "sent"
    /\ Answered(q, IF request[q].token \in expired \cup {None} THEN "unauthorized" ELSE "lookup")
    /\ UNCHANGED <<staff, login, expired, browser, op>>

SessionEnded(l) ==
    LET account == staff[login[l].account]
    IN  ~account.exists \/ ~account.isActive \/ account.tokenVersion # login[l].ver

\* The row as it is when the lookup reads it decides, not the token.
Lookup(q) ==
    /\ request[q].pc = "lookup"
    /\ Answered(q, IF SessionEnded(request[q].token) THEN "unauthorized" ELSE "admitted")
    /\ UNCHANGED <<staff, login, expired, browser, op>>

\* Fault: a lookup that throws counts as an ended session.
LookupFailsRefused(q) ==
    /\ request[q].pc = "lookup"
    /\ Answered(q, "unauthorized")
    /\ UNCHANGED <<staff, login, expired, browser, op>>

\* The database cannot be reached: 500, not 401.
LookupFails(q) ==
    /\ request[q].pc = "lookup"
    /\ Answered(q, "failed")
    /\ UNCHANGED <<staff, login, expired, browser, op>>

\* Fault: a 401 sends the page to /login and leaves the token where it is.
AnswerKeepsToken(q) ==
    /\ request[q].pc \in {"admitted", "unauthorized", "failed"}
    /\ request' = [request EXCEPT ![q] = NoRequest]
    /\ UNCHANGED <<staff, login, expired, browser, op>>

\* The pages clear the session on a 401 and on nothing else.
Answer(q) ==
    /\ request[q].pc \in {"admitted", "unauthorized", "failed"}
    /\ request' = [request EXCEPT ![q] = NoRequest]
    /\ browser' = IF request[q].pc = "unauthorized"
                  THEN [browser EXCEPT ![request[q].browser] = None] ELSE browser
    /\ UNCHANGED <<staff, login, expired, op>>

\* The page is left, or the connection drops, before the answer.  The preview of
\* a photo does nothing about a 401, which comes to the same.
AnswerLost(q) ==
    /\ request[q].pc # "idle"
    /\ request' = [request EXCEPT ![q] = NoRequest]
    /\ UNCHANGED <<staff, login, expired, browser, op>>

(***************************************************************************)
(* staff-access.js and seed.js: find the account, then update it.          *)
(***************************************************************************)
OpFind(o, cmd, a) ==
    /\ op[o].pc = "idle"
    /\ CASE cmd = "seed"   -> ~staff[a].exists
         [] cmd = "enable" -> staff[a].exists /\ ~staff[a].isActive
         [] OTHER          -> staff[a].exists
    /\ op' = [op EXCEPT ![o] = [pc |-> "write", cmd |-> cmd, account |-> a]]
    /\ UNCHANGED <<staff, login, expired, browser, request>>

Bumped(row) == [row EXCEPT !.tokenVersion = row.tokenVersion + 1]

\* Fault: disabling an account stops the next sign-in only.
DisableOnly(o) ==
    /\ op[o].pc = "write" /\ op[o].cmd = "disable"
    /\ staff' = [staff EXCEPT ![op[o].account] = [@ EXCEPT !.isActive = FALSE]]
    /\ op' = [op EXCEPT ![o] = NoOp]
    /\ UNCHANGED <<login, expired, browser, request>>

Disable(o) ==
    /\ op[o].pc = "write" /\ op[o].cmd = "disable"
    /\ staff[op[o].account].tokenVersion < MaxVersion
    /\ staff' = [staff EXCEPT ![op[o].account] = [Bumped(@) EXCEPT !.isActive = FALSE]]
    /\ op' = [op EXCEPT ![o] = NoOp]
    /\ UNCHANGED <<login, expired, browser, request>>

Enable(o) ==
    /\ op[o].pc = "write" /\ op[o].cmd = "enable"
    /\ staff' = [staff EXCEPT ![op[o].account] = [@ EXCEPT !.isActive = TRUE]]
    /\ op' = [op EXCEPT ![o] = NoOp]
    /\ UNCHANGED <<login, expired, browser, request>>

Signout(o) ==
    /\ op[o].pc = "write" /\ op[o].cmd = "signout"
    /\ staff[op[o].account].tokenVersion < MaxVersion
    /\ staff' = [staff EXCEPT ![op[o].account] = Bumped(@)]
    /\ op' = [op EXCEPT ![o] = NoOp]
    /\ UNCHANGED <<login, expired, browser, request>>

\* signout --all is one updateMany.
SignoutAll ==
    /\ \A a \in Accounts : staff[a].exists => staff[a].tokenVersion < MaxVersion
    /\ staff' = [a \in Accounts |-> IF staff[a].exists THEN Bumped(staff[a]) ELSE staff[a]]
    /\ UNCHANGED <<login, expired, browser, request, op>>

\* create; email is unique, so a second seed of the same account throws.
Seed(o) ==
    /\ op[o].pc = "write" /\ op[o].cmd = "seed"
    /\ staff' = IF staff[op[o].account].exists THEN staff
                ELSE [staff EXCEPT ![op[o].account] =
                        [exists |-> TRUE, isActive |-> TRUE, tokenVersion |-> 0]]
    /\ op' = [op EXCEPT ![o] = NoOp]
    /\ UNCHANGED <<login, expired, browser, request>>

OpAborted(o) ==
    /\ op[o].pc = "write"
    /\ op' = [op EXCEPT ![o] = NoOp]
    /\ UNCHANGED <<staff, login, expired, browser, request>>

(***************************************************************************)
(* The specification.                                                      *)
(***************************************************************************)
SignInStep ==
    \/ \E l \in Logins, b \in Browsers, a \in Accounts : LoginRead(l, b, a)
    \/ \E l \in Logins : LoginSign(l)
    \/ \E l \in Logins : LoginRefused(l)
    \/ \E l \in Logins : SaveSession(l)
    \/ \E b \in Browsers : HandleSignOut(b)
    \/ \E l \in Logins : Expire(l)

RequestStep ==
    \/ \E q \in Requests, b \in Browsers : Send(q, b)
    \/ \E q \in Requests : Verify(q)
    \/ \E q \in Requests : Lookup(q)
    \/ \E q \in Requests : LookupFails(q)
    \/ \E q \in Requests : Answer(q)
    \/ \E q \in Requests : AnswerLost(q)

OperatorStep ==
    \/ \E o \in Operators, a \in Accounts, cmd \in {"disable", "enable", "signout", "seed"} :
          OpFind(o, cmd, a)
    \/ \E o \in Operators : Disable(o)
    \/ \E o \in Operators : Enable(o)
    \/ \E o \in Operators : Signout(o)
    \/ SignoutAll
    \/ \E o \in Operators : Seed(o)
    \/ \E o \in Operators : OpAborted(o)

Next == SignInStep \/ RequestStep \/ OperatorStep

Spec == Init /\ [][Next]_vars

(***************************************************************************)
(* Fairness: whoever holds a token keeps working with it; a browser that   *)
(* keeps asking is heard in the end, by a server whose database is not     *)
(* away for ever, and not every refusal is lost on the way back.           *)
(***************************************************************************)
For(q, b) == request[q].browser = b

FairSpec ==
    /\ Spec
    /\ \A q \in Requests : WF_vars(Answer(q))
    /\ \A b \in Browsers :
        /\ SF_vars(\E q \in Requests : Send(q, b))
        /\ SF_vars(\E q \in Requests : For(q, b) /\ Verify(q))
        /\ SF_vars(\E q \in Requests : For(q, b) /\ Lookup(q))
        /\ SF_vars(\E q \in Requests :
                     For(q, b) /\ request[q].pc = "unauthorized" /\ Answer(q))

(***************************************************************************)
(* Properties.                                                             *)
(***************************************************************************)

\* Every variable holds a value of its type.
TypeOK ==
    /\ staff \in [Accounts -> StaffUser]
    /\ login \in [Logins -> Login]
    /\ expired \subseteq Logins
    /\ browser \in [Browsers -> Logins \cup {None}]
    /\ request \in [Requests -> Request]
    /\ op \in [Operators -> Op]

\* The version a sign-in read is no longer the account's.
Outdated(l) == login[l].ver # staff[login[l].account].tokenVersion

\* disable, enable: an account that is disabled has no session under way or
\* signed that a later enable could bring back to life.
DisabledSessionsEnded ==
    \A l \in Logins :
        login[l].pc \in {"compare", "signed", "saved"} /\ login[l].usable
        /\ ~staff[login[l].account].isActive => Outdated(l)

\* requireStaffAuth: a 401 on its way to a page is still right when it gets
\* there: the token it refused cannot come good again, whatever the scripts
\* did meanwhile, and an outage of the database refuses nobody.
RefusalIsFinal ==
    \A q \in Requests :
        request[q].pc = "unauthorized" =>
            \/ request[q].token \in expired \cup {None}
            \/ Outdated(request[q].token)

\* tokenVersion, seed: no script takes an account back to a version whose
\* tokens were ended.
VersionsOnlyGrow ==
    [][\A a \in Accounts : staff[a].exists =>
          staff'[a].exists /\ staff'[a].tokenVersion >= staff[a].tokenVersion]_vars

\* disable, signout: a browser whose session was ended comes to forget the
\* token, by being refused, signing out or signing in again.
EndedSessionsForgotten ==
    \A b \in Browsers, l \in Logins :
        (browser[b] = l /\ Outdated(l)) ~> browser[b] # l

(***************************************************************************)
(* Versions implement sessions.                                            *)
(***************************************************************************)
SessionOf(l) ==
    IF login[l].pc = "new" THEN "none"
    ELSE IF login[l].pc = "failed" \/ ~login[l].usable \/ Outdated(l) THEN "ended"
    ELSE IF login[l].pc = "compare" THEN "opening" ELSE "open"

Rules == INSTANCE Sessions WITH
    session  <- [l \in Logins |-> SessionOf(l)],
    owner    <- [l \in Logins |-> login[l].account],
    blocked  <- {a \in Accounts : staff[a].exists /\ ~staff[a].isActive},
    admitted <- [q \in Requests |->
                   IF request[q].pc = "admitted" THEN request[q].token ELSE None]

\* Sign-ins, requests and scripts, interleaved as they may be, are behaviours
\* of module Sessions: no request is let in on a session once it was ended.
KeepsSessionRules == Rules!Spec
=============================================================================
