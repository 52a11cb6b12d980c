------------------------------ MODULE Sessions ------------------------------
(***************************************************************************)
(* What ending a staff session means, with no tokens, no version numbers   *)
(* and no database: each sign-in starts one session; ending the sessions   *)
(* of an account ends the sign-ins still under way too; a session that was *)
(* ended is never served again, not even when the account is enabled later.*)
(***************************************************************************)
CONSTANTS Accounts, Logins, Requests, None

VARIABLES
    session,    \* one per sign-in: "none", "opening", "open" or "ended"
    owner,      \* the account each sign-in is for
    blocked,    \* the disabled accounts
    admitted    \* the session each request was let in on, or None

vars == <<session, owner, blocked, admitted>>

Init ==
    /\ session = [l \in Logins |-> "none"]
    /\ owner = [l \in Logins |-> None]
    /\ blocked = {}
    /\ admitted = [q \in Requests |-> None]

Begin(l, a) ==
    /\ session[l] = "none"
    /\ a \notin blocked
    /\ session' = [session EXCEPT ![l] = "opening"]
    /\ owner' = [owner EXCEPT ![l] = a]
    /\ UNCHANGED <<blocked, admitted>>

\* A sign-in for an account that is blocked or unknown starts nothing.
Refuse(l, a) ==
    /\ session[l] = "none"
    /\ session' = [session EXCEPT ![l] = "ended"]
    /\ owner' = [owner EXCEPT ![l] = a]
    /\ UNCHANGED <<blocked, admitted>>

\* The password was checked: the session opens, unless it was ended meanwhile,
\* or comes to nothing.
Finish(l) ==
    /\ \/ session[l] = "opening" /\ session' \in
             {[session EXCEPT ![l] = "open"], [session EXCEPT ![l] = "ended"]}
       \/ session[l] = "ended" /\ UNCHANGED session
    /\ UNCHANGED <<owner, blocked, admitted>>

End(accounts, block) ==
    /\ session' = [l \in Logins |->
                     IF owner[l] \in accounts THEN "ended" ELSE session[l]]
    /\ blocked' = IF block THEN blocked \cup accounts ELSE blocked
    /\ UNCHANGED <<owner, admitted>>

Unblock(a) ==
    /\ blocked' = blocked \ {a}
    /\ UNCHANGED <<session, owner, admitted>>

Admit(q, l) ==
    /\ session[l] = "open"
    /\ owner[l] \notin blocked
    /\ admitted' = [admitted EXCEPT ![q] = l]
    /\ UNCHANGED <<session, owner, blocked>>

Done(q) ==
    /\ admitted' = [admitted EXCEPT ![q] = None]
    /\ UNCHANGED <<session, owner, blocked>>

Next ==
    \/ \E l \in Logins, a \in Accounts : Begin(l, a) \/ Refuse(l, a)
    \/ \E l \in Logins : Finish(l)
    \/ \E accounts \in SUBSET Accounts, block \in BOOLEAN : End(accounts, block)
    \/ \E a \in Accounts : Unblock(a)
    \/ \E q \in Requests, l \in Logins : Admit(q, l)
    \/ \E q \in Requests : Done(q)

Spec == Init /\ [][Next]_vars
=============================================================================
