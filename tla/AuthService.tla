---------------------------- MODULE AuthService ----------------------------
(***************************************************************************)
(* The token store of the HTTP API (internal/auth/service.go).  The         *)
(* password is compared outside the lock, so a login may span a Close and   *)
(* other logins.  A token and its key are the same thing here.              *)
(***************************************************************************)
EXTENDS Integers

CONSTANTS Logins, Tokens, TTL, MaxTime, None

VARIABLES
    closed,
    tokens,      \* expiry of each token in the store, or None
    now,
    login,       \* progress of each login call: idle, comparing, ended, or the token it returned
    used,        \* when each returned token was issued or last used with renewal
    accepted     \* the token the last call accepted, if it did

vars == <<closed, tokens, now, login, used, accepted>>

Init ==
    /\ closed = FALSE /\ now = 0 /\ accepted = None
    /\ tokens = [t \in Tokens |-> None]
    /\ used = [t \in Tokens |-> None]
    /\ login = [l \in Logins |-> "idle"]

(* removeExpiredLocked *)
Unexpired == [t \in Tokens |-> IF tokens[t] # None /\ now < tokens[t] THEN tokens[t] ELSE None]

LoginBegin(l) ==
    /\ login[l] = "idle"
    /\ login' = [login EXCEPT ![l] = IF closed THEN "ended" ELSE "comparing"]
    /\ accepted' = None
    /\ UNCHANGED <<closed, tokens, now, used>>

WrongPassword(l) ==
    /\ login[l] = "comparing"
    /\ login' = [login EXCEPT ![l] = "ended"]
    /\ accepted' = None
    /\ UNCHANGED <<closed, tokens, now, used>>

Issue(l, t) ==
    /\ tokens' = [Unexpired EXCEPT ![t] = now + TTL]
    /\ login' = [k \in Logins |-> IF k = l THEN t
                                  ELSE IF login[k] = t /\ Unexpired[t] = None THEN "ended"  \* it had expired
                                  ELSE login[k]]
    /\ used' = [used EXCEPT ![t] = now]

(* faulty: closed is not looked at again after the comparison *)
LoginIssueLate(l, t) ==
    /\ login[l] = "comparing" /\ Unexpired[t] = None
    /\ Issue(l, t)
    /\ accepted' = None
    /\ UNCHANGED <<closed, now>>

(* faulty: a key that exists is overwritten *)
LoginIssueColliding(l, t) ==
    /\ login[l] = "comparing" /\ ~closed
    /\ Issue(l, t)
    /\ accepted' = None
    /\ UNCHANGED <<closed, now>>

(* one turn of the loop: a random token that is taken is drawn again *)
LoginIssue(l, t) ==
    /\ login[l] = "comparing"
    /\ IF closed THEN login' = [login EXCEPT ![l] = "ended"] /\ UNCHANGED <<tokens, used>>
       ELSE IF Unexpired[t] # None THEN tokens' = Unexpired /\ UNCHANGED <<login, used>>
       ELSE Issue(l, t)
    /\ accepted' = None
    /\ UNCHANGED <<closed, now>>

(* faulty: every use slides the expiry *)
RenewedAlways(t, renew) == [Unexpired EXCEPT ![t] = now + TTL]

Renewed(t, renew) == IF renew THEN [Unexpired EXCEPT ![t] = now + TTL] ELSE Unexpired

Authenticate(t, renew) ==
    /\ IF closed THEN accepted' = None /\ UNCHANGED <<tokens, used>>
       ELSE IF Unexpired[t] = None THEN tokens' = Unexpired /\ accepted' = None /\ UNCHANGED used
       ELSE /\ tokens' = Renewed(t, renew)
            /\ used' = IF renew THEN [used EXCEPT ![t] = now] ELSE used
            /\ accepted' = t
    /\ UNCHANGED <<closed, now, login>>

Revoke(t) ==
    /\ tokens' = IF closed THEN tokens ELSE [Unexpired EXCEPT ![t] = None]
    /\ used' = IF closed THEN used ELSE [used EXCEPT ![t] = None]
    /\ login' = [l \in Logins |-> IF ~closed /\ login[l] = t THEN "ended" ELSE login[l]]
    /\ accepted' = None
    /\ UNCHANGED <<closed, now>>

Close ==
    /\ closed' = TRUE
    /\ tokens' = [t \in Tokens |-> None]
    /\ accepted' = None
    /\ UNCHANGED <<now, login, used>>

Tick ==
    /\ now < MaxTime
    /\ now' = now + 1
    /\ accepted' = None
    /\ UNCHANGED <<closed, tokens, login, used>>

Next ==
    \/ Close \/ Tick
    \/ \E l \in Logins : LoginBegin(l) \/ WrongPassword(l) \/ \E t \in Tokens : LoginIssue(l, t)
    \/ \E t \in Tokens : Revoke(t) \/ \E renew \in BOOLEAN : Authenticate(t, renew)

Spec == Init /\ [][Next]_vars

-----------------------------------------------------------------------------
TypeOK ==
    /\ closed \in BOOLEAN /\ now \in 0..MaxTime
    /\ tokens \in [Tokens -> 0..(MaxTime + TTL) \cup {None}]
    /\ used \in [Tokens -> 0..MaxTime \cup {None}]
    /\ login \in [Logins -> {"idle", "comparing", "ended"} \cup Tokens]
    /\ accepted \in Tokens \cup {None}

(* A login that was comparing the password while the service closed leaves   *)
(* no token behind (the second look at closed in Login).                     *)
ClosedForgets == closed => \A t \in Tokens : tokens[t] = None

(* Two logins never hold the same token while it is alive, so that logging   *)
(* one of them out leaves the other alone (the collision loop of Login).     *)
TokensUnshared ==
    \A k, l \in Logins : k # l /\ login[k] = login[l] => login[k] \notin Tokens

(* A token is accepted only within the TTL of its issue or of its last use   *)
(* that renews; the use that does not renew, authenticating a logout, does not *)
(* keep it alive (Authenticate).                                             *)
IdleExpires == accepted # None => used[accepted] # None /\ now < used[accepted] + TTL

-----------------------------------------------------------------------------
(* Why: what is in the store expires the TTL after its last renewing use. *)
ExpiresAfterUse ==
    \A t \in Tokens : tokens[t] # None =>
        used[t] # None /\ used[t] <= now /\ tokens[t] = used[t] + TTL

Inductive == TypeOK /\ ClosedForgets /\ TokensUnshared /\ IdleExpires /\ ExpiresAfterUse

=============================================================================
