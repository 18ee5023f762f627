-------------------------------- MODULE Account --------------------------------
(***************************************************************************)
(* The sessions of the one account (backend/app/auth): they slide while    *)
(* they are used, and end by a logout or a change of password. A request   *)
(* reads its session and slides it in a transaction of its own later, and  *)
(* a password is verified in a thread before the session is written.       *)
(***************************************************************************)
EXTENDS Naturals

CONSTANTS
    MaxSessions,    \* bound on the sessions ever opened
    Lifetime,       \* SESSION_LIFETIME, in ticks
    SlideInterval,  \* SLIDE_INTERVAL
    MaxTime         \* bound on the clock

ASSUME AccountAssumption ==
    /\ MaxSessions \in Nat /\ Lifetime \in Nat /\ SlideInterval \in Nat
    /\ MaxTime \in Nat

Sessions == 1 .. MaxSessions

VARIABLES
    hour,         \* the clock
    account,      \* whether it is set up
    opened,       \* how many sessions were opened
    expires,      \* the sessions in the table, with the time they end
    verified,     \* whether a login has its password verified and no session yet
    sliding,      \* the sessions that a request has read, and will slide
    closed,       \* the sessions that were signed out
    lastUse       \* when a request that used the session was answered

accountVars == <<hour, account, opened, expires, verified, sliding, closed, lastUse>>

AccountTypeOK ==
    /\ hour \in 0 .. MaxTime
    /\ account \in BOOLEAN /\ verified \in BOOLEAN
    /\ opened \in 0 .. MaxSessions
    /\ DOMAIN expires \subseteq Sessions
    /\ \A s \in DOMAIN expires : expires[s] \in 0 .. MaxTime + Lifetime
    /\ sliding \subseteq Sessions /\ closed \subseteq Sessions
    /\ lastUse \in [Sessions -> 0 .. MaxTime]

AccountInit ==
    /\ hour = 0
    /\ account = FALSE /\ opened = 0 /\ expires = <<>>
    /\ verified = FALSE /\ sliding = {} /\ closed = {}
    /\ lastUse = [s \in Sessions |-> 0]

Valid(s) == s \in DOMAIN expires /\ expires[s] > hour

\* A new row of the sessions table.
NewSession ==
    /\ opened < MaxSessions
    /\ opened' = opened + 1
    /\ expires' = [s \in DOMAIN expires \cup {opened'} |->
                     IF s = opened' THEN hour + Lifetime ELSE expires[s]]
    /\ lastUse' = [lastUse EXCEPT ![opened'] = hour]

\* The first setup signs in; any other finds the account.
Setup ==
    /\ ~account
    /\ account' = TRUE
    /\ NewSession
    /\ UNCHANGED <<hour, verified, sliding, closed>>

VerifyPassword ==
    /\ account /\ ~verified
    /\ verified' = TRUE
    /\ UNCHANGED <<hour, account, opened, expires, sliding, closed, lastUse>>

StoreLogin ==
    /\ verified
    /\ verified' = FALSE
    /\ NewSession
    /\ UNCHANGED <<hour, account, sliding, closed>>

\* require_auth reads the session, and slides it only when that is due.
NeedsSlide_AtTheEnd(s) == expires[s] < hour + SlideInterval
NeedsSlide(s) == expires[s] < hour + Lifetime - SlideInterval

UseSession ==
    /\ \E s \in DOMAIN expires :
        /\ Valid(s)
        /\ IF NeedsSlide(s)
           THEN sliding' = sliding \cup {s} /\ UNCHANGED lastUse
           ELSE lastUse' = [lastUse EXCEPT ![s] = hour] /\ UNCHANGED sliding
    /\ UNCHANGED <<hour, account, opened, expires, verified, closed>>

\* slide_session updates a row that may be gone by now.
Rows_Upsert(s) == DOMAIN expires \cup {s}
Rows(s) == DOMAIN expires

SlideSession ==
    /\ \E s \in sliding :
        /\ sliding' = sliding \ {s}
        /\ expires' = [t \in Rows(s) |-> IF t = s THEN hour + Lifetime ELSE expires[t]]
        /\ lastUse' = [lastUse EXCEPT ![s] = hour]
    /\ UNCHANGED <<hour, account, opened, verified, closed>>

\* A logout removes the caller's session, a change of password every other one, and a
\* reset from the command line all of them.
SignOut ==
    /\ \E s \in DOMAIN expires :
        \E gone \in {{s}, DOMAIN expires \ {s}, DOMAIN expires} :
            /\ Valid(s)
            /\ expires' = [t \in DOMAIN expires \ gone |-> expires[t]]
            /\ closed' = closed \cup gone
    /\ UNCHANGED <<hour, account, opened, verified, sliding, lastUse>>

Hour ==
    /\ hour < MaxTime
    /\ hour' = hour + 1
    /\ UNCHANGED <<account, opened, expires, verified, sliding, closed, lastUse>>

AccountNext ==
    \/ Setup \/ VerifyPassword \/ StoreLogin \/ UseSession \/ SlideSession \/ SignOut \/ Hour

AccountSpec == AccountInit /\ [][AccountNext]_accountVars
---------------------------------------------------------------------------
(* Properties                                                              *)

\* logout, change_password and reset_password: a session that was signed out stays out, also
\* when a request that had read it before slides it afterwards.
SignedOutStaysOut == closed \cap DOMAIN expires = {}

\* "30 days, sliding", and "written at most once per hour" (auth/utils.py): a session is
\* good for its lifetime, less one slide interval, after the last request that used it.
ActiveStaysSignedIn ==
    \A s \in (1 .. opened) \ closed :
        s \notin sliding /\ hour < lastUse[s] + Lifetime - SlideInterval => Valid(s)
=============================================================================
