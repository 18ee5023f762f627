------------------------------ MODULE LoginLimit -------------------------------
(***************************************************************************)
(* LoginRateLimiter of backend/app/auth/utils.py: the attempts of each     *)
(* address in the last window, kept in memory.                             *)
(***************************************************************************)
EXTENDS Naturals, Sequences, FiniteSets

CONSTANTS
    Addresses,
    LoginAttempts,   \* LOGIN_ATTEMPTS
    Window,          \* WINDOW_SECONDS, in ticks of which there are
    TicksPerSecond,
    MaxTick          \* bound on the clock

ASSUME LimitAssumption ==
    /\ LoginAttempts \in Nat \ {0} /\ Window \in Nat
    /\ TicksPerSecond \in Nat \ {0} /\ MaxTick \in Nat

VARIABLES
    tick,        \* time.monotonic()
    attempts,    \* the deque of each address that has one
    granted,     \* the times of the logins that were let through, of each address
    refusal      \* the last refusal: whose, when, and the seconds to wait

limitVars == <<tick, attempts, granted, refusal>>

NoRefusal == [of |-> "nobody", at |-> 0, seconds |-> 0]
Ticks     == 0 .. MaxTick

LimitTypeOK ==
    /\ tick \in Ticks
    /\ DOMAIN attempts \subseteq Addresses
    /\ \A a \in DOMAIN attempts : attempts[a] \in Seq(Ticks) /\ attempts[a] # <<>>
    /\ granted \in [Addresses -> Seq(Ticks)]
    /\ refusal.at \in Ticks /\ refusal.seconds \in Nat

LimitInit ==
    /\ tick = 0 /\ attempts = <<>>
    /\ granted = [a \in Addresses |-> <<>>]
    /\ refusal = NoRefusal

\* Addresses whose last attempt is a window old are dropped; of the one that tries, the old
\* attempts are popped from the left.
Stale_ByFirst(deque) == deque[1] + Window <= tick
Stale(deque) == deque[Len(deque)] + Window <= tick
Kept == {a \in DOMAIN attempts : ~Stale(attempts[a])}
Recent(a) ==
    IF a \notin Kept THEN <<>>
    ELSE LET deque == attempts[a]
             first == CHOOSE i \in DOMAIN deque :
                         /\ deque[i] + Window > tick
                         /\ \A j \in 1 .. i - 1 : deque[j] + Window <= tick
         IN  SubSeq(deque, first, Len(deque))

\* max(1, ceil(attempts[0] - cutoff)).
SecondsToWait(deque) == (deque[1] + Window - tick + TicksPerSecond - 1) \div TicksPerSecond

\* The other addresses keep what they have; this one gets `deque`.
Counted(a, deque) ==
    attempts' = [b \in Kept \cup {a} |-> IF b = a THEN deque ELSE attempts[b]]

Granted(a) ==
    /\ Len(Recent(a)) < LoginAttempts
    /\ Counted(a, Append(Recent(a), tick))
    /\ granted' = [granted EXCEPT ![a] = Append(@, tick)]
    /\ UNCHANGED <<tick, refusal>>

Refused(a) ==
    /\ Len(Recent(a)) >= LoginAttempts
    /\ Counted(a, Recent(a))
    /\ refusal' = [of |-> a, at |-> tick, seconds |-> SecondsToWait(Recent(a))]
    /\ UNCHANGED <<tick, granted>>

TickOn ==
    /\ tick < MaxTick
    /\ tick' = tick + 1
    /\ UNCHANGED <<attempts, granted, refusal>>

LimitNext == TickOn \/ \E a \in Addresses : Granted(a) \/ Refused(a)

LimitSpec == LimitInit /\ [][LimitNext]_limitVars
---------------------------------------------------------------------------
(* Properties                                                              *)

\* "5 attempts per minute per client IP" (auth/utils.py): no window has more logins of an
\* address than that, and one that waits the seconds it was told (and no more were tried)
\* finds room.
WindowIsExact ==
    /\ \A a \in Addresses : \A i \in DOMAIN granted[a] :
        i > LoginAttempts => granted[a][i] >= granted[a][i - LoginAttempts] + Window
    /\ LET later == refusal.at + refusal.seconds * TicksPerSecond
       IN  refusal # NoRefusal /\ refusal.at = tick =>
               Cardinality({i \in DOMAIN attempts[refusal.of] :
                               attempts[refusal.of][i] + Window > later}) < LoginAttempts
=============================================================================
