--------------------------- MODULE LoginThrottle ---------------------------
(***************************************************************************)
(* The failed-login throttle of one email: login of api/v1/auth.py and     *)
(* change_password of services/users.py around the Redis counter of        *)
(* core/cache.py (login_failures, register_failed_login,                   *)
(* clear_failed_logins).  The check, the database lookup, the INCR and the *)
(* EXPIRE are separate awaits, so attempts on the same email overlap.      *)
(*                                                                         *)
(* Time is a countdown: ttl is what is left of LOGIN_LOCKOUT_SECONDS, in   *)
(* ticks.  What the database says of the password and the account is       *)
(* chosen freely at the lookup.                                            *)
(***************************************************************************)
EXTENDS Integers, FiniteSets

CONSTANTS
  Attempt,      \* slots of login and change-password calls in flight
  MaxFailures,  \* LOGIN_MAX_FAILURES
  Window,       \* LOGIN_LOCKOUT_SECONDS, in ticks
  CountBound,   \* bound of the model: count and guesses stay there once they reach it
  Faults        \* which of "crash" (a worker dies) and "redis" (an operation fails)

ASSUME ThrottleAssumption ==
  /\ IsFiniteSet(Attempt)
  /\ MaxFailures \in Nat \ {0}
  /\ Window \in Nat \ {0}
  /\ CountBound \in Nat /\ CountBound >= MaxFailures + Cardinality(Attempt)
  /\ Faults \subseteq {"crash", "redis"}

VARIABLES
  count,    \* the counter genbi:loginfail:<email>; 0 when there is no key
  ttl,      \* ticks before the key expires; NoTTL when it has no expiry
  pc,       \* pc[a]: what attempt a does next
  kind,     \* kind[a]: "login" or "change"
  guesses,  \* history: login failures counted since the counter was last absent
  missed    \* history: since then, a lockout "check" was not answered, an "expire" was lost

vars == <<count, ttl, pc, kind, guesses, missed>>

NoTTL == -1
PC == {"idle", "check", "lookup", "register", "expire", "clear"}

\* What the account lookup can find.
Verdict == {"wrong", "disabled", "suspended", "good"}

Goto(a, label) == pc' = [pc EXCEPT ![a] = label]
KeyGone == count' = 0 /\ ttl' = NoTTL /\ guesses' = 0 /\ missed' = {}
KeepKey == UNCHANGED <<count, ttl, guesses>>
RedisFails == "redis" \in Faults

-----------------------------------------------------------------------------
\* login starts at the lockout check.
Login(a) ==
  /\ pc[a] = "idle"
  /\ kind' = [kind EXCEPT ![a] = "login"]
  /\ Goto(a, "check")
  /\ KeepKey /\ UNCHANGED missed

\* change_password has no check: a wrong current password is only counted.
ChangePassword(a) ==
  /\ pc[a] = "idle"
  /\ kind' = [kind EXCEPT ![a] = "change"]
  /\ Goto(a, "lookup")
  /\ KeepKey /\ UNCHANGED missed

\* Mutant: the comparison is off by one.
Locked_OffByOne(n) == n > MaxFailures
Locked(n) == n >= MaxFailures

\* A locked email gets a 429.  A tenant id that is no UUID is rejected, and
\* counted, before the lookup.  login_failures answers 0 when Redis fails.
CheckLockout(a) ==
  /\ pc[a] = "check"
  /\ \/ Locked(count) /\ Goto(a, "idle") /\ UNCHANGED missed
     \/ /\ ~Locked(count)
        /\ \E next \in {"lookup", "register"} : Goto(a, next)
        /\ UNCHANGED missed
     \/ /\ RedisFails
        /\ \E next \in {"lookup", "register"} : Goto(a, next)
        /\ missed' = missed \cup {"check"}
  /\ UNCHANGED kind
  /\ KeepKey

\* The SELECT and verify_password.  A suspended tenant is a 403 that leaves the
\* counter alone; a good change-password call does too.
Lookup(a) ==
  /\ pc[a] = "lookup"
  /\ \E verdict \in Verdict :
       Goto(a, CASE verdict = "wrong" -> "register"
                 [] verdict = "disabled" /\ kind[a] = "login" -> "register"
                 [] verdict = "good" /\ kind[a] = "login" -> "clear"
                 [] OTHER -> "idle")
  /\ UNCHANGED kind
  /\ KeepKey /\ UNCHANGED missed

\* Mutant: the expiry is set by the second failure.
ArmsExpiry_OffByOne(n) == n = 2

\* Mutant: the expiry is set by every failure, which pushes it back.
ArmsExpiry_Always(n) == TRUE
ArmsExpiry(n) == n = 1

\* register_failed_login, the INCR.
Register(a) ==
  /\ pc[a] = "register"
  /\ \/ /\ count' = IF count < CountBound THEN count + 1 ELSE count
        /\ guesses' = IF kind[a] = "login" /\ guesses < CountBound
                         THEN guesses + 1 ELSE guesses
        /\ Goto(a, IF ArmsExpiry(count + 1) THEN "expire" ELSE "idle")
        /\ UNCHANGED ttl
     \/ RedisFails /\ Goto(a, "idle") /\ KeepKey
  /\ UNCHANGED <<kind, missed>>

\* register_failed_login, the EXPIRE: nothing on a key that is gone.
SetExpiry(a) ==
  /\ pc[a] = "expire"
  /\ \/ ttl' = (IF count > 0 THEN Window ELSE ttl) /\ UNCHANGED missed
     \/ RedisFails /\ UNCHANGED ttl /\ missed' = missed \cup {"expire"}
  /\ Goto(a, "idle")
  /\ UNCHANGED <<count, kind, guesses>>

\* Mutant: a success takes back one failure instead of all.
Clear_Decrement(a) ==
  /\ pc[a] = "clear"
  /\ count' = count - 1
  /\ Goto(a, "idle")
  /\ UNCHANGED <<ttl, kind, guesses, missed>>

\* clear_failed_logins, after the token is minted.
Clear(a) ==
  /\ pc[a] = "clear"
  /\ KeyGone \/ (RedisFails /\ KeepKey /\ UNCHANGED missed)
  /\ Goto(a, "idle")
  /\ UNCHANGED kind

\* The worker dies in the middle of a call.
Crash(a) ==
  /\ "crash" \in Faults
  /\ pc[a] # "idle"
  /\ missed' = IF pc[a] = "expire" THEN missed \cup {"expire"} ELSE missed
  /\ Goto(a, "idle")
  /\ UNCHANGED kind
  /\ KeepKey

\* Redis counts the expiry down and then drops the key.
Tick ==
  /\ ttl > 0
  /\ \/ ttl = 1 /\ KeyGone
     \/ ttl > 1 /\ ttl' = ttl - 1 /\ UNCHANGED <<count, guesses, missed>>
  /\ UNCHANGED <<pc, kind>>

-----------------------------------------------------------------------------
Init ==
  /\ count = 0 /\ ttl = NoTTL /\ guesses = 0
  /\ pc = [a \in Attempt |-> "idle"]
  /\ kind = [a \in Attempt |-> "login"]
  /\ missed = {}

Work(a) ==
  CheckLockout(a) \/ Lookup(a) \/ Register(a) \/ SetExpiry(a) \/ Clear(a)

Next ==
  \/ \E a \in Attempt : Login(a) \/ ChangePassword(a) \/ Work(a) \/ Crash(a)
  \/ Tick

Spec == Init /\ [][Next]_vars

\* Redis's clock and the handlers run; nobody has to log in.
FairSpec == Spec /\ WF_vars(Tick) /\ \A a \in Attempt : WF_vars(Work(a))

-----------------------------------------------------------------------------
\* Attempts that may still count a guess made after the lockout check.
PastCheck == {a \in Attempt : kind[a] = "login" /\ pc[a] \in {"lookup", "register"}}

TypeOK ==
  /\ count \in Nat
  /\ ttl \in {NoTTL} \cup 1..Window
  /\ pc \in [Attempt -> PC]
  /\ kind \in [Attempt -> {"login", "change"}]
  /\ guesses \in Nat
  /\ missed \subseteq {"check", "expire"}

\* login's docstring, "LOGIN_MAX_FAILURES failed attempts per email within
\* LOGIN_LOCKOUT_SECONDS -> 429": the check and the INCR are apart, so attempts that
\* overlap may exceed the limit, but only by the other attempts in flight, whatever
\* workers die and whatever clears, expiries and change-password failures happen
\* between them; it takes a lockout check that Redis did not answer to go beyond.
GuessBound ==
  \/ "check" \in missed
  \/ guesses + Cardinality(PastCheck) < MaxFailures + Cardinality(Attempt)

\* register_failed_login: a counter that exists expires, or a call that is about to set
\* its expiry is still running, or that call's EXPIRE was lost.
CounterExpires ==
  count > 0 => ttl # NoTTL \/ "expire" \in missed \/ \E a \in Attempt : pc[a] = "expire"

\* A locked-out email is let in again when its window ends, even while further attempts
\* and change-password calls keep failing, unless the EXPIRE was lost.
LockoutLifts == Locked(count) ~> ~Locked(count) \/ "expire" \in missed

=============================================================================
