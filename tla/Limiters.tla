------------------------------ MODULE Limiters ------------------------------
(***************************************************************************)
(* The limits on logins and on requests that the server keeps in memory:   *)
(* internal/service/login_limiter.go, used by ClientLogin, and             *)
(* internal/middleware/ratelimit.go.                                       *)
(*                                                                         *)
(* Logins with one e-mail address from one network address run at the same *)
(* time; each looks whether it is locked out, checks the password and only *)
(* then records what came of it.  A limiter locks itself for one call, so  *)
(* other logins come between the look and the record.                      *)
(* MUTx definitions are plausible mistakes.                                *)
(***************************************************************************)
EXTENDS Integers, FiniteSets, Sequences

CONSTANTS
    Logins,        \* logins at the same time
    MaxAttempts,   \* failures until the address is locked, for e-mail and network address
    LockTime,      \* how long each is locked
    Limit, Window, \* requests allowed in a window
    LastMoment     \* bound: moments that pass

ASSUME LimitersAssumption ==
    /\ IsFiniteSet(Logins)
    /\ MaxAttempts \in [{"email", "ip"} -> Nat \ {0}]
    /\ LockTime \in [{"email", "ip"} -> Nat \ {0}] /\ Limit \in Nat \ {0}
    /\ Window \in Nat \ {0} /\ LastMoment \in Nat

VARIABLES
    moment,        \* the time
    attempts,      \* the LoginAttempt of the e-mail and of the network address
    trying,        \* what each login is at
    wrong,         \* wrong passwords checked since the e-mail was last free to try
    served,        \* when each request of one network address was served
    requests       \* those of them whose times RateLimiter keeps

limiterVars == <<moment, attempts, trying, wrong, served, requests>>

Keys       == {"email", "ip"}
NoAttempt  == [count |-> 0, last |-> 0, until |-> 0]
ResetAfter(k) == 2 * LockTime[k]

LimitersInit ==
    /\ moment = 0
    /\ attempts = [k \in Keys |-> NoAttempt]
    /\ trying = [l \in Logins |-> "idle"]
    /\ wrong = 0
    /\ served = <<>> /\ requests = {}

-----------------------------------------------------------------------------
(* Logins.                                                                 *)

IsLocked(k) == moment < attempts[k].until

\* ClientLogin up to the check of the password: refused with 429 while either is locked.
TryLogin(l) ==
    /\ trying[l] = "idle" /\ ~IsLocked("ip") /\ ~IsLocked("email")
    /\ trying' = [trying EXCEPT ![l] = "checking"]
    /\ UNCHANGED <<moment, attempts, wrong, requests, served>>

MUTFailed(k) ==
    LET a == attempts[k]  n == 1 + IF moment - a.last > ResetAfter(k) THEN 0 ELSE a.count IN
    [count |-> IF n >= MaxAttempts[k] THEN 0 ELSE n, last |-> moment,
     until |-> IF n > MaxAttempts[k] THEN moment + LockTime[k] ELSE a.until]

\* What RecordFailure makes of an attempt; the count goes on from where it was when the
\* lock ended, unless nothing failed for long.
Failed(k) ==
    LET a == attempts[k]  n == 1 + IF moment - a.last > ResetAfter(k) THEN 0 ELSE a.count IN
    [count |-> n, last |-> moment,
     until |-> IF n >= MaxAttempts[k] THEN moment + LockTime[k] ELSE a.until]

\* The password is wrong, or there is no such customer.
RecordFailure(l) ==
    /\ trying[l] = "checking"
    /\ attempts' = [k \in Keys |-> Failed(k)]
    /\ wrong' = wrong + 1
    /\ trying' = [trying EXCEPT ![l] = "idle"]
    /\ UNCHANGED <<moment, requests, served>>

\* RecordSuccess forgets the e-mail, and one failure of the network address; the customer
\* may also be disabled, which records nothing.
RecordSuccess(l) ==
    /\ trying[l] = "checking"
    /\ \/ /\ attempts' = [email |-> NoAttempt,
                          ip    |-> IF attempts["ip"].count <= 1 THEN NoAttempt
                                    ELSE [attempts["ip"] EXCEPT !.count = @ - 1]]
          /\ wrong' = 0
       \/ UNCHANGED <<attempts, wrong>>
    /\ trying' = [trying EXCEPT ![l] = "idle"]
    /\ UNCHANGED <<moment, requests, served>>

\* Every five minutes; locked and recent ones stay.
CleanAttempts ==
    /\ attempts' = [k \in Keys |->
          IF moment > attempts[k].until /\ moment - attempts[k].last > ResetAfter(k)
          THEN NoAttempt ELSE attempts[k]]
    /\ attempts' # attempts
    /\ UNCHANGED <<moment, trying, wrong, requests, served>>

-----------------------------------------------------------------------------
(* RateLimiter, for the requests of one network address.                   *)

\* t.After(now.Add(-window))
WithinWindow(t) == moment < t + Window

Kept == {i \in requests : WithinWindow(served[i])}

Allow ==
    /\ IF Cardinality(Kept) < Limit
       THEN /\ requests' = Kept \cup {Len(served) + 1}
            /\ served' = Append(served, moment)
       ELSE requests' = Kept /\ UNCHANGED served
    /\ UNCHANGED <<moment, attempts, trying, wrong>>

MUTCleanRequests ==
    /\ Kept # requests /\ requests' = {}
    /\ UNCHANGED <<moment, attempts, trying, wrong, served>>

\* Every minute.
CleanRequests ==
    /\ Kept # requests /\ requests' = Kept
    /\ UNCHANGED <<moment, attempts, trying, wrong, served>>

-----------------------------------------------------------------------------
TimePasses ==
    /\ moment < LastMoment
    /\ moment' = moment + 1
    /\ wrong' = IF moment + 1 = attempts["email"].until
                   \/ moment + 1 - attempts["email"].last > ResetAfter("email") THEN 0 ELSE wrong
    /\ UNCHANGED <<attempts, trying, requests, served>>

LimitersNext ==
    \/ \E l \in Logins : TryLogin(l) \/ RecordFailure(l) \/ RecordSuccess(l)
    \/ CleanAttempts \/ Allow \/ CleanRequests \/ TimePasses

LimitersSpec == LimitersInit /\ [][LimitersNext]_limiterVars

-----------------------------------------------------------------------------
(* The properties.                                                         *)

\* Between one lock and the next no more passwords are guessed at an address than the limit
\* and what was being checked when it was reached: the limiter is asked before the password
\* is checked and told after it, with no lock held in between, and a lock that is over
\* leaves the count at the limit, so the next failure locks again (login_limiter.go:67-95).
GuessesBounded == wrong <= MaxAttempts["email"] - 1 + Cardinality(Logins)

\* However requests, and the cleaner that rewrites the list of their times, follow each
\* other, no window of time holds more served requests than the limit, wherever it begins:
\* the request that is Limit after another comes a whole window later
\* (ratelimit.go:35-57, :60-81).
RequestsBounded ==
    \A i \in 1..(Len(served) - Limit) : served[i] + Window <= served[i + Limit]

=============================================================================
