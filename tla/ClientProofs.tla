---------------------------- MODULE ClientProofs ----------------------------
(***************************************************************************)
(* Theorems on what customers' devices do with the server: the guesses the *)
(* login limiter lets through (Limiters), for any limits and number of     *)
(* logins at a time; the seats a login takes (Subscriptions), for any      *)
(* number of machines and subscriptions; what an instruction to any number *)
(* of devices shows of their reports (Instructions); and the tokens of a   *)
(* device, for any number of goroutines and of tokens (ClientSession).     *)
(***************************************************************************)
EXTENDS ClientSession, Subscriptions, Limiters, Instructions, FiniteSetTheorems, SequenceTheorems, TLAPS

-----------------------------------------------------------------------------
(* The login limiter.                                                      *)

AttemptType == [count : Nat, last : Nat, until : Nat]

LimiterTypeOK ==
    /\ moment \in Nat /\ wrong \in Nat
    /\ attempts \in [Keys -> AttemptType]
    /\ trying \in [Logins -> {"idle", "checking"}]

Checking == {l \in Logins : trying[l] = "checking"}
EmailMax == MaxAttempts["email"]

\* While the e-mail is locked nobody new is let in, so the wrong passwords are those that
\* were checked before and those that are being checked.
LockedCounts == IsLocked("email") => wrong + Cardinality(Checking) <= EmailMax - 1 + Cardinality(Logins)

\* While it is free, they are fewer than the limit and the limiter has counted them all;
\* after a long rest there are none.
FreeCounts ==
    LET a == attempts["email"] IN
    ~IsLocked("email") =>
        /\ wrong <= EmailMax - 1
        /\ IF moment - a.last > ResetAfter("email") THEN wrong = 0 ELSE wrong <= a.count

GuessInv == LimiterTypeOK /\ LockedCounts /\ FreeCounts

LEMMA CheckingFinite ==
    ASSUME LimiterTypeOK
    PROVE  /\ IsFiniteSet(Checking) /\ Cardinality(Checking) \in Nat
           /\ Cardinality(Logins) \in Nat /\ Cardinality(Checking) <= Cardinality(Logins)
           /\ EmailMax \in Nat \ {0} /\ LockTime["email"] \in Nat \ {0}
  <1>1. IsFiniteSet(Logins) /\ Checking \subseteq Logins
    BY LimitersAssumption DEF Checking
  <1>2. IsFiniteSet(Checking) /\ Cardinality(Checking) <= Cardinality(Logins)
    BY <1>1, FS_Subset
  <1>3. Cardinality(Checking) \in Nat /\ Cardinality(Logins) \in Nat
    BY <1>1, <1>2, FS_CardinalityType
  <1>4. EmailMax \in Nat \ {0} /\ LockTime["email"] \in Nat \ {0}
    BY LimitersAssumption DEF EmailMax
  <1> QED
    BY <1>1, <1>2, <1>3, <1>4

\* A login that ends is one less that checks.
LEMMA OneLessChecks ==
    ASSUME LimiterTypeOK, NEW l \in Logins, trying[l] = "checking",
           trying' = [trying EXCEPT ![l] = "idle"]
    PROVE  Cardinality(Checking') = Cardinality(Checking) - 1
  <1>1. Checking' = Checking \ {l} /\ l \in Checking
    BY DEF Checking, LimiterTypeOK
  <1> QED
    BY <1>1, CheckingFinite, FS_RemoveElement

\* The bound follows, locked or free.
LEMMA GuessInvBounds ==
    ASSUME GuessInv
    PROVE  GuessesBounded
  <1> DEFINE n == Cardinality(Checking)  m == Cardinality(Logins)
  <1>1. n \in Nat /\ m \in Nat /\ EmailMax \in Nat /\ wrong \in Nat
    BY CheckingFinite DEF GuessInv, LimiterTypeOK
  <1>2. wrong + n <= EmailMax - 1 + m \/ wrong <= EmailMax - 1
    BY DEF GuessInv, LockedCounts, FreeCounts
  <1> HIDE DEF n, m
  <1>3. wrong <= EmailMax - 1 + m
    BY <1>1, <1>2
  <1> QED
    BY <1>3 DEF GuessesBounded, EmailMax, m

LEMMA RecordFailureKeeps ==
    ASSUME GuessInv, NEW l \in Logins, RecordFailure(l)
    PROVE  GuessInv'
  <1> DEFINE a == attempts["email"]  b == attempts'["email"]
             kept == IF moment - a.last > ResetAfter("email") THEN 0 ELSE a.count
             n == 1 + kept  c == Cardinality(Checking)  m == Cardinality(Logins)
             until == IF n >= EmailMax THEN moment + LockTime["email"] ELSE a.until
  <1>1. /\ moment' = moment /\ wrong' = wrong + 1
        /\ trying' = [trying EXCEPT ![l] = "idle"]
        /\ attempts' = [k \in Keys |-> Failed(k)]
    BY DEF RecordFailure
  <1>2. /\ moment \in Nat /\ wrong \in Nat /\ a.count \in Nat /\ a.last \in Nat /\ a.until \in Nat
        /\ c \in Nat /\ m \in Nat /\ c <= m /\ EmailMax \in Nat \ {0} /\ LockTime["email"] \in Nat \ {0}
    BY CheckingFinite DEF GuessInv, LimiterTypeOK, Keys, AttemptType
  <1>3. \A k \in Keys : Failed(k) \in AttemptType
    <2> SUFFICES ASSUME NEW k \in Keys PROVE Failed(k) \in AttemptType
      OBVIOUS
    <2>1. attempts[k] \in AttemptType /\ LockTime[k] \in Nat /\ moment \in Nat
      BY LimitersAssumption DEF GuessInv, LimiterTypeOK, Keys
    <2> QED
      BY <2>1 DEF Failed, AttemptType
  <1>4. LimiterTypeOK'
    BY <1>1, <1>2, <1>3 DEF GuessInv, LimiterTypeOK
  <1>5. b.last = moment /\ b.count = n /\ b.until = until
    BY <1>1 DEF Failed, Keys, EmailMax
  <1>6. Cardinality(Checking') = c - 1
    BY <1>1, OneLessChecks DEF GuessInv, RecordFailure
  <1>7. /\ moment < a.until => wrong + c <= EmailMax - 1 + m
        /\ ~(moment < a.until) => wrong <= EmailMax - 1 /\ wrong <= kept
    BY <1>2 DEF GuessInv, LockedCounts, FreeCounts, IsLocked
  <1>8. ResetAfter("email") \in Nat
    BY <1>2 DEF ResetAfter
  <1>9. kept \in Nat
    BY <1>2
  <1> HIDE DEF c, m, kept
  <1>10. /\ moment < until => wrong + 1 + (c - 1) <= EmailMax - 1 + m
         /\ ~(moment < until) => wrong + 1 <= EmailMax - 1 /\ wrong + 1 <= n
    BY <1>2, <1>7, <1>9
  <1>11. LockedCounts'
    BY <1>1, <1>5, <1>6, <1>10 DEF LockedCounts, IsLocked, EmailMax, m
  <1>12. FreeCounts'
    BY <1>1, <1>2, <1>5, <1>8, <1>10 DEF FreeCounts, IsLocked, EmailMax, ResetAfter
  <1> QED
    BY <1>4, <1>11, <1>12 DEF GuessInv

LEMMA RecordSuccessKeeps ==
    ASSUME GuessInv, NEW l \in Logins, RecordSuccess(l)
    PROVE  GuessInv'
  <1> DEFINE c == Cardinality(Checking)  m == Cardinality(Logins)
  <1>1. /\ moment' = moment /\ trying' = [trying EXCEPT ![l] = "idle"]
        /\ Cardinality(Checking') = c - 1
    BY OneLessChecks DEF RecordSuccess, GuessInv
  <1>2. c \in Nat /\ m \in Nat /\ EmailMax \in Nat \ {0} /\ moment \in Nat /\ wrong \in Nat
    BY CheckingFinite DEF GuessInv, LimiterTypeOK
  <1>3. CASE UNCHANGED <<attempts, wrong>>
    <2>1. LimiterTypeOK'
      BY <1>1, <1>3 DEF GuessInv, LimiterTypeOK
    <2>2. LockedCounts'
      BY <1>1, <1>2, <1>3 DEF GuessInv, LockedCounts, IsLocked, EmailMax
    <2>3. FreeCounts'
      BY <1>1, <1>3 DEF GuessInv, FreeCounts, IsLocked, EmailMax, ResetAfter
    <2> QED
      BY <2>1, <2>2, <2>3 DEF GuessInv
  <1>4. CASE wrong' = 0 /\ ~UNCHANGED <<attempts, wrong>>
    <2> DEFINE ip == IF attempts["ip"].count <= 1 THEN NoAttempt
                     ELSE [attempts["ip"] EXCEPT !.count = @ - 1]
    <2>1. attempts' = [email |-> NoAttempt, ip |-> ip]
      BY <1>4 DEF RecordSuccess
    <2>2. attempts["ip"] \in AttemptType /\ attempts["ip"].count \in Nat
      BY DEF GuessInv, LimiterTypeOK, Keys, AttemptType
    <2>3. ip \in AttemptType /\ NoAttempt \in AttemptType
      BY <2>2 DEF AttemptType, NoAttempt
    <2> HIDE DEF ip
    <2>4. attempts' \in [Keys -> AttemptType] /\ attempts'["email"] = NoAttempt
      BY <2>1, <2>3 DEF Keys
    <2>5. LimiterTypeOK'
      BY <1>1, <1>4, <2>4 DEF GuessInv, LimiterTypeOK
    <2>6. ~IsLocked("email")'
      BY <1>1, <1>2, <2>4 DEF IsLocked, NoAttempt
    <2>7. LockedCounts' /\ FreeCounts'
      BY <1>2, <1>4, <2>4, <2>6 DEF LockedCounts, FreeCounts, NoAttempt, EmailMax
    <2> QED
      BY <2>5, <2>7 DEF GuessInv
  <1> QED
    BY <1>3, <1>4 DEF RecordSuccess

LEMMA TimePassesKeeps ==
    ASSUME GuessInv, TimePasses
    PROVE  GuessInv'
  <1> DEFINE a == attempts["email"]  c == Cardinality(Checking)  m == Cardinality(Logins)
  <1>1. /\ moment \in Nat /\ wrong \in Nat /\ a.count \in Nat /\ a.last \in Nat /\ a.until \in Nat
        /\ c \in Nat /\ m \in Nat /\ c <= m /\ EmailMax \in Nat \ {0} /\ ResetAfter("email") \in Nat
    BY CheckingFinite DEF GuessInv, LimiterTypeOK, Keys, AttemptType, ResetAfter
  <1>2. /\ attempts' = attempts /\ trying' = trying /\ moment' = moment + 1
        /\ wrong' = IF moment + 1 = a.until \/ moment + 1 - a.last > ResetAfter("email")
                    THEN 0 ELSE wrong
    BY DEF TimePasses
  <1>3. Checking' = Checking
    BY <1>2 DEF Checking
  <1>4. LimiterTypeOK'
    BY <1>1, <1>2 DEF GuessInv, LimiterTypeOK
  <1>5. /\ moment < a.until => wrong + c <= EmailMax - 1 + m
        /\ ~(moment < a.until) =>
              /\ wrong <= EmailMax - 1
              /\ IF moment - a.last > ResetAfter("email") THEN wrong = 0 ELSE wrong <= a.count
    BY DEF GuessInv, LockedCounts, FreeCounts, IsLocked
  <1> HIDE DEF c, m
  <1>6. LockedCounts'
    BY <1>1, <1>2, <1>3, <1>5 DEF LockedCounts, IsLocked, EmailMax, c, m
  <1>7. FreeCounts'
    BY <1>1, <1>2, <1>5 DEF FreeCounts, IsLocked, EmailMax, ResetAfter
  <1> QED
    BY <1>4, <1>6, <1>7 DEF GuessInv

\* Only an attempt that is over and long past is cleaned away.
LEMMA CleanAttemptsKeeps ==
    ASSUME GuessInv, CleanAttempts
    PROVE  GuessInv'
  <1> DEFINE a == attempts["email"]  b == attempts'["email"]
             over == moment > a.until /\ moment - a.last > ResetAfter("email")
  <1>1. UNCHANGED <<moment, trying, wrong>> /\ b = IF over THEN NoAttempt ELSE a
    BY DEF CleanAttempts, Keys
  <1>2. LimiterTypeOK'
    BY <1>1 DEF CleanAttempts, GuessInv, LimiterTypeOK, NoAttempt, AttemptType
  <1>3. Checking' = Checking
    BY <1>1 DEF Checking
  <1>4. CASE ~over
    BY <1>1, <1>2, <1>3, <1>4
    DEF GuessInv, LockedCounts, FreeCounts, IsLocked, EmailMax, ResetAfter
  <1>5. CASE over
    <2>1. moment \in Nat /\ a.until \in Nat /\ EmailMax \in Nat \ {0}
      BY CheckingFinite DEF GuessInv, LimiterTypeOK, Keys, AttemptType
    <2>2. wrong = 0
      BY <1>5, <2>1 DEF GuessInv, FreeCounts, IsLocked
    <2>3. ~IsLocked("email")' /\ b.count = 0
      BY <1>1, <1>5, <2>1 DEF IsLocked, NoAttempt
    <2>4. LockedCounts' /\ FreeCounts'
      BY <1>1, <2>1, <2>2, <2>3 DEF LockedCounts, FreeCounts, EmailMax
    <2> QED
      BY <1>2, <2>4 DEF GuessInv
  <1> QED
    BY <1>4, <1>5

\* A login is let in only while the e-mail is free.
LEMMA TryLoginKeeps ==
    ASSUME GuessInv, NEW l \in Logins, TryLogin(l)
    PROVE  GuessInv'
  <1>1. UNCHANGED <<moment, attempts, wrong>> /\ trying' = [trying EXCEPT ![l] = "checking"]
    BY DEF TryLogin
  <1>2. LimiterTypeOK'
    BY <1>1 DEF GuessInv, LimiterTypeOK
  <1>3. ~IsLocked("email")'
    BY <1>1 DEF TryLogin, IsLocked
  <1>4. FreeCounts'
    BY <1>1 DEF GuessInv, FreeCounts, IsLocked, EmailMax, ResetAfter
  <1> QED
    BY <1>2, <1>3, <1>4 DEF GuessInv, LockedCounts

LEMMA GuessInit ==
    ASSUME LimitersInit
    PROVE  GuessInv
  <1>1. LimiterTypeOK
    BY DEF LimitersInit, LimiterTypeOK, NoAttempt, AttemptType
  <1>2. attempts["email"].count = 0 /\ attempts["email"].until = 0 /\ moment = 0 /\ wrong = 0
    BY DEF LimitersInit, NoAttempt, Keys
  <1>3. EmailMax \in Nat \ {0}
    BY <1>1, CheckingFinite
  <1> QED
    BY <1>1, <1>2, <1>3 DEF GuessInv, LockedCounts, FreeCounts, IsLocked

\* While the e-mail is locked, wrong passwords and those being checked stay within the
\* bound; while it is free, they are below the limit (login_limiter.go:52-105).
THEOREM GuessInvariant == LimitersSpec => []GuessInv
  <1>1. GuessInv /\ [LimitersNext]_limiterVars => GuessInv'
    <2> SUFFICES ASSUME GuessInv, [LimitersNext]_limiterVars
                 PROVE  GuessInv'
      OBVIOUS
    <2>1. CASE UNCHANGED <<moment, attempts, trying, wrong>>
      BY <2>1 DEF GuessInv, LimiterTypeOK, LockedCounts, FreeCounts, IsLocked, EmailMax,
                  Checking, ResetAfter
    <2>2. CASE Allow \/ CleanRequests \/ UNCHANGED limiterVars
      BY <2>1, <2>2 DEF Allow, CleanRequests, limiterVars
    <2> QED
      BY <2>2, TryLoginKeeps, RecordFailureKeeps, RecordSuccessKeeps, CleanAttemptsKeeps,
         TimePassesKeeps
      DEF LimitersNext
  <1> QED
    BY <1>1, GuessInit, PTL DEF LimitersSpec

\* Between one lock of an e-mail and the next, no more passwords are guessed than the
\* limit and what was being checked when it was reached.
THEOREM GuessesBoundedAlways == LimitersSpec => []GuessesBounded
  BY GuessInvariant, GuessInvBounds, PTL

-----------------------------------------------------------------------------
(* The rate limiter.                                                       *)

\* The times of requests are those of a clock that never goes back.
ServedInOrder ==
    /\ moment \in Nat /\ served \in Seq(Nat)
    /\ \A i \in 1..Len(served) :
          served[i] <= moment /\ \A j \in i..Len(served) : served[i] <= served[j]

\* Only requests of windows that are over are forgotten, by Allow and by the cleaner.
ForgetsOnlyOld ==
    /\ requests \subseteq 1..Len(served)
    /\ \A i \in 1..Len(served) : i \in requests \/ ~WithinWindow(served[i])

RateInv == ServedInOrder /\ ForgetsOnlyOld /\ RequestsBounded

\* With the limit reached, Allow finds as many requests within the window.
LEMMA LastAreKept ==
    ASSUME RateInv, NEW i \in 1..Len(served), WithinWindow(served[i])
    PROVE  Cardinality(Kept) >= Len(served) - i + 1
  <1>1. /\ Len(served) \in Nat /\ Window \in Nat /\ moment \in Nat
        /\ \A j \in 1..Len(served) : served[j] \in Nat
    BY SMTT(30), LimitersAssumption DEF RateInv, ServedInOrder
  <1>2. i..Len(served) \subseteq Kept
    <2> SUFFICES ASSUME NEW j \in i..Len(served) PROVE j \in Kept
      OBVIOUS
    <2>1. j \in 1..Len(served) /\ served[i] <= served[j]
      BY <1>1 DEF RateInv, ServedInOrder
    <2>2. WithinWindow(served[j])
      BY <1>1, <2>1 DEF WithinWindow
    <2> QED
      BY <2>1, <2>2 DEF RateInv, ForgetsOnlyOld, Kept
  <1>3. Kept \in SUBSET (1..Len(served))
    BY DEF Kept, RateInv, ForgetsOnlyOld
  <1>4. IsFiniteSet(1..Len(served)) /\ IsFiniteSet(i..Len(served))
        /\ Cardinality(i..Len(served)) = Len(served) - i + 1
    BY <1>1, FS_Interval
  <1>5. IsFiniteSet(Kept)
    BY <1>3, <1>4, FS_Subset
  <1> QED
    BY SMTT(30), <1>1, <1>2, <1>4, <1>5, FS_Subset, FS_CardinalityType

LEMMA AllowKeeps ==
    ASSUME RateInv, Allow
    PROVE  RateInv'
  <1> DEFINE n == Len(served)
  <1>1. /\ n \in Nat /\ Window \in Nat /\ moment \in Nat /\ Limit \in Nat \ {0}
        /\ served \in Seq(Nat) /\ \A i \in 1..n : served[i] \in Nat
    BY LimitersAssumption DEF RateInv, ServedInOrder
  <1>2. moment' = moment
    BY DEF Allow
  <1>3. ASSUME Cardinality(Kept) < Limit,
               requests' = Kept \cup {n + 1}, served' = Append(served, moment)
        PROVE  RateInv'
    <2>1. /\ Len(served') = n + 1 /\ served' \in Seq(Nat)
          /\ \A i \in 1..n : served'[i] = served[i]
          /\ served'[n + 1] = moment
      BY <1>1, <1>3
    <2>2. ServedInOrder'
      <3> SUFFICES ASSUME NEW i \in 1..(n + 1)
                   PROVE  /\ served'[i] <= moment
                          /\ \A j \in i..(n + 1) : served'[i] <= served'[j]
        BY <1>1, <1>2, <2>1 DEF ServedInOrder
      <3>1. \A j \in 1..n : served[j] <= moment
        BY DEF RateInv, ServedInOrder
      <3>2. CASE i = n + 1
        BY <1>1, <2>1, <3>2
      <3>3. CASE i \in 1..n
        <4>1. \A j \in i..n : served[i] <= served[j]
          BY <3>3 DEF RateInv, ServedInOrder
        <4>2. \A j \in i..(n + 1) : j \in i..n \/ j = n + 1
          BY <1>1, <3>3
        <4>3. \A j \in i..n : served'[j] = served[j]
          BY <1>1, <2>1, <3>3
        <4>4. served'[i] = served[i] /\ served[i] <= moment
          BY <2>1, <3>1, <3>3
        <4> QED
          BY <2>1, <4>1, <4>2, <4>3, <4>4
      <3>4. i = n + 1 \/ i \in 1..n
        BY <1>1
      <3> QED
        BY <3>2, <3>3, <3>4
    <2>3. ForgetsOnlyOld'
      <3>1. requests' \subseteq 1..(n + 1)
        <4>1. Kept \subseteq 1..n
          BY DEF RateInv, ForgetsOnlyOld, Kept
        <4>2. 1..n \subseteq 1..(n + 1) /\ n + 1 \in 1..(n + 1)
          BY <1>1
        <4> QED
          BY <1>3, <4>1, <4>2
      <3>2. ASSUME NEW i \in 1..(n + 1), i \notin requests'
            PROVE  ~(moment < served'[i] + Window)
        <4>1. i \in 1..n /\ i \notin Kept
          BY <1>1, <1>3, <3>2
        <4>2. ~WithinWindow(served[i])
          BY <4>1 DEF RateInv, ForgetsOnlyOld, Kept
        <4> QED
          BY <2>1, <4>1, <4>2 DEF WithinWindow
      <3> QED
        BY <1>2, <2>1, <3>1, <3>2 DEF ForgetsOnlyOld, WithinWindow
    <2>4. RequestsBounded'
      <3>0. Len(served') - Limit = n + 1 - Limit
        BY <1>1, <2>1
      <3> SUFFICES ASSUME NEW i \in 1..(n + 1 - Limit)
                   PROVE  served'[i] + Window <= served'[i + Limit]
        BY <3>0, Zenon DEF RequestsBounded
      <3>1. i \in 1..n /\ served'[i] = served[i]
        <4>1. i \in 1..n
          BY <1>1
        <4> QED
          BY <2>1, <4>1
      <3>2. CASE i = n + 1 - Limit
        <4>1. CASE WithinWindow(served[i])
          <5>1. Cardinality(Kept) >= n - i + 1
            BY <3>1, <4>1, LastAreKept
          <5>2. n - i + 1 = Limit
            BY <1>1, <3>2
          <5>3. IsFiniteSet(Kept)
            <6>1. Kept \in SUBSET (1..n)
              BY DEF Kept, RateInv, ForgetsOnlyOld
            <6>2. IsFiniteSet(1..n)
              BY <1>1, FS_Interval
            <6> QED
              BY <6>1, <6>2, FS_Subset
          <5>4. Cardinality(Kept) \in Nat
            BY <5>3, FS_CardinalityType
          <5> QED
            BY <1>1, <1>3, <5>1, <5>2, <5>4
        <4>2. CASE ~WithinWindow(served[i])
          <5>1. served'[i + Limit] = moment
            <6>1. i + Limit = n + 1
              BY <1>1, <3>2
            <6> QED
              BY <2>1, <6>1
          <5>2. served[i] \in Nat /\ moment \in Nat
            BY <3>1 DEF RateInv, ServedInOrder
          <5>3. ~(moment < served[i] + Window)
            BY <4>2 DEF WithinWindow
          <5> QED
            BY <1>1, <3>1, <5>1, <5>2, <5>3
        <4> QED
          BY <4>1, <4>2
      <3>3. CASE i \in 1..(n - Limit)
        <4>1. i + Limit \in 1..n
          BY <1>1, <3>3
        <4>2. served[i] + Window <= served[i + Limit]
          BY <3>3 DEF RateInv, RequestsBounded
        <4> QED
          BY <2>1, <3>1, <4>1, <4>2
      <3>4. i = n + 1 - Limit \/ i \in 1..(n - Limit)
        BY <1>1
      <3> QED
        BY <3>2, <3>3, <3>4
    <2> QED
      BY <2>2, <2>3, <2>4 DEF RateInv
  <1>4. ASSUME requests' = Kept, UNCHANGED served
        PROVE  RateInv'
    BY <1>2, <1>4 DEF RateInv, ServedInOrder, ForgetsOnlyOld, RequestsBounded, Kept, WithinWindow
  <1> QED
    BY <1>3, <1>4 DEF Allow

LEMMA TimeKeepsRate ==
    ASSUME RateInv, TimePasses
    PROVE  RateInv'
  <1>1. /\ moment' = moment + 1 /\ UNCHANGED <<served, requests>>
        /\ moment \in Nat /\ Window \in Nat /\ Len(served) \in Nat
        /\ \A i \in 1..Len(served) : served[i] \in Nat
    BY LimitersAssumption DEF TimePasses, RateInv, ServedInOrder
  <1>2. ServedInOrder'
    BY <1>1 DEF RateInv, ServedInOrder
  <1>3. ForgetsOnlyOld'
    BY <1>1 DEF RateInv, ForgetsOnlyOld, WithinWindow
  <1> QED
    BY <1>1, <1>2, <1>3 DEF RateInv, RequestsBounded

\* Requests come in the order of the clock, and only what is out of the window is
\* forgotten (ratelimit.go:35-81).
THEOREM RateInvariant == LimitersSpec => []RateInv
  <1>1. LimitersInit => RateInv
    BY LimitersAssumption
    DEF LimitersInit, RateInv, ServedInOrder, ForgetsOnlyOld, RequestsBounded
  <1>2. RateInv /\ [LimitersNext]_limiterVars => RateInv'
    <2> SUFFICES ASSUME RateInv, [LimitersNext]_limiterVars
                 PROVE  RateInv'
      OBVIOUS
    <2>1. CASE UNCHANGED <<moment, served, requests>>
      BY <2>1 DEF RateInv, ServedInOrder, ForgetsOnlyOld, RequestsBounded, WithinWindow
    <2>2. CASE CleanRequests
      <3>1. UNCHANGED <<moment, served>> /\ requests' = Kept
        BY <2>2 DEF CleanRequests
      <3> QED
        BY <3>1 DEF RateInv, ServedInOrder, ForgetsOnlyOld, RequestsBounded, Kept, WithinWindow
    <2> QED
      BY <2>1, <2>2, AllowKeeps, TimeKeepsRate
      DEF LimitersNext, TryLogin, RecordFailure, RecordSuccess, CleanAttempts, limiterVars
  <1> QED
    BY <1>1, <1>2, PTL DEF LimitersSpec

\* No window of time, wherever it begins, holds more served requests than the limit.
THEOREM RequestsBoundedAlways == LimitersSpec => []RequestsBounded
  BY RateInvariant, PTL DEF RateInv

-----------------------------------------------------------------------------
(* Seats and subscriptions.                                                *)

Rows     == {"none", "live", "deleted"}
Statuses == {"active", "expired", "suspended", "cancelled"}
SubType  == [row : Rows, status : Statuses, expire : Nat, max : Nat]
SubIds   == Subs \cup {NoLogin.sub}

LoginType == [at : {"idle", "bind", "expire", "first", "again"}, sub : SubIds, copy : SubType]

CustomerType == [row : Rows, status : {"active", "disabled"}]
RequestType  ==
    [op : {"idle", "renew", "cancel", "disable", "enable", "reset"}, sub : SubIds,
     copy : SubType, who : CustomerType]

SeatTypeOK ==
    /\ day \in Nat
    /\ sub \in [Subs -> SubType]
    /\ holder \in [Subs -> Machines \cup {Nobody}]
    /\ seat \in [Subs -> [Machines -> Rows]]
    /\ login \in [Machines -> LoginType]
    /\ \A m \in Machines : login[m].at # "idle" => login[m].sub \in Subs

\* A login that has counted the devices holds the lock of the subscription.
LockHeld == \A m \in Machines : Locked(m) => holder[login[m].sub] = m

\* So the room it has found for its device is still there.
RoomKept ==
    besides = "nothing" =>
        \A m \in Machines :
            LET s == login[m].sub IN
            login[m].at = "first" => sub[s].row = "live" /\ Cardinality(Seated(s)) < sub[s].max

\* Nobody is about to save a device it has read.
NoReports == besides = "nothing" => \A m \in Machines : report[m].at = "idle"

SeatInv == SeatTypeOK /\ LockHeld /\ RoomKept /\ NoReports

\* The customer and the copies others have of it; a copy is of a row that was not deleted.
PeopleOK ==
    /\ customer \in CustomerType
    /\ account \in [op : {"idle", "password"}, who : CustomerType]
    /\ admin \in [Admins -> RequestType]
    /\ \A a \in Admins : admin[a].op \in {"renew", "cancel"} =>
           admin[a].sub \in Subs /\ admin[a].copy.row = "live"

SubscriptionInv == SeatInv /\ PeopleOK

\* The smaller facts on constants and rows.
LEMMA RowFacts ==
    /\ NoSub \in SubType /\ NoLogin \in LoginType
    /\ MaxTime \in Nat /\ Never \in Nat
  <1>1. MaxTime \in Nat /\ Never \in Nat
    BY SubscriptionsAssumption DEF Never
  <1>2. NoSub \in SubType
    BY <1>1 DEF NoSub, SubType, Rows, Statuses
  <1>3. NoLogin \in LoginType
    <2>1. NoLogin.sub \in SubIds
      BY DEF SubIds
    <2>2. NoLogin = [at |-> "idle", sub |-> NoLogin.sub, copy |-> NoSub]
      BY DEF NoLogin
    <2> HIDE DEF NoLogin
    <2> QED
      BY <1>2, <2>1, <2>2 DEF LoginType
  <1> QED
    BY <1>1, <1>2, <1>3

LEMMA RequestFacts ==
    NoRequest \in RequestType /\ NoRequest.op = "idle" /\ NobodyYet \in CustomerType
  <1>1. NobodyYet \in CustomerType
    BY DEF NobodyYet, CustomerType, Rows
  <1>2. NoSub \in SubType /\ NoLogin.sub \in SubIds
    BY RowFacts DEF SubIds
  <1>3. NoRequest = [op |-> "idle", sub |-> NoLogin.sub, copy |-> NoSub, who |-> NobodyYet]
    BY DEF NoRequest
  <1> QED
    BY <1>1, <1>2, <1>3 DEF RequestType

LEMMA SeatedFinite ==
    ASSUME NEW s \in Subs
    PROVE  /\ IsFiniteSet(Seated(s)) /\ Cardinality(Seated(s)) \in Nat
  <1>1. Seated(s) \subseteq Machines /\ IsFiniteSet(Machines)
    BY SubscriptionsAssumption DEF Seated
  <1> QED
    BY <1>1, FS_Subset, FS_CardinalityType

\* Devices that are unbound leave room; rows under a lock stay.
LEMMA RoomStays ==
    ASSUME SeatInv, NEW m \in Machines, besides = "nothing", login[m].at = "first",
           NEW s \in Subs, login[m].sub = s, sub'[s] = sub[s],
           \A k \in Machines : seat'[s][k] = "live" => seat[s][k] = "live"
    PROVE  sub'[s].row = "live" /\ Cardinality(Seated(s)') < sub'[s].max
  <1>1. sub[s].row = "live" /\ Cardinality(Seated(s)) < sub[s].max
    BY DEF SeatInv, RoomKept
  <1>2. Seated(s)' \subseteq Seated(s)
    BY DEF Seated
  <1>3. IsFiniteSet(Seated(s)) /\ Cardinality(Seated(s)) \in Nat
    BY SeatedFinite
  <1>4. IsFiniteSet(Seated(s)') /\ Cardinality(Seated(s)') <= Cardinality(Seated(s))
    BY <1>2, <1>3, FS_Subset
  <1>5. Cardinality(Seated(s)') \in Nat /\ sub[s].max \in Nat
    BY <1>4, FS_CardinalityType DEF SeatInv, SeatTypeOK, SubType
  <1> QED
    BY <1>1, <1>3, <1>4, <1>5

\* A step that is not a login's: it changes no subscription whose row is locked, and binds no
\* device.
LEMMA OthersKeepSeats ==
    ASSUME SeatInv, UNCHANGED <<login, holder, besides>>,
           day' \in Nat, day <= day',
           sub' \in [Subs -> SubType], seat' \in [Subs -> [Machines -> Rows]],
           \A s \in Subs : ~Unlocked(s) /\ sub[s].row = "live" => sub'[s] = sub[s],
           besides = "nothing" =>
               /\ \A s \in Subs, k \in Machines : seat'[s][k] = "live" => seat[s][k] = "live"
               /\ report' = report
    PROVE  SeatInv'
  <1>1. SeatTypeOK'
    BY DEF SeatInv, SeatTypeOK
  <1>2. LockHeld'
    BY DEF SeatInv, LockHeld, Locked
  <1>3. RoomKept'
    <2> SUFFICES ASSUME besides = "nothing", NEW m \in Machines, login[m].at = "first"
                 PROVE  /\ sub'[login[m].sub].row = "live"
                        /\ Cardinality(Seated(login[m].sub)') < sub'[login[m].sub].max
      BY DEF RoomKept
    <2> DEFINE s == login[m].sub
    <2>1. s \in Subs /\ sub[s].row = "live"
      BY DEF SeatInv, SeatTypeOK, RoomKept
    <2>2. ~Unlocked(s)
      BY SubscriptionsAssumption DEF SeatInv, LockHeld, Locked, Unlocked
    <2>3. sub'[s] = sub[s]
      BY <2>1, <2>2
    <2>4. \A k \in Machines : seat'[s][k] = "live" => seat[s][k] = "live"
      BY <2>1
    <2>5. login'[m] = login[m]
      OBVIOUS
    <2> QED
      BY <2>1, <2>3, <2>4, <2>5, RoomStays
  <1>4. NoReports'
    BY DEF SeatInv, NoReports
  <1> QED
    BY <1>1, <1>2, <1>3, <1>4 DEF SeatInv

\* Save of a copy of a subscription.
LEMMA SaveSubTyped ==
    ASSUME SeatInv, NEW s \in Subs, NEW copy \in SubType, SaveSub(s, copy)
    PROVE  /\ sub' \in [Subs -> SubType]
           /\ sub'[s] = [copy EXCEPT !.row = "live"]
           /\ \A t \in Subs : ~Unlocked(t) => sub'[t] = sub[t]
  <1> DEFINE saved == [copy EXCEPT !.row = "live"]
  <1>1. saved \in SubType
    BY DEF SubType, Rows
  <1>2. sub' = [sub EXCEPT ![s] = saved] /\ Unlocked(s)
    BY DEF SaveSub
  <1> HIDE DEF saved
  <1>3. sub' \in [Subs -> SubType] /\ sub'[s] = saved /\ \A t \in Subs : t # s => sub'[t] = sub[t]
    BY <1>1, <1>2 DEF SeatInv, SeatTypeOK
  <1> QED
    BY <1>2, <1>3 DEF saved

\* The end of a renewed subscription is not before the end it had.
LEMMA LaterIsLater ==
    ASSUME NEW e \in Nat, day \in Nat
    PROVE  /\ Later(e) \in Nat
           /\ day <= e /\ e # Never => e <= Later(e)
  <1>1. MaxTime \in Nat /\ Never \in Nat
    BY RowFacts
  <1> QED
    BY <1>1 DEF Later

\* What the administrators do to customers, and the time.
LEMMA CustomerStepKeeps ==
    ASSUME SeatInv,
           \/ CreateCustomer \/ PasswordStep \/ DayPasses
           \/ \E a \in Admins, op \in {"disable", "enable", "reset"} : ReadCustomer(a, op) \/ SaveCustomer(a, op)
           \/ \E status \in {"active", "disabled"} : UpdateCustomer(status)
    PROVE  SeatInv'
  <1>1. /\ UNCHANGED <<login, holder, besides, sub, seat, report>>
        /\ day' = day \/ day' = day + 1
    BY DEF CreateCustomer, PasswordStep, DayPasses, ReadCustomer, SaveCustomer, UpdateCustomer
  <1>2. day \in Nat /\ day' \in Nat /\ day <= day'
    BY <1>1 DEF SeatInv, SeatTypeOK
  <1>3. sub' \in [Subs -> SubType] /\ seat' \in [Subs -> [Machines -> Rows]]
    BY <1>1 DEF SeatInv, SeatTypeOK
  <1> QED
    BY <1>1, <1>2, <1>3, OthersKeepSeats

\* Everything of the customer, and one subscription with its devices.
LEMMA DeletionKeeps ==
    ASSUME SeatInv, DeleteCustomer \/ \E s \in Subs : DeleteSubscription(s)
    PROVE  SeatInv'
  <1>1. UNCHANGED <<login, holder, besides, report, day>>
    BY DEF DeleteCustomer, DeleteSubscription
  <1>2. day' \in Nat /\ day <= day'
    BY <1>1 DEF SeatInv, SeatTypeOK
  <1>3. ASSUME NEW s \in Subs
        PROVE  [sub[s] EXCEPT !.row = "deleted"] \in SubType
    BY SMTT(30) DEF SeatInv, SeatTypeOK, SubType, Rows
  <1>4. CASE DeleteCustomer
    <2>1. \A s \in Subs : Unlocked(s)
      BY <1>4 DEF DeleteCustomer
    <2>2. sub' \in [Subs -> SubType]
      BY <1>3, <1>4 DEF DeleteCustomer, SeatInv, SeatTypeOK
    <2>3. /\ seat' \in [Subs -> [Machines -> Rows]]
          /\ \A s \in Subs, k \in Machines : seat'[s][k] = "live" => seat[s][k] = "live"
      BY <1>4 DEF DeleteCustomer, SeatInv, SeatTypeOK, Rows
    <2> QED
      BY <1>1, <1>2, <2>1, <2>2, <2>3, OthersKeepSeats
  <1>5. ASSUME NEW s \in Subs, DeleteSubscription(s)
        PROVE  SeatInv'
    <2> DEFINE row == [sub[s] EXCEPT !.row = "deleted"]
               devices == [m \in Machines |-> IF seat[s][m] = "live" THEN "deleted" ELSE seat[s][m]]
    <2>1. /\ sub' = [sub EXCEPT ![s] = row] /\ seat' = [seat EXCEPT ![s] = devices]
          /\ Unlocked(s)
      BY <1>5 DEF DeleteSubscription
    <2>2. row \in SubType
      BY <1>3
    <2>3. devices \in [Machines -> Rows] /\ \A k \in Machines : devices[k] # "live"
      BY DEF SeatInv, SeatTypeOK, Rows
    <2> HIDE DEF row, devices
    <2>4. sub' \in [Subs -> SubType] /\ \A t \in Subs : ~Unlocked(t) => sub'[t] = sub[t]
      BY <2>1, <2>2 DEF SeatInv, SeatTypeOK
    <2>5. /\ seat' \in [Subs -> [Machines -> Rows]]
          /\ \A t \in Subs, k \in Machines : seat'[t][k] = "live" => seat[t][k] = "live"
      BY <2>1, <2>3 DEF SeatInv, SeatTypeOK
    <2> QED
      BY <1>1, <1>2, <2>4, <2>5, OthersKeepSeats
  <1> QED
    BY <1>4, <1>5

\* A device is unbound, or reports.
LEMMA DeviceStepKeeps ==
    ASSUME SeatInv, NEW m \in Machines,
           BeginReport(m) \/ ReportSaves(m) \/ \E s \in Subs : UnbindDevice(s, m)
    PROVE  SeatInv'
  <1>1. UNCHANGED <<login, holder, besides, day, sub>>
    BY DEF BeginReport, ReportSaves, UnbindDevice
  <1>2. day' \in Nat /\ day <= day' /\ sub' \in [Subs -> SubType]
    BY <1>1 DEF SeatInv, SeatTypeOK
  <1>3. /\ seat' \in [Subs -> [Machines -> Rows]]
        /\ besides = "nothing" =>
              /\ \A s \in Subs, k \in Machines : seat'[s][k] = "live" => seat[s][k] = "live"
              /\ report' = report
    <2>1. CASE BeginReport(m)
      BY <2>1 DEF BeginReport, SeatInv, SeatTypeOK
    <2>2. CASE ReportSaves(m)
      <3>1. besides # "nothing"
        BY <2>2 DEF ReportSaves, SeatInv, NoReports
      <3>2. seat' = [seat EXCEPT ![report[m].sub][m] = "live"]
        BY <2>2 DEF ReportSaves
      <3> DEFINE r == report[m].sub
      <3>3. seat' = [seat EXCEPT ![r][m] = "live"]
        BY <3>2
      <3> HIDE DEF r
      <3>4. seat' \in [Subs -> [Machines -> Rows]]
        BY <3>3 DEF SeatInv, SeatTypeOK, Rows
      <3> QED
        BY <3>1, <3>4
    <2>3. ASSUME NEW s \in Subs, UnbindDevice(s, m)
          PROVE  /\ seat' \in [Subs -> [Machines -> Rows]] /\ report' = report
                 /\ \A t \in Subs, k \in Machines : seat'[t][k] = "live" => seat[t][k] = "live"
      BY <2>3 DEF UnbindDevice, SeatInv, SeatTypeOK, Rows
    <2> QED
      BY <2>1, <2>2, <2>3
  <1> QED
    BY <1>1, <1>2, <1>3, OthersKeepSeats

\* A subscription is created, or its columns are changed.
LEMMA SubscriptionStepKeeps ==
    ASSUME SeatInv, NEW s \in Subs,
           ClientRegister(s) \/ CreateSubscription(s) \/ UpdateSubscription(s)
    PROVE  SeatInv'
  <1>1. UNCHANGED <<login, holder, besides, report, day, seat>>
    BY DEF ClientRegister, CreateSubscription, UpdateSubscription
  <1>2. seat' \in [Subs -> [Machines -> Rows]] /\ day' \in Nat /\ day <= day'
    BY <1>1 DEF SeatInv, SeatTypeOK
  <1>3. /\ sub' \in [Subs -> SubType]
        /\ \A t \in Subs : t # s => sub'[t] = sub[t]
        /\ sub[s].row # "none" => Unlocked(s)
    <2>1. CASE ClientRegister(s)
      <3> DEFINE row == [NoSub EXCEPT !.row = "live"]
      <3>1. row \in SubType
        BY RowFacts DEF SubType, Rows
      <3>2. sub' = [sub EXCEPT ![s] = row] /\ sub[s].row = "none"
        BY <2>1 DEF ClientRegister
      <3> HIDE DEF row
      <3> QED
        BY <3>1, <3>2 DEF SeatInv, SeatTypeOK
    <2>2. CASE CreateSubscription(s)
      <3>1. PICK n \in SeatLimits, e \in {day, MaxTime + 1, Never} :
               sub' = [sub EXCEPT ![s] = [row |-> "live", status |-> "active", expire |-> e, max |-> n]]
        BY <2>2 DEF CreateSubscription
      <3>2. n \in Nat /\ e \in Nat
        BY RowFacts, SubscriptionsAssumption DEF SeatInv, SeatTypeOK
      <3> DEFINE row == [row |-> "live", status |-> "active", expire |-> e, max |-> n]
      <3>3. row \in SubType
        BY <3>2 DEF SubType, Rows, Statuses
      <3>4. sub' = [sub EXCEPT ![s] = row] /\ sub[s].row = "none"
        BY <2>2, <3>1 DEF CreateSubscription
      <3> HIDE DEF row
      <3> QED
        BY <3>3, <3>4 DEF SeatInv, SeatTypeOK
    <2>3. CASE UpdateSubscription(s)
      <3>1. Unlocked(s) /\ sub[s] \in SubType
        BY <2>3 DEF UpdateSubscription, SeatInv, SeatTypeOK
      <3>2. PICK row \in SubType : sub' = [sub EXCEPT ![s] = row]
        <4>1. CASE \E n \in SeatLimits : sub' = [sub EXCEPT ![s].max = n]
          <5>1. PICK n \in SeatLimits : sub' = [sub EXCEPT ![s].max = n]
            BY <4>1
          <5>2. [sub[s] EXCEPT !.max = n] \in SubType
            BY <3>1, SubscriptionsAssumption DEF SubType
          <5>3. sub' = [sub EXCEPT ![s] = [sub[s] EXCEPT !.max = n]]
            BY <5>1
          <5> QED
            BY <5>2, <5>3
        <4>2. CASE \E st \in {"active", "suspended"} : sub' = [sub EXCEPT ![s].status = st]
          <5>1. PICK st \in {"active", "suspended"} : sub' = [sub EXCEPT ![s].status = st]
            BY <4>2
          <5>2. [sub[s] EXCEPT !.status = st] \in SubType
            BY <3>1 DEF SubType, Statuses
          <5>3. sub' = [sub EXCEPT ![s] = [sub[s] EXCEPT !.status = st]]
            BY <5>1
          <5> QED
            BY <5>2, <5>3
        <4> QED
          BY <2>3, <4>1, <4>2 DEF UpdateSubscription
      <3> QED
        BY <3>1, <3>2 DEF SeatInv, SeatTypeOK
    <2> QED
      BY <2>1, <2>2, <2>3
  <1>4. \A t \in Subs : ~Unlocked(t) /\ sub[t].row = "live" => sub'[t] = sub[t]
    BY <1>3
  <1> QED
    BY <1>1, <1>2, <1>3, <1>4, OthersKeepSeats

\* Renew and Cancel read a subscription ...
LEMMA ReadSubscriptionKeeps ==
    ASSUME SeatInv, NEW a \in Admins, NEW s \in Subs, NEW op \in {"renew", "cancel"},
           ReadSubscription(a, op, s)
    PROVE  SeatInv'
  <1>1. UNCHANGED <<login, holder, besides, report, day, sub, seat>>
    BY DEF ReadSubscription
  <1>2. /\ day' \in Nat /\ day <= day'
        /\ sub' \in [Subs -> SubType] /\ seat' \in [Subs -> [Machines -> Rows]]
    BY <1>1 DEF SeatInv, SeatTypeOK
  <1> QED
    BY <1>1, <1>2, OthersKeepSeats

\* ... and save what they make of it, which they are then done with.
LEMMA EditKeeps ==
    ASSUME SubscriptionInv, NEW a \in Admins, Renew(a) \/ Cancel(a)
    PROVE  /\ SeatInv' /\ admin'[a] = NoRequest
           /\ admin[a].sub \in Subs /\ admin[a].copy \in SubType /\ admin[a].copy.row = "live"
           /\ \A t \in Subs : t # admin[a].sub => sub'[t] = sub[t]
           /\ sub'[admin[a].sub].expire =
                 IF Renew(a) THEN Later(admin[a].copy.expire) ELSE admin[a].copy.expire
  <1>i. SeatInv /\ admin \in [Admins -> RequestType]
    BY DEF SubscriptionInv, PeopleOK
  <1>1. /\ UNCHANGED <<login, holder, besides, report, day, seat>>
        /\ admin' = [admin EXCEPT ![a] = NoRequest] /\ admin[a].op \in {"renew", "cancel"}
    BY DEF Renew, Cancel, End
  <1>2. /\ admin[a].sub \in Subs /\ admin[a].copy \in SubType /\ admin[a].copy.row = "live"
        /\ day \in Nat /\ admin'[a] = NoRequest
    BY <1>i, <1>1 DEF SubscriptionInv, PeopleOK, RequestType, SeatInv, SeatTypeOK
  <1>3. Later(admin[a].copy.expire) \in Nat
    BY <1>2, LaterIsLater DEF SubType
  <1>4. PICK copy \in SubType :
           /\ SaveSub(admin[a].sub, copy)
           /\ copy.expire = IF Renew(a) THEN Later(admin[a].copy.expire) ELSE admin[a].copy.expire
    <2>1. CASE Renew(a)
      <3> DEFINE later == Later(admin[a].copy.expire)
                 copy == [admin[a].copy EXCEPT !.status = "active", !.expire = later]
      <3>1. SaveSub(admin[a].sub, copy)
        BY <2>1 DEF Renew
      <3> HIDE DEF later
      <3>2. later \in Nat
        BY <1>3 DEF later
      <3>3. copy \in SubType /\ copy.expire = later
        <4> DEFINE active == [admin[a].copy EXCEPT !.status = "active"]
        <4>1. active \in SubType
          BY <1>2 DEF SubType, Statuses
        <4>2. copy = [active EXCEPT !.expire = later]
          OBVIOUS
        <4> HIDE DEF active, copy
        <4> QED
          BY <3>2, <4>1, <4>2 DEF SubType
      <3> HIDE DEF copy
      <3> QED
        BY <2>1, <3>1, <3>3 DEF later
    <2>2. CASE ~Renew(a)
      <3> DEFINE copy == [admin[a].copy EXCEPT !.status = "cancelled"]
      <3>1. SaveSub(admin[a].sub, copy)
        BY <2>2 DEF Cancel
      <3>2. copy \in SubType /\ copy.expire = admin[a].copy.expire
        BY <1>2 DEF SubType, Statuses
      <3> HIDE DEF copy
      <3> QED
        BY <2>2, <3>1, <3>2
    <2> QED
      BY <2>1, <2>2
  <1>5. /\ sub' \in [Subs -> SubType]
        /\ \A t \in Subs : ~Unlocked(t) => sub'[t] = sub[t]
        /\ sub'[admin[a].sub].expire = copy.expire
        /\ \A t \in Subs : t # admin[a].sub => sub'[t] = sub[t]
    <2>1. /\ sub' \in [Subs -> SubType] /\ \A t \in Subs : ~Unlocked(t) => sub'[t] = sub[t]
          /\ sub'[admin[a].sub] = [copy EXCEPT !.row = "live"]
      BY <1>i, <1>2, <1>4, SaveSubTyped
    <2>2. [copy EXCEPT !.row = "live"].expire = copy.expire
      BY DEF SubType
    <2>3. \A t \in Subs : t # admin[a].sub => sub'[t] = sub[t]
      BY <1>i, <1>2, <1>4 DEF SaveSub, SeatInv, SeatTypeOK
    <2> QED
      BY <2>1, <2>2, <2>3
  <1>7. day' \in Nat /\ day <= day' /\ seat' \in [Subs -> [Machines -> Rows]]
    BY <1>i, <1>1 DEF SeatInv, SeatTypeOK
  <1>8. SeatInv'
    BY <1>i, <1>1, <1>5, <1>7, OthersKeepSeats
  <1> QED
    BY <1>2, <1>4, <1>5, <1>8

\* A step of one login keeps the types when what it leaves is a login.
LEMMA LoginTyped ==
    ASSUME SeatInv, NEW m \in Machines, NEW r \in LoginType, login' = [login EXCEPT ![m] = r],
           r.at # "idle" => r.sub \in Subs,
           sub' \in [Subs -> SubType], holder' \in [Subs -> Machines \cup {Nobody}],
           seat' \in [Subs -> [Machines -> Rows]], UNCHANGED day
    PROVE  SeatTypeOK' /\ \A k \in Machines : login'[k] = IF k = m THEN r ELSE login[k]
  <1>1. login' \in [Machines -> LoginType]
        /\ \A k \in Machines : login'[k] = IF k = m THEN r ELSE login[k]
    BY DEF SeatInv, SeatTypeOK
  <1> QED
    BY <1>1 DEF SeatInv, SeatTypeOK

\* A login reads the customer and a subscription, or is refused.
LEMMA LoginWithoutWriteKeeps ==
    ASSUME SeatInv, NEW m \in Machines, LoginReads(m) \/ LoginRefused(m)
    PROVE  SeatInv'
  <1>1. UNCHANGED <<day, report, besides, sub, holder, seat, admin>> /\ ~Locked(m)
    BY DEF LoginReads, LoginRefused, SubsOnly, Locked
  <1>2. PICK r \in LoginType :
           /\ login' = [login EXCEPT ![m] = r]
           /\ r.at # "idle" => r.sub \in Subs
           /\ r.at \in {"idle", "bind", "expire"}
    <2>1. CASE LoginReads(m)
      <3>1. PICK s \in Subs :
               /\ sub[s].row = "live" /\ sub[s].status = "active"
               /\ login' = [login EXCEPT ![m] =
                     [at |-> IF Valid(sub[s]) THEN "bind" ELSE "expire", sub |-> s, copy |-> sub[s]]]
        BY <2>1 DEF LoginReads
      <3>2. sub[s] \in SubType /\ s \in SubIds
        BY DEF SeatInv, SeatTypeOK, SubIds
      <3> DEFINE at == IF Valid(sub[s]) THEN "bind" ELSE "expire"
                 r  == [at |-> at, sub |-> s, copy |-> sub[s]]
      <3>3. at \in {"bind", "expire"}
        OBVIOUS
      <3>4. login' = [login EXCEPT ![m] = r]
        BY <3>1
      <3> HIDE DEF at
      <3>5. r \in LoginType /\ r.at = at /\ r.sub = s /\ r.copy = sub[s]
        BY <3>2, <3>3 DEF LoginType
      <3> HIDE DEF r
      <3> QED
        BY <3>3, <3>4, <3>5
    <2>2. CASE LoginRefused(m)
      <3>1. NoLogin \in LoginType /\ NoLogin.at = "idle"
        BY RowFacts DEF NoLogin
      <3> QED
        BY <2>2, <3>1 DEF LoginRefused
    <2> QED
      BY <2>1, <2>2
  <1>3. SeatTypeOK' /\ \A k \in Machines : login'[k] = IF k = m THEN r ELSE login[k]
    <2>1. /\ sub' \in [Subs -> SubType] /\ holder' \in [Subs -> Machines \cup {Nobody}]
          /\ seat' \in [Subs -> [Machines -> Rows]]
      BY <1>1 DEF SeatInv, SeatTypeOK
    <2> QED
      BY <1>1, <1>2, <2>1, LoginTyped
  <1>4. LockHeld'
    BY <1>1, <1>2, <1>3 DEF SeatInv, LockHeld, Locked
  <1>5. RoomKept'
    <2> SUFFICES ASSUME besides = "nothing", NEW k \in Machines, login'[k].at = "first"
                 PROVE  /\ sub'[login'[k].sub].row = "live"
                        /\ Cardinality(Seated(login[k].sub)') < sub'[login'[k].sub].max
      BY <1>1 DEF RoomKept
    <2>1. k # m /\ login'[k] = login[k]
      BY <1>2, <1>3
    <2>2. login[k].sub \in Subs
      BY <2>1 DEF SeatInv, SeatTypeOK
    <2> QED
      BY <1>1, <2>1, <2>2, RoomStays
  <1>6. NoReports'
    BY <1>1 DEF SeatInv, NoReports
  <1> QED
    BY <1>3, <1>4, <1>5, <1>6 DEF SeatInv

\* A login saves its old copy, of a row that is not locked.
LEMMA LoginExpiresKeeps ==
    ASSUME SeatInv, NEW m \in Machines, LoginExpires(m)
    PROVE  /\ SeatInv' /\ login'[m].at = "idle" /\ login[m].sub \in Subs
           /\ \A t \in Subs : t # login[m].sub => sub'[t] = sub[t]
           /\ sub'[login[m].sub].expire = login[m].copy.expire
  <1> DEFINE s == login[m].sub  copy == [login[m].copy EXCEPT !.status = "expired"]
  <1>1. /\ UNCHANGED <<day, report, besides, holder, seat, admin>> /\ login[m].at = "expire"
        /\ SaveSub(s, copy) /\ login' = [login EXCEPT ![m] = NoLogin]
    BY DEF LoginExpires, SubsOnly
  <1>2. s \in Subs /\ login[m].copy \in SubType
    BY <1>1 DEF SeatInv, SeatTypeOK, LoginType
  <1>3. copy \in SubType /\ copy.expire = login[m].copy.expire
    BY <1>2 DEF SubType, Statuses
  <1> HIDE DEF copy
  <1>4. /\ sub' \in [Subs -> SubType] /\ sub'[s] = [copy EXCEPT !.row = "live"]
        /\ \A t \in Subs : ~Unlocked(t) => sub'[t] = sub[t]
    BY <1>1, <1>2, <1>3, SaveSubTyped
  <1>5. sub'[s].row = "live" /\ sub'[s].expire = copy.expire
    BY <1>3, <1>4 DEF SubType
  <1>6. \A t \in Subs : t # s => sub'[t] = sub[t]
    BY <1>1, <1>2 DEF SaveSub, SeatInv, SeatTypeOK
  <1>7. NoLogin \in LoginType /\ NoLogin.at = "idle"
    BY RowFacts DEF NoLogin
  <1>8. SeatTypeOK' /\ \A k \in Machines : login'[k] = IF k = m THEN NoLogin ELSE login[k]
    <2>1. holder' \in [Subs -> Machines \cup {Nobody}] /\ seat' \in [Subs -> [Machines -> Rows]]
      BY <1>1 DEF SeatInv, SeatTypeOK
    <2> QED
      BY ZenonT(60), <1>1, <1>4, <1>7, <2>1, LoginTyped
  <1>9. LockHeld'
    BY <1>1, <1>7, <1>8 DEF SeatInv, LockHeld, Locked
  <1>10. RoomKept'
    <2> SUFFICES ASSUME besides = "nothing", NEW k \in Machines, login'[k].at = "first"
                 PROVE  /\ sub'[login'[k].sub].row = "live"
                        /\ Cardinality(Seated(login[k].sub)') < sub'[login'[k].sub].max
      BY <1>1 DEF RoomKept
    <2>1. k # m /\ login'[k] = login[k]
      BY <1>7, <1>8
    <2>2. login[k].sub \in Subs /\ ~Unlocked(login[k].sub)
      BY <2>1, SubscriptionsAssumption DEF SeatInv, SeatTypeOK, LockHeld, Locked, Unlocked
    <2>3. sub'[login[k].sub] = sub[login[k].sub]
      BY <1>4, <2>2
    <2> QED
      BY <1>1, <2>1, <2>2, <2>3, RoomStays
  <1>11. NoReports'
    BY <1>1 DEF SeatInv, NoReports
  <1> QED
    BY <1>2, <1>3, <1>5, <1>6, <1>7, <1>8, <1>9, <1>10, <1>11 DEF SeatInv

\* A login takes the lock and finds its device bound, or room for it.
LEMMA LoginCountsKeeps ==
    ASSUME SeatInv, NEW m \in Machines, LoginCounts(m)
    PROVE  SeatInv'
  <1> DEFINE s  == login[m].sub
             at == IF seat[s][m] = "live" THEN "again" ELSE "first"
             r  == [login[m] EXCEPT !.at = at]
  <1>1. /\ UNCHANGED <<day, report, besides, sub, seat, admin>> /\ login[m].at = "bind"
        /\ Unlocked(s) /\ sub[s].row = "live"
        /\ seat[s][m] = "live" \/ Cardinality(Seated(s)) < sub[s].max
        /\ holder' = [holder EXCEPT ![s] = m] /\ login' = [login EXCEPT ![m] = r]
    BY DEF LoginCounts, SubsOnly
  <1>2. s \in Subs /\ login[m] \in LoginType
    BY <1>1 DEF SeatInv, SeatTypeOK
  <1>3. at \in {"again", "first"} /\ (at = "first" => seat[s][m] # "live")
    OBVIOUS
  <1> HIDE DEF at
  <1>4. r \in LoginType /\ r.at = at /\ r.sub = s
    BY <1>2, <1>3 DEF LoginType
  <1> HIDE DEF r
  <1>5. holder' \in [Subs -> Machines \cup {Nobody}]
    BY <1>1 DEF SeatInv, SeatTypeOK
  <1>6. SeatTypeOK' /\ \A k \in Machines : login'[k] = IF k = m THEN r ELSE login[k]
    <2>1. sub' \in [Subs -> SubType] /\ seat' \in [Subs -> [Machines -> Rows]]
      BY <1>1 DEF SeatInv, SeatTypeOK
    <2> QED
      BY ZenonT(60), <1>1, <1>2, <1>4, <1>5, <2>1, LoginTyped
  <1>7. LockHeld'
    <2> SUFFICES ASSUME NEW k \in Machines, login'[k].at \in {"first", "again"}
                 PROVE  holder'[login'[k].sub] = k
      BY DEF LockHeld, Locked
    <2>1. CASE k = m
      BY <1>1, <1>2, <1>4, <1>6, <2>1 DEF SeatInv, SeatTypeOK
    <2>2. CASE k # m
      <3>1. login'[k] = login[k] /\ holder[login[k].sub] = k
        BY <1>6, <2>2 DEF SeatInv, LockHeld, Locked
      <3>2. login[k].sub # s
        BY <1>1, <3>1, SubscriptionsAssumption DEF Unlocked
      <3>3. login[k].sub \in Subs
        BY <3>1 DEF SeatInv, SeatTypeOK
      <3> QED
        BY <1>1, <3>1, <3>2, <3>3 DEF SeatInv, SeatTypeOK
    <2> QED
      BY <2>1, <2>2
  <1>8. RoomKept'
    <2> SUFFICES ASSUME besides = "nothing", NEW k \in Machines, login'[k].at = "first"
                 PROVE  /\ sub'[login'[k].sub].row = "live"
                        /\ Cardinality(Seated(login[k].sub)') < sub'[login'[k].sub].max
      BY <1>1 DEF RoomKept
    <2>1. CASE k = m
      <3>1. login'[k] = r /\ r.sub = s
        BY <1>4, <1>6, <2>1
      <3>2. Seated(login[k].sub)' = Seated(s)
        BY <1>1, <3>1 DEF Seated
      <3>3. Cardinality(Seated(s)) < sub[s].max
        BY <1>1, <1>3, <1>4, <2>1, <3>1
      <3> QED
        BY <1>1, <3>1, <3>2, <3>3
    <2>2. CASE k # m
      <3>1. login'[k] = login[k] /\ login[k].sub \in Subs
        BY <1>6, <2>2 DEF SeatInv, SeatTypeOK
      <3> QED
        BY <1>1, <3>1, RoomStays
    <2> QED
      BY <2>1, <2>2
  <1>9. NoReports'
    BY <1>1 DEF SeatInv, NoReports
  <1> QED
    BY <1>6, <1>7, <1>8, <1>9 DEF SeatInv

\* A login binds its device to the subscription it holds, or fails, and lets go of the lock.
LEMMA LoginCommitsKeeps ==
    ASSUME SeatInv, NEW m \in Machines, LoginCommits(m)
    PROVE  /\ SeatInv' /\ sub' = sub /\ login[m].sub \in Subs
           /\ \A t \in Subs, k \in Machines :
                 t # login[m].sub \/ k # m => seat'[t][k] = seat[t][k]
  <1> DEFINE s == login[m].sub
  <1>1. /\ UNCHANGED <<day, report, besides, sub, admin>> /\ Locked(m)
        /\ seat' = [seat EXCEPT ![s][m] = "live"] \/ seat' = seat
        /\ holder' = [holder EXCEPT ![s] = IF @ = m THEN Nobody ELSE @]
        /\ login' = [login EXCEPT ![m] = NoLogin]
    BY DEF LoginCommits, SubsOnly
  <1>2. s \in Subs /\ holder[s] = m
    BY <1>1 DEF SeatInv, SeatTypeOK, LockHeld, Locked
  <1>3. NoLogin \in LoginType /\ NoLogin.at = "idle"
    BY RowFacts DEF NoLogin
  <1>4. holder' \in [Subs -> Machines \cup {Nobody}] /\ \A t \in Subs : t # s => holder'[t] = holder[t]
    BY <1>1, <1>2 DEF SeatInv, SeatTypeOK
  <1>5. /\ seat' \in [Subs -> [Machines -> Rows]]
        /\ \A t \in Subs, k \in Machines : t # s \/ k # m => seat'[t][k] = seat[t][k]
    <2>1. seat \in [Subs -> [Machines -> Rows]]
      BY DEF SeatInv, SeatTypeOK
    <2> HIDE DEF s
    <2>2. CASE seat' = [seat EXCEPT ![s][m] = "live"]
      <3>1. seat' = [seat EXCEPT ![s] = [seat[s] EXCEPT ![m] = "live"]]
        BY <2>2
      <3>2. [seat[s] EXCEPT ![m] = "live"] \in [Machines -> Rows]
        BY <1>2, <2>1 DEF Rows
      <3>3. seat' \in [Subs -> [Machines -> Rows]]
        BY <1>2, <2>1, <3>1, <3>2
      <3>4. \A t \in Subs, k \in Machines : t # s \/ k # m => seat'[t][k] = seat[t][k]
        BY <1>2, <2>1, <3>1
      <3> QED
        BY <3>3, <3>4
    <2>3. CASE seat' = seat
      BY <2>1, <2>3
    <2> QED
      BY <1>1, <2>2, <2>3
  <1>6. SeatTypeOK' /\ \A k \in Machines : login'[k] = IF k = m THEN NoLogin ELSE login[k]
    <2>1. sub' \in [Subs -> SubType] /\ UNCHANGED day
      BY <1>1 DEF SeatInv, SeatTypeOK
    <2>2. login' = [login EXCEPT ![m] = NoLogin] /\ NoLogin \in LoginType /\ NoLogin.at = "idle"
      BY <1>1, <1>3
    <2>3. /\ holder' \in [Subs -> Machines \cup {Nobody}]
          /\ seat' \in [Subs -> [Machines -> Rows]]
      BY <1>4, <1>5
    <2> HIDE DEF s
    <2> QED
      BY <2>1, <2>2, <2>3, LoginTyped
  <1>7. \A k \in Machines : login'[k].at \in {"first", "again"} =>
           /\ login'[k] = login[k] /\ holder[login[k].sub] = k
           /\ login[k].sub \in Subs /\ login[k].sub # s
    BY <1>2, <1>3, <1>6 DEF SeatInv, SeatTypeOK, LockHeld, Locked
  <1>8. LockHeld'
    BY <1>4, <1>7 DEF LockHeld, Locked
  <1>9. RoomKept'
    <2> SUFFICES ASSUME besides = "nothing", NEW k \in Machines, login'[k].at = "first"
                 PROVE  /\ sub'[login'[k].sub].row = "live"
                        /\ Cardinality(Seated(login[k].sub)') < sub'[login'[k].sub].max
      BY <1>1 DEF RoomKept
    <2>1. login'[k] = login[k] /\ login[k].sub \in Subs /\ login[k].sub # s
      BY <1>7
    <2>2. \A j \in Machines : seat'[login[k].sub][j] = seat[login[k].sub][j]
      BY <1>5, <2>1
    <2> QED
      BY <1>1, <2>1, <2>2, RoomStays
  <1>10. NoReports'
    BY <1>1 DEF SeatInv, NoReports
  <1> QED
    BY <1>1, <1>2, <1>5, <1>6, <1>8, <1>9, <1>10 DEF SeatInv

LEMMA SeatInit ==
    ASSUME SubscriptionsInit
    PROVE  SubscriptionInv
  <1>1. NoSub \in SubType /\ NoLogin \in LoginType /\ NoLogin.at = "idle"
    BY RowFacts DEF NoLogin
  <1>2. login = [m \in Machines |-> NoLogin] /\ report = [m \in Machines |-> NoLogin]
    BY DEF SubscriptionsInit
  <1>3. SeatTypeOK
    BY <1>1 DEF SubscriptionsInit, SeatTypeOK, Rows
  <1>4. LockHeld /\ RoomKept /\ NoReports
    BY <1>1, <1>2 DEF LockHeld, Locked, RoomKept, NoReports
  <1>5. PeopleOK
    <2>1. NobodyYet \in CustomerType
      BY DEF NobodyYet, CustomerType, Rows
    <2>2. NoRequest \in RequestType /\ NoRequest.op = "idle"
      BY RequestFacts
    <2>3. /\ customer = NobodyYet /\ account = [op |-> "idle", who |-> NobodyYet]
          /\ admin = [a \in Admins |-> NoRequest]
      BY DEF SubscriptionsInit
    <2> QED
      BY <2>1, <2>2, <2>3 DEF PeopleOK
  <1> QED
    BY <1>3, <1>4, <1>5 DEF SeatInv, SubscriptionInv

\* A request that reads a row, and one that ends.
LEMMA RequestSteps ==
    ASSUME PeopleOK, NEW a \in Admins,
           customer' \in CustomerType,
           account' \in [op : {"idle", "password"}, who : CustomerType],
           \/ End(a)
           \/ \E r \in RequestType :
                 /\ Begin_(a, r)
                 /\ r.op \in {"renew", "cancel"} => r.sub \in Subs /\ r.copy.row = "live"
    PROVE  PeopleOK'
  <1>1. PICK r \in RequestType :
           /\ admin' = [admin EXCEPT ![a] = r]
           /\ r.op \in {"renew", "cancel"} => r.sub \in Subs /\ r.copy.row = "live"
    BY RequestFacts DEF End, Begin_
  <1>2. admin' \in [Admins -> RequestType] /\ admin'[a] = r
    BY <1>1 DEF PeopleOK
  <1>3. \A b \in Admins : b # a => admin'[b] = admin[b]
    BY <1>1 DEF PeopleOK
  <1>4. ASSUME NEW b \in Admins, admin'[b].op \in {"renew", "cancel"}
        PROVE  admin'[b].sub \in Subs /\ admin'[b].copy.row = "live"
    <2>1. CASE b = a
      BY <1>1, <1>2, <1>4, <2>1
    <2>2. CASE b # a
      BY SMTT(40), <1>3, <1>4, <2>2 DEF PeopleOK
    <2> QED
      BY <2>1, <2>2
  <1> QED
    BY <1>2, <1>4 DEF PeopleOK

\* What is known of the customer, and of the copies of him and of subscriptions.
LEMMA PeopleStep ==
    ASSUME SubscriptionInv, [SubscriptionsNext]_subscriptionVars
    PROVE  PeopleOK'
  <1>1. PeopleOK /\ SeatTypeOK
    BY DEF SubscriptionInv, SeatInv
  <1>2. ASSUME UNCHANGED <<account, admin>>, customer' \in CustomerType
        PROVE  PeopleOK'
    BY <1>1, <1>2 DEF PeopleOK
  <1>3. CASE UNCHANGED <<customer, account, admin>>
    BY <1>1, <1>3 DEF PeopleOK
  <1>4. CASE CreateCustomer \/ DeleteCustomer \/ \E status \in {"active", "disabled"} : UpdateCustomer(status)
    <2>1. UNCHANGED <<account, admin>>
      BY <1>4 DEF CreateCustomer, DeleteCustomer, UpdateCustomer
    <2>2. customer' \in CustomerType
      BY <1>1, <1>4 DEF CreateCustomer, DeleteCustomer, UpdateCustomer, PeopleOK, CustomerType, Rows
    <2> QED
      BY <1>2, <2>1, <2>2
  <1>5. ASSUME NEW s \in Subs, ClientRegister(s)
        PROVE  PeopleOK'
    <2>1. UNCHANGED <<account, admin>> /\ customer' = [row |-> "live", status |-> "active"]
      BY <1>5 DEF ClientRegister
    <2>2. customer' \in CustomerType
      BY <2>1 DEF CustomerType, Rows
    <2> QED
      BY <1>2, <2>1, <2>2
  <1>6. CASE PasswordStep
    <2>1. admin' = admin
      BY <1>6 DEF PasswordStep
    <2>2. NobodyYet \in CustomerType
      BY DEF NobodyYet, CustomerType, Rows
    <2>3. customer' \in CustomerType /\ account' \in [op : {"idle", "password"}, who : CustomerType]
      BY <1>1, <1>6, <2>2 DEF PasswordStep, ClientChangePassword, PeopleOK
    <2> QED
      BY <1>1, <2>1, <2>3 DEF PeopleOK
  <1>7. ASSUME NEW a \in Admins, NEW op \in {"disable", "enable", "reset"}, ReadCustomer(a, op)
        PROVE  PeopleOK'
    <2> DEFINE r == [NoRequest EXCEPT !.op = op, !.who = customer]
    <2>1. Begin_(a, r) /\ UNCHANGED <<customer, account>>
      BY <1>7 DEF ReadCustomer
    <2>2. r \in RequestType /\ r.op = op
      <3>1. customer \in CustomerType
        BY <1>1 DEF PeopleOK
      <3> QED
        BY <3>1, RequestFacts DEF RequestType
    <2> HIDE DEF r
    <2> QED
      BY <1>1, <2>1, <2>2, RequestSteps DEF PeopleOK
  <1>8. ASSUME NEW a \in Admins, NEW op \in {"disable", "enable", "reset"}, SaveCustomer(a, op)
        PROVE  PeopleOK'
    <2>1. End(a) /\ account' = account
      BY <1>8 DEF SaveCustomer
    <2>2. admin[a].who \in CustomerType
      BY <1>1 DEF PeopleOK, RequestType
    <2>3. customer' \in CustomerType
      <3>1. PICK st : customer' = [admin[a].who EXCEPT !.status = st]
                      /\ st \in {"active", "disabled"}
        BY <1>8, <2>2 DEF SaveCustomer, CustomerType
      <3> QED
        BY <2>2, <3>1 DEF CustomerType
    <2> QED
      BY <1>1, <2>1, <2>3, RequestSteps DEF PeopleOK
  <1>9. ASSUME NEW a \in Admins, NEW s \in Subs, NEW op \in {"renew", "cancel"},
               ReadSubscription(a, op, s)
        PROVE  PeopleOK'
    <2> DEFINE r == [NoRequest EXCEPT !.op = op, !.sub = s, !.copy = sub[s]]
    <2>1. Begin_(a, r) /\ UNCHANGED <<customer, account>> /\ sub[s].row = "live"
      BY <1>9 DEF ReadSubscription
    <2>2. r \in RequestType /\ r.op = op /\ r.sub = s /\ r.copy = sub[s]
      <3>1. sub[s] \in SubType /\ s \in SubIds
        BY <1>1 DEF SeatTypeOK, SubIds
      <3> QED
        BY <3>1, RequestFacts DEF RequestType
    <2> HIDE DEF r
    <2> QED
      BY <1>1, <2>1, <2>2, RequestSteps DEF PeopleOK
  <1>10. ASSUME NEW a \in Admins, Renew(a) \/ Cancel(a)
         PROVE  PeopleOK'
    <2>1. End(a) /\ UNCHANGED <<customer, account>>
      BY <1>10 DEF Renew, Cancel
    <2> QED
      BY <1>1, <2>1, RequestSteps DEF PeopleOK
  <1> QED
    BY <1>3, <1>4, <1>5, <1>6, <1>7, <1>8, <1>9, <1>10
    DEF subscriptionVars, SubscriptionsNext, DayPasses, LoginReads, LoginExpires, LoginCounts,
        LoginRefused, LoginCommits, SubsOnly, BeginReport, ReportSaves, CreateSubscription,
        UpdateSubscription, DeleteSubscription, UnbindDevice

\* What a login has found under the lock stays so until it writes, however many machines log
\* in and administrators edit at once; and what an administrator saves is a row that was not
\* deleted when it was read (client.go, ClientLogin; subscription.go, Renew and Cancel).
THEOREM SeatInvariant == SubscriptionsSpec => []SubscriptionInv
  <1>1. SubscriptionInv /\ [SubscriptionsNext]_subscriptionVars => SubscriptionInv'
    <2> SUFFICES ASSUME SubscriptionInv, [SubscriptionsNext]_subscriptionVars
                 PROVE  SeatInv'
      BY PeopleStep DEF SubscriptionInv
    <2>i. SeatInv
      BY DEF SubscriptionInv
    <2>1. CASE UNCHANGED subscriptionVars
      <3>1. UNCHANGED <<login, holder, besides, day, sub, seat, report>>
        BY <2>1 DEF subscriptionVars
      <3>2. SeatTypeOK' /\ LockHeld' /\ NoReports'
        BY <2>i, <3>1 DEF SeatInv, SeatTypeOK, LockHeld, Locked, NoReports
      <3>3. RoomKept'
        BY <2>i, <3>1 DEF SeatInv, RoomKept, Seated
      <3> QED
        BY <3>2, <3>3 DEF SeatInv
    <2>2. CASE SubscriptionsNext
      <3>1. ASSUME NEW m \in Machines,
                   \/ LoginReads(m) \/ LoginExpires(m) \/ LoginCounts(m) \/ LoginRefused(m)
                   \/ LoginCommits(m) \/ BeginReport(m) \/ ReportSaves(m)
            PROVE  SeatInv'
        BY <2>i, <3>1, LoginWithoutWriteKeeps, LoginExpiresKeeps, LoginCountsKeeps, LoginCommitsKeeps,
           DeviceStepKeeps
      <3>2. ASSUME NEW s \in Subs,
                   \/ ClientRegister(s) \/ CreateSubscription(s) \/ UpdateSubscription(s)
                   \/ DeleteSubscription(s)
                   \/ \E m \in Machines : UnbindDevice(s, m)
            PROVE  SeatInv'
        BY <2>i, <3>2, SubscriptionStepKeeps, DeletionKeeps, DeviceStepKeeps
      <3>3. ASSUME NEW a \in Admins,
                   \/ Renew(a) \/ Cancel(a)
                   \/ \E op \in {"disable", "enable", "reset"} : ReadCustomer(a, op) \/ SaveCustomer(a, op)
                   \/ \E op \in {"renew", "cancel"}, s \in Subs : ReadSubscription(a, op, s)
            PROVE  SeatInv'
        BY <2>i, <3>3, EditKeeps, CustomerStepKeeps, ReadSubscriptionKeeps
      <3> QED
        BY <2>2, <2>i, <3>1, <3>2, <3>3, CustomerStepKeeps, DeletionKeeps DEF SubscriptionsNext
    <2> QED
      BY <2>1, <2>2
  <1> QED
    BY <1>1, SeatInit, PTL DEF SubscriptionsSpec

\* Only a login binds a device that was not, where nobody reports: under the lock, and into
\* the room it has found.
LEMMA SeatsStep ==
    ASSUME SeatInv, [SubscriptionsNext]_subscriptionVars,
           NEW m \in Machines, NEW s \in Subs,
           besides = "nothing", login[m].at = "first", login[m].sub = s,
           seat'[s][m] = "live", seat[s][m] # "live"
    PROVE  Cardinality(Seated(s)') <= sub'[s].max
  <1>1. PICK k \in Machines : LoginCommits(k)
    <2>1. \E k \in Machines : ReportSaves(k) \/ LoginCommits(k)
      <3>1. ~UNCHANGED seat
        OBVIOUS
      <3>2. ASSUME DeleteCustomer
            PROVE  FALSE
        BY <3>2 DEF DeleteCustomer
      <3>3. ASSUME NEW t \in Subs, DeleteSubscription(t)
            PROVE  FALSE
        BY <3>3 DEF DeleteSubscription, SeatInv, SeatTypeOK
      <3>4. ASSUME NEW t \in Subs, NEW k \in Machines, UnbindDevice(t, k)
            PROVE  FALSE
        BY <3>4 DEF UnbindDevice, SeatInv, SeatTypeOK
      <3> QED
        BY <3>1, <3>2, <3>3, <3>4
        DEF subscriptionVars, SubscriptionsNext, CreateCustomer, PasswordStep, DayPasses, Renew,
            Cancel, ReadCustomer, SaveCustomer, UpdateCustomer, LoginReads, LoginExpires,
            LoginCounts, LoginRefused, BeginReport, ClientRegister, CreateSubscription,
            UpdateSubscription, ReadSubscription
    <2>2. ASSUME NEW k \in Machines, ReportSaves(k)
          PROVE  FALSE
      BY <2>2 DEF ReportSaves, SeatInv, NoReports
    <2> QED
      BY SMTT(40), <2>1, <2>2
  <1>2. /\ sub' = sub
        /\ \A t \in Subs, j \in Machines :
              t # login[k].sub \/ j # k => seat'[t][j] = seat[t][j]
    BY <1>1, LoginCommitsKeeps
  <1>3. Cardinality(Seated(s)) < sub[s].max
    BY DEF SeatInv, RoomKept
  <1>4. Seated(s)' = Seated(s) \cup {m}
    BY <1>2 DEF Seated
  <1>5. IsFiniteSet(Seated(s)) /\ Cardinality(Seated(s)) \in Nat /\ m \notin Seated(s)
    BY SeatedFinite DEF Seated
  <1>6. Cardinality(Seated(s)') = Cardinality(Seated(s)) + 1
    BY ZenonT(60), <1>4, <1>5, FS_AddElement
  <1>7. sub[s].max \in Nat
    BY DEF SeatInv, SeatTypeOK, SubType
  <1> QED
    BY <1>2, <1>3, <1>5, <1>6, <1>7

\* However many machines log in at once, and whatever is changed, cancelled or unbound
\* meanwhile, a new device is bound only where there is a seat (client.go, ClientLogin).
THEOREM SeatsWithinLimitAlways == SubscriptionsSpec => SeatsWithinLimit
  <1>1. SubscriptionInv /\ [SubscriptionsNext]_subscriptionVars =>
           [\A m \in Machines, s \in Subs :
               /\ besides = "nothing" /\ login[m].at = "first" /\ login[m].sub = s
               /\ seat'[s][m] = "live" /\ seat[s][m] # "live"
               => Cardinality(Seated(s)') <= sub'[s].max]_subscriptionVars
    BY SeatsStep DEF SubscriptionInv
  <1> QED
    BY <1>1, SeatInvariant, PTL DEF SubscriptionsSpec, SeatsWithinLimit

\* A running subscription is shortened, and a deleted one revived, only by the old copy of a
\* login, or of a renewal or cancellation that another request has overtaken.
LEMMA SubscriptionUndone ==
    ASSUME SubscriptionInv, [SubscriptionsNext]_subscriptionVars, NEW s \in Subs,
           \/ /\ sub[s].row = "live" /\ day <= sub[s].expire /\ sub[s].expire # Never
              /\ sub'[s].expire < sub[s].expire
           \/ sub[s].row = "deleted" /\ sub'[s].row = "live"
    PROVE  \/ \E m \in Machines : /\ login[m].at = "expire" /\ login'[m].at = "idle"
                                  /\ sub'[s].expire = login[m].copy.expire
           \/ \E a \in Admins : /\ admin[a].op \in {"renew", "cancel"} /\ admin'[a] = NoRequest
                                /\ admin[a].sub = s /\ admin[a].copy # sub[s]
  <1>i. SeatInv
    BY DEF SubscriptionInv
  <1>1. sub[s] \in SubType /\ sub[s].expire \in Nat /\ day \in Nat
    BY <1>i DEF SeatInv, SeatTypeOK, SubType
  <1>2. sub'[s] # sub[s]
    BY <1>1
  <1>3. CASE \E m \in Machines : LoginExpires(m)
    <2>1. PICK m \in Machines : LoginExpires(m)
      BY <1>3
    <2>2. login[m].sub = s
      BY <1>i, <1>2, <2>1, LoginExpiresKeeps
    <2> QED
      BY <1>i, <2>1, <2>2, LoginExpiresKeeps DEF LoginExpires
  <1>4. CASE \E a \in Admins : Renew(a) \/ Cancel(a)
    <2>1. PICK a \in Admins : Renew(a) \/ Cancel(a)
      BY <1>4
    <2>2. /\ admin[a].sub = s /\ admin'[a] = NoRequest /\ admin[a].copy.row = "live"
          /\ sub'[s].expire = IF Renew(a) THEN Later(admin[a].copy.expire) ELSE admin[a].copy.expire
      BY <1>2, <2>1, EditKeeps
    <2>3. admin[a].copy # sub[s]
      <3> SUFFICES ASSUME admin[a].copy = sub[s]
                   PROVE  FALSE
        OBVIOUS
      <3>1. day <= sub[s].expire /\ sub[s].expire # Never /\ sub'[s].expire < sub[s].expire
        BY <2>2
      <3>2. Later(sub[s].expire) \in Nat /\ sub[s].expire <= Later(sub[s].expire)
        BY <1>1, <3>1, LaterIsLater
      <3> QED
        BY <1>1, <2>2, <3>1, <3>2
    <2> QED
      BY <2>1, <2>2, <2>3 DEF Renew, Cancel
  <1>5. ASSUME DeleteCustomer \/ \E t \in Subs : DeleteSubscription(t)
        PROVE  FALSE
    <2>1. /\ sub'[s].expire = sub[s].expire
          /\ sub[s].row = "deleted" => sub'[s] = sub[s]
      <3>1. [sub[s] EXCEPT !.row = "deleted"].expire = sub[s].expire
        BY <1>1 DEF SubType
      <3>2. \/ sub'[s] = sub[s]
            \/ sub[s].row = "live" /\ sub'[s] = [sub[s] EXCEPT !.row = "deleted"]
        <4>1. CASE DeleteCustomer
          BY <4>1 DEF DeleteCustomer
        <4>2. ASSUME NEW t \in Subs, DeleteSubscription(t)
              PROVE  \/ sub'[s] = sub[s]
                     \/ sub[s].row = "live" /\ sub'[s] = [sub[s] EXCEPT !.row = "deleted"]
          <5>1. sub' = [sub EXCEPT ![t] = [sub[t] EXCEPT !.row = "deleted"]] /\ sub[t].row = "live"
            BY <4>2 DEF DeleteSubscription
          <5> QED
            BY <1>i, <5>1 DEF SeatInv, SeatTypeOK
        <4> QED
          BY <1>5, <4>1, <4>2
      <3> QED
        BY <3>1, <3>2
    <2> QED
      BY <1>1, <2>1
  <1>6. ASSUME NEW t \in Subs, UpdateSubscription(t)
        PROVE  FALSE
    <2>1. /\ sub'[s].expire = sub[s].expire
          /\ sub[s].row = "deleted" => sub'[s] = sub[s]
      <3>1. sub[t].row = "live"
        BY <1>6 DEF UpdateSubscription
      <3>2. CASE \E n \in SeatLimits : sub' = [sub EXCEPT ![t].max = n]
        <4>1. PICK n \in SeatLimits : sub' = [sub EXCEPT ![t] = [sub[t] EXCEPT !.max = n]]
          BY <3>2
        <4>2. [sub[s] EXCEPT !.max = n].expire = sub[s].expire
          BY <1>1 DEF SubType
        <4> QED
          BY <1>i, <3>1, <4>1, <4>2 DEF SeatInv, SeatTypeOK
      <3>3. CASE \E st \in {"active", "suspended"} : sub' = [sub EXCEPT ![t].status = st]
        <4>1. PICK st \in {"active", "suspended"} :
                 sub' = [sub EXCEPT ![t] = [sub[t] EXCEPT !.status = st]]
          BY <3>3
        <4>2. [sub[s] EXCEPT !.status = st].expire = sub[s].expire
          BY <1>1 DEF SubType
        <4> QED
          BY <1>i, <3>1, <4>1, <4>2 DEF SeatInv, SeatTypeOK
      <3> QED
        BY <1>6, <3>2, <3>3 DEF UpdateSubscription
    <2> QED
      BY <1>1, <2>1
  <1>7. ASSUME NEW t \in Subs, ClientRegister(t) \/ CreateSubscription(t)
        PROVE  FALSE
    <2>1. t # s => sub'[s] = sub[s]
      BY <1>i, <1>7 DEF ClientRegister, CreateSubscription, SeatInv, SeatTypeOK
    <2>2. sub[t].row = "none"
      BY <1>7 DEF ClientRegister, CreateSubscription
    <2> QED
      BY <1>2, <2>1, <2>2
  <1> QED
    BY <1>2, <1>3, <1>4, <1>5, <1>6, <1>7
    DEF subscriptionVars, SubscriptionsNext, CreateCustomer, PasswordStep, DayPasses,
        ReadCustomer, SaveCustomer, UpdateCustomer, LoginReads, LoginCounts, LoginRefused,
        LoginCommits, SubsOnly, BeginReport, ReportSaves, ReadSubscription, UnbindDevice

\* A customer is let in again only by an administrator who decides so, or by an old copy.
LEMMA CustomerUndone ==
    ASSUME SubscriptionInv, [SubscriptionsNext]_subscriptionVars,
           \/ customer.status = "disabled" /\ customer'.status = "active"
           \/ customer.row = "deleted" /\ customer'.row = "live"
    PROVE  \/ UNCHANGED <<account, admin>>
           \/ account.op = "password" /\ account'.op = "idle" /\ account.who # customer
           \/ \E a \in Admins : /\ admin[a].op \in {"disable", "enable", "reset"}
                                /\ admin'[a] = NoRequest
                                /\ admin[a].op = "enable" \/ admin[a].who # customer
  <1>1. customer' # customer
    OBVIOUS
  <1>2. customer \in CustomerType /\ admin \in [Admins -> RequestType]
    BY DEF SubscriptionInv, PeopleOK
  <1>3. CASE PasswordStep
    BY <1>1, <1>3 DEF PasswordStep, ClientChangePassword
  <1>4. ASSUME NEW a \in Admins, NEW op \in {"disable", "enable", "reset"}, SaveCustomer(a, op)
        PROVE  /\ admin[a].op = op /\ admin'[a] = NoRequest
               /\ op = "enable" \/ admin[a].who # customer
    <2>1. admin[a].op = op /\ admin'[a] = NoRequest
      BY <1>2, <1>4 DEF SaveCustomer, End
    <2>2. ASSUME op # "enable", admin[a].who = customer
          PROVE  FALSE
      <3>1. CASE op = "disable"
        <4>1. customer' = [customer EXCEPT !.status = "disabled"]
          BY <1>4, <2>2, <3>1 DEF SaveCustomer
        <4> QED
          BY <1>2, <4>1 DEF CustomerType
      <3>2. CASE op = "reset"
        <4>1. customer' = [customer EXCEPT !.status = customer.status]
          BY <1>4, <2>2, <3>2 DEF SaveCustomer
        <4> QED
          BY <1>2, <4>1 DEF CustomerType
      <3> QED
        BY <2>2, <3>1, <3>2
    <2> QED
      BY <2>1, <2>2
  <1>5. CASE \E a \in Admins, op \in {"disable", "enable", "reset"} : SaveCustomer(a, op)
    BY SMTT(40), <1>4, <1>5
  <1>6. CASE customer' # customer /\ ~PasswordStep
             /\ ~ \E a \in Admins, op \in {"disable", "enable", "reset"} : SaveCustomer(a, op)
    BY <1>6
    DEF subscriptionVars, SubscriptionsNext, CreateCustomer, DeleteCustomer, DayPasses, Renew,
        Cancel, ReadCustomer, UpdateCustomer, LoginReads, LoginExpires,
        LoginCounts, LoginRefused, LoginCommits, SubsOnly, BeginReport, ReportSaves,
        ClientRegister, CreateSubscription, UpdateSubscription, DeleteSubscription,
        ReadSubscription, UnbindDevice
  <1> QED
    BY <1>1, <1>3, <1>5, <1>6

\* What was made of a customer and of subscriptions is undone only by copies read before: by
\* the login of a subscription that had run out, a change of password (client.go, ClientLogin
\* and ClientChangePassword), and by administrators' requests that another one has overtaken
\* (subscription.go, customer.go), however many there are at once; no renewal shortens the
\* running subscription it has read.
THEOREM UndoneOnlyByOldCopies == SubscriptionsSpec => UndoneByOldCopies
  <1> DEFINE Step ==
        /\ \A s \in Subs :
             \/ /\ sub[s].row = "live" /\ day <= sub[s].expire /\ sub[s].expire # Never
                /\ sub'[s].expire < sub[s].expire
             \/ sub[s].row = "deleted" /\ sub'[s].row = "live"
             => \/ \E m \in Machines : /\ login[m].at = "expire" /\ login'[m].at = "idle"
                                       /\ sub'[s].expire = login[m].copy.expire
                \/ \E a \in Admins : /\ admin[a].op \in {"renew", "cancel"} /\ admin'[a] = NoRequest
                                     /\ admin[a].sub = s /\ admin[a].copy # sub[s]
        /\ \/ customer.status = "disabled" /\ customer'.status = "active"
           \/ customer.row = "deleted" /\ customer'.row = "live"
           => \/ UNCHANGED <<account, admin>>
              \/ account.op = "password" /\ account'.op = "idle" /\ account.who # customer
              \/ \E a \in Admins : /\ admin[a].op \in {"disable", "enable", "reset"}
                                   /\ admin'[a] = NoRequest
                                   /\ admin[a].op = "enable" \/ admin[a].who # customer
  <1>1. SubscriptionInv /\ [SubscriptionsNext]_subscriptionVars => [Step]_subscriptionVars
    BY SubscriptionUndone, CustomerUndone
  <1> QED
    BY <1>1, SeatInvariant, PTL DEF SubscriptionsSpec, UndoneByOldCopies

-----------------------------------------------------------------------------
(* Real-time instructions: rows, reports and who handles them.             *)

DeviceType   == [told : BOOLEAN, said : {"none"} \cup Reported, via : Connections]
HandlingType == {Resting} \cup [at : {"read", "stored"}, status : Reported]
InstructionType == [target : Devices \cup {All}, result : {"none"} \cup Final,
                    status : {"none", "pending", "sent", "expired"} \cup Reported]

InstructionsTypeOK ==
    /\ instruction \in InstructionType
    /\ results \in [Devices -> {"none"} \cup Reported]
    /\ sender \in {"create", "push", "save", "done"}
    /\ device \in [Devices -> DeviceType]
    /\ inbox \in [Devices -> [Connections -> Seq(Reported)]]
    /\ handling \in [Devices -> [Connections -> HandlingType]]

\* Before the instruction is pushed nobody has heard of it.
QuietBefore ==
    sender \in {"create", "push"} =>
        \A d \in Devices : /\ results[d] = "none" /\ ~device[d].told
                           /\ \A c \in Connections : inbox[d][c] = <<>> /\ handling[d][c] = Resting

\* Reports about another device's instruction are not taken up, and only an instruction for
\* one device gets to take over a status.
TargetHandles ==
    \A d \in Devices, c \in Connections :
        /\ handling[d][c].at # "idle" => instruction.target \in {d, All}
        /\ handling[d][c].at = "stored" => instruction.target = d

NobodyStored(d) == \A c \in Connections : handling[d][c].at # "stored"

\* What goes on of an instruction for d.  When no two connections are handled at a time, the
\* one that has stored a result is still the last that did.  When nobody is between the two
\* statements that write result and row, and nothing went wrong since, they agree.
OneWriter(d) ==
    /\ ~NobodyStored(d) \/ instruction.status \in Reported => results[d] # "none"
    /\ "crossed" \notin mixed =>
           /\ \A c, o \in Connections :
                  c # o => handling[d][c].at = "idle" \/ handling[d][o].at = "idle"
           /\ \A c \in Connections :
                  handling[d][c].at = "stored" => results[d] = handling[d][c].status
    /\ "overwritten" \notin mixed /\ "missed" \notin mixed /\ NobodyStored(d) /\ results[d] # "none"
           => instruction.status = results[d]

InstructionInv ==
    /\ InstructionsTypeOK /\ QuietBefore /\ TargetHandles
    /\ Targeted => OneWriter(instruction.target)
    /\ ~Targeted => instruction.status \notin Reported

LEMMA StatusesDiffer ==
    /\ "none" \notin Reported /\ "pending" \notin Reported /\ "sent" \notin Reported
    /\ Final \subseteq Reported /\ "acked" \in Reported /\ "acked" \notin Final
    /\ \A h \in HandlingType : /\ h.at = "idle" <=> h = Resting
                               /\ h.at \in {"idle", "read", "stored"}
                               /\ h.at # "idle" => h.status \in Reported
  BY DEF Reported, Final, HandlingType, Resting

\* Steps that only speak to devices, or do not touch rows and handling.
LEMMA TalkKeeps ==
    ASSUME InstructionInv, sender \notin {"create", "push"}, sender' \notin {"create", "push"},
           device' \in [Devices -> DeviceType],
           inbox' \in [Devices -> [Connections -> Seq(Reported)]],
           sender' \in {"create", "push", "save", "done"},
           UNCHANGED <<instruction, results, handling, mixed>>
    PROVE  InstructionInv'
  BY DEF InstructionInv, InstructionsTypeOK, QuietBefore, TargetHandles, Targeted, OneWriter,
         NobodyStored

LEMMA SendKeeps ==
    ASSUME InstructionInv, CreateInstruction \/ PushInstruction \/ SaveSent
    PROVE  InstructionInv'
  <1> USE StatusesDiffer
  <1>1. CASE CreateInstruction
    <2>1. /\ sender = "create" /\ sender' = "push"
          /\ instruction' = [instruction EXCEPT !.status = "pending"]
          /\ UNCHANGED <<results, device, inbox, handling, mixed>>
      BY <1>1 DEF CreateInstruction
    <2>2. /\ instruction' \in InstructionType /\ instruction'.status = "pending"
          /\ instruction'.target = instruction.target
      BY <2>1 DEF InstructionInv, InstructionsTypeOK, InstructionType
    <2>3. InstructionsTypeOK' /\ QuietBefore' /\ TargetHandles'
      BY <2>1, <2>2 DEF InstructionInv, InstructionsTypeOK, QuietBefore, TargetHandles
    <2>4. ASSUME NEW d \in Devices PROVE OneWriter(d)'
      BY <2>1, <2>2, <2>4 DEF InstructionInv, QuietBefore, OneWriter, NobodyStored, Resting
    <2> QED
      BY <2>2, <2>3, <2>4 DEF InstructionInv, Targeted
  <1>2. CASE PushInstruction
    <2>1. /\ sender = "push" /\ sender' \in {"save", "done"}
          /\ UNCHANGED <<instruction, results, inbox, handling, mixed>>
      BY <1>2 DEF PushInstruction
    <2>2. PICK reached \in SUBSET Devices :
              device' = [d \in Devices |-> [device[d] EXCEPT !.told = d \in reached]]
      BY <1>2 DEF PushInstruction, Targeted
    <2>3. ASSUME NEW d \in Devices PROVE device'[d] \in DeviceType
      <3>1. PICK old \in DeviceType : old = device[d]
        BY DEF InstructionInv, InstructionsTypeOK
      <3>2. (d \in reached) \in BOOLEAN
        OBVIOUS
      <3>3. device'[d] = [old EXCEPT !.told = d \in reached]
        BY <2>2, <3>1
      <3>4. \A b \in BOOLEAN : [old EXCEPT !.told = b] \in DeviceType
        BY <3>1 DEF DeviceType
      <3> QED
        BY <3>2, <3>3, <3>4, Zenon
    <2>4. device' \in [Devices -> DeviceType]
      BY <2>2, <2>3
    <2> QED
      BY <2>1, <2>4
      DEF InstructionInv, InstructionsTypeOK, QuietBefore, TargetHandles, Targeted, OneWriter,
          NobodyStored
  <1>3. CASE SaveSent
    <2>1. /\ sender = "save" /\ sender' = "done"
          /\ UNCHANGED <<results, device, inbox, handling>>
      BY <1>3 DEF SaveSent
    <2>2. CASE UNCHANGED <<instruction, mixed>>
      BY <2>1, <2>2, TalkKeeps DEF InstructionInv, InstructionsTypeOK
    <2>3. CASE /\ instruction' = [instruction EXCEPT !.status = "sent", !.result = "none"]
               /\ mixed' = IF instruction.status \in Reported
                           THEN mixed \cup {"overwritten"} ELSE mixed
      <3>1. /\ instruction' \in InstructionType /\ instruction'.status = "sent"
            /\ instruction'.target = instruction.target
        BY <2>3 DEF InstructionInv, InstructionsTypeOK, InstructionType
      <3>2. InstructionsTypeOK' /\ QuietBefore' /\ TargetHandles'
        BY <2>1, <3>1 DEF InstructionInv, InstructionsTypeOK, QuietBefore, TargetHandles
      <3>3. ASSUME NEW d \in Devices, d = instruction.target PROVE OneWriter(d)'
        <4>1. OneWriter(d)
          BY <3>3 DEF InstructionInv, Targeted
        <4>2. instruction.status \in Reported => "overwritten" \in mixed'
          BY <2>3
        <4>3. /\ "crossed" \in mixed' <=> "crossed" \in mixed
              /\ "missed" \in mixed' <=> "missed" \in mixed
              /\ "overwritten" \in mixed => "overwritten" \in mixed'
          BY <2>3
        <4>4. results[d] \in {"none"} \cup Reported
          BY DEF InstructionInv, InstructionsTypeOK
        <4> QED
          BY <2>1, <3>1, <4>1, <4>2, <4>3, <4>4 DEF OneWriter, NobodyStored
      <3>4. Targeted => OneWriter(instruction.target)'
        BY <3>1, <3>3 DEF Targeted, OneWriter, NobodyStored
      <3> QED
        BY <3>1, <3>2, <3>4 DEF InstructionInv, Targeted
    <2> QED
      BY <1>3, <2>2, <2>3 DEF SaveSent
  <1> QED
    BY <1>1, <1>2, <1>3

LEMMA ReportKeeps ==
    ASSUME InstructionInv, NEW d \in Devices, Report(d)
    PROVE  InstructionInv'
  <1>1. PICK old \in DeviceType : old = device[d]
    BY DEF InstructionInv, InstructionsTypeOK
  <1>2. old.told /\ old.via \in Connections /\ sender \notin {"create", "push"}
    BY <1>1 DEF Report, InstructionInv, QuietBefore, DeviceType
  <1>3. PICK s \in Reported : /\ device' = [device EXCEPT ![d].said = s]
                              /\ inbox' = [inbox EXCEPT ![d][old.via] = Append(@, s)]
    BY <1>1, StatusesDiffer DEF Report
  <1>4. device' = [device EXCEPT ![d] = [old EXCEPT !.said = s]]
    BY <1>1, <1>3 DEF InstructionInv, InstructionsTypeOK
  <1>5. [old EXCEPT !.said = s] \in DeviceType
    BY <1>1, <1>3 DEF DeviceType
  <1>6. device' \in [Devices -> DeviceType]
    BY <1>4, <1>5 DEF InstructionInv, InstructionsTypeOK
  <1>7. PICK q \in Seq(Reported) : q = inbox[d][old.via]
    BY <1>2 DEF InstructionInv, InstructionsTypeOK
  <1>8. Append(q, s) \in Seq(Reported)
    BY <1>7
  <1>9. inbox' \in [Devices -> [Connections -> Seq(Reported)]]
    BY <1>2, <1>3, <1>7, <1>8 DEF InstructionInv, InstructionsTypeOK
  <1>10. UNCHANGED <<instruction, results, handling, mixed, sender>>
    BY DEF Report
  <1> QED
    BY <1>2, <1>6, <1>9, <1>10, TalkKeeps DEF InstructionInv, InstructionsTypeOK

LEMMA ReconnectsKeeps ==
    ASSUME InstructionInv, NEW d \in Devices, Reconnects(d)
    PROVE  InstructionInv'
  <1>1. PICK old \in DeviceType : old = device[d]
    BY DEF InstructionInv, InstructionsTypeOK
  <1>2. device' = [device EXCEPT ![d] = [old EXCEPT !.via = "new"]]
    BY <1>1 DEF Reconnects, InstructionInv, InstructionsTypeOK
  <1>3. [old EXCEPT !.via = "new"] \in DeviceType /\ [old EXCEPT !.via = "new"].told = old.told
    BY <1>1 DEF DeviceType, Connections
  <1>4. UNCHANGED <<instruction, results, handling, inbox, mixed, sender>>
    BY DEF Reconnects
  <1>5. InstructionsTypeOK' /\ QuietBefore' /\ TargetHandles'
    BY <1>1, <1>2, <1>3, <1>4 DEF InstructionInv, InstructionsTypeOK, QuietBefore, TargetHandles
  <1> QED
    BY <1>4, <1>5 DEF InstructionInv, Targeted, OneWriter, NobodyStored

\* A step of the goroutine of connection c of device d, which leaves it at h.
LEMMA HandlingMoves ==
    ASSUME InstructionInv, NEW d \in Devices, NEW c \in Connections, NEW h \in HandlingType,
           handling' = [handling EXCEPT ![d][c] = h],
           sender \notin {"create", "push"}, UNCHANGED <<sender, device>>,
           inbox' \in [Devices -> [Connections -> Seq(Reported)]],
           results' \in [Devices -> {"none"} \cup Reported],
           instruction' \in InstructionType, instruction'.target = instruction.target,
           h.at # "idle" => instruction.target \in {d, All},
           h.at = "stored" => instruction.target = d,
           instruction.target = d => OneWriter(d)',
           instruction.target \notin {d, All} => UNCHANGED <<instruction, results, mixed>>,
           ~Targeted => instruction'.status \notin Reported
    PROVE  InstructionInv'
  <1>1. InstructionsTypeOK'
    BY DEF InstructionInv, InstructionsTypeOK
  <1>2. QuietBefore'
    BY DEF QuietBefore
  <1>3. TargetHandles'
    BY DEF InstructionInv, InstructionsTypeOK, TargetHandles
  <1>4. ASSUME NEW e \in Devices, instruction.target = e PROVE OneWriter(e)'
    <2>1. CASE e = d
      BY <1>4, <2>1
    <2>2. CASE e # d
      <3>1. /\ OneWriter(e) /\ UNCHANGED <<instruction, results, mixed>>
            /\ handling'[e] = handling[e]
        BY <1>4, <2>2, InstructionsAssumption DEF InstructionInv, InstructionsTypeOK, Targeted
      <3> QED
        BY <3>1 DEF OneWriter, NobodyStored
    <2> QED
      BY <2>1, <2>2
  <1>5. Targeted' => OneWriter(instruction.target)'
    BY <1>4 DEF Targeted, OneWriter, NobodyStored
  <1> QED
    BY <1>1, <1>2, <1>3, <1>5 DEF InstructionInv, Targeted

LEMMA HandleReadsKeeps ==
    ASSUME InstructionInv, NEW d \in Devices, NEW c \in Connections, HandleReads(d, c)
    PROVE  InstructionInv'
  <1> USE StatusesDiffer
  <1>1. /\ handling[d][c] = Resting /\ handling[d][c].at = "idle"
        /\ inbox[d][c] \in Seq(Reported) /\ inbox[d][c] # <<>>
        /\ inbox' = [inbox EXCEPT ![d][c] = Tail(@)]
        /\ UNCHANGED <<results, sender, device>>
    BY DEF HandleReads, InstructionInv, InstructionsTypeOK
  <1>2. sender \notin {"create", "push"}
    BY <1>1 DEF InstructionInv, QuietBefore
  <1>3. Head(inbox[d][c]) \in Reported /\ Tail(inbox[d][c]) \in Seq(Reported)
    BY <1>1
  <1>4. /\ inbox' \in [Devices -> [Connections -> Seq(Reported)]]
        /\ results' \in [Devices -> {"none"} \cup Reported]
    BY <1>1, <1>3 DEF InstructionInv, InstructionsTypeOK
  <1>5. instruction \in InstructionType
    BY DEF InstructionInv, InstructionsTypeOK
  <1>6. CASE expired \/ instruction.target \notin {d, All}
    <2>1. /\ instruction' = [instruction EXCEPT !.status =
                     IF instruction.target \in {d, All} /\ @ \in {"pending", "sent"}
                     THEN "expired" ELSE @]
          /\ UNCHANGED <<handling, mixed>>
      BY <1>6 DEF HandleReads
    <2>2. PICK st \in {"expired", instruction.status} :
              /\ instruction' = [instruction EXCEPT !.status = st]
              /\ st # instruction.status => /\ st = "expired" /\ instruction.target \in {d, All}
                                            /\ instruction.status \in {"pending", "sent"}
      BY <2>1
    <2>3. /\ instruction' \in InstructionType /\ instruction'.status = st
          /\ instruction'.target = instruction.target
          /\ st = instruction.status => instruction' = instruction
      BY <1>5, <2>2 DEF InstructionType
    <2>4. handling' = [handling EXCEPT ![d][c] = Resting]
      BY <1>1, <2>1 DEF InstructionInv, InstructionsTypeOK
    <2>5. "expired" \notin Reported
      BY DEF Reported, Final
    <2>6. ASSUME instruction.target = d PROVE OneWriter(d)'
      <3>1. OneWriter(d) /\ results[d] \in {"none"} \cup Reported
        BY <2>6 DEF InstructionInv, InstructionsTypeOK, Targeted
      <3> QED
        BY <1>1, <2>1, <2>2, <2>3, <2>5, <3>1 DEF OneWriter, NobodyStored
    <2>7. PICK h \in HandlingType : h = Resting /\ h.at = "idle"
      BY DEF HandlingType, Resting
    <2>8. instruction.target \notin {d, All} => UNCHANGED <<instruction, results, mixed>>
      BY <1>1, <2>1, <2>2, <2>3
    <2>9. ~Targeted => instruction'.status \notin Reported
      BY <2>2, <2>3, <2>5 DEF InstructionInv
    <2>10. /\ handling' = [handling EXCEPT ![d][c] = h] /\ UNCHANGED <<sender, device>>
           /\ h.at # "idle" => instruction.target \in {d, All}
           /\ h.at = "stored" => instruction.target = d
      BY <1>1, <2>4, <2>7
    <2> QED
      BY <1>2, <1>4, <2>3, <2>6, <2>8, <2>9, <2>10, HandlingMoves
  <1>7. CASE ~(expired \/ instruction.target \notin {d, All})
    <2>1. PICK h : h = [at |-> "read", status |-> Head(inbox[d][c])]
      OBVIOUS
    <2>2. /\ handling' = [handling EXCEPT ![d][c] = h] /\ instruction' = instruction
          /\ mixed' = IF \E o \in Connections \ {c} : handling[d][o].at # "idle"
                        THEN mixed \cup {"crossed"} ELSE mixed \ {"crossed"}
      BY <1>7, <2>1 DEF HandleReads
    <2>3. h \in HandlingType /\ h.at = "read"
      BY <1>3, <2>1 DEF HandlingType
    <2>4. ASSUME instruction.target = d PROVE OneWriter(d)'
      <3>1. OneWriter(d)
        BY <2>4 DEF InstructionInv, Targeted
      <3>2. /\ handling'[d][c] = h
            /\ \A o \in Connections \ {c} : handling'[d][o] = handling[d][o]
        BY <2>2 DEF InstructionInv, InstructionsTypeOK
      <3>3. NobodyStored(d)' <=> NobodyStored(d)
        BY <1>1, <2>3, <3>2 DEF NobodyStored
      <3>4. "crossed" \notin mixed' => \A o \in Connections \ {c} : handling[d][o].at = "idle"
        BY <2>2
      <3>5. "overwritten" \in mixed' <=> "overwritten" \in mixed
        BY <2>2
      <3>6. "missed" \in mixed' <=> "missed" \in mixed
        BY <2>2
      <3> QED
        BY <1>1, <2>2, <2>3, <3>1, <3>2, <3>3, <3>4, <3>5, <3>6 DEF OneWriter
    <2>5. /\ instruction' \in InstructionType /\ instruction'.target = instruction.target
          /\ UNCHANGED <<sender, device>> /\ h.at # "stored"
          /\ instruction.target \in {d, All}
          /\ ~Targeted => instruction'.status \notin Reported
      BY <1>1, <1>5, <1>7, <2>2, <2>3 DEF InstructionInv
    <2> QED
      BY <1>2, <1>4, <2>2, <2>3, <2>4, <2>5, HandlingMoves
  <1> QED
    BY <1>6, <1>7

LEMMA StoreResultKeeps ==
    ASSUME InstructionInv, NEW d \in Devices, NEW c \in Connections, StoreResult(d, c)
    PROVE  InstructionInv'
  <1> USE StatusesDiffer
  <1>1. PICK old \in HandlingType : old = handling[d][c]
    BY DEF InstructionInv, InstructionsTypeOK
  <1>2. /\ old.at = "read" /\ old.status \in Reported
        /\ UNCHANGED <<instruction, sender, device, inbox>>
    BY <1>1 DEF StoreResult
  <1>3. sender \notin {"create", "push"} /\ instruction.target \in {d, All}
    BY <1>1, <1>2 DEF InstructionInv, QuietBefore, TargetHandles, Resting
  <1>4. Targeted <=> instruction.target = d
    BY <1>3, InstructionsAssumption DEF Targeted
  <1>5. PICK h, st : /\ handling' = [handling EXCEPT ![d][c] = h]
                     /\ \/ /\ st = old.status /\ results' = [results EXCEPT ![d] = st]
                           /\ h = IF Targeted THEN [old EXCEPT !.at = "stored"] ELSE Resting
                        \/ h = Resting /\ results' = results /\ st = results[d]
                     /\ mixed' \in {mixed, mixed \cup {"backwards"}}
    BY <1>1, <1>2 DEF StoreResult, InstructionInv, InstructionsTypeOK
  <1>6. [old EXCEPT !.at = "stored"] \in HandlingType
    BY <1>1, <1>2 DEF HandlingType, Resting
  <1>7. Resting \in HandlingType /\ Resting.at = "idle"
    BY DEF HandlingType, Resting
  <1>8. /\ h \in HandlingType /\ (h.at = "idle" \/ (h.at = "stored" /\ h.status = st /\ Targeted))
        /\ st \in {"none"} \cup Reported /\ results' = [results EXCEPT ![d] = st]
        /\ h.at = "idle" => results' = results \/ ~Targeted
    <2>1. CASE /\ st = old.status /\ results' = [results EXCEPT ![d] = st]
               /\ h = [old EXCEPT !.at = "stored"] /\ Targeted
      <3>1. h.at = "stored" /\ h.status = st
        BY <1>1, <1>2, <2>1 DEF HandlingType, Resting
      <3> QED
        BY <1>2, <1>6, <2>1, <3>1
    <2>2. CASE /\ st = old.status /\ results' = [results EXCEPT ![d] = st]
               /\ h = Resting /\ ~Targeted
      BY <1>2, <1>7, <2>2
    <2>3. CASE h = Resting /\ results' = results /\ st = results[d]
      <3>1. results' = [results EXCEPT ![d] = st] /\ st \in {"none"} \cup Reported
        BY <2>3 DEF InstructionInv, InstructionsTypeOK
      <3> QED
        BY <1>7, <2>3, <3>1
    <2> QED
      BY <1>5, <2>1, <2>2, <2>3
  <1>9. results' \in [Devices -> {"none"} \cup Reported]
    BY <1>8 DEF InstructionInv, InstructionsTypeOK
  <1>10. ASSUME instruction.target = d PROVE OneWriter(d)'
    <2>1. OneWriter(d) /\ Targeted
      BY <1>4, <1>10 DEF InstructionInv
    <2>2. \A o \in Connections \ {c} : handling'[d][o] = handling[d][o]
      BY <1>5 DEF InstructionInv, InstructionsTypeOK
    <2>3. handling'[d][c] = h /\ results'[d] = st
      BY <1>5, <1>8 DEF InstructionInv, InstructionsTypeOK
    <2>4. \A m \in {"crossed", "overwritten", "missed"} : m \in mixed' <=> m \in mixed
      BY <1>5
    <2>5. CASE h.at = "stored"
      <3>1. ~NobodyStored(d)' /\ st # "none"
        BY <1>5, <1>7, <1>2, <2>3, <2>5 DEF NobodyStored
      <3>2. "crossed" \notin mixed => \A o \in Connections \ {c} : handling[d][o].at = "idle"
        BY <1>1, <1>2, <2>1 DEF OneWriter
      <3> QED
        BY <1>8, <2>2, <2>3, <2>4, <2>5, <3>1, <3>2 DEF OneWriter
    <2>6. CASE h.at = "idle"
      <3>1. results' = results
        BY <1>8, <2>1, <2>6
      <3>2. NobodyStored(d)' <=> NobodyStored(d)
        BY <1>1, <1>2, <2>2, <2>3, <2>6 DEF NobodyStored
      <3> QED
        BY <1>2, <2>1, <2>2, <2>3, <2>4, <2>6, <3>1, <3>2 DEF OneWriter
    <2> QED
      BY <1>8, <2>5, <2>6
  <1>12. InstructionsTypeOK'
    BY <1>2, <1>5, <1>8, <1>9 DEF InstructionInv, InstructionsTypeOK
  <1>13. TargetHandles'
    BY <1>2, <1>3, <1>4, <1>5, <1>8 DEF InstructionInv, InstructionsTypeOK, TargetHandles
  <1>14. QuietBefore'
    BY <1>2, <1>3 DEF QuietBefore
  <1>15. Targeted' => OneWriter(instruction.target)'
    BY <1>2, <1>4, <1>10 DEF Targeted, OneWriter, NobodyStored
  <1> QED
    BY <1>2, <1>12, <1>13, <1>14, <1>15 DEF InstructionInv, Targeted

LEMMA UpdateStatusKeeps ==
    ASSUME InstructionInv, NEW d \in Devices, NEW c \in Connections, UpdateStatus(d, c)
    PROVE  InstructionInv'
  <1> USE StatusesDiffer
  <1>1. PICK s \in Reported : s = handling[d][c].status
    BY DEF UpdateStatus, InstructionInv, InstructionsTypeOK
  <1>2. /\ handling[d][c].at = "stored" /\ instruction.target = d
        /\ handling' = [handling EXCEPT ![d][c] = Resting]
        /\ UNCHANGED <<results, sender, device, inbox>>
    BY DEF UpdateStatus, InstructionInv, TargetHandles
  <1>3. \/ /\ instruction' = [instruction EXCEPT !.status = s,
                                                !.result = IF s \in Final THEN s ELSE @]
           /\ mixed' = IF "crossed" \in mixed THEN mixed \cup {"overwritten"}
                       ELSE mixed \ {"overwritten", "missed"}
        \/ mixed' = mixed \cup {"missed"} /\ UNCHANGED instruction
    BY <1>1 DEF UpdateStatus
  <1>4. instruction \in InstructionType /\ sender \notin {"create", "push"}
    BY <1>2 DEF InstructionInv, InstructionsTypeOK, QuietBefore, Resting
  <1>5. /\ instruction' \in InstructionType /\ instruction'.status \in {s, instruction.status}
        /\ instruction'.target = instruction.target
        /\ instruction'.status = s \/ ("missed" \in mixed' /\ instruction' = instruction)
    <2>1. CASE instruction' = [instruction EXCEPT !.status = s,
                                                  !.result = IF s \in Final THEN s ELSE @]
      <3>1. PICK res \in {"none"} \cup Final :
                instruction' = [instruction EXCEPT !.status = s, !.result = res]
        BY <1>4, <2>1 DEF InstructionType
      <3> QED
        BY <1>4, <3>1 DEF InstructionType
    <2> QED
      BY <1>3, <1>4, <2>1
  <1>6. OneWriter(d)'
    <2>1. OneWriter(d) /\ results[d] # "none"
      BY <1>2 DEF InstructionInv, Targeted, OneWriter, NobodyStored
    <2>2. /\ handling'[d][c] = Resting /\ Resting.at = "idle"
          /\ \A o \in Connections \ {c} : handling'[d][o] = handling[d][o]
      BY <1>2 DEF InstructionInv, InstructionsTypeOK, Resting
    <2>3. "crossed" \in mixed' <=> "crossed" \in mixed
      BY <1>3
    <2>4. "crossed" \notin mixed => results[d] = s
      BY <1>1, <1>2, <2>1 DEF OneWriter
    <2>5. "crossed" \in mixed => "overwritten" \in mixed' \/ "missed" \in mixed'
      BY <1>3
    <2> QED
      BY <1>2, <1>5, <2>1, <2>2, <2>3, <2>4, <2>5 DEF OneWriter
  <1>7. Resting \in HandlingType /\ Resting.at = "idle" /\ Targeted
    BY <1>2 DEF HandlingType, Resting, Targeted
  <1>8. /\ inbox' \in [Devices -> [Connections -> Seq(Reported)]]
        /\ results' \in [Devices -> {"none"} \cup Reported]
    BY <1>2 DEF InstructionInv, InstructionsTypeOK
  <1> QED
    BY <1>2, <1>4, <1>5, <1>6, <1>7, <1>8, HandlingMoves

LEMMA StopsKeeps ==
    ASSUME InstructionInv, Stops
    PROVE  InstructionInv'
  <1>1. /\ sender' = "done" /\ UNCHANGED <<instruction, results>>
        /\ \A d \in Devices, c \in Connections : handling'[d][c] = Resting
        /\ mixed' \in {mixed, mixed \cup {"missed"}}
    BY DEF Stops
  <1>2. /\ inbox' \in [Devices -> [Connections -> Seq(Reported)]]
        /\ handling' \in [Devices -> [Connections -> HandlingType]]
    BY DEF Stops, HandlingType
  <1>3. device' \in [Devices -> DeviceType]
    <2>1. ASSUME NEW e \in Devices PROVE [device[e] EXCEPT !.via = "old"] \in DeviceType
      <3>1. PICK old \in DeviceType : old = device[e]
        BY DEF InstructionInv, InstructionsTypeOK
      <3> QED
        BY <3>1 DEF DeviceType, Connections
    <2> QED
      BY <2>1 DEF Stops
  <1>4. InstructionsTypeOK' /\ QuietBefore' /\ TargetHandles'
    BY <1>1, <1>2, <1>3 DEF InstructionInv, InstructionsTypeOK, QuietBefore, TargetHandles, Resting
  <1>5. ASSUME NEW e \in Devices, instruction.target = e PROVE OneWriter(e)'
    <2>1. OneWriter(e)
      BY <1>5 DEF InstructionInv, Targeted
    <2>2. NobodyStored(e)' /\ \A c \in Connections : handling'[e][c].at = "idle"
      BY <1>1 DEF NobodyStored, Resting
    <2>3. "missed" \in mixed' \/ NobodyStored(e)
      BY DEF Stops, NobodyStored
    <2> QED
      BY <1>1, <2>1, <2>2, <2>3 DEF OneWriter
  <1>6. Targeted' => OneWriter(instruction.target)'
    BY <1>1, <1>5 DEF Targeted, OneWriter, NobodyStored
  <1> QED
    BY <1>1, <1>4, <1>6 DEF InstructionInv, Targeted

LEMMA InstructionStepKeeps == InstructionInv /\ [InstructionsNext]_instructionVars => InstructionInv'
  <1> SUFFICES ASSUME InstructionInv, [InstructionsNext]_instructionVars PROVE InstructionInv'
    OBVIOUS
  <1>1. CASE Expires \/ GetSummary \/ UNCHANGED instructionVars
    <2>1. UNCHANGED <<instruction, results, sender, device, inbox, handling, mixed>>
      BY <1>1 DEF Expires, GetSummary, instructionVars
    <2> QED
      BY <2>1
      DEF InstructionInv, InstructionsTypeOK, QuietBefore, TargetHandles, Targeted, OneWriter,
          NobodyStored
  <1> QED
    BY <1>1, SendKeeps, ReportKeeps, ReconnectsKeeps, HandleReadsKeeps, StoreResultKeeps,
       UpdateStatusKeeps, StopsKeeps DEF InstructionsNext

\* Who handles reports, and what the row of an instruction for one device shows meanwhile.
THEOREM InstructionInvariant == InstructionsSpec => []InstructionInv
  <1>1. InstructionsInit => InstructionInv
    <2> SUFFICES ASSUME InstructionsInit PROVE InstructionInv
      OBVIOUS
    <2>1. PICK t \in Devices \cup {All} :
              instruction = [target |-> t, status |-> "none", result |-> "none"]
      BY DEF InstructionsInit
    <2>2. instruction \in InstructionType /\ instruction.status \notin Reported
      BY <2>1, StatusesDiffer DEF InstructionType
    <2>3. device \in [Devices -> DeviceType] /\ \A d \in Devices : ~device[d].told
      BY DEF InstructionsInit, DeviceType, Connections
    <2>4. InstructionsTypeOK
      BY <2>2, <2>3 DEF InstructionsInit, InstructionsTypeOK, HandlingType
    <2>5. QuietBefore /\ TargetHandles
      BY <2>3 DEF InstructionsInit, QuietBefore, TargetHandles, Resting
    <2>6. \A d \in Devices : OneWriter(d)
      BY <2>2 DEF InstructionsInit, OneWriter, NobodyStored, Resting
    <2> QED
      BY <2>2, <2>4, <2>5, <2>6 DEF InstructionInv, Targeted
  <1> QED
    BY <1>1, InstructionStepKeeps, PTL DEF InstructionsSpec

\* When its device is quiet, an instruction for one device shows the result kept of it,
\* however reports, failing statements, stops of the server, the saving of the sent row and
\* the end of its five minutes overlap, unless the row was last written by goroutines at work
\* at a time or saved whole over a report, or the update of the last result failed; and no
\* status without a result kept (websocket.go, handleInstructionResult).
THEOREM ShowsTheResultAlways == InstructionsSpec => []ShowsTheResult
  <1>1. InstructionInv => ShowsTheResult
    BY DEF InstructionInv, ShowsTheResult, NothingHandled, OneWriter, NobodyStored, Targeted, Resting
  <1> QED
    BY <1>1, InstructionInvariant, PTL

-----------------------------------------------------------------------------
(* The four counts an administrator reads.                                 *)

ResultMaps == [Devices -> {"none"} \cup Reported]
With(f, s) == {d \in Devices : f[d] = s}

SummaryType == [step : 0..4, results : Nat, acked : Nat, executed : Nat, failed : Nat]

\* A device says one final word, so whatever final word is on its way or kept is that.
SaidOnce ==
    \A d \in Devices :
        /\ results[d] \in Final => results[d] = device[d].said
        /\ \A c \in Connections :
               /\ handling[d][c].at # "idle" /\ handling[d][c].status \in Final =>
                      handling[d][c].status = device[d].said
               /\ \A i \in 1..Len(inbox[d][c]) :
                      inbox[d][c][i] \in Final => inbox[d][c][i] = device[d].said

\* The devices the first count found are in the counts read since, or will be in those to
\* come: devices move on to "executed" and "failed", which are read later.
CountedSoFar ==
    LET count(s) == Cardinality(With(results, s)) IN
    "backwards" \notin mixed =>
        /\ summary.step = 1 => summary.results <= count("acked") + count("executed") + count("failed")
        /\ summary.step = 2 => summary.results <= summary.acked + count("executed") + count("failed")
        /\ summary.step = 3 => summary.results <= summary.acked + summary.executed + count("failed")
        /\ CountsMissNobody

SummaryInv == InstructionInv /\ summary \in SummaryType /\ SaidOnce /\ CountedSoFar

LEMMA CountsAdd ==
    ASSUME NEW f \in ResultMaps
    PROVE  /\ \A s : Cardinality(With(f, s)) \in Nat
           /\ Cardinality(Devices) \in Nat
           /\ Cardinality(Devices) = Cardinality(With(f, "none")) + Cardinality(With(f, "acked"))
                  + Cardinality(With(f, "executed")) + Cardinality(With(f, "failed"))
  <1> DEFINE N == With(f, "none")
             A == With(f, "acked")
             X == With(f, "executed")
             F == With(f, "failed")
  <1>1. ASSUME NEW s PROVE IsFiniteSet(With(f, s)) /\ Cardinality(With(f, s)) \in Nat
    <2>1. With(f, s) \subseteq Devices
      BY DEF With
    <2>2. IsFiniteSet(With(f, s))
      BY <2>1, FS_Subset, InstructionsAssumption
    <2> QED
      BY <2>2, FS_CardinalityType
  <1>2. /\ N \cap A = {} /\ (N \cup A) \cap X = {} /\ ((N \cup A) \cup X) \cap F = {}
        /\ Devices = ((N \cup A) \cup X) \cup F
    BY DEF With, ResultMaps, Reported, Final
  <1> HIDE DEF N, A, X, F
  <1>3. /\ IsFiniteSet(N) /\ IsFiniteSet(A) /\ IsFiniteSet(X) /\ IsFiniteSet(F)
        /\ Cardinality(N) \in Nat /\ Cardinality(A) \in Nat
        /\ Cardinality(X) \in Nat /\ Cardinality(F) \in Nat
    BY <1>1 DEF N, A, X, F
  <1>4. /\ IsFiniteSet(N \cup A)
        /\ Cardinality(N \cup A) = Cardinality(N) + Cardinality(A) - Cardinality({})
    BY <1>2, <1>3, FS_Union
  <1>5. /\ IsFiniteSet((N \cup A) \cup X)
        /\ Cardinality((N \cup A) \cup X) = Cardinality(N \cup A) + Cardinality(X) - Cardinality({})
    BY <1>2, <1>3, <1>4, FS_Union
  <1>6. Cardinality(Devices) = Cardinality((N \cup A) \cup X) + Cardinality(F) - Cardinality({})
    BY <1>2, <1>3, <1>5, FS_Union
  <1>7. Cardinality({}) = 0
    BY FS_EmptySet
  <1>8. Cardinality(Devices) = Cardinality(N) + Cardinality(A) + Cardinality(X) + Cardinality(F)
    BY <1>3, <1>4, <1>5, <1>6, <1>7
  <1>9. Cardinality(Devices) \in Nat
    BY InstructionsAssumption, FS_CardinalityType
  <1> QED
    BY <1>1, <1>8, <1>9 DEF N, A, X, F

LEMMA CountGrows ==
    ASSUME NEW f \in ResultMaps, NEW g \in ResultMaps, NEW s,
           \A d \in Devices : f[d] = s => g[d] = s
    PROVE  Cardinality(With(f, s)) <= Cardinality(With(g, s))
  <1>1. With(f, s) \subseteq With(g, s) /\ With(g, s) \subseteq Devices
    BY DEF With
  <1>2. IsFiniteSet(With(g, s))
    BY <1>1, FS_Subset, InstructionsAssumption
  <1> QED
    BY <1>1, <1>2, FS_Subset

\* A stored result, unless a late one takes a final one back, makes no later count smaller.
LEMMA StoringCounts ==
    ASSUME SummaryInv, results' \in ResultMaps, summary' = summary,
           "backwards" \in mixed => "backwards" \in mixed',
           "backwards" \notin mixed' =>
               \A d \in Devices : /\ results'[d] = "none" => results[d] = "none"
                                  /\ results[d] \in Final => results'[d] = results[d]
    PROVE  CountedSoFar'
  <1> SUFFICES ASSUME "backwards" \notin mixed'
               PROVE  (/\ summary.step = 1 => summary.results <= Cardinality(With(results', "acked"))
                              + Cardinality(With(results', "executed"))
                              + Cardinality(With(results', "failed"))
                       /\ summary.step = 2 => summary.results <= summary.acked
                              + Cardinality(With(results', "executed"))
                              + Cardinality(With(results', "failed"))
                       /\ summary.step = 3 => summary.results <= summary.acked + summary.executed
                              + Cardinality(With(results', "failed"))
                       /\ summary.step = 4 =>
                              summary.results <= summary.acked + summary.executed + summary.failed)
    BY DEF CountedSoFar, CountsMissNobody, With
  <1>1. results \in ResultMaps /\ "backwards" \notin mixed /\ summary \in SummaryType
    BY DEF SummaryInv, InstructionInv, InstructionsTypeOK, ResultMaps
  <1>2. /\ summary.step = 1 => summary.results <= Cardinality(With(results, "acked"))
               + Cardinality(With(results, "executed")) + Cardinality(With(results, "failed"))
        /\ summary.step = 2 => summary.results <= summary.acked
               + Cardinality(With(results, "executed")) + Cardinality(With(results, "failed"))
        /\ summary.step = 3 => summary.results <= summary.acked + summary.executed
               + Cardinality(With(results, "failed"))
        /\ summary.step = 4 =>
               summary.results <= summary.acked + summary.executed + summary.failed
    BY <1>1 DEF SummaryInv, CountedSoFar, CountsMissNobody
  <1>3. /\ Cardinality(With(results, "executed")) <= Cardinality(With(results', "executed"))
        /\ Cardinality(With(results, "failed")) <= Cardinality(With(results', "failed"))
    BY <1>1, CountGrows DEF Final
  <1>4. Cardinality(With(results', "none")) <= Cardinality(With(results, "none"))
    BY <1>1, CountGrows
  <1>5. /\ summary.results \in Nat /\ summary.acked \in Nat /\ summary.executed \in Nat
    BY <1>1 DEF SummaryType
  <1>6. PICK n \in Nat, a \in Nat, x \in Nat, w \in Nat :
            /\ n = Cardinality(With(results, "none")) /\ a = Cardinality(With(results, "acked"))
            /\ x = Cardinality(With(results, "executed")) /\ w = Cardinality(With(results, "failed"))
            /\ Cardinality(Devices) = n + a + x + w
    BY <1>1, CountsAdd
  <1>7. PICK n2 \in Nat, a2 \in Nat, x2 \in Nat, w2 \in Nat :
            /\ n2 = Cardinality(With(results', "none")) /\ a2 = Cardinality(With(results', "acked"))
            /\ x2 = Cardinality(With(results', "executed"))
            /\ w2 = Cardinality(With(results', "failed"))
            /\ Cardinality(Devices) = n2 + a2 + x2 + w2
    BY CountsAdd
  <1>8. /\ n2 <= n /\ x <= x2 /\ w <= w2 /\ n + a + x + w = n2 + a2 + x2 + w2
        /\ summary.step = 1 => summary.results <= a + x + w
        /\ summary.step = 2 => summary.results <= summary.acked + x + w
        /\ summary.step = 3 => summary.results <= summary.acked + summary.executed + w
    BY <1>2, <1>3, <1>4, <1>6, <1>7
  <1>9. /\ summary.step = 1 => summary.results <= a2 + x2 + w2
        /\ summary.step = 2 => summary.results <= summary.acked + x2 + w2
        /\ summary.step = 3 => summary.results <= summary.acked + summary.executed + w2
    BY <1>5, <1>8
  <1> QED
    BY <1>2, <1>7, <1>9

LEMMA SummaryReportKeeps ==
    ASSUME SummaryInv, NEW d \in Devices, Report(d)
    PROVE  SaidOnce' /\ UNCHANGED <<results, summary, mixed>>
  <1>1. PICK old \in DeviceType : old = device[d]
    BY DEF SummaryInv, InstructionInv, InstructionsTypeOK
  <1>2. PICK s \in Reported : /\ device' = [device EXCEPT ![d].said = s]
                              /\ inbox' = [inbox EXCEPT ![d][old.via] = Append(@, s)]
    BY <1>1, StatusesDiffer DEF Report
  <1>3. device[d].said \notin Final /\ UNCHANGED <<results, handling, summary, mixed>>
    BY DEF Report
  <1>4. old.via \in Connections /\ device'[d].said = s
    BY <1>1, <1>2 DEF DeviceType, SummaryInv, InstructionInv, InstructionsTypeOK
  <1>5. \A e \in Devices \ {d} : device'[e] = device[e] /\ inbox'[e] = inbox[e]
    BY <1>2 DEF SummaryInv, InstructionInv, InstructionsTypeOK
  <1>6. ASSUME NEW c \in Connections, NEW i \in 1..Len(inbox'[d][c]), inbox'[d][c][i] \in Final
        PROVE  inbox'[d][c][i] = s
    <2>1. PICK q \in Seq(Reported) : q = inbox[d][c]
      BY DEF SummaryInv, InstructionInv, InstructionsTypeOK
    <2>2. \A j \in 1..Len(q) : q[j] \notin Final
      BY <1>3, <2>1 DEF SummaryInv, SaidOnce
    <2>3. inbox'[d][c] = q \/ inbox'[d][c] = Append(q, s)
      BY <1>2, <1>4, <2>1 DEF SummaryInv, InstructionInv, InstructionsTypeOK
    <2>4. CASE inbox'[d][c] = q
      BY <1>6, <2>2, <2>4
    <2>5. CASE inbox'[d][c] = Append(q, s)
      <3>1. i \in 1..Len(q) \/ i = Len(q) + 1
        BY <1>6, <2>1, <2>5
      <3> QED
        BY <1>6, <2>1, <2>2, <2>5, <3>1
    <2> QED
      BY <2>3, <2>4, <2>5
  <1>7. /\ results[d] \notin Final
        /\ \A c \in Connections : handling[d][c].at # "idle" => handling[d][c].status \notin Final
    BY <1>3 DEF SummaryInv, SaidOnce
  <1> QED
    BY <1>3, <1>4, <1>5, <1>6, <1>7 DEF SummaryInv, SaidOnce

LEMMA SummaryReadsKeeps ==
    ASSUME SummaryInv, NEW d \in Devices, NEW c \in Connections, HandleReads(d, c)
    PROVE  SaidOnce'
  <1>1. PICK q \in Seq(Reported) : q = inbox[d][c] /\ q # <<>>
    BY DEF HandleReads, SummaryInv, InstructionInv, InstructionsTypeOK
  <1>2. inbox' = [inbox EXCEPT ![d][c] = Tail(q)] /\ UNCHANGED <<results, device>>
    BY <1>1 DEF HandleReads, SummaryInv, InstructionInv, InstructionsTypeOK
  <1>3. \A i \in 1..Len(q) : q[i] \in Final => q[i] = device[d].said
    BY <1>1 DEF SummaryInv, SaidOnce
  <1>4. /\ \A i \in 1..Len(Tail(q)) : Tail(q)[i] \in Final => Tail(q)[i] = device[d].said
        /\ Head(q) \in Final => Head(q) = device[d].said
    BY <1>1, <1>3
  <1>5. ASSUME NEW e \in Devices, NEW o \in Connections
        PROVE  /\ \A i \in 1..Len(inbox'[e][o]) :
                      inbox'[e][o][i] \in Final => inbox'[e][o][i] = device[e].said
               /\ handling'[e][o].at # "idle" /\ handling'[e][o].status \in Final =>
                      handling'[e][o].status = device[e].said
    <2>1. inbox'[e][o] = inbox[e][o] \/ (e = d /\ inbox'[e][o] = Tail(q))
      BY <1>2 DEF SummaryInv, InstructionInv, InstructionsTypeOK
    <2>2. \/ handling'[e][o] = handling[e][o]
          \/ e = d /\ handling'[e][o] = [at |-> "read", status |-> Head(q)]
      BY <1>1 DEF HandleReads, SummaryInv, InstructionInv, InstructionsTypeOK
    <2>3. \A i \in 1..Len(inbox'[e][o]) :
              inbox'[e][o][i] \in Final => inbox'[e][o][i] = device[e].said
      <3>1. CASE inbox'[e][o] = inbox[e][o]
        BY <3>1 DEF SummaryInv, SaidOnce
      <3>2. CASE e = d /\ inbox'[e][o] = Tail(q)
        BY <1>4, <3>2
      <3> QED
        BY <2>1, <3>1, <3>2
    <2>4. handling'[e][o].at # "idle" /\ handling'[e][o].status \in Final =>
              handling'[e][o].status = device[e].said
      BY <1>4, <2>2 DEF SummaryInv, SaidOnce
    <2> QED
      BY <2>3, <2>4
  <1> QED
    BY <1>2, <1>5 DEF SummaryInv, SaidOnce

LEMMA SummaryStoreKeeps ==
    ASSUME SummaryInv, NEW d \in Devices, NEW c \in Connections, StoreResult(d, c)
    PROVE  SaidOnce' /\ CountedSoFar'
  <1>1. PICK old \in HandlingType : old = handling[d][c]
    BY DEF SummaryInv, InstructionInv, InstructionsTypeOK
  <1>2. /\ old.at = "read" /\ old.status \in Reported
        /\ UNCHANGED <<device, inbox, summary>>
        /\ old.status \in Final => old.status = device[d].said
    BY <1>1, StatusesDiffer DEF StoreResult, SummaryInv, SaidOnce
  <1>3. \/ /\ results' = [results EXCEPT ![d] = old.status]
           /\ mixed' = IF results[d] \in Final /\ old.status = "acked"
                       THEN mixed \cup {"backwards"} ELSE mixed
        \/ UNCHANGED <<results, mixed>>
    BY <1>1 DEF StoreResult
  <1>4. results \in ResultMaps /\ results' \in ResultMaps /\ mixed \subseteq mixed'
    BY <1>2, <1>3 DEF SummaryInv, InstructionInv, InstructionsTypeOK, ResultMaps
  <1>5. ASSUME NEW e \in Devices, NEW o \in Connections
        PROVE  handling'[e][o] = handling[e][o] \/ handling'[e][o].at = "idle"
                  \/ (e = d /\ handling'[e][o].status = old.status)
    <2>1. PICK h : /\ handling' = [handling EXCEPT ![d][c] = h]
                   /\ h = Resting \/ h = [old EXCEPT !.at = "stored"]
      BY <1>1 DEF StoreResult, SummaryInv, InstructionInv, InstructionsTypeOK
    <2>2. h.at = "idle" \/ h.status = old.status
      <3>1. CASE h = Resting
        BY <3>1 DEF Resting
      <3>2. CASE h = [old EXCEPT !.at = "stored"]
        <4>1. old \in [at : {"read", "stored"}, status : Reported]
          BY <1>1, <1>2 DEF HandlingType, Resting
        <4> QED
          BY <3>2, <4>1
      <3> QED
        BY <2>1, <3>1, <3>2
    <2>3. handling'[e][o] = handling[e][o] \/ (e = d /\ handling'[e][o] = h)
      BY <2>1 DEF SummaryInv, InstructionInv, InstructionsTypeOK
    <2> QED
      BY <2>2, <2>3
  <1>6. SaidOnce'
    <2>1. \A e \in Devices : results'[e] = results[e] \/ (e = d /\ results'[e] = old.status)
      BY <1>3, <1>4 DEF ResultMaps
    <2> QED
      BY <1>2, <1>5, <2>1 DEF SummaryInv, SaidOnce
  <1>7. ASSUME "backwards" \notin mixed', NEW e \in Devices
        PROVE  /\ results'[e] = "none" => results[e] = "none"
               /\ results[e] \in Final => results'[e] = results[e]
    <2>1. CASE UNCHANGED results \/ e # d
      BY <1>3, <1>4, <2>1 DEF ResultMaps
    <2>2. CASE e = d /\ results' = [results EXCEPT ![d] = old.status]
      <3>1. results'[e] = old.status /\ old.status # "none"
        BY <1>2, <1>4, <2>2, StatusesDiffer DEF ResultMaps
      <3>2. results[d] \in Final => old.status \in Final \/ results' = results
        BY <1>2, <1>3, <1>7 DEF Reported
      <3>3. results[d] \in Final => results[d] = device[d].said
        BY DEF SummaryInv, SaidOnce
      <3> QED
        BY <1>2, <2>2, <3>1, <3>2, <3>3
    <2> QED
      BY <1>3, <2>1, <2>2
  <1>8. CountedSoFar'
    BY <1>2, <1>4, <1>7, StoringCounts
  <1> QED
    BY <1>6, <1>8

\* Each count is read when those still to come cover the devices it misses.
LEMMA SummaryCountKeeps ==
    ASSUME SummaryInv, GetSummary
    PROVE  SummaryInv'
  <1> DEFINE C(s) == Cardinality(With(results, s))
  <1>1. UNCHANGED <<instruction, results, sender, device, inbox, handling, mixed>>
    BY DEF GetSummary
  <1>2. InstructionInv' /\ SaidOnce'
    BY <1>1 DEF SummaryInv, InstructionInv, InstructionsTypeOK, QuietBefore, TargetHandles, Targeted,
                OneWriter, NobodyStored, SaidOnce
  <1>3. PICK n \in Nat, a \in Nat, x \in Nat, w \in Nat :
            /\ n = Cardinality(With(results, "none")) /\ a = Cardinality(With(results, "acked"))
            /\ x = Cardinality(With(results, "executed")) /\ w = Cardinality(With(results, "failed"))
            /\ Cardinality(Devices) = n + a + x + w
    BY CountsAdd DEF SummaryInv, InstructionInv, InstructionsTypeOK, ResultMaps
  <1>4. PICK k \in Nat : k = Cardinality(Devices) - n /\ k = a + x + w
    BY <1>3
  <1>5. /\ Counted("none") = n /\ Counted("acked") = a /\ Counted("executed") = x
        /\ Counted("failed") = w
    BY <1>3 DEF Counted, With
  <1>6. summary.step < 4 /\ summary \in SummaryType
    BY DEF GetSummary, SummaryInv
  <1>7. PICK old \in SummaryType : old = summary
    BY <1>6
  <1>8. PICK step \in 0..3, r \in Nat, sa \in Nat, sx \in Nat, sf \in Nat :
            /\ step = old.step /\ r = old.results /\ sa = old.acked
            /\ sx = old.executed /\ sf = old.failed
    BY <1>6, <1>7 DEF SummaryType
  <1>9. /\ step = 0 => /\ summary'.step = 1 /\ summary'.results = k /\ summary' \in SummaryType
        /\ step = 1 => /\ summary'.step = 2 /\ summary'.results = r /\ summary'.acked = a
                       /\ summary' \in SummaryType
        /\ step = 2 => /\ summary'.step = 3 /\ summary'.results = r /\ summary'.acked = sa
                       /\ summary'.executed = x /\ summary' \in SummaryType
        /\ step = 3 => /\ summary'.step = 4 /\ summary'.results = r /\ summary'.acked = sa
                       /\ summary'.executed = sx /\ summary'.failed = w /\ summary' \in SummaryType
    <2>1. ASSUME step = 0
          PROVE  summary'.step = 1 /\ summary'.results = k /\ summary' \in SummaryType
      <3>1. k = Cardinality(Devices) - Counted("none") /\ old.step = 0
        BY <1>4, <1>5, <1>8, <2>1
      <3>2. summary' = [old EXCEPT !.step = 1, !.results = k]
        BY <1>7, <3>1 DEF GetSummary
      <3>3. PICK mid, new : /\ mid = [old EXCEPT !.step = 1]
                            /\ new = summary' /\ new = [mid EXCEPT !.results = k]
        BY <3>2
      <3>4. /\ mid \in SummaryType /\ mid.step = 1
        BY <3>3 DEF SummaryType
      <3>5. /\ new \in SummaryType /\ new.step = 1 /\ new.results = k
        BY <3>3, <3>4 DEF SummaryType
      <3> QED
        BY <1>8, <3>3, <3>5
    <2>2. ASSUME step = 1
          PROVE  /\ summary'.step = 2 /\ summary'.results = r /\ summary'.acked = a
                 /\ summary' \in SummaryType
      <3>1. a = Counted("acked") /\ old.step = 1
        BY <1>5, <1>8, <2>2
      <3>2. summary' = [old EXCEPT !.step = 2, !.acked = a]
        BY <1>7, <3>1 DEF GetSummary
      <3>3. PICK mid, new : /\ mid = [old EXCEPT !.step = 2]
                            /\ new = summary' /\ new = [mid EXCEPT !.acked = a]
        BY <3>2
      <3>4. /\ mid \in SummaryType /\ mid.step = 2
            /\ mid.results = old.results
        BY <3>3 DEF SummaryType
      <3>5. /\ new \in SummaryType /\ new.step = 2 /\ new.acked = a
            /\ new.results = old.results
        BY <3>3, <3>4 DEF SummaryType
      <3> QED
        BY <1>8, <3>3, <3>5
    <2>3. ASSUME step = 2
          PROVE  /\ summary'.step = 3 /\ summary'.results = r /\ summary'.acked = sa
                 /\ summary'.executed = x /\ summary' \in SummaryType
      <3>1. x = Counted("executed") /\ old.step = 2
        BY <1>5, <1>8, <2>3
      <3>2. summary' = [old EXCEPT !.step = 3, !.executed = x]
        BY <1>7, <3>1 DEF GetSummary
      <3>3. PICK mid, new : /\ mid = [old EXCEPT !.step = 3]
                            /\ new = summary' /\ new = [mid EXCEPT !.executed = x]
        BY <3>2
      <3>4. /\ mid \in SummaryType /\ mid.step = 3
            /\ mid.results = old.results /\ mid.acked = old.acked
        BY <3>3 DEF SummaryType
      <3>5. /\ new \in SummaryType /\ new.step = 3 /\ new.executed = x
            /\ new.results = old.results /\ new.acked = old.acked
        BY <3>3, <3>4 DEF SummaryType
      <3> QED
        BY <1>8, <3>3, <3>5
    <2>4. ASSUME step = 3
          PROVE  /\ summary'.step = 4 /\ summary'.results = r /\ summary'.acked = sa
                 /\ summary'.executed = sx /\ summary'.failed = w /\ summary' \in SummaryType
      <3>1. w = Counted("failed") /\ old.step = 3
        BY <1>5, <1>8, <2>4
      <3>2. summary' = [old EXCEPT !.step = 4, !.failed = w]
        BY <1>7, <3>1 DEF GetSummary
      <3>3. PICK mid, new : /\ mid = [old EXCEPT !.step = 4]
                            /\ new = summary' /\ new = [mid EXCEPT !.failed = w]
        BY <3>2
      <3>4. /\ mid \in SummaryType /\ mid.step = 4
            /\ mid.results = old.results /\ mid.acked = old.acked /\ mid.executed = old.executed
        BY <3>3 DEF SummaryType
      <3>5. /\ new \in SummaryType /\ new.step = 4 /\ new.failed = w
            /\ new.results = old.results /\ new.acked = old.acked /\ new.executed = old.executed
        BY <3>3, <3>4 DEF SummaryType
      <3> QED
        BY <1>8, <3>3, <3>5
    <2> QED
      BY <2>1, <2>2, <2>3, <2>4
  <1>10. "backwards" \notin mixed =>
            /\ step = 1 => r <= a + x + w
            /\ step = 2 => r <= sa + x + w
            /\ step = 3 => r <= sa + sx + w
    BY <1>3, <1>7, <1>8 DEF SummaryInv, CountedSoFar
  <1>11. CountedSoFar'
    <2>1. CASE step = 0
      BY <1>1, <1>3, <1>4, <1>9, <2>1 DEF CountedSoFar, CountsMissNobody
    <2>2. CASE step = 1
      BY <1>1, <1>3, <1>9, <1>10, <2>2 DEF CountedSoFar, CountsMissNobody
    <2>3. CASE step = 2
      BY <1>1, <1>3, <1>9, <1>10, <2>3 DEF CountedSoFar, CountsMissNobody
    <2>4. CASE step = 3
      BY <1>1, <1>3, <1>9, <1>10, <2>4 DEF CountedSoFar, CountsMissNobody
    <2> QED
      BY <2>1, <2>2, <2>3, <2>4
  <1>12. summary' \in SummaryType
    BY <1>8, <1>9
  <1> QED
    BY <1>2, <1>11, <1>12 DEF SummaryInv

LEMMA SummaryStepKeeps == SummaryInv /\ [InstructionsNext]_instructionVars => SummaryInv'
  <1> SUFFICES ASSUME SummaryInv, [InstructionsNext]_instructionVars PROVE SummaryInv'
    OBVIOUS
  <1>1. InstructionInv'
    BY InstructionStepKeeps DEF SummaryInv
  <1>2. ASSUME UNCHANGED <<results, summary>>, "backwards" \in mixed => "backwards" \in mixed'
        PROVE  CountedSoFar'
    BY <1>2 DEF SummaryInv, CountedSoFar, CountsMissNobody
  <1>3. CASE GetSummary
    BY <1>3, SummaryCountKeeps
  <1>4. ASSUME NEW d \in Devices, NEW c \in Connections, StoreResult(d, c) PROVE SummaryInv'
    <2>1. summary' = summary
      BY <1>4 DEF StoreResult
    <2> QED
      BY <1>1, <1>4, <2>1, SummaryStoreKeeps DEF SummaryInv
  <1>5. ASSUME NEW d \in Devices, NEW c \in Connections, HandleReads(d, c) PROVE SummaryInv'
    <2>1. UNCHANGED <<results, summary>> /\ ("backwards" \in mixed => "backwards" \in mixed')
      BY <1>5 DEF HandleReads
    <2> QED
      BY <1>1, <1>2, <1>5, <2>1, SummaryReadsKeeps DEF SummaryInv
  <1>6. ASSUME NEW d \in Devices, Report(d) PROVE SummaryInv'
    BY <1>1, <1>2, <1>6, SummaryReportKeeps DEF SummaryInv
  <1>7. ASSUME NEW d \in Devices, Reconnects(d) PROVE SummaryInv'
    <2>1. /\ UNCHANGED <<results, summary, mixed, handling, inbox>>
          /\ device' = [device EXCEPT ![d].via = "new"]
      BY <1>7 DEF Reconnects
    <2>2. \A e \in Devices : device'[e].said = device[e].said
      BY <2>1 DEF SummaryInv, InstructionInv, InstructionsTypeOK, DeviceType
    <2>3. SaidOnce'
      BY <2>1, <2>2 DEF SummaryInv, SaidOnce
    <2> QED
      BY <1>1, <1>2, <2>1, <2>3 DEF SummaryInv
  <1>8. ASSUME NEW d \in Devices, NEW c \in Connections, UpdateStatus(d, c) PROVE SummaryInv'
    <2>1. /\ UNCHANGED <<results, summary, device, inbox>>
          /\ "backwards" \in mixed => "backwards" \in mixed'
          /\ handling' = [handling EXCEPT ![d][c] = Resting]
      BY <1>8 DEF UpdateStatus
    <2>2. \A e \in Devices, o \in Connections :
              handling'[e][o] = handling[e][o] \/ handling'[e][o].at = "idle"
      BY <2>1 DEF SummaryInv, InstructionInv, InstructionsTypeOK, Resting
    <2>3. SaidOnce'
      BY <2>1, <2>2 DEF SummaryInv, SaidOnce
    <2> QED
      BY <1>1, <1>2, <2>1, <2>3 DEF SummaryInv
  <1>9. CASE PushInstruction
    <2>1. UNCHANGED <<results, summary, mixed, handling, inbox>>
      BY <1>9 DEF PushInstruction
    <2>2. \A e \in Devices : device'[e].said = device[e].said
      <3> SUFFICES ASSUME NEW e \in Devices PROVE device'[e].said = device[e].said
        OBVIOUS
      <3>1. PICK old \in DeviceType : old = device[e]
        BY DEF SummaryInv, InstructionInv, InstructionsTypeOK
      <3>2. PICK b : device'[e] = [old EXCEPT !.told = b]
        BY <1>9, <3>1 DEF PushInstruction
      <3> QED
        BY <3>1, <3>2 DEF DeviceType
    <2>3. SaidOnce'
      BY <2>1, <2>2 DEF SummaryInv, SaidOnce
    <2> QED
      BY <1>1, <1>2, <2>1, <2>3 DEF SummaryInv
  <1>10. CASE CreateInstruction \/ SaveSent \/ Expires \/ UNCHANGED instructionVars
    <2>1. /\ UNCHANGED <<results, summary, handling, inbox, device>>
          /\ "backwards" \in mixed => "backwards" \in mixed'
      BY <1>10 DEF CreateInstruction, SaveSent, Expires, instructionVars
    <2>2. SaidOnce'
      BY <2>1 DEF SummaryInv, SaidOnce
    <2> QED
      BY <1>1, <1>2, <2>1, <2>2 DEF SummaryInv
  <1>11. CASE Stops
    <2>1. UNCHANGED results /\ summary' = NothingRead
      BY <1>11 DEF Stops
    <2>2. CountedSoFar' /\ summary' \in SummaryType
      BY <2>1 DEF CountedSoFar, CountsMissNobody, NothingRead, SummaryType
    <2>3. ASSUME NEW e \in Devices
          PROVE  /\ device'[e].said = device[e].said
                 /\ \A c \in Connections : inbox'[e][c] = <<>> /\ handling'[e][c] = Resting
      <3>1. PICK old \in DeviceType : old = device[e]
        BY DEF SummaryInv, InstructionInv, InstructionsTypeOK
      <3>2. device'[e] = [old EXCEPT !.via = "old"]
        BY <1>11, <3>1 DEF Stops
      <3>3. device'[e].said = device[e].said
        BY <3>1, <3>2 DEF DeviceType
      <3> QED
        BY <1>11, <3>3 DEF Stops
    <2>4. SaidOnce'
      BY <2>1, <2>3 DEF SummaryInv, SaidOnce, Resting
    <2> QED
      BY <1>1, <2>2, <2>4 DEF SummaryInv
  <1> QED
    BY <1>11, <1>3, <1>4, <1>5, <1>6, <1>7, <1>8, <1>9, <1>10 DEF InstructionsNext

LEMMA SummaryStart == InstructionsInit /\ InstructionInv => SummaryInv
  <1> SUFFICES ASSUME InstructionsInit, InstructionInv PROVE SummaryInv
    OBVIOUS
  <1>1. summary = NothingRead /\ summary \in SummaryType /\ summary.step = 0
    BY DEF InstructionsInit, NothingRead, SummaryType
  <1>2. CountedSoFar
    BY <1>1 DEF CountedSoFar, CountsMissNobody
  <1>3. SaidOnce
    BY StatusesDiffer DEF InstructionsInit, SaidOnce, Resting
  <1> QED
    BY <1>1, <1>2, <1>3 DEF SummaryInv

\* The counts read one after the other miss no device that had answered at the first, unless
\* a late report took a final result back, for any number of devices
\* (websocket.go, GetInstructionStatus).
THEOREM CountsMissNobodyAlways == InstructionsSpec => []CountsMissNobody
  <1>1. InstructionsSpec => []SummaryInv
    <2>1. InstructionsInit /\ InstructionInv => SummaryInv
      BY SummaryStart
    <2> QED
      BY <2>1, InstructionInvariant, SummaryStepKeeps, PTL DEF InstructionsSpec
  <1>2. ASSUME SummaryInv PROVE CountsMissNobody
    <2>1. CASE "backwards" \notin mixed
      BY <1>2, <2>1 DEF SummaryInv, CountedSoFar
    <2>2. CASE "backwards" \in mixed
      BY <2>2 DEF CountsMissNobody
    <2> QED
      BY <2>1, <2>2
  <1>3. SummaryInv => CountsMissNobody
    BY <1>2
  <1> QED
    BY <1>1, <1>3, PTL

-----------------------------------------------------------------------------
(* The session of a device.                                                *)

\* What licenseInfo, the cache file and an image about to be written can hold.
Infos == {NoInfo} \cup [token : 1..issued, signed : 1..issued]

\* Where a goroutine can be, and where it has a token of the server's.
Places ==
    {"idle", "login", "signed in", "save", "request", "refused", "refresh", "granted",
     "answer", "write", "clear", "forget"}
WithToken == {"refresh", "granted", "answer", "signed in"}

CallType == [at : Places, token : 0..issued, retry : BOOLEAN]

CallsOK ==
    /\ call \in [Callers -> CallType]
    /\ \A p \in Callers : call[p].at \in WithToken => call[p].token # 0

SessionTypeOK ==
    /\ issued \in 0..MaxTokens /\ live \subseteq 1..issued
    /\ owner \in [Tokens -> 0..issued] /\ hash \in [Tokens -> 0..issued]
    /\ info \in Infos /\ cache \in Infos /\ image \in [Callers -> Infos]
    /\ \A p \in Callers : At(p, "write") => image[p] # NoInfo
    /\ excuses \subseteq Excuses
    /\ CallsOK

\* One session lives, and it has the hash of the newest token it was given.
OneSession ==
    /\ \A a, b \in live : a = b
    /\ \A k \in 1..issued : owner[k] \in live => k <= hash[owner[k]]

\* The first token of a session that was not stored yet is its only one, and nobody else's.
Unseen ==
    \A p \in Callers : At(p, "signed in") =>
        LET k == call[p].token IN
        /\ hash[k] = k
        /\ \A j \in 1..issued : owner[j] = k => j = k
        /\ info.token # k
        /\ \A q \in Callers : q # p => call[q].token # k

\* The client has this token, in memory or in an answer it got.
InHand(k) == k = info.token \/ \E p \in Callers : At(p, "answer") /\ call[p].token = k

\* If the client has a token of the living session that is not older than the one in memory,
\* it has the one the server will take.
TokenHeld ==
    WrongTokens \cap excuses = {} /\ info # NoInfo =>
        \A k \in 1..issued :
            InHand(k) /\ k >= info.token /\ owner[k] \in live => InHand(hash[owner[k]])

Saving   == \E p \in Callers : At(p, "save")
Writing  == \E p \in Callers : At(p, "write")
Clearing == \E p \in Callers : At(p, "forget")

\* The file is what memory is, or somebody is about to make it so; so is what is about to be
\* written, when one writes at a time.
OneWrites ==
    "crossed" \notin excuses =>
        /\ \A p, q \in Callers : p # q => ~(At(p, "write") /\ At(q, "write"))
        /\ \A p \in Callers : At(p, "write") => image[p] = info \/ Saving \/ info = NoInfo
FileFollows ==
    "unsaved" \notin excuses =>
        /\ cache = info \/ Saving \/ Writing \/ Clearing
        /\ Clearing => cache = NoInfo
        /\ info = NoInfo => cache = NoInfo /\ ~Writing

SessionInv ==
    SessionTypeOK /\ OneSession /\ Unseen /\ TokenHeld /\ OneWrites /\ FileFollows

\* A step that takes goroutine p to this place, with this token.
Moves(p, at, token, retry) ==
    /\ \A q \in Callers : q # p => call'[q] = call[q]
    /\ call'[p] = [at |-> at, token |-> token, retry |-> retry]
    /\ call' = [q \in Callers |-> call'[q]]

\* The ways the actions write it.
LEMMA GoMoves ==
    ASSUME SessionTypeOK, NEW p \in Callers, NEW at, Go(p, at)
    PROVE  Moves(p, at, call[p].token, call[p].retry)
  <1>1. call \in [Callers -> CallType]
    BY DEF SessionTypeOK, CallsOK, CallType
  <1> QED
    BY <1>1 DEF Go, Moves, CallType

LEMMA BeginMoves ==
    ASSUME SessionTypeOK, NEW p \in Callers, NEW at, Begin(p, at)
    PROVE  Moves(p, at, 0, FALSE)
  <1>1. call \in [Callers -> CallType]
    BY DEF SessionTypeOK, CallsOK, CallType
  <1> QED
    BY <1>1 DEF Begin, Rest, Moves, CallType

LEMMA DoneMoves ==
    ASSUME SessionTypeOK, NEW p \in Callers, Done(p)
    PROVE  Moves(p, "idle", 0, FALSE)
  <1>1. call \in [Callers -> CallType]
    BY DEF SessionTypeOK, CallsOK, CallType
  <1> QED
    BY <1>1 DEF Done, Rest, Moves, CallType

LEMMA StampMoves ==
    ASSUME SessionTypeOK, NEW p \in Callers, NEW at, NEW k,
           call' = [call EXCEPT ![p].at = at, ![p].token = k]
    PROVE  Moves(p, at, k, call[p].retry)
  <1>1. call \in [Callers -> CallType]
    BY DEF SessionTypeOK, CallsOK, CallType
  <1> QED
    BY <1>1 DEF Moves, CallType

LEMMA FreshMoves ==
    ASSUME SessionTypeOK, NEW p \in Callers, NEW at, NEW k,
           call' = [call EXCEPT ![p] = [Rest EXCEPT !.at = at, !.token = k]]
    PROVE  Moves(p, at, k, FALSE)
  <1>1. call \in [Callers -> CallType]
    BY DEF SessionTypeOK, CallsOK, CallType
  <1> QED
    BY <1>1 DEF Moves, CallType, Rest

LEMMA RecordMoves ==
    ASSUME SessionTypeOK, NEW p \in Callers, NEW at, NEW k, NEW r,
           call' = [call EXCEPT ![p] = [at |-> at, token |-> k, retry |-> r]]
    PROVE  Moves(p, at, k, r)
  BY DEF Moves, CallType, SessionTypeOK, CallsOK

\* Where goroutine p is afterwards.
LEMMA MovesTo ==
    ASSUME NEW p \in Callers, NEW at, NEW token, NEW retry, Moves(p, at, token, retry)
    PROVE  /\ call'[p].at = at /\ call'[p].token = token /\ call'[p].retry = retry
           /\ \A q \in Callers : q # p => call'[q] = call[q]
  BY DEF Moves

\* Such a step keeps the calls well formed.
LEMMA CallsTyped ==
    ASSUME SessionTypeOK, NEW p \in Callers, NEW at \in Places, NEW k \in 0..issued',
           NEW r \in BOOLEAN,
           issued \in 0..issued', issued' \in 0..MaxTokens,
           Moves(p, at, k, r), at \in WithToken => k # 0
    PROVE  CallsOK'
  <1>1. call \in [Callers -> CallType]
    BY DEF SessionTypeOK, CallsOK, CallType
  <1> QED
    BY <1>1, ClientSessionAssumption DEF Moves, CallType, SessionTypeOK, CallsOK

LEMMA CallTyped ==
    ASSUME SessionTypeOK, NEW p \in Callers
    PROVE  /\ call[p].at \in Places /\ call[p].token \in 0..issued /\ call[p].retry \in BOOLEAN
           /\ info.token \in 0..issued /\ (info # NoInfo => info.token \in 1..issued)
           /\ issued \in Nat /\ 0 \in 0..issued /\ issued \in 0..issued /\ issued \in 0..MaxTokens
  BY ClientSessionAssumption DEF SessionTypeOK, CallsOK, CallType, Infos, NoInfo

LEMMA TokenReal ==
    ASSUME SessionTypeOK, NEW p \in Callers, call[p].at \in WithToken
    PROVE  call[p].token \in 1..issued /\ call[p].token # 0
  BY ClientSessionAssumption DEF SessionTypeOK, CallsOK, CallType

\* What the server has changes only in that a session ends.
LEMMA SessionStays ==
    ASSUME OneSession, UNCHANGED <<owner, hash, issued>>, \A k \in live' : k \in live
    PROVE  OneSession'
  BY DEF OneSession

\* No session begins, and the client goes on with tokens it has.
LEMMA UnseenStays ==
    ASSUME SessionTypeOK, Unseen, UNCHANGED <<owner, hash, issued>>,
           NEW p \in Callers, NEW at, NEW token, NEW retry, Moves(p, at, token, retry),
           at # "signed in", token \in {0, info.token, call[p].token},
           info'.token \in {0, info.token, call[p].token}
    PROVE  Unseen'
  <1> SUFFICES ASSUME NEW q \in Callers, call'[q].at = "signed in"
               PROVE  LET k == call'[q].token IN
                      /\ hash[k] = k
                      /\ \A j \in 1..issued : owner[j] = k => j = k
                      /\ info'.token # k
                      /\ \A r \in Callers : r # q => call'[r].token # k
    BY DEF Unseen, At
  <1>1. q # p /\ call'[q] = call[q] /\ call'[p].token = token
    BY MovesTo
  <1>2. call[q].token # 0
    BY <1>1, TokenReal DEF WithToken
  <1>3. /\ hash[call[q].token] = call[q].token
        /\ \A j \in 1..issued : owner[j] = call[q].token => j = call[q].token
        /\ info.token # call[q].token
        /\ \A r \in Callers : r # q => call[r].token # call[q].token
    BY <1>1 DEF Unseen, At
  <1>4. \A r \in Callers : r # q => call'[r].token # call[q].token
    <2>1. \A r \in Callers : r # p => call'[r] = call[r]
      BY MovesTo
    <2>2. token # call[q].token
      BY <1>1, <1>2, <1>3
    <2> QED
      BY <1>1, <1>3, <2>1, <2>2
  <1> QED
    BY <1>1, <1>2, <1>3, <1>4

\* No answer is got or stored.
LEMMA HeldStays ==
    ASSUME SessionTypeOK, TokenHeld, UNCHANGED <<owner, hash, issued, info>>,
           \A k \in live' : k \in live,
           WrongTokens \cap excuses' = {} => WrongTokens \cap excuses = {},
           NEW p \in Callers, NEW at, NEW token, NEW retry, Moves(p, at, token, retry),
           at # "answer", call[p].at # "answer"
    PROVE  TokenHeld'
  <1>1. \A q \in Callers : At(q, "answer")' <=> At(q, "answer")
    BY MovesTo DEF At
  <1>2. \A q \in Callers : At(q, "answer") => call'[q] = call[q]
    BY MovesTo DEF At
  <1>3. \A k : InHand(k)' <=> InHand(k)
    BY <1>1, <1>2 DEF InHand
  <1> QED
    BY <1>3 DEF TokenHeld

\* Nobody begins or ends to save, to write or to clear.
LEMMA FileStays ==
    ASSUME SessionTypeOK, OneWrites, FileFollows, UNCHANGED <<info, cache, image>>,
           "crossed" \in excuses' <=> "crossed" \in excuses,
           "unsaved" \in excuses' <=> "unsaved" \in excuses,
           NEW p \in Callers, NEW at, NEW token, NEW retry, Moves(p, at, token, retry),
           at \notin {"write", "forget"}, call[p].at \notin {"save", "write", "forget"}
    PROVE  OneWrites' /\ FileFollows'
  <1>1. \A q \in Callers : At(q, "write")' <=> At(q, "write")
    BY MovesTo DEF At
  <1>2. \A q \in Callers : At(q, "forget")' <=> At(q, "forget")
    BY MovesTo DEF At
  <1>3. Saving => Saving'
    BY MovesTo DEF At, Saving
  <1>4. (Writing' <=> Writing) /\ (Clearing' <=> Clearing)
    BY <1>1, <1>2 DEF Writing, Clearing
  <1> QED
    BY <1>1, <1>3, <1>4 DEF OneWrites, FileFollows

\* The steps of a call that only ask, or are answered with a refusal.
LEMMA AskingKeeps ==
    ASSUME SessionInv, NEW p \in Callers, NEW at \in Places, NEW token \in {0, info.token, call[p].token},
           NEW retry \in BOOLEAN, Moves(p, at, token, retry), at \in WithToken => token # 0,
           at \notin {"signed in", "answer", "write", "forget"},
           call[p].at \notin {"answer", "save", "write", "forget"},
           UNCHANGED <<owner, hash, issued, info, cache, image, excuses>>,
           \A k \in live' : k \in live
    PROVE  SessionInv'
  <1>1. CallsOK'
    BY ZenonT(60), CallsTyped, CallTyped DEF SessionInv
  <1>7. \A q \in Callers : At(q, "write")' => At(q, "write")
    BY ZenonT(60), MovesTo DEF At
  <1>2. SessionTypeOK'
    BY <1>1, <1>7 DEF SessionInv, SessionTypeOK, Infos
  <1>3. OneSession'
    BY SessionStays DEF SessionInv
  <1>4. Unseen'
    BY UnseenStays DEF SessionInv
  <1>5. TokenHeld'
    BY HeldStays DEF SessionInv
  <1>6. OneWrites' /\ FileFollows'
    BY FileStays DEF SessionInv
  <1> QED
    BY <1>2, <1>3, <1>4, <1>5, <1>6 DEF SessionInv

LEMMA LoginKeeps ==
    ASSUME SessionInv, NEW p \in Callers, Login(p) \/ Verify(p) \/ Request(p) \/ Served(p)
    PROVE  SessionInv'
  <1>t. SessionTypeOK
    BY DEF SessionInv
  <1>1. /\ UNCHANGED <<live, owner, hash, issued, info, cache, image, excuses>>
        /\ call[p].at \in {"idle", "request"}
    BY DEF Login, Verify, Request, Served, OnlyCall, serverVars_, At
  <1>2. \/ \E at \in {"login", "save", "refused", "idle"} : Moves(p, at, 0, FALSE)
        \/ Moves(p, "request", info.token, FALSE)
    BY <1>t, BeginMoves, DoneMoves, RecordMoves DEF Login, Verify, Request, Served
  <1> QED
    BY <1>1, <1>2, AskingKeeps DEF Places, WithToken

LEMMA RefreshAsksKeeps ==
    ASSUME SessionInv, NEW p \in Callers, RefreshSends(p) \/ RefreshReads(p) \/ Deactivate(p)
    PROVE  SessionInv'
  <1>t. SessionTypeOK
    BY DEF SessionInv
  <1>1. /\ UNCHANGED <<owner, hash, issued, info, cache, image, excuses>>
        /\ call[p].at \in {"idle", "refused", "refresh"}
        /\ \A k \in live' : k \in live
    BY DEF RefreshSends, RefreshReads, Deactivate, OnlyCall, serverVars_, At
  <1>2. \/ \E at \in {"clear", "idle"} : Moves(p, at, 0, FALSE)
        \/ Moves(p, "refresh", info.token, FALSE) /\ info # NoInfo
        \/ Moves(p, "granted", call[p].token, call[p].retry) /\ call[p].at = "refresh"
    BY <1>t, BeginMoves, DoneMoves, RecordMoves, GoMoves
    DEF RefreshSends, RefreshReads, Deactivate, At
  <1>3. info # NoInfo => info.token # 0
    BY <1>t, CallTyped
  <1>4. call[p].at = "refresh" => call[p].token # 0
    BY <1>t, TokenReal DEF WithToken
  <1>5. call[p].retry \in BOOLEAN
    BY <1>t, CallTyped
  <1> QED
    BY <1>1, <1>2, <1>3, <1>4, <1>5, AskingKeeps DEF Places, WithToken

LEMMA LostKeeps ==
    ASSUME SessionInv, NEW p \in Callers, Lost(p)
    PROVE  SessionInv'
  <1>t. SessionTypeOK /\ OneSession /\ Unseen /\ TokenHeld /\ OneWrites /\ FileFollows
    BY DEF SessionInv
  <1>1. /\ UNCHANGED <<live, owner, hash, issued, info, cache, image>>
        /\ call[p].at \in {"login", "request", "refresh", "answer", "signed in"}
        /\ excuses' = IF At(p, "answer") THEN excuses \cup {"lost"} ELSE excuses
    BY DEF Lost, serverVars_
  <1>2. Moves(p, "idle", 0, FALSE)
    BY <1>t, DoneMoves DEF Lost
  <1>3. CASE call[p].at # "answer"
    BY <1>1, <1>2, <1>3, AskingKeeps DEF Places, WithToken, At
  <1>4. CASE call[p].at = "answer"
    <2>1. CallsOK'
      BY <1>t, <1>1, <1>2, CallsTyped, CallTyped DEF Places, WithToken
    <2>2. excuses' = excuses \cup {"lost"}
      BY <1>1, <1>4 DEF At
    <2>7. \A q \in Callers : At(q, "write")' => At(q, "write")
      BY ZenonT(60), <1>2, MovesTo DEF At
    <2>3. SessionTypeOK'
      BY <1>t, <1>1, <2>1, <2>2, <2>7 DEF SessionTypeOK, Infos, Excuses
    <2>4. OneSession' /\ Unseen'
      BY <1>t, <1>1, <1>2, SessionStays, UnseenStays
    <2>5. TokenHeld'
      BY <2>2 DEF TokenHeld, WrongTokens
    <2>6. OneWrites' /\ FileFollows'
      BY <1>t, <1>1, <1>2, <1>4, <2>2, FileStays
    <2> QED
      BY <2>3, <2>4, <2>5, <2>6 DEF SessionInv
  <1> QED
    BY <1>3, <1>4

\* The token issued next is new.
LEMMA NextToken ==
    ASSUME SessionTypeOK, issued < MaxTokens
    PROVE  /\ issued \in Nat /\ issued + 1 \in Nat /\ issued < issued + 1
           /\ issued + 1 \in 1..(issued + 1) /\ issued + 1 <= MaxTokens /\ issued + 1 \in Tokens
           /\ \A n \in 0..issued : n # issued + 1
           /\ \A n \in 1..issued : n \in Tokens /\ n # issued + 1
  <1>1. issued \in Nat /\ MaxTokens \in Nat
    BY ClientSessionAssumption DEF SessionTypeOK
  <1> QED
    BY <1>1 DEF Tokens

\* The type of what a step leaves alone, when it issues a token or not.
LEMMA StillTyped ==
    ASSUME SessionTypeOK, issued' \in 0..MaxTokens, issued \in 0..issued', live' \subseteq 1..issued',
           owner' \in [Tokens -> 0..issued'], hash' \in [Tokens -> 0..issued'],
           UNCHANGED <<info, cache, image>>, excuses' \subseteq Excuses, CallsOK',
           \A q \in Callers : At(q, "write")' => At(q, "write")
    PROVE  SessionTypeOK'
  <1>1. issued \in Nat /\ issued' \in Nat /\ issued <= issued'
    BY ClientSessionAssumption DEF SessionTypeOK
  <1>2. \A n \in 1..issued : n \in 1..issued'
    BY <1>1
  <1>3. \A i \in Infos : i \in Infos'
    BY <1>2 DEF Infos
  <1>4. info' \in Infos' /\ cache' \in Infos' /\ image' \in [Callers -> Infos']
    BY <1>3 DEF SessionTypeOK
  <1> QED
    BY <1>4 DEF SessionTypeOK

LEMMA LoginServedKeeps ==
    ASSUME SessionInv, NEW p \in Callers, LoginServed(p)
    PROVE  SessionInv'
  <1>t. SessionTypeOK /\ OneSession /\ Unseen /\ TokenHeld /\ OneWrites /\ FileFollows
    BY DEF SessionInv
  <1>1. call[p].at = "login" /\ issued < MaxTokens /\ UNCHANGED <<info, cache, image, excuses>>
    BY DEF LoginServed, At
  <1>2. CASE ~granted
    <2>1. Moves(p, "idle", 0, FALSE) /\ UNCHANGED <<live, owner, hash, issued>>
      BY <1>2, <1>t, DoneMoves DEF LoginServed, serverVars_
    <2> QED
      BY <1>1, <2>1, AskingKeeps DEF Places, WithToken
  <1>3. CASE granted
    <2>1. PICK k : k = issued + 1
      OBVIOUS
    <2>2. /\ live' = {k} /\ issued' = k
          /\ owner' = [owner EXCEPT ![k] = k] /\ hash' = [hash EXCEPT ![k] = k]
      BY <1>3, <2>1 DEF LoginServed, IssueSession_
    <2>3. Moves(p, "signed in", k, FALSE)
      BY <1>3, <1>t, <2>1, FreshMoves DEF LoginServed
    <2>4. issued \in Nat /\ k \in Nat /\ k \in 1..k /\ issued < k /\ k <= MaxTokens /\ k \in Tokens
      BY <1>1, <1>t, <2>1, ClientSessionAssumption DEF SessionTypeOK, Tokens
    <2>5. CallsOK'
      <3>1. k \in 0..issued' /\ issued \in 0..issued' /\ issued' \in 0..MaxTokens /\ k # 0
        BY <2>2, <2>4, ClientSessionAssumption
      <3> QED
        BY <1>t, <2>3, <3>1, CallsTyped DEF Places
    <2>6. \A q \in Callers : q # p => call'[q] = call[q]
      BY <2>3, MovesTo
    <2>7. call'[p].at = "signed in" /\ call'[p].token = k
      BY <2>3, MovesTo
    <2>8. owner \in [Tokens -> 0..issued] /\ hash \in [Tokens -> 0..issued]
      BY <1>t DEF SessionTypeOK
    <2>9. SessionTypeOK'
      <3>1. \A q \in Callers : At(q, "write")' => At(q, "write")
        BY <2>6, <2>7 DEF At
      <3>2. owner' \in [Tokens -> 0..issued'] /\ hash' \in [Tokens -> 0..issued']
        BY <2>2, <2>4, <2>8
      <3>3. issued' \in 0..MaxTokens /\ issued \in 0..issued' /\ live' \subseteq 1..issued'
        BY <2>2, <2>4, ClientSessionAssumption
      <3>4. excuses' \subseteq Excuses
        BY <1>1, <1>t DEF SessionTypeOK
      <3> QED
        BY <1>1, <1>t, <2>5, <3>1, <3>2, <3>3, <3>4, StillTyped
    <2>10. \A j \in 1..k : /\ owner'[j] = k => j = k
                           /\ j # k => j \in 1..issued /\ owner'[j] = owner[j]
      <3> SUFFICES ASSUME NEW j \in 1..k
                   PROVE  /\ owner'[j] = k => j = k
                          /\ j # k => j \in 1..issued /\ owner'[j] = owner[j]
        OBVIOUS
      <3>1. CASE j = k
        BY <3>1
      <3>2. CASE j # k
        <4>1. j \in 1..issued /\ j \in Tokens
          BY <2>1, <2>4, <3>2, ClientSessionAssumption DEF Tokens
        <4>2. owner'[j] = owner[j] /\ owner[j] \in 0..issued
          BY <2>2, <2>8, <3>2, <4>1
        <4> QED
          BY <2>4, <3>2, <4>1, <4>2
      <3> QED
        BY <3>1, <3>2
    <2>11. owner'[k] = k /\ hash'[k] = k
      BY <2>2, <2>4, <2>8
    <2>12. OneSession'
      BY <2>2, <2>4, <2>10, <2>11 DEF OneSession
    <2>13. info.token \in 0..issued /\ \A q \in Callers : call[q].token \in 0..issued
      BY <1>t, CallTyped
    <2>14. Unseen'
      <3> SUFFICES ASSUME NEW q \in Callers, call'[q].at = "signed in"
                   PROVE  LET t == call'[q].token IN
                          /\ hash'[t] = t
                          /\ \A j \in 1..issued' : owner'[j] = t => j = t
                          /\ info'.token # t
                          /\ \A r \in Callers : r # q => call'[r].token # t
        BY DEF Unseen, At
      <3>1. CASE q = p
        <4>1. call'[q].token = k
          BY <2>7, <3>1
        <4>2. \A j \in 1..issued' : owner'[j] = k => j = k
          BY <2>2, <2>10
        <4>3. info.token # k
          BY <1>1, <1>t, <2>1, <2>13, NextToken
        <4>4. \A r \in Callers : r # q => call'[r].token # k
          <5>1. \A r \in Callers : call[r].token # k
            BY <1>1, <1>t, <2>1, <2>13, NextToken
          <5> QED
            BY <2>6, <3>1, <5>1
        <4> QED
          BY <1>1, <2>11, <4>1, <4>2, <4>3, <4>4
      <3>2. CASE q # p
        <4>1. call'[q] = call[q] /\ call[q].at = "signed in"
          BY <2>6, <3>2
        <4>2. PICK t \in 1..issued : t = call[q].token
          BY <1>t, <4>1, TokenReal DEF WithToken
        <4>3. /\ hash[t] = t /\ info.token # t
              /\ \A j \in 1..issued : owner[j] = t => j = t
              /\ \A r \in Callers : r # q => call[r].token # t
          BY <1>t, <4>1, <4>2 DEF Unseen, At
        <4>7. t # k /\ t \in Tokens
          BY <1>1, <1>t, <2>1, <4>2, NextToken
        <4>4. hash'[t] = t /\ t # k
          BY <2>2, <2>8, <4>3, <4>7
        <4>5. \A j \in 1..issued' : owner'[j] = t => j = t
          BY <2>2, <2>10, <2>11, <4>3, <4>4
        <4>6. \A r \in Callers : r # q => call'[r].token # t
          BY <2>6, <2>7, <4>3, <4>4
        <4> QED
          BY <1>1, <4>1, <4>2, <4>3, <4>4, <4>5, <4>6
      <3> QED
        BY <3>1, <3>2
    <2>15. TokenHeld'
      <3>1. ASSUME NEW j \in 1..k, InHand(j)', owner'[j] = k PROVE FALSE
        <4>1. j = k
          BY <2>10, <3>1
        <4>2. \A q \in Callers : call'[q].at = "answer" => call'[q] = call[q]
          BY <2>6, <2>7
        <4> QED
          BY <1>1, <2>4, <2>13, <3>1, <4>1, <4>2 DEF InHand, At
      <3> QED
        BY <2>2, <3>1 DEF TokenHeld
    <2>16. OneWrites' /\ FileFollows'
      BY <1>t, <1>1, <2>3, FileStays
    <2> QED
      BY <2>9, <2>12, <2>14, <2>15, <2>16 DEF SessionInv
  <1> QED
    BY <1>2, <1>3

LEMMA LoginStoredKeeps ==
    ASSUME SessionInv, NEW p \in Callers, LoginStored(p)
    PROVE  SessionInv'
  <1>t. SessionTypeOK /\ OneSession /\ Unseen /\ TokenHeld /\ OneWrites /\ FileFollows
    BY DEF SessionInv
  <1>1. call[p].at = "signed in" /\ UNCHANGED <<live, owner, hash, issued, cache, image>>
    BY DEF LoginStored, At, serverVars_
  <1>2. PICK k \in 1..issued : k = call[p].token
    BY <1>1, <1>t, TokenReal DEF WithToken
  <1>3. /\ info' = [token |-> k, signed |-> k]
        /\ excuses' = IF k \in live THEN excuses \ WrongTokens ELSE excuses \cup {"overtaken"}
    BY <1>2 DEF LoginStored
  <1>4. Moves(p, "save", 0, FALSE)
    BY <1>t, BeginMoves DEF LoginStored
  <1>5. /\ hash[k] = k /\ \A j \in 1..issued : owner[j] = k => j = k
    BY <1>1, <1>2, <1>t DEF Unseen, At
  <1>6. info' \in Infos' /\ info' # NoInfo /\ info'.token = k
    <2>1. info' \in [token : 1..issued, signed : 1..issued] /\ info'.token = k /\ k # 0
      BY <1>2, <1>3
    <2>2. info' # NoInfo
      BY <2>1 DEF NoInfo
    <2> QED
      BY <1>1, <2>1, <2>2 DEF Infos
  <1>7. \A q \in Callers : At(q, "write")' <=> At(q, "write")
    BY ZenonT(60), <1>1, <1>4, MovesTo DEF At
  <1>8. SessionTypeOK'
    <2>1. CallsOK'
      BY <1>1, <1>4, <1>t, CallsTyped, CallTyped DEF Places, WithToken
    <2>2. excuses' \subseteq Excuses
      BY <1>3, <1>t DEF SessionTypeOK, Excuses
    <2> QED
      BY <1>1, <1>6, <1>7, <1>t, <2>1, <2>2 DEF SessionTypeOK, Infos
  <1>9. OneSession'
    BY <1>1, <1>t, SessionStays
  <1>10. Unseen'
    BY <1>1, <1>2, <1>4, <1>6, <1>t, UnseenStays
  <1>11. TokenHeld'
    <2>1. CASE k \in live
      <3>1. \A j \in 1..issued : owner[j] \in live => owner[j] = k
        BY <1>t, <2>1 DEF OneSession
      <3>2. InHand(k)'
        BY <1>6 DEF InHand
      <3> QED
        BY <1>1, <1>5, <3>1, <3>2 DEF TokenHeld
    <2>2. CASE k \notin live
      BY <1>3, <2>2 DEF TokenHeld, WrongTokens
    <2> QED
      BY <2>1, <2>2
  <1>12. Saving' /\ (Writing' <=> Writing) /\ (Clearing' <=> Clearing)
    <2>1. \A q \in Callers : At(q, "forget")' <=> At(q, "forget")
      BY ZenonT(60), <1>1, <1>4, MovesTo DEF At
    <2>2. At(p, "save")'
      BY <1>4, MovesTo DEF At
    <2> QED
      BY <1>7, <2>1, <2>2 DEF Saving, Writing, Clearing
  <1>13. /\ "crossed" \in excuses' <=> "crossed" \in excuses
         /\ "unsaved" \in excuses' <=> "unsaved" \in excuses
    BY <1>3 DEF WrongTokens
  <1>14. OneWrites' /\ FileFollows'
    BY <1>1, <1>6, <1>7, <1>12, <1>13, <1>t DEF OneWrites, FileFollows
  <1> QED
    BY <1>8, <1>9, <1>10, <1>11, <1>14 DEF SessionInv

LEMMA RefreshWritesKeeps ==
    ASSUME SessionInv, NEW p \in Callers, RefreshWrites(p)
    PROVE  SessionInv'
  <1>t. SessionTypeOK /\ OneSession /\ Unseen /\ TokenHeld /\ OneWrites /\ FileFollows
    BY DEF SessionInv
  <1>1. call[p].at = "granted" /\ UNCHANGED <<live, info, cache, image, excuses>>
    BY DEF RefreshWrites, At
  <1>2. PICK c \in 1..issued : c = call[p].token
    BY <1>1, <1>t, TokenReal DEF WithToken
  <1>3. PICK s, k : s = owner[c] /\ k = issued + 1
    OBVIOUS
  <1>4. /\ k <= MaxTokens /\ issued' = k /\ owner' = [owner EXCEPT ![k] = s]
        /\ hash' = IF s \in live THEN [hash EXCEPT ![s] = k] ELSE hash
    BY <1>2, <1>3 DEF RefreshWrites
  <1>5. Moves(p, "answer", k, call[p].retry) /\ call[p].retry \in BOOLEAN
    BY <1>t, <1>3, StampMoves, CallTyped DEF RefreshWrites
  <1>61. issued \in 0..MaxTokens /\ owner \in [Tokens -> 0..issued] /\ hash \in [Tokens -> 0..issued]
    BY <1>t DEF SessionTypeOK
  <1>6. /\ issued \in Nat /\ k \in Nat /\ k \in 1..k /\ issued < k /\ k \in Tokens /\ c \in Tokens
        /\ owner \in [Tokens -> 0..issued] /\ hash \in [Tokens -> 0..issued]
    <2>1. issued < MaxTokens
      BY <1>3, <1>4, <1>61, ClientSessionAssumption
    <2> QED
      BY <1>t, <1>2, <1>3, <1>61, <2>1, NextToken
  <1>62. \A n \in 1..issued : n \in Tokens /\ n # k
    <2>1. issued < MaxTokens
      BY <1>3, <1>4, <1>61, ClientSessionAssumption
    <2> QED
      BY <1>t, <1>3, <2>1, NextToken
  <1>7. s \in 0..issued /\ (s \in live => s \in 1..issued /\ s \in Tokens)
    BY <1>3, <1>6, <1>t, ClientSessionAssumption DEF SessionTypeOK, Tokens
  <1>8. \A q \in Callers : q # p => call'[q] = call[q]
    BY <1>5, MovesTo
  <1>9. call'[p].at = "answer" /\ call'[p].token = k
    BY <1>5, MovesTo
  <1>10. SessionTypeOK'
    <2>1. CallsOK'
      <3>1. k \in 0..issued' /\ issued \in 0..issued' /\ issued' \in 0..MaxTokens /\ k # 0
        BY <1>4, <1>6, ClientSessionAssumption
      <3> QED
        BY <1>t, <1>5, <3>1, CallsTyped DEF Places
    <2>2. \A q \in Callers : At(q, "write")' => At(q, "write")
      BY <1>8, <1>9 DEF At
    <2>3. owner' \in [Tokens -> 0..issued']
      BY <1>4, <1>6, <1>7
    <2>4. hash' \in [Tokens -> 0..issued']
      BY <1>4, <1>6, <1>7
    <2>5. issued' \in 0..MaxTokens /\ issued \in 0..issued' /\ live' \subseteq 1..issued'
      BY <1>1, <1>4, <1>6, <1>t, ClientSessionAssumption DEF SessionTypeOK
    <2>6. excuses' \subseteq Excuses
      BY <1>1, <1>t DEF SessionTypeOK
    <2> QED
      BY <1>1, <1>t, <2>1, <2>2, <2>3, <2>4, <2>5, <2>6, StillTyped
  <1>11. owner'[k] = s /\ (s \in live => hash'[s] = k)
    BY <1>4, <1>6, <1>7
  <1>12. \A j \in 1..k : j # k => j \in 1..issued /\ j \in Tokens /\ owner'[j] = owner[j]
    <2> SUFFICES ASSUME NEW j \in 1..k, j # k
                 PROVE  j \in 1..issued /\ j \in Tokens /\ owner'[j] = owner[j]
      OBVIOUS
    <2>1. j \in 1..issued /\ j \in Tokens
      BY <1>3, <1>6, ClientSessionAssumption DEF Tokens
    <2> QED
      BY <1>4, <1>6, <2>1
  <1>13. \A j \in 1..issued : owner[j] \in live => owner[j] = s \/ s \notin live
    BY <1>t DEF OneSession
  <1>14. OneSession'
    <2>1. \A j \in 1..issued : owner[j] \in live => j <= hash[owner[j]]
      BY <1>t DEF OneSession
    <2>2. ASSUME NEW j \in 1..k, owner'[j] \in live PROVE j <= hash'[owner'[j]]
      <3>1. CASE j = k \/ s \in live
        <4>1. owner'[j] = s /\ s \in live
          BY <1>11, <1>12, <1>13, <2>2, <3>1
        <4> QED
          BY <1>6, <1>11, <4>1
      <3>2. CASE j # k /\ s \notin live
        BY <1>4, <1>12, <2>1, <2>2, <3>2
      <3> QED
        BY <3>1, <3>2
    <2> QED
      BY <1>1, <1>4, <1>t, <2>2 DEF OneSession
  <1>15. Unseen'
    <2> SUFFICES ASSUME NEW q \in Callers, call'[q].at = "signed in"
                 PROVE  LET t == call'[q].token IN
                        /\ hash'[t] = t
                        /\ \A j \in 1..issued' : owner'[j] = t => j = t
                        /\ info'.token # t
                        /\ \A r \in Callers : r # q => call'[r].token # t
      BY DEF Unseen, At
    <2>1. q # p /\ call'[q] = call[q] /\ call[q].at = "signed in"
      BY <1>8, <1>9
    <2>2. PICK t \in 1..issued : t = call[q].token
      BY <1>t, <2>1, TokenReal DEF WithToken
    <2>3. /\ hash[t] = t /\ info.token # t
          /\ \A j \in 1..issued : owner[j] = t => j = t
          /\ \A r \in Callers : r # q => call[r].token # t
      BY <1>t, <2>1, <2>2 DEF Unseen, At
    <2>8. c # t
      BY <1>2, <2>1, <2>3
    <2>4. s # t /\ k # t
      <3>1. s # t
        BY <1>2, <1>3, <2>3, <2>8
      <3>2. k # t
        BY <1>62, <2>2
      <3> QED
        BY <3>1, <3>2
    <2>5. hash'[t] = t
      <3>1. t \in Tokens
        BY <1>62, <2>2
      <3> QED
        BY <1>4, <1>6, <2>3, <2>4, <3>1
    <2>6. \A j \in 1..issued' : owner'[j] = t => j = t
      BY <1>4, <1>11, <1>12, <2>3, <2>4
    <2>7. \A r \in Callers : r # q => call'[r].token # t
      BY <1>8, <1>9, <2>3, <2>4
    <2> QED
      BY <1>1, <2>1, <2>2, <2>3, <2>5, <2>6, <2>7
  <1>16. TokenHeld'
    <2> SUFFICES ASSUME WrongTokens \cap excuses = {}, info # NoInfo,
                        NEW j \in 1..k, InHand(j)', j >= info.token, owner'[j] \in live,
                        NEW h, h = hash'[owner'[j]]
                 PROVE  InHand(h)'
      <3>1. info' = info /\ live' = live /\ issued' = k /\ excuses' = excuses
        BY <1>1, <1>4
      <3> QED
        BY <3>1 DEF TokenHeld
    <2>1. InHand(k)'
      BY <1>9 DEF InHand, At
    <2>2. CASE j = k \/ s \in live
      <3>1. owner'[j] = s /\ s \in live
        BY <1>11, <1>12, <1>13, <2>2
      <3>2. h = k
        BY <1>11, <3>1
      <3> QED
        BY <2>1, <3>2
    <2>3. CASE j # k /\ s \notin live
      <3>1. j \in 1..issued /\ owner'[j] = owner[j] /\ hash' = hash
        BY <1>4, <1>12, <2>3
      <3>2. InHand(j)
        BY <1>1, <1>8, <1>9, <2>3 DEF InHand, At
      <3>3. InHand(h)
        BY <1>t, <3>1, <3>2 DEF TokenHeld
      <3>4. \A q \in Callers : call[q].at = "answer" => call'[q] = call[q]
        BY <1>1, <1>8
      <3> QED
        BY <1>1, <3>3, <3>4 DEF InHand, At
    <2> QED
      BY <2>2, <2>3
  <1>17. OneWrites' /\ FileFollows'
    BY <1>t, <1>1, <1>5, FileStays
  <1> QED
    BY <1>10, <1>14, <1>15, <1>16, <1>17 DEF SessionInv

LEMMA RefreshStoredKeeps ==
    ASSUME SessionInv, NEW p \in Callers, RefreshStored(p)
    PROVE  SessionInv'
  <1>t. SessionTypeOK /\ OneSession /\ Unseen /\ TokenHeld /\ OneWrites /\ FileFollows
    BY DEF SessionInv
  <1>1. call[p].at = "answer" /\ UNCHANGED <<live, owner, hash, issued, cache>>
    BY DEF RefreshStored, At, serverVars_
  <1>2. PICK k \in 1..issued : k = call[p].token
    BY <1>1, <1>t, TokenReal DEF WithToken
  <1>3. OneSession'
    BY <1>1, <1>t, SessionStays
  <1>4. CASE info = NoInfo
    <2>1. UNCHANGED <<info, image, excuses>> /\ Moves(p, "idle", 0, FALSE)
      BY <1>4, <1>t, DoneMoves DEF RefreshStored
    <2>2. CallsOK'
      BY <1>1, <1>t, <2>1, CallsTyped, CallTyped DEF Places, WithToken
    <2>3. \A q \in Callers : At(q, "write")' => At(q, "write")
      BY ZenonT(60), <2>1, MovesTo DEF At
    <2>4. SessionTypeOK'
      BY <1>1, <1>t, <2>1, <2>2, <2>3 DEF SessionTypeOK, Infos
    <2>5. Unseen'
      BY <1>1, <1>t, <2>1, UnseenStays
    <2>6. TokenHeld'
      BY <1>4, <2>1 DEF TokenHeld
    <2>7. OneWrites' /\ FileFollows'
      BY <1>1, <1>t, <2>1, FileStays
    <2> QED
      BY <1>3, <2>4, <2>5, <2>6, <2>7 DEF SessionInv
  <1>5. CASE info # NoInfo
    <2>1. /\ info' = [info EXCEPT !.token = k]
          /\ image' \in {image, [q \in Callers |->
                IF At(q, "write") THEN [image[q] EXCEPT !.token = k] ELSE image[q]]}
          /\ excuses' = IF k < info.token THEN excuses \cup {"overtaken"} ELSE excuses
      BY <1>2, <1>5 DEF RefreshStored
    <2>2. Moves(p, "save", 0, TRUE)
      BY <1>5, <1>t, RecordMoves DEF RefreshStored
    <2>3. \A i \in Infos : i # NoInfo =>
              /\ [i EXCEPT !.token = k] \in Infos /\ [i EXCEPT !.token = k] # NoInfo
              /\ [i EXCEPT !.token = k].token = k /\ i.token \in 1..issued
      BY DEF Infos, NoInfo
    <2>4. info' \in Infos /\ info' # NoInfo /\ info'.token = k /\ info.token \in 1..issued
      BY <1>5, <1>t, <2>1, <2>3 DEF SessionTypeOK
    <2>5. \A q \in Callers : At(q, "write")' <=> At(q, "write")
      BY ZenonT(60), <1>1, <2>2, MovesTo DEF At
    <2>6. /\ image' \in [Callers -> Infos]
          /\ \A q \in Callers : At(q, "write") => image'[q] # NoInfo
      <3>1. /\ image \in [Callers -> Infos]
            /\ \A q \in Callers : At(q, "write") => image[q] # NoInfo
        BY <1>t DEF SessionTypeOK
      <3>2. CASE image' = image
        BY <3>1, <3>2
      <3>3. CASE image' = [q \in Callers |->
                IF At(q, "write") THEN [image[q] EXCEPT !.token = k] ELSE image[q]]
        BY <2>3, <3>1, <3>3
      <3> QED
        BY <2>1, <3>2, <3>3
    <2>7. SessionTypeOK'
      <3>1. CallsOK'
        BY <1>1, <1>t, <2>2, CallsTyped, CallTyped DEF Places, WithToken
      <3>2. Infos' = Infos
        BY <1>1 DEF Infos
      <3>3. excuses' \subseteq Excuses
        BY <1>t, <2>1 DEF SessionTypeOK, Excuses
      <3> QED
        BY <1>1, <1>t, <2>4, <2>5, <2>6, <3>1, <3>2, <3>3 DEF SessionTypeOK
    <2>8. Unseen'
      BY <1>1, <1>2, <1>t, <2>2, <2>4, UnseenStays
    <2>9. TokenHeld'
      <3> SUFFICES ASSUME WrongTokens \cap excuses' = {}, NEW j \in 1..issued, InHand(j)',
                          j >= k, owner[j] \in live
                   PROVE  InHand(hash[owner[j]])'
        BY <1>1, <2>4 DEF TokenHeld
      <3>1. WrongTokens \cap excuses = {} /\ ~(k < info.token)
        BY <2>1 DEF WrongTokens
      <3>2. \A q \in Callers : At(q, "answer")' => At(q, "answer") /\ call'[q] = call[q]
        BY ZenonT(60), <2>2, MovesTo DEF At
      <3>3. \A q \in Callers : At(q, "answer") => q = p \/ (At(q, "answer")' /\ call'[q] = call[q])
        BY <2>2, MovesTo DEF At
      <3>4. InHand(j)
        BY <1>1, <1>2, <2>4, <3>2 DEF InHand, At
      <3>5. k \in Nat /\ j \in Nat /\ info.token \in Nat /\ j >= info.token
        BY <2>4, <3>1
      <3>6. InHand(hash[owner[j]]) /\ j <= hash[owner[j]]
        BY <1>5, <1>t, <3>1, <3>4, <3>5 DEF TokenHeld, OneSession
      <3>7. CASE hash[owner[j]] = info.token
        <4>1. hash[owner[j]] = k
          BY <3>1, <3>5, <3>6, <3>7
        <4> QED
          BY <1>1, <2>4, <4>1 DEF InHand
      <3>8. CASE \E q \in Callers : At(q, "answer") /\ call[q].token = hash[owner[j]]
        <4>1. PICK h : h = hash[owner[j]]
          OBVIOUS
        <4>2. InHand(h)'
          BY <1>2, <2>4, <3>3, <3>8, <4>1 DEF InHand
        <4> QED
          BY <1>1, <4>1, <4>2
      <3> QED
        BY <3>6, <3>7, <3>8 DEF InHand
    <2>10. Saving' /\ (Writing' <=> Writing) /\ (Clearing' <=> Clearing)
      <3>1. \A q \in Callers : At(q, "forget")' <=> At(q, "forget")
        BY ZenonT(60), <1>1, <2>2, MovesTo DEF At
      <3>2. At(p, "save")'
        BY <2>2, MovesTo DEF At
      <3> QED
        BY <2>5, <3>1, <3>2 DEF Saving, Writing, Clearing
    <2>11. /\ "crossed" \in excuses' <=> "crossed" \in excuses
           /\ "unsaved" \in excuses' <=> "unsaved" \in excuses
      BY <2>1
    <2>12. OneWrites' /\ FileFollows'
      BY <1>1, <1>t, <2>4, <2>5, <2>10, <2>11 DEF OneWrites, FileFollows
    <2> QED
      BY <1>3, <2>7, <2>8, <2>9, <2>12 DEF SessionInv
  <1> QED
    BY <1>4, <1>5


LEMMA SaveCacheKeeps ==
    ASSUME SessionInv, NEW p \in Callers, SaveCache(p)
    PROVE  SessionInv'
  <1>t. SessionTypeOK /\ OneSession /\ Unseen /\ TokenHeld /\ OneWrites /\ FileFollows
    BY DEF SessionInv
  <1>1. call[p].at = "save" /\ UNCHANGED <<live, owner, hash, issued, info, cache>>
    BY DEF SaveCache, At, serverVars_
  <1>2. OneSession'
    BY <1>1, <1>t, SessionStays
  <1>3. CASE info = NoInfo
    <2>1. UNCHANGED <<image, excuses>> /\ Moves(p, "idle", 0, FALSE)
      BY <1>3, <1>t, DoneMoves DEF SaveCache
    <2>2. CallsOK'
      BY <1>1, <1>t, <2>1, CallsTyped, CallTyped DEF Places, WithToken
    <2>3. \A q \in Callers : (At(q, "write")' <=> At(q, "write")) /\ (At(q, "forget")' <=> At(q, "forget"))
      BY ZenonT(60), <1>1, <2>1, MovesTo DEF At
    <2>4. SessionTypeOK'
      BY <1>1, <1>t, <2>1, <2>2, <2>3 DEF SessionTypeOK, Infos
    <2>5. Unseen' /\ TokenHeld'
      BY <1>1, <1>t, <2>1, UnseenStays, HeldStays
    <2>6. OneWrites' /\ FileFollows'
      <3>1. (Writing' <=> Writing) /\ (Clearing' <=> Clearing)
        BY <2>3 DEF Writing, Clearing
      <3> QED
        BY <1>1, <1>3, <1>t, <2>1, <2>3, <3>1 DEF OneWrites, FileFollows
    <2> QED
      BY <1>2, <2>4, <2>5, <2>6 DEF SessionInv
  <1>4. CASE info # NoInfo
    <2>1. /\ image' = [image EXCEPT ![p] = info]
          /\ excuses' = IF \E q \in Callers \ {p} : At(q, "write")
                        THEN excuses \cup {"crossed"} ELSE excuses \ {"crossed"}
      BY <1>4 DEF SaveCache
    <2>2. Moves(p, "write", call[p].token, call[p].retry)
      BY <1>4, <1>t, GoMoves DEF SaveCache
    <2>3. CallsOK'
      BY <1>1, <1>t, <2>2, CallsTyped, CallTyped DEF Places, WithToken
    <2>4. /\ At(p, "write")' /\ ~At(p, "write")
          /\ \A q \in Callers : /\ q # p => (At(q, "write")' <=> At(q, "write"))
                                /\ At(q, "forget")' <=> At(q, "forget")
      BY <1>1, <2>2, MovesTo DEF At
    <2>5. /\ image' \in [Callers -> Infos] /\ image'[p] = info
          /\ \A q \in Callers : q # p => image'[q] = image[q]
      BY <1>t, <2>1 DEF SessionTypeOK
    <2>6. SessionTypeOK'
      <3>1. excuses' \subseteq Excuses
        BY <1>t, <2>1 DEF SessionTypeOK, Excuses
      <3> QED
        BY <1>1, <1>4, <1>t, <2>3, <2>4, <2>5, <3>1 DEF SessionTypeOK, Infos
    <2>7. Unseen'
      BY <1>1, <1>t, <2>2, UnseenStays
    <2>8. TokenHeld'
      <3>1. WrongTokens \cap excuses' = {} => WrongTokens \cap excuses = {}
        BY <2>1 DEF WrongTokens
      <3> QED
        BY <1>1, <1>t, <2>2, <3>1, HeldStays
    <2>9. OneWrites'
      <3> SUFFICES ASSUME "crossed" \notin excuses'
                   PROVE  /\ \A q, r \in Callers : q # r => ~(At(q, "write")' /\ At(r, "write")')
                          /\ \A q \in Callers : At(q, "write")' => image'[q] = info
        BY <1>1 DEF OneWrites
      <3>1. \A q \in Callers : q # p => ~At(q, "write")
        BY <2>1
      <3> QED
        BY <2>4, <2>5, <3>1
    <2>10. FileFollows'
      <3>1. "unsaved" \in excuses' <=> "unsaved" \in excuses
        BY <2>1
      <3>2. Writing' /\ (Clearing' <=> Clearing)
        BY <2>4 DEF Writing, Clearing
      <3> QED
        BY <1>1, <1>4, <1>t, <3>1, <3>2 DEF FileFollows
    <2> QED
      BY <1>2, <2>6, <2>7, <2>8, <2>9, <2>10 DEF SessionInv
  <1> QED
    BY <1>3, <1>4

LEMMA WriteCacheKeeps ==
    ASSUME SessionInv, NEW p \in Callers, WriteCache(p)
    PROVE  SessionInv'
  <1>t. SessionTypeOK /\ OneSession /\ Unseen /\ TokenHeld /\ OneWrites /\ FileFollows
    BY DEF SessionInv
  <1>1. /\ call[p].at = "write" /\ UNCHANGED <<live, owner, hash, issued, info>>
        /\ cache' \in {image[p], cache, NoInfo} /\ image' = [image EXCEPT ![p] = NoInfo]
        /\ excuses' = IF \/ cache' # image[p] \/ "crossed" \in excuses
                         \/ info = NoInfo \/ \E q \in Callers : At(q, "forget")
                      THEN excuses \cup {"unsaved"} ELSE excuses \ {"unsaved"}
    BY DEF WriteCache, At, serverVars_
  <1>2. Moves(p, "request", info.token, call[p].retry) \/ Moves(p, "idle", 0, FALSE)
    BY <1>t, StampMoves, DoneMoves DEF WriteCache
  <1>3. PICK at \in {"request", "idle"}, token \in {0, info.token}, retry \in {FALSE, call[p].retry} :
            Moves(p, at, token, retry)
    BY <1>2
  <1>4. /\ at \in Places /\ at \notin WithToken /\ at \notin {"save", "write", "forget"}
        /\ retry \in BOOLEAN
    BY <1>t, CallTyped DEF Places, WithToken
  <1>5. /\ ~At(p, "write")'
        /\ \A q \in Callers : /\ q # p => (At(q, "write")' <=> At(q, "write"))
                              /\ At(q, "forget")' <=> At(q, "forget")
                              /\ At(q, "save")' <=> At(q, "save")
    BY <1>1, <1>3, <1>4, MovesTo DEF At
  <1>6. /\ image \in [Callers -> Infos] /\ NoInfo \in Infos
        /\ \A q \in Callers : At(q, "write") => image[q] # NoInfo
    BY <1>t DEF SessionTypeOK, Infos
  <1>7. image' \in [Callers -> Infos] /\ \A q \in Callers : q # p => image'[q] = image[q]
    BY <1>1, <1>6
  <1>8. SessionTypeOK'
    <2>1. token \in 0..issued
      BY <1>t, CallTyped
    <2>2. CallsOK'
      BY <1>1, <1>3, <1>4, <1>t, <2>1, CallsTyped, CallTyped
    <2>3. excuses' \subseteq Excuses
      BY <1>1, <1>t DEF SessionTypeOK, Excuses
    <2>4. cache' \in Infos /\ Infos' = Infos
      BY <1>1, <1>6, <1>t DEF SessionTypeOK, Infos
    <2> QED
      BY <1>1, <1>5, <1>6, <1>7, <1>t, <2>2, <2>3, <2>4 DEF SessionTypeOK
  <1>9. OneSession'
    BY <1>1, <1>t, SessionStays
  <1>10. Unseen'
    <2>1. at # "signed in" /\ token \in {0, info.token, call[p].token}
      OBVIOUS
    <2> QED
      BY <1>1, <1>3, <1>t, <2>1, UnseenStays
  <1>11. TokenHeld'
    <2>1. at # "answer"
      OBVIOUS
    <2>2. WrongTokens \cap excuses' = {} => WrongTokens \cap excuses = {}
      BY <1>1 DEF WrongTokens
    <2> QED
      BY <1>1, <1>3, <1>t, <2>1, <2>2, HeldStays
  <1>12. Saving' <=> Saving
    BY <1>5 DEF Saving
  <1>13. Clearing' <=> Clearing
    BY <1>5 DEF Clearing
  <1>14. OneWrites'
    <2> SUFFICES ASSUME "crossed" \notin excuses'
                 PROVE  /\ \A q, r \in Callers : q # r => ~(At(q, "write")' /\ At(r, "write")')
                        /\ \A q \in Callers : At(q, "write")' => image'[q] = info \/ Saving' \/ info = NoInfo
      BY <1>1 DEF OneWrites
    <2>1. "crossed" \notin excuses
      BY <1>1
    <2>2. \A q \in Callers : At(q, "write")' => q # p /\ At(q, "write") /\ image'[q] = image[q]
      BY <1>5, <1>7
    <2> QED
      BY <1>12, <1>t, <2>1, <2>2 DEF OneWrites
  <1>15. FileFollows'
    <2> SUFFICES ASSUME "unsaved" \notin excuses'
                 PROVE  (cache' = info \/ Saving') /\ ~Clearing' /\ info # NoInfo
      BY <1>1 DEF FileFollows
    <2>1. cache' = image[p] /\ "crossed" \notin excuses /\ info # NoInfo /\ ~Clearing
      BY <1>1 DEF Clearing
    <2>2. At(p, "write")
      BY <1>1 DEF At
    <2>3. image[p] = info \/ Saving
      BY <1>t, <2>1, <2>2 DEF OneWrites
    <2> QED
      BY <1>12, <1>13, <2>1, <2>3
  <1> QED
    BY <1>8, <1>9, <1>10, <1>11, <1>14, <1>15 DEF SessionInv

LEMMA ClearCacheKeeps ==
    ASSUME SessionInv, NEW p \in Callers, ClearCache(p)
    PROVE  SessionInv'
  <1>t. SessionTypeOK /\ OneSession /\ Unseen /\ TokenHeld /\ OneWrites /\ FileFollows
    BY DEF SessionInv
  <1>1. /\ call[p].at = "clear" /\ UNCHANGED <<live, owner, hash, issued, info, image>>
        /\ \/ cache' = NoInfo /\ UNCHANGED excuses
           \/ excuses' = excuses \cup {"unsaved"} /\ UNCHANGED cache
    BY DEF ClearCache, At, serverVars_
  <1>2. Moves(p, "forget", call[p].token, call[p].retry)
    BY <1>t, GoMoves DEF ClearCache
  <1>3. \A q \in Callers : /\ At(q, "write")' <=> At(q, "write")
                           /\ At(q, "save")' <=> At(q, "save")
    BY <1>1, <1>2, MovesTo DEF At
  <1>4. At(p, "forget")'
    BY <1>2, MovesTo DEF At
  <1>5. SessionTypeOK'
    <2>1. CallsOK'
      BY ZenonT(60), <1>1, <1>2, <1>t, CallsTyped, CallTyped DEF Places, WithToken
    <2>2. excuses' \subseteq Excuses
      BY <1>1, <1>t DEF SessionTypeOK, Excuses
    <2> QED
      BY <1>1, <1>3, <1>t, <2>1, <2>2 DEF SessionTypeOK, Infos
  <1>6. OneSession' /\ Unseen'
    BY <1>1, <1>2, <1>t, SessionStays, UnseenStays
  <1>7. TokenHeld'
    <2>1. WrongTokens \cap excuses' = {} => WrongTokens \cap excuses = {}
      BY <1>1 DEF WrongTokens
    <2> QED
      BY <1>1, <1>2, <1>t, <2>1, HeldStays
  <1>8. (Saving' <=> Saving) /\ (Writing' <=> Writing) /\ Clearing'
    BY <1>3, <1>4 DEF Saving, Writing, Clearing
  <1>9. OneWrites'
    <2>1. "crossed" \in excuses' <=> "crossed" \in excuses
      BY <1>1
    <2> QED
      BY <1>1, <1>3, <1>8, <1>t, <2>1 DEF OneWrites
  <1>10. FileFollows'
    BY <1>1, <1>8, <1>t DEF FileFollows
  <1> QED
    BY <1>5, <1>6, <1>7, <1>9, <1>10 DEF SessionInv

LEMMA ForgetKeeps ==
    ASSUME SessionInv, NEW p \in Callers, Forget(p)
    PROVE  SessionInv'
  <1>t. SessionTypeOK /\ OneSession /\ Unseen /\ TokenHeld /\ OneWrites /\ FileFollows
    BY DEF SessionInv
  <1>1. /\ call[p].at = "forget" /\ UNCHANGED <<live, owner, hash, issued, cache, image>>
        /\ info' = NoInfo
        /\ excuses' = IF \E q \in Callers : At(q, "write") THEN excuses \cup {"unsaved"} ELSE excuses
    BY DEF Forget, At, serverVars_
  <1>2. Moves(p, "idle", 0, FALSE)
    BY <1>t, DoneMoves DEF Forget
  <1>3. \A q \in Callers : At(q, "write")' <=> At(q, "write")
    BY ZenonT(60), <1>1, <1>2, MovesTo DEF At
  <1>4. SessionTypeOK'
    <2>1. CallsOK'
      BY <1>1, <1>2, <1>t, CallsTyped, CallTyped DEF Places, WithToken
    <2>2. excuses' \subseteq Excuses
      BY <1>1, <1>t DEF SessionTypeOK, Excuses
    <2>3. info' \in Infos /\ Infos' = Infos
      BY <1>1 DEF Infos
    <2> QED
      BY <1>1, <1>3, <1>t, <2>1, <2>2, <2>3 DEF SessionTypeOK
  <1>5. OneSession'
    BY <1>1, <1>t, SessionStays
  <1>6. Unseen'
    <2>1. info'.token = 0
      BY <1>1 DEF NoInfo
    <2> QED
      BY <1>1, <1>2, <1>t, <2>1, UnseenStays
  <1>7. TokenHeld' /\ OneWrites'
    <2>1. \A q, r \in Callers : q # r /\ "crossed" \notin excuses' => ~(At(q, "write")' /\ At(r, "write")')
      BY <1>1, <1>3, <1>t DEF OneWrites
    <2> QED
      BY <1>1, <2>1 DEF TokenHeld, OneWrites, NoInfo
  <1>8. FileFollows'
    <2> SUFFICES ASSUME "unsaved" \notin excuses'
                 PROVE  cache = NoInfo /\ ~Writing'
      BY <1>1 DEF FileFollows
    <2>1. "unsaved" \notin excuses /\ \A q \in Callers : ~At(q, "write")
      BY <1>1
    <2>2. Clearing
      BY <1>1 DEF Clearing, At
    <2> QED
      BY <1>3, <1>t, <2>1, <2>2 DEF FileFollows, Writing
  <1> QED
    BY <1>4, <1>5, <1>6, <1>7, <1>8 DEF SessionInv

LEMMA RestartKeeps ==
    ASSUME SessionInv, Restart
    PROVE  SessionInv'
  <1>t. SessionTypeOK /\ OneSession /\ Unseen /\ TokenHeld /\ OneWrites /\ FileFollows
    BY DEF SessionInv
  <1>1. /\ UNCHANGED <<live, owner, hash, issued>>
        /\ call' = [p \in Callers |-> Rest] /\ image' = [p \in Callers |-> NoInfo]
    BY DEF Restart, serverVars_
  <1>2. excuses' =
          (excuses \ {"crossed", "unsaved"})
          \cup (IF \/ "unsaved" \in excuses
                   \/ \E p \in Callers : call[p].at \in {"refresh", "granted", "answer", "save", "write"}
                THEN {"cut"} ELSE {})
          \cup (IF cache' # info' THEN {"unsaved"} ELSE {})
    BY DEF Restart
  <1>3. PICK file \in {cache} \cup (IF \E p \in Callers : At(p, "write") THEN {NoInfo} ELSE {})
                           \cup {image[p] : p \in {q \in Callers : At(q, "write")}} :
            info' \in {NoInfo, file} /\ cache' \in {NoInfo, file}
    BY DEF Restart
  <1>4. \A p \in Callers : call'[p] = Rest /\ image'[p] = NoInfo
    BY <1>1
  <1>5. \A p \in Callers : call'[p].at = "idle"
    BY <1>4 DEF Rest
  <1>6. SessionTypeOK'
    <2>1. NoInfo \in Infos /\ cache \in Infos /\ image \in [Callers -> Infos] /\ issued \in 0..MaxTokens
      BY <1>t DEF SessionTypeOK, Infos
    <2>2. file \in Infos
      BY <1>3, <2>1
    <2>3. info' \in Infos /\ cache' \in Infos /\ image' \in [Callers -> Infos] /\ Infos' = Infos
      BY <1>1, <1>3, <2>1, <2>2 DEF Infos
    <2>4. CallsOK'
      <3>1. 0 \in 0..issued
        BY <2>1, ClientSessionAssumption
      <3>2. Rest \in CallType'
        BY <1>1, <3>1 DEF Rest, CallType, Places
      <3> QED
        BY <1>1, <1>5, <3>2 DEF CallsOK, WithToken
    <2>5. excuses' \subseteq Excuses
      BY <1>2, <1>t DEF SessionTypeOK, Excuses
    <2> QED
      BY <1>1, <1>5, <1>t, <2>3, <2>4, <2>5 DEF SessionTypeOK, At
  <1>7. OneSession'
    BY <1>1, <1>t, SessionStays
  <1>8. Unseen' /\ OneWrites'
    BY <1>5 DEF Unseen, OneWrites, At
  <1>9. ~Saving' /\ ~Writing' /\ ~Clearing'
    BY <1>5 DEF Saving, Writing, Clearing, At
  <1>10. FileFollows'
    <2>1. "unsaved" \notin excuses' => cache' = info'
      BY <1>2
    <2> QED
      BY <1>9, <2>1 DEF FileFollows
  <1>11. TokenHeld'
    <2> SUFFICES ASSUME WrongTokens \cap excuses' = {}, info' # NoInfo,
                        NEW k \in 1..issued, InHand(k)', owner[k] \in live,
                        NEW h, h = hash[owner[k]]
                 PROVE  InHand(h)'
      BY <1>1 DEF TokenHeld
    <2>1. "cut" \notin excuses' /\ WrongTokens \cap excuses = {}
      BY <1>2 DEF WrongTokens
    <2>2. /\ "unsaved" \notin excuses
          /\ \A p \in Callers : call[p].at \notin {"refresh", "granted", "answer", "save", "write"}
      BY <1>2, <2>1
    <2>3. ~Saving /\ ~Writing /\ \A p \in Callers : ~At(p, "write") /\ ~At(p, "answer")
      BY <2>2 DEF Saving, Writing, At
    <2>4. cache = info \/ cache = NoInfo
      BY <1>t, <2>2, <2>3 DEF FileFollows
    <2>5. file = cache
      BY <1>3, <2>3
    <2>6. info' = info
      BY <1>3, <2>4, <2>5
    <2>7. k = info.token
      BY <1>5, <2>6 DEF InHand, At
    <2>8. info.token \in Nat /\ k >= info.token
      BY <1>t, <2>7, CallTyped
    <2>9. InHand(h)
      BY <1>t, <2>1, <2>6, <2>7, <2>8 DEF TokenHeld, InHand
    <2> QED
      BY <2>3, <2>6, <2>9 DEF InHand
  <1> QED
    BY <1>6, <1>7, <1>8, <1>10, <1>11 DEF SessionInv

\* Time passes, the administrator decides, or nothing happens.
LEMMA OutsideKeeps ==
    ASSUME SessionInv, TokenExpires \/ Withdraw \/ UNCHANGED sessionVars
    PROVE  SessionInv'
  <1>1. /\ UNCHANGED <<owner, hash, issued, info, cache, call, image, excuses>>
        /\ \A k \in live' : k \in live
    BY DEF TokenExpires, Withdraw, sessionVars
  <1>2. SessionTypeOK /\ OneSession /\ Unseen /\ TokenHeld /\ OneWrites /\ FileFollows
    BY DEF SessionInv
  <1>3. SessionTypeOK'
    BY <1>1, <1>2 DEF SessionTypeOK, CallsOK, CallType, Infos, At
  <1>4. OneSession'
    BY <1>1, <1>2, SessionStays
  <1>5. Unseen' /\ TokenHeld'
    BY ZenonT(60), <1>1, <1>2 DEF Unseen, TokenHeld, InHand, At
  <1>6. OneWrites' /\ FileFollows'
    BY <1>1, <1>2 DEF OneWrites, FileFollows, Saving, Writing, Clearing, At
  <1> QED
    BY <1>3, <1>4, <1>5, <1>6 DEF SessionInv

\* In every run, one session lives and has the newest token it was given; the client holds
\* that token unless tokens were stored over newer ones, lost or cut off; and the file
\* follows memory unless a write failed or crossed another.  This is what refreshClientSession,
\* saveCache and clearCache of sdk/go/license_client.go and ClientRefresh of
\* internal/handler/client_session.go keep up between them.
THEOREM SessionInvariant == SessionSpec => []SessionInv
  <1>1. SessionInit => SessionInv
    <2> SUFFICES ASSUME SessionInit PROVE SessionInv
      OBVIOUS
    <2>1. /\ live = {} /\ issued = 0 /\ info = NoInfo /\ cache = NoInfo /\ excuses = {}
          /\ \A p \in Callers : call[p] = Rest /\ call[p].at = "idle" /\ image[p] = NoInfo
          /\ call = [p \in Callers |-> Rest] /\ image = [p \in Callers |-> NoInfo]
          /\ owner = [k \in Tokens |-> 0] /\ hash = [k \in Tokens |-> 0]
      BY DEF SessionInit, Rest
    <2>2. issued \in 0..MaxTokens /\ 0 \in 0..issued
      BY <2>1, ClientSessionAssumption
    <2>3. Rest \in CallType /\ NoInfo \in Infos
      BY <2>2 DEF Rest, CallType, Places, Infos
    <2>4. SessionTypeOK
      BY <2>1, <2>2, <2>3 DEF SessionTypeOK, CallsOK, WithToken, At
    <2>7. OneSession
      BY <2>1 DEF OneSession
    <2>8. Unseen
      BY <2>1 DEF Unseen, At
    <2>5. TokenHeld
      BY <2>1 DEF TokenHeld
    <2>6. OneWrites /\ FileFollows
      BY <2>1 DEF OneWrites, FileFollows, Writing, Clearing, At
    <2> QED
      BY <2>4, <2>5, <2>6, <2>7, <2>8 DEF SessionInv
  <1>2. SessionInv /\ [SessionNext]_sessionVars => SessionInv'
    <2> SUFFICES ASSUME SessionInv, [SessionNext]_sessionVars
                 PROVE  SessionInv'
      OBVIOUS
    <2>1. CASE Restart
      BY <2>1, RestartKeeps
    <2>2. CASE TokenExpires \/ Withdraw \/ UNCHANGED sessionVars
      BY <2>2, OutsideKeeps
    <2>3. ASSUME NEW p \in Callers, Login(p) \/ Verify(p) \/ Request(p) \/ Served(p) PROVE SessionInv'
      BY <2>3, LoginKeeps
    <2>4. ASSUME NEW p \in Callers, LoginServed(p) PROVE SessionInv'
      BY <2>4, LoginServedKeeps
    <2>5. ASSUME NEW p \in Callers, LoginStored(p) PROVE SessionInv'
      BY <2>5, LoginStoredKeeps
    <2>6. ASSUME NEW p \in Callers, RefreshSends(p) \/ RefreshReads(p) \/ Deactivate(p) PROVE SessionInv'
      BY <2>6, RefreshAsksKeeps
    <2>7. ASSUME NEW p \in Callers, RefreshWrites(p) PROVE SessionInv'
      BY <2>7, RefreshWritesKeeps
    <2>8. ASSUME NEW p \in Callers, RefreshStored(p) PROVE SessionInv'
      BY <2>8, RefreshStoredKeeps
    <2>9. ASSUME NEW p \in Callers, SaveCache(p) PROVE SessionInv'
      BY <2>9, SaveCacheKeeps
    <2>10. ASSUME NEW p \in Callers, WriteCache(p) PROVE SessionInv'
      BY <2>10, WriteCacheKeeps
    <2>11. ASSUME NEW p \in Callers, Lost(p) PROVE SessionInv'
      BY <2>11, LostKeeps
    <2>12. ASSUME NEW p \in Callers, ClearCache(p) PROVE SessionInv'
      BY <2>12, ClearCacheKeeps
    <2>13. ASSUME NEW p \in Callers, Forget(p) PROVE SessionInv'
      BY <2>13, ForgetKeeps
    <2> QED
      BY <2>1, <2>2, <2>3, <2>4, <2>5, <2>6, <2>7, <2>8, <2>9, <2>10, <2>11, <2>12, <2>13
      DEF SessionNext
  <1> QED
    BY <1>1, <1>2, PTL DEF SessionSpec

\* Whatever the goroutines of the application do at once, and whichever answers, writes and
\* removals fail: when no new tokens are on their way, the token in memory is the one
\* ClientRefresh will take, unless tokens were overtaken, lost or cut off since the last login
\* that was stored while its session lived; and when nobody saves or clears, the file of
\* saveCache holds what memory holds, unless the last writes failed or crossed.
THEOREM TokensInStepAlways == SessionSpec => []TokensInStep
  <1>1. SessionInv => TokensInStep
    <2> SUFFICES ASSUME SessionInv PROVE TokensInStep
      OBVIOUS
    <2>1. SessionTypeOK /\ TokenHeld /\ FileFollows
      BY DEF SessionInv
    <2>2. ASSUME \A p \in Callers : ~At(p, "answer"), WrongTokens \cap excuses = {},
                 info # NoInfo, owner[info.token] \in live
          PROVE  hash[owner[info.token]] = info.token
      <3>1. info.token \in 1..issued /\ info.token >= info.token
        BY <2>1, <2>2 DEF SessionTypeOK, Infos, NoInfo
      <3>2. InHand(info.token)
        BY DEF InHand
      <3>3. InHand(hash[owner[info.token]])
        BY <2>1, <2>2, <3>1, <3>2 DEF TokenHeld
      <3> QED
        BY <2>2, <3>3 DEF InHand
    <2>3. ASSUME \A p \in Callers : call[p].at \notin {"save", "write", "forget"},
                 "unsaved" \notin excuses
          PROVE  cache = info
      BY <2>1, <2>3 DEF FileFollows, Saving, Writing, Clearing, At
    <2> QED
      BY <2>2, <2>3 DEF TokensInStep
  <1> QED
    BY <1>1, SessionInvariant, PTL

=============================================================================
