--------------------------- MODULE Subscriptions ---------------------------
(***************************************************************************)
(* One e-mail address, the customer it belongs to, the customer's          *)
(* subscriptions of one application and the devices bound to them:         *)
(* internal/handler/client.go, subscription.go and customer.go.            *)
(*                                                                         *)
(* Most handlers read a row, decide, and Save every column of their copy;  *)
(* a Save of a row deleted meanwhile inserts it again.  A login counts the *)
(* devices and binds one under a lock of the subscription's row.  A step   *)
(* is one transaction or one statement, and a login is split where it has  *)
(* counted and not yet written.  Administrators' requests overlap with     *)
(* each other and with those of the devices.  Left out: the blacklist and  *)
(* the number of unbinds (module License treats both), plans and features. *)
(* MUTx definitions are plausible mistakes.                                *)
(***************************************************************************)
EXTENDS Integers, FiniteSets

CONSTANTS
    Machines,      \* machine ids
    Admins,        \* requests of administrators that run at one time
    Subs,          \* subscriptions there may be
    SeatLimits,    \* the values of max_devices an administrator may enter
    MaxTime,       \* bound: days that pass
    Nobody         \* the holder of a free row lock

ASSUME SubscriptionsAssumption ==
    /\ Nobody \notin Machines /\ IsFiniteSet(Machines)
    /\ MaxTime \in Nat /\ SeatLimits \subseteq Nat

VARIABLES
    day,           \* the time
    customer,      \* the row of customers
    sub,           \* the rows of subscriptions
    holder,        \* who holds the lock of each subscription's row
    seat,          \* the row of devices of each subscription and machine
    login,         \* the ClientLogin of each machine
    report,        \* its SubscriptionHeartbeat or SubscriptionVerify
    account,       \* the ClientChangePassword a device is running
    admin,         \* the requests of administrators that have read a row
    besides        \* what clients of this behaviour do besides logging in

subscriptionVars ==
    <<day, customer, sub, holder, seat, login, report, account, admin, besides>>

Never   == MaxTime + 2                \* no expire_at
NoSub   == [row |-> "none", status |-> "active", expire |-> Never, max |-> 1]
NoLogin == [at |-> "idle", sub |-> CHOOSE s \in Subs : TRUE, copy |-> NoSub]
NobodyYet == [row |-> "none", status |-> "active"]
NoRequest == [op |-> "idle", sub |-> NoLogin.sub, copy |-> NoSub, who |-> NobodyYet]

SubscriptionsInit ==
    /\ day = 0
    /\ customer = NobodyYet
    /\ sub = [s \in Subs |-> NoSub]
    /\ holder = [s \in Subs |-> Nobody]
    /\ seat = [s \in Subs |-> [m \in Machines |-> "none"]]
    /\ login = [m \in Machines |-> NoLogin]
    /\ report = [m \in Machines |-> NoLogin]
    /\ account = [op |-> "idle", who |-> NobodyYet]
    /\ admin = [a \in Admins |-> NoRequest]
    /\ besides \in {"nothing", "reports", "passwords"}

Begin_(a, request) == admin[a].op = "idle" /\ admin' = [admin EXCEPT ![a] = request]
End(a)             == admin' = [admin EXCEPT ![a] = NoRequest]

SubsOnly     == UNCHANGED <<day, customer, report, account, besides>>
Valid(row)   == row.status = "active" /\ day <= row.expire
Unlocked(s)  == holder[s] = Nobody
Seated(s)    == {m \in Machines : seat[s][m] = "live"}

\* Save of a copy: all columns, and INSERT ... ON DUPLICATE KEY UPDATE when the row is
\* deleted.
SaveSub(s, copy) == Unlocked(s) /\ sub' = [sub EXCEPT ![s] = [copy EXCEPT !.row = "live"]]

-----------------------------------------------------------------------------
(* Accounts.                                                               *)

\* The address must be new, deleted customers included; a subscription without end
\* comes with it.
ClientRegister(s) ==
    /\ customer.row = "none" /\ sub[s].row = "none"
    /\ customer' = [row |-> "live", status |-> "active"]
    /\ sub' = [sub EXCEPT ![s] = [NoSub EXCEPT !.row = "live"]]
    /\ UNCHANGED <<day, holder, seat, login, report, account, admin, besides>>

\* Create of customer.go, by the administrator: the address of a deleted customer is
\* freed first.
CreateCustomer ==
    /\ customer.row \in {"none", "deleted"}
    /\ customer' = [row |-> "live", status |-> "active"]
    /\ UNCHANGED <<day, sub, holder, seat, login, report, account, admin, besides>>

\* A device that is logged in changes the password: reads the customer, and saves it.
ClientChangePassword ==
    \/ /\ besides = "passwords" /\ account.op = "idle" /\ customer.row = "live"
       /\ \E s \in Subs : Seated(s) # {}
       /\ account' = [op |-> "password", who |-> customer]
       /\ UNCHANGED customer
    \/ /\ account.op = "password"
       /\ customer' = account.who
       /\ account' = [op |-> "idle", who |-> NobodyYet]

PasswordStep ==
    ClientChangePassword /\ UNCHANGED <<day, sub, holder, seat, login, report, admin, besides>>

\* Disable, Enable and ResetPassword read the customer ...
ReadCustomer(a, op) ==
    /\ customer.row = "live"
    /\ Begin_(a, [NoRequest EXCEPT !.op = op, !.who = customer])
    /\ UNCHANGED <<day, customer, sub, holder, seat, login, report, account, besides>>

\* ... and save it.
SaveCustomer(a, op) ==
    /\ admin[a].op = op
    /\ customer' = [admin[a].who EXCEPT !.status = CASE op = "disable" -> "disabled"
                                                     [] op = "enable"  -> "active"
                                                     [] op = "reset"   -> @]
    /\ End(a)
    /\ UNCHANGED <<day, sub, holder, seat, login, report, account, besides>>

\* Update changes the columns it is given.
UpdateCustomer(status) ==
    /\ customer.row = "live"
    /\ customer' = [customer EXCEPT !.status = status]
    /\ UNCHANGED <<day, sub, holder, seat, login, report, account, admin, besides>>

\* The devices, the subscriptions and the customer, in one transaction.
DeleteCustomer ==
    /\ customer.row = "live" /\ \A s \in Subs : Unlocked(s)
    /\ customer' = [customer EXCEPT !.row = "deleted"]
    /\ sub' = [s \in Subs |-> IF sub[s].row = "live"
                              THEN [sub[s] EXCEPT !.row = "deleted"] ELSE sub[s]]
    /\ seat' = [s \in Subs |-> [m \in Machines |->
                   IF seat[s][m] = "live" THEN "deleted" ELSE seat[s][m]]]
    /\ UNCHANGED <<day, holder, login, report, account, admin, besides>>

-----------------------------------------------------------------------------
(* ClientLogin.                                                            *)

\* The customer, then one of the subscriptions that are marked active.
LoginReads(m) ==
    /\ login[m].at = "idle"
    /\ customer = [row |-> "live", status |-> "active"]
    /\ \E s \in Subs :
          /\ sub[s].row = "live" /\ sub[s].status = "active"
          /\ login' = [login EXCEPT ![m] =
                [at |-> IF Valid(sub[s]) THEN "bind" ELSE "expire", sub |-> s, copy |-> sub[s]]]
    /\ SubsOnly /\ UNCHANGED <<sub, holder, seat, admin>>

\* A subscription that has run out is saved as expired, as it was read.
LoginExpires(m) ==
    LET s == login[m].sub IN
    /\ login[m].at = "expire"
    /\ SaveSub(s, [login[m].copy EXCEPT !.status = "expired"])
    /\ login' = [login EXCEPT ![m] = NoLogin]
    /\ SubsOnly /\ UNCHANGED <<holder, seat, admin>>

MUTLoginCounts(m) ==
    LET s == login[m].sub IN
    /\ login[m].at = "bind" /\ Unlocked(s)
    /\ sub[s].row = "live" /\ Valid(sub[s])
    /\ seat[s][m] = "live" \/ Cardinality(Seated(s)) < sub[s].max
    /\ login' = [login EXCEPT ![m].at = IF seat[s][m] = "live" THEN "again" ELSE "first"]
    /\ SubsOnly /\ UNCHANGED <<sub, holder, seat, admin>>

\* Under the lock: still valid, and a device that is not bound needs room.
LoginCounts(m) ==
    LET s == login[m].sub IN
    /\ login[m].at = "bind" /\ Unlocked(s)
    /\ sub[s].row = "live" /\ Valid(sub[s])
    /\ seat[s][m] = "live" \/ Cardinality(Seated(s)) < sub[s].max
    /\ holder' = [holder EXCEPT ![s] = m]
    /\ login' = [login EXCEPT ![m].at = IF seat[s][m] = "live" THEN "again" ELSE "first"]
    /\ SubsOnly /\ UNCHANGED <<sub, seat, admin>>

LoginRefused(m) ==
    LET s == login[m].sub IN
    /\ login[m].at = "bind" /\ Unlocked(s)
    /\ \/ sub[s].row # "live" \/ ~Valid(sub[s])
       \/ seat[s][m] # "live" /\ Cardinality(Seated(s)) >= sub[s].max
    /\ login' = [login EXCEPT ![m] = NoLogin]
    /\ SubsOnly /\ UNCHANGED <<sub, holder, seat, admin>>

Locked(m) == login[m].at \in {"first", "again"}

\* The device is updated, restored or created (updateClientDeviceForActivation,
\* restoreDeletedSubscriptionDevice), or the transaction fails.
LoginCommits(m) ==
    LET s == login[m].sub IN
    /\ Locked(m)
    /\ \/ seat' = [seat EXCEPT ![s][m] = "live"]
       \/ UNCHANGED seat
    /\ holder' = [holder EXCEPT ![s] = IF @ = m THEN Nobody ELSE @]
    /\ login' = [login EXCEPT ![m] = NoLogin]
    /\ SubsOnly /\ UNCHANGED <<sub, admin>>

-----------------------------------------------------------------------------
(* SubscriptionHeartbeat and SubscriptionVerify find a device with a valid *)
(* subscription, not looking at the customer, and Save it.                 *)

BeginReport(m) ==
    /\ besides = "reports" /\ report[m].at = "idle"
    /\ \E s \in Subs :
          /\ seat[s][m] = "live" /\ sub[s].row = "live" /\ Valid(sub[s])
          /\ report' = [report EXCEPT ![m] = [NoLogin EXCEPT !.at = "save", !.sub = s]]
    /\ UNCHANGED <<day, customer, sub, holder, seat, login, account, admin, besides>>

ReportSaves(m) ==
    /\ report[m].at = "save"
    /\ seat' = [seat EXCEPT ![report[m].sub][m] = "live"]
    /\ report' = [report EXCEPT ![m] = NoLogin]
    /\ UNCHANGED <<day, customer, sub, holder, login, account, admin, besides>>

-----------------------------------------------------------------------------
(* The administration of subscriptions.                                    *)

\* The customer has no active one yet.
CreateSubscription(s) ==
    /\ customer.row = "live" /\ sub[s].row = "none"
    /\ ~ \E t \in Subs : sub[t].row = "live" /\ sub[t].status = "active"
    /\ \E n \in SeatLimits, e \in {day, MaxTime + 1, Never} :
          sub' = [sub EXCEPT ![s] =
             [row |-> "live", status |-> "active", expire |-> e, max |-> n]]
    /\ UNCHANGED <<day, customer, holder, seat, login, report, account, admin, besides>>

\* Changes columns, whatever the status was.
UpdateSubscription(s) ==
    /\ sub[s].row = "live" /\ Unlocked(s)
    /\ \/ \E n \in SeatLimits : sub' = [sub EXCEPT ![s].max = n]
       \/ \E st \in {"active", "suspended"} : sub' = [sub EXCEPT ![s].status = st]
    /\ UNCHANGED <<day, customer, holder, seat, login, report, account, admin, besides>>

\* Renew and Cancel read the subscription ...
ReadSubscription(a, op, s) ==
    /\ sub[s].row = "live"
    /\ Begin_(a, [NoRequest EXCEPT !.op = op, !.sub = s, !.copy = sub[s]])
    /\ UNCHANGED <<day, customer, sub, holder, seat, login, report, account, besides>>

MUTLater(e) == IF day > MaxTime THEN day ELSE day + 1

\* A subscription without end gets one.  Bound: no later than the day after the last.
Later(e) == LET from == IF e # Never /\ e > day THEN e ELSE day
            IN IF from > MaxTime THEN from ELSE from + 1

\* ... and save it: one day longer, and active; or cancelled.
Renew(a) ==
    /\ admin[a].op = "renew"
    /\ SaveSub(admin[a].sub, [admin[a].copy EXCEPT !.status = "active", !.expire = Later(@)])
    /\ End(a)
    /\ UNCHANGED <<day, customer, holder, seat, login, report, account, besides>>

Cancel(a) ==
    /\ admin[a].op = "cancel"
    /\ SaveSub(admin[a].sub, [admin[a].copy EXCEPT !.status = "cancelled"])
    /\ End(a)
    /\ UNCHANGED <<day, customer, holder, seat, login, report, account, besides>>

\* The devices and the subscription, in one transaction.
DeleteSubscription(s) ==
    /\ sub[s].row = "live" /\ Unlocked(s)
    /\ sub' = [sub EXCEPT ![s].row = "deleted"]
    /\ seat' = [seat EXCEPT ![s] = [m \in Machines |->
                   IF seat[s][m] = "live" THEN "deleted" ELSE seat[s][m]]]
    /\ UNCHANGED <<day, customer, holder, login, report, account, admin, besides>>

\* UnbindCurrentDevice of a client, or Unbind by an administrator.
UnbindDevice(s, m) ==
    /\ seat[s][m] = "live"
    /\ seat' = [seat EXCEPT ![s][m] = "deleted"]
    /\ UNCHANGED <<day, customer, sub, holder, login, report, account, admin, besides>>

DayPasses ==
    /\ day < MaxTime
    /\ day' = day + 1
    /\ UNCHANGED <<customer, sub, holder, seat, login, report, account, admin, besides>>

SubscriptionsNext ==
    \/ CreateCustomer \/ DeleteCustomer \/ PasswordStep \/ DayPasses
    \/ \E a \in Admins :
          \/ Renew(a) \/ Cancel(a)
          \/ \E op \in {"disable", "enable", "reset"} : ReadCustomer(a, op) \/ SaveCustomer(a, op)
          \/ \E op \in {"renew", "cancel"}, s \in Subs : ReadSubscription(a, op, s)
    \/ \E status \in {"active", "disabled"} : UpdateCustomer(status)
    \/ \E m \in Machines : \/ LoginReads(m) \/ LoginExpires(m) \/ LoginCounts(m)
                           \/ LoginRefused(m) \/ LoginCommits(m)
                           \/ BeginReport(m) \/ ReportSaves(m)
    \/ \E s \in Subs : \/ ClientRegister(s) \/ CreateSubscription(s)
                       \/ UpdateSubscription(s) \/ DeleteSubscription(s)
                       \/ \E m \in Machines : UnbindDevice(s, m)

SubscriptionsSpec == SubscriptionsInit /\ [][SubscriptionsNext]_subscriptionVars

-----------------------------------------------------------------------------
(* Properties                                                              *)

\* A login that found its device not bound leaves no more devices bound than the
\* subscription has seats, although others log in, the limit changes and devices are
\* unbound meanwhile; no device reports, whose Save can bind an unbound one again.
SeatsWithinLimit ==
    [][\A m \in Machines, s \in Subs :
          /\ besides = "nothing" /\ login[m].at = "first" /\ login[m].sub = s
          /\ seat'[s][m] = "live" /\ seat[s][m] # "live"
          => Cardinality(Seated(s)') <= sub'[s].max]_subscriptionVars

\* What a subscription or a customer was made into is undone only by a copy read before: one
\* that has not run out ends earlier, or a deleted one is back, only by a login that had
\* found it run out and saves its copy, or by a renewal or cancellation that saves a row
\* another request has changed since it read it.  No renewal shortens what it has read, and
\* nothing else a client or an administrator does.  A customer who was disabled or deleted
\* is let in again only by an administrator who decides so, or by a change of password or an
\* administrator's request that had read another row than it overwrites.
UndoneByOldCopies ==
    [][/\ \A s \in Subs :
             \/ /\ sub[s].row = "live" /\ day <= sub[s].expire /\ sub[s].expire # Never
                /\ sub'[s].expire < sub[s].expire
             \/ sub[s].row = "deleted" /\ sub'[s].row = "live"
             => \/ \E m \in Machines : /\ login[m].at = "expire" /\ login'[m].at = "idle"
                                       /\ sub'[s].expire = login[m].copy.expire
                \/ \E a \in Admins : /\ admin[a].op \in {"renew", "cancel"} /\ admin'[a] = NoRequest
                                     /\ admin[a].sub = s /\ admin[a].copy # sub[s]
       /\ \/ customer.status = "disabled" /\ customer'.status = "active"
          \/ customer.row = "deleted" /\ customer'.row = "live"
          => \/ UNCHANGED <<account, admin>>
             \/ account.op = "password" /\ account'.op = "idle" /\ account.who # customer
             \/ \E a \in Admins : /\ admin[a].op \in {"disable", "enable", "reset"}
                                  /\ admin'[a] = NoRequest
                                  /\ admin[a].op = "enable" \/ admin[a].who # customer]_subscriptionVars
=============================================================================
