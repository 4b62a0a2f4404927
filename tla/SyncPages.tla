------------------------------ MODULE SyncPages -----------------------------
(***************************************************************************)
(* Pulling changes page by page: GetChangesPage of                         *)
(* internal/service/data_sync.go, the GetChanges handler and the loop of   *)
(* sdk/go/data_sync.go that asks for pages until there are no more.        *)
(*                                                                         *)
(* Rows carry the exact time of their last change; what the client names   *)
(* and the service merges by are whole seconds.  Only the order of rows    *)
(* matters here, so a row is its type, its key and its time.  The database *)
(* orders keys by its own rules (numbers of materials and voices, strings  *)
(* by a collation), the merge by the bytes of what the key is written as.  *)
(* MUTx definitions are plausible mistakes.                                *)
(***************************************************************************)
EXTENDS Integers, FiniteSets

CONSTANTS
    Items,        \* pairs of a type and a key, numbers in the order of the database
    Spelling,     \* the place of each key among all of them as strings
    Limit,        \* rows of a page
    TicksPerSec,  \* distinct times of one second
    MaxTick,      \* bound: ticks of the clock
    MaxWrites     \* bound: rows written once pulling has begun

Types == {i[1] : i \in Items}
Keys  == {i[2] : i \in Items}

ASSUME PagesAssumption ==
    /\ Items \subseteq Nat \X Nat /\ IsFiniteSet(Items)
    /\ Spelling \in [Keys -> Nat]
    /\ \A k, l \in Keys : Spelling[k] = Spelling[l] => k = l
    /\ Limit \in Nat \ {0} /\ TicksPerSec \in Nat \ {0}
    /\ MaxTick \in Nat \ {0} /\ MaxWrites \in Nat

VARIABLES
    rows,         \* the changed rows: [type, key, at]
    clock,        \* the time
    pull,         \* the paged pull the client is doing
    writes        \* number of rows written

pagesVars == <<rows, clock, pull, writes>>

AllTypes    == -1      \* an empty data_type
Second(t)   == t \div TicksPerSec
Resting     == [pc |-> "idle", scope |-> AllTypes, since |-> 0, offset |-> 0,
                got |-> {}, twice |-> {}, disturbed |-> FALSE]

Row(t, k, at) == [type |-> t, key |-> k, at |-> at]

\* Any table whose rows were changed until now.
PagesInit ==
    /\ clock = MaxTick - 1
    /\ \E at \in [Items -> 0..clock] :      \* 0: no such row
          rows = {Row(i[1], i[2], at[i]) : i \in {j \in Items : at[j] > 0}}
    /\ pull = Resting
    /\ writes = 0

-----------------------------------------------------------------------------
(* The service.                                                            *)

Changed(t, since) == {r \in rows : r.type = t /\ r.at > since * TicksPerSec}

\* The first n of a set of rows.
Cut(S, n, Before(_, _)) == {r \in S : Cardinality({s \in S : Before(s, r)}) < n}

\* ORDER BY updated_at and the column of the key.
ExactOrder(r, s) == r.at < s.at \/ (r.at = s.at /\ r.key < s.key)

\* get...Changes: the first n rows of a type changed since a second.
Fetched(t, since, n) == Cut(Changed(t, since), n, ExactOrder)

\* The order in which rows of several types are merged: keys are compared as strings.
MergedOrder(r, s) ==
    \/ Second(r.at) < Second(s.at)
    \/ Second(r.at) = Second(s.at) /\ r.type < s.type
    \/ Second(r.at) = Second(s.at) /\ r.type = s.type
       /\ Spelling[r.key] < Spelling[s.key]

\* Of the items fetched, those from the offset on, one page, and whether there
\* are more than that.
Page(items, offset, Before(_, _)) ==
    [items |-> Cut(items, offset + Limit, Before) \ Cut(items, offset, Before),
     more  |-> Cardinality(items) > offset + Limit]

MUTGetChangesPage(scope, since, offset) ==
    LET n == offset + Limit IN
    IF scope = AllTypes
    THEN Page(UNION {Fetched(t, since, n) : t \in Types}, offset, MergedOrder)
    ELSE Page(Fetched(scope, since, n), offset, ExactOrder)

\* One row more than the page is fetched of each type, to tell whether there are
\* more.  All types together are put in the merged order.
GetChangesPage(scope, since, offset) ==
    LET n == offset + Limit + 1 IN
    IF scope = AllTypes
    THEN Page(UNION {Fetched(t, since, n) : t \in Types}, offset, MergedOrder)
    ELSE Page(Fetched(scope, since, n), offset, ExactOrder)

-----------------------------------------------------------------------------
(* The client's paged pull.                                                *)

BeginPull(scope, since) ==
    /\ pull.pc = "idle"
    /\ pull' = [Resting EXCEPT !.pc = "paging", !.scope = scope, !.since = since]
    /\ UNCHANGED <<rows, clock, writes>>

\* getChangesByType: the next offset is where the page ended.
GetPage ==
    LET page == GetChangesPage(pull.scope, pull.since, pull.offset) IN
    /\ pull.pc = "paging"
    /\ pull' = [pull EXCEPT !.got = @ \cup page.items,
                            !.twice = @ \cup (page.items \cap pull.got),
                            !.offset = @ + Cardinality(page.items),
                            !.pc = IF page.more THEN "paging" ELSE "done"]
    /\ UNCHANGED <<rows, clock, writes>>

-----------------------------------------------------------------------------
(* Other devices, and time.                                                *)

\* Another device pushes an item.
Write(t, k) ==
    /\ writes < MaxWrites /\ Row(t, k, clock) \notin rows
    /\ rows' = {r \in rows : r.type # t \/ r.key # k} \cup {Row(t, k, clock)}
    /\ writes' = writes + 1
    /\ pull' = [pull EXCEPT !.disturbed = (pull.pc # "idle")]
    /\ UNCHANGED clock

Tick ==
    /\ clock < MaxTick
    /\ clock' = clock + 1
    /\ UNCHANGED <<rows, pull, writes>>

PagesNext ==
    \/ \E scope \in Types \cup {AllTypes}, since \in 0..Second(clock) : BeginPull(scope, since)
    \/ GetPage
    \/ \E i \in Items : Write(i[1], i[2])
    \/ Tick

PagesSpec == PagesInit /\ [][PagesNext]_pagesVars

-----------------------------------------------------------------------------
(* Properties                                                              *)

Wanted == {r \in rows : /\ pull.scope \in {AllTypes, r.type}
                        /\ r.at > pull.since * TicksPerSec}

\* The rows of a type changed within one second come in the same order from the database
\* and from the merge: they were written in the order of their keys, and keys of one time
\* are spelled in the order of their values (9 and 10 are not).
Orderly(r) ==
    \A p, q \in {s \in rows : s.type = r.type /\ Second(s.at) = Second(r.at)} :
        ExactOrder(p, q) => MergedOrder(p, q)

Undisturbed == pull.pc = "done" /\ ~pull.disturbed

\* A pull during which nothing was written has delivered every changed row and none twice,
\* whatever the page size, although each page is fetched and merged anew from the first
\* rows of each type; one of all types may skip or repeat rows of a type and second that
\* the two orders put differently, and no others (data_sync.go:83-145).
PagesComplete ==
    Undisturbed => \A r \in Wanted :
        (pull.scope = AllTypes => Orderly(r)) => r \in pull.got \ pull.twice

=============================================================================
