------------------------------ MODULE AutoSync ------------------------------
(***************************************************************************)
(* Automatic synchronisation of one table: AutoSyncManager of              *)
(* sdk/go/data_sync.go and the endpoint it pulls from, GetTableData of     *)
(* internal/handler/data_sync.go.                                          *)
(*                                                                         *)
(* A round asks for the rows changed since the second it remembers, gives  *)
(* them to the application, and remembers the second the server answered   *)
(* in.  Rounds of the background loop and of SyncNow may overlap, and so   *)
(* may those of a loop that was stopped and the next one; the manager's    *)
(* map is not locked.  Rows carry exact times.                             *)
(* MUTx definitions are plausible mistakes.                                *)
(***************************************************************************)
EXTENDS Integers

CONSTANTS
    Records,      \* record ids of the table
    Loops,        \* goroutines that may run rounds
    SecondTicks,  \* distinct times of one second
    EndOfTime     \* bound: ticks of the clock

ASSUME AutoSyncAssumption == SecondTicks \in Nat \ {0} /\ EndOfTime \in Nat

VARIABLES
    table,        \* when each record was last changed; 0: there is none
    now,          \* the time
    round,        \* what each goroutine is doing
    lastSync,     \* lastSyncTime of the table, in seconds
    running,      \* whether the manager is started
    loop,         \* the loop that is running, if it is
    taken,        \* records whose last change the application has taken
    late          \* records whose last change came too late: see SaveRecord

autoVars == <<table, now, round, lastSync, running, loop, taken, late>>

NoRound == [pc |-> "idle", seen |-> {}, time |-> 0]
SecondOf(t) == t \div SecondTicks

AutoInit ==
    /\ table = [r \in Records |-> 0] /\ now = 1
    /\ round = [l \in Loops |-> NoRound]
    /\ lastSync = 0
    /\ running = FALSE /\ loop \in Loops
    /\ taken = {} /\ late = {}

\* Starts a loop, unless one is running.  A loop that was stopped may still be
\* in its last round.
Start(l) ==
    /\ ~running /\ l # loop
    /\ running' = TRUE /\ loop' = l
    /\ UNCHANGED <<table, now, round, lastSync, taken, late>>

Stop ==
    /\ running /\ running' = FALSE
    /\ UNCHANGED <<table, now, round, lastSync, loop, taken, late>>

\* A round of the running loop, or of SyncNow in another goroutine.  GetTableData
\* reads the rows changed since the second the manager remembers...
GetTableData(l) ==
    /\ round[l].pc = "idle"
    /\ l = loop => running
    /\ round' = [round EXCEPT ![l] =
          [pc |-> "read", time |-> 0,
           seen |-> {<<r, table[r]>> : r \in {q \in Records : table[q] > lastSync * SecondTicks}}]]
    /\ UNCHANGED <<table, now, lastSync, running, loop, taken, late>>

\* ... and then looks at its clock; or the request fails.
Answer(l) ==
    /\ round[l].pc = "read"
    /\ \/ round' = [round EXCEPT ![l].pc = "answered", ![l].time = SecondOf(now)]
       \/ round' = [round EXCEPT ![l] = NoRound]
    /\ UNCHANGED <<table, now, lastSync, running, loop, taken, late>>

StillLast(seen) == {r \in Records : <<r, table[r]>> \in seen}

MUTSyncAll(l) ==
    /\ round[l].pc = "answered"
    /\ lastSync' = round[l].time
    /\ taken' \in {taken, taken \cup StillLast(round[l].seen)}
    /\ round' = [round EXCEPT ![l] = NoRound]
    /\ UNCHANGED <<table, now, running, loop, late>>

\* The end of the round: onPull is called if there is something to take, and when
\* it fails the manager remembers nothing.
SyncAll(l) ==
    /\ round[l].pc = "answered"
    /\ \/ lastSync' = round[l].time /\ taken' = taken \cup StillLast(round[l].seen)
       \/ round[l].seen # {} /\ UNCHANGED <<lastSync, taken>>
    /\ round' = [round EXCEPT ![l] = NoRound]
    /\ UNCHANGED <<table, now, running, loop, late>>

\* Another device saves a record.  It may come too late for a round: after the
\* rows were read and before the clock was, or in the very tick a second begins.
SaveRecord(r) ==
    /\ table[r] # now
    /\ table' = [table EXCEPT ![r] = now]
    /\ taken' = taken \ {r}
    /\ late' = IF \/ \E l \in Loops : round[l].pc = "read"
                  \/ now % SecondTicks = 0
               THEN late \cup {r} ELSE late \ {r}
    /\ UNCHANGED <<now, round, lastSync, running, loop>>

PassTime ==
    /\ now < EndOfTime
    /\ now' = now + 1
    /\ UNCHANGED <<table, round, lastSync, running, loop, taken, late>>

AutoNext ==
    \/ \E l \in Loops : Start(l) \/ GetTableData(l) \/ Answer(l) \/ SyncAll(l)
    \/ Stop \/ PassTime
    \/ \E r \in Records : SaveRecord(r)

AutoSpec == AutoInit /\ [][AutoNext]_autoVars

-----------------------------------------------------------------------------
\* Whatever rounds overlap, fail or are refused by the application, no change that
\* was there to be read is passed over: one the application has not taken is still
\* asked for by the next round, unless it came too late for an earlier one.
NothingPassedOver ==
    \A r \in Records : table[r] # 0 =>
        \/ r \in taken \cup late
        \/ table[r] > lastSync * SecondTicks
=============================================================================
