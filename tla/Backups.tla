------------------------------ MODULE Backups -------------------------------
(***************************************************************************)
(* The backups a customer keeps of one type of data:                       *)
(* internal/handler/client_sync.go, with PushBackup and PullBackup of the  *)
(* SDK.                                                                    *)
(*                                                                         *)
(* A push numbers the backup and makes it the current one in a transaction *)
(* that locks the customer's backups of the type.  The old ones are then   *)
(* cleaned away without a transaction, from a list read beforehand; and an *)
(* administrator may make an older backup current, which is looked up      *)
(* before the transaction that does so.                                    *)
(* MUTx definitions are plausible mistakes.                                *)
(***************************************************************************)
EXTENDS Integers, FiniteSets

CONSTANTS
    Pushers,          \* devices of the customer that push
    MaxSyncVersions,  \* backups kept
    MaxVersions       \* bound: backups pushed

ASSUME BackupsAssumption == MaxSyncVersions \in Nat \ {0} /\ MaxVersions \in Nat

VARIABLES
    versions,     \* the backups there are
    current,      \* those marked as current
    cleaning,     \* for each device, the backups its clean-up has yet to delete
    cleaned,      \* devices whose push still has to list what to delete
    choice,       \* the backup the administrator has looked up; 0: none
    pushed,       \* number of backups pushed
    crossed       \* whether a choice was made current that a clean-up may delete

backupVars == <<versions, current, cleaning, cleaned, choice, pushed, crossed>>

BackupsInit ==
    /\ versions = {} /\ current = {}
    /\ cleaning = [d \in Pushers |-> {}] /\ cleaned = {}
    /\ choice = 0 /\ pushed = 0 /\ crossed = FALSE

Newest == IF versions = {} THEN 0 ELSE CHOOSE v \in versions : \A w \in versions : w <= v

\* The backups beyond the newest MaxSyncVersions.
Surplus == {v \in versions : Cardinality({w \in versions : w > v}) >= MaxSyncVersions}

Busy(d) == d \in cleaned \/ cleaning[d] # {}

\* The transaction of Push.
PushBackup(d) ==
    /\ ~Busy(d) /\ pushed < MaxVersions
    /\ versions' = versions \cup {Newest + 1}
    /\ current'  = {Newest + 1}
    /\ pushed'   = pushed + 1
    /\ cleaned'  = cleaned \cup {d}
    /\ UNCHANGED <<cleaning, choice, crossed>>

MUTListSurplus(d) ==
    /\ d \in cleaned
    /\ cleaning' = [cleaning EXCEPT ![d] =
          {v \in versions : Cardinality({w \in versions : w < v}) >= MaxSyncVersions}]
    /\ cleaned' = cleaned \ {d}
    /\ UNCHANGED <<versions, current, choice, pushed, crossed>>

\* cleanupOldVersions lists what to delete; or the query fails, or the server
\* stops, and the next push cleans up.
ListSurplus(d) ==
    /\ d \in cleaned
    /\ \/ cleaning' = [cleaning EXCEPT ![d] = Surplus]
       \/ UNCHANGED cleaning
    /\ cleaned' = cleaned \ {d}
    /\ UNCHANGED <<versions, current, choice, pushed, crossed>>

\* It deletes them one by one; one of the deletions may fail.
DeleteSurplus(d) ==
    \E v \in cleaning[d] :
        /\ cleaning' = [cleaning EXCEPT ![d] = @ \ {v}]
        /\ \/ versions' = versions \ {v} /\ current' = current \ {v}
           \/ UNCHANGED <<versions, current>>
        /\ UNCHANGED <<cleaned, choice, pushed, crossed>>

\* AdminSetCurrentVersion looks the backup up...
LookUp ==
    /\ choice = 0 /\ choice' \in versions
    /\ UNCHANGED <<versions, current, cleaning, cleaned, pushed, crossed>>

\* ... and in a transaction makes it the only current one, if it still exists.
AdminSetCurrentVersion ==
    /\ choice # 0
    /\ current' = {choice} \cap versions
    /\ choice' = 0
    /\ crossed' = (crossed \/ choice \notin versions \/ choice \in Surplus
                     \/ \E d \in Pushers : choice \in cleaning[d])
    /\ UNCHANGED <<versions, cleaning, cleaned, pushed>>

BackupsNext ==
    \/ \E d \in Pushers : PushBackup(d) \/ ListSurplus(d) \/ DeleteSurplus(d)
    \/ LookUp \/ AdminSetCurrentVersion

BackupsSpec == BackupsInit /\ [][BackupsNext]_backupVars

-----------------------------------------------------------------------------
\* What Pull gives back.
PullBackup == versions \cap current

\* A customer who has pushed has a newest backup whose number no earlier one had,
\* and exactly one current backup for Pull to give back, unless an administrator
\* chose one that a clean-up was about to delete.
OneCurrent ==
    pushed > 0 => /\ Newest = pushed
                  /\ crossed \/ Cardinality(PullBackup) = 1
=============================================================================
