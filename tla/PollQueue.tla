----------------------------- MODULE PollQueue ------------------------------
(***************************************************************************)
(* When the poller asks the provider about which task: next_poll_at, the   *)
(* query of AsyncRunnerService.PollOnce, the delays of scheduleNextPoll.   *)
(* One step is one tick of worker.AsyncPoller, a second in the program.    *)
(* What an answer does to the task and its money is module GenTask; here a *)
(* task that is settled leaves the queue.  MUTx definitions are plausible  *)
(* mistakes the properties must notice.                                    *)
(***************************************************************************)
EXTENDS Integers, FiniteSets

CONSTANTS
    Tasks,          \* tasks whose upstream_task_id is recorded
    Stuck,          \* those whose credential no longer decrypts
    PollBatch,      \* asyncPollMaxBatch
    ProgressDelay,  \* asyncProgressPollDelay, in ticks
    IdleDelay,      \* asyncIdlePollDelay
    Timeout,        \* the task timeout
    MaxCreate       \* the longest a create call of the provider takes

ASSUME TasksAssumption == IsFiniteSet(Tasks) /\ Stuck \subseteq Tasks
ASSUME DelaysAssumption ==
    /\ {PollBatch, ProgressDelay, IdleDelay, Timeout} \subseteq Nat \ {0}
    /\ ProgressDelay <= IdleDelay
    /\ MaxCreate \in Nat

VARIABLES
    queued,   \* tasks in status running
    born,     \* tasks that have been submitted
    due,      \* next_poll_at - now: 0 or less when its time has come
    age,      \* now - created_at
    silent    \* ticks since the provider was last asked about the task

queueVars == <<queued, born, due, age, silent>>

Init ==
    /\ queued = {} /\ born = {}
    /\ due    = [t \in Tasks |-> 0]
    /\ age    = [t \in Tasks |-> 0]
    /\ silent = [t \in Tasks |-> 0]

\* StartTask has recorded the provider's job, which took that many ticks;
\* next_poll_at was set one tick after created_at.
Enqueue(t, took) ==
    /\ t \notin born
    /\ born'   = born \cup {t}
    /\ queued' = queued \cup {t}
    /\ due'    = [due EXCEPT ![t] = 1 - took]
    /\ age'    = [age EXCEPT ![t] = took]
    /\ UNCHANGED silent

-----------------------------------------------------------------------------
(* One tick.  DueIn, AgeIn and SilentIn are the clocks when it fires.      *)

DueIn(t)    == IF t \in queued THEN due[t] - 1 ELSE due[t]
AgeIn(t)    == IF t \in queued THEN age[t] + 1 ELSE age[t]
SilentIn(t) == IF t \in queued THEN silent[t] + 1 ELSE silent[t]

\* ORDER BY next_poll_at LIMIT PollBatch; ties are broken by updated_at, which
\* any task may lead.
IsBatch(batch) ==
    LET dueNow == {t \in queued : DueIn(t) <= 0} IN
    /\ batch \subseteq dueNow
    /\ Cardinality(batch) = (IF Cardinality(dueNow) < PollBatch THEN Cardinality(dueNow)
                                                                ELSE PollBatch)
    /\ \A t \in batch, s \in dueNow \ batch : DueIn(t) <= DueIn(s)

MUTExpired(t) == AgeIn(t) > Timeout /\ t \notin Stuck

\* advanceOne looks at the timeout before anything else, the credential included.
Expired(t) == AgeIn(t) > Timeout

MUTDelaysUncapped == {ProgressDelay, 2 * IdleDelay}

\* The delays scheduleNextPoll may set.
Delays == {ProgressDelay, IdleDelay}

\* advanceOne for each task of the batch: settled, or asked and rescheduled.  A
\* credential that does not decrypt ends it early: next_poll_at stays.
Tick(batch, ended, delay) ==
    LET asked == {t \in batch : ~Expired(t) /\ t \notin Stuck} IN
    /\ IsBatch(batch)
    /\ ended \subseteq asked
    /\ queued' = queued \ (ended \cup {t \in batch : Expired(t)})
    /\ due'    = [t \in Tasks |-> IF t \in asked \cap queued' THEN delay[t] ELSE DueIn(t)]
    /\ age'    = [t \in Tasks |-> AgeIn(t)]
    /\ silent' = [t \in Tasks |-> IF t \in asked THEN 0 ELSE SilentIn(t)]
    /\ UNCHANGED born

PollOnce ==
    \E batch \in SUBSET queued : \E ended \in SUBSET batch :
        \E delay \in [batch -> Delays] : Tick(batch, ended, delay)

Next == PollOnce \/ \E t \in Tasks, took \in 0..MaxCreate : Enqueue(t, took)

Spec == Init /\ [][Next]_queueVars

-----------------------------------------------------------------------------
(* Properties                                                              *)

\* The tasks that can be asked about, and the least places of a batch they have: what is
\* stuck and due stays at the head of the queue.
Sound == Tasks \ Stuck
Room  == PollBatch - Cardinality(Stuck)

\* "A single task is queried every five seconds at the longest", and "one
\* failure does not block the batch" (PollOnce): unless what is stuck fills the
\* batches, the provider is asked about a running task with a sound credential
\* every IdleDelay, plus the ticks its places in the batches need to go once
\* through all such tasks.
AskedInTime ==
    Room > 0 =>
        \A t \in queued \ Stuck : silent[t] <= IdleDelay + (Cardinality(Sound) - 1) \div Room

\* No task keeps its user's credit longer, however many are stuck and though they fill the
\* batches: it was asked about before its timeout for the last time and then waits for what
\* is before it, which is rescheduled when it is asked about and, if it is stuck, has its
\* own timeout; a create call may have taken longer than that.
Latest == IF Timeout < MaxCreate THEN MaxCreate ELSE Timeout

EndsInTime ==
    \A t \in queued : age[t] < Timeout + IdleDelay + Latest + (Cardinality(Tasks) - 1) \div PollBatch
=============================================================================
