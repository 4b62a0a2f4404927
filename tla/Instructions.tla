---------------------------- MODULE Instructions ----------------------------
(***************************************************************************)
(* One real-time instruction of an administrator, to a device or to all of *)
(* an application's: internal/handler/websocket.go, from SendInstruction   *)
(* to the results the devices report over their connections, and the       *)
(* summary an administrator reads meanwhile.                               *)
(*                                                                         *)
(* Every connection has a goroutine of its own that handles what arrives   *)
(* on it in order, one statement at a time; while a device reconnects its  *)
(* old connection and its new one are both handled.  Any statement may     *)
(* fail, and the server may stop between any two.  MUTx definitions are    *)
(* plausible mistakes.                                                     *)
(***************************************************************************)
EXTENDS Naturals, Sequences, FiniteSets

CONSTANTS
    Devices,      \* active devices of the application
    All           \* the target of a broadcast

ASSUME InstructionsAssumption == All \notin Devices /\ IsFiniteSet(Devices)

VARIABLES
    instruction,  \* the row: its target, its status and its result
    results,      \* the rows of realtime_instruction_results
    sender,       \* where SendInstruction is
    expired,      \* ExpiresAt has passed
    device,       \* what each device was told, last reported, and over which connection
    inbox,        \* the reports that wait on each connection
    handling,     \* the report each connection's goroutine is at
    summary,      \* the counts an administrator has read
    mixed         \* what went wrong, see Accidents

instructionVars ==
    <<instruction, results, sender, expired, device, inbox, handling, summary, mixed>>

Connections == {"old", "new"}
Final       == {"executed", "failed"}
Reported    == Final \cup {"acked"}
Resting     == [at |-> "idle", status |-> "none"]
\* "crossed"      two goroutines of one device have been at work at a time, and one still may
\* "overwritten"  the row was written by one of those, or saved whole over a report
\* "missed"       a result was stored, and the row was not updated after it
\* "backwards"    an acknowledgement was stored over a final result
Accidents   == {"crossed", "overwritten", "missed", "backwards"}
NothingRead == [step |-> 0, results |-> 0, acked |-> 0, executed |-> 0, failed |-> 0]
Targeted    == instruction.target \in Devices

InstructionsInit ==
    /\ \E t \in Devices \cup {All} :
          instruction = [target |-> t, status |-> "none", result |-> "none"]
    /\ results = [d \in Devices |-> "none"]
    /\ sender = "create" /\ expired = FALSE
    /\ device = [d \in Devices |-> [told |-> FALSE, said |-> "none", via |-> "old"]]
    /\ inbox = [d \in Devices |-> [c \in Connections |-> <<>>]]
    /\ handling = [d \in Devices |-> [c \in Connections |-> Resting]]
    /\ summary = NothingRead /\ mixed = {}

-----------------------------------------------------------------------------
(* SendInstruction.                                                        *)

CreateInstruction ==
    /\ sender = "create"
    /\ instruction' = [instruction EXCEPT !.status = "pending"]
    /\ sender' = "push"
    /\ UNCHANGED <<results, expired, device, inbox, handling, summary, mixed>>

\* Reaches the devices that are connected and whose channel has room.
PushInstruction ==
    /\ sender = "push"
    /\ \E reached \in SUBSET (IF Targeted THEN {instruction.target} ELSE Devices) :
          /\ device' = [d \in Devices |-> [device[d] EXCEPT !.told = d \in reached]]
          /\ sender' = IF reached = {} THEN "done" ELSE "save"
    /\ UNCHANGED <<instruction, results, expired, inbox, handling, summary, mixed>>

\* The whole row is saved as it was created, with its new status; or cannot be.
SaveSent ==
    /\ sender = "save"
    /\ sender' = "done"
    /\ \/ /\ instruction' = [instruction EXCEPT !.status = "sent", !.result = "none"]
          /\ mixed' = IF instruction.status \in Reported
                      THEN mixed \cup {"overwritten"} ELSE mixed
       \/ UNCHANGED <<instruction, mixed>>
    /\ UNCHANGED <<results, expired, device, inbox, handling, summary>>

-----------------------------------------------------------------------------
(* Devices and their reports.                                              *)

\* A device acknowledges, and then executes or fails.
Report(d) ==
    LET via == device[d].via IN
    /\ device[d].told /\ device[d].said \notin Final
    /\ \E s \in IF device[d].said = "none" THEN Reported ELSE Final :
          /\ device' = [device EXCEPT ![d].said = s]
          /\ inbox' = [inbox EXCEPT ![d][via] = Append(@, s)]
    /\ UNCHANGED <<instruction, results, sender, expired, handling, summary, mixed>>

Reconnects(d) ==
    /\ device[d].via = "old"
    /\ device' = [device EXCEPT ![d].via = "new"]
    /\ UNCHANGED <<instruction, results, sender, expired, inbox, handling, summary, mixed>>

\* The first half of handleInstructionResult: the instruction must be the device's, or
\* a broadcast.  A report that comes too late only marks an instruction that nobody
\* answered.
HandleReads(d, c) ==
    /\ handling[d][c].at = "idle" /\ inbox[d][c] # <<>>
    /\ inbox' = [inbox EXCEPT ![d][c] = Tail(@)]
    /\ IF expired \/ instruction.target \notin {d, All}
       THEN /\ instruction' = [instruction EXCEPT !.status =
                     IF instruction.target \in {d, All} /\ @ \in {"pending", "sent"}
                     THEN "expired" ELSE @]
            /\ UNCHANGED <<handling, mixed>>
       ELSE /\ handling' = [handling EXCEPT ![d][c] =
                               [at |-> "read", status |-> Head(inbox[d][c])]]
            /\ mixed' = IF \E o \in Connections \ {c} : handling[d][o].at # "idle"
                        THEN mixed \cup {"crossed"} ELSE mixed \ {"crossed"}
            /\ UNCHANGED instruction
    /\ UNCHANGED <<results, sender, expired, device, summary>>

\* The result of the device is inserted, or replaced.
StoreResult(d, c) ==
    LET s == handling[d][c].status IN
    /\ handling[d][c].at = "read"
    /\ \/ /\ results' = [results EXCEPT ![d] = s]
          /\ handling' = [handling EXCEPT ![d][c] =
                             IF Targeted THEN [@ EXCEPT !.at = "stored"] ELSE Resting]
          /\ mixed' = IF results[d] \in Final /\ s = "acked"
                      THEN mixed \cup {"backwards"} ELSE mixed
       \/ /\ handling' = [handling EXCEPT ![d][c] = Resting]
          /\ UNCHANGED <<results, mixed>>
    /\ UNCHANGED <<instruction, sender, expired, device, inbox, summary>>

MUTUpdateStatus(d, c) ==
    LET s == handling[d][c].status IN
    /\ handling[d][c].at = "stored"
    /\ \/ /\ instruction' = IF instruction.status \in {"pending", "sent"}
                            THEN [instruction EXCEPT !.status = s, !.result = s] ELSE instruction
          /\ mixed' = IF "crossed" \in mixed THEN mixed \cup {"overwritten"}
                      ELSE mixed \ {"overwritten", "missed"}
       \/ /\ mixed' = mixed \cup {"missed"}
          /\ UNCHANGED instruction
    /\ handling' = [handling EXCEPT ![d][c] = Resting]
    /\ UNCHANGED <<results, sender, expired, device, inbox, summary>>

\* The instruction for one device takes over its status, and its text if there is one; or
\* the statement fails, and the result stays stored without it.
UpdateStatus(d, c) ==
    LET s == handling[d][c].status IN
    /\ handling[d][c].at = "stored"
    /\ \/ /\ instruction' = [instruction EXCEPT !.status = s,
                                                !.result = IF s \in Final THEN s ELSE @]
          /\ mixed' = IF "crossed" \in mixed THEN mixed \cup {"overwritten"}
                      ELSE mixed \ {"overwritten", "missed"}
       \/ /\ mixed' = mixed \cup {"missed"}
          /\ UNCHANGED instruction
    /\ handling' = [handling EXCEPT ![d][c] = Resting]
    /\ UNCHANGED <<results, sender, expired, device, inbox, summary>>

\* The server stops, wherever its goroutines are, and starts again; devices connect anew.
Stops ==
    /\ sender # "create"
    /\ sender' = "done" /\ summary' = NothingRead
    /\ device' = [d \in Devices |-> [device[d] EXCEPT !.via = "old"]]
    /\ inbox' = [d \in Devices |-> [c \in Connections |-> <<>>]]
    /\ handling' = [d \in Devices |-> [c \in Connections |-> Resting]]
    /\ mixed' = IF \E d \in Devices, c \in Connections : handling[d][c].at = "stored"
                THEN mixed \cup {"missed"} ELSE mixed
    /\ UNCHANGED <<instruction, results, expired>>

\* Five minutes pass.
Expires ==
    /\ sender # "create" /\ ~expired
    /\ expired' = TRUE
    /\ UNCHANGED <<instruction, results, sender, device, inbox, handling, summary, mixed>>

-----------------------------------------------------------------------------
(* GetInstructionStatus and ListInstructions read four counts, one after   *)
(* the other.                                                              *)

Counted(s) == Cardinality({d \in Devices : results[d] = s})

MUTGetSummary ==
    /\ sender # "create" /\ summary.step < 4
    /\ summary' =
          CASE summary.step = 0 -> [summary EXCEPT !.step = 1,
                                    !.results = Cardinality(Devices) - Counted("none")]
            [] summary.step = 1 -> [summary EXCEPT !.step = 2, !.failed = Counted("failed")]
            [] summary.step = 2 -> [summary EXCEPT !.step = 3, !.executed = Counted("executed")]
            [] summary.step = 3 -> [summary EXCEPT !.step = 4, !.acked = Counted("acked")]
    /\ UNCHANGED <<instruction, results, sender, expired, device, inbox, handling, mixed>>

GetSummary ==
    /\ sender # "create" /\ summary.step < 4
    /\ summary' =
          CASE summary.step = 0 -> [summary EXCEPT !.step = 1,
                                    !.results = Cardinality(Devices) - Counted("none")]
            [] summary.step = 1 -> [summary EXCEPT !.step = 2, !.acked = Counted("acked")]
            [] summary.step = 2 -> [summary EXCEPT !.step = 3, !.executed = Counted("executed")]
            [] summary.step = 3 -> [summary EXCEPT !.step = 4, !.failed = Counted("failed")]
    /\ UNCHANGED <<instruction, results, sender, expired, device, inbox, handling, mixed>>

InstructionsNext ==
    \/ CreateInstruction \/ PushInstruction \/ SaveSent \/ Expires \/ GetSummary \/ Stops
    \/ \E d \in Devices :
          \/ Report(d) \/ Reconnects(d)
          \/ \E c \in Connections : HandleReads(d, c) \/ StoreResult(d, c) \/ UpdateStatus(d, c)

InstructionsSpec == InstructionsInit /\ [][InstructionsNext]_instructionVars

-----------------------------------------------------------------------------
(* Properties                                                              *)

NothingHandled(d) == \A c \in Connections : handling[d][c] = Resting

\* When nothing of its device is handled, an instruction for one device shows the result
\* that is kept of the device, however reports, failures and stops went, unless the last
\* that was written of it was by goroutines at work at a time, by the save of the whole
\* row over a report, or by a report whose update failed or was stopped: the next report
\* that is handled alone, to its end, sets that right.  A status that came of a report has
\* a result kept beside it in any case, and a broadcast takes no device's status.
ShowsTheResult ==
    IF Targeted
    THEN LET d == instruction.target IN
         /\ NothingHandled(d) /\ results[d] # "none"
            /\ "overwritten" \notin mixed /\ "missed" \notin mixed
            => instruction.status = results[d]
         /\ instruction.status \in Reported => results[d] # "none"
    ELSE instruction.status \notin Reported

\* Counts read while devices report miss nobody: a device that had a result when the
\* first count was read is in one of the others, unless a late report took its
\* result back.
CountsMissNobody ==
    summary.step = 4 /\ "backwards" \notin mixed =>
        summary.results <= summary.acked + summary.executed + summary.failed
=============================================================================
