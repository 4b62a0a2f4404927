--------------------------- MODULE ExchangeProofs ---------------------------
(***************************************************************************)
(* Theorems on what devices and the server exchange: the backup a device   *)
(* pulls (Backups), for any devices' pushes and clean-ups at a time; what  *)
(* of a secure script comes out (SecureScripts); the changes the client's  *)
(* automatic synchronisation reads (AutoSync); the files and counters of a *)
(* hot update or release (Packages); the directory of the program a device *)
(* keeps up to date (Updater); one item that devices push, delete and have *)
(* conflicts about (DataSync); and changes pulled page by page (SyncPages).*)
(***************************************************************************)
EXTENDS DataSync, SyncPages, Backups, SecureScripts, AutoSync, Packages, Updater,
        FiniteSetTheorems, SequenceTheorems, TLAPS

-----------------------------------------------------------------------------
(* Backups.                                                                *)

BackupsTypeOK ==
    /\ pushed \in Nat /\ versions \subseteq 1..pushed
    /\ pushed > 0 => pushed \in versions
    /\ choice \in 0..pushed /\ crossed \in BOOLEAN
    /\ cleaning \in [Pushers -> SUBSET (1..pushed)]

\* No clean-up is about to delete backup v, and none will list it.
Safe(v) == v \in versions \ Surplus /\ \A d \in Pushers : v \notin cleaning[d]

BackupsInv ==
    /\ BackupsTypeOK
    /\ pushed > 0 => Safe(pushed)
    /\ pushed > 0 /\ ~crossed => \E v \in versions : current = {v} /\ Safe(v)

\* The backups after v are finitely many, and when backups go they do not become more.
LEMMA FewerAfter ==
    ASSUME NEW n \in Nat, NEW S \in SUBSET (1..n), NEW T \in SUBSET S, NEW v
    PROVE  LET after(Q) == {w \in Q : w > v}
           IN  /\ Cardinality(after(T)) \in Nat
               /\ Cardinality(after(T)) <= Cardinality(after(S))
  <1> DEFINE A == {w \in S : w > v}
             B == {w \in T : w > v}
  <1>1. IsFiniteSet(1..n)
    BY FS_Interval
  <1>2. A \subseteq 1..n /\ B \subseteq A
    OBVIOUS
  <1>3. IsFiniteSet(A)
    BY <1>1, <1>2, FS_Subset
  <1>4. Cardinality(B) <= Cardinality(A) /\ IsFiniteSet(B)
    BY <1>2, <1>3, FS_Subset
  <1>5. Cardinality(B) \in Nat
    BY <1>4, FS_CardinalityType
  <1> QED
    BY <1>4, <1>5

\* A backup that a clean-up would keep it keeps when others go.
LEMMA SurplusShrinks ==
    ASSUME BackupsTypeOK, versions' \subseteq versions, NEW v \in versions', v \notin Surplus
    PROVE  v \notin Surplus'
  <1> DEFINE A == {w \in versions : w > v}
             B == {w \in versions' : w > v}
  <1>1. Cardinality(B) \in Nat /\ Cardinality(B) <= Cardinality(A)
    BY FewerAfter DEF BackupsTypeOK
  <1>2. Cardinality(A) \in Nat
    BY FewerAfter DEF BackupsTypeOK
  <1> HIDE DEF A, B
  <1>3. ~(Cardinality(A) >= MaxSyncVersions) => ~(Cardinality(B) >= MaxSyncVersions)
    BY <1>1, <1>2, BackupsAssumption
  <1> QED
    BY <1>3 DEF Surplus, A, B

\* Nothing comes after the last.
LEMMA NoneAfterLast ==
    ASSUME NEW n \in Nat, NEW S \in SUBSET (1..n)
    PROVE  Cardinality({w \in S : w > n}) = 0
  <1>1. \A w \in S : w \in 1..n
    OBVIOUS
  <1>2. \A w \in S : ~(w > n)
    BY <1>1
  <1>3. {w \in S : w > n} = {}
    BY <1>2, Zenon
  <1> QED
    BY <1>3, FS_EmptySet

\* The newest backup is the last one pushed, and no clean-up lists it.
LEMMA NewestIsLast ==
    ASSUME BackupsTypeOK
    PROVE  Newest = pushed /\ pushed \notin Surplus
  <1>1. CASE pushed = 0
    BY <1>1 DEF BackupsTypeOK, Newest, Surplus
  <1>2. CASE pushed > 0
    <2>1. \A w \in versions : w \in 1..pushed
      BY DEF BackupsTypeOK
    <2>2. pushed \in versions /\ \A w \in versions : w <= pushed
      BY <1>2, <2>1 DEF BackupsTypeOK
    <2>3. \A v \in versions : (\A w \in versions : w <= v) => v = pushed
      BY <2>1, <2>2
    <2>4. Newest = pushed
      BY <2>2, <2>3 DEF Newest
    <2>6. Cardinality({w \in versions : w > pushed}) = 0
      BY NoneAfterLast DEF BackupsTypeOK
    <2> QED
      BY <2>4, <2>6, BackupsAssumption DEF Surplus
  <1> QED
    BY <1>1, <1>2 DEF BackupsTypeOK

LEMMA PushKeeps ==
    ASSUME BackupsInv, NEW d \in Pushers, PushBackup(d)
    PROVE  BackupsInv'
  <1>1. Newest = pushed /\ pushed \in Nat /\ BackupsTypeOK
    BY NewestIsLast DEF BackupsInv, BackupsTypeOK
  <1>2. /\ versions' = versions \cup {pushed + 1} /\ current' = {pushed + 1}
        /\ pushed' = pushed + 1 /\ UNCHANGED <<cleaning, choice, crossed>>
    BY <1>1 DEF PushBackup
  <1>3. BackupsTypeOK'
    <2>1. \A i \in 1..pushed : i \in 1..pushed'
      BY <1>1, <1>2
    <2> QED
      BY <1>1, <1>2, <2>1 DEF BackupsTypeOK
  <1>4. pushed' \notin Surplus'
    <2>1. Cardinality({w \in versions' : w > pushed'}) = 0
      BY <1>3, NoneAfterLast DEF BackupsTypeOK
    <2> QED
      BY <2>1, BackupsAssumption DEF Surplus
  <1>5. \A e \in Pushers : pushed' \notin cleaning'[e]
    BY <1>1, <1>2 DEF BackupsTypeOK
  <1>6. Safe(pushed)'
    BY <1>2, <1>4, <1>5 DEF Safe
  <1> QED
    BY <1>2, <1>3, <1>6 DEF BackupsInv

LEMMA BackupsStepKeeps == BackupsInv /\ [BackupsNext]_backupVars => BackupsInv'
  <1> SUFFICES ASSUME BackupsInv, [BackupsNext]_backupVars PROVE BackupsInv'
    OBVIOUS
  <1>1. BackupsTypeOK
    BY DEF BackupsInv
  <1>2. ASSUME NEW d \in Pushers, PushBackup(d) PROVE BackupsInv'
    BY <1>2, PushKeeps
  <1>3. ASSUME NEW d \in Pushers, ListSurplus(d) PROVE BackupsInv'
    <2>1. UNCHANGED <<versions, current, choice, pushed, crossed>> /\ Surplus' = Surplus
      BY <1>3 DEF ListSurplus, Surplus
    <2>2. cleaning' = [cleaning EXCEPT ![d] = Surplus] \/ cleaning' = cleaning
      BY <1>3 DEF ListSurplus
    <2>3. BackupsTypeOK'
      BY <1>1, <2>1, <2>2 DEF BackupsTypeOK, Surplus
    <2>4. ASSUME NEW v, Safe(v) PROVE Safe(v)'
      BY <1>1, <2>1, <2>2, <2>4 DEF Safe, BackupsTypeOK
    <2> QED
      BY <2>1, <2>3, <2>4 DEF BackupsInv
  <1>4. ASSUME NEW d \in Pushers, DeleteSurplus(d) PROVE BackupsInv'
    <2>1. PICK v \in cleaning[d] :
              /\ cleaning' = [cleaning EXCEPT ![d] = @ \ {v}]
              /\ \/ versions' = versions \ {v} /\ current' = current \ {v}
                 \/ UNCHANGED <<versions, current>>
      BY <1>4 DEF DeleteSurplus
    <2>2. UNCHANGED <<choice, pushed, crossed>> /\ versions' \subseteq versions
      BY <1>4, <2>1 DEF DeleteSurplus
    <2>3. ASSUME NEW w, Safe(w) PROVE Safe(w)' /\ w # v
      <3>1. w # v /\ w \in versions'
        BY <2>1, <2>3 DEF Safe
      <3>2. w \notin Surplus'
        BY <1>1, <2>2, <2>3, <3>1, SurplusShrinks DEF Safe
      <3> QED
        BY <1>1, <2>1, <2>3, <3>1, <3>2 DEF Safe, BackupsTypeOK
    <2>p. PICK n : n = pushed /\ n = pushed'
      BY <2>2
    <2>q. n > 0 => Safe(n)
      BY <2>p DEF BackupsInv
    <2>r. n > 0 => Safe(n)' /\ n \in versions'
      BY <2>3, <2>q DEF Safe
    <2>4. pushed > 0 => Safe(pushed)' /\ pushed \in versions'
      BY <2>p, <2>r DEF Safe
    <2>5. BackupsTypeOK'
      BY <1>1, <2>1, <2>2, <2>4 DEF BackupsTypeOK
    <2>6. ASSUME pushed > 0, ~crossed
          PROVE  \E w \in versions' : current' = {w} /\ Safe(w)'
      <3>1. PICK w \in versions : current = {w} /\ Safe(w)
        BY <2>6 DEF BackupsInv
      <3>2. Safe(w)' /\ w # v
        BY <2>3, <3>1
      <3> QED
        BY <2>1, <3>1, <3>2 DEF Safe
    <2> QED
      BY <2>2, <2>4, <2>5, <2>6 DEF BackupsInv, Safe
  <1>5. ASSUME LookUp PROVE BackupsInv'
    <2>1. UNCHANGED <<versions, current, cleaning, pushed, crossed>> /\ choice' \in versions
      BY <1>5 DEF LookUp
    <2>2. BackupsTypeOK'
      BY <1>1, <2>1 DEF BackupsTypeOK
    <2> QED
      BY <2>1, <2>2 DEF BackupsInv, Safe, Surplus
  <1>6. ASSUME AdminSetCurrentVersion PROVE BackupsInv'
    <2>1. UNCHANGED <<versions, cleaning, pushed>> /\ choice' = 0 /\ current' = {choice} \cap versions
      BY <1>6 DEF AdminSetCurrentVersion
    <2>2. ~crossed' => ~crossed /\ Safe(choice)
      BY <1>6 DEF AdminSetCurrentVersion, Safe
    <2>3. crossed' \in BOOLEAN
      BY <1>1, <1>6 DEF AdminSetCurrentVersion, BackupsTypeOK
    <2>4. BackupsTypeOK'
      BY <1>1, <2>1, <2>3 DEF BackupsTypeOK
    <2>5. ASSUME NEW v, Safe(v) PROVE Safe(v)'
      BY <2>1, <2>5 DEF Safe, Surplus
    <2>c. PICK c : c = choice
      OBVIOUS
    <2>6. ~crossed' => current' = {c} /\ Safe(c)' /\ c \in versions'
      BY <2>1, <2>2, <2>5, <2>c DEF Safe
    <2>7. pushed > 0 => Safe(pushed)'
      BY <2>1, <2>5 DEF BackupsInv, Safe, Surplus
    <2> QED
      BY <2>1, <2>4, <2>6, <2>7 DEF BackupsInv
  <1>7. CASE UNCHANGED backupVars
    BY <1>7 DEF backupVars, BackupsInv, BackupsTypeOK, Safe, Surplus
  <1> QED
    BY <1>2, <1>3, <1>4, <1>5, <1>6, <1>7 DEF BackupsNext

\* The last backup pushed is there and safe from every clean-up, and so is the only current
\* one, unless an administrator chose one that a clean-up may delete.
THEOREM BackupsInvariant == BackupsSpec => []BackupsInv
  <1>1. BackupsInit => BackupsInv
    <2> SUFFICES ASSUME BackupsInit PROVE BackupsInv
      OBVIOUS
    <2>1. pushed = 0 /\ versions = {} /\ choice = 0 /\ crossed \in BOOLEAN
      BY DEF BackupsInit
    <2>2. cleaning \in [Pushers -> SUBSET (1..pushed)]
      BY DEF BackupsInit
    <2>3. pushed \in Nat /\ ~(pushed > 0) /\ choice \in 0..pushed
      BY <2>1
    <2> QED
      BY <2>1, <2>2, <2>3 DEF BackupsInv, BackupsTypeOK
  <1> QED
    BY <1>1, BackupsStepKeeps, PTL DEF BackupsSpec

\* A customer always has exactly one current backup to pull, whatever pushes, clean-ups and
\* choices overlap and fail, and numbers are never given again (sync service, Push and
\* cleanupOldVersions).
THEOREM OneCurrentAlways == BackupsSpec => []OneCurrent
  <1>1. BackupsInv => OneCurrent
    <2> SUFFICES ASSUME BackupsInv, pushed > 0
                 PROVE  Newest = pushed /\ (crossed \/ Cardinality(PullBackup) = 1)
      BY DEF OneCurrent
    <2>1. Newest = pushed
      BY NewestIsLast DEF BackupsInv
    <2>2. ASSUME ~crossed PROVE Cardinality(PullBackup) = 1
      <3>1. PICK v \in versions : current = {v}
        BY <2>2 DEF BackupsInv
      <3>2. PullBackup = {v}
        BY <3>1 DEF PullBackup
      <3> QED
        BY <3>2, FS_Singleton
    <2> QED
      BY <2>1, <2>2
  <1> QED
    BY <1>1, BackupsInvariant, PTL

-----------------------------------------------------------------------------
(* Secure scripts.                                                         *)

ScriptRows == [row : {"none", "live", "deleted"}, status : {"draft", "published", "deprecated"},
               content : Nat, open : BOOLEAN, success : Nat, fail : Nat]

ScriptsTypeOK ==
    /\ script \in ScriptRows /\ written \in Nat
    /\ admin \in [Admins -> [op : {"idle", "publish", "deprecate", "delete"}, copy : ScriptRows]]

\* What is going to be published was read by the request that does so.
CopiesReviewed ==
    \A a \in Admins : admin[a].op = "publish" => admin[a].copy.content \in reviewed

ScriptInv == ScriptsTypeOK /\ CopiesReviewed /\ PublishedWasReviewed

\* A step that leaves the script its content and publishes nothing.
LEMMA ScriptMoves ==
    ASSUME ScriptInv, UNCHANGED <<admin, reviewed, written>>, script' \in ScriptRows,
           script'.content = script.content, script'.status = script.status,
           script'.row = "live" => ScriptLive
    PROVE  ScriptInv'
  <1> QED
    BY DEF ScriptInv, ScriptsTypeOK, CopiesReviewed, PublishedWasReviewed, ScriptLive

LEMMA BeginKeeps ==
    ASSUME ScriptInv, NEW a \in Admins, NEW op \in {"publish", "deprecate", "delete"},
           Begin(a, op), reviewed \subseteq reviewed',
           op = "publish" => script.content \in reviewed'
    PROVE  ScriptInv'
  <1>1. /\ admin' = [admin EXCEPT ![a] = [op |-> op, copy |-> script]]
        /\ UNCHANGED <<script, written>>
    BY DEF Begin
  <1>2. ScriptsTypeOK'
    BY <1>1 DEF ScriptInv, ScriptsTypeOK
  <1>3. CopiesReviewed'
    BY <1>1 DEF ScriptInv, ScriptsTypeOK, CopiesReviewed
  <1>4. PublishedWasReviewed'
    BY <1>1 DEF ScriptInv, PublishedWasReviewed, ScriptLive
  <1> QED
    BY <1>2, <1>3, <1>4 DEF ScriptInv

\* A request to publish brings out what it read, whatever was saved since.
LEMMA SaveKeeps ==
    ASSUME ScriptInv, NEW a \in Admins, NEW op, NEW status \in {"published", "deprecated"},
           SaveScript(a, op, status), status = "published" => op = "publish"
    PROVE  ScriptInv'
  <1>1. /\ admin[a].op = op /\ admin[a].copy \in ScriptRows
        /\ script' = [admin[a].copy EXCEPT !.status = status]
        /\ admin' = [admin EXCEPT ![a] = NoAdmin] /\ UNCHANGED <<reviewed, written>>
    BY DEF SaveScript, ScriptInv, ScriptsTypeOK
  <1>2. script' \in ScriptRows /\ script'.content = admin[a].copy.content /\ script'.status = status
    BY <1>1 DEF ScriptRows
  <1>3. NoAdmin.op = "idle" /\ NoAdmin.copy \in ScriptRows /\ NoAdmin = [op |-> "idle", copy |-> NoScript]
    BY DEF NoAdmin, NoScript, ScriptRows
  <1>4. ScriptsTypeOK'
    BY <1>1, <1>2, <1>3 DEF ScriptInv, ScriptsTypeOK
  <1>5. CopiesReviewed'
    BY <1>1, <1>3 DEF ScriptInv, ScriptsTypeOK, CopiesReviewed
  <1>6. PublishedWasReviewed'
    BY <1>1, <1>2 DEF ScriptInv, PublishedWasReviewed, CopiesReviewed
  <1> QED
    BY <1>4, <1>5, <1>6 DEF ScriptInv

LEMMA DeleteKeeps ==
    ASSUME ScriptInv, NEW a \in Admins, DeleteScript(a)
    PROVE  ScriptInv'
  <1>1. CASE Begin(a, "delete") /\ UNCHANGED reviewed
    BY <1>1, BeginKeeps
  <1>2. CASE ~Begin(a, "delete")
    <2>1. /\ script' \in {script, [script EXCEPT !.row = IF ScriptLive THEN "deleted" ELSE @]}
          /\ admin' = [admin EXCEPT ![a] = NoAdmin] /\ UNCHANGED <<reviewed, written>>
      BY <1>2 DEF DeleteScript
    <2>2. /\ script' \in ScriptRows /\ script'.content = script.content
          /\ script'.status = script.status /\ (script'.row = "live" => ScriptLive)
      BY <2>1 DEF ScriptInv, ScriptsTypeOK, ScriptRows, ScriptLive
    <2>3. NoAdmin.op = "idle" /\ NoAdmin.copy \in ScriptRows /\ NoAdmin = [op |-> "idle", copy |-> NoScript]
      BY DEF NoAdmin, NoScript, ScriptRows
    <2>4. ScriptsTypeOK' /\ CopiesReviewed'
      BY <2>1, <2>2, <2>3 DEF ScriptInv, ScriptsTypeOK, CopiesReviewed
    <2>5. PublishedWasReviewed'
      BY <2>1, <2>2 DEF ScriptInv, PublishedWasReviewed, ScriptLive
    <2> QED
      BY <2>4, <2>5 DEF ScriptInv
  <1> QED
    BY <1>1, <1>2 DEF DeleteScript

LEMMA ReportKeeps ==
    ASSUME ScriptInv, NEW r, ClientReportExecution(r)
    PROVE  ScriptInv'
  <1>1. UNCHANGED <<admin, reviewed, written>>
    BY DEF ClientReportExecution, serverVars
  <1>s. script \in ScriptRows /\ script.success \in Nat /\ script.fail \in Nat
    BY DEF ScriptInv, ScriptsTypeOK, ScriptRows
  <1>p. PICK n \in Nat, m \in Nat : n = script.success + 1 /\ m = script.fail + 1
    BY <1>s
  <1>2. \/ script' = script
        \/ \E x \in Nat, y \in Nat : script' = [script EXCEPT !.success = x, !.fail = y]
    <2>1. \/ script' = script
          \/ \E status : script' = [script EXCEPT
                 !.success = IF status = "success" THEN n ELSE @,
                 !.fail    = IF status = "failed" THEN m ELSE @]
      BY <1>p DEF ClientReportExecution, UpdateDeliveryStatus
    <2> QED
      BY <1>s, <2>1
  <1>3. /\ script' \in ScriptRows /\ script'.content = script.content
        /\ script'.status = script.status /\ (script'.row = "live" => ScriptLive)
    BY <1>2, <1>s DEF ScriptRows, ScriptLive
  <1> QED
    BY <1>1, <1>3, ScriptMoves

LEMMA ScriptsStepKeeps == ScriptInv /\ [ScriptsNext]_scriptVars => ScriptInv'
  <1> SUFFICES ASSUME ScriptInv, [ScriptsNext]_scriptVars PROVE ScriptInv'
    OBVIOUS
  <1>1. ASSUME CreateScript PROVE ScriptInv'
    <2>k. PICK k \in Nat : k = written + 1
      BY DEF ScriptInv, ScriptsTypeOK
    <2>1. PICK open \in BOOLEAN :
              script' = [NoScript EXCEPT !.row = "live", !.content = k, !.open = open]
      BY <1>1, <2>k DEF CreateScript
    <2>2. UNCHANGED <<admin, reviewed>> /\ written' = k
      BY <1>1, <2>k DEF CreateScript
    <2>3. script' \in ScriptRows /\ script'.status = "draft"
      <3>1. NoScript \in ScriptRows /\ NoScript.status = "draft"
        BY DEF NoScript, ScriptRows
      <3> QED
        BY <2>1, <3>1 DEF ScriptRows
    <2> QED
      BY <2>2, <2>3 DEF ScriptInv, ScriptsTypeOK, CopiesReviewed, PublishedWasReviewed
  <1>2. ASSUME UpdateScript PROVE ScriptInv'
    <2>1. PICK open \in BOOLEAN : script' = [script EXCEPT !.open = open]
      BY <1>2 DEF UpdateScript
    <2>2. UNCHANGED <<admin, reviewed, written>>
      BY <1>2 DEF UpdateScript, serverVars
    <2>3. /\ script' \in ScriptRows /\ script'.content = script.content
          /\ script'.status = script.status /\ (script'.row = "live" => ScriptLive)
      BY <2>1 DEF ScriptInv, ScriptsTypeOK, ScriptRows, ScriptLive
    <2> QED
      BY <2>2, <2>3, ScriptMoves
  <1>3. ASSUME UpdateContent PROVE ScriptInv'
    <2>k. PICK k \in Nat : k = written + 1
      BY DEF ScriptInv, ScriptsTypeOK
    <2>1. /\ script' = [script EXCEPT !.content = k, !.status = "draft"]
          /\ UNCHANGED <<admin, reviewed>> /\ written' = k
      BY <1>3, <2>k DEF UpdateContent
    <2>2. script' \in ScriptRows /\ script'.status = "draft"
      BY <2>1 DEF ScriptRows, ScriptInv, ScriptsTypeOK
    <2> QED
      BY <2>1, <2>2 DEF ScriptInv, ScriptsTypeOK, CopiesReviewed, PublishedWasReviewed
  <1>4. ASSUME NEW a \in Admins, PublishScript(a) PROVE ScriptInv'
    <2>1. CASE Begin(a, "publish") /\ reviewed' = reviewed \cup {script.content}
      BY <2>1, BeginKeeps
    <2>2. CASE SaveScript(a, "publish", "published")
      BY <2>2, SaveKeeps
    <2> QED
      BY <1>4, <2>1, <2>2 DEF PublishScript
  <1>5. ASSUME NEW a \in Admins, DeprecateScript(a) PROVE ScriptInv'
    <2>1. CASE Begin(a, "deprecate") /\ UNCHANGED reviewed
      BY <2>1, BeginKeeps
    <2>2. CASE SaveScript(a, "deprecate", "deprecated")
      BY <2>2, SaveKeeps
    <2> QED
      BY <1>5, <2>1, <2>2 DEF DeprecateScript
  <1>6. ASSUME NEW g \in Goroutines,
               \/ FetchCached(g) \/ ClientFetchScript(g) \/ FetchScript(g) \/ FetchFails(g)
               \/ ExecuteScript(g)
        PROVE  ScriptInv'
    <2>1. UNCHANGED <<script, admin, reviewed, written>>
      BY <1>6 DEF FetchCached, ClientFetchScript, FetchScript, FetchFails, ExecuteScript, serverVars
    <2> QED
      BY <2>1 DEF ScriptInv, ScriptsTypeOK, CopiesReviewed, PublishedWasReviewed, ScriptLive
  <1>7. CASE (\E i \in Ids : DeliveryExpires(i)) \/ UNCHANGED scriptVars
    <2>1. UNCHANGED <<script, admin, reviewed, written>>
      BY <1>7 DEF DeliveryExpires, serverVars, scriptVars
    <2> QED
      BY <2>1 DEF ScriptInv, ScriptsTypeOK, CopiesReviewed, PublishedWasReviewed, ScriptLive
  <1> QED
    BY <1>1, <1>2, <1>3, <1>4, <1>5, <1>6, <1>7, DeleteKeeps, ReportKeeps DEF ScriptsNext

\* What requests hold of a script has been read by one of them, for any editors at a time
\* (secure_script.go).
THEOREM ScriptInvariant == ScriptsSpec => []ScriptInv
  <1>1. ScriptsInit => ScriptInv
    BY DEF ScriptsInit, ScriptInv, ScriptsTypeOK, ScriptRows, NoScript, NoAdmin, CopiesReviewed,
           PublishedWasReviewed, ScriptLive
  <1> QED
    BY <1>1, ScriptsStepKeeps, PTL DEF ScriptsSpec

\* Only content that a request to publish has read comes out, whatever administrators upload
\* and save over each other meanwhile (secure_script.go, Publish and UpdateContent).
THEOREM PublishedWasReviewedAlways == ScriptsSpec => []PublishedWasReviewed
  <1>1. ScriptInv => PublishedWasReviewed
    BY DEF ScriptInv
  <1> QED
    BY <1>1, ScriptInvariant, PTL

-----------------------------------------------------------------------------
(* Automatic synchronisation.                                              *)

RoundType == [pc : {"idle", "read", "answered"}, seen : SUBSET (Records \X Nat), time : Nat]

AutoTypeOK ==
    /\ now \in Nat /\ table \in [Records -> Nat]
    /\ round \in [Loops -> RoundType]
    /\ lastSync \in Nat

\* Start of a second.
StartOf(second) == second * SecondTicks

\* The application has the record's last change, or the change came too late.
Excused(r) == r \in taken \cup late

\* What a round has read leaves out only changes that are excused or not older than the
\* second it was answered in.
Covers(w) ==
    /\ w.pc \in {"read", "answered"} =>
          \A r \in Records : table[r] # 0 =>
              \/ Excused(r) \/ <<r, table[r]>> \in w.seen
              \/ w.pc = "answered" /\ table[r] > StartOf(w.time)
    /\ w.pc = "answered" => StartOf(w.time) <= now

AutoInv ==
    /\ AutoTypeOK /\ StartOf(lastSync) <= now
    /\ \A l \in Loops : Covers(round[l])
    /\ NothingPassedOver

\* A second starts at its first tick.
LEMMA SecondStarts ==
    ASSUME NEW t \in Nat
    PROVE  /\ SecondOf(t) \in Nat /\ StartOf(SecondOf(t)) \in Nat
           /\ StartOf(SecondOf(t)) <= t
  <1> DEFINE s == t \div SecondTicks
             k == t % SecondTicks
  <1>1. s \in Nat /\ k \in Nat
    BY AutoSyncAssumption
  <1>2. t = s * SecondTicks + k /\ s * SecondTicks \in Nat
    BY AutoSyncAssumption
  <1> QED
    BY <1>1, <1>2 DEF SecondOf, StartOf

\* A tick that begins no second comes after the start of every second there was.
LEMMA InsideSecond ==
    ASSUME NEW t \in Nat, NEW s \in Nat, t % SecondTicks # 0, StartOf(s) <= t
    PROVE  t > StartOf(s)
  <1>1. SUFFICES ASSUME t = s * SecondTicks PROVE FALSE
    BY AutoSyncAssumption DEF StartOf
  <1>2. PICK q \in Int, k \in 0..(SecondTicks - 1) : t = q * SecondTicks + k /\ k = t % SecondTicks
    BY AutoSyncAssumption
  <1>3. PICK d \in Int : d = s - q
    OBVIOUS
  <1>4. d * SecondTicks = k
    BY <1>1, <1>2, <1>3, AutoSyncAssumption
  <1>5. d <= 0
    <2>1. d >= 1 => (d - 1) * SecondTicks >= 0 /\ d * SecondTicks = (d - 1) * SecondTicks + SecondTicks
      BY AutoSyncAssumption
    <2> QED
      BY <1>2, <1>4, <2>1, AutoSyncAssumption
  <1>6. d >= 0
    BY <1>2, <1>4, AutoSyncAssumption
  <1>7. d = 0
    BY <1>5, <1>6
  <1>8. k = 0
    BY <1>4, <1>7, AutoSyncAssumption
  <1> QED
    BY <1>2, <1>8

LEMMA SaveRecordKeeps ==
    ASSUME AutoInv, NEW r \in Records, SaveRecord(r)
    PROVE  AutoInv'
  <1>1. /\ table' = [table EXCEPT ![r] = now] /\ taken' = taken \ {r}
        /\ UNCHANGED <<now, round, lastSync>>
    BY DEF SaveRecord
  <1>2. AutoTypeOK'
    BY <1>1 DEF AutoInv, AutoTypeOK
  <1>3. \A q \in Records \ {r} : table'[q] = table[q] /\ (Excused(q) => Excused(q)')
    BY <1>1 DEF SaveRecord, AutoInv, AutoTypeOK, Excused
  <1>4. table'[r] = now /\ now \in Nat
    BY <1>1 DEF AutoInv, AutoTypeOK
  <1>5. \/ Excused(r)'
        \/ now % SecondTicks # 0 /\ \A l \in Loops : round[l].pc # "read"
    BY DEF SaveRecord, Excused
  <1>6. ASSUME NEW l \in Loops PROVE Covers(round[l])'
    <2>1. round[l] \in RoundType /\ round[l].time \in Nat /\ Covers(round[l])
      BY DEF AutoInv, AutoTypeOK, RoundType
    <2>2. round[l].pc = "answered" => Excused(r)' \/ now > StartOf(round[l].time)
      BY <1>4, <1>5, <2>1, InsideSecond DEF Covers
    <2>3. ASSUME round[l].pc \in {"read", "answered"}, NEW q \in Records, table'[q] # 0
          PROVE  \/ Excused(q)' \/ <<q, table'[q]>> \in round[l].seen
                 \/ round[l].pc = "answered" /\ table'[q] > StartOf(round[l].time)
      <3>1. CASE q = r
        BY <1>4, <1>5, <2>2, <2>3, <3>1
      <3>2. CASE q # r
        BY <1>3, <2>1, <2>3, <3>2 DEF Covers
      <3> QED
        BY <3>1, <3>2
    <2> QED
      BY <1>1, <2>1, <2>3 DEF Covers, StartOf
  <1>7. now % SecondTicks # 0 => now > StartOf(lastSync)
    BY InsideSecond DEF AutoInv, AutoTypeOK
  <1>8. NothingPassedOver'
    BY <1>1, <1>3, <1>4, <1>5, <1>7 DEF AutoInv, NothingPassedOver, Excused, StartOf
  <1> QED
    BY <1>1, <1>2, <1>6, <1>8 DEF AutoInv, StartOf

LEMMA GetTableDataKeeps ==
    ASSUME AutoInv, NEW l \in Loops, GetTableData(l)
    PROVE  AutoInv'
  <1> DEFINE seen == {<<r, table[r]>> : r \in {q \in Records : table[q] > lastSync * SecondTicks}}
             w    == [pc |-> "read", time |-> 0, seen |-> seen]
  <1>1. round' = [round EXCEPT ![l] = w] /\ UNCHANGED <<table, now, lastSync, taken, late>>
    BY DEF GetTableData
  <1>2. seen \subseteq Records \X Nat
    BY DEF AutoInv, AutoTypeOK
  <1>3. ASSUME NEW r \in Records, table[r] # 0 PROVE Excused(r) \/ <<r, table[r]>> \in seen
    BY <1>3 DEF AutoInv, NothingPassedOver, Excused
  <1> HIDE DEF seen
  <1>4. w \in RoundType /\ w.pc = "read" /\ w.seen = seen
    BY <1>2 DEF RoundType
  <1>5. Covers(w)
    BY <1>3, <1>4 DEF Covers
  <1> HIDE DEF w
  <1>6. AutoTypeOK'
    BY <1>1, <1>4 DEF AutoInv, AutoTypeOK
  <1>7. \A m \in Loops : Covers(round'[m])
    BY <1>1, <1>5 DEF AutoInv, AutoTypeOK
  <1> QED
    BY <1>1, <1>6, <1>7 DEF AutoInv, Covers, Excused, NothingPassedOver, StartOf

LEMMA AnswerKeeps ==
    ASSUME AutoInv, NEW l \in Loops, Answer(l)
    PROVE  AutoInv'
  <1>1. round[l] \in RoundType /\ round[l].pc = "read" /\ now \in Nat /\ Covers(round[l])
    BY DEF Answer, AutoInv, AutoTypeOK
  <1>2. PICK w : /\ round' = [round EXCEPT ![l] = w]
                 /\ \/ w = [round[l] EXCEPT !.pc = "answered", !.time = SecondOf(now)]
                    \/ w = NoRound
    BY <1>1 DEF Answer, AutoInv, AutoTypeOK
  <1>3. UNCHANGED <<table, now, lastSync, taken, late>>
    BY DEF Answer
  <1>4. SecondOf(now) \in Nat /\ StartOf(SecondOf(now)) <= now
    BY <1>1, SecondStarts
  <1>5. w \in RoundType /\ Covers(w)
    <2>1. CASE w = [round[l] EXCEPT !.pc = "answered", !.time = SecondOf(now)]
      <3>1. w \in RoundType /\ w.pc = "answered" /\ w.time = SecondOf(now) /\ w.seen = round[l].seen
        BY <1>1, <1>4, <2>1 DEF RoundType
      <3> QED
        BY <1>1, <1>4, <3>1 DEF Covers
    <2>2. CASE w = NoRound
      BY <2>2 DEF NoRound, RoundType, Covers
    <2> QED
      BY <1>2, <2>1, <2>2
  <1>6. AutoTypeOK'
    BY <1>2, <1>3, <1>5 DEF AutoInv, AutoTypeOK
  <1>7. \A m \in Loops : Covers(round'[m])
    BY <1>2, <1>5 DEF AutoInv, AutoTypeOK
  <1> QED
    BY <1>3, <1>6, <1>7 DEF AutoInv, Covers, Excused, NothingPassedOver, StartOf

LEMMA SyncAllKeeps ==
    ASSUME AutoInv, NEW l \in Loops, SyncAll(l)
    PROVE  AutoInv'
  <1>1. /\ round[l] \in RoundType /\ round[l].pc = "answered" /\ Covers(round[l])
        /\ round[l].time \in Nat
    BY DEF SyncAll, AutoInv, AutoTypeOK, RoundType
  <1>2. /\ round' = [round EXCEPT ![l] = NoRound] /\ UNCHANGED <<table, now, late>>
        /\ taken \subseteq taken' /\ lastSync' \in {lastSync, round[l].time}
    BY DEF SyncAll
  <1>3. NoRound \in RoundType /\ Covers(NoRound)
    BY DEF NoRound, RoundType, Covers
  <1>4. AutoTypeOK' /\ StartOf(lastSync)' <= now
    BY <1>1, <1>2, <1>3 DEF AutoInv, AutoTypeOK, Covers, StartOf
  <1>5. \A m \in Loops : Covers(round'[m])
    BY <1>2, <1>3 DEF AutoInv, AutoTypeOK
  <1>6. \A m \in Loops : Covers(round[m])'
    BY <1>2, <1>5 DEF Covers, Excused, StartOf
  <1>7. NothingPassedOver'
    <2>1. CASE lastSync' = round[l].time /\ taken' = taken \cup StillLast(round[l].seen)
      BY <1>1, <1>2, <2>1 DEF Covers, Excused, StillLast, NothingPassedOver, StartOf
    <2>2. CASE UNCHANGED <<lastSync, taken>>
      BY <1>2, <2>2 DEF AutoInv, NothingPassedOver
    <2> QED
      BY <2>1, <2>2 DEF SyncAll
  <1> QED
    BY <1>2, <1>4, <1>6, <1>7 DEF AutoInv

LEMMA AutoStepKeeps == AutoInv /\ [AutoNext]_autoVars => AutoInv'
  <1> SUFFICES ASSUME AutoInv, [AutoNext]_autoVars PROVE AutoInv'
    OBVIOUS
  <1>1. CASE (\E l \in Loops : Start(l)) \/ Stop \/ UNCHANGED autoVars
    <2>1. UNCHANGED <<table, now, round, lastSync, taken, late>>
      BY <1>1 DEF Start, Stop, autoVars
    <2> QED
      BY <2>1 DEF AutoInv, AutoTypeOK, Covers, Excused, NothingPassedOver, StartOf
  <1>2. CASE PassTime
    <2>1. UNCHANGED <<table, round, lastSync, taken, late>> /\ now' \in Nat /\ now <= now'
      BY <1>2 DEF PassTime, AutoInv, AutoTypeOK
    <2>2. /\ now \in Nat /\ StartOf(lastSync) \in Nat
          /\ \A l \in Loops : round[l].time \in Nat /\ StartOf(round[l].time) \in Nat
      BY AutoSyncAssumption DEF AutoInv, AutoTypeOK, RoundType, StartOf
    <2> QED
      BY <2>1, <2>2 DEF AutoInv, AutoTypeOK, Covers, Excused, NothingPassedOver, StartOf
  <1> QED
    BY <1>1, <1>2, SaveRecordKeeps, GetTableDataKeeps, AnswerKeeps, SyncAllKeeps DEF AutoNext

\* Every change before the time the client asks from next has been read or is excused, for
\* any table and any seconds (data_sync.go, syncAll and GetTableData).
THEOREM AutoInvariant == AutoSpec => []AutoInv
  <1>1. AutoInit => AutoInv
    BY AutoSyncAssumption
    DEF AutoInit, AutoInv, AutoTypeOK, NoRound, RoundType, Covers, NothingPassedOver, StartOf
  <1> QED
    BY <1>1, AutoStepKeeps, PTL DEF AutoSpec

\* No change that was there to be read is passed over, however many rounds overlap, fail or
\* are refused, and however the ticks of a second fall (data_sync.go, syncAll).
THEOREM NothingPassedOverAlways == AutoSpec => []NothingPassedOver
  <1>1. AutoInv => NothingPassedOver
    BY DEF AutoInv
  <1> QED
    BY <1>1, AutoInvariant, PTL

-----------------------------------------------------------------------------
(* Hot updates and releases.                                               *)

TaskActions == {"publish", "deprecate", "rollback"}
Writing == {"upload", "replaced"}

PackageRows == [row : {"none", "live", "deleted"},
                status : {"draft", "published", "deprecated", "rollback"},
                full : Nat, patch : Nat, open : BOOLEAN, success : Nat, fail : Nat]
RequestRows == [op : {"idle", "delete", "task"} \cup TaskActions \cup Writing, copy : PackageRows,
                file : Nat, kind : {"full", "patch"} \cup TaskActions]
TaskRows    == [status : {"none", "pending", "running", "failed", "success"},
                action : {"none"} \cup TaskActions, worker : {"idle", "start", "save", "mark"},
                copy : PackageRows]

PackagesTypeOK ==
    /\ package \in PackageRows /\ uploaded \in Nat
    /\ package.row = "none" => package = NoPackage
    /\ request \in [Requests -> RequestRows]
    /\ task \in [Tasks -> TaskRows]
    /\ \A t \in Tasks : task[t].worker # "idle" => task[t].action # "none"

Uploads(r)  == request[r].op = "upload"
Replaces(r) == request[r].op = "replaced"

\* The files the row names are there and are two; the file a request has uploaded is there
\* and nobody else's; the file a request is about to remove nobody names.
FilesSound ==
    /\ FilesOf(package) \subseteq files \cap 1..uploaded
    /\ package.full = package.patch => package.full = 0
    /\ \A r \in Requests :
          /\ Uploads(r) => /\ request[r].file \in (files \cap 1..uploaded) \ FilesOf(package)
                           /\ request[r].kind \in {"full", "patch"}
          /\ Replaces(r) => request[r].file \in 0..uploaded \ FilesOf(package)
          /\ \A o \in Requests \ {r} :
                Uploads(r) /\ (Uploads(o) \/ Replaces(o)) => request[r].file # request[o].file

Reporting(status) == {m \in Machines : logs[m] = status}

\* The counters are those of the logs, which are empty before there is a row.
CountersSound ==
    /\ logs \in [Machines -> {"none"} \cup Reported]
    /\ package.row = "none" => \A m \in Machines : logs[m] = "none"
    /\ package.success = Cardinality(Reporting("success"))
    /\ package.fail = Cardinality(Reporting("failed"))

\* Until an old copy is saved or somebody deletes the row.
PackagesInv ==
    ~overwritten /\ ~removing =>
        /\ PackagesTypeOK /\ FilesSound /\ CountersSound
        /\ \A r \in Requests : request[r].op # "delete"

SameCounters(p, q) == p.success = q.success /\ p.fail = q.fail
SameFiles(p, q)    == p.full = q.full /\ p.patch = q.patch

LEMMA FreshRows ==
    /\ NoPackage \in PackageRows /\ NoPackage.full = 0 /\ NoPackage.patch = 0
    /\ NoPackage.success = 0 /\ NoPackage.fail = 0
    /\ FreeRequest \in RequestRows /\ FreeRequest.op = "idle"
    /\ NoTask \in TaskRows /\ NoTask.worker = "idle"
  <1>1. NoPackage \in PackageRows
    BY DEF PackageRows, NoPackage
  <1> QED
    BY <1>1 DEF NoPackage, FreeRequest, RequestRows, NoTask, TaskRows, PackageRows

\* Columns that name no file and count nothing.
LEMMA OtherColumns ==
    ASSUME NEW p \in PackageRows
    PROVE  /\ \A s \in {"draft", "published", "deprecated", "rollback"} :
                  LET q == [p EXCEPT !.status = s] IN
                  q \in PackageRows /\ q.row = p.row /\ SameCounters(q, p) /\ SameFiles(q, p)
           /\ \A b \in BOOLEAN :
                  LET q == [p EXCEPT !.open = b] IN
                  q \in PackageRows /\ q.row = p.row /\ SameCounters(q, p) /\ SameFiles(q, p)
           /\ LET q == [p EXCEPT !.row = "live"] IN
              q \in PackageRows /\ q.row = "live" /\ SameCounters(q, p) /\ SameFiles(q, p)
  BY Zenon DEF PackageRows, SameCounters, SameFiles

\* A column that names a file.
LEMMA FileColumns ==
    ASSUME NEW p \in PackageRows, NEW n \in Nat
    PROVE  /\ LET q == [p EXCEPT !.full = n] IN
              q \in PackageRows /\ q.row = p.row /\ SameCounters(q, p)
                  /\ q.full = n /\ q.patch = p.patch
           /\ LET q == [p EXCEPT !.patch = n] IN
              q \in PackageRows /\ q.row = p.row /\ SameCounters(q, p)
                  /\ q.patch = n /\ q.full = p.full
  BY Zenon DEF PackageRows, SameCounters

\* When the copy that is saved is the row.
LEMMA SaveCurrent ==
    ASSUME NEW read, NEW changed, SavePackage(read, changed), ~overwritten'
    PROVE  ~overwritten /\ read = package /\ package' = [changed EXCEPT !.row = "live"]
  BY DEF SavePackage

PackagesSettled ==
    /\ PackagesTypeOK /\ FilesSound /\ CountersSound
    /\ \A r \in Requests : request[r].op # "delete"

\* A step of request r that leaves the files as they are, and of the row those it names and
\* its counters.
LEMMA ColumnsStay ==
    ASSUME PackagesSettled, UNCHANGED <<files, uploaded, logs>>,
           package' \in PackageRows, SameFiles(package', package), SameCounters(package', package),
           package'.row = "none" => UNCHANGED package,
           request' \in [Requests -> RequestRows],
           \A r \in Requests : \/ request'[r] = request[r]
                               \/ request'[r].op \notin Writing \cup {"delete"},
           task' \in [Tasks -> TaskRows],
           \A t \in Tasks : task'[t].worker # "idle" => task'[t].action # "none"
    PROVE  PackagesSettled'
  <1>1. PackagesTypeOK'
    BY DEF PackagesTypeOK, PackagesSettled
  <1>2. FilesOf(package') = FilesOf(package)
    BY DEF FilesOf, SameFiles
  <1>3. \A r \in Requests : /\ Uploads(r)' => Uploads(r) /\ request'[r] = request[r]
                            /\ Replaces(r)' => Replaces(r) /\ request'[r] = request[r]
                            /\ request'[r].op # "delete"
    BY DEF Uploads, Replaces, Writing, PackagesSettled
  <1>4. FilesSound'
    BY <1>2, <1>3 DEF FilesSound, PackagesSettled, SameFiles
  <1>5. CountersSound'
    BY DEF CountersSound, PackagesSettled, SameCounters, Reporting
  <1> QED
    BY <1>1, <1>3, <1>4, <1>5 DEF PackagesSettled

LEMMA RequestBecomes ==
    ASSUME request \in [Requests -> RequestRows], NEW r \in Requests, NEW w \in RequestRows,
           request' = [request EXCEPT ![r] = w]
    PROVE  /\ request' \in [Requests -> RequestRows] /\ request'[r] = w
           /\ \A o \in Requests \ {r} : request'[o] = request[o]
  OBVIOUS

LEMMA RequestColumns ==
    ASSUME NEW q \in RequestRows
    PROVE  /\ \A op \in {"idle", "delete", "task"} \cup TaskActions \cup Writing :
                  LET w == [q EXCEPT !.op = op] IN w \in RequestRows /\ w.op = op
           /\ \A p \in PackageRows :
                  LET w == [q EXCEPT !.copy = p] IN w \in RequestRows /\ w.op = q.op
           /\ \A which \in TaskActions :
                  LET w == [q EXCEPT !.kind = which] IN w \in RequestRows /\ w.op = q.op
           /\ \A n \in Nat :
                  LET w == [q EXCEPT !.file = n] IN w \in RequestRows /\ w.op = q.op /\ w.file = n
  BY Zenon DEF RequestRows

LEMMA StatusSaved ==
    ASSUME PackagesSettled, ~overwritten', NEW read,
           NEW s \in {"published", "deprecated", "rollback"},
           SavePackage(read, [read EXCEPT !.status = s])
    PROVE  /\ package' \in PackageRows /\ package'.row = "live"
           /\ SameFiles(package', package) /\ SameCounters(package', package)
  <1>1. PICK p \in PackageRows : p = package
    BY DEF PackagesSettled, PackagesTypeOK
  <1>2. PICK q : q = [p EXCEPT !.status = s] /\ package' = [q EXCEPT !.row = "live"]
    BY <1>1, SaveCurrent
  <1>3. q \in PackageRows /\ SameFiles(q, p) /\ SameCounters(q, p)
    BY <1>2, OtherColumns, Zenon
  <1>4. /\ package' \in PackageRows /\ package'.row = "live"
        /\ SameFiles(package', q) /\ SameCounters(package', q)
    BY <1>2, <1>3, OtherColumns, Zenon
  <1> QED
    BY <1>1, <1>3, <1>4 DEF SameFiles, SameCounters

LEMMA UpdateKeeps ==
    ASSUME PackagesSettled, UpdateHotUpdate \/ UpdateRelease
    PROVE  PackagesSettled'
  <1>1. PICK p \in PackageRows : p = package
    BY DEF PackagesSettled, PackagesTypeOK
  <1>2. /\ UNCHANGED <<files, uploaded, logs, request, task>>
        /\ \E open \in BOOLEAN : package' = [p EXCEPT !.open = open]
    BY <1>1 DEF UpdateHotUpdate, UpdateRelease
  <1>3. PICK open \in BOOLEAN : package' = [p EXCEPT !.open = open]
    BY <1>2
  <1>4. /\ package' \in PackageRows /\ package'.row = p.row
        /\ SameFiles(package', p) /\ SameCounters(package', p)
    BY <1>3, OtherColumns, Zenon
  <1> QED
    BY <1>1, <1>2, <1>4, ColumnsStay
       DEF PackagesSettled, PackagesTypeOK, UpdateHotUpdate, UpdateRelease, PackageLive

LEMMA ReadKeeps ==
    ASSUME PackagesSettled, NEW r \in Requests, NEW op \in TaskActions, ReadPackage(r, op)
    PROVE  PackagesSettled'
  <1>1. package \in PackageRows /\ request \in [Requests -> RequestRows]
    BY DEF PackagesSettled, PackagesTypeOK
  <1>2. PICK p \in PackageRows : p = package
    BY <1>1
  <1>3. PICK mid, w : /\ mid = [FreeRequest EXCEPT !.op = op] /\ w = [mid EXCEPT !.copy = p]
                      /\ request' = [request EXCEPT ![r] = w]
    BY <1>2 DEF ReadPackage
  <1>4. UNCHANGED <<package, files, uploaded, logs, task>>
    BY DEF ReadPackage
  <1>5. mid \in RequestRows /\ mid.op = op
    BY <1>3, FreshRows, RequestColumns, Zenon
  <1>6. w \in RequestRows /\ w.op = op
    BY <1>3, <1>5, RequestColumns, Zenon
  <1>7. op \notin Writing \cup {"delete"}
    BY DEF TaskActions, Writing
  <1>8. request' \in [Requests -> RequestRows]
        /\ \A o \in Requests : request'[o] = request[o]
                               \/ request'[o].op \notin Writing \cup {"delete"}
    BY <1>1, <1>3, <1>6, <1>7, RequestBecomes
  <1> QED
    BY <1>4, <1>8, ColumnsStay DEF PackagesSettled, PackagesTypeOK, SameFiles, SameCounters

LEMMA FinishedRequest ==
    ASSUME PackagesSettled, NEW r \in Requests, FinishRequest(r)
    PROVE  /\ request' \in [Requests -> RequestRows]
           /\ request'[r].op = "idle"
           /\ \A o \in Requests \ {r} : request'[o] = request[o]
  BY FreshRows, RequestBecomes DEF PackagesSettled, PackagesTypeOK, FinishRequest

LEMMA SaveStatusKeeps ==
    ASSUME PackagesSettled, ~overwritten', NEW r \in Requests, NEW op,
           NEW s \in {"published", "deprecated", "rollback"}, SavePackageStatus(r, op, s)
    PROVE  PackagesSettled'
  <1>1. /\ SavePackage(request[r].copy, [request[r].copy EXCEPT !.status = s])
        /\ FinishRequest(r) /\ UNCHANGED <<files, uploaded, logs, task>>
    BY DEF SavePackageStatus
  <1>2. /\ package' \in PackageRows /\ package'.row = "live"
        /\ SameFiles(package', package) /\ SameCounters(package', package)
    BY <1>1, StatusSaved
  <1>3. request' \in [Requests -> RequestRows]
        /\ \A o \in Requests : request'[o] = request[o]
                               \/ request'[o].op \notin Writing \cup {"delete"}
    BY <1>1, FinishedRequest DEF Writing
  <1> QED
    BY <1>1, <1>2, <1>3, ColumnsStay DEF PackagesSettled, PackagesTypeOK

LEMMA TaskColumns ==
    ASSUME NEW q \in TaskRows
    PROVE  /\ \A s \in {"none", "pending", "running", "failed", "success"} :
                  LET w == [q EXCEPT !.status = s] IN
                  w \in TaskRows /\ w.action = q.action /\ w.worker = q.worker
           /\ \A s \in {"idle", "start", "save", "mark"} :
                  LET w == [q EXCEPT !.worker = s] IN
                  w \in TaskRows /\ w.action = q.action /\ w.worker = s
           /\ \A x \in TaskActions :
                  LET w == [q EXCEPT !.action = x] IN
                  w \in TaskRows /\ w.action = x /\ w.worker = q.worker
           /\ \A p \in PackageRows :
                  LET w == [q EXCEPT !.copy = p] IN
                  w \in TaskRows /\ w.action = q.action /\ w.worker = q.worker
  BY Zenon DEF TaskRows

\* A step that touches tasks, and of requests at most one that is not about files.
LEMMA TasksMove ==
    ASSUME PackagesSettled, UNCHANGED <<package, files, uploaded, logs>>,
           request' \in [Requests -> RequestRows],
           \A r \in Requests : \/ request'[r] = request[r]
                               \/ request'[r].op \notin Writing \cup {"delete"},
           task' \in [Tasks -> TaskRows],
           \A t \in Tasks : task'[t].worker # "idle" => task'[t].action # "none"
    PROVE  PackagesSettled'
  BY ColumnsStay DEF PackagesSettled, PackagesTypeOK, SameFiles, SameCounters

LEMMA CreateTaskKeeps ==
    ASSUME PackagesSettled, NEW r \in Requests, NEW action \in TaskActions,
           CreateTaskIfNotRunning(r, action)
    PROVE  PackagesSettled'
  <1>1. /\ request \in [Requests -> RequestRows] /\ task \in [Tasks -> TaskRows]
        /\ \A t \in Tasks : task[t].worker # "idle" => task[t].action # "none"
    BY DEF PackagesSettled, PackagesTypeOK
  <1>2. UNCHANGED <<package, files, uploaded, logs>>
    BY DEF CreateTaskIfNotRunning
  <1>3. CASE request' = [request EXCEPT ![r] =
                 [FreeRequest EXCEPT !.op = "task", !.kind = action]] /\ UNCHANGED task
    <2>1. PICK mid, w : /\ mid = [FreeRequest EXCEPT !.op = "task"]
                        /\ w = [mid EXCEPT !.kind = action]
                        /\ request' = [request EXCEPT ![r] = w]
      BY <1>3
    <2>2. mid \in RequestRows /\ mid.op = "task"
      BY <2>1, FreshRows, RequestColumns, Zenon
    <2>3. w \in RequestRows /\ w.op = "task"
      BY <2>1, <2>2, RequestColumns, Zenon
    <2> QED
      BY <1>1, <1>2, <1>3, <2>1, <2>3, RequestBecomes, TasksMove DEF Writing
  <1>4. CASE FinishRequest(r) /\ \E t \in Tasks :
                 task' = [task EXCEPT ![t] = [NoTask EXCEPT !.status = "pending",
                                                   !.action = action, !.worker = "start"]]
    <2>1. PICK t \in Tasks : task' = [task EXCEPT ![t] = [NoTask EXCEPT !.status = "pending",
                                                   !.action = action, !.worker = "start"]]
      BY <1>4
    <2>2. PICK a, b, w : /\ a = [NoTask EXCEPT !.status = "pending"]
                         /\ b = [a EXCEPT !.action = action] /\ w = [b EXCEPT !.worker = "start"]
                         /\ task' = [task EXCEPT ![t] = w]
      BY <2>1
    <2>3. w \in TaskRows /\ w.action # "none"
      <3>1. a \in TaskRows
        BY <2>2, FreshRows, TaskColumns, Zenon
      <3>2. b \in TaskRows /\ b.action = action
        BY <2>2, <3>1 DEF TaskRows
      <3>3. w \in TaskRows /\ w.action = action
        BY <2>2, <3>2, TaskColumns, Zenon
      <3> QED
        BY <3>3 DEF TaskActions
    <2>4. /\ task' \in [Tasks -> TaskRows]
          /\ \A u \in Tasks : task'[u].worker # "idle" => task'[u].action # "none"
      BY <1>1, <2>2, <2>3
    <2>5. /\ request' \in [Requests -> RequestRows]
          /\ \A o \in Requests : request'[o] = request[o]
                                 \/ request'[o].op \notin Writing \cup {"delete"}
      BY <1>4, FinishedRequest DEF Writing
    <2> QED
      BY <1>2, <2>4, <2>5, TasksMove
  <1> QED
    BY <1>3, <1>4 DEF CreateTaskIfNotRunning

LEMMA TaskBecomes ==
    ASSUME PackagesSettled, NEW t \in Tasks, NEW w \in TaskRows, task' = [task EXCEPT ![t] = w],
           w.worker # "idle" => w.action # "none"
    PROVE  /\ task' \in [Tasks -> TaskRows]
           /\ \A u \in Tasks : task'[u].worker # "idle" => task'[u].action # "none"
  BY DEF PackagesSettled, PackagesTypeOK

LEMMA MarkedTask ==
    ASSUME PackagesSettled, NEW t \in Tasks, NEW s \in {"failed", "success"}, MarkTask(t, s)
    PROVE  /\ task' \in [Tasks -> TaskRows]
           /\ \A u \in Tasks : task'[u].worker # "idle" => task'[u].action # "none"
  <1>1. task \in [Tasks -> TaskRows]
    BY DEF PackagesSettled, PackagesTypeOK
  <1>2. PICK old \in TaskRows : old = task[t]
    BY <1>1
  <1>3. PICK p, a, b, w : /\ a = [old EXCEPT !.status = s] /\ b = [a EXCEPT !.worker = "idle"]
                          /\ p = NoPackage /\ w = [b EXCEPT !.copy = p]
    OBVIOUS
  <1>4. a \in TaskRows
    BY <1>3, TaskColumns, Zenon
  <1>5. b \in TaskRows /\ b.worker = "idle"
    BY <1>3, <1>4, TaskColumns, Zenon
  <1>6. p \in PackageRows
    BY <1>3, FreshRows
  <1>7. w \in TaskRows /\ w.worker = "idle"
    BY <1>3, <1>5, <1>6 DEF TaskRows
  <1>8. task' = [task EXCEPT ![t] = w]
    BY <1>1, <1>2, <1>3 DEF MarkTask
  <1> QED
    BY <1>7, <1>8, TaskBecomes

\* A worker saves what it read, when that is still the row.
LEMMA WorkKeeps ==
    ASSUME PackagesSettled, ~overwritten', NEW t \in Tasks, WorkOn(t),
           UNCHANGED <<files, uploaded, request, logs>>
    PROVE  PackagesSettled'
  <1>1. /\ task \in [Tasks -> TaskRows] /\ package \in PackageRows
        /\ \A u \in Tasks : task[u].worker # "idle" => task[u].action # "none"
        /\ request \in [Requests -> RequestRows]
    BY DEF PackagesSettled, PackagesTypeOK
  <1>2. PICK old \in TaskRows : old = task[t]
    BY <1>1
  <1>3. PICK p \in PackageRows : p = package
    BY <1>1
  <1>4. CASE UNCHANGED package /\ \E s \in {"failed", "success"} : MarkTask(t, s)
    BY <1>1, <1>4, MarkedTask, TasksMove
  <1>5. CASE /\ old.worker = "start" /\ UNCHANGED package
             /\ task' = [task EXCEPT ![t].status = "running", ![t].worker = "save",
                                     ![t].copy = package]
    <2>1. PICK a, b, w : /\ a = [old EXCEPT !.status = "running"]
                         /\ b = [a EXCEPT !.worker = "save"] /\ w = [b EXCEPT !.copy = p]
      OBVIOUS
    <2>2. a \in TaskRows /\ a.action = old.action
      BY <2>1 DEF TaskRows
    <2>3. b \in TaskRows /\ b.action = old.action
      BY <2>1, <2>2 DEF TaskRows
    <2>4. w \in TaskRows /\ w.action = old.action
      BY <2>1, <2>3 DEF TaskRows
    <2>5. task' = [task EXCEPT ![t] = w]
      BY <1>1, <1>2, <1>3, <1>5, <2>1
    <2>6. old.action # "none"
      BY <1>1, <1>2, <1>5
    <2> QED
      BY <1>1, <1>5, <2>4, <2>5, <2>6, TaskBecomes, TasksMove
  <1>6. CASE /\ UNCHANGED package
             /\ task' = [task EXCEPT ![t].status = "running", ![t].worker = "idle"]
    <2>1. PICK a, w : /\ a = [old EXCEPT !.status = "running"]
                      /\ w = [a EXCEPT !.worker = "idle"]
      OBVIOUS
    <2>2. a \in TaskRows
      BY <2>1 DEF TaskRows
    <2>3. w \in TaskRows /\ w.worker = "idle"
      BY <2>1, <2>2 DEF TaskRows
    <2>4. task' = [task EXCEPT ![t] = w]
      BY <1>1, <1>2, <1>6, <2>1
    <2> QED
      BY <1>1, <1>6, <2>3, <2>4, TaskBecomes, TasksMove
  <1>7. CASE /\ old.worker = "save"
             /\ SavePackage(task[t].copy,
                            [task[t].copy EXCEPT !.status = StatusOf(task[t].action)])
             /\ task' = [task EXCEPT ![t].worker = "mark"]
    <2>1. old.action \in TaskActions
      BY <1>1, <1>2, <1>7 DEF TaskRows
    <2>2. StatusOf(old.action) \in {"published", "deprecated", "rollback"}
      BY <2>1 DEF StatusOf, TaskActions
    <2>3. /\ package' \in PackageRows /\ package'.row = "live"
          /\ SameFiles(package', package) /\ SameCounters(package', package)
      BY <1>2, <1>7, <2>2, StatusSaved
    <2>4. PICK w : w = [old EXCEPT !.worker = "mark"]
      OBVIOUS
    <2>5. w \in TaskRows /\ w.action = old.action
      BY <2>4 DEF TaskRows
    <2>6. task' = [task EXCEPT ![t] = w]
      BY <1>1, <1>2, <1>7, <2>4
    <2>7. old.action # "none"
      BY <2>1 DEF TaskActions
    <2>8. /\ task' \in [Tasks -> TaskRows]
          /\ \A u \in Tasks : task'[u].worker # "idle" => task'[u].action # "none"
      BY <2>5, <2>6, <2>7, TaskBecomes
    <2> QED
      BY <1>1, <2>3, <2>8, ColumnsStay
  <1> QED
    BY <1>2, <1>4, <1>5, <1>6, <1>7 DEF WorkOn

LEMMA RestartKeeps ==
    ASSUME PackagesSettled, RestartServer
    PROVE  PackagesSettled'
  <1>1. UNCHANGED <<package, files, uploaded, logs>>
    BY DEF RestartServer
  <1>2. /\ request' \in [Requests -> RequestRows]
        /\ \A r \in Requests : request'[r].op \notin Writing \cup {"delete"}
    BY FreshRows DEF RestartServer, Writing
  <1>3. ASSUME NEW u \in Tasks
        PROVE  task'[u] \in TaskRows /\ task'[u].worker = "idle"
    <2>1. PICK old \in TaskRows : old = task[u]
      BY DEF PackagesSettled, PackagesTypeOK
    <2>2. PICK p, b, w : /\ p = NoPackage /\ b = [old EXCEPT !.worker = "idle"]
                         /\ w = [b EXCEPT !.copy = p] /\ task'[u] = w
      BY <2>1 DEF RestartServer
    <2>3. p \in PackageRows
      BY <2>2, FreshRows
    <2>4. b \in TaskRows /\ b.worker = "idle"
      BY <2>2 DEF TaskRows
    <2>5. w \in TaskRows /\ w.worker = "idle"
      BY <2>2, <2>3, <2>4 DEF TaskRows
    <2> QED
      BY <2>2, <2>5
  <1>4. task' \in [Tasks -> TaskRows]
    BY <1>3 DEF RestartServer
  <1> QED
    BY <1>1, <1>2, <1>3, <1>4, TasksMove

\* A row that is created, with a first file or without.
LEMMA FirstFile ==
    ASSUME PackagesSettled, package.row = "none", UNCHANGED <<request, task, logs>>,
           package' \in PackageRows, package'.row = "live", SameCounters(package', NoPackage),
           \/ UNCHANGED <<files, uploaded>> /\ package'.full = 0 /\ package'.patch = 0
           \/ /\ files' = files \cup {uploaded + 1} /\ uploaded' = uploaded + 1
              /\ \/ package'.full = uploaded + 1 /\ package'.patch = 0
                 \/ package'.full = 0 /\ package'.patch = uploaded + 1
    PROVE  PackagesSettled'
  <1>1. package = NoPackage /\ uploaded \in Nat
    BY DEF PackagesSettled, PackagesTypeOK
  <1>2. CASE UNCHANGED <<files, uploaded>> /\ package'.full = 0 /\ package'.patch = 0
    BY <1>1, <1>2, FreshRows, ColumnsStay DEF PackagesSettled, PackagesTypeOK, SameFiles
  <1>3. CASE /\ files' = files \cup {uploaded + 1} /\ uploaded' = uploaded + 1
             /\ \/ package'.full = uploaded + 1 /\ package'.patch = 0
                \/ package'.full = 0 /\ package'.patch = uploaded + 1
    <2>1. PackagesTypeOK'
      BY <1>1, <1>3 DEF PackagesSettled, PackagesTypeOK
    <2>2. FilesOf(package') = {uploaded + 1} /\ package'.full # package'.patch
      BY <1>1, <1>3 DEF FilesOf
    <2>3. FilesSound'
      <3>1. FilesOf(package') \subseteq files' \cap 1..uploaded'
        BY <1>1, <1>3, <2>2
      <3>2. \A r \in Requests : Uploads(r) =>
                request[r].file \in (files' \cap 1..uploaded') \ FilesOf(package')
        BY <1>1, <1>3, <2>2 DEF PackagesSettled, FilesSound
      <3>3. \A r \in Requests : Replaces(r) =>
                request[r].file \in 0..uploaded' \ FilesOf(package')
        BY <1>1, <1>3, <2>2 DEF PackagesSettled, FilesSound
      <3> QED
        BY <2>2, <3>1, <3>2, <3>3 DEF PackagesSettled, FilesSound, Uploads, Replaces
    <2>4. CountersSound'
      BY <1>1 DEF PackagesSettled, CountersSound, SameCounters, Reporting
    <2> QED
      BY <2>1, <2>3, <2>4 DEF PackagesSettled
  <1> QED
    BY <1>2, <1>3

LEMMA CreatePackageKeeps ==
    ASSUME PackagesSettled,
           CreateHotUpdate \/ CreateRelease \/ \E r \in Requests : UploadRelease(r) /\ ~PackageLive
    PROVE  PackagesSettled'
  <1>1. uploaded + 1 \in Nat
    BY DEF PackagesSettled, PackagesTypeOK
  <1>2. PICK q : q = [NoPackage EXCEPT !.row = "live"]
    OBVIOUS
  <1>3. /\ q \in PackageRows /\ q.row = "live" /\ SameCounters(q, NoPackage)
        /\ q.full = 0 /\ q.patch = 0
    BY <1>2, FreshRows, OtherColumns DEF SameFiles
  <1>4. ASSUME NEW p \in PackageRows, p.row = "live", SameCounters(p, NoPackage),
               p.full = 0, p.patch = 0, NEW s \in {0, uploaded + 1}
        PROVE  /\ LET w == [p EXCEPT !.full = s] IN
                  w \in PackageRows /\ w.row = "live" /\ SameCounters(w, NoPackage)
                      /\ w.full = s /\ w.patch = 0
               /\ LET w == [p EXCEPT !.patch = s] IN
                  w \in PackageRows /\ w.row = "live" /\ SameCounters(w, NoPackage)
                      /\ w.full = 0 /\ w.patch = s
    <2>1. PICK n \in Nat : n = s
      BY <1>1
    <2> QED
      BY <1>4, <2>1, FileColumns DEF SameCounters
  <1>5. CASE CreateHotUpdate
    <2>1. PICK open \in BOOLEAN :
              \/ /\ package' = [NoPackage EXCEPT !.row = "live", !.open = open]
                 /\ UNCHANGED <<files, uploaded>>
              \/ \E which \in {"full", "patch"} :
                    /\ package' = [NoPackage EXCEPT !.row = "live", !.open = open,
                                                    ![which] = uploaded + 1]
                    /\ files' = files \cup {uploaded + 1} /\ uploaded' = uploaded + 1
      BY <1>5 DEF CreateHotUpdate
    <2>2. PICK p : p = [q EXCEPT !.open = open]
      OBVIOUS
    <2>3. /\ p \in PackageRows /\ p.row = "live" /\ SameCounters(p, NoPackage)
          /\ p.full = 0 /\ p.patch = 0
      BY <1>3, <2>2, OtherColumns DEF SameFiles, SameCounters
    <2>4. \/ package' = p /\ UNCHANGED <<files, uploaded>>
          \/ /\ \/ package' = [p EXCEPT !.full = uploaded + 1]
                \/ package' = [p EXCEPT !.patch = uploaded + 1]
             /\ files' = files \cup {uploaded + 1} /\ uploaded' = uploaded + 1
      BY <1>2, <2>1, <2>2
    <2>5. package.row = "none" /\ UNCHANGED <<request, task, logs>>
      BY <1>5 DEF CreateHotUpdate
    <2>6. CASE package' = p /\ UNCHANGED <<files, uploaded>>
      BY <2>3, <2>5, <2>6, FirstFile
    <2>7. CASE package' = [p EXCEPT !.full = uploaded + 1]
               /\ files' = files \cup {uploaded + 1} /\ uploaded' = uploaded + 1
      BY <1>4, <2>3, <2>5, <2>7, FirstFile
    <2>8. CASE package' = [p EXCEPT !.patch = uploaded + 1]
               /\ files' = files \cup {uploaded + 1} /\ uploaded' = uploaded + 1
      BY <1>4, <2>3, <2>5, <2>8, FirstFile
    <2> QED
      BY <2>4, <2>6, <2>7, <2>8
  <1>6. CASE CreateRelease
    BY <1>2, <1>3, <1>6, FirstFile DEF CreateRelease
  <1>7. ASSUME NEW r \in Requests, UploadRelease(r), ~PackageLive PROVE PackagesSettled'
    <2>1. /\ package.row = "none" /\ UNCHANGED <<request, task, logs>>
          /\ package' = [q EXCEPT !.full = uploaded + 1]
          /\ files' = files \cup {uploaded + 1} /\ uploaded' = uploaded + 1
      BY <1>2, <1>7 DEF UploadRelease
    <2> QED
      BY <1>3, <1>4, <2>1, FirstFile
  <1> QED
    BY <1>5, <1>6, <1>7

\* The file that an upload brings is new.
LEMMA StageKeeps ==
    ASSUME PackagesSettled, NEW r \in Requests, NEW which \in {"full", "patch"},
           StageUpload(r, which)
    PROVE  PackagesSettled'
  <1>1. PICK n \in Nat : n = uploaded + 1
    BY DEF PackagesSettled, PackagesTypeOK
  <1>2. PICK w : w = [op |-> "upload", copy |-> package, file |-> n, kind |-> which]
    OBVIOUS
  <1>3. /\ request' = [request EXCEPT ![r] = w]
        /\ files' = files \cup {n} /\ uploaded' = n
        /\ UNCHANGED <<package, task, logs>>
    BY <1>1, <1>2 DEF StageUpload
  <1>4. w \in RequestRows /\ w.op = "upload" /\ w.file = n /\ w.kind = which
    BY <1>2 DEF PackagesSettled, PackagesTypeOK, RequestRows, Writing
  <1>5. /\ request' \in [Requests -> RequestRows] /\ request'[r] = w
        /\ \A o \in Requests \ {r} : request'[o] = request[o]
    BY <1>3, <1>4, RequestBecomes DEF PackagesSettled, PackagesTypeOK
  <1>6. PackagesTypeOK'
    BY <1>1, <1>3, <1>5 DEF PackagesSettled, PackagesTypeOK
  <1>7. FilesSound'
    <2>1. uploaded \in Nat /\ FilesOf(package) \subseteq files \cap 1..uploaded
          /\ (package.full = package.patch => package.full = 0)
      BY DEF PackagesSettled, PackagesTypeOK, FilesSound
    <2>2. \A o \in Requests \ {r} :
              /\ request[o].op = "upload" =>
                     /\ request[o].file \in (files' \cap 1..n) \ FilesOf(package)
                     /\ request[o].file # n /\ request[o].kind \in {"full", "patch"}
              /\ request[o].op = "replaced" =>
                     request[o].file \in 0..n \ FilesOf(package) /\ request[o].file # n
      BY <1>1, <1>3, <2>1 DEF PackagesSettled, FilesSound, Uploads, Replaces
    <2>3. FilesOf(package) \subseteq files' \cap 1..n /\ n \in (files' \cap 1..n) \ FilesOf(package)
      BY <1>1, <1>3, <2>1
    <2>4. FilesOf(package') = FilesOf(package)
      BY <1>3 DEF FilesOf
    <2>5. \A o, z \in Requests \ {r} : o # z =>
              (request[o].op = "upload" /\ request[z].op \in {"upload", "replaced"}
               => request[o].file # request[z].file)
      BY DEF PackagesSettled, FilesSound, Uploads, Replaces
    <2> QED
      BY <1>3, <1>4, <1>5, <2>1, <2>2, <2>3, <2>4, <2>5 DEF FilesSound, Uploads, Replaces
  <1>8. CountersSound'
    BY <1>3 DEF PackagesSettled, CountersSound, Reporting
  <1> QED
    BY <1>4, <1>5, <1>6, <1>7, <1>8 DEF PackagesSettled

\* Saving the name of an uploaded file, which leaves the old one to be removed; or not.
LEMMA SaveUploadKeeps ==
    ASSUME PackagesSettled, ~overwritten', NEW r \in Requests, SaveUpload(r)
    PROVE  PackagesSettled'
  <1>1. PICK u \in RequestRows : u = request[r]
    BY DEF PackagesSettled, PackagesTypeOK
  <1>2. PICK p \in PackageRows : p = package
    BY DEF PackagesSettled, PackagesTypeOK
  <1>3. PICK n \in Nat : n = u.file
    BY DEF RequestRows
  <1>4. /\ u.op = "upload" /\ u.kind \in {"full", "patch"}
        /\ n \in (files \cap 1..uploaded) \ FilesOf(p) /\ uploaded \in Nat
        /\ FilesOf(p) \subseteq files \cap 1..uploaded
        /\ p.full = p.patch => p.full = 0
        /\ UNCHANGED <<uploaded, task, logs>>
    BY <1>1, <1>2, <1>3
       DEF SaveUpload, PackagesSettled, PackagesTypeOK, FilesSound, Uploads
  <1>5. \A o \in Requests \ {r} :
            /\ request[o].op = "upload" =>
                   /\ request[o].file \in (files \cap 1..uploaded) \ FilesOf(p)
                   /\ request[o].file # n /\ request[o].kind \in {"full", "patch"}
            /\ request[o].op = "replaced" =>
                   request[o].file \in 0..uploaded \ FilesOf(p) /\ request[o].file # n
    BY <1>1, <1>2, <1>3, <1>4 DEF PackagesSettled, FilesSound, Uploads, Replaces
  <1>6. \A o, z \in Requests \ {r} : o # z =>
            (request[o].op = "upload" /\ request[z].op \in {"upload", "replaced"}
             => request[o].file # request[z].file)
    BY DEF PackagesSettled, FilesSound, Uploads, Replaces
  <1>7. CASE /\ SavePackage(u.copy, [u.copy EXCEPT ![u.kind] = n])
             /\ request' = [request EXCEPT ![r] =
                               [FreeRequest EXCEPT !.op = "replaced", !.file = u.copy[u.kind]]]
             /\ UNCHANGED files
    <2>1. u.copy = p /\ package' = [[p EXCEPT ![u.kind] = n] EXCEPT !.row = "live"]
      BY <1>2, <1>7, SaveCurrent
    <2>2. PICK old \in Nat : old = p[u.kind] /\ old \in {0} \cup FilesOf(p)
      BY <1>4 DEF PackageRows, FilesOf
    <2>3. PICK q : q = [p EXCEPT ![u.kind] = n] /\ package' = [q EXCEPT !.row = "live"]
      BY <2>1
    <2>4. /\ q \in PackageRows /\ SameCounters(q, p)
          /\ \/ q.full = n /\ q.patch = p.patch /\ old = p.full
             \/ q.patch = n /\ q.full = p.full /\ old = p.patch
      <3>1. CASE u.kind = "full"
        <4>1. q = [p EXCEPT !.full = n]
          BY <2>3, <3>1
        <4> QED
          BY <2>2, <3>1, <4>1, FileColumns
      <3>2. CASE u.kind = "patch"
        <4>1. q = [p EXCEPT !.patch = n]
          BY <2>3, <3>2
        <4> QED
          BY <2>2, <3>2, <4>1, FileColumns
      <3> QED
        BY <1>4, <3>1, <3>2
    <2>5. /\ package' \in PackageRows /\ package'.row = "live"
          /\ SameFiles(package', q) /\ SameCounters(package', q)
      BY <2>3, <2>4, OtherColumns, Zenon
    <2>6. PICK mid, w : /\ mid = [FreeRequest EXCEPT !.op = "replaced"]
                        /\ w = [mid EXCEPT !.file = old]
                        /\ request' = [request EXCEPT ![r] = w]
      BY <1>7, <2>1, <2>2
    <2>7. mid \in RequestRows /\ mid.op = "replaced"
      BY <2>6, FreshRows DEF RequestRows, Writing
    <2>8. w \in RequestRows /\ w.op = "replaced" /\ w.file = old
      BY <2>6, <2>7 DEF RequestRows
    <2>9. /\ request' \in [Requests -> RequestRows] /\ request'[r] = w
          /\ \A o \in Requests \ {r} : request'[o] = request[o]
      BY <2>6, <2>8, RequestBecomes DEF PackagesSettled, PackagesTypeOK
    <2>10. /\ FilesOf(package') \subseteq FilesOf(p) \cup {n} /\ old \notin FilesOf(package')
           /\ package'.full = package'.patch => package'.full = 0
      BY <1>4, <2>2, <2>4, <2>5 DEF SameFiles, FilesOf
    <2>11. \A o \in Requests \ {r} : request[o].op = "upload" => request[o].file # old
      BY <1>4, <1>5, <2>2
    <2>12. FilesSound'
      <3>1. FilesOf(package') \subseteq files' \cap 1..uploaded'
        BY <1>4, <1>7, <2>10
      <3>2. \A o \in Requests \ {r} :
                /\ request'[o].op = "upload" =>
                       /\ request'[o].file \in (files' \cap 1..uploaded') \ FilesOf(package')
                       /\ request'[o].kind \in {"full", "patch"}
                /\ request'[o].op = "replaced" =>
                       request'[o].file \in 0..uploaded' \ FilesOf(package')
        BY <1>4, <1>5, <1>7, <2>9, <2>10
      <3>3. request'[r].op = "replaced" /\ request'[r].file = old
            /\ old \in 0..uploaded' \ FilesOf(package')
        BY <1>4, <2>2, <2>8, <2>9, <2>10
      <3> QED
        BY <1>6, <2>9, <2>10, <2>11, <3>1, <3>2, <3>3 DEF FilesSound, Uploads, Replaces
    <2>13. PackagesTypeOK'
      BY <1>4, <2>5, <2>9 DEF PackagesSettled, PackagesTypeOK
    <2>14. CountersSound'
      BY <1>2, <1>4, <2>4, <2>5 DEF PackagesSettled, CountersSound, SameCounters, Reporting
    <2> QED
      BY <2>8, <2>9, <2>12, <2>13, <2>14 DEF PackagesSettled
  <1>8. CASE files' = files \ {n} /\ FinishRequest(r) /\ UNCHANGED <<package, overwritten>>
    <2>1. /\ request' \in [Requests -> RequestRows] /\ request'[r].op = "idle"
          /\ \A o \in Requests \ {r} : request'[o] = request[o]
      BY <1>8, FinishedRequest
    <2>2. FilesSound'
      <3>1. FilesOf(package') = FilesOf(p) /\ FilesOf(p) \subseteq files' \cap 1..uploaded'
        BY <1>2, <1>4, <1>8
      <3>2. \A o \in Requests \ {r} :
                /\ request'[o].op = "upload" =>
                       /\ request'[o].file \in (files' \cap 1..uploaded') \ FilesOf(package')
                       /\ request'[o].kind \in {"full", "patch"}
                /\ request'[o].op = "replaced" =>
                       request'[o].file \in 0..uploaded' \ FilesOf(package')
        BY <1>4, <1>5, <1>8, <2>1, <3>1
      <3> QED
        BY <1>2, <1>4, <1>6, <1>8, <2>1, <3>1, <3>2 DEF FilesSound, Uploads, Replaces
    <2>3. PackagesTypeOK'
      BY <1>4, <1>8, <2>1 DEF PackagesSettled, PackagesTypeOK
    <2>4. CountersSound'
      BY <1>4, <1>8 DEF PackagesSettled, CountersSound, Reporting
    <2> QED
      BY <2>1, <2>2, <2>3, <2>4 DEF PackagesSettled
  <1> QED
    BY <1>1, <1>3, <1>7, <1>8 DEF SaveUpload

LEMMA RemoveReplacedKeeps ==
    ASSUME PackagesSettled, NEW r \in Requests, RemoveReplaced(r)
    PROVE  PackagesSettled'
  <1>1. /\ request[r].op = "replaced" /\ files' = files \ {request[r].file}
        /\ FinishRequest(r) /\ UNCHANGED <<package, uploaded, task, logs>>
    BY DEF RemoveReplaced
  <1>2. /\ request' \in [Requests -> RequestRows] /\ request'[r].op = "idle"
        /\ \A o \in Requests \ {r} : request'[o] = request[o]
    BY <1>1, FinishedRequest
  <1>3. /\ request[r].file \notin FilesOf(package)
        /\ \A o \in Requests \ {r} : request[o].op = "upload" => request[o].file # request[r].file
    BY <1>1 DEF PackagesSettled, FilesSound, Uploads, Replaces
  <1>4. FilesSound'
    BY <1>1, <1>2, <1>3 DEF PackagesSettled, FilesSound, Uploads, Replaces, FilesOf
  <1>5. PackagesTypeOK'
    BY <1>1, <1>2 DEF PackagesSettled, PackagesTypeOK
  <1>6. CountersSound'
    BY <1>1 DEF PackagesSettled, CountersSound, Reporting
  <1> QED
    BY <1>2, <1>4, <1>5, <1>6 DEF PackagesSettled

\* A report moves each counter by what it moves of the logs.
LEMMA ReportCounts ==
    ASSUME CountersSound, NEW m \in Machines, NEW status \in Reported, logs[m] # status,
           logs' = [logs EXCEPT ![m] = status], NEW s \in {"success", "failed"}
    PROVE  NonNegative(Cardinality(Reporting(s)), CounterDelta(logs[m], status, s))
               = Cardinality(Reporting(s)')
  <1>1. IsFiniteSet(Reporting(s)) /\ IsFiniteSet(Reporting(s)')
    <2>1. Reporting(s) \subseteq Machines /\ Reporting(s)' \subseteq Machines
      BY DEF Reporting
    <2> QED
      BY <2>1, FS_Subset, PackagesAssumption
  <1>2. PICK n \in Nat, k \in Nat : n = Cardinality(Reporting(s)) /\ k = Cardinality(Reporting(s)')
    BY <1>1, FS_CardinalityType
  <1>3. logs'[m] = status /\ \A o \in Machines \ {m} : logs'[o] = logs[o]
    BY DEF CountersSound
  <1>4. CASE status = s
    <2>1. Reporting(s)' = Reporting(s) \cup {m} /\ m \notin Reporting(s)
      BY <1>3, <1>4 DEF Reporting
    <2>2. k = n + 1
      BY <1>1, <1>2, <2>1, FS_AddElement
    <2>3. CounterDelta(logs[m], status, s) = 1
      BY <1>4 DEF CounterDelta
    <2> QED
      BY <1>2, <2>2, <2>3 DEF NonNegative
  <1>5. CASE logs[m] = s
    <2>1. Reporting(s)' = Reporting(s) \ {m} /\ m \in Reporting(s)
      BY <1>3, <1>5 DEF Reporting
    <2>2. k = n - 1
      BY <1>1, <1>2, <2>1, FS_RemoveElement
    <2>3. CounterDelta(logs[m], status, s) = -1
      BY <1>5 DEF CounterDelta
    <2> QED
      BY <1>2, <2>2, <2>3 DEF NonNegative
  <1>6. CASE status # s /\ logs[m] # s
    <2>1. Reporting(s)' = Reporting(s)
      BY <1>3, <1>6 DEF Reporting
    <2>2. CounterDelta(logs[m], status, s) = 0
      BY <1>6 DEF CounterDelta
    <2> QED
      BY <1>2, <2>1, <2>2 DEF NonNegative
  <1> QED
    BY <1>4, <1>5, <1>6

LEMMA UpdateReportKeeps ==
    ASSUME PackagesSettled, NEW m \in Machines, NEW status \in Reported,
           ReportUpdateStatus(m, status)
    PROVE  PackagesSettled'
  <1>1. PICK p \in PackageRows : p = package
    BY DEF PackagesSettled, PackagesTypeOK
  <1>2. /\ p.row = "live" /\ logs[m] # status /\ logs' = [logs EXCEPT ![m] = status]
        /\ UNCHANGED <<files, uploaded, request, task>>
    BY <1>1 DEF ReportUpdateStatus, PackageLive
  <1>3. /\ CountersSound
        /\ p.success = Cardinality(Reporting("success"))
        /\ p.fail = Cardinality(Reporting("failed"))
    BY <1>1 DEF PackagesSettled, CountersSound
  <1>4. \A s : Reporting(s)' \subseteq Machines /\ IsFiniteSet(Reporting(s)')
    <2>1. \A s : Reporting(s)' \subseteq Machines
      BY DEF Reporting
    <2> QED
      BY <2>1, FS_Subset, PackagesAssumption
  <1>5. PICK n \in Nat, k \in Nat : /\ n = Cardinality(Reporting("success")')
                                    /\ k = Cardinality(Reporting("failed")')
    BY <1>4, FS_CardinalityType
  <1>6. /\ NonNegative(p.success, CounterDelta(logs[m], status, "success")) = n
        /\ NonNegative(p.fail, CounterDelta(logs[m], status, "failed")) = k
    BY <1>2, <1>3, <1>5, ReportCounts
  <1>7. PICK q, w : /\ q = [p EXCEPT !.success = n] /\ w = [q EXCEPT !.fail = k]
    OBVIOUS
  <1>8. q \in PackageRows /\ q.row = p.row /\ SameFiles(q, p) /\ q.success = n /\ q.fail = p.fail
    BY <1>7 DEF PackageRows, SameFiles
  <1>9. /\ w \in PackageRows /\ w.row = p.row /\ w.full = p.full /\ w.patch = p.patch
        /\ w.success = n /\ w.fail = k
    BY <1>7, <1>8 DEF PackageRows, SameFiles
  <1>10. package' = w
    BY <1>1, <1>6, <1>7, <1>8 DEF ReportUpdateStatus
  <1>11. PackagesTypeOK'
    BY <1>2, <1>9, <1>10 DEF PackagesSettled, PackagesTypeOK
  <1>12. FilesSound'
    BY <1>1, <1>2, <1>9, <1>10 DEF PackagesSettled, FilesSound, FilesOf, Uploads, Replaces
  <1>13. CountersSound'
    <2>1. logs' \in [Machines -> {"none"} \cup Reported]
      BY <1>2, <1>3 DEF CountersSound
    <2>2. package'.row # "none"
      BY <1>2, <1>9, <1>10
    <2> QED
      BY <1>5, <1>9, <1>10, <2>1, <2>2 DEF CountersSound
  <1> QED
    BY <1>2, <1>11, <1>12, <1>13 DEF PackagesSettled

LEMMA PackagesStepKeeps == PackagesInv /\ [PackagesNext]_packageVars => PackagesInv'
  <1> SUFFICES ASSUME PackagesInv, [PackagesNext]_packageVars, ~overwritten', ~removing'
               PROVE  PackagesSettled'
    BY DEF PackagesInv, PackagesSettled
  <1>1. CASE UNCHANGED packageVars
    BY <1>1 DEF packageVars, PackagesInv, PackagesSettled, PackagesTypeOK, FilesSound, FilesOf,
                CountersSound, Uploads, Replaces, Reporting
  <1>2. ASSUME NEW r \in Requests, SaveUpload(r) PROVE ~overwritten /\ ~removing
    <2>1. UNCHANGED removing
      BY <1>2 DEF SaveUpload
    <2>2. UNCHANGED overwritten \/ \E read, changed : SavePackage(read, changed)
      BY <1>2, Zenon DEF SaveUpload
    <2> QED
      BY <2>1, <2>2, SaveCurrent
  <1>3. ASSUME NEW r \in Requests, NEW op, NEW s, SavePackageStatus(r, op, s)
        PROVE  ~overwritten /\ ~removing
    BY <1>3 DEF SavePackageStatus, SavePackage
  <1>4. ASSUME NEW t \in Tasks, RunHotUpdateTask(t) \/ RunReleaseTask(t)
        PROVE  PackagesSettled'
    <2>1. WorkOn(t) /\ UNCHANGED removing
      BY <1>4 DEF RunHotUpdateTask, RunReleaseTask
    <2>2. UNCHANGED overwritten \/ \E read, changed : SavePackage(read, changed)
      BY <2>1, Zenon DEF WorkOn
    <2>3. ~overwritten /\ ~removing
      BY <2>1, <2>2, SaveCurrent
    <2> QED
      BY <1>4, <2>3, WorkKeeps DEF PackagesInv, PackagesSettled, RunHotUpdateTask, RunReleaseTask
  <1>5. ASSUME NEW r \in Requests, DeleteHotUpdate(r) \/ DeleteRelease(r) PROVE FALSE
    <2>1. ~RemoveFiles(r)
      BY DEF RemoveFiles
    <2>2. request[r].op = "delete" /\ ~overwritten /\ ~removing
      BY <1>5, <2>1 DEF DeleteHotUpdate, DeleteRelease
    <2> QED
      BY <2>2 DEF PackagesInv
  <1>6. CASE CreateHotUpdate \/ CreateRelease
    <2>1. PackagesSettled
      BY <1>6 DEF PackagesInv, PackagesSettled, CreateHotUpdate, CreateRelease
    <2> QED
      BY <1>6, <2>1, CreatePackageKeeps
  <1>7. CASE UpdateHotUpdate \/ UpdateRelease
    <2>1. PackagesSettled
      BY <1>7 DEF PackagesInv, PackagesSettled, UpdateHotUpdate, UpdateRelease
    <2> QED
      BY <1>7, <2>1, UpdateKeeps
  <1>8. CASE RestartServer
    <2>1. PackagesSettled
      BY <1>8 DEF PackagesInv, PackagesSettled, RestartServer
    <2> QED
      BY <1>8, <2>1, RestartKeeps
  <1>9. ASSUME NEW r \in Requests, NEW op \in TaskActions, ReadPackage(r, op)
        PROVE  PackagesSettled'
    <2>1. PackagesSettled
      BY <1>9 DEF PackagesInv, PackagesSettled, ReadPackage
    <2> QED
      BY <1>9, <2>1, ReadKeeps
  <1>10. ASSUME NEW r \in Requests, NEW op, NEW s \in {"published", "deprecated", "rollback"},
                SavePackageStatus(r, op, s)
         PROVE  PackagesSettled'
    <2>1. PackagesSettled
      BY <1>3, <1>10 DEF PackagesInv, PackagesSettled
    <2> QED
      BY <1>10, <2>1, SaveStatusKeeps
  <1>11. ASSUME NEW r \in Requests,
                \/ PublishHotUpdate(r) \/ DeprecateHotUpdate(r) \/ RollbackHotUpdate(r)
                \/ PublishRelease(r) \/ DeprecateRelease(r)
         PROVE  PackagesSettled'
    BY <1>9, <1>10, <1>11
       DEF PublishHotUpdate, DeprecateHotUpdate, RollbackHotUpdate, PublishRelease,
           DeprecateRelease, PublishSteps, DeprecateSteps, TaskActions
  <1>12. ASSUME NEW r \in Requests, UploadHotUpdate(r) \/ UploadRelease(r) PROVE PackagesSettled'
    <2>1. PackagesSettled
      BY <1>12 DEF PackagesInv, PackagesSettled, UploadHotUpdate, UploadRelease, StageUpload
    <2>2. CASE \E which \in {"full", "patch"} : StageUpload(r, which)
      BY <2>1, <2>2, StageKeeps
    <2>3. CASE UploadRelease(r) /\ ~PackageLive
      BY <2>1, <2>3, CreatePackageKeeps
    <2> QED
      BY <1>12, <2>2, <2>3 DEF UploadHotUpdate, UploadRelease, PackageLive
  <1>13. ASSUME NEW r \in Requests, SaveUpload(r) PROVE PackagesSettled'
    <2>1. PackagesSettled
      BY <1>2, <1>13 DEF PackagesInv, PackagesSettled
    <2> QED
      BY <1>13, <2>1, SaveUploadKeeps
  <1>14. ASSUME NEW r \in Requests, RemoveReplaced(r) PROVE PackagesSettled'
    <2>1. PackagesSettled
      BY <1>14 DEF PackagesInv, PackagesSettled, RemoveReplaced
    <2> QED
      BY <1>14, <2>1, RemoveReplacedKeeps
  <1>15. ASSUME NEW r \in Requests, CreateHotUpdateTask(r) \/ CreateReleaseTask(r)
         PROVE  PackagesSettled'
    <2>1. PICK action \in TaskActions : CreateTaskIfNotRunning(r, action)
      BY <1>15 DEF CreateHotUpdateTask, CreateReleaseTask, TaskActions
    <2>2. PackagesSettled
      BY <2>1 DEF PackagesInv, PackagesSettled, CreateTaskIfNotRunning
    <2> QED
      BY <2>1, <2>2, CreateTaskKeeps
  <1>16. ASSUME NEW m \in Machines, NEW status \in Reported, ReportUpdateStatus(m, status)
         PROVE  PackagesSettled'
    <2>1. PackagesSettled
      BY <1>16 DEF PackagesInv, PackagesSettled, ReportUpdateStatus
    <2> QED
      BY <1>16, <2>1, UpdateReportKeeps
  <1> QED
    BY <1>1, <1>4, <1>5, <1>6, <1>7, <1>8, <1>11, <1>12, <1>13, <1>14, <1>15, <1>16
       DEF PackagesNext

LEMMA PackagesStart == PackagesInit => PackagesInv
  <1> SUFFICES ASSUME PackagesInit PROVE PackagesSettled
    BY DEF PackagesInv, PackagesSettled
  <1>1. PackagesTypeOK
    BY FreshRows DEF PackagesInit, PackagesTypeOK
  <1>2. FilesSound
    BY FreshRows DEF PackagesInit, FilesSound, FilesOf, Uploads, Replaces
  <1>3. CountersSound
    <2>1. Reporting("success") = {} /\ Reporting("failed") = {}
      BY DEF PackagesInit, Reporting
    <2> QED
      BY <2>1, FreshRows, FS_EmptySet DEF PackagesInit, CountersSound
  <1> QED
    BY <1>1, <1>2, <1>3, FreshRows DEF PackagesInit, PackagesSettled

\* The files named are there and nobody else's, the counters those of the logs, until an old
\* copy is saved or the row deleted, for any requests, tasks, machines and uploads
\* (hotupdate.go, release.go, publish_task.go).
THEOREM PackagesInvariant == PackagesSpec => []PackagesInv
  <1>1. PackagesInit => PackagesInv
    BY PackagesStart
  <1> QED
    BY <1>1, PackagesStepKeeps, PTL DEF PackagesSpec

\* What CheckUpdate and GetLatestRelease offer can be downloaded, however many uploads replace
\* files at a time and whichever of their statements fail.
THEOREM OfferedIsServedAlways == PackagesSpec => []OfferedIsServed
  <1>1. PackagesInv => OfferedIsServed
    <2> SUFFICES ASSUME PackagesInv, ~overwritten, ~removing, Offered # 0 PROVE Served(Offered)
      BY DEF OfferedIsServed
    <2>1. PackageLive /\ package.status = "published" /\ package.open
      BY DEF Offered
    <2>2. Offered \in FilesOf(package)
      BY <2>1 DEF Offered, FilesOf
    <2>3. FilesOf(package) \subseteq files
      BY DEF PackagesInv, FilesSound
    <2> QED
      BY <2>1, <2>2, <2>3 DEF Served
  <1> QED
    BY <1>1, PackagesInvariant, PTL

\* The counters of a hot update are those of its devices' logs, in whatever order any number
\* of devices report and try again (hotupdate.go, ReportStatus).
THEOREM CountersAgreeAlways == PackagesSpec => []CountersAgree
  <1>1. PackagesInv => CountersAgree
    BY DEF PackagesInv, CountersSound, CountersAgree, Reporting
  <1> QED
    BY <1>1, PackagesInvariant, PTL

-----------------------------------------------------------------------------
(* The program's directory on a device.                                    *)

Images   == [Files -> Nat]
WorkRows == [at : {"idle", "extract", "copy", "away", "in"}, update : Nat, left : SUBSET Files,
             image : Images, aside : Images]

UpdaterTypeOK ==
    /\ target \in Images /\ backups \in Seq(Images) /\ work \in WorkRows

\* A whole version is among these backups.
Kept(s) == \E i \in 1..Len(s) : IsWhole(s[i])

\* While an update is extracted, the files that are done are of its version, unless one was
\* torn and nobody noticed.
Extracted ==
    work.at = "extract" =>
        \A f \in Files \ work.left :
            target[f] = work.update \/ (target[f] = Torn /\ "unnoticed" \in mishaps)

\* While the directory is worked on, the version to go back to is a backup.
BackedUp == mishaps = {} /\ Working => Kept(backups)

UpdaterInv ==
    /\ UpdaterTypeOK /\ Extracted /\ BackedUp /\ VersionSurvives
    /\ work.at = "extract" => work.update \in Versions

\* Steps of downloads.
LEMMA DirectoryLeft ==
    ASSUME UpdaterInv, UNCHANGED <<version, target, backups, work, outcome, mishaps>>
    PROVE  UpdaterInv'
  BY DEF UpdaterInv, UpdaterTypeOK, Extracted, BackedUp, VersionSurvives, Kept, Working, IsWhole

\* A step that ends at work w, with the backups there were or more.
LEMMA WorkEnds ==
    ASSUME UpdaterInv, target' \in Images, backups' \in Seq(Images), work' \in WorkRows,
           work'.at # "extract",
           mishaps' = {} /\ work'.at # "idle" => Kept(backups'),
           mishaps' = {} => IsWhole(target') \/ Kept(backups'),
           mishaps' = {} /\ work'.at = "idle" /\ outcome' = "updated" => target' = Whole(version')
    PROVE  UpdaterInv'
  <1>1. Kept(backups)' <=> Kept(backups')
    BY DEF Kept, IsWhole
  <1> QED
    BY <1>1 DEF UpdaterInv, UpdaterTypeOK, Extracted, BackedUp, VersionSurvives, Kept, Working,
       IsWhole

LEMMA NoWork ==
    /\ Absent \in Images /\ IdleWork \in WorkRows /\ IdleWork.at = "idle"
    /\ \A u \in Nat : Whole(u) \in Images
  BY DEF Absent, Images, IdleWork, WorkRows, Whole

\* One backup more does not make those there were disappear.
LEMMA OneMore ==
    ASSUME NEW s \in Seq(Images), NEW image \in Images
    PROVE  /\ Append(s, image) \in Seq(Images)
           /\ Kept(s) \/ IsWhole(image) => Kept(Append(s, image))
  <1>1. /\ Append(s, image) \in Seq(Images) /\ Len(Append(s, image)) = Len(s) + 1
        /\ \A i \in 1..Len(s) : Append(s, image)[i] = s[i]
        /\ Append(s, image)[Len(s) + 1] = image /\ Len(s) \in Nat
    OBVIOUS
  <1>2. ASSUME Kept(s) PROVE Kept(Append(s, image))
    <2>1. PICK i \in 1..Len(s) : IsWhole(s[i])
      BY <1>2 DEF Kept
    <2>2. i \in 1..Len(Append(s, image)) /\ IsWhole(Append(s, image)[i])
      BY <1>1, <2>1
    <2> QED
      BY <2>2 DEF Kept
  <1>3. ASSUME IsWhole(image) PROVE Kept(Append(s, image))
    <2>1. Len(s) + 1 \in 1..Len(Append(s, image)) /\ IsWhole(Append(s, image)[Len(s) + 1])
      BY <1>1, <1>3
    <2> QED
      BY <2>1 DEF Kept
  <1> QED
    BY <1>1, <1>2, <1>3

LEMMA ApplyKeeps ==
    ASSUME UpdaterInv, NEW v \in Versions, ApplyUpdate(v)
    PROVE  UpdaterInv'
  <1>1. UpdaterTypeOK /\ UNCHANGED <<version, target, mishaps>> /\ work.at = "idle"
        /\ target \in Images /\ backups \in Seq(Images) /\ work \in WorkRows
    BY DEF UpdaterInv, UpdaterTypeOK, ApplyUpdate, programVars, Working
  <1>2. PICK image \in Images :
            \/ /\ image = target /\ backups' = Append(backups, image)
               /\ BeginsExtract(v, image) /\ UNCHANGED outcome
            \/ /\ backups' \in {backups, Append(backups, image)}
               /\ outcome' = "refused" /\ UNCHANGED work
    <2>1. PICK copied \in SUBSET Files :
              LET image == [f \in Files |-> IF f \in copied THEN target[f] ELSE 0] IN
              \/ /\ copied = Files /\ backups' = Append(backups, image)
                 /\ BeginsExtract(v, image) /\ UNCHANGED outcome
              \/ /\ backups' \in {backups, Append(backups, image)}
                 /\ outcome' = "refused" /\ UNCHANGED work
      BY Zenon DEF ApplyUpdate
    <2>2. /\ [f \in Files |-> IF f \in copied THEN target[f] ELSE 0] \in Images
          /\ copied = Files => [f \in Files |-> IF f \in copied THEN target[f] ELSE 0] = target
      BY <1>1 DEF Images
    <2> QED
      BY <2>1, <2>2, Zenon
  <1>3. Append(backups, image) \in Seq(Images)
        /\ (Kept(backups) \/ IsWhole(image) => Kept(Append(backups, image)))
    BY <1>1, OneMore
  <1>4. mishaps = {} => IsWhole(target) \/ Kept(backups)
    BY DEF UpdaterInv, VersionSurvives, Kept
  <1>5. CASE /\ image = target /\ backups' = Append(backups, image)
             /\ BeginsExtract(v, image) /\ UNCHANGED outcome
    <2>1. v \in Nat
      BY UpdaterAssumption DEF Versions
    <2>2. work' = [at |-> "extract", update |-> v, left |-> Files, image |-> image,
                   aside |-> Absent]
      BY <1>5 DEF IdleWork, BeginsExtract
    <2>3. work' \in WorkRows /\ work'.at = "extract" /\ work'.left = Files /\ work'.update = v
      BY <2>1, <2>2, NoWork DEF WorkRows
    <2>4. mishaps' = {} => Kept(backups')
      BY <1>1, <1>3, <1>4, <1>5
    <2>5. Kept(backups)' <=> Kept(backups')
      BY DEF Kept, IsWhole
    <2> QED
      BY <1>1, <1>3, <1>5, <2>3, <2>4, <2>5
      DEF UpdaterInv, UpdaterTypeOK, Extracted, BackedUp, VersionSurvives, Working, Kept, IsWhole
  <1>6. CASE backups' \in {backups, Append(backups, image)} /\ outcome' = "refused" /\ UNCHANGED work
    <2>1. mishaps' = {} => IsWhole(target') \/ Kept(backups')
      BY <1>1, <1>3, <1>4, <1>6
    <2> QED
      BY <1>1, <1>3, <1>6, <2>1, WorkEnds
  <1> QED
    BY <1>2, <1>5, <1>6

\* Files of the version offered, of which one may be torn.
LEMMA BreaksKeeps ==
    ASSUME UpdaterInv, Breaks
    PROVE  target' \in Images
  <1>1. Torn \in Nat /\ target \in Images /\ work.left \in SUBSET Files
    BY UpdaterAssumption DEF Torn, UpdaterInv, UpdaterTypeOK, WorkRows
  <1> QED
    BY <1>1 DEF Images, Breaks

LEMMA ExtractKeeps ==
    ASSUME UpdaterInv, NEW f \in Files, Extract(f)
    PROVE  UpdaterInv'
  <1>1. PICK old \in WorkRows : old = work
    BY DEF UpdaterInv, UpdaterTypeOK
  <1>2. /\ old.at = "extract" /\ f \in old.left
        /\ \/ target' = [target EXCEPT ![f] = old.update] /\ UNCHANGED mishaps
           \/ target' = [target EXCEPT ![f] = Torn] /\ mishaps' = mishaps \cup {"unnoticed"}
        /\ work' = [old EXCEPT !.left = old.left \ {f}]
        /\ UNCHANGED <<version, backups, outcome>>
    BY <1>1 DEF Extract, programVars
  <1>3. /\ work' \in WorkRows /\ work'.at = "extract" /\ work'.update = old.update
        /\ work'.left = old.left \ {f}
    BY <1>2 DEF WorkRows
  <1>4. target \in Images /\ old.update \in Nat /\ Torn \in Nat
    BY UpdaterAssumption DEF Torn, UpdaterInv, UpdaterTypeOK, WorkRows
  <1>5. target' \in Images
    BY <1>2, <1>4 DEF Images
  <1>6. \A g \in Files \ work'.left :
            target'[g] = work'.update \/ (target'[g] = Torn /\ "unnoticed" \in mishaps')
    BY <1>1, <1>2, <1>3, <1>4 DEF UpdaterInv, Extracted, Images
  <1>7. mishaps' = {} => mishaps = {}
    BY <1>2
  <1>8. mishaps' = {} => Kept(backups)
    BY <1>1, <1>2, <1>7 DEF UpdaterInv, BackedUp, Working
  <1>9. Kept(backups)' <=> Kept(backups)
    BY <1>2 DEF Kept, IsWhole
  <1> QED
    BY <1>1, <1>2, <1>3, <1>5, <1>6, <1>8, <1>9
    DEF UpdaterInv, UpdaterTypeOK, Extracted, BackedUp, VersionSurvives, Working, Kept, IsWhole

LEMMA ExtractFailsKeeps ==
    ASSUME UpdaterInv, ExtractFails
    PROVE  UpdaterInv'
  <1>1. PICK old \in WorkRows : old = work
    BY DEF UpdaterInv, UpdaterTypeOK
  <1>2. /\ work' = [old EXCEPT !.at = "copy"] /\ old.at = "extract"
        /\ UNCHANGED <<version, backups, outcome, mishaps>>
    BY <1>1 DEF ExtractFails, programVars
  <1>3. work' \in WorkRows /\ work'.at = "copy"
    BY <1>2 DEF WorkRows
  <1>4. target' \in Images
    BY BreaksKeeps DEF ExtractFails
  <1>5. mishaps = {} => Kept(backups)
    BY <1>1, <1>2 DEF UpdaterInv, BackedUp, Working
  <1>6. backups' \in Seq(Images)
    BY <1>2 DEF UpdaterInv, UpdaterTypeOK
  <1> QED
    BY <1>2, <1>3, <1>4, <1>5, <1>6, WorkEnds

LEMMA UpdatedKeeps ==
    ASSUME UpdaterInv, Updated
    PROVE  UpdaterInv'
  <1>1. /\ work.at = "extract" /\ work.left = {} /\ version' = work.update
        /\ backups' = CleanOld(backups) /\ work' = IdleWork
        /\ outcome' = "updated" /\ mishaps' = Forgotten(target) /\ UNCHANGED target
    BY DEF Updated
  <1>2. work.update \in Versions /\ target \in Images
    BY <1>1 DEF UpdaterInv, UpdaterTypeOK
  <1>3. "unnoticed" \notin mishaps => target = Whole(work.update)
    BY <1>1, <1>2 DEF UpdaterInv, Extracted, Whole, Images
  <1>4. mishaps' = {} => target = Whole(work.update)
    <2>1. ASSUME IsWhole(target) PROVE target = Whole(work.update)
      <3>1. PICK v \in Versions : target = Whole(v)
        BY <2>1 DEF IsWhole
      <3>2. v # Torn
        BY UpdaterAssumption DEF Versions, Torn
      <3>3. \A f \in Files : target[f] = v /\ target[f] = work.update
        BY <1>1, <3>1, <3>2 DEF UpdaterInv, Extracted, Whole
      <3> QED
        BY <1>2, <3>3 DEF Whole, Images
    <2> QED
      BY <1>1, <1>3, <2>1 DEF Forgotten
  <1>5. backups' \in Seq(Images)
    <2>1. PICK s \in Seq(Images) : s = backups
      BY DEF UpdaterInv, UpdaterTypeOK
    <2>2. CASE Len(s) > Keep
      <3>1. Len(s) - Keep + 1 \in 1..Len(s) + 1 /\ Len(s) \in Nat
        BY <2>2, UpdaterAssumption
      <3>2. SubSeq(s, Len(s) - Keep + 1, Len(s)) \in Seq(Images)
        BY <3>1, SubSeqProperties
      <3> QED
        BY <1>1, <2>1, <2>2, <3>2 DEF CleanOld
    <2> QED
      BY <1>1, <2>1, <2>2 DEF CleanOld
  <1>6. work' \in WorkRows /\ work'.at = "idle"
    BY <1>1, NoWork
  <1>7. mishaps' = {} => target' = Whole(version') /\ IsWhole(target')
    BY <1>1, <1>2, <1>4 DEF IsWhole
  <1> QED
    BY <1>1, <1>2, <1>5, <1>6, <1>7, WorkEnds

LEMMA RollbackKeeps ==
    ASSUME UpdaterInv, Rollback
    PROVE  UpdaterInv'
  <1>1. UpdaterTypeOK /\ UNCHANGED <<version, target, backups, outcome>>
    BY DEF UpdaterInv, Rollback, programVars
  <1>2. PICK s \in Seq(Images) : s = backups /\ s # <<>>
    BY <1>1 DEF UpdaterTypeOK, Rollback
  <1>3. PICK image \in Images : image = s[Len(s)]
    BY <1>2
  <1>4. work' = [at |-> "copy", update |-> 0, left |-> {}, image |-> image, aside |-> Absent]
    BY <1>2, <1>3 DEF Rollback, IdleWork
  <1>5. work' \in WorkRows /\ work'.at = "copy"
    BY <1>4, NoWork DEF WorkRows
  <1>6. mishaps' = {} => IsWhole(image)
    BY <1>2, <1>3 DEF Rollback
  <1>7. IsWhole(image) => Kept(backups)
    <2>1. Len(s) \in 1..Len(s)
      BY <1>2
    <2> QED
      BY <1>2, <1>3, <2>1 DEF Kept
  <1> QED
    BY <1>1, <1>5, <1>6, <1>7, WorkEnds DEF UpdaterTypeOK

\* A step of going back, whether it goes on, ends or is stuck: the backups stay.
LEMMA SwapKeeps ==
    ASSUME UpdaterInv, CopyBackup \/ MoveAway \/ MoveIn
    PROVE  UpdaterInv'
  <1>1. PICK old \in WorkRows : old = work
    BY DEF UpdaterInv, UpdaterTypeOK
  <1>2. UpdaterTypeOK /\ UNCHANGED <<version, backups>> /\ Working
    BY DEF UpdaterInv, CopyBackup, MoveAway, MoveIn, programVars, Working
  <1>3. old.image \in Images /\ old.aside \in Images /\ target \in Images /\ Absent \in Images
    BY <1>2, NoWork DEF WorkRows, UpdaterTypeOK
  <1> DEFINE Stops == EndRollback("stuck") /\ target' \in {target, old.aside, Absent}
             Goes  == UNCHANGED <<target, outcome>> /\ work' = [old EXCEPT !.at = "away"]
             Moves == /\ UNCHANGED outcome /\ target' = Absent
                      /\ work' = [old EXCEPT !.at = "in", !.aside = target]
             Done  == /\ EndRollback("wentback") /\ target' = old.image
                      /\ mishaps' = Forgotten(old.image)
  <1>4. CASE UNCHANGED mishaps /\ (Stops \/ Goes \/ Moves)
    <2>1. mishaps' = {} => Kept(backups')
      BY <1>2, <1>4 DEF UpdaterInv, BackedUp
    <2>2. CASE Stops
      <3>1. work' \in WorkRows /\ work'.at = "idle" /\ outcome' = "stuck"
        BY <2>2, NoWork DEF EndRollback
      <3> QED
        BY <1>2, <1>3, <2>1, <2>2, <3>1, WorkEnds DEF UpdaterTypeOK
    <2>3. CASE Goes
      <3>1. work' \in WorkRows /\ work'.at = "away"
        BY <2>3 DEF WorkRows
      <3> QED
        BY <1>2, <2>1, <2>3, <3>1, WorkEnds DEF UpdaterTypeOK
    <2>4. CASE Moves
      <3>1. PICK was, mid : /\ was = target /\ was \in Images
                            /\ mid = [old EXCEPT !.at = "in"]
        BY <1>3
      <3>2. mid \in WorkRows /\ mid.at = "in"
        BY <3>1 DEF WorkRows
      <3>3. work' = [mid EXCEPT !.aside = was]
        BY <2>4, <3>1
      <3>4. work' \in WorkRows /\ work'.at = "in"
        BY <3>1, <3>2, <3>3 DEF WorkRows
      <3> QED
        BY <1>2, <1>3, <2>1, <2>4, <3>4, WorkEnds DEF UpdaterTypeOK
    <2> QED
      BY <1>4, <2>2, <2>3, <2>4
  <1>5. CASE Done
    <2>1. work' \in WorkRows /\ work'.at = "idle" /\ outcome' = "wentback"
      BY <1>5, NoWork DEF EndRollback
    <2>2. mishaps' = {} => IsWhole(target') \/ Kept(backups')
      BY <1>2, <1>5 DEF UpdaterInv, BackedUp, Forgotten
    <2> QED
      BY <1>2, <1>3, <1>5, <2>1, <2>2, WorkEnds DEF UpdaterTypeOK
  <1>6. (UNCHANGED mishaps /\ (Stops \/ Goes \/ Moves)) \/ Done
    BY <1>1 DEF CopyBackup, MoveAway, MoveIn
  <1> QED
    BY <1>4, <1>5, <1>6

LEMMA RestartedKeeps ==
    ASSUME UpdaterInv, Restart
    PROVE  UpdaterInv'
  <1>1. /\ work' = IdleWork /\ outcome' = "restarted" /\ UNCHANGED <<backups, mishaps>>
        /\ work.at = "extract" \/ UNCHANGED target
        /\ target' \in Images
    BY BreaksKeeps DEF Restart, UpdaterInv, UpdaterTypeOK
  <1>2. mishaps' = {} => IsWhole(target') \/ Kept(backups')
    <2>1. mishaps = {} => (IsWhole(target) \/ Kept(backups)) /\ (work.at = "extract" => Kept(backups))
      BY DEF UpdaterInv, VersionSurvives, Kept, BackedUp, Working
    <2> QED
      BY <1>1, <2>1
  <1> QED
    BY <1>1, <1>2, NoWork, WorkEnds DEF UpdaterInv, UpdaterTypeOK

LEMMA UpdaterStepKeeps == UpdaterInv /\ [UpdaterNext]_updaterVars => UpdaterInv'
  <1> SUFFICES ASSUME UpdaterInv, [UpdaterNext]_updaterVars PROVE UpdaterInv'
    OBVIOUS
  <1>1. CASE CheckUpdate \/ BeginDownload \/ UNCHANGED updaterVars
    BY <1>1, DirectoryLeft DEF CheckUpdate, BeginDownload, updaterVars, programVars
  <1>2. CASE EndDownload
    BY <1>2, DirectoryLeft DEF EndDownload
  <1> QED
    BY <1>1, <1>2, ApplyKeeps, ExtractKeeps, ExtractFailsKeeps, UpdatedKeeps, RollbackKeeps,
       SwapKeeps, RestartedKeeps DEF UpdaterNext

\* What is extracted is of the update's version, and while the directory is worked on a
\* whole version is a backup, for any versions, files and backups (hotupdate.go of the SDK).
THEOREM UpdaterInvariant == UpdaterSpec => []UpdaterInv
  <1>1. UpdaterInit => UpdaterInv
    <2> SUFFICES ASSUME UpdaterInit PROVE UpdaterInv
      OBVIOUS
    <2>1. /\ target = Whole(1) /\ backups = <<>> /\ work = IdleWork /\ outcome = "none"
          /\ IsWhole(target) /\ work.at = "idle"
      BY UpdaterAssumption, NoWork DEF UpdaterInit, IsWhole, Versions
    <2> QED
      BY <2>1, NoWork DEF UpdaterInv, UpdaterTypeOK, Extracted, BackedUp, VersionSurvives, Working
  <1> QED
    BY <1>1, UpdaterStepKeeps, PTL DEF UpdaterSpec

\* A whole version stays on the disk whichever file, copy or move fails and whenever the
\* application ends, whatever the device downloads meanwhile (ApplyUpdate, extractZipFile,
\* rollback, cleanOldBackups).
THEOREM VersionSurvivesAlways == UpdaterSpec => []VersionSurvives
  <1> QED
    BY UpdaterInvariant, PTL DEF UpdaterInv

-----------------------------------------------------------------------------
(* One synchronised item.                                                  *)

RowType      == [ver : Nat, edit : Nat, gone : BOOLEAN]
Steps        == {"idle", "create", "conflict", "save", "status", "resolve"}
ReqType      == [pc : Steps, action : Actions, lv : Nat, via : Vias, copy : RowType, data : BOOLEAN]
ConflictType == [data : BOOLEAN, server : Nat, shown : Nat]

SyncTypeOK ==
    /\ kind \in AllKinds /\ row \in RowType /\ edits \in Nat /\ raced \in BOOLEAN
    /\ req \in [Devices -> ReqType]
    /\ base \in [Devices -> Nat] /\ knows \in [Devices -> Nat]
    /\ conflict \in [Devices -> ConflictType]

\* A version is not ahead of the row's, and where it is the row's so is the edit.
Current(ver, edit) ==
    ver <= row.ver /\ (ver = row.ver /\ ver # 0 => edit = row.edit)

\* What a device believes, and what its conflict shows, the row has or had.
BeliefsCurrent ==
    \A d \in Devices : Current(base[d], knows[d]) /\ Current(conflict[d].server, conflict[d].shown)

\* So has the copy a device is about to save: it is the row unless somebody saved.
CopiesCurrent ==
    /\ row.ver = 0 => row = NoRow
    /\ \A d \in Devices : /\ req[d].copy.ver <= row.ver
                          /\ req[d].copy.ver = row.ver => req[d].copy = row

\* Who is about to save has been compared with what it believes, or was shown, unless it
\* asked not to be.
ComparedOf(d) ==
    /\ At(d, "save") => /\ req[d].copy.ver # 0
                        /\ Unchecked(req[d]) \/ (~raced => base[d] = req[d].copy.ver)
    /\ At(d, "resolve") => req[d].copy.ver = conflict[d].server /\ conflict[d].server # 0
    /\ At(d, "conflict") => req[d].copy.ver # 0 /\ kind # "table"
    /\ Pending(d) => conflict[d].server # 0 /\ kind # "table"

SyncInv ==
    /\ SyncTypeOK
    /\ \A d \in Devices : ComparedOf(d)
    /\ ~raced => BeliefsCurrent /\ CopiesCurrent

\* A row one version further makes every belief and copy an old one.
LEMMA NewRow ==
    ASSUME SyncTypeOK, BeliefsCurrent, CopiesCurrent,
           row' \in RowType, row'.ver = row.ver + 1,
           \A e \in Devices : \/ base'[e] = base[e]
                              \/ base'[e] = row'.ver /\ knows'[e] = row'.edit,
           \A e \in Devices : conflict'[e] = conflict[e] \/ conflict'[e] = NoConflict,
           \A e \in Devices : req'[e] = req[e] \/ req'[e] = Idle
    PROVE  BeliefsCurrent' /\ CopiesCurrent'
  <1>1. row.ver \in Nat /\ row'.ver \in Nat /\ row'.ver # 0
    BY DEF SyncTypeOK, RowType
  <1>2. ASSUME NEW e \in Devices PROVE Current(base[e], knows[e])'
    <2>1. base[e] <= row.ver /\ base[e] \in Nat
      BY DEF BeliefsCurrent, Current, SyncTypeOK
    <2> QED
      BY <2>1, <1>1 DEF Current
  <1>3. ASSUME NEW e \in Devices PROVE Current(conflict[e].server, conflict[e].shown)'
    <2>1. conflict[e].server <= row.ver /\ conflict[e].server \in Nat
      BY DEF BeliefsCurrent, Current, SyncTypeOK, ConflictType
    <2>2. conflict'[e].server <= row.ver /\ conflict'[e].server \in Nat
      BY <2>1, <1>1 DEF NoConflict
    <2> QED
      BY <2>2, <1>1 DEF Current
  <1>4. ASSUME NEW e \in Devices PROVE req'[e].copy.ver <= row.ver /\ req'[e].copy.ver \in Nat
    <2>1. req[e].copy.ver <= row.ver /\ req[e].copy.ver \in Nat
      BY DEF CopiesCurrent, SyncTypeOK, ReqType, RowType
    <2> QED
      BY <2>1, <1>1 DEF Idle, NoRow
  <1> QED
    BY <1>1, <1>2, <1>3, <1>4 DEF BeliefsCurrent, CopiesCurrent

\* While the row stays, what a device newly takes from it is current.
LEMMA SameRow ==
    ASSUME SyncTypeOK, BeliefsCurrent, CopiesCurrent, row' = row,
           \A e \in Devices : \/ base'[e] = base[e] /\ knows'[e] = knows[e]
                              \/ Current(base'[e], knows'[e]),
           \A e \in Devices : conflict'[e] = conflict[e]
                              \/ Current(conflict'[e].server, conflict'[e].shown),
           \A e \in Devices : req'[e] = req[e] \/ req'[e].copy \in {row, NoRow}
    PROVE  BeliefsCurrent' /\ CopiesCurrent'
  <1>1. ASSUME NEW e \in Devices PROVE Current(base[e], knows[e])'
    BY DEF BeliefsCurrent, Current
  <1>2. ASSUME NEW e \in Devices PROVE Current(conflict[e].server, conflict[e].shown)'
    BY DEF BeliefsCurrent, Current
  <1>3. row.ver \in Nat
    BY DEF SyncTypeOK, RowType
  <1>4. ASSUME NEW e \in Devices
        PROVE  req'[e].copy.ver <= row.ver /\ (req'[e].copy.ver = row.ver => req'[e].copy = row)
    <2>1. CASE req'[e] = req[e]
      BY <2>1 DEF CopiesCurrent
    <2>2. CASE req'[e].copy = row
      BY <2>2, <1>3
    <2>3. CASE req'[e].copy = NoRow
      BY <2>3, <1>3 DEF CopiesCurrent, NoRow
    <2> QED
      BY <2>1, <2>2, <2>3
  <1> QED
    BY <1>1, <1>2, <1>4 DEF BeliefsCurrent, CopiesCurrent

\* A step of one device leaves what was compared for the others.
LEMMA OthersCompared ==
    ASSUME SyncInv, NEW d \in Devices, kind' = kind, raced => raced',
           \A e \in Devices : e # d => /\ req'[e] = req[e] /\ base'[e] = base[e]
                                       /\ conflict'[e] = conflict[e],
           ComparedOf(d)'
    PROVE  \A e \in Devices : ComparedOf(e)'
  <1>1. ASSUME NEW e \in Devices, e # d PROVE ComparedOf(e)'
    BY <1>1 DEF SyncInv, ComparedOf, At, Unchecked, Pending
  <1> QED
    BY <1>1

\* What a push does with a row: it saves one that has the version it names, or that it asked
\* not to compare.
LEMMA Dispatches ==
    ASSUME SyncTypeOK, NEW action \in Actions, NEW data \in BOOLEAN, NEW lv \in Nat,
           NEW branch, branch = Dispatch(action, data, lv)
    PROVE  /\ branch \in {"nothing", "create", "conflict", "save", "refused", "error"}
           /\ branch = "create" => row.ver = 0
           /\ branch = "conflict" => row.ver # 0 /\ kind # "table"
           /\ branch = "save" =>
                 /\ row.ver # 0
                 /\ \/ lv = row.ver
                    \/ kind = "table" /\ lv >= row.ver
                    \/ kind = "workflow" /\ action = "delete"
                    \/ kind \in {"post", "comment", "comment_script", "voice_config", "table"} /\ lv = 0
  <1>1. row.ver \in Nat
    BY DEF SyncTypeOK, RowType
  <1>2. CASE kind = "config"
    BY <1>1, <1>2 DEF Dispatch, PushConfig, Branch
  <1>3. CASE kind = "workflow"
    BY <1>1, <1>3 DEF Dispatch, PushWorkflow, Decoded, Branch
  <1>4. CASE kind \in {"batch_task", "material"}
    BY <1>1, <1>4 DEF Dispatch, PushBatchTask, PushMaterial, Decoded, Branch
  <1>5. CASE kind \in {"post", "comment", "comment_script", "voice_config"}
    BY <1>1, <1>5 DEF Dispatch, PushPost, PushComment, PushCommentScript, PushVoiceConfig, Decoded,
       Branch
  <1>6. CASE kind = "table"
    BY <1>1, <1>6 DEF Dispatch, SaveTableData
  <1> QED
    BY <1>2, <1>3, <1>4, <1>5, <1>6 DEF SyncTypeOK, AllKinds

\* What an idle device holds is well formed; so is what it starts.
LEMMA IdleTyped == Idle \in ReqType /\ NoRow \in RowType /\ NoConflict \in ConflictType
  <1>1. NoRow \in RowType
    BY DEF NoRow, RowType
  <1> QED
    BY <1>1 DEF Idle, ReqType, Steps, Actions, Vias, NoConflict, ConflictType

\* Nothing happens to what the invariant speaks of.
LEMMA UnchangedKeeps ==
    ASSUME SyncInv, UNCHANGED <<kind, row, req, base, knows, conflict, edits, raced>>
    PROVE  SyncInv'
  BY DEF SyncInv, SyncTypeOK, ComparedOf, At, Unchecked, Pending, BeliefsCurrent, CopiesCurrent, Current

\* A push that reads the row.
LEMMA ReadsKeep ==
    ASSUME SyncInv, NEW d \in Devices, NEW action \in Actions, NEW data \in BOOLEAN,
           NEW lv \in {0, base[d]}, NEW via \in Vias, Reads(d, action, data, lv, via)
    PROVE  SyncInv'
  <1>1. PICK branch : branch = Dispatch(action, data, lv)
    OBVIOUS
  <1>2. /\ UNCHANGED <<kind, row, base, knows, conflict, edits, raced>>
        /\ \/ UNCHANGED req
           \/ /\ branch \notin {"nothing", "refused", "error"}
              /\ req' = [req EXCEPT ![d] = [pc |-> branch, action |-> action, lv |-> lv,
                                            via |-> via, copy |-> row, data |-> data]]
    BY Zenon, <1>1 DEF Reads
  <1>3. CASE UNCHANGED req
    BY <1>2, <1>3, UnchangedKeeps
  <1>4. CASE /\ branch \notin {"nothing", "refused", "error"}
             /\ req' = [req EXCEPT ![d] = [pc |-> branch, action |-> action, lv |-> lv,
                                           via |-> via, copy |-> row, data |-> data]]
    <2>1. SyncTypeOK /\ lv \in Nat
      BY DEF SyncInv, SyncTypeOK
    <2>2. /\ branch \in {"create", "conflict", "save"}
          /\ branch = "conflict" => row.ver # 0 /\ kind # "table"
          /\ branch = "save" =>
                /\ row.ver # 0
                /\ \/ lv = row.ver
                   \/ kind = "table" /\ lv >= row.ver
                   \/ kind = "workflow" /\ action = "delete"
                   \/ kind \in {"post", "comment", "comment_script", "voice_config", "table"} /\ lv = 0
      BY <1>1, <1>4, <2>1, Dispatches
    <2>3. PICK r : r = [pc |-> branch, action |-> action, lv |-> lv, via |-> via, copy |-> row,
                        data |-> data]
      OBVIOUS
    <2>4. r \in ReqType
      BY <2>1, <2>2, <2>3 DEF ReqType, Steps, SyncTypeOK
    <2>5. req' = [req EXCEPT ![d] = r]
      BY <1>4, <2>3
    <2>6. /\ req' \in [Devices -> ReqType] /\ req'[d] = r
          /\ \A e \in Devices : e # d => req'[e] = req[e]
      BY <2>1, <2>4, <2>5 DEF SyncTypeOK
    <2>7. SyncTypeOK'
      BY <1>2, <2>1, <2>6 DEF SyncTypeOK
    <2>8. ComparedOf(d)'
      <3>1. r.pc = branch /\ r.copy = row /\ r.lv = lv /\ r.action = action
        BY <2>3
      <3>2. Pending(d)' => conflict'[d].server # 0 /\ kind' # "table"
        BY <1>2 DEF SyncInv, ComparedOf, Pending
      <3>3. At(d, "save")' => /\ req'[d].copy.ver # 0
                              /\ Unchecked(req[d])' \/ (~raced' => base'[d] = req'[d].copy.ver)
        <4>1. SUFFICES ASSUME branch = "save"
                       PROVE  /\ row.ver # 0
                              /\ Unchecked(r) \/ (~raced => base[d] = row.ver)
          BY <1>2, <2>6, <3>1 DEF At, Unchecked
        <4>2. ~raced => base[d] <= row.ver
          BY DEF SyncInv, BeliefsCurrent, Current
        <4>3. base[d] \in Nat /\ row.ver \in Nat /\ row.ver # 0
          BY <2>1, <2>2, <4>1 DEF SyncTypeOK, RowType
        <4> QED
          BY <2>2, <3>1, <4>1, <4>2, <4>3 DEF Unchecked
      <3> QED
        BY <1>2, <2>2, <2>6, <3>1, <3>2, <3>3 DEF ComparedOf, At
    <2>9. \A e \in Devices : ComparedOf(e)'
      BY <1>2, <2>6, <2>8, OthersCompared
    <2>10. ~raced' => BeliefsCurrent' /\ CopiesCurrent'
      <3>1. r.copy = row
        BY <2>3
      <3>2. \A e \in Devices : req'[e] = req[e] \/ req'[e].copy \in {row, NoRow}
        BY <2>6, <3>1
      <3> QED
        BY <1>2, <3>2, SameRow DEF SyncInv
    <2> QED
      BY <2>7, <2>9, <2>10 DEF SyncInv
  <1> QED
    BY <1>2, <1>3, <1>4

\* A post's row is read, or a conflict's resolution begun.
LEMMA ReadPostStatusKeeps ==
    ASSUME SyncInv, NEW d \in Devices, ReadPostStatus(d)
    PROVE  SyncInv'
  <1>1. /\ UNCHANGED <<kind, row, base, knows, conflict, edits, raced>>
        /\ req' = [req EXCEPT ![d] = [Idle EXCEPT !.pc = "status", !.copy = row]]
    BY Zenon DEF ReadPostStatus
  <1>2. PICK r : r = [Idle EXCEPT !.pc = "status", !.copy = row]
    OBVIOUS
  <1>3. r \in ReqType /\ r.pc = "status" /\ r.copy = row
    BY <1>2, IdleTyped DEF SyncInv, SyncTypeOK, Idle, ReqType, Steps
  <1>4. req' \in [Devices -> ReqType] /\ req'[d] = r /\ \A e \in Devices : e # d => req'[e] = req[e]
    BY <1>1, <1>2, <1>3 DEF SyncInv, SyncTypeOK
  <1>5. ComparedOf(d)'
    BY <1>1, <1>3, <1>4 DEF SyncInv, ComparedOf, At, Pending
  <1>6. \A e \in Devices : ComparedOf(e)'
    BY <1>1, <1>4, <1>5, OthersCompared
  <1>7. ~raced' => BeliefsCurrent' /\ CopiesCurrent'
    <2>1. \A e \in Devices : req'[e] = req[e] \/ req'[e].copy \in {row, NoRow}
      BY <1>3, <1>4
    <2> QED
      BY <1>1, <2>1, SameRow DEF SyncInv
  <1> QED
    BY <1>1, <1>4, <1>6, <1>7 DEF SyncInv, SyncTypeOK

LEMMA ResolveReadsKeeps ==
    ASSUME SyncInv, NEW d \in Devices, ResolveReads(d)
    PROVE  SyncInv'
  <1>1. /\ UNCHANGED <<kind, row, base, knows, conflict, edits, raced>>
        /\ req' = [req EXCEPT ![d] = [Idle EXCEPT !.pc = "resolve", !.copy = row]]
        /\ Pending(d)
    BY Zenon DEF ResolveReads
  <1>2. PICK r : r = [Idle EXCEPT !.pc = "resolve", !.copy = row]
    OBVIOUS
  <1>3. r \in ReqType /\ r.pc = "resolve" /\ r.copy = row
    BY <1>2, IdleTyped DEF SyncInv, SyncTypeOK, Idle, ReqType, Steps
  <1>4. req' \in [Devices -> ReqType] /\ req'[d] = r /\ \A e \in Devices : e # d => req'[e] = req[e]
    BY <1>1, <1>2, <1>3 DEF SyncInv, SyncTypeOK
  <1>5. conflict[d].server # 0 /\ kind # "table"
    BY <1>1 DEF SyncInv, ComparedOf
  <1>6. row.ver = conflict[d].server
    <2>1. PICK data \in {TRUE, conflict[d].data} : Dispatch("update", data, conflict[d].server) = "save"
      BY Zenon DEF ResolveReads
    <2>2. data \in BOOLEAN /\ conflict[d].server \in Nat /\ "update" \in Actions
      BY DEF SyncInv, SyncTypeOK, ConflictType, Actions
    <2> QED
      BY <1>5, <2>1, <2>2, Dispatches DEF SyncInv
  <1>7. ComparedOf(d)'
    BY <1>1, <1>3, <1>4, <1>5, <1>6 DEF ComparedOf, At, Pending
  <1>8. \A e \in Devices : ComparedOf(e)'
    BY <1>1, <1>4, <1>7, OthersCompared
  <1>9. ~raced' => BeliefsCurrent' /\ CopiesCurrent'
    <2>1. \A e \in Devices : req'[e] = req[e] \/ req'[e].copy \in {row, NoRow}
      BY <1>3, <1>4
    <2> QED
      BY <1>1, <2>1, SameRow DEF SyncInv
  <1> QED
    BY <1>1, <1>4, <1>8, <1>9 DEF SyncInv, SyncTypeOK

\* A request that ends leaves its device with nothing to save.
LEMMA EndsIdle ==
    ASSUME SyncTypeOK, NEW d \in Devices, Ends(d)
    PROVE  /\ req' \in [Devices -> ReqType] /\ req'[d] = Idle
           /\ \A e \in Devices : e # d => req'[e] = req[e]
  BY IdleTyped DEF SyncTypeOK, Ends

LEMMA IdleCompared ==
    ASSUME SyncInv, NEW d \in Devices, kind' = kind, req'[d] = Idle,
           conflict'[d] \in {conflict[d], NoConflict}
    PROVE  ComparedOf(d)'
  <1>1. req'[d].pc = "idle"
    BY DEF Idle
  <1>2. Pending(d)' => Pending(d) /\ conflict'[d] = conflict[d]
    BY DEF Pending
  <1> QED
    BY <1>1, <1>2 DEF SyncInv, ComparedOf, At

\* What a device is told, or not.
LEMMA LearnsOf ==
    ASSUME SyncTypeOK, NEW d \in Devices, NEW ver \in Nat, NEW edit \in Nat,
           Learns(d, ver, edit)
    PROVE  /\ base' \in [Devices -> Nat] /\ knows' \in [Devices -> Nat]
           /\ \A e \in Devices : e # d => base'[e] = base[e] /\ knows'[e] = knows[e]
           /\ base'[d] = ver \/ base'[d] = base[d]
           /\ base'[d] = ver => knows'[d] = edit \/ UNCHANGED <<base, knows>>
           /\ req[d].via # "typed" => (base'[d] = ver /\ knows'[d] = edit) \/ UNCHANGED <<base, knows>>
  BY DEF SyncTypeOK, Learns

\* The statements that write a new row.
LEMMA CreateKeeps ==
    ASSUME SyncInv, NEW d \in Devices, Create(d)
    PROVE  SyncInv'
  <1>t. SyncTypeOK /\ row.ver \in Nat /\ edits + 1 \in Nat
    BY DEF SyncInv, SyncTypeOK, RowType
  <1>1. Ends(d) /\ UNCHANGED <<kind, conflict, raced>>
    BY DEF Create
  <1>2. /\ req' \in [Devices -> ReqType] /\ req'[d] = Idle
        /\ \A e \in Devices : e # d => req'[e] = req[e]
    BY <1>1, <1>t, EndsIdle
  <1>3. ComparedOf(d)'
    BY <1>1, <1>2, IdleCompared
  <1>4. CASE row.ver # 0
    <2>1. UNCHANGED <<row, edits, base, knows>>
      BY <1>4 DEF Create
    <2>2. SyncTypeOK'
      BY <1>1, <1>2, <1>t, <2>1 DEF SyncTypeOK
    <2>3. \A e \in Devices : ComparedOf(e)'
      BY <1>1, <1>2, <1>3, <2>1, OthersCompared
    <2>4. \A e \in Devices : req'[e] = req[e] \/ req'[e].copy \in {row, NoRow}
      BY <1>2 DEF Idle
    <2>5. ~raced' => BeliefsCurrent' /\ CopiesCurrent'
      BY <1>1, <2>1, <2>4, SameRow DEF SyncInv
    <2> QED
      BY <2>2, <2>3, <2>5 DEF SyncInv
  <1>5. CASE row.ver = 0
    <2>1. /\ row' = [ver |-> 1, edit |-> edits + 1, gone |-> req[d].action = "delete"]
          /\ edits' = edits + 1 /\ Learns(d, 1, edits + 1)
      BY <1>5 DEF Create
    <2>2. row' \in RowType /\ row'.ver = row.ver + 1 /\ row'.edit = edits + 1
      BY <1>5, <1>t, <2>1 DEF RowType
    <2>3. /\ base' \in [Devices -> Nat] /\ knows' \in [Devices -> Nat]
          /\ \A e \in Devices : e # d => base'[e] = base[e]
      BY <1>t, <2>1, LearnsOf
    <2>4. \A e \in Devices : base'[e] = base[e] \/ (base'[e] = row'.ver /\ knows'[e] = row'.edit)
      BY <1>5, <1>t, <2>1, <2>2, LearnsOf
    <2>5. SyncTypeOK'
      BY <1>1, <1>2, <1>t, <2>1, <2>2, <2>3 DEF SyncTypeOK
    <2>6. \A e \in Devices : ComparedOf(e)'
      BY <1>1, <1>2, <1>3, <2>3, OthersCompared
    <2>7. ~raced' => BeliefsCurrent' /\ CopiesCurrent'
      BY <1>1, <1>2, <1>t, <2>2, <2>4, NewRow DEF SyncInv
    <2> QED
      BY <2>5, <2>6, <2>7 DEF SyncInv
  <1> QED
    BY <1>4, <1>5

\* A save writes a row; unless that row had changed since it was read, one version further.
LEMMA SavedRow ==
    ASSUME SyncTypeOK, NEW d \in Devices, NEW gone \in BOOLEAN, Saved(d, gone)
    PROVE  /\ row' \in RowType /\ row'.ver = req[d].copy.ver + 1 /\ row'.edit = edits + 1
           /\ edits' \in Nat /\ raced' \in BOOLEAN
           /\ req[d].copy.ver + 1 \in Nat /\ edits + 1 \in Nat
           /\ ~raced' => ~raced /\ row = req[d].copy /\ row'.ver = row.ver + 1
  <1>1. PICK v \in Nat : v = req[d].copy.ver
    BY DEF SyncTypeOK, ReqType, RowType
  <1>2. row' = [ver |-> v + 1, edit |-> edits + 1, gone |-> gone]
    BY <1>1 DEF Saved
  <1>3. row' \in RowType /\ row'.ver = v + 1 /\ row'.edit = edits + 1
    BY <1>2 DEF SyncTypeOK, RowType
  <1>4. /\ edits' = edits + 1
        /\ raced' = (raced \/ row # req[d].copy)
    BY DEF Saved
  <1>5. ~raced' => ~raced /\ row = req[d].copy
    BY <1>4
  <1>6. raced' \in BOOLEAN
    BY <1>4 DEF SyncTypeOK
  <1> QED
    BY <1>1, <1>3, <1>4, <1>5, <1>6 DEF SyncTypeOK

\* The saves, of a push, of a post's status, and of the resolution of a conflict.
LEMMA SavesKeep ==
    ASSUME SyncInv, NEW d \in Devices, NEW gone \in BOOLEAN, Saved(d, gone), Ends(d), kind' = kind,
           base' \in [Devices -> Nat], knows' \in [Devices -> Nat],
           \A e \in Devices : e # d => base'[e] = base[e] /\ conflict'[e] = conflict[e],
           base'[d] = base[d] \/ (base'[d] = row'.ver /\ knows'[d] = row'.edit),
           conflict' \in [Devices -> ConflictType], conflict'[d] \in {conflict[d], NoConflict}
    PROVE  SyncInv'
  <1>t. SyncTypeOK
    BY DEF SyncInv
  <1>1. /\ row' \in RowType /\ edits' \in Nat /\ raced' \in BOOLEAN
        /\ ~raced' => ~raced /\ row'.ver = row.ver + 1
    BY <1>t, SavedRow
  <1>2. /\ req' \in [Devices -> ReqType] /\ req'[d] = Idle
        /\ \A e \in Devices : e # d => req'[e] = req[e]
    BY <1>t, EndsIdle
  <1>3. SyncTypeOK'
    BY <1>t, <1>1, <1>2 DEF SyncTypeOK
  <1>4. ComparedOf(d)'
    BY <1>2, IdleCompared
  <1>5. raced => raced'
    BY <1>1
  <1>6. \A e \in Devices : ComparedOf(e)'
    BY <1>2, <1>4, <1>5, OthersCompared
  <1>7. ASSUME ~raced' PROVE BeliefsCurrent' /\ CopiesCurrent'
    <2>1. /\ \A e \in Devices : \/ base'[e] = base[e]
                                \/ base'[e] = row'.ver /\ knows'[e] = row'.edit
          /\ \A e \in Devices : conflict'[e] = conflict[e] \/ conflict'[e] = NoConflict
          /\ \A e \in Devices : req'[e] = req[e] \/ req'[e] = Idle
      BY <1>2
    <2> QED
      BY <1>t, <1>1, <1>7, <2>1, NewRow DEF SyncInv
  <1> QED
    BY <1>3, <1>6, <1>7 DEF SyncInv

LEMMA SavePushKeeps ==
    ASSUME SyncInv, NEW d \in Devices, SavePush(d)
    PROVE  SyncInv'
  <1>t. SyncTypeOK
    BY DEF SyncInv
  <1>1. PICK gone \in BOOLEAN : gone = (req[d].action = "delete")
    OBVIOUS
  <1>2. /\ Saved(d, gone) /\ Ends(d) /\ UNCHANGED <<kind, conflict>>
        /\ Learns(d, req[d].copy.ver + 1, edits + 1)
    BY <1>1 DEF SavePush
  <1>3. /\ row'.ver = req[d].copy.ver + 1 /\ row'.edit = edits + 1
        /\ req[d].copy.ver + 1 \in Nat /\ edits + 1 \in Nat
    BY <1>t, <1>2, SavedRow
  <1>4. /\ base' \in [Devices -> Nat] /\ knows' \in [Devices -> Nat]
        /\ \A e \in Devices : e # d => base'[e] = base[e]
        /\ base'[d] = base[d] \/ (base'[d] = row'.ver /\ knows'[d] = row'.edit)
    BY <1>t, <1>2, <1>3, LearnsOf
  <1>5. conflict' \in [Devices -> ConflictType]
    BY <1>t, <1>2 DEF SyncTypeOK
  <1> QED
    BY <1>2, <1>4, <1>5, SavesKeep

LEMMA UpdatePostStatusKeeps ==
    ASSUME SyncInv, NEW d \in Devices, UpdatePostStatus(d)
    PROVE  SyncInv'
  <1>1. PICK gone \in BOOLEAN : gone = req[d].copy.gone
    BY DEF SyncInv, SyncTypeOK, ReqType, RowType
  <1>2. Saved(d, gone) /\ Ends(d) /\ UNCHANGED <<kind, base, knows, conflict>>
    BY <1>1 DEF UpdatePostStatus
  <1>3. /\ base' \in [Devices -> Nat] /\ knows' \in [Devices -> Nat]
        /\ conflict' \in [Devices -> ConflictType]
    BY <1>2 DEF SyncInv, SyncTypeOK
  <1> QED
    BY <1>2, <1>3, SavesKeep

LEMMA ResolveSavesKeeps ==
    ASSUME SyncInv, NEW d \in Devices, ResolveSaves(d)
    PROVE  SyncInv'
  <1>1. /\ Saved(d, FALSE) /\ Ends(d) /\ UNCHANGED <<kind, base>>
        /\ conflict' = [conflict EXCEPT ![d] = NoConflict]
        /\ knows' = [knows EXCEPT ![d] = edits + 1]
    BY DEF ResolveSaves
  <1>2. /\ conflict' \in [Devices -> ConflictType] /\ conflict'[d] = NoConflict
        /\ \A e \in Devices : e # d => conflict'[e] = conflict[e]
    BY <1>1, IdleTyped DEF SyncInv, SyncTypeOK
  <1>3. base' \in [Devices -> Nat] /\ knows' \in [Devices -> Nat]
    BY <1>1 DEF SyncInv, SyncTypeOK
  <1> QED
    BY <1>1, <1>2, <1>3, SavesKeep

\* The one UPDATE that deletes a row of a table.
LEMMA DeleteTableDataKeeps ==
    ASSUME SyncInv, NEW d \in Devices, DeleteTableData(d)
    PROVE  SyncInv'
  <1>t. SyncTypeOK
    BY DEF SyncInv
  <1>1. /\ row' = [ver |-> row.ver + 1, edit |-> edits + 1, gone |-> TRUE] /\ edits' = edits + 1
        /\ UNCHANGED <<kind, req, base, knows, conflict, raced>>
    BY DEF DeleteTableData
  <1>2. row' \in RowType /\ row'.ver = row.ver + 1 /\ edits' \in Nat
    BY <1>t, <1>1 DEF SyncTypeOK, RowType
  <1>3. SyncTypeOK'
    BY <1>t, <1>1, <1>2 DEF SyncTypeOK
  <1>4. ComparedOf(d)'
    BY <1>1 DEF SyncInv, ComparedOf, At, Unchecked, Pending
  <1>5. \A e \in Devices : ComparedOf(e)'
    BY <1>1, <1>4, OthersCompared
  <1>6. ~raced' => BeliefsCurrent' /\ CopiesCurrent'
    BY <1>t, <1>1, <1>2, NewRow DEF SyncInv
  <1> QED
    BY <1>3, <1>5, <1>6 DEF SyncInv

\* A refused push is recorded, and tells the device what it was refused for.
LEMMA RecordConflictKeeps ==
    ASSUME SyncInv, NEW d \in Devices, RecordConflict(d)
    PROVE  SyncInv'
  <1>t. SyncTypeOK
    BY DEF SyncInv
  <1>1. /\ Ends(d) /\ UNCHANGED <<kind, row, edits, raced>> /\ At(d, "conflict")
        /\ \/ UNCHANGED <<conflict, base, knows>>
           \/ /\ req[d].via = "any"
              /\ conflict' = [conflict EXCEPT ![d] = [data |-> req[d].data,
                                 server |-> req[d].copy.ver, shown |-> req[d].copy.edit]]
              /\ Learns(d, req[d].copy.ver, req[d].copy.edit)
    BY Zenon DEF RecordConflict
  <1>2. /\ req' \in [Devices -> ReqType] /\ req'[d] = Idle
        /\ \A e \in Devices : e # d => req'[e] = req[e]
    BY <1>t, <1>1, EndsIdle
  <1>3. \A e \in Devices : req'[e] = req[e] \/ req'[e].copy \in {row, NoRow}
    BY <1>2 DEF Idle
  <1>4. CASE UNCHANGED <<conflict, base, knows>>
    <2>1. SyncTypeOK'
      BY <1>t, <1>1, <1>2, <1>4 DEF SyncTypeOK
    <2>2. ComparedOf(d)'
      BY <1>1, <1>2, <1>4, IdleCompared
    <2>3. \A e \in Devices : ComparedOf(e)'
      BY <1>1, <1>2, <1>4, <2>2, OthersCompared
    <2>4. ~raced' => BeliefsCurrent' /\ CopiesCurrent'
      BY <1>1, <1>3, <1>4, SameRow DEF SyncInv
    <2> QED
      BY <2>1, <2>3, <2>4 DEF SyncInv
  <1>5. CASE /\ req[d].via = "any"
             /\ conflict' = [conflict EXCEPT ![d] = [data |-> req[d].data,
                                server |-> req[d].copy.ver, shown |-> req[d].copy.edit]]
             /\ Learns(d, req[d].copy.ver, req[d].copy.edit)
    <2>1. PICK v \in Nat, n \in Nat, data \in BOOLEAN :
              v = req[d].copy.ver /\ n = req[d].copy.edit /\ data = req[d].data
      BY <1>t DEF SyncTypeOK, ReqType, RowType
    <2>2. PICK c : c = [data |-> data, server |-> v, shown |-> n]
      OBVIOUS
    <2>3. c \in ConflictType /\ c.server = v /\ c.shown = n
      BY <2>2 DEF ConflictType
    <2>4. conflict' = [conflict EXCEPT ![d] = c]
      BY <1>5, <2>1, <2>2
    <2>5. /\ conflict' \in [Devices -> ConflictType] /\ conflict'[d] = c
          /\ \A e \in Devices : e # d => conflict'[e] = conflict[e]
      BY <1>t, <2>3, <2>4 DEF SyncTypeOK
    <2>6. /\ base' \in [Devices -> Nat] /\ knows' \in [Devices -> Nat]
          /\ \A e \in Devices : e # d => base'[e] = base[e] /\ knows'[e] = knows[e]
          /\ (base'[d] = v /\ knows'[d] = n) \/ UNCHANGED <<base, knows>>
      BY <1>t, <1>5, <2>1, LearnsOf
    <2>7. SyncTypeOK'
      BY <1>t, <1>1, <1>2, <2>5, <2>6 DEF SyncTypeOK
    <2>8. ComparedOf(d)'
      <3>1. v # 0 /\ kind # "table"
        BY <1>1, <2>1 DEF SyncInv, ComparedOf
      <3>2. req'[d].pc = "idle"
        BY <1>2 DEF Idle
      <3> QED
        BY <1>1, <2>3, <2>5, <3>1, <3>2 DEF ComparedOf, At
    <2>9. \A e \in Devices : ComparedOf(e)'
      BY <1>1, <1>2, <2>5, <2>6, <2>8, OthersCompared
    <2>10. ASSUME ~raced' PROVE BeliefsCurrent' /\ CopiesCurrent'
      <3>1. ~raced /\ BeliefsCurrent /\ CopiesCurrent
        BY <1>1, <2>10 DEF SyncInv
      <3>2. Current(v, n)
        BY <2>1, <3>1 DEF CopiesCurrent, Current
      <3>3. \A e \in Devices : (base'[e] = base[e] /\ knows'[e] = knows[e])
                               \/ Current(base'[e], knows'[e])
        BY <2>6, <3>2
      <3>4. \A e \in Devices : conflict'[e] = conflict[e]
                               \/ Current(conflict'[e].server, conflict'[e].shown)
        BY <2>3, <2>5, <3>2
      <3> QED
        BY <1>t, <1>1, <1>3, <3>1, <3>3, <3>4, SameRow
    <2> QED
      BY <2>7, <2>9, <2>10 DEF SyncInv
  <1> QED
    BY <1>1, <1>4, <1>5

LEMMA UseServerKeeps ==
    ASSUME SyncInv, NEW d \in Devices, UseServer(d)
    PROVE  SyncInv'
  <1>1. /\ At(d, "idle") /\ conflict' = [conflict EXCEPT ![d] = NoConflict]
        /\ UNCHANGED <<kind, row, req, base, knows, edits, raced>>
    BY DEF UseServer
  <1>2. /\ conflict' \in [Devices -> ConflictType] /\ conflict'[d] = NoConflict
        /\ \A e \in Devices : e # d => conflict'[e] = conflict[e]
    BY <1>1, IdleTyped DEF SyncInv, SyncTypeOK
  <1>3. ComparedOf(d)'
    BY <1>1, <1>2 DEF ComparedOf, At, Pending
  <1>4. \A e \in Devices : ComparedOf(e)'
    BY <1>1, <1>2, <1>3, OthersCompared
  <1>5. ~raced' => BeliefsCurrent' /\ CopiesCurrent'
    <2>1. row.ver \in Nat
      BY DEF SyncInv, SyncTypeOK, RowType
    <2>2. Current(NoConflict.server, NoConflict.shown)
      BY <2>1 DEF Current, NoConflict
    <2>3. \A e \in Devices : conflict'[e] = conflict[e]
                             \/ Current(conflict'[e].server, conflict'[e].shown)
      BY <1>2, <2>2
    <2> QED
      BY <1>1, <2>3, SameRow DEF SyncInv
  <1> QED
    BY <1>1, <1>2, <1>4, <1>5 DEF SyncInv, SyncTypeOK

\* An answer to a pull.
LEMMA ReceivesKeeps ==
    ASSUME SyncInv, NEW d \in Devices, NEW k, NEW answer, Receives(d, k, answer)
    PROVE  SyncInv'
  <1>1. PICK v : v = IF answer = {} THEN 0 ELSE row.ver
    OBVIOUS
  <1>2. /\ At(d, "idle") /\ base' = [base EXCEPT ![d] = v] /\ knows' = [knows EXCEPT ![d] = row.edit]
        /\ UNCHANGED <<kind, row, req, conflict, edits, raced>>
    BY <1>1 DEF Receives
  <1>3. row.ver \in Nat /\ row.edit \in Nat /\ v \in {0, row.ver}
    BY <1>1 DEF SyncInv, SyncTypeOK, RowType
  <1>4. /\ base' \in [Devices -> Nat] /\ knows' \in [Devices -> Nat]
        /\ base'[d] = v /\ knows'[d] = row.edit
        /\ \A e \in Devices : e # d => base'[e] = base[e] /\ knows'[e] = knows[e]
    BY <1>2, <1>3 DEF SyncInv, SyncTypeOK
  <1>5. ComparedOf(d)'
    BY <1>2 DEF SyncInv, ComparedOf, At, Pending
  <1>6. \A e \in Devices : ComparedOf(e)'
    BY <1>2, <1>4, <1>5, OthersCompared
  <1>7. ~raced' => BeliefsCurrent' /\ CopiesCurrent'
    <2>1. Current(v, row.edit)
      BY <1>3 DEF Current
    <2>2. \A e \in Devices : (base'[e] = base[e] /\ knows'[e] = knows[e])
                             \/ Current(base'[e], knows'[e])
      BY <1>4, <2>1
    <2> QED
      BY <1>2, <2>2, SameRow DEF SyncInv
  <1> QED
    BY <1>2, <1>4, <1>6, <1>7 DEF SyncInv, SyncTypeOK

\* Every call that pushes is such a reading of the row.
LEMMA PushReads ==
    ASSUME SyncInv, NEW d \in Devices, Push(d)
    PROVE  \/ ReadPostStatus(d)
           \/ \E action \in Actions, data \in BOOLEAN, lv \in {0, base[d]}, via \in Vias :
                 Reads(d, action, data, lv, via)
  <1>1. {"update", "delete"} = Actions /\ {"any", "typed", "table"} = Vias
    BY DEF Actions, Vias
  <1>2. CASE SDKPushChanges(d)
    <2>1. PICK action \in Actions, lv \in {0, base[d]} :
              Reads(d, action, action = "update", lv, "any")
      BY Zenon, <1>2 DEF SDKPushChanges, PushChanges, Named
    <2>2. (action = "update") \in BOOLEAN /\ "any" \in Vias
      BY <1>1
    <2> QED
      BY Zenon, <2>1, <2>2
  <1>3. CASE \/ SaveVoiceConfigs(d) \/ SaveConfigs(d) \/ SaveWorkflows(d) \/ SaveMaterials(d)
             \/ SavePosts(d) \/ SaveCommentScripts(d) \/ PushRecord(d) \/ SyncTableToServer(d)
    <2>1. \E lv \in {0, base[d]}, via \in Vias : Reads(d, "update", TRUE, lv, via)
      BY <1>1, <1>3 DEF SaveVoiceConfigs, SaveConfigs, SaveWorkflows, SaveMaterials, SavePosts,
         SaveCommentScripts, PushRecord, SyncTableToServer, PushChanges, Named, SaveConfig,
         SaveWorkflow, SaveMaterial, SaveMaterialsBatch, SavePostsBatch, SaveCommentScriptsBatch,
         SaveTableDataBatch, Typed
    <2> QED
      BY <1>1, <2>1
  <1>4. CASE DeleteVoiceConfig(d) \/ SDKDeleteWorkflow(d)
    <2>1. \E via \in Vias : Reads(d, "delete", FALSE, 0, via)
      BY <1>1, <1>4 DEF DeleteVoiceConfig, SDKDeleteWorkflow, DeleteWorkflow, PushChanges, Typed
    <2> QED
      BY <1>1, <2>1
  <1>5. CASE PushRecordBatch(d)
    <2>1. \E action \in Actions, lv \in {0, base[d]} : Reads(d, action, TRUE, lv, "table")
      BY <1>5 DEF PushRecordBatch, SaveTableDataBatch, Named
    <2> QED
      BY <1>1, <2>1
  <1>6. CASE ReadPostStatus(d)
    BY <1>6
  <1> QED
    BY <1>2, <1>3, <1>4, <1>5, <1>6 DEF Push

LEMMA PullReceives ==
    ASSUME NEW d \in Devices, Pull(d)
    PROVE  \E k, answer : Receives(d, k, answer)
  BY DEF Pull, SDKGetChanges, PullTable, PullAllTables, SDKGetConfigs, SDKGetWorkflows,
     SDKGetMaterials, SDKGetPosts, SDKGetCommentScripts, GetVoiceConfigs

LEMMA SyncStepKeeps == SyncInv /\ [Next]_vars => SyncInv'
  <1> SUFFICES ASSUME SyncInv, [Next]_vars PROVE SyncInv'
    OBVIOUS
  <1>1. CASE UNCHANGED vars
    BY <1>1, UnchangedKeeps DEF vars
  <1>2. ASSUME NEW d \in Devices, Push(d) PROVE SyncInv'
    BY <1>2, PushReads, ReadsKeep, ReadPostStatusKeeps
  <1>3. ASSUME NEW d \in Devices, Pull(d) PROVE SyncInv'
    BY <1>3, PullReceives, ReceivesKeeps
  <1>4. ASSUME NEW d \in Devices, Finish(d) PROVE SyncInv'
    BY <1>4, CreateKeeps, SavePushKeeps, UpdatePostStatusKeeps, RecordConflictKeeps,
       ResolveSavesKeeps DEF Finish
  <1>5. ASSUME NEW d \in Devices, DeleteRecord(d) \/ SDKResolveConflict(d) PROVE SyncInv'
    BY <1>5, DeleteTableDataKeeps, UseServerKeeps, ResolveReadsKeeps
       DEF DeleteRecord, SDKResolveConflict, ResolveConflict
  <1> QED
    BY <1>1, <1>2, <1>3, <1>4, <1>5 DEF Next

\* Unless a save has replaced a row that had changed since it was read, beliefs, conflicts and
\* copies are of versions the row had, and who is about to save was compared with them.
THEOREM SyncInvariant == Spec => []SyncInv
  <1>1. Init => SyncInv
    <2> SUFFICES ASSUME Init PROVE SyncInv
      OBVIOUS
    <2>1. /\ kind \in AllKinds /\ row = NoRow /\ edits = 0 /\ raced = FALSE
          /\ req = [d \in Devices |-> Idle] /\ base = [d \in Devices |-> 0]
          /\ knows = [d \in Devices |-> 0] /\ conflict = [d \in Devices |-> NoConflict]
      BY KindsAssumption DEF Init
    <2>2. SyncTypeOK
      BY <2>1, IdleTyped DEF SyncTypeOK
    <2>3. \A d \in Devices : ComparedOf(d)
      <3>1. Idle.pc = "idle"
        BY DEF Idle
      <3> QED
        BY <2>1, <3>1 DEF ComparedOf, At, Pending
    <2>4. NoRow.ver = 0 /\ Idle.copy = NoRow /\ NoConflict.server = 0
      BY DEF NoRow, Idle, NoConflict
    <2>5. BeliefsCurrent /\ CopiesCurrent
      BY <2>1, <2>4 DEF BeliefsCurrent, CopiesCurrent, Current
    <2> QED
      BY <2>2, <2>3, <2>5 DEF SyncInv
  <1> QED
    BY <1>1, SyncStepKeeps, PTL DEF Spec

\* Who writes, of those that have read, is the one whose request ends.
LEMMA WritesOwn ==
    ASSUME SyncInv, [Next]_vars, NEW d \in Devices, At(d, "save") \/ At(d, "resolve"),
           req'[d] # req[d]
    PROVE  \E gone \in BOOLEAN : Saved(d, gone)
  <1>1. PICK x \in Devices :
            Push(x) \/ Finish(x) \/ DeleteRecord(x) \/ SDKResolveConflict(x) \/ Pull(x)
    BY DEF Next, vars
  <1>2. req \in [Devices -> ReqType] /\ ~At(d, "idle")
    BY DEF SyncInv, SyncTypeOK, At
  <1>3. CASE Push(x)
    <2>1. At(x, "idle") /\ \A e \in Devices : e # x => req'[e] = req[e]
      <3>1. CASE ReadPostStatus(x)
        BY <1>2, <3>1 DEF ReadPostStatus
      <3>2. ASSUME NEW action \in Actions, NEW data \in BOOLEAN, NEW lv \in {0, base[x]},
                   NEW via \in Vias, Reads(x, action, data, lv, via)
            PROVE  At(x, "idle") /\ \A e \in Devices : e # x => req'[e] = req[e]
        BY <1>2, <3>2 DEF Reads
      <3> QED
        BY <1>3, <3>1, <3>2, PushReads
    <2> QED
      BY <1>2, <2>1
  <1>4. CASE Finish(x)
    <2>1. Ends(x)
      BY <1>4 DEF Finish, Create, SavePush, UpdatePostStatus, RecordConflict, ResolveSaves
    <2>2. x = d
      BY <2>1, EndsIdle DEF SyncInv
    <2>3. SavePush(d) \/ ResolveSaves(d)
      BY <1>4, <2>2 DEF Finish, Create, UpdatePostStatus, RecordConflict, At
    <2> QED
      BY <2>3 DEF SavePush, ResolveSaves
  <1>5. CASE DeleteRecord(x) \/ Pull(x)
    <2>1. UNCHANGED req
      BY <1>5, PullReceives DEF DeleteRecord, DeleteTableData, Receives
    <2> QED
      BY <2>1
  <1>6. CASE SDKResolveConflict(x)
    <2>1. At(x, "idle") /\ \A e \in Devices : e # x => req'[e] = req[e]
      BY <1>2, <1>6 DEF SDKResolveConflict, ResolveConflict, UseServer, ResolveReads
    <2> QED
      BY <1>2, <2>1
  <1> QED
    BY <1>1, <1>3, <1>4, <1>5, <1>6

\* For any devices that push, delete and resolve the conflicts of an item of any type at a
\* time: whoever replaces an edit had received it, or was shown it, or asked not to be
\* compared, as long as no save has replaced a row that had changed since it was read
\* (service/data_sync.go, the push functions and ResolveConflict).
THEOREM OverwritesKnownAlways == Spec => OverwritesKnown
  <1>1. SyncInv /\ [Next]_vars =>
            \A d \in Devices :
                (row.edit # 0 /\ ~raced' /\ row' # row /\ req'[d] # req[d]) =>
                    /\ At(d, "save")    => knows[d] = row.edit \/ Unchecked(req[d])
                    /\ At(d, "resolve") => conflict[d].shown = row.edit
    <2> SUFFICES ASSUME SyncInv, [Next]_vars, NEW d \in Devices, ~raced', req'[d] # req[d],
                        At(d, "save") \/ At(d, "resolve")
                 PROVE  /\ At(d, "save")    => knows[d] = row.edit \/ Unchecked(req[d])
                        /\ At(d, "resolve") => conflict[d].shown = row.edit
      OBVIOUS
    <2>1. ~raced /\ row = req[d].copy
      BY WritesOwn, SavedRow DEF SyncInv
    <2>2. Current(base[d], knows[d]) /\ Current(conflict[d].server, conflict[d].shown)
      BY <2>1 DEF SyncInv, BeliefsCurrent
    <2>3. At(d, "save") => Unchecked(req[d]) \/ (base[d] = row.ver /\ row.ver # 0)
      BY <2>1 DEF SyncInv, ComparedOf
    <2>4. At(d, "resolve") => conflict[d].server = row.ver /\ row.ver # 0
      BY <2>1 DEF SyncInv, ComparedOf
    <2> QED
      BY <2>2, <2>3, <2>4 DEF Current
  <1> QED
    BY <1>1, SyncInvariant, PTL DEF Spec, OverwritesKnown

-----------------------------------------------------------------------------
(* Pages.  The place of a row in an order R is the number of rows under it. *)

Under(S, R, r) == {s \in S : <<s, r>> \in R}
First(S, R, n) == {r \in S : Cardinality(Under(S, R, r)) < n}

Orders(R, S) ==
    /\ \A r \in S : <<r, r>> \notin R
    /\ \A r, s \in S : r = s \/ <<r, s>> \in R \/ <<s, r>> \in R
    /\ \A r, s, u \in S : <<r, s>> \in R /\ <<s, u>> \in R => <<r, u>> \in R

\* Places are below the number of rows, and are ordered as the rows are.
LEMMA PlacesAreOrdered ==
    ASSUME NEW S, NEW R, IsFiniteSet(S), Orders(R, S)
    PROVE  /\ Cardinality(S) \in Nat
           /\ \A r \in S : /\ Cardinality(Under(S, R, r)) \in Nat
                           /\ Cardinality(Under(S, R, r)) < Cardinality(S)
           /\ \A r, s \in S : <<r, s>> \in R =>
                 Cardinality(Under(S, R, r)) < Cardinality(Under(S, R, s))
<1>1. Cardinality(S) \in Nat
  BY FS_CardinalityType
<1>2. ASSUME NEW A \in SUBSET S, NEW B \in SUBSET A, NEW r \in A, r \notin B
      PROVE  Cardinality(B) \in Nat /\ Cardinality(B) < Cardinality(A)
  <2>1. IsFiniteSet(A)
    BY FS_Subset
  <2>2. Cardinality(B) <= Cardinality(A) /\ IsFiniteSet(B) /\ (Cardinality(A) = Cardinality(B) => A = B)
    BY <2>1, FS_Subset
  <2>3. A # B
    BY <1>2
  <2>4. Cardinality(A) \in Nat /\ Cardinality(B) \in Nat
    BY <2>1, <2>2, FS_CardinalityType
  <2> QED BY <2>2, <2>3, <2>4
<1>3. ASSUME NEW r \in S
      PROVE  Cardinality(Under(S, R, r)) \in Nat /\ Cardinality(Under(S, R, r)) < Cardinality(S)
  <2>1. Under(S, R, r) \in SUBSET S /\ r \notin Under(S, R, r) /\ S \in SUBSET S
    BY DEF Under, Orders
  <2> QED BY <1>2, <2>1
<1>4. ASSUME NEW r \in S, NEW s \in S, <<r, s>> \in R
      PROVE  Cardinality(Under(S, R, r)) < Cardinality(Under(S, R, s))
  <2>1. /\ Under(S, R, s) \in SUBSET S /\ r \in Under(S, R, s) /\ r \notin Under(S, R, r)
        /\ Under(S, R, r) \in SUBSET Under(S, R, s)
    BY <1>4 DEF Under, Orders
  <2> QED BY <1>2, <2>1
<1> QED BY <1>1, <1>3, <1>4

\* So the first n rows are n, when there are that many.
LEMMA FirstAreCounted ==
    ASSUME NEW S, NEW R, IsFiniteSet(S), Orders(R, S), NEW n \in Nat
    PROVE  /\ IsFiniteSet(First(S, R, n))
           /\ n <= Cardinality(S) => Cardinality(First(S, R, n)) = n
           /\ n >= Cardinality(S) => First(S, R, n) = S
<1> DEFINE place == [r \in S |-> Cardinality(Under(S, R, r))]
           size  == Cardinality(S)
<1>1. /\ size \in Nat
      /\ \A r \in S : place[r] \in Nat /\ place[r] < size
      /\ \A r, s \in S : <<r, s>> \in R => place[r] < place[s]
  BY PlacesAreOrdered
<1>2. \A r \in S, k \in Nat : r \in First(S, R, k) <=> place[r] < k
  BY DEF First
<1>3. First(S, R, n) \in SUBSET S
  BY DEF First
<1>4. IsFiniteSet(First(S, R, n))
  BY <1>3, FS_Subset
<1>5. place \in [S -> 0..(size - 1)]
  BY <1>1
<1> HIDE DEF place
<1>6. \A r, s \in S : place[r] = place[s] => r = s
  <2> SUFFICES ASSUME NEW r \in S, NEW s \in S, place[r] = place[s] PROVE r = s
    OBVIOUS
  <2>1. <<r, s>> \notin R /\ <<s, r>> \notin R
    <3>1. place[r] \in Nat /\ place[s] \in Nat
      BY <1>1
    <3> QED BY <1>1, <3>1
  <2> QED BY <2>1 DEF Orders
<1>7. place \in Injection(S, 0..(size - 1))
  BY <1>5, <1>6 DEF Injection, IsInjective
<1>8. IsFiniteSet(0..(size - 1)) /\ Cardinality(0..(size - 1)) = size
  <2> HIDE DEF size
  <2>1. 0 \in Int /\ size - 1 \in Int
    BY <1>1
  <2>2. IsFiniteSet(0..(size - 1))
        /\ Cardinality(0..(size - 1)) = IF 0 > size - 1 THEN 0 ELSE size - 1 - 0 + 1
    BY <2>1, FS_Interval
  <2> QED BY <1>1, <2>2
<1>9. place \in Surjection(S, 0..(size - 1))
  BY <1>7, <1>8, FS_Injection
<1>10. \A k \in 0..(size - 1) : \E r \in S : place[r] = k
  BY <1>9 DEF Surjection
<1>11. ASSUME n <= size PROVE Cardinality(First(S, R, n)) = n
  <2> DEFINE chosen == [r \in First(S, R, n) |-> place[r]]
  <2> HIDE DEF size
  <2>2. chosen \in [First(S, R, n) -> 0..(n - 1)]
    BY <1>1, <1>2, <1>3
  <2>3. \A r, s \in First(S, R, n) : chosen[r] = chosen[s] => r = s
    BY <1>3, <1>6
  <2>4. \A k \in 0..(n - 1) : \E r \in First(S, R, n) : chosen[r] = k
    <3> SUFFICES ASSUME NEW k \in 0..(n - 1) PROVE \E r \in First(S, R, n) : chosen[r] = k
      OBVIOUS
    <3>1. k \in 0..(size - 1) /\ k < n
      BY <1>1, <1>11
    <3>2. PICK r \in S : place[r] = k
      BY <1>10, <3>1
    <3>3. r \in First(S, R, n)
      BY <1>2, <3>1, <3>2
    <3> QED BY <3>2, <3>3
  <2> HIDE DEF chosen
  <2>5. chosen \in Bijection(First(S, R, n), 0..(n - 1))
    BY <2>2, <2>3, <2>4 DEF Bijection, Injection, IsInjective, Surjection
  <2>6. Cardinality(0..(n - 1)) = Cardinality(First(S, R, n))
    BY <1>4, <2>5, FS_Bijection DEF ExistsBijection
  <2>7. Cardinality(0..(n - 1)) = IF 0 > n - 1 THEN 0 ELSE n - 1 - 0 + 1
    <3>1. 0 \in Int /\ n - 1 \in Int
      OBVIOUS
    <3> QED BY <3>1, FS_Interval
  <2> QED BY <2>6, <2>7
<1>12. ASSUME n >= size PROVE First(S, R, n) = S
  <2> HIDE DEF size
  <2> QED BY <1>1, <1>2, <1>3, <1>12
<1> QED BY <1>4, <1>11, <1>12

\* To cut the first m rows, it is enough to have the first n, and maybe others.
LEMMA EnoughFetched ==
    ASSUME NEW S, NEW R, IsFiniteSet(S), Orders(R, S), NEW n \in Nat,
           NEW F \in SUBSET S, First(S, R, n) \subseteq F
    PROVE  /\ \A m \in 0..n : First(F, R, m) = First(S, R, m)
           /\ \A k \in Nat : k < n => (Cardinality(F) > k <=> Cardinality(S) > k)
<1>1. /\ IsFiniteSet(F) /\ Cardinality(F) <= Cardinality(S)
      /\ Cardinality(F) \in Nat /\ Cardinality(S) \in Nat
  BY FS_Subset, FS_CardinalityType
<1>2. Orders(R, F)
  BY DEF Orders
<1>3. ASSUME NEW r \in F
      PROVE  /\ Cardinality(Under(F, R, r)) <= Cardinality(Under(S, R, r))
             /\ Cardinality(Under(F, R, r)) \in Nat /\ Cardinality(Under(S, R, r)) \in Nat
  <2>1. Under(F, R, r) \in SUBSET Under(S, R, r) /\ Under(S, R, r) \in SUBSET S
    BY DEF Under
  <2>2. IsFiniteSet(Under(S, R, r))
    BY <2>1, FS_Subset
  <2> QED BY <2>1, <2>2, FS_Subset, FS_CardinalityType
<1>4. ASSUME NEW m \in 0..n PROVE First(F, R, m) = First(S, R, m)
  <2>1. ASSUME NEW r \in First(S, R, m) PROVE r \in First(F, R, m)
    <3>1. r \in S /\ Cardinality(Under(S, R, r)) < m
      BY <2>1 DEF First
    <3>2. Cardinality(Under(S, R, r)) \in Nat
      BY <3>1, PlacesAreOrdered
    <3>3. r \in First(S, R, n)
      BY <3>1, <3>2 DEF First
    <3>4. r \in F
      BY <3>3
    <3> QED BY <1>3, <3>1, <3>4 DEF First
  <2>2. ASSUME NEW r \in First(F, R, m) PROVE r \in First(S, R, m)
    <3>1. r \in F /\ r \in S /\ Cardinality(Under(F, R, r)) < m
      BY <2>2 DEF First
    <3>2. SUFFICES ASSUME Cardinality(Under(S, R, r)) >= m PROVE FALSE
      BY <1>3, <3>1 DEF First
    <3>3. Cardinality(Under(S, R, r)) \in Nat /\ Cardinality(Under(S, R, r)) < Cardinality(S)
      BY <3>1, PlacesAreOrdered
    <3>4. m \in Nat /\ m <= Cardinality(S)
      BY <1>1, <3>2, <3>3
    <3>5. Cardinality(First(S, R, m)) = m
      BY <3>4, FirstAreCounted
    <3>6. First(S, R, m) \subseteq Under(F, R, r)
      <4> SUFFICES ASSUME NEW s \in First(S, R, m) PROVE s \in F /\ <<s, r>> \in R
        BY DEF Under
      <4>1. s \in S /\ Cardinality(Under(S, R, s)) < m
        BY DEF First
      <4>2. Cardinality(Under(S, R, s)) \in Nat
        BY <4>1, PlacesAreOrdered
      <4>3. s \in F
        BY <4>1, <4>2 DEF First
      <4>4. s # r /\ <<r, s>> \notin R
        BY <3>1, <3>2, <3>3, <4>1, <4>2, PlacesAreOrdered
      <4> QED BY <3>1, <4>1, <4>3, <4>4 DEF Orders
    <3>7. Under(F, R, r) \in SUBSET F /\ First(S, R, m) \in SUBSET Under(F, R, r)
      BY <3>6 DEF Under
    <3>8. IsFiniteSet(Under(F, R, r))
      BY <1>1, <3>7, FS_Subset
    <3>9. m <= Cardinality(Under(F, R, r))
      BY <3>5, <3>7, <3>8, FS_Subset
    <3> QED BY <1>3, <3>1, <3>4, <3>9
  <2> QED BY <2>1, <2>2
<1>5. ASSUME NEW k \in Nat, k < n PROVE Cardinality(F) > k <=> Cardinality(S) > k
  <2>1. ASSUME Cardinality(S) > k PROVE Cardinality(F) > k
    <3>1. k + 1 \in Nat /\ k + 1 <= Cardinality(S) /\ k + 1 \in 0..n
      BY <1>1, <1>5, <2>1
    <3>2. Cardinality(First(S, R, k + 1)) = k + 1
      BY <3>1, FirstAreCounted
    <3>3. First(S, R, k + 1) = First(F, R, k + 1)
      BY <1>4, <3>1
    <3>4. First(F, R, k + 1) \in SUBSET F
      BY DEF First
    <3>5. Cardinality(First(F, R, k + 1)) <= Cardinality(F)
      BY <1>1, <3>4, FS_Subset
    <3> QED BY <1>1, <3>2, <3>3, <3>5
  <2> QED BY <1>1, <2>1
<1> QED BY <1>4, <1>5

\* The two orders as sets of pairs, and the one a pull is cut by.
Exact  == {p \in rows \X rows : ExactOrder(p[1], p[2])}
Merged == {p \in rows \X rows : MergedOrder(p[1], p[2])}
CutBy  == IF pull.scope = AllTypes THEN Merged ELSE Exact

PageRows == [type : Types, key : Keys, at : Nat]
PullType == [pc : {"idle", "paging", "done"}, scope : Types \cup {AllTypes}, since : Nat,
             offset : Nat, got : SUBSET PageRows, twice : SUBSET PageRows, disturbed : BOOLEAN]

PagesTypeOK ==
    /\ IsFiniteSet(rows) /\ rows \subseteq PageRows
    /\ clock \in Nat /\ writes \in Nat
    /\ \A r, s \in rows : r.type = s.type /\ r.key = s.key => r = s
    /\ pull \in PullType

\* The rows the property is about.
Promised == {r \in Wanted : pull.scope = AllTypes => Orderly(r)}

\* Of them, what has come is what stands before the offset, and none came twice.
Halfway ==
    \A r \in Promised : /\ r \in pull.got <=> r \in First(Wanted, CutBy, pull.offset)
                        /\ r \notin pull.twice

PagesInv ==
    /\ PagesTypeOK
    /\ ~pull.disturbed =>
          /\ pull.pc = "paging" => Halfway
          /\ pull.pc = "done" => Promised \subseteq pull.got \ pull.twice

LEMMA CutIsFirst ==
    ASSUME NEW S \in SUBSET rows, NEW n
    PROVE  /\ Cut(S, n, ExactOrder) = First(S, Exact, n)
           /\ Cut(S, n, MergedOrder) = First(S, Merged, n)
<1>1. ASSUME NEW r \in S
      PROVE  /\ {s \in S : ExactOrder(s, r)} = Under(S, Exact, r)
             /\ {s \in S : MergedOrder(s, r)} = Under(S, Merged, r)
  BY DEF Under, Exact, Merged
<1> QED BY <1>1 DEF Cut, First

LEMMA RowsOrdered ==
    ASSUME PagesTypeOK
    PROVE  /\ Orders(Merged, rows)
           /\ \A t \in Types : Orders(Exact, {r \in rows : r.type = t})
<1>1. /\ \A r \in rows : r.type \in Int /\ r.key \in Int /\ r.at \in Int /\ Second(r.at) \in Int
      /\ \A r, s \in rows : r.type = s.type /\ r.key = s.key => r = s
      /\ \A r \in rows : Spelling[r.key] \in Int
      /\ \A r, s \in rows : Spelling[r.key] = Spelling[s.key] => r.key = s.key
  <2>1. \A t \in Types : t \in Nat
    BY PagesAssumption DEF Types
  <2>2. \A r \in rows : r.type \in Int /\ r.key \in Int /\ r.at \in Int
    <3>1. \A r \in rows : r.type \in Types /\ r.key \in Nat /\ r.at \in Nat
      <4>1. \A k \in Keys : k \in Nat
        BY PagesAssumption DEF Keys
      <4> QED BY <4>1 DEF PagesTypeOK, PageRows
    <3> SUFFICES ASSUME NEW r \in rows PROVE r.type \in Int /\ r.key \in Int /\ r.at \in Int
      OBVIOUS
    <3>2. r.type \in Nat
      BY <2>1, <3>1
    <3>3. r.key \in Nat /\ r.at \in Nat
      BY <3>1
    <3> QED BY <3>2, <3>3
  <2>3. TicksPerSec \in Nat \ {0}
    BY PagesAssumption
  <2>4. \A k \in Int : k \div TicksPerSec \in Int
    BY <2>3
  <2>5. \A r \in rows : Second(r.at) \in Int
    BY <2>2, <2>4 DEF Second
  <2>6. \A r \in rows : r.key \in Keys
    BY DEF PagesTypeOK, PageRows
  <2>7. /\ \A k \in Keys : Spelling[k] \in Nat
        /\ \A k, l \in Keys : Spelling[k] = Spelling[l] => k = l
    BY PagesAssumption
  <2>8. /\ \A r \in rows : Spelling[r.key] \in Int
        /\ \A r, s \in rows : Spelling[r.key] = Spelling[s.key] => r.key = s.key
    BY <2>6, <2>7
  <2> QED BY <2>2, <2>5, <2>8 DEF PagesTypeOK
<1>2. Orders(Merged, rows)
  <2>1. \A r, s \in rows : <<r, s>> \in Merged <=> MergedOrder(r, s)
    BY DEF Merged
  <2>2. \A r \in rows : ~MergedOrder(r, r)
    BY <1>1 DEF MergedOrder
  <2>3. \A r, s \in rows : r = s \/ MergedOrder(r, s) \/ MergedOrder(s, r)
    BY <1>1 DEF MergedOrder
  <2>4. \A r, s, u \in rows : MergedOrder(r, s) /\ MergedOrder(s, u) => MergedOrder(r, u)
    BY <1>1 DEF MergedOrder
  <2> QED BY <2>1, <2>2, <2>3, <2>4 DEF Orders
<1>3. ASSUME NEW t \in Types PROVE Orders(Exact, {r \in rows : r.type = t})
  <2>1. \A r, s \in rows : <<r, s>> \in Exact <=> ExactOrder(r, s)
    BY DEF Exact
  <2>2. \A r \in rows : ~ExactOrder(r, r)
    BY <1>1 DEF ExactOrder
  <2>3. \A r, s \in rows : r.type = s.type => r = s \/ ExactOrder(r, s) \/ ExactOrder(s, r)
    BY <1>1 DEF ExactOrder
  <2>4. \A r, s, u \in rows : ExactOrder(r, s) /\ ExactOrder(s, u) => ExactOrder(r, u)
    BY <1>1 DEF ExactOrder
  <2> QED BY <2>1, <2>2, <2>3, <2>4 DEF Orders
<1> QED BY <1>2, <1>3

\* The rows a pull is to deliver are ordered by the order it is cut by.
LEMMA WantedOrdered ==
    ASSUME PagesTypeOK
    PROVE  Wanted \in SUBSET rows /\ IsFiniteSet(Wanted) /\ Orders(CutBy, Wanted)
<1>1. Wanted \in SUBSET rows
  BY DEF Wanted
<1>2. IsFiniteSet(Wanted)
  BY <1>1, FS_Subset DEF PagesTypeOK
<1>3. CASE pull.scope = AllTypes
  <2>1. CutBy = Merged /\ Orders(Merged, rows)
    BY <1>3, RowsOrdered DEF CutBy
  <2>2. Orders(Merged, Wanted)
    BY <1>1, <2>1 DEF Orders
  <2> QED BY <1>1, <1>2, <2>1, <2>2
<1>4. CASE pull.scope # AllTypes
  <2>1. pull.scope \in Types
    BY <1>4 DEF PagesTypeOK, PullType
  <2>2. Orders(Exact, {r \in rows : r.type = pull.scope})
    BY <2>1, RowsOrdered
  <2>3. Wanted \subseteq {r \in rows : r.type = pull.scope}
    BY <1>4 DEF Wanted
  <2>4. CutBy = Exact
    BY <1>4 DEF CutBy
  <2> QED BY <1>1, <1>2, <2>2, <2>3, <2>4 DEF Orders
<1> QED BY <1>1, <1>2, <1>3, <1>4

\* Of a type, a row is fetched when fewer rows than that come before it; when it is not,
\* as many rows of its type have been.
LEMMA FetchedOrBehind ==
    ASSUME PagesTypeOK, NEW t \in Types, NEW since, NEW n \in Nat, NEW r \in Changed(t, since)
    PROVE  /\ Cardinality(Under(Changed(t, since), Exact, r)) < n => r \in Fetched(t, since, n)
           /\ r \notin Fetched(t, since, n) =>
                 /\ Cardinality(Fetched(t, since, n)) = n
                 /\ \A x \in Fetched(t, since, n) : ExactOrder(x, r)
<1> DEFINE S == Changed(t, since)
<1>1. S \in SUBSET rows /\ S \subseteq {p \in rows : p.type = t} /\ r \in S
  BY DEF Changed
<1> HIDE DEF S
<1>2. IsFiniteSet(S)
  BY <1>1, FS_Subset DEF PagesTypeOK
<1>3. Orders(Exact, S)
  <2>1. Orders(Exact, {p \in rows : p.type = t})
    BY RowsOrdered
  <2> QED BY <1>1, <2>1 DEF Orders
<1>4. Fetched(t, since, n) = First(S, Exact, n)
  BY <1>1, CutIsFirst DEF Fetched, S
<1>5. Cardinality(Under(S, Exact, r)) < n => r \in First(S, Exact, n)
  BY <1>1 DEF First
<1>6. ASSUME r \notin First(S, Exact, n)
      PROVE  /\ Cardinality(First(S, Exact, n)) = n
             /\ \A x \in First(S, Exact, n) : ExactOrder(x, r)
  <2>1. /\ Cardinality(S) \in Nat /\ Cardinality(Under(S, Exact, r)) \in Nat
        /\ Cardinality(Under(S, Exact, r)) < Cardinality(S)
    BY <1>1, <1>2, <1>3, PlacesAreOrdered
  <2>2. Cardinality(Under(S, Exact, r)) >= n
    BY <1>1, <1>6, <2>1 DEF First
  <2>3. Cardinality(First(S, Exact, n)) = n
    BY <1>2, <1>3, <2>1, <2>2, FirstAreCounted
  <2>4. ASSUME NEW x \in First(S, Exact, n) PROVE ExactOrder(x, r)
    <3>1. x \in S /\ Cardinality(Under(S, Exact, x)) < n
      BY DEF First
    <3>2. Cardinality(Under(S, Exact, x)) \in Nat
      BY <1>2, <1>3, <3>1, PlacesAreOrdered
    <3>3. x # r /\ <<r, x>> \notin Exact
      BY <1>1, <1>2, <1>3, <2>1, <2>2, <3>1, <3>2, PlacesAreOrdered
    <3>4. <<x, r>> \in Exact
      BY <1>1, <1>3, <3>1, <3>3 DEF Orders
    <3> QED BY <3>4 DEF Exact
  <2> QED BY <2>3, <2>4
<1> QED BY <1>4, <1>5, <1>6 DEF S

\* Seconds follow the clock.
LEMMA SecondsFollow ==
    ASSUME NEW a \in Nat, NEW b \in Nat
    PROVE  /\ Second(a) \in Nat /\ Second(b) \in Nat
           /\ a <= b => Second(a) <= Second(b)
<1>1. TicksPerSec \in Nat \ {0}
  BY PagesAssumption
<1>2. /\ a \div TicksPerSec \in Nat /\ b \div TicksPerSec \in Nat
      /\ a = TicksPerSec * (a \div TicksPerSec) + (a % TicksPerSec) /\ a % TicksPerSec \in 0..(TicksPerSec - 1)
      /\ b = TicksPerSec * (b \div TicksPerSec) + (b % TicksPerSec) /\ b % TicksPerSec \in 0..(TicksPerSec - 1)
  BY <1>1
<1> DEFINE m == a \div TicksPerSec
           n == b \div TicksPerSec
           k == a % TicksPerSec
           l == b % TicksPerSec
<1>3. ASSUME a <= b PROVE m <= n
  <2> HIDE DEF m, n, k, l
  <2>1. SUFFICES ASSUME n + 1 <= m PROVE FALSE
    BY <1>2 DEF m, n
  <2>2. TicksPerSec * (n + 1) <= TicksPerSec * m
    BY <1>1, <1>2, <2>1 DEF m, n
  <2>3. TicksPerSec * (n + 1) = TicksPerSec * n + TicksPerSec
    BY <1>1, <1>2 DEF n
  <2>4. a = TicksPerSec * m + k /\ k \in Nat /\ b = TicksPerSec * n + l /\ l < TicksPerSec
        /\ l \in Nat /\ TicksPerSec * m \in Nat /\ TicksPerSec * n \in Nat
    BY <1>1, <1>2 DEF m, n, k, l
  <2> QED BY <1>1, <1>3, <2>2, <2>3, <2>4
<1> QED BY <1>2, <1>3 DEF Second

\* What the exact order puts before a row of its type, the merge puts before an orderly row
\* behind it, too.
LEMMA BothBefore ==
    ASSUME PagesTypeOK, NEW r \in rows, NEW s \in rows, NEW x \in rows, Orderly(r),
           s = r \/ MergedOrder(s, r), x.type = s.type, ExactOrder(x, s)
    PROVE  MergedOrder(x, r)
<1>1. /\ \A p \in rows : p.type \in Nat /\ p.at \in Nat /\ p.key \in Keys
      /\ \A p \in rows : Spelling[p.key] \in Nat
  <2>1. /\ \A t \in Types : t \in Nat
        /\ \A k \in Keys : Spelling[k] \in Nat
    BY PagesAssumption DEF Types
  <2> QED BY <2>1 DEF PagesTypeOK, PageRows
<1>2. x.at <= s.at /\ Second(x.at) \in Nat /\ Second(s.at) \in Nat /\ Second(r.at) \in Nat
      /\ Second(x.at) <= Second(s.at)
  <2>1. x.at <= s.at
    BY <1>1 DEF ExactOrder
  <2> QED BY <1>1, <2>1, SecondsFollow
<1>3. Second(s.at) <= Second(r.at)
  BY <1>2 DEF MergedOrder
<1>4. CASE Second(x.at) < Second(r.at)
  BY <1>4 DEF MergedOrder
<1>5. CASE Second(x.at) = Second(r.at)
  <2>1. Second(s.at) = Second(r.at)
    BY <1>2, <1>3, <1>5
  <2>2. CASE s.type = r.type
    <3>1. x \in {p \in rows : p.type = r.type /\ Second(p.at) = Second(r.at)}
          /\ s \in {p \in rows : p.type = r.type /\ Second(p.at) = Second(r.at)}
      BY <1>5, <2>1, <2>2
    <3>2. MergedOrder(x, s)
      BY <3>1 DEF Orderly
    <3>3. Spelling[x.key] < Spelling[s.key]
      BY <1>1, <1>2, <1>5, <2>1, <3>2 DEF MergedOrder
    <3>4. s = r \/ Spelling[s.key] < Spelling[r.key]
      BY <1>1, <1>2, <2>1, <2>2 DEF MergedOrder
    <3>5. Spelling[x.key] < Spelling[r.key]
      BY <1>1, <3>3, <3>4
    <3> QED BY <1>5, <2>2, <3>5 DEF MergedOrder
  <2>3. CASE s.type # r.type
    <3>1. s.type < r.type
      BY <1>1, <1>2, <2>1, <2>3 DEF MergedOrder
    <3> QED BY <1>5, <3>1 DEF MergedOrder
  <2> QED BY <2>2, <2>3
<1> QED BY <1>2, <1>3, <1>4, <1>5

\* One row more than the page of each type is enough: of the rows promised, a page has those
\* it would have if all rows had been fetched, and the last page leaves none.
LEMMA MergedPageIsCut ==
    ASSUME PagesTypeOK, pull.scope = AllTypes, NEW n \in Nat, NEW m \in Nat, m < n,
           NEW F, F = UNION {Fetched(t, pull.since, n) : t \in Types}
    PROVE  /\ F \in SUBSET Wanted
           /\ \A r \in Promised : r \in First(F, Merged, m) <=> r \in First(Wanted, Merged, m)
           /\ F # Wanted => Cardinality(F) >= n
<1> DEFINE since == pull.since
           Got(t) == Fetched(t, since, n)
<1>0. Wanted \in SUBSET rows /\ IsFiniteSet(Wanted) /\ Orders(Merged, Wanted)
  BY WantedOrdered DEF CutBy
<1>1. \A r \in Wanted : r \in rows /\ r.type \in Types /\ r \in Changed(r.type, since)
  BY DEF Wanted, Changed, PagesTypeOK, PageRows
<1>2. \A t \in Types : \A r \in Got(t) : r \in Changed(t, since) /\ r \in Wanted /\ r.type = t
  BY DEF Fetched, Cut, Changed, Wanted
<1>3. \A t \in Types : Got(t) \in SUBSET F
  OBVIOUS
<1>4. F \in SUBSET Wanted
  BY <1>2
<1>5. \A r \in F : r \in Got(r.type)
  BY <1>2
<1> HIDE DEF Got
<1>6. IsFiniteSet(F) /\ Cardinality(F) \in Nat
  BY <1>0, <1>4, FS_Subset, FS_CardinalityType
<1>7. ASSUME NEW r \in Wanted, r \notin F
      PROVE  /\ Cardinality(Got(r.type)) = n /\ Got(r.type) \in SUBSET F
             /\ \A x \in Got(r.type) : ExactOrder(x, r) /\ x.type = r.type /\ x \in rows
  <2>1. r \notin Got(r.type) /\ r.type \in Types
    BY <1>1, <1>3, <1>7
  <2>2. Cardinality(Got(r.type)) = n /\ \A x \in Got(r.type) : ExactOrder(x, r)
    BY <1>1, <2>1, FetchedOrBehind DEF Got
  <2> QED BY <1>0, <1>2, <1>3, <2>1, <2>2
<1>8. ASSUME F # Wanted PROVE Cardinality(F) >= n
  <2>1. PICK r \in Wanted : r \notin F
    BY <1>4, <1>8
  <2>2. Cardinality(Got(r.type)) = n /\ Got(r.type) \in SUBSET F
    BY <1>7, <2>1
  <2> QED BY <1>6, <2>2, FS_Subset
<1>9. ASSUME NEW r \in Promised, r \in First(Wanted, Merged, m) PROVE r \in First(F, Merged, m)
  <2>1. r \in Wanted /\ r \in rows /\ Orderly(r) /\ Cardinality(Under(Wanted, Merged, r)) < m
    BY <1>0, <1>9 DEF Promised, First
  <2>2. /\ Under(Wanted, Merged, r) \in SUBSET Wanted
        /\ Under(F, Merged, r) \in SUBSET Under(Wanted, Merged, r)
    BY <1>4 DEF Under
  <2>3. IsFiniteSet(Under(Wanted, Merged, r)) /\ Cardinality(Under(Wanted, Merged, r)) \in Nat
    BY <1>0, <2>2, FS_Subset, FS_CardinalityType
  <2>4. Cardinality(Under(F, Merged, r)) <= Cardinality(Under(Wanted, Merged, r))
        /\ Cardinality(Under(F, Merged, r)) \in Nat
    BY <2>2, <2>3, FS_Subset, FS_CardinalityType
  <2>5. Under(Changed(r.type, since), Exact, r) \in SUBSET Under(Wanted, Merged, r)
    <3> SUFFICES ASSUME NEW x \in Changed(r.type, since), <<x, r>> \in Exact
                 PROVE  x \in Wanted /\ <<x, r>> \in Merged
      BY DEF Under
    <3>1. x \in Wanted /\ x \in rows /\ x.type = r.type /\ ExactOrder(x, r)
      BY DEF Changed, Wanted, Exact
    <3>2. MergedOrder(x, r)
      BY <2>1, <3>1, BothBefore
    <3> QED BY <2>1, <3>1, <3>2 DEF Merged
  <2>6. Cardinality(Under(Changed(r.type, since), Exact, r)) < n
    <3>1. /\ Cardinality(Under(Changed(r.type, since), Exact, r))
               <= Cardinality(Under(Wanted, Merged, r))
          /\ IsFiniteSet(Under(Changed(r.type, since), Exact, r))
      BY <2>3, <2>5, FS_Subset
    <3>2. Cardinality(Under(Changed(r.type, since), Exact, r)) \in Nat
      BY <3>1, FS_CardinalityType
    <3> QED BY <2>1, <2>3, <3>1, <3>2
  <2>7. r \in F
    <3>1. r.type \in Types /\ r \in Changed(r.type, since)
      BY <1>1, <2>1
    <3>2. r \in Got(r.type)
      BY <2>6, <3>1, FetchedOrBehind DEF Got
    <3> QED BY <1>3, <3>1, <3>2
  <2> QED BY <2>1, <2>3, <2>4, <2>7 DEF First
<1>10. ASSUME NEW r \in Promised, r \in First(F, Merged, m) PROVE r \in First(Wanted, Merged, m)
  <2>1. r \in F /\ r \in Wanted /\ r \in rows /\ Orderly(r) /\ Cardinality(Under(F, Merged, r)) < m
    BY <1>0, <1>4, <1>10 DEF Promised, First
  <2>2. Under(F, Merged, r) \in SUBSET F
    BY DEF Under
  <2>3. IsFiniteSet(Under(F, Merged, r)) /\ Cardinality(Under(F, Merged, r)) \in Nat
    BY <1>6, <2>2, FS_Subset, FS_CardinalityType
  <2>4. ASSUME NEW s \in Wanted, <<s, r>> \in Merged, s \notin F PROVE FALSE
    <3>1. /\ Cardinality(Got(s.type)) = n /\ Got(s.type) \in SUBSET F
          /\ \A x \in Got(s.type) : ExactOrder(x, s) /\ x.type = s.type /\ x \in rows
      BY <1>7, <2>4
    <3>2. s \in rows /\ MergedOrder(s, r)
      BY <2>4 DEF Merged
    <3>3. \A x \in Got(s.type) : MergedOrder(x, r)
      BY <2>1, <3>1, <3>2, BothBefore
    <3>4. Got(s.type) \in SUBSET Under(F, Merged, r)
      BY <2>1, <3>1, <3>3 DEF Under, Merged
    <3>5. n <= Cardinality(Under(F, Merged, r))
      BY <2>3, <3>1, <3>4, FS_Subset
    <3> QED BY <2>1, <2>3, <3>5
  <2>5. Under(Wanted, Merged, r) = Under(F, Merged, r)
    BY <1>4, <2>4 DEF Under
  <2> QED BY <2>1, <2>5 DEF First
<1> QED BY <1>4, <1>8, <1>9, <1>10

LEMMA PageIsCut ==
    ASSUME PagesTypeOK, NEW page, page = GetChangesPage(pull.scope, pull.since, pull.offset)
    PROVE  /\ page.items \in SUBSET Wanted
           /\ \A r \in Promised :
                 r \in page.items <=> /\ r \in First(Wanted, CutBy, pull.offset + Limit)
                                      /\ r \notin First(Wanted, CutBy, pull.offset)
           /\ IF page.more THEN Cardinality(page.items) = Limit
              ELSE Promised \subseteq First(Wanted, CutBy, pull.offset + Limit)
<1> DEFINE offset == pull.offset
           n      == pull.offset + Limit + 1
           since  == pull.since
<1>1. offset \in Nat /\ Limit \in Nat \ {0} /\ n \in Nat /\ offset < n /\ offset + Limit < n
      /\ offset + Limit \in Nat /\ offset \in 0..n /\ offset + Limit \in 0..n /\ n = offset + Limit + 1
  BY PagesAssumption DEF PagesTypeOK, PullType
<1>2. Wanted \in SUBSET rows /\ IsFiniteSet(Wanted) /\ Orders(CutBy, Wanted)
  BY WantedOrdered
<1> HIDE DEF offset, n, since
<1>3. \E F \in SUBSET Wanted :
          /\ page = [items |-> First(F, CutBy, offset + Limit) \ First(F, CutBy, offset),
                     more  |-> Cardinality(F) > offset + Limit]
          /\ \A r \in Promised : /\ r \in First(F, CutBy, offset) <=> r \in First(Wanted, CutBy, offset)
                                 /\ r \in First(F, CutBy, offset + Limit)
                                       <=> r \in First(Wanted, CutBy, offset + Limit)
          /\ F # Wanted => Cardinality(F) > offset + Limit
  <2>1. CASE pull.scope = AllTypes
    <3> DEFINE F == UNION {Fetched(t, since, n) : t \in Types}
    <3>1. page = [items |-> Cut(F, offset + Limit, MergedOrder) \ Cut(F, offset, MergedOrder),
                  more  |-> Cardinality(F) > offset + Limit]
      BY <2>1 DEF GetChangesPage, Page, offset, n, since
    <3>2. CutBy = Merged
      BY <2>1 DEF CutBy
    <3>3. F = UNION {Fetched(t, pull.since, n) : t \in Types}
      BY DEF since
    <3> HIDE DEF F
    <3>4. \A m \in Nat : m < n =>
            /\ F \in SUBSET Wanted
            /\ \A r \in Promised : r \in First(F, Merged, m) <=> r \in First(Wanted, Merged, m)
            /\ F # Wanted => Cardinality(F) >= n
      <4> SUFFICES ASSUME NEW m \in Nat, m < n
                   PROVE /\ F \in SUBSET Wanted
                         /\ \A r \in Promised : r \in First(F, Merged, m) <=> r \in First(Wanted, Merged, m)
                         /\ F # Wanted => Cardinality(F) >= n
        OBVIOUS
      <4> QED BY <1>1, <2>1, <3>3, MergedPageIsCut
    <3>5. F \in SUBSET Wanted /\ (F # Wanted => Cardinality(F) >= n)
      BY <1>1, <3>4
    <3>6. F # Wanted => Cardinality(F) > offset + Limit
      <4>1. Cardinality(F) \in Nat
        BY <1>2, <3>5, FS_Subset, FS_CardinalityType
      <4> QED BY <1>1, <3>5, <4>1
    <3>7. F \in SUBSET rows
      BY <1>2, <3>5
    <3>8. /\ Cut(F, offset + Limit, MergedOrder) = First(F, CutBy, offset + Limit)
          /\ Cut(F, offset, MergedOrder) = First(F, CutBy, offset)
      BY <3>2, <3>7, CutIsFirst
    <3>9. \A r \in Promised : /\ r \in First(F, CutBy, offset) <=> r \in First(Wanted, CutBy, offset)
                              /\ r \in First(F, CutBy, offset + Limit)
                                    <=> r \in First(Wanted, CutBy, offset + Limit)
      BY <1>1, <3>2, <3>4
    <3> QED BY <3>1, <3>5, <3>6, <3>8, <3>9
  <2>2. CASE pull.scope # AllTypes
    <3> DEFINE F == Fetched(pull.scope, since, n)
    <3>1. page = [items |-> Cut(F, offset + Limit, ExactOrder) \ Cut(F, offset, ExactOrder),
                  more  |-> Cardinality(F) > offset + Limit]
      BY <2>2 DEF GetChangesPage, Page, offset, n, since
    <3>2. CutBy = Exact
      BY <2>2 DEF CutBy
    <3>3. Changed(pull.scope, since) = Wanted
      BY <2>2 DEF Changed, Wanted, since
    <3>4. F = First(Wanted, CutBy, n)
      BY <1>2, <3>2, <3>3, CutIsFirst DEF Fetched
    <3> HIDE DEF F
    <3>5. F \in SUBSET Wanted /\ F \in SUBSET rows
      BY <1>2, <3>4 DEF First
    <3>6. /\ Cut(F, offset + Limit, ExactOrder) = First(F, CutBy, offset + Limit)
          /\ Cut(F, offset, ExactOrder) = First(F, CutBy, offset)
      BY <3>2, <3>5, CutIsFirst
    <3>7. First(Wanted, CutBy, n) \subseteq F
      BY <3>4
    <3>8. /\ First(F, CutBy, offset) = First(Wanted, CutBy, offset)
          /\ First(F, CutBy, offset + Limit) = First(Wanted, CutBy, offset + Limit)
      BY <1>1, <1>2, <3>5, <3>7, EnoughFetched
    <3>9. F # Wanted => Cardinality(F) > offset + Limit
      <4>1. Cardinality(Wanted) \in Nat
        BY <1>2, FS_CardinalityType
      <4>2. /\ n <= Cardinality(Wanted) => Cardinality(F) = n
            /\ n >= Cardinality(Wanted) => F = Wanted
        BY <1>1, <1>2, <3>4, FirstAreCounted
      <4> QED BY <1>1, <4>1, <4>2
    <3>10. page = [items |-> First(F, CutBy, offset + Limit) \ First(F, CutBy, offset),
                   more  |-> Cardinality(F) > offset + Limit]
      BY <3>1, <3>6
    <3> QED BY <3>5, <3>8, <3>9, <3>10
  <2> QED BY <2>1, <2>2
<1>4. PICK F \in SUBSET Wanted :
          /\ page = [items |-> First(F, CutBy, offset + Limit) \ First(F, CutBy, offset),
                     more  |-> Cardinality(F) > offset + Limit]
          /\ \A r \in Promised : /\ r \in First(F, CutBy, offset) <=> r \in First(Wanted, CutBy, offset)
                                 /\ r \in First(F, CutBy, offset + Limit)
                                       <=> r \in First(Wanted, CutBy, offset + Limit)
          /\ F # Wanted => Cardinality(F) > offset + Limit
  BY <1>3
<1>5. page.items = First(F, CutBy, offset + Limit) \ First(F, CutBy, offset)
      /\ page.more = (Cardinality(F) > offset + Limit)
  BY <1>4
<1>6. page.items \in SUBSET Wanted
  BY <1>5 DEF First
<1>7. \A r \in Promised : r \in page.items <=> /\ r \in First(Wanted, CutBy, offset + Limit)
                                             /\ r \notin First(Wanted, CutBy, offset)
  BY <1>4, <1>5
<1>8. IsFiniteSet(F) /\ Cardinality(F) \in Nat /\ Orders(CutBy, F)
  <2>1. IsFiniteSet(F) /\ Cardinality(F) \in Nat
    BY <1>2, FS_Subset, FS_CardinalityType
  <2>2. Orders(CutBy, F)
    BY <1>2 DEF Orders
  <2> QED BY <2>1, <2>2
<1>9. ASSUME Cardinality(F) > offset + Limit PROVE Cardinality(page.items) = Limit
  <2> DEFINE before == First(F, CutBy, offset)
             until  == First(F, CutBy, offset + Limit)
  <2>1. /\ Cardinality(before) = offset /\ Cardinality(until) = offset + Limit
        /\ IsFiniteSet(until) /\ IsFiniteSet(before)
    BY <1>1, <1>8, <1>9, FirstAreCounted
  <2>2. before \in SUBSET until
    BY <1>1, <1>8, PlacesAreOrdered DEF First
  <2> HIDE DEF before, until
  <2>3. until \cap before = before
    BY <2>2
  <2>4. Cardinality(until \ before) = Cardinality(until) - Cardinality(until \cap before)
    BY <2>1, FS_Difference
  <2>5. Cardinality(until \ before) = Limit
    BY <1>1, <2>1, <2>3, <2>4
  <2> QED BY <1>5, <2>5 DEF before, until
<1>10. ASSUME ~(Cardinality(F) > offset + Limit)
       PROVE  Promised \subseteq First(Wanted, CutBy, offset + Limit)
  <2>1. F = Wanted /\ Cardinality(Wanted) <= offset + Limit
    BY <1>1, <1>4, <1>8, <1>10
  <2>2. First(Wanted, CutBy, offset + Limit) = Wanted
    BY <1>1, <1>2, <1>8, <2>1, FirstAreCounted
  <2> QED BY <2>2 DEF Promised
<1> QED BY <1>5, <1>6, <1>7, <1>9, <1>10 DEF offset

LEMMA PagesStart == PagesInit => PagesInv
<1> SUFFICES ASSUME PagesInit PROVE PagesInv
  OBVIOUS
<1>1. clock = MaxTick - 1 /\ pull = Resting /\ writes = 0
  BY DEF PagesInit
<1>2. PICK at \in [Items -> 0..clock] :
          rows = {Row(i[1], i[2], at[i]) : i \in {j \in Items : at[j] > 0}}
  BY DEF PagesInit
<1> DEFINE there == {j \in Items : at[j] > 0}
           made  == [i \in there |-> Row(i[1], i[2], at[i])]
<1>3. IsFiniteSet(there)
  <2>1. there \in SUBSET Items /\ IsFiniteSet(Items)
    BY PagesAssumption
  <2> HIDE DEF there
  <2> QED BY <2>1, FS_Subset
<1>4. IsFiniteSet(rows)
  <2>1. made \in [there -> rows]
    BY <1>2
  <2>2. \A r \in rows : \E i \in there : made[i] = r
    BY <1>2
  <2> HIDE DEF there, made
  <2>3. made \in Surjection(there, rows)
    BY <2>1, <2>2 DEF Surjection
  <2> QED BY <1>3, <2>3, FS_Surjection
<1>5. ASSUME NEW r \in rows
      PROVE  \E i \in Items : /\ r = Row(i[1], i[2], at[i]) /\ at[i] \in Nat
                              /\ i[1] \in Types /\ i[2] \in Keys /\ i = <<i[1], i[2]>>
  <2>1. PICK i \in Items : r = Row(i[1], i[2], at[i])
    BY <1>2
  <2>2. i \in Nat \X Nat /\ i[1] \in Types /\ i[2] \in Keys
    BY PagesAssumption DEF Types, Keys
  <2>3. at[i] \in Nat
    BY <1>1, PagesAssumption
  <2> QED BY <2>1, <2>2, <2>3
<1>6. rows \subseteq PageRows
  BY <1>5 DEF Row, PageRows
<1>7. ASSUME NEW r \in rows, NEW s \in rows, r.type = s.type, r.key = s.key PROVE r = s
  <2>1. PICK i \in Items : r = Row(i[1], i[2], at[i]) /\ i = <<i[1], i[2]>>
    BY <1>5
  <2>2. PICK j \in Items : s = Row(j[1], j[2], at[j]) /\ j = <<j[1], j[2]>>
    BY <1>5
  <2>3. i[1] = j[1] /\ i[2] = j[2]
    BY <1>7, <2>1, <2>2 DEF Row
  <2> QED BY <2>1, <2>2, <2>3
<1>8. clock \in Nat /\ writes \in Nat
  BY <1>1, PagesAssumption
<1>9. pull \in PullType
  BY <1>1 DEF Resting, PullType
<1>10. PagesTypeOK
  BY <1>4, <1>6, <1>7, <1>8, <1>9 DEF PagesTypeOK
<1>11. pull.pc = "idle"
  BY <1>1 DEF Resting
<1> QED BY <1>10, <1>11 DEF PagesInv

\* A page brings what stands between the old offset and the new one; the last page, the rest.
LEMMA GetPageKeeps ==
    ASSUME PagesInv, GetPage
    PROVE  PagesInv'
<1> DEFINE page == GetChangesPage(pull.scope, pull.since, pull.offset)
           got  == page.items
           more == page.more
<1>1. /\ pull.pc = "paging"
      /\ pull' = [pull EXCEPT !.got = pull.got \cup got,
                              !.twice = pull.twice \cup (got \cap pull.got),
                              !.offset = pull.offset + Cardinality(got),
                              !.pc = IF more THEN "paging" ELSE "done"]
      /\ rows' = rows /\ clock' = clock /\ writes' = writes
  BY DEF GetPage
<1>2. PagesTypeOK /\ pull \in PullType
  BY DEF PagesInv, PagesTypeOK
<1>3. /\ got \in SUBSET Wanted
      /\ \A r \in Promised : r \in got <=> /\ r \in First(Wanted, CutBy, pull.offset + Limit)
                                           /\ r \notin First(Wanted, CutBy, pull.offset)
      /\ IF more THEN Cardinality(got) = Limit
         ELSE Promised \subseteq First(Wanted, CutBy, pull.offset + Limit)
  BY <1>2, PageIsCut
<1> HIDE DEF page, got, more
<1>4. /\ pull'.scope = pull.scope /\ pull'.since = pull.since /\ pull'.disturbed = pull.disturbed
      /\ pull'.got = pull.got \cup got /\ pull'.offset = pull.offset + Cardinality(got)
      /\ pull'.pc = IF more THEN "paging" ELSE "done"
      /\ pull'.twice = pull.twice \cup (got \cap pull.got)
  BY <1>1, <1>2 DEF PullType
<1>5. PagesTypeOK'
  <2> DEFINE all     == pull.got \cup got
             doubled == pull.twice \cup (got \cap pull.got)
             past    == pull.offset + Cardinality(got)
             at      == IF more THEN "paging" ELSE "done"
  <2>1. Wanted \in SUBSET rows /\ IsFiniteSet(Wanted)
    BY <1>2, WantedOrdered
  <2>2. Cardinality(got) \in Nat
    BY <1>3, <2>1, FS_Subset, FS_CardinalityType
  <2>3. got \subseteq PageRows
    BY <1>2, <1>3, <2>1 DEF PagesTypeOK
  <2>4. /\ all \in SUBSET PageRows /\ past \in Nat
        /\ doubled \in SUBSET PageRows /\ at \in {"idle", "paging", "done"}
    BY <1>2, <2>2, <2>3 DEF PullType
  <2>5. pull' = [pull EXCEPT !.got = all, !.twice = doubled, !.offset = past, !.pc = at]
    BY <1>1
  <2> HIDE DEF all, doubled, past, at
  <2>6. pull' \in PullType
    BY <1>2, <2>4, <2>5 DEF PullType
  <2> QED BY <1>1, <1>2, <2>6 DEF PagesTypeOK
<1>6. Wanted' = Wanted /\ CutBy' = CutBy /\ Promised' = Promised
  <2>1. Wanted' = Wanted /\ CutBy' = CutBy
    BY <1>1, <1>4 DEF Wanted, CutBy, Exact, Merged
  <2>2. \A r : Orderly(r)' = Orderly(r)
    BY <1>1 DEF Orderly
  <2> QED BY <1>4, <2>1, <2>2 DEF Promised
<1>7. SUFFICES ASSUME ~pull.disturbed
               PROVE  /\ pull'.pc = "paging" => Halfway'
                      /\ pull'.pc = "done" => Promised \subseteq pull'.got \ pull'.twice
  BY <1>4, <1>5, <1>6 DEF PagesInv
<1>8. Halfway
  BY <1>1, <1>7 DEF PagesInv
<1>9. pull.offset \in Nat /\ Limit \in Nat
  BY <1>2, PagesAssumption DEF PullType
<1>10. \A r \in Promised : r \in First(Wanted, CutBy, pull.offset)
                              => r \in First(Wanted, CutBy, pull.offset + Limit)
  <2>1. \A r \in Wanted : Cardinality(Under(Wanted, CutBy, r)) \in Nat
    BY <1>2, WantedOrdered, PlacesAreOrdered
  <2> QED BY <1>9, <2>1 DEF First
<1>11. \A r \in Promised : /\ r \in pull'.got <=> r \in First(Wanted, CutBy, pull.offset + Limit)
                           /\ r \notin pull'.twice
  BY <1>3, <1>4, <1>8, <1>10 DEF Halfway
<1>12. CASE more
  <2>1. pull'.pc = "paging" /\ pull'.offset = pull.offset + Limit
    BY <1>3, <1>4, <1>12
  <2> QED BY <1>6, <1>11, <2>1 DEF Halfway
<1>13. CASE ~more
  BY <1>3, <1>4, <1>11, <1>13
<1> QED BY <1>12, <1>13

LEMMA BeginPullKeeps ==
    ASSUME PagesInv, NEW scope \in Types \cup {AllTypes}, NEW since \in 0..Second(clock),
           BeginPull(scope, since)
    PROVE  PagesInv'
<1>1. /\ pull' = [Resting EXCEPT !.pc = "paging", !.scope = scope, !.since = since]
      /\ rows' = rows /\ clock' = clock /\ writes' = writes
  BY DEF BeginPull
<1>2. PagesTypeOK
  BY DEF PagesInv
<1>3. since \in Nat
  OBVIOUS
<1>4. pull' = [pc |-> "paging", scope |-> scope, since |-> since, offset |-> 0,
               got |-> {}, twice |-> {}, disturbed |-> FALSE]
  BY <1>1 DEF Resting
<1>5. PagesTypeOK'
  <2>1. pull' \in PullType
    BY <1>3, <1>4 DEF PullType
  <2> QED BY <1>1, <1>2, <2>1 DEF PagesTypeOK
<1>6. First(Wanted', CutBy', 0) = {}
  <2> SUFFICES ASSUME NEW r PROVE ~(Cardinality(Under(Wanted', CutBy', r)) < 0)
    BY DEF First
  <2>1. Under(Wanted', CutBy', r) \in SUBSET rows /\ IsFiniteSet(rows)
    BY <1>1, <1>2 DEF Under, Wanted, PagesTypeOK
  <2>2. Cardinality(Under(Wanted', CutBy', r)) \in Nat
    BY <2>1, FS_Subset, FS_CardinalityType
  <2> QED BY <2>2
<1>7. pull'.pc = "paging" /\ pull'.got = {} /\ pull'.offset = 0 /\ pull'.twice = {}
  BY <1>4
<1>8. Halfway'
  BY <1>6, <1>7 DEF Halfway
<1> QED BY <1>5, <1>7, <1>8 DEF PagesInv

\* A push replaces the row of its item, and disturbs a pull under way.
LEMMA WriteKeeps ==
    ASSUME PagesInv, NEW i \in Items, Write(i[1], i[2])
    PROVE  PagesInv'
<1> DEFINE new    == Row(i[1], i[2], clock)
           others == {r \in rows : r.type # i[1] \/ r.key # i[2]}
<1>1. /\ rows' = others \cup {new}
      /\ writes' = writes + 1 /\ clock' = clock
      /\ pull' = [pull EXCEPT !.disturbed = (pull.pc # "idle")]
  BY DEF Write
<1>2. PagesTypeOK
  BY DEF PagesInv
<1>3. i[1] \in Types /\ i[2] \in Keys
  BY DEF Types, Keys
<1>4. new \in PageRows /\ new.type = i[1] /\ new.key = i[2]
  BY <1>2, <1>3 DEF Row, PagesTypeOK, PageRows
<1>5. others \in SUBSET rows
  OBVIOUS
<1>6. \A r \in others : r.type # i[1] \/ r.key # i[2]
  OBVIOUS
<1> HIDE DEF new, others
<1>7. IsFiniteSet(rows')
  BY <1>1, <1>2, <1>5, FS_Subset, FS_AddElement DEF PagesTypeOK
<1>8. \A r, s \in rows' : r.type = s.type /\ r.key = s.key => r = s
  BY <1>1, <1>2, <1>4, <1>5, <1>6 DEF PagesTypeOK
<1>9. rows' \subseteq PageRows
  BY <1>1, <1>2, <1>4, <1>5 DEF PagesTypeOK
<1>10. pull' \in PullType
  BY <1>1, <1>2 DEF PagesTypeOK, PullType
<1>11. PagesTypeOK'
  BY <1>1, <1>2, <1>7, <1>8, <1>9, <1>10 DEF PagesTypeOK
<1>12. pull'.pc = pull.pc /\ (pull'.disturbed <=> pull.pc # "idle")
  BY <1>1, <1>2 DEF PagesTypeOK, PullType
<1> QED BY <1>11, <1>12 DEF PagesInv

LEMMA TableRests ==
    ASSUME rows' = rows, pull' = pull
    PROVE  (Halfway' <=> Halfway) /\ Promised' = Promised
<1>1. Wanted' = Wanted /\ CutBy' = CutBy
  BY DEF Wanted, CutBy, Exact, Merged
<1>2. \A r : Orderly(r)' = Orderly(r)
  BY DEF Orderly
<1>3. Promised' = Promised
  BY <1>1, <1>2 DEF Promised
<1> QED BY <1>1, <1>3 DEF Halfway

\* At every moment a pull nothing disturbed has, of the rows promised, what stands before
\* its offset in the whole table.
THEOREM PagesInvariant == PagesSpec => []PagesInv
<1>1. PagesInv /\ [PagesNext]_pagesVars => PagesInv'
  <2> SUFFICES ASSUME PagesInv, [PagesNext]_pagesVars PROVE PagesInv'
    OBVIOUS
  <2>1. CASE \E scope \in Types \cup {AllTypes}, since \in 0..Second(clock) : BeginPull(scope, since)
    BY <2>1, BeginPullKeeps
  <2>2. CASE GetPage
    BY <2>2, GetPageKeeps
  <2>3. CASE \E i \in Items : Write(i[1], i[2])
    BY <2>3, WriteKeeps
  <2>4. CASE Tick
    <3>1. rows' = rows /\ pull' = pull /\ writes' = writes /\ clock' \in Nat
      BY <2>4 DEF Tick, PagesInv, PagesTypeOK
    <3> QED BY <3>1, TableRests DEF PagesInv, PagesTypeOK
  <2>5. CASE UNCHANGED pagesVars
    BY <2>5, TableRests DEF pagesVars, PagesInv, PagesTypeOK
  <2> QED BY <2>1, <2>2, <2>3, <2>4, <2>5 DEF PagesNext
<1> QED BY <1>1, PagesStart, PTL DEF PagesSpec

\* Whatever the tables, the size of a page and the scope: a pull that nothing disturbed has
\* delivered every changed row, and once, save those of a type and second on whose order
\* database and merge disagree (GetChangesPage, getChangesByType).
THEOREM PagesCompleteAlways == PagesSpec => []PagesComplete
<1>1. PagesInv => PagesComplete
  BY DEF PagesInv, PagesComplete, Promised, Undisturbed
<1> QED BY <1>1, PagesInvariant, PTL
=============================================================================
