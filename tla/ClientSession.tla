--------------------------- MODULE ClientSession ---------------------------
(***************************************************************************)
(* The session of one device: the rows of client_sessions                  *)
(* (internal/handler/client_session.go, middleware/client_auth.go) and the *)
(* Client of sdk/go/license_client.go, which keeps its tokens in memory    *)
(* and in a cache file and asks for new ones when a request is refused.    *)
(*                                                                         *)
(* An application calls the Client from several goroutines, one of them    *)
(* its heartbeat.  Tokens are numbered in the order they are issued; an    *)
(* answer carries an access and a refresh token, which get one number.     *)
(* Answers may be lost, the file may fail to be written or removed, and    *)
(* the application may end at any time.  Left out: the offline grace       *)
(* period, which only makes IsValid ask the server, the age of the file    *)
(* and its old format, and the licence or subscription but for whether it  *)
(* is granted.  MUTx definitions are plausible mistakes.                   *)
(***************************************************************************)
EXTENDS Naturals, FiniteSets

CONSTANTS
    Callers,       \* goroutines of the application
    MaxTokens      \* bound: tokens the server issues

ASSUME ClientSessionAssumption == MaxTokens \in Nat

VARIABLES
    live,          \* the sessions that are not revoked; a session bears its first token
    owner,         \* the session of each token
    hash,          \* the token whose refresh_token_hash each session has
    issued,        \* number of tokens issued
    aged,          \* the access tokens up to this one have expired
    granted,       \* the licence or subscription is valid
    bound,         \* the device is bound and not blacklisted
    info,          \* licenseInfo: the token, and the one its signature covers
    cache,         \* the cache file
    call,          \* what each goroutine is at
    image,         \* what it is about to write to the file
    excuses        \* what went wrong, see Excuses

sessionVars == <<live, owner, hash, issued, aged, granted, bound, info, cache, call, image,
                 excuses>>
serverVars_ == <<live, owner, hash, issued, aged, granted, bound>>

NoInfo == [token |-> 0, signed |-> 0]
Rest   == [at |-> "idle", token |-> 0, retry |-> FALSE]
Tokens == 1..MaxTokens

SessionInit ==
    /\ live = {} /\ owner = [k \in Tokens |-> 0] /\ hash = [k \in Tokens |-> 0]
    /\ issued = 0 /\ aged = 0 /\ granted = TRUE /\ bound = FALSE
    /\ info = NoInfo /\ cache = NoInfo
    /\ call = [p \in Callers |-> Rest]
    /\ image = [p \in Callers |-> NoInfo]
    /\ excuses = {}

\* "overtaken"  tokens were stored over newer ones, or those of a session that had ended
\* "lost"       tokens the server gave a session were lost
\* "cut"        the application ended while tokens were fetched or stored
\* "crossed"    two goroutines wrote the file at once, and one still may
\* "unsaved"    the file was not written, not removed, or written as it should not have been
Excuses     == {"overtaken", "lost", "cut", "crossed", "unsaved"}
WrongTokens == {"overtaken", "lost", "cut"}

At(p, at)    == call[p].at = at
Go(p, at)    == call' = [call EXCEPT ![p].at = at]
Begin(p, at) == call' = [call EXCEPT ![p] = [Rest EXCEPT !.at = at]]
Done(p)      == call' = [call EXCEPT ![p] = Rest]
OnlyCall     == UNCHANGED <<serverVars_, info, cache, image, excuses>>

-----------------------------------------------------------------------------
(* The server.                                                             *)

\* AuthenticateClientRequest: the token has not expired, its session is not revoked,
\* and the device is bound.  The licence is looked at by the handlers.
Authentic(k) == k > aged /\ owner[k] \in live /\ bound

\* issueClientSession, of an activation or a login: the other sessions end.
IssueSession_(k) ==
    /\ live' = {k} /\ owner' = [owner EXCEPT ![k] = k] /\ hash' = [hash EXCEPT ![k] = k]
    /\ issued' = k /\ bound' = TRUE
    /\ UNCHANGED <<aged, granted>>

-----------------------------------------------------------------------------
(* Calls of the Client.                                                    *)

\* Activate and Login.
Login(p) ==
    /\ At(p, "idle") /\ granted
    /\ Begin(p, "login")
    /\ OnlyCall

LoginServed(p) ==
    /\ At(p, "login") /\ issued < MaxTokens
    /\ IF granted
       THEN /\ IssueSession_(issued + 1)
            /\ call' = [call EXCEPT ![p] = [Rest EXCEPT !.at = "signed in", !.token = issued + 1]]
       ELSE Done(p) /\ UNCHANGED serverVars_
    /\ UNCHANGED <<info, cache, image, excuses>>

\* The answer carries a signature over all its fields, the tokens among them.
LoginStored(p) ==
    /\ At(p, "signed in")
    /\ info' = [token |-> call[p].token, signed |-> call[p].token]
    /\ excuses' = IF call[p].token \in live THEN excuses \ WrongTokens ELSE excuses \cup {"overtaken"}
    /\ Begin(p, "save")
    /\ UNCHANGED <<serverVars_, cache, image>>

\* Verify, Heartbeat and those of a subscription need no session; what they change in
\* licenseInfo is left out, but they save the cache.
Verify(p) ==
    /\ At(p, "idle") /\ info # NoInfo /\ granted /\ bound
    /\ Begin(p, "save")
    /\ OnlyCall

\* requestWithClientSession, requestRawWithClientSession, requestSyncAPIData: the token
\* is read, the request sent, and refused if it is not authentic.
Request(p) ==
    /\ At(p, "idle") /\ info # NoInfo
    /\ call' = [call EXCEPT ![p] = [at |-> "request", token |-> info.token, retry |-> FALSE]]
    /\ OnlyCall

Served(p) ==
    /\ At(p, "request")
    /\ IF Authentic(call[p].token) \/ call[p].retry THEN Done(p) ELSE Begin(p, "refused")
    /\ OnlyCall

\* refreshClientSession sends the refresh token it finds.
RefreshSends(p) ==
    /\ At(p, "refused")
    /\ IF info = NoInfo THEN Done(p)
       ELSE call' = [call EXCEPT ![p] = [at |-> "refresh", token |-> info.token, retry |-> FALSE]]
    /\ OnlyCall

\* ClientRefresh finds the session by the hash and checks device and licence; a session
\* it refuses for these is revoked, one whose device is unbound is not.
RefreshReads(p) ==
    LET s == owner[call[p].token] IN
    /\ At(p, "refresh")
    /\ IF s \in live /\ hash[s] = call[p].token
       THEN IF bound /\ granted
            THEN Go(p, "granted") /\ UNCHANGED live
            ELSE Done(p) /\ live' = IF bound THEN live \ {s} ELSE live
       ELSE Done(p) /\ UNCHANGED live
    /\ UNCHANGED <<owner, hash, issued, aged, granted, bound, info, cache, image, excuses>>

MUTRefreshWrites(p) ==
    LET s == owner[call[p].token]  k == issued + 1 IN
    /\ At(p, "granted") /\ k <= MaxTokens
    /\ issued' = k /\ owner' = [owner EXCEPT ![k] = s]
    /\ hash' = hash
    /\ call' = [call EXCEPT ![p].at = "answer", ![p].token = k]
    /\ UNCHANGED <<live, aged, granted, bound, info, cache, image, excuses>>

\* Then it gives the session its next token, comparing nothing but that the session is
\* not revoked, and answers in any case.
RefreshWrites(p) ==
    LET s == owner[call[p].token]  k == issued + 1 IN
    /\ At(p, "granted") /\ k <= MaxTokens
    /\ issued' = k /\ owner' = [owner EXCEPT ![k] = s]
    /\ hash' = IF s \in live THEN [hash EXCEPT ![s] = k] ELSE hash
    /\ call' = [call EXCEPT ![p].at = "answer", ![p].token = k]
    /\ UNCHANGED <<live, aged, granted, bound, info, cache, image, excuses>>

\* The tokens are replaced in whatever licenseInfo there is; its signature stays.  Those who
\* are about to write the file took its image without the lock, so it may get the new ones.
RefreshStored(p) ==
    LET k == call[p].token IN
    /\ At(p, "answer")
    /\ IF info = NoInfo
       THEN Done(p) /\ UNCHANGED <<info, image, excuses>>
       ELSE /\ info' = [info EXCEPT !.token = k]
            /\ image' \in {image, [q \in Callers |->
                  IF At(q, "write") THEN [image[q] EXCEPT !.token = k] ELSE image[q]]}
            /\ excuses' = IF k < info.token THEN excuses \cup {"overtaken"} ELSE excuses
            /\ call' = [call EXCEPT ![p] = [at |-> "save", token |-> 0, retry |-> TRUE]]
    /\ UNCHANGED <<serverVars_, cache>>

\* saveCache takes an image of licenseInfo ...
SaveCache(p) ==
    /\ At(p, "save")
    /\ IF info = NoInfo
       THEN Done(p) /\ UNCHANGED <<image, excuses>>
       ELSE /\ image' = [image EXCEPT ![p] = info]
            /\ Go(p, "write")
            /\ excuses' = IF \E q \in Callers \ {p} : At(q, "write")
                          THEN excuses \cup {"crossed"} ELSE excuses \ {"crossed"}
    /\ UNCHANGED <<serverVars_, info, cache>>

\* ... and writes it, if it can be encrypted and written, or leaves it torn; nobody looks at
\* the error.  After a refresh the request is sent again.
WriteCache(p) ==
    /\ At(p, "write")
    /\ cache' \in {image[p], cache, NoInfo}
    /\ image' = [image EXCEPT ![p] = NoInfo]
    /\ excuses' = IF \/ cache' # image[p] \/ "crossed" \in excuses
                     \/ info = NoInfo \/ \E q \in Callers : At(q, "forget")
                  THEN excuses \cup {"unsaved"} ELSE excuses \ {"unsaved"}
    /\ IF call[p].retry /\ info # NoInfo
       THEN call' = [call EXCEPT ![p].at = "request", ![p].token = info.token]
       ELSE Done(p)
    /\ UNCHANGED <<serverVars_, info>>

\* A request fails, or its answer is lost.
Lost(p) ==
    /\ call[p].at \in {"login", "request", "refresh", "answer", "signed in"}
    /\ Done(p)
    /\ excuses' = IF At(p, "answer") THEN excuses \cup {"lost"} ELSE excuses
    /\ UNCHANGED <<serverVars_, info, cache, image>>

\* Deactivate: the device is unbound with its sessions (UnbindCurrentDevice, or
\* Deactivate by the machine id), and clearCache.
Deactivate(p) ==
    /\ At(p, "idle") /\ info # NoInfo
    /\ Authentic(info.token) \/ (bound /\ granted)
    /\ bound' = FALSE /\ live' = {}
    /\ Begin(p, "clear")
    /\ UNCHANGED <<owner, hash, issued, aged, granted, info, cache, image, excuses>>

\* clearCache removes the file, if it can, and then forgets licenseInfo.
ClearCache(p) ==
    /\ At(p, "clear")
    /\ \/ cache' = NoInfo /\ UNCHANGED excuses
       \/ excuses' = excuses \cup {"unsaved"} /\ UNCHANGED cache
    /\ Go(p, "forget")
    /\ UNCHANGED <<serverVars_, info, image>>

Forget(p) ==
    /\ At(p, "forget")
    /\ info' = NoInfo
    /\ excuses' = IF \E q \in Callers : At(q, "write") THEN excuses \cup {"unsaved"} ELSE excuses
    /\ Done(p)
    /\ UNCHANGED <<serverVars_, cache, image>>

-----------------------------------------------------------------------------
\* verifyCachedLicenseSignature: the signature of the first answer is checked against the
\* tokens of now.
SignatureHolds(i) == i.signed = i.token

\* The application ends and starts again: loadCache accepts the file, which may be torn if
\* it was being written, or removes it, if it can.  Whether the signature is looked at
\* (requireSignature, with the public key) depends on how the application is started.
Restart ==
    /\ \E p \in Callers : call[p] # Rest \/ info # NoInfo
    /\ \E file \in {cache} \cup (IF \E p \in Callers : At(p, "write") THEN {NoInfo} ELSE {})
                           \cup {image[p] : p \in {q \in Callers : At(q, "write")}} :
          \E strict \in BOOLEAN :
             LET rejected == strict /\ ~SignatureHolds(file) IN
             /\ info' = IF rejected THEN NoInfo ELSE file
             /\ cache' \in IF rejected THEN {NoInfo, file} ELSE {file}
    /\ excuses' =
          (excuses \ {"crossed", "unsaved"})
          \cup (IF \/ "unsaved" \in excuses
                   \/ \E p \in Callers : call[p].at \in {"refresh", "granted", "answer", "save", "write"}
                THEN {"cut"} ELSE {})
          \cup (IF cache' # info' THEN {"unsaved"} ELSE {})
    /\ call' = [p \in Callers |-> Rest] /\ image' = [p \in Callers |-> NoInfo]
    /\ UNCHANGED serverVars_

\* Time passes; the administrator withdraws the licence, or unbinds the device.
TokenExpires ==
    /\ aged < issued /\ aged' = issued
    /\ UNCHANGED <<live, owner, hash, issued, granted, bound, info, cache, call, image, excuses>>

Withdraw ==
    /\ granted
    /\ \/ granted' = FALSE /\ UNCHANGED <<live, bound>>
       \/ bound /\ bound' = FALSE /\ live' = {} /\ UNCHANGED granted
    /\ UNCHANGED <<owner, hash, issued, aged, info, cache, call, image, excuses>>

SessionNext ==
    \/ Restart \/ TokenExpires \/ Withdraw
    \/ \E p \in Callers :
          \/ Login(p) \/ LoginServed(p) \/ LoginStored(p) \/ Verify(p) \/ Request(p)
          \/ Served(p) \/ RefreshSends(p) \/ RefreshReads(p) \/ RefreshWrites(p)
          \/ RefreshStored(p) \/ SaveCache(p) \/ WriteCache(p) \/ Lost(p)
          \/ Deactivate(p) \/ ClearCache(p) \/ Forget(p)

SessionSpec == SessionInit /\ [][SessionNext]_sessionVars

-----------------------------------------------------------------------------
(* Properties                                                              *)

\* When no new tokens are on their way, the token in memory is the one the server will
\* refresh, unless tokens were stored in another order than they were issued, lost, or cut
\* off by the end of the application: then it is again after the next login that is stored
\* while its session lives.  When nobody saves or clears, the file holds what memory holds,
\* unless a write or a removal failed, or the last writes overlapped with each other or with
\* a removal: then it does again after the next write that goes well.  Both hold however
\* many goroutines fetch tokens and save at once.
TokensInStep ==
    /\ (\A p \in Callers : ~At(p, "answer")) /\ WrongTokens \cap excuses = {} =>
           (info # NoInfo /\ owner[info.token] \in live => hash[owner[info.token]] = info.token)
    /\ (\A p \in Callers : call[p].at \notin {"save", "write", "forget"}) /\ "unsaved" \notin excuses =>
           cache = info

=============================================================================
