------------------------------ MODULE Channels ------------------------------
(***************************************************************************)
(* Upstream channels, the models shown to clients, the routes that join    *)
(* them, and the way of a generation request from what Capabilities        *)
(* announced to the channel that is used:                                  *)
(* internal/service/provider_credential.go, client_model.go,               *)
(* upstream_model_capability.go, internal/handler/proxy.go and             *)
(* proxy_generate_upload.go.  What StartTask does with the channel is in   *)
(* GenTask and CreditTx.                                                   *)
(*                                                                         *)
(* One tenant and one client model.  A statement of the database is a      *)
(* step; a row that is deleted keeps its content, since Save of an older   *)
(* copy brings it back.  A request has the three parameters a model        *)
(* announces; the bound on its images, which is not announced, is left     *)
(* out.  Priorities are a choice among the routes of equal default flag;   *)
(* the client model has a name that no channel offers by itself, a route   *)
(* an upstream model the server knows; a name that is taken refuses an     *)
(* edit, which then changes nothing.  MUTx definitions are plausible       *)
(* mistakes.                                                               *)
(***************************************************************************)
EXTENDS Naturals, FiniteSets

CONSTANTS
    Credentials, Routes,   \* the ids rows can get
    Admins,                \* requests of administrators at the same time
    Providers,             \* providers in use
    Shapes,                \* what routes name of each parameter
    MaxUploads,            \* bound: images with a request
    MaxEdits               \* bound: requests of administrators

\* For each provider and mode the public name of its default model, and its scope; empty
\* where the mode offers nothing to generate.
Offer == [
    gemini |-> [official |-> {[key |-> "gemini-2.5-flash", scope |-> "analysis"]},
                duoyuan  |-> {[key |-> "gemini-2.5-flash-image", scope |-> "image"]}],
    gpt    |-> [official |-> {}, gzxsy |-> {[key |-> "gpt-image-2", scope |-> "image"]}],
    veo    |-> [m \in {"google", "adapter", "duoyuan"} |->
                   {[key |-> "veo-3.1", scope |-> "video"]}],
    sora   |-> [async |-> {[key |-> "sora-2", scope |-> "video"]}, chat |-> {}],
    grok   |-> [m \in {"official", "duoyuan", "suchuang"} |->
                   {[key |-> "grok-imagine", scope |-> "video"]}]]

ModesOf(p) == DOMAIN Offer[p]

DefaultMode == [gemini |-> "official", gpt |-> "official", veo |-> "google",
                sora |-> "async", grok |-> "official"]

NormalizeMode(p, m) == IF m \in ModesOf(p) THEN m ELSE DefaultMode[p]

\* The parameters of a request a route can restrict.
Choices == {"aspect_ratio", "resolution", "duration_seconds"}

ASSUME ChannelsAssumption ==
    /\ Providers \subseteq DOMAIN Offer /\ Providers # {}
    /\ Shapes # {} /\ \A shape \in Shapes : DOMAIN shape = Choices
    /\ MaxUploads \in Nat /\ MaxEdits \in Nat

VARIABLES
    occasion,     \* bound on what happens together: "serving" (one administrator at a time
                  \* and requests without images), "editing" (administrators at the same
                  \* time, no request) or "storing" (requests with images, no administrator)
    creds,        \* table provider_credentials
    model,        \* the row of client_models
    routes,       \* its rows of client_model_routes
    editing,      \* the request each administrator has in flight
    edits,        \* number of administrators' requests so far
    request,      \* the generation request
    uploads,      \* images in the directory for temporary uploads
    moved,        \* the provider of the client model was changed under its routes
    overlapped,   \* two requests were making a route the default at the same time
    crashed       \* the server was restarted

channelVars == <<occasion, creds, model, routes, editing, edits, request, uploads, moved, overlapped,
                 crashed>>

adminVars   == <<occasion, creds, model, routes, editing, edits, moved, overlapped>>
requestVars == <<occasion, request, uploads, crashed>>

NoEdit    == [at |-> "idle"]
NoRequest == [at |-> "idle"]
AnyMode   == UNION {ModesOf(p) : p \in Providers}

\* The row of a channel that Create makes.  Whatever was asked, it is enabled: the column
\* has default:true, and the database layer takes FALSE for a value not given.
NewCredential(p, m, isDefault) ==
    [state |-> "live", provider |-> p, mode |-> NormalizeMode(p, m), enabled |-> TRUE,
     default |-> isDefault, up |-> TRUE]

NewRoute(c, isDefault, shape) ==
    [state |-> "live", cred |-> c, enabled |-> TRUE, default |-> isDefault, shape |-> shape]

NewModel(p) ==
    [state |-> "live", provider |-> p, enabled |-> TRUE,
     offer |-> [key |-> "own name",
                scope |-> (CHOOSE o \in UNION {Offer[p][m] : m \in ModesOf(p)} : TRUE).scope]]

Unused == [state |-> "new"]

ChannelsInit ==
    /\ occasion \in {"serving", "editing", "storing"}
    /\ \E c \in Credentials, p \in Providers, r \in Routes, shape \in Shapes :
           /\ creds  = [d \in Credentials |-> IF d = c
                           THEN NewCredential(p, DefaultMode[p], TRUE) ELSE Unused]
           /\ \/ /\ model = Unused /\ routes = [s \in Routes |-> Unused]
              \/ /\ model = NewModel(p)
                 /\ routes = [s \in Routes |-> IF s = r THEN NewRoute(c, TRUE, shape) ELSE Unused]
    /\ editing = [a \in Admins |-> NoEdit] /\ edits = 0
    /\ request = NoRequest /\ uploads = 0
    /\ moved = FALSE /\ overlapped = FALSE /\ crashed = FALSE

-----------------------------------------------------------------------------
(* Administrators.  Begin is the first statement of a request, Goes a later *)
(* one, Ends the last.                                                      *)

IsLive(row) == row.state = "live"

Begins(a, work) ==
    /\ occasion # "storing" /\ editing[a] = NoEdit /\ edits < MaxEdits
    /\ occasion = "serving" => \A b \in Admins : editing[b] = NoEdit
    /\ edits' = edits + 1
    /\ editing' = [editing EXCEPT ![a] = work]

Goes(a, work) == editing' = [editing EXCEPT ![a] = work] /\ UNCHANGED edits

Ends(a) == Goes(a, NoEdit)

\* A new channel; another one may have the name.
CreateCredential(a) ==
    \E c \in Credentials, p \in Providers, m \in AnyMode, d \in BOOLEAN :
        /\ creds[c] = Unused
        /\ Begins(a, IF d THEN [at |-> "unset", cred |-> c, provider |-> p,
                                mode |-> NormalizeMode(p, m)] ELSE NoEdit)
        /\ creds' = [creds EXCEPT ![c] = NewCredential(p, m, d)]
        /\ UNCHANGED <<model, routes, moved, overlapped, requestVars>>

\* UpdateForTenant reads the row and applies what the request names, which may leave the
\* default flag as it is; a new API key forgets the health.
UpdateCredential(a) ==
    \E c \in Credentials, m \in AnyMode, d \in {"set", "clear", "keep"},
       e \in BOOLEAN, newKey \in BOOLEAN :
        LET row == creds[c] IN
        /\ IsLive(row)
        /\ Begins(a, [at |-> "save", cred |-> c, makeDefault |-> d = "set",
                   row |-> [row EXCEPT
                       !.mode    = NormalizeMode(row.provider, m),
                       !.enabled = e,
                       !.default = d = "set" \/ (d = "keep" /\ @),
                       !.up      = @ \/ newKey]])
        /\ UNCHANGED <<creds, model, routes, moved, overlapped, requestVars>>

\* Save of the whole row, which may have been changed or deleted since it was read.
SaveCredential(a) ==
    LET w == editing[a] IN
    /\ w.at = "save"
    /\ creds' = [creds EXCEPT ![w.cred] = w.row]
    /\ Goes(a, IF w.makeDefault THEN [at |-> "unset", cred |-> w.cred,
                   provider |-> w.row.provider, mode |-> w.row.mode] ELSE NoEdit)
    /\ UNCHANGED <<model, routes, moved, overlapped, requestVars>>

UnsetOtherDefaults(a) ==
    LET w == editing[a] IN
    /\ w.at = "unset"
    /\ creds' = [c \in Credentials |->
           IF /\ IsLive(creds[c]) /\ c # w.cred
              /\ creds[c].provider = w.provider /\ creds[c].mode = w.mode
           THEN [creds[c] EXCEPT !.default = FALSE] ELSE creds[c]]
    /\ Ends(a)
    /\ UNCHANGED <<model, routes, moved, overlapped, requestVars>>

DeleteCredential(a) ==
    \E c \in Credentials :
        /\ IsLive(creds[c])
        /\ Begins(a, NoEdit)
        /\ creds' = [creds EXCEPT ![c].state = "deleted"]
        /\ UNCHANGED <<model, routes, moved, overlapped, requestVars>>

\* AdminTestCredential after its probe, and what proxies and tasks learn of a channel:
\* down, or any other health.
MarkHealth(c) ==
    /\ occasion = "serving" /\ IsLive(creds[c])
    /\ creds' = [creds EXCEPT ![c].up = ~@]
    /\ UNCHANGED <<model, routes, editing, edits, moved, overlapped, requestVars>>

\* Enabled whatever was asked, like a new channel.
CreateModel(a) ==
    /\ model = Unused
    /\ Begins(a, NoEdit)
    /\ \E p \in Providers : model' = NewModel(p)
    /\ UNCHANGED <<creds, routes, moved, overlapped, requestVars>>

\* The model's row is read and saved with the request's content.
UpdateModel(a) ==
    /\ IsLive(model)
    /\ \E p \in Providers, e \in BOOLEAN :
           Begins(a, [at |-> "saveModel", row |-> [NewModel(p) EXCEPT !.enabled = e]])
    /\ UNCHANGED <<creds, model, routes, moved, overlapped, requestVars>>

SaveModel(a) ==
    /\ editing[a].at = "saveModel"
    /\ model' = editing[a].row
    /\ moved' = (moved \/ model'.provider # model.provider)
    /\ Ends(a)
    /\ UNCHANGED <<creds, routes, overlapped, requestVars>>

\* In one transaction.
DeleteModel(a) ==
    /\ IsLive(model)
    /\ Begins(a, NoEdit)
    /\ model' = [model EXCEPT !.state = "deleted"]
    /\ routes' = [r \in Routes |-> IF IsLive(routes[r])
                                   THEN [routes[r] EXCEPT !.state = "deleted"] ELSE routes[r]]
    /\ UNCHANGED <<creds, moved, overlapped, requestVars>>

MakesDefault(w) == w.at \in {"unsetRoutes", "saveRoute"} /\ w.row.default

\* validateRouteCredential: the channel is of the model's provider.
ValidRouteCredential(c) ==
    IsLive(model) /\ IsLive(creds[c]) /\ creds[c].provider = model.provider

\* The id of a route no request is making.
Fresh(r) ==
    routes[r] = Unused
    /\ \A b \in Admins : editing[b].at \in {"unsetRoutes", "saveRoute"} => editing[b].route # r

\* CreateRoute and UpdateRoute up to the check of the channel.
EditRoute(a) ==
    \E r \in Routes, c \in Credentials, d \in BOOLEAN, e \in BOOLEAN, shape \in Shapes :
        LET row == [NewRoute(c, d, shape) EXCEPT !.enabled = (routes[r] = Unused) \/ e] IN
        /\ IsLive(routes[r]) \/ Fresh(r)
        /\ ValidRouteCredential(c)
        /\ Begins(a, [at |-> IF d THEN "unsetRoutes" ELSE "saveRoute", route |-> r, row |-> row])
        /\ overlapped' = (overlapped \/ (d /\ \E b \in Admins \ {a} : MakesDefault(editing[b])))
        /\ UNCHANGED <<creds, model, routes, moved, requestVars>>

UnsetOtherRouteDefaults(a) ==
    LET w == editing[a] IN
    /\ w.at = "unsetRoutes"
    /\ routes' = [r \in Routes |-> IF IsLive(routes[r]) /\ r # w.route
                                   THEN [routes[r] EXCEPT !.default = FALSE] ELSE routes[r]]
    /\ Goes(a, [w EXCEPT !.at = "saveRoute"])
    /\ UNCHANGED <<creds, model, moved, overlapped, requestVars>>

SaveRoute(a) ==
    LET w == editing[a] IN
    /\ w.at = "saveRoute"
    /\ routes' = [routes EXCEPT ![w.route] = w.row]
    /\ Ends(a)
    /\ UNCHANGED <<creds, model, moved, overlapped, requestVars>>

DeleteRoute(a) ==
    \E r \in Routes :
        /\ IsLive(routes[r])
        /\ Begins(a, NoEdit)
        /\ routes' = [routes EXCEPT ![r].state = "deleted"]
        /\ UNCHANGED <<creds, model, moved, overlapped, requestVars>>

-----------------------------------------------------------------------------
(* What is announced, and which channel a request gets.                    *)

\* enabled = true and health_status <> down
Usable(c) == IsLive(creds[c]) /\ creds[c].enabled /\ creds[c].up

\* The routes that ListRoutes returns to clients, with a channel that can be used.
LiveRoutes == {r \in Routes : IsLive(routes[r]) /\ routes[r].enabled /\ Usable(routes[r].cred)}

\* ListUpstreamModelCapabilities: the mode whose upstream models the server knows, and some
\* of the values it knows of them.
KnownOf(p, m) ==
    [k \in Choices |->
        CASE m # "duoyuan"          -> {}
          [] k = "aspect_ratio"     -> {"16:9", "9:16"}
          [] k = "resolution"       -> IF p = "gemini" THEN {"2K"} ELSE {"1080p"}
          [] k = "duration_seconds" -> IF p = "gemini" THEN {} ELSE {"8"}]

\* ResolveRouteAspectRatios, ResolveRouteResolutions, ResolveRouteDurations: the route's
\* own values, or those known of its upstream model.
Resolved(r, k) ==
    LET c == creds[routes[r].cred] IN
    IF routes[r].shape[k] # {} THEN routes[r].shape[k] ELSE KnownOf(c.provider, c.mode)[k]

\* buildConfiguredProxyCapabilities: the model, and of each parameter for itself every
\* value some route can do.
ModelAnnounced == IsLive(model) /\ model.enabled /\ LiveRoutes # {}

AnnouncedValues(k) == UNION {Resolved(r, k) : r \in LiveRoutes}

\* credentialToCapabilityChannel
OfferedBy(c) ==
    {[provider |-> creds[c].provider, key |-> o.key, scope |-> o.scope] :
        o \in Offer[creds[c].provider][creds[c].mode]}

\* buildProxyCapabilities, when no model is configured; clients see the channels of a
\* provider as one.
AnnouncedChannels == {c \in Credentials : Usable(c)}

ChannelsAnnounced == UNION {OfferedBy(c) : c \in AnnouncedChannels}

\* What a request may name of a parameter, and what it names when it names nothing.
MayName(k) == AnnouncedValues(k) \cup {"any"}
Nothing    == [k \in Choices |-> "any"]

\* Requests for what Capabilities shows.
Announced ==
    IF ModelAnnounced
    THEN [provider : {model.provider}, key : {model.offer.key}, scope : {model.offer.scope},
          names : [aspect_ratio : MayName("aspect_ratio"), resolution : MayName("resolution"),
                   duration_seconds : MayName("duration_seconds")]]
    ELSE {[provider |-> o.provider, key |-> o.key, scope |-> o.scope, names |-> Nothing] :
             o \in ChannelsAnnounced}

MUTMatchingRoutes(q) ==
    {r \in LiveRoutes :
        /\ IsLive(model) /\ model.enabled
        /\ model.provider = q.provider /\ model.offer.key = q.key /\ model.offer.scope = q.scope
        /\ creds[routes[r].cred].provider = q.provider
        /\ \A k \in Choices : q.names[k] = "any" \/ q.names[k] \in routes[r].shape[k]}

\* routeMatchesRequestParamsWithParams: the route restricts nothing the request names to
\* other values.
Accepts(r, names) ==
    \A k \in Choices : names[k] = "any" \/ Resolved(r, k) = {} \/ names[k] \in Resolved(r, k)

\* SelectRouteForParams, up to the order.
MatchingRoutes(q) ==
    {r \in LiveRoutes :
        /\ IsLive(model) /\ model.enabled
        /\ model.provider = q.provider /\ model.offer.key = q.key /\ model.offer.scope = q.scope
        /\ creds[routes[r].cred].provider = q.provider
        /\ Accepts(r, q.names)}

\* selectClientModelRoute, when no route of the model matches: a channel that offers it.
MatchingChannels(q) ==
    {c \in AnnouncedChannels :
        [provider |-> q.provider, key |-> q.key, scope |-> q.scope] \in OfferedBy(c)}

DefaultsFirst(S, isDefault(_)) ==
    IF \E x \in S : isDefault(x) THEN {x \in S : isDefault(x)} ELSE S

\* The channel Generate decides for; none when the set is empty.
RoutedTo(q) ==
    IF MatchingRoutes(q) # {}
    THEN {routes[r].cred : r \in DefaultsFirst(MatchingRoutes(q), LAMBDA r : routes[r].default)}
    ELSE DefaultsFirst(MatchingChannels(q), LAMBDA c : creds[c].default)

-----------------------------------------------------------------------------
(* A generation request.                                                   *)

\* The provider, model, scope and parameters that Generate finds in a body.
RequestFor(q) == [at |-> "storing", wants |-> q, stored |-> 0]

\* readGeneratePayload: images are stored one after the other; one that is too many, too
\* large or of a wrong type refuses the request, and the stored ones are removed.
Generate ==
    /\ occasion # "editing" /\ request = NoRequest
    /\ \E q \in Announced : request' = RequestFor(q)
    /\ UNCHANGED <<uploads, crashed, adminVars>>

StoreUpload ==
    /\ occasion = "storing" /\ request.at = "storing" /\ request.stored < MaxUploads
    /\ request' = [request EXCEPT !.stored = @ + 1] /\ uploads' = uploads + 1
    /\ UNCHANGED <<crashed, adminVars>>

MUTAnswered == request' = NoRequest
               /\ uploads' = uploads - IF request.at = "storing" THEN 0 ELSE request.stored

\* The answer of the handler, whatever it is: the request's images are removed.
Answered == request' = NoRequest /\ uploads' = uploads - request.stored

UploadRefused ==
    /\ request.at = "storing"
    /\ Answered
    /\ UNCHANGED <<crashed, adminVars>>

\* The model's name is replaced by a channel, its mode and its upstream model.
SelectRoute ==
    /\ request.at = "storing"
    /\ \E c \in RoutedTo(request.wants) :
           request' = [at |-> "routed", provider |-> request.wants.provider,
                       stored |-> request.stored, cred |-> c, mode |-> creds[c].mode]
    /\ UNCHANGED <<uploads, crashed, adminVars>>

NoRoute ==
    /\ request.at = "storing" /\ RoutedTo(request.wants) = {}
    /\ Answered
    /\ UNCHANGED <<crashed, adminVars>>

\* SelectByIDForTenantUse in StartTask, once the price for the mode is found.
MayUse(c, provider, mode) ==
    Usable(c) /\ creds[c].provider = provider /\ creds[c].mode = mode

UseCredential ==
    /\ request.at = "routed" /\ MayUse(request.cred, request.provider, request.mode)
    /\ request' = [request EXCEPT !.at = "submitting"]
    /\ UNCHANGED <<uploads, crashed, adminVars>>

CredentialUnavailable ==
    /\ request.at = "routed" /\ ~MayUse(request.cred, request.provider, request.mode)
    /\ Answered
    /\ UNCHANGED <<crashed, adminVars>>

\* StartTask returns, with a task or an error.
TaskStarted ==
    /\ request.at = "submitting"
    /\ Answered
    /\ UNCHANGED <<crashed, adminVars>>

\* The process ends and is started again; nothing looks through the temporary directory.
\* Bound: once.
ServerRestarts ==
    /\ occasion = "storing" /\ request # NoRequest /\ ~crashed
    /\ request' = NoRequest /\ crashed' = TRUE
    /\ editing' = [a \in Admins |-> NoEdit]
    /\ UNCHANGED <<occasion, creds, model, routes, edits, uploads, moved, overlapped>>

-----------------------------------------------------------------------------
AdminStep(a) ==
    \/ CreateCredential(a) \/ UpdateCredential(a) \/ SaveCredential(a)
    \/ UnsetOtherDefaults(a) \/ DeleteCredential(a) \/ CreateModel(a) \/ UpdateModel(a)
    \/ SaveModel(a) \/ DeleteModel(a) \/ EditRoute(a) \/ UnsetOtherRouteDefaults(a) \/ SaveRoute(a)
    \/ DeleteRoute(a)

ChannelsNext ==
    \/ \E a \in Admins : AdminStep(a)
    \/ \E c \in Credentials : MarkHealth(c)
    \/ Generate \/ StoreUpload \/ UploadRefused \/ SelectRoute \/ NoRoute
    \/ UseCredential \/ CredentialUnavailable \/ TaskStarted \/ ServerRestarts

ChannelsSpec == ChannelsInit /\ [][ChannelsNext]_channelVars

-----------------------------------------------------------------------------
(* The properties.                                                         *)

NamesAtMostOne(q) == \E k \in Choices : \A j \in Choices \ {k} : q.names[j] = "any"

\* Of every announced model, with any one of the values announced of any one parameter,
\* there is a channel for Generate, though Capabilities joins the routes of a model and
\* Generate looks for a single route that has everything (proxy.go:225-305,
\* client_model.go:273-343).  Values of two parameters may be announced by two routes and
\* then be refused together.  And a model moved to another provider keeps announcing routes
\* that no request matches: Update does not look at them.
AnnouncedIsServed ==
    moved \/ \A q \in Announced : NamesAtMostOne(q) => RoutedTo(q) # {}

\* Uploaded images outlive their request only when the server was stopped during one
\* (proxy_generate_upload.go:63-155, proxy.go:1329-1420).
UploadsRemoved == request = NoRequest /\ uploads > 0 => crashed
=============================================================================
