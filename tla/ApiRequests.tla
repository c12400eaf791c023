----------------------------- MODULE ApiRequests -----------------------------
(***************************************************************************)
(* What a call passes before it reaches a use case, on the three surfaces  *)
(* of the system: the REST API (apps/api/src/app.ts, invoke.ts), the       *)
(* WebSocket upgrade (apps/api/src/server.ts) and the MCP server           *)
(* (apps/mcp-server/src/server.ts), with the access tokens of              *)
(* packages/adapters/local-auth and two rate limiters, one that counts the *)
(* requests of an address and one the writes of a principal.               *)
(*                                                                         *)
(* A call runs without interruption up to its first await; what it awaits  *)
(* (the verification of its token, the store's probe, its handler) ends in *)
(* a later step, so that calls overlap and tokens expire in between.         *)
(*                                                                         *)
(* Abstractions.  A token is what its signature covers.  A body is what    *)
(* the parser (it is BROKEN: no JSON, or REFUSED: too large, or of an      *)
(* unknown charset or encoding) and its schema (it is INVALID) make of it. *)
(* A path is the route it leads to, if it leads to one and can be decoded. *)
(* A handler is its outcome: use cases are other modules.  Correlation IDs, headers, log lines and the console's files   *)
(* are left out.                                                           *)
(***************************************************************************)
EXTENDS Integers, FiniteSets

CONSTANTS
    Slots,              \* the calls of a behaviour, 1..n, made in this order
    Offers,             \* the calls that may be made
    Addresses, Subjects,
    AllowedProductionIds,   \* the server's allow-list
    Wired,              \* the tools that have a handler
    DemoSession,        \* whether this server issues demo sessions
    RequestsPerMinute, WritesPerMinute, Minute, SweptAbove,
    Skew,               \* how early a token may be used
    LastTick            \* bound: the clock of the model

ASSUME ApiAssumption ==
    /\ Slots \subseteq Nat /\ IsFiniteSet(Slots)
    /\ {RequestsPerMinute, WritesPerMinute, Minute} \subseteq Nat \ {0}
    /\ SweptAbove \in Nat /\ LastTick \in Nat

\* A token has a role and expires sometime; a wired tool is called as a tool.
ASSUME OffersAreCalls ==
    \A offer \in Offers :
       /\ offer.surface \in {"REST", "SOCKET", "MCP"} /\ offer.address \in Addresses
       /\ offer.tool \in Wired => offer.route = "tool"
       /\ offer.token.shape \in {"claims", "unsigned", "malformed"} /\ offer.token.subject \in Subjects
       /\ offer.token.roles \in (SUBSET {"viewer", "requester", "approver"}) \ {{}}
       /\ offer.token.expiresAt \in Int

VARIABLES
    clock,
    addressWindows, addressServed, addressRetryAt,      \* the limiter of requests
    subjectWindows, subjectServed, subjectRetryAt,      \* the limiter of writes
    requests            \* each call: how far it is, and what it was answered

addressVars == <<addressWindows, addressServed, addressRetryAt>>
subjectVars == <<subjectWindows, subjectServed, subjectRetryAt>>
apiVars == <<clock, addressVars, subjectVars, requests>>

RequestLimiter == INSTANCE RateLimit WITH
    Keys <- Addresses, Limit <- RequestsPerMinute, Window <- Minute, SweepAbove <- SweptAbove,
    LastSecond <- LastTick, now <- clock, windows <- addressWindows, served <- addressServed,
    retryAt <- addressRetryAt

WriteLimiter == INSTANCE RateLimit WITH
    Keys <- Subjects, Limit <- WritesPerMinute, Window <- Minute, SweepAbove <- SweptAbove,
    LastSecond <- LastTick, now <- clock, windows <- subjectWindows, served <- subjectServed,
    retryAt <- subjectRetryAt

-----------------------------------------------------------------------------
(* Tokens and answers.                                                     *)

\* The order of the checks of a token; it expires at expiresAt, and one that
\* was issued a little in the future is taken.
VerifyToken(token) ==
    IF token.shape = "malformed" THEN "MALFORMED"
    ELSE IF token.shape = "unsigned" THEN "BAD_SIGNATURE"
    ELSE IF token.issuedAt > clock + Skew THEN "NOT_YET_VALID"
    ELSE IF token.expiresAt <= clock THEN "EXPIRED"
    ELSE "OK"

RoleRank == [viewer |-> 1, requester |-> 2, approver |-> 3]
PrincipalHasRole(token, role) == \E held \in token.roles : RoleRank[held] >= RoleRank[role]
PrincipalMayAccess(token, production) == production \in token.productions
Authorize(production) == production \in AllowedProductionIds
RoleForMethod(method) == IF method = "GET" THEN "viewer" ELSE "requester"

HttpStatusByCode ==
    [OK |-> 200, ENTITY_NOT_FOUND |-> 404, PROPOSAL_INVALID |-> 422, TOOL_UNAUTHORIZED |-> 403,
     UNAUTHENTICATED |-> 401, RATE_LIMITED |-> 429, INVALID_INPUT |-> 400, INTERNAL_ERROR |-> 500,
     NOT_READY |-> 503]

\* What a handler may do: return a value or a refusal, return a value that is
\* not what its contract says, or throw.
Outcomes == {"OK", "PROPOSAL_INVALID", "BAD_OUTPUT", "THROWS"}
AnswerOf(outcome) == IF outcome \in {"BAD_OUTPUT", "THROWS"} THEN "INTERNAL_ERROR" ELSE outcome

\* The error handler: of all that a request may raise before its handler it
\* knows a body that is no JSON as the caller's fault, the rest is a failure.
CodeOfError(raised) == IF raised = "BROKEN" THEN "INVALID_INPUT" ELSE "INTERNAL_ERROR"

\* How far a call is, what its token was found to be and when, the gate that
\* answered it, with what, and what its handler did.
Unsent == [stage |-> "unsent", gate |-> "none", code |-> "none", outcome |-> "none"]

ApiInit ==
    /\ clock = 0
    /\ RequestLimiter!RateInit
    /\ WriteLimiter!RateInit
    /\ requests = [i \in Slots |-> Unsent]

Moves(i, call) == requests' = [requests EXCEPT ![i] = call]
Replies(i, call, gate, code) ==
    Moves(i, [call EXCEPT !.stage = "answered", !.gate = gate, !.code = code])

-----------------------------------------------------------------------------
(* A call arrives.                                                         *)

\* Past the limiter of requests: three routes are open, the rest waits for the
\* verification of a token.
RouteOpenly(i, call) ==
    CASE call.offer.route = "health" -> Replies(i, call, "open", "OK")
      [] call.offer.route = "ready" -> Moves(i, [call EXCEPT !.stage = "probing"])
      [] call.offer.route = "demo-session" ->
           IF DemoSession THEN Moves(i, [call EXCEPT !.stage = "issuing"])
           ELSE Replies(i, call, "open", "ENTITY_NOT_FOUND")
      [] OTHER ->
           IF call.offer.bearer = "none" THEN Replies(i, call, "identity", "UNAUTHENTICATED")
           ELSE Moves(i, [call EXCEPT !.stage = "verifying"])

\* The body is parsed before the request is counted.
ReceiveRequest(i, call) ==
    IF call.offer.body \in {"BROKEN", "REFUSED"}
    THEN Replies(i, call, "body", CodeOfError(call.offer.body)) /\ UNCHANGED addressVars
    ELSE /\ RequestLimiter!Hit(call.offer.address)
         /\ IF RequestLimiter!IsOver(call.offer.address)
            THEN Replies(i, call, "address", "RATE_LIMITED")
            ELSE RouteOpenly(i, call)

\* An upgrade comes from a page this server trusts or carries its token in a
\* header; the gateway counts it (RealtimeGateway).
OriginAllowed(offer) ==
    IF offer.origin = "none" THEN offer.bearer # "query" ELSE offer.origin \in {"same host", "listed"}

ReceiveUpgrade(i, call) ==
    /\ IF ~OriginAllowed(call.offer) THEN Replies(i, call, "origin", "TOOL_UNAUTHORIZED")
       ELSE IF call.offer.bearer = "none" THEN Replies(i, call, "identity", "UNAUTHENTICATED")
       ELSE Moves(i, [call EXCEPT !.stage = "verifying"])
    /\ UNCHANGED addressVars

\* A tool call of the MCP server, whose principal is fixed when it starts.
ReceiveToolCall(i, call) ==
    /\ IF call.offer.tool \notin Wired THEN Replies(i, call, "route", "TOOL_UNAUTHORIZED")
       ELSE IF call.offer.body # "VALID" THEN Replies(i, call, "route", "INVALID_INPUT")
       ELSE IF ~Authorize(call.offer.production) THEN Replies(i, call, "scope", "TOOL_UNAUTHORIZED")
       ELSE Moves(i, [call EXCEPT !.stage = "handling"])
    /\ UNCHANGED addressVars

Arrive(i, offer) ==
    LET call == [stage |-> "arrived", offer |-> offer, verdict |-> VerifyToken(offer.token),
                 verifiedAt |-> clock, gate |-> "none", code |-> "none", outcome |-> "none"]
    IN /\ requests[i] = Unsent
       /\ \A j \in Slots : j < i => requests[j] # Unsent
       /\ CASE offer.surface = "REST" -> ReceiveRequest(i, call)
            [] offer.surface = "SOCKET" -> ReceiveUpgrade(i, call)
            [] offer.surface = "MCP" -> ReceiveToolCall(i, call)
       /\ UNCHANGED <<clock, subjectVars>>

-----------------------------------------------------------------------------
(* What a call awaited has ended.                                          *)

IsAt(i, stage) == requests[i].stage = stage

\* GET /ready: the probe answers, answers that it has no store, or throws; the
\* queue or the tracker may throw too.
ProbeEnds(i) ==
    /\ IsAt(i, "probing")
    /\ \E code \in {"OK", "NOT_READY", "INTERNAL_ERROR"} : Replies(i, requests[i], "open", code)
    /\ UNCHANGED <<clock, addressVars, subjectVars>>

\* GET /auth/demo-session: the token just issued is verified.
DemoSessionEnds(i) ==
    /\ IsAt(i, "issuing")
    /\ \E code \in {"OK", "INTERNAL_ERROR"} : Replies(i, requests[i], "open", code)
    /\ UNCHANGED <<clock, addressVars, subjectVars>>

\* A tool's input is held against its contract before its handler is looked for.
InvokeTool(i, call) ==
    IF call.offer.body # "VALID" THEN Replies(i, call, "route", "INVALID_INPUT")
    ELSE IF call.offer.tool \notin Wired THEN Replies(i, call, "route", "INTERNAL_ERROR")
    ELSE Moves(i, [call EXCEPT !.stage = "handling"])

\* A route with a schema of its own: explanations, intake, lists and reads.
OwnRoute(i, call) ==
    IF call.offer.body # "VALID" THEN Replies(i, call, "route", "INVALID_INPUT")
    ELSE Moves(i, [call EXCEPT !.stage = "handling"])

\* A name in the path that does not decode fails in the router.
Route(i, call) ==
    CASE call.offer.route = "tool" -> InvokeTool(i, call)
      [] call.offer.route = "own" -> OwnRoute(i, call)
      [] call.offer.route = "garbled name" -> Replies(i, call, "route", CodeOfError("a name"))
      [] OTHER -> Replies(i, call, "route", "ENTITY_NOT_FOUND")

\* Why the production is out of the call's reach, or "none".
Denied(offer) ==
    IF ~Authorize(offer.production) THEN "allow-list"
    ELSE IF ~PrincipalMayAccess(offer.token, offer.production) THEN "grant"
    ELSE IF ~PrincipalHasRole(offer.token, RoleForMethod(offer.method)) THEN "role"
    ELSE "none"

\* Mutant: a write is counted before its caller is looked at.
CountFirst(i, call) ==
    IF call.offer.method = "GET"
    THEN /\ IF Denied(call.offer) # "none" THEN Replies(i, call, "scope", "TOOL_UNAUTHORIZED") ELSE Route(i, call)
         /\ UNCHANGED subjectVars
    ELSE /\ WriteLimiter!Hit(call.offer.token.subject)
         /\ IF WriteLimiter!IsOver(call.offer.token.subject)
            THEN Replies(i, call, "writes", "RATE_LIMITED")
            ELSE IF Denied(call.offer) # "none" THEN Replies(i, call, "scope", "TOOL_UNAUTHORIZED")
            ELSE Route(i, call)

\* A write is counted once everything else about its caller holds.
Admit(i, call) ==
    IF Denied(call.offer) # "none"
    THEN Replies(i, call, "scope", "TOOL_UNAUTHORIZED") /\ UNCHANGED subjectVars
    ELSE IF call.offer.method = "GET" THEN Route(i, call) /\ UNCHANGED subjectVars
    ELSE /\ WriteLimiter!Hit(call.offer.token.subject)
         /\ IF WriteLimiter!IsOver(call.offer.token.subject)
            THEN Replies(i, call, "writes", "RATE_LIMITED")
            ELSE Route(i, call)

\* A path under no production, or under one whose name does not decode, is out
\* of the reach of the checks of a production: the end of the router answers it.
LeadsNowhere(offer) == offer.route \in {"outside", "garbled scope"}

VerificationEnds(i) ==
    /\ IsAt(i, "verifying")
    /\ IF requests[i].verdict # "OK"
       THEN Replies(i, requests[i], "identity", "UNAUTHENTICATED") /\ UNCHANGED subjectVars
       ELSE IF requests[i].offer.surface = "SOCKET"
       THEN Replies(i, requests[i], "upgrade", "OK") /\ UNCHANGED subjectVars
       ELSE IF LeadsNowhere(requests[i].offer)
       THEN /\ Replies(i, requests[i], "path",
                       IF requests[i].offer.route = "outside" THEN "ENTITY_NOT_FOUND" ELSE CodeOfError("a name"))
            /\ UNCHANGED subjectVars
       ELSE Admit(i, requests[i])
    /\ UNCHANGED <<clock, addressVars>>

\* The handler ends; what a tool returned is held against its contract.
HandlerEnds(i) ==
    /\ IsAt(i, "handling")
    /\ \E outcome \in Outcomes :
         /\ outcome = "BAD_OUTPUT" => requests[i].offer.tool # "none"
         /\ Replies(i, [requests[i] EXCEPT !.outcome = outcome], "handler", AnswerOf(outcome))
    /\ UNCHANGED <<clock, addressVars, subjectVars>>

Tick ==
    /\ clock < LastTick
    /\ clock' = clock + 1
    /\ UNCHANGED <<addressVars, subjectVars, requests>>

\* authorize of the gateway: what a connected socket may subscribe to.
MaySubscribe(offer) ==
    Authorize(offer.production) /\ PrincipalMayAccess(offer.token, offer.production)

ApiNext ==
    \/ \E i \in Slots : \E offer \in Offers : Arrive(i, offer)
    \/ \E i \in Slots : ProbeEnds(i) \/ DemoSessionEnds(i) \/ VerificationEnds(i) \/ HandlerEnds(i)
    \/ Tick

-----------------------------------------------------------------------------
Sent == {i \in Slots : requests[i] # Unsent}
On(surface) == {i \in Sent : requests[i].offer.surface = surface}
HasRun(i) == requests[i].stage = "handling" \/ requests[i].gate = "handler"

\* A request that reaches a use case did so with a token that was valid when it
\* was read, of somebody who may act on the production in this way.
RequestsAreEntitled ==
    \A i \in On("REST") :
       HasRun(i) =>
         LET offer == requests[i].offer IN
         /\ offer.token.shape = "claims"
         /\ requests[i].verifiedAt < offer.token.expiresAt
         /\ offer.production \in AllowedProductionIds \cap offer.token.productions
         /\ offer.method # "GET" => offer.token.roles \cap {"requester", "approver"} # {}

\* The limiters have let through exactly the requests they answer for: an
\* address pays for every request it makes, a principal only for the writes it
\* may make, whoever else uses its address and whatever its other requests
\* were refused for.
QuotasArePaidOnce ==
    /\ \A a \in Addresses :
         addressServed[a][LastTick]
           = Cardinality({i \in On("REST") :
                            requests[i].offer.address = a /\ requests[i].gate \notin {"body", "address"}})
    /\ \A p \in Subjects :
         subjectServed[p][LastTick]
           = Cardinality({i \in On("REST") :
                            /\ requests[i].offer.token.subject = p /\ requests[i].offer.method # "GET"
                            /\ HasRun(i) \/ requests[i].gate = "route"})

\* A tool does the same over REST and over MCP: two calls for one production
\* the server acts on, with one input and one outcome, get one answer, once
\* REST has found its caller entitled.
SurfacesAgree ==
    \A i \in On("MCP"), j \in On("REST") :
       LET tool == requests[i]
           route == requests[j]
       IN /\ tool.stage = "answered" /\ route.stage = "answered" /\ route.gate \in {"route", "handler"}
          /\ tool.offer.tool = route.offer.tool /\ tool.offer.tool \in Wired
          /\ tool.offer.body = route.offer.body /\ Authorize(tool.offer.production) /\ tool.outcome = route.outcome
          => tool.code = route.code

\* A connected socket may follow exactly the productions its token may read.
SocketsSeeWhatReadsSee ==
    \A i \in On("SOCKET"), j \in On("REST") :
       LET read == requests[j].offer IN
       /\ requests[i].gate = "upgrade" /\ requests[i].offer.token = read.token /\ read.method = "GET"
       /\ read.production = requests[i].offer.production /\ requests[j].gate \in {"scope", "route", "handler"}
       => (MaySubscribe(requests[i].offer) <=> requests[j].gate # "scope")

\* What failed within the server.
FailedWithin(call) ==
    \/ call.gate = "open"
    \/ call.gate = "handler" /\ call.outcome \in {"BAD_OUTPUT", "THROWS"}
    \/ call.gate = "route" /\ call.offer.route = "tool" /\ call.offer.tool \notin Wired

\* What could not even be read: a body the parser refused, a path with a name
\* that does not decode.
WasUnreadable(call) ==
    \/ call.gate = "body" /\ call.offer.body = "REFUSED"
    \/ call.gate = "path" /\ call.offer.route = "garbled scope"
    \/ call.gate = "route" /\ call.offer.route = "garbled name"

\* A call is answered as the server's failure when it failed within the server
\* and, of all that is the caller's fault, only when it could not be read.
FailuresAreTheServersOrUnreadable ==
    \A i \in Sent :
       requests[i].stage = "answered" /\ HttpStatusByCode[requests[i].code] >= 500 =>
          FailedWithin(requests[i]) \/ WasUnreadable(requests[i])

\* What callers of the three surfaces may rely on (app.ts, server.ts, invoke.ts).
CallsAreAdmitted ==
    /\ RequestsAreEntitled
    /\ QuotasArePaidOnce
    /\ SurfacesAgree
    /\ SocketsSeeWhatReadsSee
    /\ FailuresAreTheServersOrUnreadable
    /\ RequestLimiter!QuotaIsKept
    /\ WriteLimiter!QuotaIsKept

=============================================================================
