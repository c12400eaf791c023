---------------------------- MODULE MCSystemEdges ---------------------------
(* A small instance of SystemEdges for TLC: three calls for two slots and two *)
(* candidate days; two sockets for one place; two keys; two calls of the three  *)
(* surfaces; two productions and a job in the console.                        *)
EXTENDS SystemEdges

CONSTANTS a, b, p, q, r

Prose(denies, names) == [claims |-> FALSE, denies |-> denies, names |-> names]
Entry(day, rank) == [day |-> day, rank |-> rank, reason |-> Prose({"conflicts"}, {day})]
Ranking(ranked) == [kind |-> "RANKING", ranked |-> ranked]

MCWarningsOf == [day \in {a, b} |-> 0]
MCFindings == [conflicts |-> 1, impacts |-> 1, warnings |-> 0]

\* A permutation, a repeated day, a missing day, a gap in the ranks; a narrative
\* that denies a conflict; an interpretation that names a stranger; and what
\* does not parse.
MCAnswers ==
    {Ranking(<<Entry(a, 2), Entry(b, 1)>>), Ranking(<<Entry(a, 1), Entry(a, 2)>>),
     Ranking(<<Entry(a, 1)>>), Ranking(<<Entry(a, 1), Entry(b, 3)>>),
     [kind |-> "NARRATIVE", prose |-> Prose({"conflicts"}, {a})],
     [kind |-> "INTERPRETATION", changes |-> {{a}, {p}}], [kind |-> "MALFORMED"]}

\* Somebody who may write and somebody who may only read, whose token soon
\* expires; a token nobody signed, and one of the future.
Claims(subject, productions, roles, issuedAt, expiresAt) ==
    [shape |-> "claims", subject |-> subject, productions |-> productions, roles |-> roles,
     issuedAt |-> issuedAt, expiresAt |-> expiresAt]
Jane == Claims("jane", {p}, {"requester"}, 0, 9)
Ben == Claims("ben", {p}, {"viewer"}, 0, 1)
Unsigned == [Jane EXCEPT !.shape = "unsigned"]
Early == [Ben EXCEPT !.issuedAt = 2, !.expiresAt = 9]
Offer(surface, address, token, bearer, origin, method, production, route, tool, body) ==
    [surface |-> surface, address |-> address, token |-> token, bearer |-> bearer, origin |-> origin,
     method |-> method, production |-> production, route |-> route, tool |-> tool, body |-> body]
Rest(address, token, method, production, tool, body) ==
    Offer("REST", address, token, "header", "none", method, production,
          IF tool = "none" THEN "own" ELSE "tool", tool, body)
Openly(route, body) == Offer("REST", 1, Jane, "none", "none", "GET", p, route, "none", body)
Socket(token, bearer, origin) == Offer("SOCKET", 1, token, bearer, origin, "GET", p, "none", "none", "VALID")
ToolCall(production, tool, body) == Offer("MCP", 1, Jane, "none", "none", "POST", production, "tool", tool, body)
MCOffers ==
    {Rest(1, Jane, "POST", p, "apply", "VALID"), Rest(2, Jane, "POST", p, "apply", "INVALID"),
     Rest(1, Jane, "POST", q, "none", "VALID"), Rest(2, Ben, "POST", p, "none", "VALID"),
     Rest(2, Ben, "GET", p, "read", "VALID"), Rest(1, Ben, "GET", p, "none", "VALID"),
     Rest(1, Unsigned, "GET", p, "read", "VALID"), Rest(1, Early, "GET", p, "none", "VALID"),
     Rest(1, Jane, "GET", r, "none", "VALID"), [Openly("unknown", "VALID") EXCEPT !.bearer = "header"],
     Openly("ready", "VALID"), Openly("demo-session", "VALID"), Openly("health", "VALID"),
     Openly("health", "BROKEN"), Openly("health", "REFUSED"), Openly("tool", "VALID"),
     [Rest(2, Jane, "POST", p, "none", "VALID") EXCEPT !.route = "outside"],
     [Rest(2, Jane, "POST", p, "none", "VALID") EXCEPT !.route = "garbled scope"],
     [Rest(1, Jane, "GET", p, "none", "VALID") EXCEPT !.route = "garbled name"],
     Socket(Ben, "query", "listed"), Socket(Ben, "query", "none"), Socket(Ben, "none", "same host"),
     ToolCall(p, "apply", "VALID"), ToolCall(p, "apply", "INVALID"), ToolCall(r, "apply", "VALID"),
     ToolCall(p, "read", "VALID")}

=============================================================================
