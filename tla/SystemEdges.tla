----------------------------- MODULE SystemEdges -----------------------------
(***************************************************************************)
(* What stands at the edges of the system: in the API process the guard in *)
(* front of the model, the realtime gateway, a rate limiter and the        *)
(* admission of calls, which has two limiters of its own; in the browser   *)
(* the console.  They share no state and call nothing of each other here   *)
(* (what one knows of another is an input to it), so that what one does    *)
(* never depends on the others: a behaviour moves one of them and leaves   *)
(* the others as they began.                                               *)
(***************************************************************************)
EXTENDS ModelGuard, RealtimeGateway, RateLimit, ApiRequests, Console

VARIABLE moving

edgeVars == <<modelVars, gatewayVars, limitVars, apiVars, consoleVars, moving>>

EdgesInit ==
    /\ ModelInit /\ GatewayInit /\ RateInit /\ ApiInit /\ ConsoleInit
    /\ moving \in {"MODEL", "GATEWAY", "QUOTA", "API", "CONSOLE"}
    /\ onWorkspace => moving = "CONSOLE"        \* one beginning of what does not move

EdgesNext ==
    /\ UNCHANGED moving
    /\ \/ moving = "MODEL" /\ ModelNext /\ UNCHANGED <<gatewayVars, limitVars, apiVars, consoleVars>>
       \/ moving = "GATEWAY" /\ GatewayNext /\ UNCHANGED <<modelVars, limitVars, apiVars, consoleVars>>
       \/ moving = "QUOTA" /\ RateNext /\ UNCHANGED <<modelVars, gatewayVars, apiVars, consoleVars>>
       \/ moving = "API" /\ ApiNext /\ UNCHANGED <<modelVars, gatewayVars, limitVars, consoleVars>>
       \/ moving = "CONSOLE" /\ ConsoleNext /\ UNCHANGED <<modelVars, gatewayVars, limitVars, apiVars>>

EdgesSpec == EdgesInit /\ [][EdgesNext]_edgeVars /\ ModelFairness

=============================================================================
