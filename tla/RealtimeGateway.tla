--------------------------- MODULE RealtimeGateway ---------------------------
(***************************************************************************)
(* The limits of the WebSocket gateway (packages/adapters/ws-gateway/src/  *)
(* index.ts): the upgrade, which authenticates in one turn of the event    *)
(* loop and counts the address in a later one; the message chain of a      *)
(* connection, one message at a time behind an awaited authorization; the  *)
(* message rate; the heartbeat; and close().                               *)
(*                                                                         *)
(* All sockets come from one address.  What is said over a connection, and *)
(* recovered after its loss, is RealtimeRecovery.                          *)
(***************************************************************************)
EXTENDS Naturals, Sequences, FiniteSets, SequencesExt

CONSTANTS
    Sockets,            \* the upgrades that are asked for
    Productions,
    Allowed,            \* the productions authorize answers yes for
    MaxPerAddress,      \* maxConnectionsPerAddress
    MaxSubscriptions,   \* maxSubscriptionsPerClient
    MessageRate,        \* maxMessagesPerSecond: the size of the token bucket
    MaxMessages         \* bound: messages a client sends

ASSUME GatewayAssumption ==
    /\ Allowed \subseteq Productions
    /\ {MaxPerAddress, MaxSubscriptions, MessageRate} \subseteq Nat \ {0}
    /\ MaxMessages \in Nat

VARIABLES
    sockets,        \* each socket's record
    held,           \* connectionsByAddress of the address
    closing,        \* close() was called
    sent            \* messages the clients sent

gatewayVars == <<sockets, held, closing, sent>>

Messages == [type : {"subscribe", "unsubscribe"}, on : Productions]

\* state; chain: the messages not handled yet; authorizing: the productions
\* whose handlers await authorize; followed: the subscriptions; told: the
\* productions the last answer about was "subscribed"; tokens; alive.
NewSocket ==
    [state |-> "NONE", chain |-> <<>>, authorizing |-> {}, followed |-> {}, told |-> {},
     tokens |-> MessageRate, alive |-> TRUE]

GatewayInit ==
    /\ sockets = [s \in Sockets |-> NewSocket]
    /\ held = 0
    /\ closing = FALSE
    /\ sent = 0

\* The members of clients, and the sockets counted for the address: accepted,
\* and not closed yet.  ENDING is an upgrade a closing server turned away.
Connected == {s \in Sockets : sockets[s].state \in {"OPEN", "CLOSING"}}
Counted == Connected \cup {s \in Sockets : sockets[s].state = "ENDING"}

Set(s, record) == sockets' = [sockets EXCEPT ![s] = record]

-----------------------------------------------------------------------------
(* The upgrade.                                                            *)

RequestUpgrade(s) ==
    /\ sockets[s].state = "NONE"
    /\ Set(s, [sockets[s] EXCEPT !.state = "AUTHENTICATING"])
    /\ UNCHANGED <<held, closing, sent>>

HasRoom(count) == count < MaxPerAddress

\* authenticate has answered: a refused or crowded socket is ended, an
\* admitted one is counted in the same turn, and opened unless the server
\* is closing, which turns it away.
FinishUpgrade(s) ==
    /\ sockets[s].state = "AUTHENTICATING"
    /\ \/ Set(s, [sockets[s] EXCEPT !.state = "REFUSED"]) /\ UNCHANGED held
       \/ /\ HasRoom(held)
          /\ held' = held + 1
          /\ Set(s, [sockets[s] EXCEPT !.state = IF closing THEN "ENDING" ELSE "OPEN"])
    /\ UNCHANGED <<closing, sent>>

-----------------------------------------------------------------------------
(* The messages of a connection.                                           *)

\* A message over the rate closes the socket; one within it joins the chain.
Receive(s, message) ==
    /\ s \in Connected /\ sent < MaxMessages
    /\ sent' = sent + 1
    /\ Set(s, IF sockets[s].tokens = 0
              THEN [sockets[s] EXCEPT !.state = "CLOSING"]
              ELSE [sockets[s] EXCEPT !.tokens = @ - 1, !.chain = Append(@, message)])
    /\ UNCHANGED <<held, closing>>

RefillToken(s) ==
    /\ sockets[s].state = "OPEN" /\ sockets[s].tokens < MessageRate
    /\ Set(s, [sockets[s] EXCEPT !.tokens = @ + 1])
    /\ UNCHANGED <<held, closing, sent>>

\* Only an open socket is sent to.
SaySubscribed(record, production) ==
    IF record.state = "OPEN" THEN [record EXCEPT !.told = @ \cup {production}] ELSE record

SayOther(record, production) ==
    IF record.state = "OPEN" THEN [record EXCEPT !.told = @ \ {production}] ELSE record

\* Mutant: a handler that awaits does not hold the next message back.
MayHandleAny(record) == record.chain # <<>>

\* The chain: the next message is handled when the last handler has settled.
MayHandle(record) == record.chain # <<>> /\ record.authorizing = {}

Handle(s) ==
    LET message == Head(sockets[s].chain)
        rest    == [sockets[s] EXCEPT !.chain = Tail(@)]
    IN  /\ MayHandle(sockets[s])
        /\ Set(s,
             IF message.type = "unsubscribe"
             THEN SayOther([rest EXCEPT !.followed = @ \ {message.on}], message.on)
             ELSE IF message.on \in rest.followed THEN SaySubscribed(rest, message.on)
             ELSE IF Cardinality(rest.followed) >= MaxSubscriptions THEN SayOther(rest, message.on)
             ELSE [rest EXCEPT !.authorizing = @ \cup {message.on}])
        /\ UNCHANGED <<held, closing, sent>>

\* authorize has answered, or thrown, which ends the handler without a word.
Authorized(s) ==
    /\ UNCHANGED <<held, closing, sent>>
    /\ \E on \in sockets[s].authorizing :
       LET done == [sockets[s] EXCEPT !.authorizing = @ \ {on}]
       IN  \/ Set(s, IF on \in Allowed
                     THEN SaySubscribed([done EXCEPT !.followed = @ \cup {on}], on)
                     ELSE SayOther(done, on))
           \/ Set(s, done)

-----------------------------------------------------------------------------
(* The end of a connection.                                                *)

\* The socket's close event: the client is gone, the server ended it, or
\* terminated it.  The client leaves clients: what is left of its chain
\* speaks to nobody, and is dropped here.
SocketCloses(s) ==
    /\ s \in Counted
    /\ Set(s, [NewSocket EXCEPT !.state = "CLOSED"])
    /\ held' = held - 1
    /\ UNCHANGED <<closing, sent>>

\* One beat pings everyone who answered the last one and terminates the rest.
Beat ==
    /\ ~closing /\ Connected # {}
    /\ sockets' = [s \in Sockets |->
         IF s \notin Connected THEN sockets[s]
         ELSE IF sockets[s].alive THEN [sockets[s] EXCEPT !.alive = FALSE]
         ELSE [sockets[s] EXCEPT !.state = "CLOSING"]]
    /\ UNCHANGED <<held, closing, sent>>

Pong(s) ==
    /\ s \in Connected /\ ~sockets[s].alive
    /\ Set(s, [sockets[s] EXCEPT !.alive = TRUE])
    /\ UNCHANGED <<held, closing, sent>>

CloseGateway ==
    /\ ~closing
    /\ closing' = TRUE
    /\ sockets' = [s \in Sockets |->
         IF sockets[s].state = "OPEN" THEN [sockets[s] EXCEPT !.state = "CLOSING"] ELSE sockets[s]]
    /\ UNCHANGED <<held, sent>>

GatewayNext ==
    \/ \E s \in Sockets :
         \/ RequestUpgrade(s) \/ FinishUpgrade(s)
         \/ \E message \in Messages : Receive(s, message)
         \/ RefillToken(s) \/ Handle(s) \/ Authorized(s)
         \/ SocketCloses(s) \/ Pong(s)
    \/ Beat \/ CloseGateway

GatewaySpec == GatewayInit /\ [][GatewayNext]_gatewayVars

-----------------------------------------------------------------------------
\* An address is charged for exactly the sockets it holds, never more than
\* its share, however many upgrades authenticate at once (attach).
ConnectionsAreCounted == held = Cardinality(Counted) /\ held <= MaxPerAddress

\* A connection follows only what it was authorized for, never more than its
\* share, however fast its subscribes come (handleMessage, TASK-918).
SubscriptionsAreGranted ==
    \A s \in Sockets :
       sockets[s].followed \subseteq Allowed /\ Cardinality(sockets[s].followed) <= MaxSubscriptions

\* A client can believe the last thing it was told about a production: it gets
\* its notifications exactly when that was "subscribed".
AnswersTellWhoIsFollowed ==
    \A s \in Sockets : sockets[s].state = "OPEN" => sockets[s].followed = sockets[s].told

\* What an address, and a client, may rely on.
GatewayKeepsItsLimits ==
    ConnectionsAreCounted /\ SubscriptionsAreGranted /\ AnswersTellWhoIsFollowed

=============================================================================
